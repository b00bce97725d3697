SPECIFICATION Spec
CONSTANTS
  Clients = {c1, c2}
  Bos = {b1, b2}
  MaxPages = 4
  VmBase = 1
  VmSize = 4
  WrapPages = 3
  MaxRef = 3
  MaxVmas = 2
  None = None
SYMMETRY Symm
INVARIANT IovaBelowMax
