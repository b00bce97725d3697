SPECIFICATION FairSpec
CONSTANTS
  Clients = {c1, c2}
  Bos = {b1, b2}
  MaxPages = 4
  VmBase = 1
  VmSize = 2
  WrapPages = 3
  MaxRef = 2
  MaxVmas = 1
  None = None
PROPERTIES IoctlReturns
