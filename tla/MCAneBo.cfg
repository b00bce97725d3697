SPECIFICATION Spec
CONSTANTS
  Clients = {c1, c2}
  Bos = {b1, b2}
  MaxPages = 4
  VmBase = 1
  VmSize = 3
  WrapPages = 3
  MaxRef = 2
  MaxVmas = 2
  None = None
SYMMETRY Symm
INVARIANTS TypeOK IommuMatchesMm LeakOnlyByClose RefCoversUse FlushedBeforeRelease
PROPERTIES TranslationStable ImplementsIovaSpace
