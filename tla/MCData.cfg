SPECIFICATION DataSpec
CONSTANTS
  MaxN = 2
  MaxC = 2
  MaxH = 3
  MaxW = 3
  MaxPad = 2
  Half = 4
  PageSize = 4
  Gran = 2
  MaxPages = 3
  Iovas = {4, 8, 12, 20}
  Numbers = {0, 1, 3, 4, 8, 15}
  FifoNid = {6}
  Samples <- MCSamples
  BitOr <- MCBitOr
CHECK_DEADLOCK FALSE
INVARIANTS
  Placed RoundTrip
  AddressWhole KrnInside
  Independent
  HalfRoundTrip Nearest
