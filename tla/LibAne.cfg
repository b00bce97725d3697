SPECIFICATION FairSpec
CONSTANTS
  Nodes = 4
  MaxDevices = 2
  TileSize = 6
  U32 = 16
  SegWords = {0, 1, 2, 3, 4, 5}
  TextSizes = {0, 3, 8, 20}
INVARIANTS NothingKept RightDevice BtspHolds
PROPERTIES UnmapFirst InitReturns
