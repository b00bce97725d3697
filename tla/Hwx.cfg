SPECIFICATION FairSpec
CONSTANTS
  FileSizes = {0, 7}
  HdrSize = 1
  LcSize = 1
  SegSize = 2
  SecSize = 1
  StateSize = 1
  U64 = 10
  Values = {0, 2, 9}
  MaxCmds = 2
  MaxSects = 2
  MaxWords = 1
INVARIANTS TypeOK ReadsInFile HeapExact ReadsAgree
PROPERTIES OpenReturns
