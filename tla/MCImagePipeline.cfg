CONSTANTS
  Values <- MCValues
  FsBlock = 2
  HaveFiemap = TRUE
  CanPunch = TRUE
  NoSub = NoSub
  Buf = 2
  MaxFaults = 1
  PebSize = 2
  NumPebs = 5
  Erased = 255
  NoChild = NoChild
  Step512 = 2
  ChunkHeader = 1
  SizeMod = 8
  Configs <- MCConfigs
  MaxPos = 13
SPECIFICATION Spec
INVARIANTS
  TypeOK
  FlashImageComplete
  SparseDecodes
PROPERTIES
  InsertsRange
  InputKept
  Terminates
