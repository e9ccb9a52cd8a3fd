CONSTANTS
  ULL <- MCULL
  Configs <- GenerateConfigs
  Images <- MCImages
  NoImage = NoImage
  ImageSize <- MCImageSize
  ImageHoles <- MCImageHoles
  BuiltSize <- MCBuiltSize
  Word32 = 128
  GptSlots = 3
SPECIFICATION GSpec
INVARIANTS
  GTypeOK
  DataSurvives
  TablesDescribeLayout
  LogicalChain
  FailuresExplained
