CONSTANTS
  ULL <- MCULL
  Configs <- BootRecordConfigs
  Images <- MCImages
  NoImage = NoImage
  ImageSize <- MCImageSize
  ImageHoles <- MCImageHoles
  BuiltSize <- MCBuiltSize
  Word32 = 128
  GptSlots = 3
SPECIFICATION GSpec
INVARIANT
  BootRecordsSurvive
