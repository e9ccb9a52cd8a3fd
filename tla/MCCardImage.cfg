CONSTANTS
  ULL <- MCULL
  UINT <- MCUINT
  Configs <- MCConfigs
  Images <- MCImages
  NoImage = NoImage
  NoDownload = NoDownload
  ImageSize <- MCImageSize
  ImageHoles <- MCImageHoles
  Fexes <- MCFexes
SPECIFICATION CardSpec
INVARIANTS
  RefusedIffUnfit
  PartitionsFollow
  ReportedSizeSuffices
