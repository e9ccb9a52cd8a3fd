CONSTANTS
  ULL <- MCULL
  Configs <- MCConfigs
  Images <- MCImages
  NoImage = NoImage
  ImageSize <- MCImageSize
  ImageHoles <- MCImageHoles
SPECIFICATION Spec
INVARIANTS
  TypeOK
  NothingWraps
  AreasDisjoint
  AreasInImage
  AutoPlacedAfter
  BootRecordRoom
  FileSizeCoversData
  AutoLayoutFits
PROPERTIES
  SpaceOnlyGrows
  LaysOutDisk
