CONSTANTS
  Files <- MCFiles
  NoFile = NoFile
  Flashes <- MCFlashes
  NoFlash = NoFlash
  Configs <- MCConfigs
SPECIFICATION Spec
INVARIANT
  SuccessMeansOutputs
