CONSTANTS
  Files <- MCFiles
  NoFile = NoFile
  Flashes <- MCFlashes
  NoFlash = NoFlash
  Configs <- FlashConfigs
SPECIFICATION Spec
INVARIANT
  FlashTypesPropagated
