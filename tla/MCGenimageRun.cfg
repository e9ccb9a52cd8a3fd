CONSTANTS
  Files <- MCFiles
  NoFile = NoFile
  Flashes <- MCFlashes
  NoFlash = NoFlash
  Configs <- AllConfigs
  OptionNames <- MCOptionNames
  NotInFile = {"config"}
  Default <- MCDefault
  Unset = Unset
  HaveSearchPath = FALSE
  Spelling <- MCSpelling
  DotNames <- MCDotNames
  Roots <- MCRoots
  Scenarios <- MCScenarios
SPECIFICATION RunSpec
INVARIANTS
  TypeOK
  ChildrenFirst
  RecursionIsReal
  GeneratedOnce
  PathsSettled
  TreesAsMounted
  OutputsAsDeclared
PROPERTIES
  Terminates
  BuildsInOrder
