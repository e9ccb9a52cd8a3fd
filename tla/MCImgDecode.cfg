CONSTANTS
  Names <- MCNames
  Subtypes <- MCSubtypes
  DirLength <- MCDirLength
  MaxDir = 3
  Word = 16
  Inputs <- MCInputs
  ParserBuffer = 3
SPECIFICATION Spec
INVARIANTS
  UnpackComplete
  SameContents
  PrefixDecoded
