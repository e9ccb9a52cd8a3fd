CONSTANTS
  Images <- MCImages
  Kind <- MCKind
  Holds <- MCHolds
  Table <- MCTable
  Needs <- MCNeeds
  Payloads <- MCPayloads
  Absent = Absent
  Torn = Torn
  BaseNames <- MCBaseNames
  MaxRuns = 3
  MaxSwaps = 1
  MaxFaults = 1
  MaxKills = 1
SPECIFICATION Spec
INVARIANTS
  TypeOK
  ExitZeroMeansDone
  FreshConversion
PROPERTIES
  Terminates
CHECK_DEADLOCK FALSE
