CONSTANTS
  Images <- MCImages
  Kind <- MCKind
  Holds <- MCHolds
  Table <- MCTable
  Needs <- MCNeeds
  Payloads <- MCPayloads
  Absent = Absent
  Torn = Torn
  BaseNames <- ImageBaseNames
  MaxRuns = 2
  MaxSwaps = 0
  MaxFaults = 0
  MaxKills = 0
SPECIFICATION Spec
INVARIANTS
  PackAfterUnpackCfg
CHECK_DEADLOCK FALSE
