SPECIFICATION Spec
CONSTANTS
  MaxLen = 5
  Keys = {0, 1, 2}
PROPERTY SortsByRank
CHECK_DEADLOCK FALSE
