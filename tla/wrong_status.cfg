SPECIFICATION Spec
CONSTANTS
  MaxPid = 5
  Statuses <- MCStatuses
  Programs <- MCOrphans
INVARIANTS
  WaitReturnsStatus
CHECK_DEADLOCK FALSE
