SPECIFICATION Spec
CONSTANTS
  MaxPid = 4
  Statuses <- MCStatuses
  Programs <- MCPrograms
INVARIANTS
  RecordsOwned
  StaleOnlyAfterMishap
  OnlyKnownPanics
  ExecTold
PROPERTIES
  ImplementsChildStatus
  CallsAnswered
CHECK_DEADLOCK FALSE
