SPECIFICATION Spec
CONSTANTS
  p = p
  q = q
  Procs <- MCProcs
  Names = {"sh", "a"}
  Program = "sh"
  MaxSector = 6
  Slots = 2
  Lengths <- MCLengths
  Values = {"zeros", "ones"}
  MaxInodes = 4
  MaxLoads = 2
  MaxCrashes = 1
INVARIANTS
  EntriesBacked
  SectorsAccounted
  OpensCounted
PROPERTIES
  OnlyLoadsRace
  ImplementsFileStore
  CallsReturn
CHECK_DEADLOCK FALSE
