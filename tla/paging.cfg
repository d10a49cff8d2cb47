SPECIFICATION Spec
CONSTANTS
  p = p
  q = q
  v1 = v1
  v2 = v2
  Procs <- MCProcs
  Pages <- MCPages
  Owner <- MCOwner
  Layouts <- MCLayouts
  Frames = {1, 2}
  Slots = {1, 2}
  Values <- MCValues
  Junk = Junk
  Nobody = Nobody
  NoPage = NoPage
  NoFrame = 0
  NoSlot = 0
SYMMETRY Symmetry
CONSTRAINT Explored
INVARIANTS
  FramesOwned
  SlotsOwned
  PinHolds
  OnlyKnownStops
PROPERTIES
  ImplementsMemory
CHECK_DEADLOCK FALSE
