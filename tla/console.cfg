SPECIFICATION Spec
CONSTANTS
  r1 = r1
  r2 = r2
  Readers <- MCReaders
  Crowds <- MCCrowds
  Writer = w
  Keys = {k}
  Characters = {c, d}
  BufSize = 3
  MaxPolled = 1
  NoByte = NoByte
  NoThread = NoThread
INVARIANTS
  NobodyForgotten
  PortArmed
PROPERTIES
  BytesInOrder
  CallersServed
CHECK_DEADLOCK FALSE
