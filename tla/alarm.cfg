SPECIFICATION Spec
CONSTANTS
  main = main  t1 = t1  t2 = t2
  a = a  b = b
  Threads = {main, t1, t2}
  Main = main
  Idle = idle
  NULL = NULL
  Locks = {tid_lock, a}
  TidLock = tid_lock
  Semas = {}
  Conds = {}
  PRI_MAX = 3
  TIME_SLICE = 2
  PRI_DONATION_MAX_DEPTH = 3
  BootList <- BootNone
  InitPriority <- Falling
  MaxSleep = 2
  MaxLag = 2
  CondLock <- CondOfA
  DeviceSemas = {}
  Calls = {"timer_sleep", "lock_acquire", "thread_yield", "thread_create"}
  HoldingCalls = {}
  MayNest = {}
  NewPriorities = {0, 2}
  MaxCalls = 3
  MaxValue = 1
INVARIANTS
  PriorityOrder
  AnnouncedWaitersDonate
  SleepsLongEnough
  OneList
PROPERTIES
  WakesAllDue
