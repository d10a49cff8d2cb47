SPECIFICATION Spec
CONSTANTS
  main = main  t1 = t1  t2 = t2
  a = a  b = b
  Threads = {main, t1, t2}
  Main = main
  Idle = idle
  NULL = NULL
  Locks = {tid_lock, a, b}
  TidLock = tid_lock
  Semas = {}
  Conds = {}
  PRI_MAX = 3
  TIME_SLICE = 1
  PRI_DONATION_MAX_DEPTH = 3
  BootList <- BootBoth
  InitPriority <- Falling
  MaxSleep = 1
  MaxLag = 1
  CondLock <- CondOfA
  DeviceSemas = {}
  Calls = {"timer_sleep", "lock_acquire", "lock_try_acquire", "thread_set_priority"}
  HoldingCalls = {"lock_acquire"}
  MayNest <- AnyOrder
  NewPriorities = {0}
  MaxCalls = 2
  MaxValue = 1
INVARIANTS
  TypeOK
  LockAccounting
  OneList
