SPECIFICATION Spec
CONSTANTS
  main = main  t1 = t1  t2 = t2
  a = a  b = b
  Threads = {main, t1, t2}
  Main = main
  Idle = idle
  NULL = NULL
  Locks = {tid_lock, a}
  TidLock = tid_lock
  Semas = {s}
  Conds = {c}
  PRI_MAX = 3
  TIME_SLICE = 1
  PRI_DONATION_MAX_DEPTH = 3
  BootList <- BootBoth
  InitPriority <- Equal
  MaxSleep = 1
  MaxLag = 1
  CondLock <- CondOfA
  DeviceSemas = {s}
  Calls = {"lock_acquire", "cond_wait", "cond_signal", "cond_broadcast","sema_down", "sema_up", "sema_try_down"}
  HoldingCalls = {"cond_wait", "cond_signal", "cond_broadcast"}
  MayNest = {}
  NewPriorities = {}
  MaxCalls = 2
  MaxValue = 1
INVARIANTS
  SignalAccounting
  NoLostWakeup
