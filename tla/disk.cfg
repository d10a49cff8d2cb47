SPECIFICATION Spec
CONSTANTS
  t1 = t1
  t2 = t2
  v1 = v1
  v2 = v2
  Threads <- MCThreads
  Disks = {0, 1}
  DiskSize <- MCDiskSize
  Blocks = {"filesys", "scratch", "swap"}
  DiskOf <- MCDiskOf
  Start <- MCStart
  Size <- MCSize
  Values <- MCValues
  NoValue = NoValue
  Nobody = Nobody
  MaxStrays = 1
  MaxFaults = 1
INVARIANTS
  QuietWhenFree
PROPERTIES
  ImplementsStore
  ChannelReturned
CHECK_DEADLOCK FALSE
