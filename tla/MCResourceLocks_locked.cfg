SPECIFICATION FairSpec
CONSTANTS
  o1 = o1
  o2 = o2
  o3 = o3
  b1 = b1
  b2 = b2
  Objects <- MCObjects
  PidOf <- MCPidOf
  Cards = {0}
  Bits = {b1, b2}
  MaxTag = 2
  StaleTags = {0}
  NoLockOpens = FALSE
  Clearlock = "never"
INVARIANT MutualExclusion
PROPERTY LocksOfTheDeadFreed
