SPECIFICATION Spec
CONSTANTS
  o1 = o1
  o2 = o2
  o3 = o3
  b1 = b1
  b2 = b2
  Objects <- MCTwo
  PidOf <- MCPidOfTwo
  Cards = {0}
  Bits = {b1, b2}
  MaxTag = 1
  StaleTags = {0, 1}
  NoLockOpens = TRUE
  Clearlock = "always"
INVARIANT TypeOK
INVARIANT TablesAgree
INVARIANT NoOrphanedLock
PROPERTY NoTakeOver
PROPERTY HeldUntilClose
PROPERTY LockMaskIsOfOthers
PROPERTY ImplementsLockManager
