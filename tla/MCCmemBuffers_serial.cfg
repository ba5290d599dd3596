SPECIFICATION Spec
CONSTANTS
  Files = {f1, f2}
  MaxBuffs = 2
  Nodes = {1, 2, 3, 4}
  PoolSize = 3
  Blocks = 1
  Counts = {1, 2}
  Serial = TRUE
  Foreign = FALSE
  Freelock = "closed"
SYMMETRY Symmetry
INVARIANT TypeOK
INVARIANT NoSharedMemory
INVARIANT KeepsBuffer
INVARIANT PoolConserved
PROPERTY ImplementsBufferPool
