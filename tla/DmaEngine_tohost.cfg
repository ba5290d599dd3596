SPECIFICATION Spec
CONSTANTS
  NToHost = 2
  Used = {0, 1}
  WrapAround = {0}
  Size = 4
  Page = 2
  Beats = 2
  Gap = 1
  Steps = {2}
  Unread = FALSE
  Writes = "quiet"
  Resets = "rest"
INVARIANT TypeOK
INVARIANT RightFifo
INVARIANT EvenBitsTellFull
PROPERTY SingleShotComplete
PROPERTY HostDecides
PROPERTY ImplementsRingBuffer
