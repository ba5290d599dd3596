SPECIFICATION Spec
CONSTANTS
  NumberOfInterrupts = 2
  NToHost = 1
  Ratio = 3
  Timeout = 3
  MaxBusy = 6
INVARIANT TypeOK
INVARIANT NoLostInterrupt
INVARIANT NoSpuriousInterrupt
PROPERTY Answered
