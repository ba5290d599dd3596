SPECIFICATION Spec
CONSTANTS
  Tools = {"p"}
  Mapped = {"m", "n"}
  Unmapped = {"x"}
  Depth = 2
  Latency = 5
  Apart = 6
  Together = FALSE
  Killable = {"address", "direction", "write", "check"}
INVARIANT OwnOutcome
PROPERTY CallsEnd
