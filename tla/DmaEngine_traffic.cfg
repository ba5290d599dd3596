SPECIFICATION TrafficSpec
CONSTANTS
  NToHost = 1
  Used = {0, 1}
  WrapAround = {1}
  Size = 4
  Page = 2
  Beats = 2
  Gap = 1
  Steps = {2}
  Unread = FALSE
  Writes = "starts"
  Resets = "rest"
INVARIANT NoOverrun
PROPERTY NeverStalls
