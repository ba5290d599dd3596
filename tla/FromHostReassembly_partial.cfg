SPECIFICATION Spec
CONSTANTS
  Words = 4
  TlpWords = 2
  Sizes = {2, 4}
  Modes = {FALSE}
  Patient = TRUE
  Pauses = FALSE
  MaxTags = 2
  Follow = 1
INVARIANT InOrder
