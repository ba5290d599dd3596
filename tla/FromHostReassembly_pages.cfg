SPECIFICATION Spec
CONSTANTS
  Words = 6
  TlpWords = 2
  Sizes = {12}
  Modes = {FALSE, TRUE}
  Patient = TRUE
  Pauses = FALSE
  MaxTags = 3
  Follow = 1
INVARIANT TypeOK
INVARIANT InOrder
PROPERTY Delivered
