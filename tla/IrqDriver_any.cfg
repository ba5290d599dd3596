SPECIFICATION Spec
CONSTANTS
  Interrupts = {0, 1}
  Thread = {1, 2}
  After = FALSE
INVARIANT TypeOK
INVARIANT MaskedIsDisabled
INVARIANT EnabledUntilDisabled
PROPERTY Delivered
