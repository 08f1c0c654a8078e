SPECIFICATION Spec
CONSTANTS
  QueueDepth = 2
  ZeroCopy = TRUE
  SubmitFails = FALSE
  Interrupts = FALSE
  TimespecKept = TRUE
  MaxCalls = 3
  MaxBytes = 2
  Size = 2
INVARIANTS
  EndOfStreamIsReal
