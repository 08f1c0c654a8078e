SPECIFICATION FairSpec
CONSTANTS
  QueueDepth = 2
  ZeroCopy = TRUE
  SubmitFails = TRUE
  Interrupts = TRUE
  TimespecKept = FALSE
  MaxCalls = 2
  MaxBytes = 2
  Size = 2
INVARIANTS
  NothingLeftBehind
  ResultsAreOwn
PROPERTIES
  CallsAnswered
