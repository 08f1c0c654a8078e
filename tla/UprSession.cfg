SPECIFICATION Spec
CONSTANTS
  Versions = {1, 2}
  Modes = {1}
  Codecs = {1, 2}
  Limits = {1, 2}
  MaxCalls = 2
  MaxFrames = 2
INVARIANTS
  SessionsMatch
  OnlyLimitsSplit
CHECK_DEADLOCK FALSE
