SPECIFICATION FairSpec
CONSTANTS
  Capacity = 4
  MaxStream = 9
  ByteBase = 2
  FramerKind = "length_prefixed"
  FrameSize = 1
  PrefixWidth = 2
  BigEndian = TRUE
  MaxPayload = 2
  IncludePrefix = FALSE
INVARIANTS
  RingHoldsUnread
  NoFrameOverlooked
  AnswersAreTrue
PROPERTIES
  ImplementsFrameSource
  EveryFrameComes
