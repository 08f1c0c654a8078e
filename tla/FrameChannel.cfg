SPECIFICATION DecoderFairSpec
CONSTANTS
  ByteBase = 2
  PrefixWidth = 2
  MaxFrameSize = 2
  ReadSize = 2
  FeedSize = 4
  MaxWire = 6
  Readers = {"cpp", "python", "typescript"}
INVARIANTS
  FramesIntact
  BufferBounded
  DecoderKeepsUnread
PROPERTIES
  LeaseStable
  SendOutcome
  ReadersFrameAlike
  EverySentArrives
