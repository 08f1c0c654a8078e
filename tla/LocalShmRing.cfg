SPECIFICATION ChannelFairSpec
CONSTANTS
  SlotCount = 3
  SlotSize = 1
  MaxWrites = 4
  MaxFrameSize = 2
INVARIANTS
  NoLostWakeup
  ChannelIsTrue
PROPERTIES
  HeldSlotStable
  ImplementsFifo
  FramesMoveOn
