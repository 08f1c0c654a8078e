SPECIFICATION ChannelCallSpec
CONSTANTS
  SlotCount = 2
  SlotSize = 1
  MaxWrites = 3
  MaxFrameSize = 1
PROPERTIES
  SendTimesOut
