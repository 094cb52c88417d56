\* Two replies may share a packet.
CONSTANTS
  Batch = 2
  QueueLen = 2
  MaxInPacket = 2
SPECIFICATION FairSpec
PROPERTY AllAnswered
CHECK_DEADLOCK FALSE
