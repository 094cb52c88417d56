\* A batch of 2 * QueueLen + 1 requests, one reply in a packet.
CONSTANTS
  Batch = 5
  QueueLen = 2
  MaxInPacket = 1
SPECIFICATION FairSpec
INVARIANTS TypeOK NothingLost
PROPERTIES AllAnswered HangUpIsNoticed LossIsNoticed TaskEnds
CHECK_DEADLOCK FALSE
