\* A batch larger than both queues and the task can hold.
CONSTANTS
  Batch = 6
  QueueLen = 2
  MaxInPacket = 1
SPECIFICATION FairSpec
PROPERTY AllAnswered
CHECK_DEADLOCK FALSE
