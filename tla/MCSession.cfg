\* Three calls and any two faults of the server, the transport or a caller.
CONSTANTS
  MaxRpcs = 3
  MaxFaults = 2
SPECIFICATION FairSpec
INVARIANTS TypeOK NoStrandedReply OwnReply FailuresBounded ReplyInOnePlace
PROPERTIES StoredReplyIsKept ImplementsRequestReply PolledFutureSettles
CHECK_DEADLOCK FALSE
