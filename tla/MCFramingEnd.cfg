\* One message whose marker no read can divide.
CONSTANTS
  Messages = 1
  BodyLen = 2
  MarkerLen = 1
  MaxCancels = 0
SPECIFICATION FairSpec
PROPERTY EndIsNoticed
CHECK_DEADLOCK FALSE
