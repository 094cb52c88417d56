\* Three messages; a marker of three bytes can be divided in two places.
CONSTANTS
  Messages = 3
  BodyLen = 1
  MarkerLen = 3
  MaxCancels = 1
SPECIFICATION FairSpec
INVARIANTS TypeOK OnlyCutMarkersAreMissed
PROPERTIES AllDelivered BreakIsNoticed
CHECK_DEADLOCK FALSE
