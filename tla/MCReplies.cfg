SPECIFICATION Spec
CONSTANTS
  Ids = {1, 2}
  NoId = 0
  MaxReplies = 2
  MaxItems = 4
INVARIANTS TypeOK RoutedAsRead SuccessIsSaid ReadAsWritten
CHECK_DEADLOCK FALSE
