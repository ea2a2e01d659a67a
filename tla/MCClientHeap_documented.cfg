SPECIFICATION Spec
CONSTANTS
  Released <- Documented
  MaxMessages = 1
  MaxSize = 1
CHECK_DEADLOCK FALSE
INVARIANT AcceptedLeaveNothing
