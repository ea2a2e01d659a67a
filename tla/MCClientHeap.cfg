SPECIFICATION Spec
CONSTANTS
  Released <- Releasable
  MaxMessages = 2
  MaxSize = 2
CHECK_DEADLOCK FALSE
INVARIANTS HeapTypeOK PointersValid AcceptedLeaveNothing RequestsLeaveNothing SessionLive
