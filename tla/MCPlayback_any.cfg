SPECIFICATION Spec
CONSTANTS
  MaxTracks = 5
  MaxPlaylist = 2
  MinRemove = 0
  MayStop = TRUE
  MayLose = TRUE
  MayClose = TRUE
CHECK_DEADLOCK FALSE
INVARIANTS TypeOK QueueInOrder
PROPERTIES StartsInOrder
