SPECIFICATION FairSpec
CONSTANTS
  MaxTracks = 5
  MaxPlaylist = 2
  MinRemove = 1
  MayStop = FALSE
  MayLose = TRUE
  MayClose = TRUE
CHECK_DEADLOCK FALSE
INVARIANTS PlayingIsHead StalledOnlyAfterLoss
PROPERTIES NoInterruption StallIsPermanent PlaysFifo EveryTrackEnds
