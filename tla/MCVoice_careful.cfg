SPECIFICATION FairVoiceSpec
CONSTANTS
  g1 = g1
  g2 = g2
  Guilds = {g1, g2}
  NoGuild = NoGuild
  Junk = Junk
  Tracks = {t1}
  NodeCount = 1
  StatsNodes = {}
  MaxAppends = 1
  MaxQueue = 0
  Hasty = FALSE
  MayFailover = FALSE
  MayLose = TRUE
  MaxStates = 4
  MaxPending = 4
CHECK_DEADLOCK FALSE
INVARIANTS NoFaultInFirstSlot
PROPERTIES ForwardsLastSession JoinCompletes
