SPECIFICATION LifeSpec
CONSTANTS
  g1 = g1
  g2 = g2
  Guilds = {g1, g2}
  NoGuild = NoGuild
  Junk = Junk
  Tracks = {t1}
  NodeCount = 1
  StatsNodes = {}
  MaxAppends = 1
  MaxQueue = 1
  Hasty = TRUE
  MayFailover = TRUE
  MayLose = TRUE
  MaxStates = 3
  MaxPending = 2
  SizeWords = 4
  MaxCreates = 3
CHECK_DEADLOCK FALSE
SYMMETRY GuildSymmetry
INVARIANTS LifeTypeOK VoiceTypeOK VoiceDataOwned SentOnce CleanupSafe
PROPERTIES CleanupFreesPlayers
