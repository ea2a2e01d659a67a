SPECIFICATION Spec
CONSTANTS
  g1 = g1
  g2 = g2
  g3 = g3
  Guilds = {g1, g2, g3}
  NoGuild = NoGuild
  Junk = Junk
  Tracks = {t1}
  NodeCount = 3
  StatsNodes = {1}
  MaxAppends = 2
  MaxQueue = 1
SYMMETRY GuildSymmetry
CHECK_DEADLOCK FALSE
INVARIANTS LivePlayerNodeHasSession LivePlayersFoundWithOneAppend TableInv
PROPERTIES NoLiveSlotLost ServesTwoPlayers
