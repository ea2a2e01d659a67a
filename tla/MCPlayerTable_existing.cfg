SPECIFICATION Spec
CONSTANTS
  g1 = g1
  g2 = g2
  g3 = g3
  Guilds = {g1, g2}
  NoGuild = NoGuild
  Junk = Junk
  Tracks = {t1}
  NodeCount = 1
  StatsNodes = {}
  MaxAppends = 1
  MaxQueue = 1
CHECK_DEADLOCK FALSE
INVARIANT ExistingPlayerReturned
