--------------------------- MODULE MCPlayerTable ---------------------------
(* Small instance of PlayerTable for TLC: guilds are interchangeable.      *)
EXTENDS PlayerTable, TLC

CONSTANTS g1, g2, g3

GuildSymmetry == Permutations({g1, g2, g3})
=============================================================================
