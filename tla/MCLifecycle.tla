---------------------------- MODULE MCLifecycle ----------------------------
(* Small instance of Lifecycle for TLC. *)
EXTENDS Lifecycle, TLC

CONSTANTS g1, g2

GuildSymmetry == Permutations({g1, g2})
=============================================================================
