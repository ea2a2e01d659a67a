-------------------------- MODULE MCVoiceHandshake --------------------------
(* Small instances of VoiceHandshake for TLC. *)
EXTENDS VoiceHandshake, TLC

CONSTANTS g1, g2

GuildSymmetry == Permutations({g1, g2})
=============================================================================
