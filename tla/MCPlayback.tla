----------------------------- MODULE MCPlayback -----------------------------
(* Instances of Playback for TLC; the configurations choose what the       *)
(* application does and what may fail.                                     *)
EXTENDS Playback
=============================================================================
