---------------------------- MODULE MCClientHeap ----------------------------
(* Instance of ClientHeap for TLC.                                         *)
EXTENDS ClientHeap

(* The responses that include/rest.h says to release, but for the two that *)
(* do not survive it: coglink_decode_track stores nothing in its response, *)
(* coglink_free_update_player frees the track twice.                       *)
Releasable == Documented \ {"DECODE_TRACK", "UPDATED_PLAYER"}
=============================================================================
