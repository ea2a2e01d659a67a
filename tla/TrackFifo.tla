----------------------------- MODULE TrackFifo -----------------------------
(***************************************************************************)
(* What a CogLink player promises about the tracks given to it: they are   *)
(* played one at a time, in the order they were added, each at most once;  *)
(* a track that has not started may be taken out.  Tracks are numbered in  *)
(* the order they are added.                                               *)
(***************************************************************************)
EXTENDS Integers, Sequences

CONSTANTS Tracks, NoTrack

VARIABLES newest,   \* how many tracks were added
          waiting,  \* tracks that have not started, oldest first
          current   \* the track being played, or NoTrack

fifoVars == <<newest, waiting, current>>

Init == newest = 0 /\ waiting = <<>> /\ current = NoTrack

(* The tracks up to t are added: they wait, or the first of them starts at *)
(* once when nothing plays or waits.                                       *)
UpTo(t) == [i \in 1..(t - newest) |-> newest + i]

Enqueue(t) ==
  /\ t > newest /\ newest' = t
  /\ waiting' = waiting \o UpTo(t)
  /\ UNCHANGED current

StartNew(t) ==
  /\ t > newest /\ newest' = t
  /\ waiting = <<>> /\ current = NoTrack
  /\ current' = Head(UpTo(t))
  /\ waiting' = Tail(UpTo(t))

StartNext ==
  /\ waiting # <<>> /\ current = NoTrack
  /\ current' = Head(waiting)
  /\ waiting' = Tail(waiting)
  /\ UNCHANGED newest

TakeOut(pos) ==
  /\ waiting' = SubSeq(waiting, 1, pos) \o SubSeq(waiting, pos + 2, Len(waiting))
  /\ UNCHANGED <<newest, current>>

End == current # NoTrack /\ current' = NoTrack /\ UNCHANGED <<newest, waiting>>

Next ==
  \/ \E t \in Tracks : Enqueue(t) \/ StartNew(t)
  \/ \E pos \in 0..(Len(waiting) - 1) : TakeOut(pos)
  \/ StartNext
  \/ End

Spec == Init /\ [][Next]_fifoVars
=============================================================================
