------------------------------ MODULE Playback ------------------------------
(***************************************************************************)
(* The queue of one local player and the node that plays it: the           *)
(* application's operations on the queue (example.c:262-304,               *)
(* lib/rest.c:161-204 and 547-565), the requests they send, and the        *)
(* TRACK_END handler (lib/websocket.c:108-143) that advances the queue.    *)
(*                                                                         *)
(* Requests are blocking calls, so the node's answer is part of the step;  *)
(* the node's events travel on its websocket, in order, and meet whatever  *)
(* the client has done in the meantime.  A track's encoded string is its   *)
(* number, in the order of its addition.  A removed player is an empty     *)
(* queue: TRACK_END ignores both, and `.play` creates the player again.    *)
(***************************************************************************)
EXTENDS Integers, Sequences

CONSTANTS MaxTracks,  \* bound: tracks added
          MaxPlaylist, \* bound: tracks of a playlist
          MinRemove,  \* first queue position the application removes from
          MayStop,    \* the application destroys and removes the player
          MayLose,    \* a REST request may fail
          MayClose    \* the node may drop its players, or its websocket close

NoTrack == 0
Tracks == 1..MaxTracks

ASSUME PlaybackConstants ==
  /\ MaxTracks \in Nat /\ MaxPlaylist \in Nat /\ MinRemove \in Nat
  /\ MayStop \in BOOLEAN /\ MayLose \in BOOLEAN /\ MayClose \in BOOLEAN

(* enum coglink_track_end_reason.                                          *)
Reasons == {"FINISHED", "LOAD_FAILED", "STOPPED", "REPLACED", "CLEANUP"}

VARIABLES queue,        \* player->queue
          added,        \* the last track added
          playing,      \* node: the track it plays, or NoTrack
          lastStarted,  \* history: the last track the node started
          events,       \* TRACK_END events on the websocket, oldest first
          online,       \* the websocket is open
          lost          \* history: a request or an end was lost

clientVars == <<queue, added>>
nodeVars == <<playing, lastStarted, events>>
vars == <<clientVars, nodeVars, online, lost>>

Init ==
  /\ queue = <<>>
  /\ added = 0
  /\ playing = NoTrack
  /\ lastStarted = 0
  /\ events = <<>>
  /\ online = TRUE
  /\ lost = FALSE

-----------------------------------------------------------------------------
(* The node (external).  Events sent on a closed websocket are lost.       *)
Sent(s, track, reason) ==
  IF track # NoTrack /\ online
    THEN Append(s, [track |-> track, reason |-> reason]) ELSE s

(* A PATCH with an encoded track replaces what the node plays.  The caller *)
(* in the client ignores the result of the request.                        *)
Request(t, before) ==
  \/ /\ playing' = t
     /\ lastStarted' = t
     /\ events' = Sent(before, playing, "REPLACED")
     /\ UNCHANGED lost
  \/ /\ MayLose
     /\ events' = before
     /\ lost' = TRUE
     /\ UNCHANGED <<playing, lastStarted>>

NodeEnds(reason) ==
  /\ playing # NoTrack
  /\ events' = Sent(events, playing, reason)
  /\ playing' = NoTrack
  /\ lost' = (lost \/ ~online \/ reason = "CLEANUP")
  /\ UNCHANGED <<clientVars, lastStarted, online>>

TrackFinishes == NodeEnds("FINISHED") \/ NodeEnds("LOAD_FAILED")

(* The node drops its player, because its voice connection is gone.        *)
NodeCleansUp == MayClose /\ NodeEnds("CLEANUP")

(* The websocket closes: what it carried is lost, and nothing reopens it   *)
(* (_IO_poller only reports the failure).                                  *)
SocketCloses ==
  /\ MayClose /\ online
  /\ online' = FALSE
  /\ events' = <<>>
  /\ lost' = TRUE
  /\ UNCHANGED <<clientVars, playing, lastStarted>>

-----------------------------------------------------------------------------
NewTracks(n) == [i \in 1..n |-> added + i]

(* Mutants of Play: the request is always sent; the track requested at     *)
(* once is not queued.                                                     *)
PlayAlwaysRequests(n) ==
  /\ added + n <= MaxTracks
  /\ added' = added + n
  /\ queue' = queue \o NewTracks(n)
  /\ Request(added + 1, events)
  /\ UNCHANGED online
PlayUnqueued(n) ==
  /\ added + n <= MaxTracks
  /\ added' = added + n
  /\ IF queue = <<>>
       THEN Request(added + 1, events) /\ queue' = Tail(NewTracks(n))
       ELSE queue' = queue \o NewTracks(n) /\ UNCHANGED <<nodeVars, lost>>
  /\ UNCHANGED online

(* `.play` of a track, a search result or a playlist of n tracks: an empty *)
(* queue means that the first track is requested at once; all are queued   *)
(* in any case.                                                            *)
Play(n) ==
  /\ added + n <= MaxTracks
  /\ added' = added + n
  /\ queue' = queue \o NewTracks(n)
  /\ IF queue = <<>> THEN Request(added + 1, events)
                     ELSE UNCHANGED <<nodeVars, lost>>
  /\ UNCHANGED online

(* Mutants of Without: the entry is cleared and the rest not shifted; the  *)
(* last entry takes its place.                                             *)
Cleared(q, pos) == [q EXCEPT ![pos + 1] = 0]
LastInPlace(q, pos) ==
  SubSeq([q EXCEPT ![pos + 1] = q[Len(q)]], 1, Len(q) - 1)

Without(q, pos) == SubSeq(q, 1, pos) \o SubSeq(q, pos + 2, Len(q))

(* coglink_remove_track_from_queue, called by the application.             *)
RemoveTrack(pos) ==
  /\ MinRemove <= pos /\ pos < Len(queue)
  /\ queue' = Without(queue, pos)
  /\ UNCHANGED <<added, nodeVars, online, lost>>

(* coglink_destroy_player, whose result nobody sees, and then              *)
(* coglink_remove_player.                                                  *)
Stop ==
  /\ MayStop
  /\ queue' = <<>>
  /\ \/ /\ playing' = NoTrack
        /\ events' = Sent(events, playing, "STOPPED")
        /\ UNCHANGED lost
     \/ /\ MayLose
        /\ lost' = TRUE
        /\ UNCHANGED <<playing, events>>
  /\ UNCHANGED <<added, lastStarted, online>>

(* Mutant of Advances: a load failure does not advance the queue.          *)
FinishedOnly(reason) == reason = "FINISHED"

Advances(reason) == reason \in {"FINISHED", "LOAD_FAILED"}

(* coglink_parse_websocket_data looks for a "p" where the node sends       *)
(* "replaced", and leaves the reason uninitialised.                        *)
Parsed(reason) == IF reason = "REPLACED" THEN Reasons ELSE {reason}

(* Mutant of TrackEnd: the next track is requested, the head stays.        *)
KeepHead ==
  /\ events # <<>>
  /\ \E reason \in Parsed(Head(events).reason) :
       IF queue # <<>> /\ Advances(reason)
         THEN Request(queue[1], Tail(events))
         ELSE events' = Tail(events) /\ UNCHANGED <<playing, lastStarted, lost>>
  /\ UNCHANGED <<queue, added, online>>

(* The TRACK_END handler.  The track that ended is not compared with the   *)
(* head of the queue.                                                      *)
TrackEnd ==
  /\ events # <<>>
  /\ \E reason \in Parsed(Head(events).reason) :
       \/ /\ queue # <<>> /\ Advances(reason)
          /\ queue' = Without(queue, 0)
          /\ IF queue' # <<>>
               THEN Request(queue'[1], Tail(events))
               ELSE events' = Tail(events) /\ UNCHANGED <<playing, lastStarted, lost>>
       \/ /\ queue = <<>> \/ ~Advances(reason)
          /\ events' = Tail(events)
          /\ UNCHANGED <<queue, playing, lastStarted, lost>>
  /\ UNCHANGED <<added, online>>

Next ==
  \/ \E n \in 1..MaxPlaylist : Play(n)
  \/ \E pos \in 0..(MaxTracks - 1) : RemoveTrack(pos)
  \/ Stop
  \/ TrackFinishes
  \/ NodeCleansUp
  \/ SocketCloses
  \/ TrackEnd

Spec == Init /\ [][Next]_vars

(* Tracks end, and the event loop reads the websocket.                     *)
Fairness == WF_vars(TrackFinishes) /\ WF_vars(TrackEnd)
FairSpec == Spec /\ Fairness

-----------------------------------------------------------------------------
Event == [track : Nat \ {0}, reason : Reasons]

TypeOK ==
  /\ queue \in Seq(Nat \ {0})
  /\ added \in Nat
  /\ playing \in Nat /\ lastStarted \in Nat
  /\ events \in Seq(Event)
  /\ online \in BOOLEAN /\ lost \in BOOLEAN

(* Whatever the application removes or stops and whatever is lost, a track *)
(* starts only after every track that started before it, and only once.    *)
StartsInOrder ==
  [][playing' # playing /\ playing' # NoTrack => playing' > lastStarted]_vars

(* The queue holds tracks in the order of their addition, and only its     *)
(* head may have been started.                                             *)
QueueInOrder ==
  /\ \A i \in DOMAIN queue : queue[i] <= added
  /\ \A i, j \in DOMAIN queue : i < j => queue[i] < queue[j]
  /\ \A i \in DOMAIN queue : i > 1 => queue[i] > lastStarted

(* The properties below are those of an application that follows           *)
(* example.c: it removes no head of a queue and stops no player.           *)
FollowsExample == MinRemove > 0 /\ ~MayStop

(* The node plays the head of the queue, or has just told the end of it:   *)
(* the single TRACK_END that advances belongs to the head.                 *)
PlayingIsHead ==
  /\ playing # NoTrack => queue # <<>> /\ playing = queue[1] /\ events = <<>>
  /\ events # <<>> => /\ Len(events) = 1
                      /\ queue # <<>> /\ events[1].track = queue[1]

(* A track that plays is never cut off by another one.                     *)
NoInterruption == [][playing # NoTrack => playing' \in {playing, NoTrack}]_vars

(* Nothing plays although tracks are queued, and no event is on its way.   *)
Stalled == queue # <<>> /\ playing = NoTrack /\ events = <<>>

(* A player stalls only after a lost request or end; nothing resumes it    *)
(* then, a further `.play` included, which finds the queue not empty.      *)
StalledOnlyAfterLoss == Stalled => lost
StallIsPermanent == [][Stalled => Stalled']_vars

(* Unless something is lost, every queued track is left behind in the end: *)
(* it ended, or the application took it out.                               *)
Queued(t) == \E i \in DOMAIN queue : queue[i] = t
EveryTrackEnds == \A t \in Tracks : Queued(t) ~> ~Queued(t) \/ lost

-----------------------------------------------------------------------------
(* The queue without its started head is the abstract FIFO's.              *)
Unstarted ==
  IF queue # <<>> /\ queue[1] <= lastStarted THEN Tail(queue) ELSE queue

Fifo == INSTANCE TrackFifo WITH newest <- added, waiting <- Unstarted, current <- playing

(* The client and the node together play the tracks first in, first out,   *)
(* each at most once, for an application that follows example.c.           *)
PlaysFifo == Fifo!Spec

-----------------------------------------------------------------------------
(* The inductive strengthenings.  In any use: nothing that was not added   *)
(* is started, and what plays was started last.                            *)
OrderInv ==
  /\ TypeOK
  /\ QueueInOrder
  /\ lastStarted <= added
  /\ playing # NoTrack => playing = lastStarted

(* For an application that follows example.c: an end on its way is that of *)
(* a started track, and one that will not advance the queue is a loss.     *)
EventsSettled ==
  events # <<>> => /\ queue[1] <= lastStarted
                   /\ Advances(events[1].reason) \/ lost

HeadInv == OrderInv /\ PlayingIsHead /\ StalledOnlyAfterLoss /\ EventsSettled
=============================================================================
