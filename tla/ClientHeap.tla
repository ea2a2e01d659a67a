----------------------------- MODULE ClientHeap -----------------------------
(***************************************************************************)
(* The heap of the client over a series of messages: events of a node's    *)
(* websocket, gateway events and REST calls, each run to its end by the    *)
(* one thread of the library, at any of its early returns if it comes to   *)
(* that, and the responses released by an application that follows the     *)
(* notes of include/rest.h (267, 282, 298, 313, 337, 351, 365, 379): for   *)
(* every code but COGLINK_FAILED, with what nobody has written zeroed.     *)
(* coglink_cleanup ends the series (lib/websocket.c:416-423), and so does  *)
(* the use of a pointer to no block: what comes after it is undefined.     *)
(***************************************************************************)
EXTENDS Codecs

CONSTANTS Released,     \* the calls whose responses the application releases
          MaxMessages,  \* bound: messages of a run
          MaxSize       \* bound: elements of an array in an answer

ASSUME HeapConstants ==
  Released \subseteq Documented /\ MaxMessages \in Nat /\ MaxSize \in Nat

Codes == {"SUCCESS", "FAILED", "PARSE_FAILED", "NODE_OFFLINE", "CONSUMED", "EXIT"}

NoBlock == <<0, <<"none", 0>>>>

(* A block is stamped with the message that allocated it.                  *)
VARIABLES log,      \* the messages so far: what each was, and what it returned
          stage,    \* idle, work, release, stop
          size,     \* elements of the arrays of this message
          todo,     \* the steps left of this message
          heap,     \* the blocks that are allocated
          session,  \* node->session_id
          invalid   \* a pointer to a block that is not there was used

vars == <<log, stage, size, todo, heap, session, invalid>>

Init ==
  /\ log = <<>>
  /\ stage = "idle"
  /\ size = 0
  /\ todo = <<>>
  /\ heap = {}
  /\ session = NoBlock
  /\ invalid = FALSE

Current == log[Len(log)].call
Stamp(b) == <<Len(log), b>>

-----------------------------------------------------------------------------
Begin(c) ==
  /\ stage = "idle" /\ ~invalid /\ Len(log) < MaxMessages
  /\ size' \in IF c \in Sized THEN 0..MaxSize ELSE {0}
  /\ log' = Append(log, [call |-> c, code |-> "SUCCESS"])
  /\ stage' = "work"
  /\ todo' = Work(size')[c]
  /\ UNCHANGED <<heap, session, invalid>>

NextDoes(step) ==
  /\ todo # <<>> /\ Head(todo).do = step
  /\ todo' = Tail(todo)

DoMalloc ==
  /\ NextDoes("malloc")
  /\ heap' = heap \cup {Stamp(Head(todo).block)}
  /\ UNCHANGED <<log, stage, size, session, invalid>>

DoFree ==
  /\ NextDoes("free")
  /\ heap' = heap \ {Stamp(Head(todo).block)}
  /\ invalid' = (invalid \/ Stamp(Head(todo).block) \notin heap)
  /\ UNCHANGED <<log, stage, size, session>>

DoUse ==
  /\ NextDoes("use")
  /\ invalid' = (invalid \/ \E b \in Head(todo).blocks : Stamp(b) \notin heap)
  /\ UNCHANGED <<log, stage, size, heap, session>>

(* The node's pointer is overwritten, not freed.                           *)
DoKeep ==
  /\ NextDoes("keep")
  /\ session' = Stamp(Head(todo).block)
  /\ UNCHANGED <<log, stage, size, heap, invalid>>

CheckPasses ==
  /\ NextDoes("check")
  /\ UNCHANGED <<log, stage, size, heap, session, invalid>>

CheckFails ==
  /\ todo # <<>> /\ Head(todo).do = "check"
  /\ log' = [log EXCEPT ![Len(log)].code = Head(todo).code]
  /\ todo' = Head(todo).undo
  /\ UNCHANGED <<stage, size, heap, session, invalid>>

(* The call returns; unless it FAILED, the application releases the        *)
(* response, whether or not the call got as far as to write it.            *)
Return ==
  /\ stage = "work" /\ todo = <<>>
  /\ LET code == log[Len(log)].code
     IN  CASE code = "EXIT" -> stage' = "stop" /\ UNCHANGED todo
           [] code \notin {"EXIT", "FAILED"} /\ Current \in Released ->
                /\ stage' = "release"
                /\ todo' = IF code = "SUCCESS" THEN Release(size)[Current]
                           ELSE ReleaseUnwritten[Current]
           [] OTHER -> stage' = "idle" /\ UNCHANGED todo
  /\ UNCHANGED <<log, size, heap, session, invalid>>

ReleaseEnds ==
  /\ stage = "release" /\ todo = <<>>
  /\ stage' = "idle"
  /\ UNCHANGED <<log, size, todo, heap, session, invalid>>

(* coglink_cleanup: free(NULL) when the node was never ready.              *)
Cleanup ==
  /\ stage = "idle" /\ ~invalid
  /\ stage' = "stop"
  /\ heap' = heap \ {session}
  /\ invalid' = (invalid \/ (session # NoBlock /\ session \notin heap))
  /\ UNCHANGED <<log, size, todo, session>>

Next ==
  \/ \E c \in Calls : Begin(c)
  \/ DoMalloc \/ DoFree \/ DoUse \/ DoKeep
  \/ CheckPasses \/ CheckFails
  \/ Return \/ ReleaseEnds
  \/ Cleanup

Spec == Init /\ [][Next]_vars

-----------------------------------------------------------------------------
(* Messages, their outcomes and the blocks are what the constants allow.   *)
HeapTypeOK ==
  /\ \A m \in DOMAIN log : log[m].call \in Calls /\ log[m].code \in Codes
  /\ stage \in {"idle", "work", "release", "stop"}
  /\ size \in 0..MaxSize
  /\ \A b \in heap : b[1] \in DOMAIN log /\ b[2][2] \in 0..MaxSize
  /\ session = NoBlock \/ log[session[1]].call = "READY"

(* The messages that make the library follow a pointer to no block:        *)
(* - a gateway event that does not parse, for the handlers test for FAILED *)
(*   alone (websocket.c:241, 291);                                         *)
(* - a response that was never written, released as the notes say because  *)
(*   the code is not FAILED (rest.h:267, 313, 351);                        *)
(* - coglink_free_update_player, which frees the track twice               *)
(*   (codecs.c:894-896).                                                   *)
Misled(m) ==
  \/ m.code = "PARSE_FAILED" /\ m.call \in FallsThrough
  \/ m.code \notin {"SUCCESS", "FAILED"} /\ m.call \in Released \cap FollowsUnwritten
  \/ m.call = "UPDATED_PLAYER" /\ m.code = "SUCCESS" /\ "UPDATED_PLAYER" \in Released

(* No block is freed twice or without having been allocated, none is       *)
(* followed or handed to a callback when it is not there, and              *)
(* coglink_cleanup finds the session it frees, but in the three cases      *)
(* above: what the handlers of lib/websocket.c, the calls of lib/rest.c    *)
(* and the free functions of lib/codecs.c do on every other return.        *)
PointersValid == invalid => Misled(log[Len(log)])

(* The blocks that an accepted message leaves: the session the client      *)
(* keeps, and what nothing frees: the session that a later READY replaces  *)
(* (websocket.c:73), the array of a playlist (coglink_free_load_tracks),   *)
(* the session string of a voice state that is not kept in a player        *)
(* (_coglink_handle_scheduler).                                            *)
Remains(c) ==
  CASE c = "READY" -> {"session_id"}
    [] c = "LOAD_PLAYLIST" -> {"array"}
    [] c \in {"VOICE_STATE", "GUILD_CREATE_OWN"} -> {"voice_session"}
    [] OTHER -> {}

(* Between messages, an accepted message whose response was released, if   *)
(* it has one, has left nothing allocated but the blocks above: on         *)
(* well-formed input the client grows by no more than those (_ws_on_text,  *)
(* the calls of lib/rest.c and the free functions of lib/codecs.c).        *)
AcceptedLeaveNothing ==
  stage = "idle" =>
    \A b \in heap :
      LET m == log[b[1]]
      IN  /\ m.code = "SUCCESS"
          /\ m.call \in Released \cup (Calls \ Documented)
          => b[2][1] \in Remains(m.call)

(* Whatever a call returned, the request it made is gone: the curl handle, *)
(* the URL, the headers, the JSON text sent (utils.c:35-101, rest.c).      *)
RequestsLeaveNothing ==
  stage = "idle" =>
    \A b \in heap : b[2][1] \notin {"curl", "full_url", "authorization", "chunk",
                                 "jsonber", "payload_text"}

(* The session that requests to the node name is a live string from READY  *)
(* until coglink_cleanup (websocket.c:73, rest.c:382-384).                 *)
SessionLive == session # NoBlock /\ stage # "stop" => session \in heap
=============================================================================
