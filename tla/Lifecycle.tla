------------------------------ MODULE Lifecycle ------------------------------
(***************************************************************************)
(* A client from coglink_connect_nodes (lib/websocket.c:351-414) to        *)
(* coglink_cleanup (416-448): the handshake and the player table of        *)
(* VoiceHandshake in between, and now also the blocks of the queues        *)
(* (lib/rest.c:116-134, 161-202), which only the cleanup frees.            *)
(*                                                                         *)
(* A queue is a struct and, while it holds tracks, an array with the       *)
(* texts of the tracks.  Both have the number of the create that made the  *)
(* struct.  The loops of connect and cleanup that leave an array or follow *)
(* a pointer that was never written set `crashed`, and the model stops.    *)
(***************************************************************************)
EXTENDS VoiceHandshake

CONSTANTS SizeWords,  \* the values of size_t are 0..SizeWords-1
          MaxCreates  \* bound: players created

ASSUME LifeConstants ==
  SizeWords \in Nat /\ SizeWords > NodeCount /\ MaxCreates \in Nat

NoQueue == 0      \* queue = NULL, as calloc leaves it
WildQueue == -1   \* queue of a slot that realloc added

VARIABLES phase,    \* "connecting", "running" or "cleaned"
          given,    \* nodes->size, as the application filled it in
          next,     \* the node the loop of connect has come to
          queueOf,  \* slot index -> its queue
          structs,  \* the queue structs that are allocated
          arrays,   \* the queues whose array of tracks is allocated
          made,     \* history: players created
          removed,  \* history: the queues of players that were removed
          crashed   \* connect or cleanup left its arrays

queueVars == <<queueOf, structs, arrays, made, removed>>
lifeVars == <<allVars, phase, given, next, queueVars, crashed>>

LifeInit ==
  /\ VoiceInit
  /\ phase = "connecting"
  /\ given \in 0..NodeCount
  /\ next = 0
  /\ queueOf = [i \in {0} |-> NoQueue]
  /\ structs = {} /\ arrays = {} /\ removed = {}
  /\ made = 0
  /\ crashed = FALSE

-----------------------------------------------------------------------------
(* Mutant of LastNode: the bound is not reached.                           *)
LastNodeShort == given - 2

(* The bound of the loop, `nodes->size - 1`, is a size_t.                  *)
LastNode == (given - 1) % SizeWords

ConnectNode ==
  /\ phase = "connecting" /\ next <= LastNode
  /\ IF next < given THEN next' = next + 1 /\ UNCHANGED crashed
     ELSE crashed' = TRUE /\ UNCHANGED next
  /\ UNCHANGED <<allVars, phase, given, queueVars>>

StartLoop ==
  /\ phase = "connecting" /\ next > LastNode
  /\ phase' = "running"
  /\ UNCHANGED <<allVars, given, next, queueVars, crashed>>

-----------------------------------------------------------------------------
(* What the calls on the table do with the blocks of the queues.           *)
Created == live' \ live
Requeued == {i \in live \cap live' : slots'[i].queue # slots[i].queue}

(* The struct of the slot's last player, if any, is left where it is.      *)
LifeCreate(g) ==
  /\ made < MaxCreates
  /\ Create(g)
  /\ queueOf' = [i \in 0..(capacity' - 1) |->
                   IF i \in Created THEN made + 1
                   ELSE IF i \in Allocated THEN queueOf[i] ELSE WildQueue]
  /\ IF Created = {} THEN UNCHANGED <<made, structs>>
     ELSE made' = made + 1 /\ structs' = structs \cup {made + 1}
  /\ UNCHANGED <<arrays, removed>>

LifeAdd(g, t) ==
  /\ TableStep(AddTrack(g, t))
  /\ arrays' = arrays \cup {queueOf[i] : i \in Requeued}
  /\ UNCHANGED <<queueOf, structs, made, removed>>

(* realloc to no elements frees the array.                                 *)
LifeTake(g, pos) ==
  /\ TableStep(RemoveTrack(g, pos))
  /\ arrays' = arrays \ {queueOf[i] : i \in {j \in Requeued : slots'[j].queue = <<>>}}
  /\ UNCHANGED <<queueOf, structs, made, removed>>

(* Mutant of LifeRemove: the struct is freed, and the slot keeps it.       *)
LifeRemoveFrees(g) ==
  /\ Remove(g)
  /\ structs' = structs \ {queueOf[i] : i \in live \ live'}
  /\ removed' = removed \cup {queueOf[i] : i \in live \ live'}
  /\ UNCHANGED <<queueOf, arrays, made>>

(* The pointer to the array is set to NULL, nothing is freed.              *)
LifeRemove(g) ==
  /\ Remove(g)
  /\ removed' = removed \cup {queueOf[i] : i \in live \ live'}
  /\ UNCHANGED <<queueOf, structs, arrays, made>>

LifeReady(n) == n < given /\ Ready(n) /\ UNCHANGED queueVars

Run ==
  /\ phase = "running"
  /\ \/ \E n \in Nodes : LifeReady(n)
     \/ \E g \in Guilds : LifeCreate(g)
     \/ \E g \in Guilds, t \in Tracks : LifeAdd(g, t)
     \/ \E g \in Guilds, pos \in 0..MaxQueue : LifeTake(g, pos)
     \/ \E g \in Guilds : LifeRemove(g)
     \/ GatewayStep /\ UNCHANGED queueVars
  /\ UNCHANGED <<phase, given, next, crashed>>

-----------------------------------------------------------------------------
(* Mutant of Visited: the whole of the block.                              *)
VisitedAll == Allocated

(* The slots the loop of coglink_cleanup comes to.                         *)
Visited == GetScan

(* A slot whose pointers can be followed and freed; an uninitialised       *)
(* voice_data may read as NULL.                                            *)
Walkable(i) ==
  /\ i \in Allocated
  /\ Dangling(i) => voice[i] = WildVoice
  /\ queueOf[i] \in structs
  /\ \A j \in Visited \cap Allocated : queueOf[j] = queueOf[i] => j = i

(* Mutant of FreeSlots: the array of the queue is forgotten.               *)
FreeSlotsNoArray ==
  /\ strings' = strings \ {voice[i] : i \in Visited}
  /\ structs' = structs \ {queueOf[i] : i \in Visited}
  /\ UNCHANGED arrays

FreeSlots ==
  /\ strings' = strings \ {voice[i] : i \in Visited}
  /\ structs' = structs \ {queueOf[i] : i \in Visited}
  /\ arrays' = arrays \ {queueOf[i] : i \in {j \in Visited : slots[j].queue # <<>>}}

(* The event loop has ended and coglink_cleanup runs.  With the block of   *)
(* the players go all pointers in it.                                      *)
CleanUp ==
  /\ phase = "running" /\ phase' = "cleaned"
  /\ \/ /\ \A i \in Visited : Walkable(i)
        /\ FreeSlots
        /\ voice' = [i \in Allocated |-> NoVoice]
        /\ queueOf' = [i \in Allocated |-> NoQueue]
        /\ UNCHANGED crashed
     \/ /\ \E i \in Visited : ~(Walkable(i) /\ voice[i] # WildVoice)
        /\ crashed' = TRUE
        /\ UNCHANGED <<strings, structs, arrays, voice, queueOf>>
  /\ UNCHANGED <<vars, told, gateway, announced, forwarded, lost, fault,
                 given, next, made, removed>>

LifeNext ==
  /\ Running /\ ~crashed
  /\ ConnectNode \/ StartLoop \/ Run \/ CleanUp

LifeSpec == LifeInit /\ [][LifeNext]_lifeVars

-----------------------------------------------------------------------------
(* Types; the event loop starts when every node that was given has its     *)
(* websocket.                                                              *)
LifeTypeOK ==
  /\ phase \in {"connecting", "running", "cleaned"}
  /\ given \in 0..NodeCount
  /\ next \in 0..given
  /\ phase # "connecting" => next = given
  /\ queueOf \in [Allocated -> Nat \cup {WildQueue}]
  /\ structs \subseteq 1..made /\ arrays \subseteq 1..made /\ removed \subseteq 1..made
  /\ made \in Nat
  /\ crashed \in BOOLEAN

(* A client that was given a node connects to its nodes and is cleaned up  *)
(* without leaving the arrays or following a pointer that was freed or     *)
(* never written, however players came, went and changed slots: always if  *)
(* it never needed a second slot, and after one realloc if at most one     *)
(* player is in use at the end and no voice_data was left unwritten.  (The *)
(* exceptions are real: with two players in use, coglink_cleanup walks one *)
(* slot past the block.)                                                   *)
CleanupSafe ==
  appends <= 1 /\ crashed =>
    \/ given = 0
    \/ /\ appends = 1
       /\ \/ live = {0, 1}
          \/ \E i \in Allocated : voice[i] = WildVoice

(* What a cleanup that ends leaves allocated of queues was a removed       *)
(* player's: the players in use are freed whole, with their tracks and     *)
(* their session.  (Up to the first realloc.)                              *)
CleanupFreesPlayers ==
  [][phase' = "cleaned" /\ ~crashed' /\ appends <= 1 =>
       /\ \A i \in live : voice[i] \notin strings'
       /\ structs' \cup arrays' \subseteq removed]_lifeVars

-----------------------------------------------------------------------------
(* The inductive strengthening: as long as the table exists, a queue is    *)
(* reached from one slot at most, and whatever is allocated is a removed   *)
(* player's or reached from a player in use.                               *)
QueuesOwned ==
  /\ \A i \in live : queueOf[i] \in structs \ removed
  /\ \A i \in Allocated : queueOf[i] > 0 => queueOf[i] \in structs
  /\ \A i, j \in Allocated : queueOf[i] = queueOf[j] /\ queueOf[i] > 0 => i = j

QueuesReached ==
  /\ \A k \in structs \ removed : \E i \in live : queueOf[i] = k
  /\ \A k \in arrays \ removed :
       \E i \in live : queueOf[i] = k /\ slots[i].queue # <<>>

(* Before the second realloc a slot without a queue is the first one, not  *)
(* used yet.                                                               *)
QueuesWritten ==
  appends <= 1 =>
    \A i \in Allocated : queueOf[i] > 0 \/ (appends = 0 /\ live = {})

VoiceWritten == appends = 0 => \A i \in Allocated : voice[i] # WildVoice

LifeInv ==
  /\ LifeTypeOK /\ CleanupSafe
  /\ phase # "cleaned" => QueuesOwned /\ QueuesReached /\ QueuesWritten
  /\ VoiceWritten
=============================================================================
