---------------------------- MODULE PlayerTable ----------------------------
(***************************************************************************)
(* The client's table of local players (lib/rest.c:16-39 and 101-204): an  *)
(* array reached through c_client->players, its `size` field, and the      *)
(* operations the application and the event handlers call on it.           *)
(*                                                                         *)
(* Every callback of CogLink runs on Concord's event loop, so an operation *)
(* is one step.  Callers keep no player pointer from one callback to the   *)
(* next (realloc may move the array): they look the guild up again.        *)
(*                                                                         *)
(* `capacity` is the number of slots the heap block really holds; the code *)
(* has no such field, and the distance between it and `size` is what this  *)
(* module is about.  Memory the program never wrote (a fresh slot after    *)
(* realloc, a word past the block) reads as any value of GuildWord.  Using *)
(* a player the table never handed out, or writing past the block, is      *)
(* undefined behaviour: status becomes "corrupt" and the model stops.      *)
(***************************************************************************)
EXTENDS Integers, Sequences, FiniteSets

CONSTANTS Guilds,      \* guild ids, all different from 0
          NoGuild,     \* guild_id = 0: the slot is free
          Junk,        \* an uninitialised word that is no guild id and not 0
          Tracks,      \* encoded tracks
          NodeCount,   \* nodes given to coglink_connect_nodes
          StatsNodes,  \* nodes whose public `stats` field the application filled
          MaxAppends,  \* bound: reallocs of the array
          MaxQueue     \* bound: tracks queued in one player

Nodes == 0..(NodeCount - 1)
GuildWord == Guilds \cup {NoGuild, Junk}

ASSUME TableConstants ==
  /\ NoGuild \notin Guilds /\ Junk \notin Guilds /\ Junk # NoGuild
  /\ NodeCount \in Nat \ {0} /\ StatsNodes \subseteq Nodes
  /\ MaxAppends \in Nat /\ MaxQueue \in Nat

VARIABLES ready,     \* nodes whose session_id is set
          slots,     \* the array: slot index -> player
          capacity,  \* slots in the heap block
          size,      \* c_client->players->size
          live,      \* history: slots handed out by create, not removed since
          appends,   \* history: reallocs so far
          status     \* "running", "exited" (FATAL) or "corrupt"

tableVars == <<slots, capacity, size, live, appends, status>>
vars == <<ready, tableVars>>

(* The voice_data field of a slot belongs to VoiceHandshake.               *)
Player == [guild : GuildWord, node : Nodes, queue : Seq(Tracks)]

Allocated == 0..(capacity - 1)

(* The player a fresh slot holds before anything is written to it.  Its    *)
(* node and queue are never read: a slot outside `live` that is used as a  *)
(* player makes the run "corrupt".                                         *)
Garbage == {[guild |-> w, node |-> 0, queue |-> <<>>] : w \in GuildWord}

Init ==
  /\ ready = {}
  /\ slots = [i \in {0} |-> [guild |-> NoGuild, node |-> 0, queue |-> <<>>]]
  /\ capacity = 1
  /\ size = 0
  /\ live = {}
  /\ appends = 0
  /\ status = "running"

-----------------------------------------------------------------------------
(* READY from a node: its session id is stored and never cleared again.    *)
NodeReady(n) ==
  /\ n \notin ready
  /\ ready' = ready \cup {n}
  /\ UNCHANGED tableVars

(* _coglink_select_node: the first node with a session.  A node with stats *)
(* is never better than the initial bestStats = -1 (loads are >= 0).       *)
Selectable == ready \ StatsNodes

(* Mutant of SelectNode: the first node, with or without a session.        *)
SelectAnyNode == {0}

SelectNode == {n \in Selectable : \A m \in Selectable : n <= m}

(* The indices coglink_get_player reads, and those of the do-while of      *)
(* coglink_create_player, which reads index 0 even of an empty table.      *)
GetScan == 0..(size - 1)
CreateScan == {0} \cup GetScan

(* Where a scan of I for a guild_id in W may stop: inside the block at its *)
(* first match; an index past the block holds any word, so the scan may    *)
(* stop at each of them, and may pass them all.                            *)
Stops(I, W) ==
  {i \in I : /\ i \in Allocated => slots[i].guild \in W
             /\ \A j \in I \cap Allocated : j < i => slots[j].guild \notin W}

Found(g) == Stops(GetScan, {g})

Corrupted ==
  /\ status' = "corrupt"
  /\ UNCHANGED <<ready, slots, capacity, size, live, appends>>

-----------------------------------------------------------------------------
NewPlayer(g, n) == [guild |-> g, node |-> n, queue |-> <<>>]

(* Mutants of ReuseSlot: `size` not incremented; incremented twice.        *)
ReuseSlotUncounted(g, n, i) ==
  /\ slots' = [slots EXCEPT ![i] = NewPlayer(g, n)]
  /\ live' = live \cup {i}
  /\ UNCHANGED <<ready, capacity, size, appends, status>>
ReuseSlotTwice(g, n, i) ==
  /\ slots' = [slots EXCEPT ![i] = NewPlayer(g, n)]
  /\ size' = size + 2
  /\ live' = live \cup {i}
  /\ UNCHANGED <<ready, capacity, appends, status>>

(* coglink_create_player takes the free slot i.                            *)
ReuseSlot(g, n, i) ==
  /\ slots' = [slots EXCEPT ![i] = NewPlayer(g, n)]
  /\ size' = size + 1
  /\ live' = live \cup {i}
  /\ UNCHANGED <<ready, capacity, appends, status>>

(* Mutants of AppendSlot: one size++ only; realloc to `size` slots.        *)
AppendSlotOnce(g, n) ==
  /\ appends < MaxAppends
  /\ slots' = [i \in 0..size |-> IF i = size THEN NewPlayer(g, n) ELSE slots[i]]
  /\ capacity' = size + 1
  /\ size' = size + 1
  /\ live' = live \cup {size}
  /\ appends' = appends + 1
  /\ UNCHANGED <<ready, status>>
AppendSlotNoGrow(g, n) ==
  /\ appends < MaxAppends
  /\ slots' = [i \in 0..(size - 1) |-> IF i = size - 1 THEN NewPlayer(g, n)
                                       ELSE slots[i]]
  /\ capacity' = size
  /\ size' = size + 1
  /\ live' = live \cup {size - 1}
  /\ appends' = appends + 1
  /\ UNCHANGED <<ready, status>>

(* No slot matched: realloc to size + 1 slots, size++, write the slot at   *)
(* size - 1, size++ once more.                                             *)
AppendSlot(g, n) ==
  /\ appends < MaxAppends
  /\ \E fresh \in [capacity..(size - 1) -> Garbage] :
       slots' = [i \in 0..size |-> IF i = size THEN NewPlayer(g, n)
                                   ELSE IF i \in Allocated THEN slots[i]
                                   ELSE fresh[i]]
  /\ capacity' = size + 1
  /\ size' = size + 2
  /\ live' = live \cup {size}
  /\ appends' = appends + 1
  /\ UNCHANGED <<ready, status>>

CreatePlayer(g) ==
  \E n \in SelectNode :
     \/ /\ \A i \in CreateScan \cap Allocated : slots[i].guild \notin {g, NoGuild}
        /\ AppendSlot(g, n)
     \/ \E i \in Stops(CreateScan, {g, NoGuild}) :
          \/ /\ i \in Allocated /\ slots[i].guild = NoGuild
             /\ ReuseSlot(g, n, i)
          \/ /\ i \notin live
             /\ i \in Allocated => slots[i].guild = g
             /\ Corrupted

(* The operations below run on what coglink_get_player returns; a slot the *)
(* table never handed out has a wild queue pointer.                        *)
AddTrack(g, t) ==
  \E i \in Found(g) :
    \/ /\ i \in live
       /\ Len(slots[i].queue) < MaxQueue
       /\ slots' = [slots EXCEPT ![i].queue = Append(@, t)]
       /\ UNCHANGED <<ready, capacity, size, live, appends, status>>
    \/ i \notin live /\ Corrupted

(* coglink_remove_track_from_queue; a position past the end is FATAL, an   *)
(* exit(1) in release builds.                                              *)
Without(q, pos) == SubSeq(q, 1, pos) \o SubSeq(q, pos + 2, Len(q))

RemoveTrack(g, pos) ==
  \E i \in Found(g) :
    \/ /\ i \in live
       /\ pos < Len(slots[i].queue)
       /\ slots' = [slots EXCEPT ![i].queue = Without(@, pos)]
       /\ UNCHANGED <<ready, capacity, size, live, appends, status>>
    \/ /\ i \in live
       /\ pos >= Len(slots[i].queue)
       /\ status' = "exited"
       /\ UNCHANGED <<ready, slots, capacity, size, live, appends>>
    \/ i \notin live /\ Corrupted

(* coglink_remove_player: the slot is freed in place.                      *)
RemovePlayer(g) ==
  \E i \in Found(g) :
    \/ /\ i \in live
       /\ slots' = [slots EXCEPT ![i] = [guild |-> NoGuild, node |-> 0,
                                         queue |-> <<>>]]
       /\ size' = size - 1
       /\ live' = live \ {i}
       /\ UNCHANGED <<ready, capacity, appends, status>>
    \/ i \notin live /\ Corrupted

Next ==
  /\ status = "running"
  /\ \/ \E n \in Nodes : NodeReady(n)
     \/ \E g \in Guilds : CreatePlayer(g)
     \/ \E g \in Guilds, t \in Tracks : AddTrack(g, t)
     \/ \E g \in Guilds, pos \in 0..MaxQueue : RemoveTrack(g, pos)
     \/ \E g \in Guilds : RemovePlayer(g)

Spec == Init /\ [][Next]_vars

-----------------------------------------------------------------------------
(* Every variable keeps its type; the slots are exactly the heap block.    *)
TypeOK ==
  /\ ready \subseteq Nodes
  /\ capacity \in Nat \ {0}
  /\ size \in Nat
  /\ slots \in [Allocated -> Player]
  /\ live \subseteq Allocated
  /\ appends \in Nat
  /\ status \in {"running", "exited", "corrupt"}

(* A player handed out by coglink_create_player sits on a node that has a  *)
(* session, whatever was created or removed around it: a request for it is *)
(* never refused as COGLINK_NODE_OFFLINE (rest.c:376).                     *)
LivePlayerNodeHasSession ==
  \A i \in live : slots[i].guild \in Guilds /\ slots[i].node \in ready

(* No operation discards, moves or renames a player in use: a slot in use  *)
(* before and after a step is still allocated, with its guild and node.    *)
NoLiveSlotLost ==
  [][\A i \in live \cap live' :
       /\ i < capacity'
       /\ slots'[i].guild = slots[i].guild
       /\ slots'[i].node = slots[i].node]_vars

(* A client that never needed a second slot (one player at a time) never   *)
(* leaves its heap block, through any number of creates and removes.       *)
SinglePlayerInBounds == appends = 0 => size <= capacity /\ status # "corrupt"

(* Until the array is reallocated a second time, the lookup of a player in *)
(* use stops inside the block, at a player in use of that guild.  (From    *)
(* the second realloc on, removals can leave a player past `size`.)        *)
LivePlayersFoundWithOneAppend ==
  appends <= 1 =>
    \A i \in live :
      /\ Found(slots[i].guild) # {}
      /\ Found(slots[i].guild) \subseteq live

(* What rest.h:187 promises of coglink_create_player: "If the player       *)
(* already exists, it will return the existing player."  So no guild ever  *)
(* has two players.                                                        *)
ExistingPlayerReturned ==
  \A i, j \in live : slots[i].guild = slots[j].guild => i = j

(* The array serves two players, whatever was created and removed before:  *)
(* up to its second realloc it is PlayerStacks, and neither is a realloc   *)
(* needed nor a word past the block read as long as only guilds that have  *)
(* a player are asked for while two are in use.                            *)
Served == appends <= 1 /\ status # "corrupt"
InUse == [i \in (IF Served THEN live ELSE {}) |-> slots[i]]

Stacks == INSTANCE PlayerStacks WITH players <- InUse, served <- Served, Places <- 0..1

ServesTwoPlayers == Stacks!Spec

-----------------------------------------------------------------------------
(* The inductive strengthening.                                            *)

(* The slots missing between `size` and the heap block are free ones.      *)
Free == {i \in Allocated : slots[i].guild = NoGuild}
SlackIsFree == capacity <= size + Cardinality(Free)

(* `size` counts every append twice (rest.c:127 and 136).                  *)
SizeCountsAppendsTwice == size = Cardinality(live) + appends

(* Up to the first append no slot is uninitialised.                        *)
SmallTable ==
  appends <= 1 => /\ capacity = appends + 1
                  /\ \A i \in Allocated : i \in live \/ i \in Free

(* Why the realloc of coglink_create_player, which may shrink the block    *)
(* (size + 1 < capacity), never cuts off or overwrites a player in use:    *)
(* the three facts about `size` that every operation keeps.                *)
TableInv ==
  /\ TypeOK
  /\ LivePlayerNodeHasSession
  /\ SlackIsFree
  /\ SizeCountsAppendsTwice
  /\ SmallTable
  /\ SinglePlayerInBounds

=============================================================================
