------------------------- MODULE PlayerTableProofs -------------------------
(***************************************************************************)
(* Proofs about PlayerTable for any number of guilds, nodes, tracks and    *)
(* reallocs.  TableInv is inductive; everything else follows from it.      *)
(***************************************************************************)
EXTENDS PlayerTable, FiniteSetTheorems, TLAPS

(* Dropping an element that is in range keeps a queue a sequence.          *)
LEMMA WithoutType ==
  ASSUME NEW S, NEW q \in Seq(S), NEW pos \in Nat, pos < Len(q)
  PROVE  Without(q, pos) \in Seq(S)
<1>1. SubSeq(q, 1, pos) \in Seq(S)
  OBVIOUS
<1>2. SubSeq(q, pos + 2, Len(q)) \in Seq(S)
  OBVIOUS
<1> QED BY <1>1, <1>2 DEF Without

(* A scan stops only at an index it reads, and inside the block only at a  *)
(* slot with the word it looks for.                                        *)
LEMMA StopsFacts ==
  ASSUME NEW I, NEW W, NEW i \in Stops(I, W)
  PROVE  i \in I /\ (i \in Allocated => slots[i].guild \in W)
BY DEF Stops

(* The free slots of a finite block are finitely many.                     *)
LEMMA FreeFinite ==
  ASSUME capacity \in Nat
  PROVE  /\ IsFiniteSet(Allocated) /\ IsFiniteSet(Free)
         /\ Cardinality(Free) \in Nat
<1>1. IsFiniteSet(Allocated)
  BY FS_Interval DEF Allocated
<1>2. IsFiniteSet(Free)
  BY <1>1, FS_Subset DEF Free
<1> QED BY <1>1, <1>2, FS_CardinalityType

(* The argument behind the shrinking realloc: when no slot below `size` is *)
(* free, every slot of the block from `size` on is.                        *)
LEMMA SlackBeyondSizeIsFree ==
  ASSUME TypeOK, SlackIsFree,
         \A i \in CreateScan \cap Allocated : slots[i].guild # NoGuild
  PROVE  \A i \in Allocated : i >= size => i \in Free
<1>. USE DEF TypeOK, Allocated
<1>1. Free \subseteq size..(capacity - 1)
  BY DEF Free, CreateScan, GetScan
<1>2. /\ IsFiniteSet(size..(capacity - 1))
      /\ Cardinality(size..(capacity - 1)) =
           IF size > capacity - 1 THEN 0 ELSE capacity - size
  BY FS_Interval
<1>3. Cardinality(Free) <= Cardinality(size..(capacity - 1))
  BY <1>1, <1>2, FS_Subset
<1>4. CASE size >= capacity
  BY <1>4
<1>5. CASE size < capacity
  <2>1. Cardinality(Free) = Cardinality(size..(capacity - 1))
    BY <1>2, <1>3, <1>5, FreeFinite DEF SlackIsFree
  <2>2. Free = size..(capacity - 1)
    BY <2>1, <1>1, <1>2, FS_Subset
  <2> QED BY <2>2
<1> QED BY <1>4, <1>5

(* The table coglink_connect_nodes allocates satisfies TableInv.           *)
LEMMA InitTable == Init => TableInv
<1> SUFFICES ASSUME Init PROVE TableInv
  OBVIOUS
<1>. USE DEF Init
<1>1. Allocated = {0}
  BY DEF Allocated
<1>2. TypeOK
  BY <1>1, TableConstants DEF TypeOK, Player, GuildWord, Nodes
<1>3. Free = {0}
  BY <1>1 DEF Free
<1>4. SlackIsFree
  BY <1>3, FS_Singleton DEF SlackIsFree
<1>5. SizeCountsAppendsTwice
  BY FS_EmptySet DEF SizeCountsAppendsTwice
<1> QED BY <1>1, <1>2, <1>3, <1>4, <1>5
        DEF TableInv, LivePlayerNodeHasSession, SmallTable, SinglePlayerInBounds

-----------------------------------------------------------------------------
(* A scan meets a player the table never handed out only after an append.  *)
LEMMA PhantomNeedsAppend ==
  ASSUME TableInv, NEW g \in Guilds, NEW i \in CreateScan, i \notin live,
         i \in Allocated => slots[i].guild = g
  PROVE  appends # 0
<1>. USE DEF TableInv, TypeOK
<1>1. SUFFICES ASSUME appends = 0 PROVE FALSE
  OBVIOUS
<1>2. capacity = 1 /\ size <= 1
  BY <1>1 DEF SmallTable, SinglePlayerInBounds
<1>3. i = 0 /\ Allocated = {0}
  BY <1>2 DEF CreateScan, GetScan, Allocated
<1>4. slots[0].guild = NoGuild
  BY <1>1, <1>3 DEF SmallTable, Free
<1> QED BY <1>3, <1>4, TableConstants

(* Undefined behaviour changes no state but `status`.                      *)
LEMMA CorruptedStep ==
  ASSUME TableInv, Corrupted, appends # 0
  PROVE  TableInv'
BY DEF TableInv, Corrupted, TypeOK, LivePlayerNodeHasSession, SlackIsFree,
       SizeCountsAppendsTwice, SmallTable, SinglePlayerInBounds, Allocated, Free

LEMMA NodeReadyStep ==
  ASSUME TableInv, NEW n \in Nodes, NodeReady(n)
  PROVE  TableInv'
BY DEF TableInv, NodeReady, tableVars, TypeOK, LivePlayerNodeHasSession, SlackIsFree,
       SizeCountsAppendsTwice, SmallTable, SinglePlayerInBounds, Allocated, Free

(* A step that changes only the queue of a player in use.                  *)
LEMMA QueueStep ==
  ASSUME TableInv, NEW i \in live, NEW q \in Seq(Tracks),
         slots' = [slots EXCEPT ![i].queue = q],
         status' \in {"running", "exited"},
         UNCHANGED <<ready, capacity, size, live, appends>>
  PROVE  TableInv'
<1>. USE DEF TableInv, TypeOK, Allocated
<1>1. /\ slots' \in [Allocated' -> Player]
      /\ \A j \in Allocated : /\ slots'[j].guild = slots[j].guild
                              /\ slots'[j].node = slots[j].node
  BY DEF Player
<1>2. TypeOK'
  BY <1>1
<1>3. Free' = Free
  BY <1>1 DEF Free
<1>4. LivePlayerNodeHasSession'
  BY <1>1 DEF LivePlayerNodeHasSession
<1> QED BY <1>1, <1>2, <1>3, <1>4
        DEF SlackIsFree, SizeCountsAppendsTwice, SmallTable, SinglePlayerInBounds

LEMMA AddTrackStep ==
  ASSUME TableInv, status = "running", NEW g \in Guilds, NEW t \in Tracks, AddTrack(g, t)
  PROVE  TableInv'
<1>1. PICK i \in Found(g) :
        \/ /\ i \in live
           /\ slots' = [slots EXCEPT ![i].queue = Append(@, t)]
           /\ UNCHANGED <<ready, capacity, size, live, appends, status>>
        \/ i \notin live /\ Corrupted
  BY DEF AddTrack
<1>2. i \in CreateScan /\ (i \in Allocated => slots[i].guild = g)
  BY StopsFacts DEF Found, CreateScan
<1>3. CASE i \notin live /\ Corrupted
  BY <1>2, <1>3, PhantomNeedsAppend, CorruptedStep
<1>4. CASE /\ i \in live
           /\ slots' = [slots EXCEPT ![i].queue = Append(@, t)]
           /\ UNCHANGED <<ready, capacity, size, live, appends, status>>
  <2>1. slots[i].queue \in Seq(Tracks)
    BY <1>4 DEF TableInv, TypeOK, Player
  <2>2. Append(slots[i].queue, t) \in Seq(Tracks)
    BY <2>1
  <2> QED BY <1>4, <2>2, QueueStep
<1> QED BY <1>1, <1>3, <1>4

LEMMA RemoveTrackStep ==
  ASSUME TableInv, status = "running", NEW g \in Guilds, NEW pos \in Nat, RemoveTrack(g, pos)
  PROVE  TableInv'
<1>1. PICK i \in Found(g) :
        \/ /\ i \in live
           /\ pos < Len(slots[i].queue)
           /\ slots' = [slots EXCEPT ![i].queue = Without(@, pos)]
           /\ UNCHANGED <<ready, capacity, size, live, appends, status>>
        \/ /\ status' = "exited"
           /\ UNCHANGED <<ready, slots, capacity, size, live, appends>>
        \/ i \notin live /\ Corrupted
  BY DEF RemoveTrack
<1>2. i \in CreateScan /\ (i \in Allocated => slots[i].guild = g)
  BY StopsFacts DEF Found, CreateScan
<1>3. CASE i \notin live /\ Corrupted
  BY <1>2, <1>3, PhantomNeedsAppend, CorruptedStep
<1>4. CASE /\ status' = "exited"
           /\ UNCHANGED <<ready, slots, capacity, size, live, appends>>
  BY <1>4 DEF TableInv, TypeOK, LivePlayerNodeHasSession, SlackIsFree,
              SizeCountsAppendsTwice, SmallTable, SinglePlayerInBounds, Allocated, Free
<1>5. CASE /\ i \in live
           /\ pos < Len(slots[i].queue)
           /\ slots' = [slots EXCEPT ![i].queue = Without(@, pos)]
           /\ UNCHANGED <<ready, capacity, size, live, appends, status>>
  <2>1. slots[i].queue \in Seq(Tracks)
    BY <1>5 DEF TableInv, TypeOK, Player
  <2>2. Without(slots[i].queue, pos) \in Seq(Tracks)
    BY <1>5, <2>1, WithoutType
  <2> QED BY <1>5, <2>2, QueueStep
<1> QED BY <1>1, <1>3, <1>4, <1>5

(* Taking a free slot: one more player, one more in `size`, one free slot  *)
(* fewer.                                                                  *)
LEMMA ReuseSlotStep ==
  ASSUME TableInv, NEW g \in Guilds, NEW n \in SelectNode, NEW i \in Allocated,
         slots[i].guild = NoGuild, ReuseSlot(g, n, i)
  PROVE  TableInv'
<1>. USE DEF TableInv, TypeOK, Allocated
<1>0. n \in ready /\ n \in Nodes
  BY DEF SelectNode, Selectable
<1>1. NewPlayer(g, n) \in Player
  <2>1. <<>> \in Seq(Tracks)
    OBVIOUS
  <2> QED BY <1>0, <2>1 DEF NewPlayer, Player, GuildWord
<1>2. i \notin live
  BY TableConstants DEF LivePlayerNodeHasSession
<1>3. /\ capacity' = capacity /\ appends' = appends /\ ready' = ready
      /\ slots' = [slots EXCEPT ![i] = NewPlayer(g, n)]
      /\ size' = size + 1 /\ live' = live \cup {i} /\ status' = status
  BY DEF ReuseSlot
<1>4. /\ slots' \in [Allocated -> Player]
      /\ slots'[i].guild = g /\ slots'[i].node = n
      /\ \A j \in Allocated \ {i} : slots'[j] = slots[j]
  BY <1>1, <1>3 DEF NewPlayer
<1>5. TypeOK'
  BY <1>3, <1>4
<1>6. LivePlayerNodeHasSession'
  BY <1>0, <1>3, <1>4 DEF LivePlayerNodeHasSession
<1>7. Free' = Free \ {i} /\ i \in Free
  BY <1>3, <1>4, TableConstants DEF Free
<1>8. Cardinality(Free') = Cardinality(Free) - 1
  BY <1>7, FreeFinite, FS_RemoveElement
<1>9. SlackIsFree'
  BY <1>3, <1>8, FreeFinite DEF SlackIsFree
<1>10. IsFiniteSet(live) /\ Cardinality(live) \in Nat
  BY FreeFinite, FS_Subset, FS_CardinalityType
<1>11. Cardinality(live') = Cardinality(live) + 1
  BY <1>2, <1>3, <1>10, FS_AddElement
<1>12. SizeCountsAppendsTwice'
  BY <1>3, <1>10, <1>11 DEF SizeCountsAppendsTwice
<1>13. SmallTable'
  BY <1>3, <1>4 DEF SmallTable, Free
<1>14. SinglePlayerInBounds'
  <2>1. ASSUME appends = 0 PROVE size' <= capacity'
    <3>1. Allocated = {0} /\ capacity = 1
      BY <2>1 DEF SmallTable
    <3>2. live = {}
      BY <1>2, <3>1
    <3> QED BY <1>3, <2>1, <3>1, <3>2, FS_EmptySet DEF SizeCountsAppendsTwice
  <2> QED BY <1>3, <2>1 DEF SinglePlayerInBounds
<1> QED BY <1>5, <1>6, <1>9, <1>12, <1>13, <1>14

(* What an append leaves behind: the old players below the new capacity,   *)
(* and the new one in the last slot, which no player in use held.          *)
LEMMA AppendSlotFacts ==
  ASSUME TableInv, NEW g \in Guilds, NEW n \in SelectNode,
         \A i \in CreateScan \cap Allocated : slots[i].guild \notin {g, NoGuild},
         AppendSlot(g, n)
  PROVE  /\ size \notin live
         /\ \A i \in live : i < size /\ slots'[i] = slots[i]
         /\ slots'[size] = NewPlayer(g, n)
         /\ slots' \in [0..size -> Player]
<1>. USE DEF TableInv, TypeOK, Allocated
<1>1. \A i \in Allocated : i >= size => i \in Free
  BY SlackBeyondSizeIsFree
<1>2. \A i \in live : i < size
  BY <1>1, TableConstants DEF Free, LivePlayerNodeHasSession
<1>3. PICK fresh \in [capacity..(size - 1) -> Garbage] :
        slots' = [i \in 0..size |-> IF i = size THEN NewPlayer(g, n)
                                    ELSE IF i \in Allocated THEN slots[i]
                                    ELSE fresh[i]]
  BY DEF AppendSlot
<1>4. NewPlayer(g, n) \in Player /\ Garbage \subseteq Player
  <2>1. <<>> \in Seq(Tracks)
    OBVIOUS
  <2>2. n \in Nodes
    BY DEF SelectNode, Selectable
  <2>3. 0 \in Nodes
    BY TableConstants DEF Nodes
  <2>4. ASSUME NEW w \in GuildWord
        PROVE  [guild |-> w, node |-> 0, queue |-> <<>>] \in Player
    BY <2>1, <2>3 DEF Player
  <2>5. Garbage \subseteq Player
    BY <2>4 DEF Garbage
  <2> QED BY <2>1, <2>2, <2>5 DEF NewPlayer, Player, GuildWord
<1>5. slots' \in [0..size -> Player]
  BY <1>3, <1>4
<1> QED BY <1>2, <1>3, <1>5

LEMMA AppendSlotStep ==
  ASSUME TableInv, NEW g \in Guilds, NEW n \in SelectNode,
         \A i \in CreateScan \cap Allocated : slots[i].guild \notin {g, NoGuild},
         AppendSlot(g, n)
  PROVE  TableInv'
<1>. USE DEF TableInv, TypeOK
<1>0. n \in ready /\ n \in Nodes
  BY DEF SelectNode, Selectable
<1>1. /\ size \notin live
      /\ \A i \in live : i < size /\ slots'[i] = slots[i]
      /\ slots'[size] = NewPlayer(g, n)
      /\ slots' \in [0..size -> Player]
  BY AppendSlotFacts
<1>2. /\ capacity' = size + 1 /\ size' = size + 2 /\ live' = live \cup {size}
      /\ appends' = appends + 1 /\ ready' = ready /\ status' = status
  BY DEF AppendSlot
<1>3. Allocated' = 0..size
  BY <1>2 DEF Allocated
<1>4. TypeOK'
  <2>1. live' \subseteq Allocated'
    BY <1>1, <1>2, <1>3 DEF Allocated
  <2> QED BY <1>1, <1>2, <1>3, <2>1
<1>5. LivePlayerNodeHasSession'
  BY <1>0, <1>1, <1>2 DEF LivePlayerNodeHasSession, NewPlayer
<1>6. Cardinality(Free') \in Nat
  <2>1. Free' \subseteq 0..size
    BY <1>3 DEF Free
  <2>2. IsFiniteSet(0..size)
    BY FS_Interval
  <2>3. IsFiniteSet(Free')
    BY <2>1, <2>2, FS_Subset
  <2> QED BY <2>3, FS_CardinalityType
<1>7. SlackIsFree'
  BY <1>2, <1>6 DEF SlackIsFree
<1>8. IsFiniteSet(live) /\ Cardinality(live) \in Nat
  BY FreeFinite, FS_Subset, FS_CardinalityType
<1>9. Cardinality(live') = Cardinality(live) + 1
  BY <1>1, <1>2, <1>8, FS_AddElement
<1>10. SizeCountsAppendsTwice'
  BY <1>2, <1>8, <1>9 DEF SizeCountsAppendsTwice
<1>11. SmallTable'
  <2>1. SUFFICES ASSUME appends = 0 PROVE SmallTable'
    BY <1>2 DEF SmallTable
  <2>2. capacity = 1 /\ Allocated = {0} /\ size <= 1
    BY <2>1 DEF SmallTable, SinglePlayerInBounds, Allocated
  <2>3. 0 \in live
    BY <2>1, <2>2 DEF SmallTable, CreateScan, Free
  <2>4. size = 1
    BY <1>1, <2>2, <2>3
  <2> QED BY <1>2, <1>3, <2>1, <2>3, <2>4 DEF SmallTable
<1> QED BY <1>2, <1>4, <1>5, <1>7, <1>10, <1>11 DEF SinglePlayerInBounds

LEMMA CreatePlayerStep ==
  ASSUME TableInv, NEW g \in Guilds, CreatePlayer(g)
  PROVE  TableInv'
<1>1. PICK n \in SelectNode :
        \/ /\ \A i \in CreateScan \cap Allocated : slots[i].guild \notin {g, NoGuild}
           /\ AppendSlot(g, n)
        \/ \E i \in Stops(CreateScan, {g, NoGuild}) :
             \/ /\ i \in Allocated /\ slots[i].guild = NoGuild
                /\ ReuseSlot(g, n, i)
             \/ /\ i \notin live
                /\ i \in Allocated => slots[i].guild = g
                /\ Corrupted
  BY DEF CreatePlayer
<1>2. CASE /\ \A i \in CreateScan \cap Allocated : slots[i].guild \notin {g, NoGuild}
           /\ AppendSlot(g, n)
  BY <1>2, AppendSlotStep
<1>3. CASE \E i \in Allocated : slots[i].guild = NoGuild /\ ReuseSlot(g, n, i)
  BY <1>3, ReuseSlotStep
<1>4. CASE \E i \in CreateScan : /\ i \notin live
                                 /\ i \in Allocated => slots[i].guild = g
                                 /\ Corrupted
  <2>1. PICK i \in CreateScan : /\ i \notin live
                                /\ i \in Allocated => slots[i].guild = g
                                /\ Corrupted
    BY <1>4
  <2>2. appends # 0
    BY <2>1, PhantomNeedsAppend
  <2> QED BY <2>1, <2>2, CorruptedStep
<1> QED BY <1>1, <1>2, <1>3, <1>4, StopsFacts

(* Freeing a slot in use: the mirror image of ReuseSlotStep.               *)
LEMMA RemovePlayerStep ==
  ASSUME TableInv, NEW g \in Guilds, RemovePlayer(g)
  PROVE  TableInv'
<1>. USE DEF TableInv, TypeOK, Allocated
<1>1. PICK i \in Found(g) :
        \/ /\ i \in live
           /\ slots' = [slots EXCEPT ![i] = [guild |-> NoGuild, node |-> 0,
                                             queue |-> <<>>]]
           /\ size' = size - 1
           /\ live' = live \ {i}
           /\ UNCHANGED <<ready, capacity, appends, status>>
        \/ i \notin live /\ Corrupted
  BY DEF RemovePlayer
<1>2. i \in CreateScan /\ i \in GetScan /\ (i \in Allocated => slots[i].guild = g)
  BY StopsFacts DEF Found, CreateScan
<1>3. CASE i \notin live /\ Corrupted
  BY <1>2, <1>3, PhantomNeedsAppend, CorruptedStep
<1>4. CASE i \in live
  <2>1. /\ slots' = [slots EXCEPT ![i] = [guild |-> NoGuild, node |-> 0,
                                          queue |-> <<>>]]
        /\ size' = size - 1 /\ live' = live \ {i}
        /\ ready' = ready /\ capacity' = capacity
        /\ appends' = appends /\ status' = status
    BY <1>1, <1>4
  <2>2. size' \in Nat
    BY <1>2, <2>1 DEF GetScan
  <2>3. [guild |-> NoGuild, node |-> 0, queue |-> <<>>] \in Player
    <3>1. <<>> \in Seq(Tracks) /\ 0 \in Nodes
      BY TableConstants DEF Nodes
    <3> QED BY <3>1 DEF Player, GuildWord
  <2>4. /\ slots' \in [Allocated -> Player]
        /\ slots'[i].guild = NoGuild
        /\ \A j \in Allocated \ {i} : slots'[j] = slots[j]
    BY <1>4, <2>1, <2>3
  <2>5. TypeOK'
    BY <2>1, <2>2, <2>4
  <2>6. LivePlayerNodeHasSession'
    BY <2>1, <2>4 DEF LivePlayerNodeHasSession
  <2>7. Free' = Free \cup {i} /\ i \notin Free
    BY <1>4, <2>1, <2>4, TableConstants DEF Free, LivePlayerNodeHasSession
  <2>8. Cardinality(Free') = Cardinality(Free) + 1
    BY <2>7, FreeFinite, FS_AddElement
  <2>9. SlackIsFree'
    BY <2>1, <2>2, <2>8, FreeFinite DEF SlackIsFree
  <2>10. IsFiniteSet(live) /\ Cardinality(live) \in Nat
    BY FreeFinite, FS_Subset, FS_CardinalityType
  <2>11. Cardinality(live') = Cardinality(live) - 1
    BY <1>4, <2>1, <2>10, FS_RemoveElement
  <2>12. SizeCountsAppendsTwice'
    BY <2>1, <2>10, <2>11 DEF SizeCountsAppendsTwice
  <2>13. SmallTable' /\ SinglePlayerInBounds'
    BY <2>1, <2>2, <2>4 DEF SmallTable, Free, SinglePlayerInBounds
  <2> QED BY <2>5, <2>6, <2>9, <2>12, <2>13
<1> QED BY <1>1, <1>3, <1>4

LEMMA NextStep == TableInv /\ [Next]_vars => TableInv'
<1> SUFFICES ASSUME TableInv, [Next]_vars PROVE TableInv'
  OBVIOUS
<1>1. CASE UNCHANGED vars
  BY <1>1 DEF vars, tableVars, TableInv, TypeOK, LivePlayerNodeHasSession, SlackIsFree,
       SizeCountsAppendsTwice, SmallTable, SinglePlayerInBounds, Allocated, Free
<1>2. ASSUME NEW n \in Nodes, NodeReady(n) PROVE TableInv'
  BY <1>2, NodeReadyStep
<1>3. ASSUME NEW g \in Guilds, CreatePlayer(g) PROVE TableInv'
  BY <1>3, CreatePlayerStep
<1>4. ASSUME status = "running", NEW g \in Guilds, NEW t \in Tracks, AddTrack(g, t)
      PROVE  TableInv'
  BY <1>4, AddTrackStep
<1>5. ASSUME status = "running", NEW g \in Guilds, NEW pos \in 0..MaxQueue,
             RemoveTrack(g, pos)
      PROVE  TableInv'
  BY <1>5, RemoveTrackStep
<1>6. ASSUME NEW g \in Guilds, RemovePlayer(g) PROVE TableInv'
  BY <1>6, RemovePlayerStep
<1> QED BY <1>1, <1>2, <1>3, <1>4, <1>5, <1>6 DEF Next

-----------------------------------------------------------------------------
(* The bookkeeping of `size`, capacity and free slots is invariant for     *)
(* every number of guilds, nodes and reallocs (rest.c:101-204).            *)
THEOREM TableInvariant == Spec => []TableInv
<1>1. Init => TableInv
  BY InitTable
<1>2. TableInv /\ [Next]_vars => TableInv'
  BY NextStep
<1> QED BY <1>1, <1>2, PTL DEF Spec

(* Types: in particular the slots are always exactly the heap block.       *)
THEOREM TypeCorrect == Spec => []TypeOK
<1>1. TableInv => TypeOK
  BY DEF TableInv
<1> QED BY <1>1, TableInvariant, PTL

(* A player handed out by coglink_create_player has a guild and sits on a  *)
(* node with a session.                                                    *)
THEOREM PlayerNodeHasSession == Spec => []LivePlayerNodeHasSession
<1>1. TableInv => LivePlayerNodeHasSession
  BY DEF TableInv
<1> QED BY <1>1, TableInvariant, PTL

(* A client with one player at a time never leaves its heap block.         *)
THEOREM SinglePlayerSafe == Spec => []SinglePlayerInBounds
<1>1. TableInv => SinglePlayerInBounds
  BY DEF TableInv
<1> QED BY <1>1, TableInvariant, PTL

-----------------------------------------------------------------------------
(* With at most two slots, the first match of a guild in use is a player   *)
(* in use: slot 0 or slot 1.                                               *)
LEMMA FoundInSmallTable == TableInv => LivePlayersFoundWithOneAppend
<1> SUFFICES ASSUME TableInv, appends <= 1, NEW i \in live
             PROVE  /\ Found(slots[i].guild) # {}
                    /\ Found(slots[i].guild) \subseteq live
  BY DEF LivePlayersFoundWithOneAppend
<1>. USE DEF TableInv, TypeOK, Allocated
<1>1. /\ capacity = appends + 1 /\ i \in 0..appends
      /\ slots[i].guild \in Guilds
      /\ \A j \in Allocated : j \in live \/ slots[j].guild = NoGuild
  BY DEF SmallTable, LivePlayerNodeHasSession, Free
<1>2. IsFiniteSet(live) /\ Cardinality(live) \in Nat
  BY FreeFinite, FS_Subset, FS_CardinalityType
<1>3. size >= appends + 1
  <2>1. Cardinality(live) # 0
    BY <1>2, FS_EmptySet
  <2> QED BY <1>2, <2>1 DEF SizeCountsAppendsTwice
<1>4. GetScan \cap Allocated = 0..appends
  BY <1>1, <1>3 DEF GetScan
<1>5. ASSUME NEW j \in Found(slots[i].guild) PROVE j \in live
  <2>1. /\ j \in GetScan
        /\ j \in Allocated => slots[j].guild = slots[i].guild
        /\ \A k \in GetScan \cap Allocated : k < j => slots[k].guild # slots[i].guild
    BY <1>5 DEF Found, Stops
  <2>2. j \in Allocated
    BY <1>1, <1>4, <2>1 DEF GetScan
  <2> QED BY <1>1, <2>1, <2>2, TableConstants
<1>6. Found(slots[i].guild) # {}
  <2>1. CASE i = 0 \/ slots[0].guild = slots[i].guild
    <3>1. 0 \in Found(slots[i].guild)
      BY <1>3, <1>4, <2>1 DEF Found, Stops, GetScan
    <3> QED BY <3>1
  <2>2. CASE i = 1 /\ slots[0].guild # slots[i].guild
    <3>1. 1 \in Found(slots[i].guild)
      BY <1>1, <1>3, <1>4, <2>2 DEF Found, Stops, GetScan
    <3> QED BY <3>1
  <2> QED BY <1>1, <2>1, <2>2
<1> QED BY <1>5, <1>6

(* Until the second realloc, every player in use is found by its guild.    *)
THEOREM SmallTablesFindPlayers == Spec => []LivePlayersFoundWithOneAppend
BY FoundInSmallTable, TableInvariant, PTL

(* One step of the table keeps the players in use where they are.          *)
LEMMA NoLiveSlotLostStep ==
  ASSUME TableInv, [Next]_vars, NEW i \in live, i \in live'
  PROVE  /\ i < capacity'
         /\ slots'[i].guild = slots[i].guild
         /\ slots'[i].node = slots[i].node
<1>. USE DEF TableInv, TypeOK, Allocated
<1>0. i \in Allocated /\ slots[i].guild \in Guilds
  BY DEF LivePlayerNodeHasSession
<1>1. ASSUME NEW g \in Guilds, CreatePlayer(g)
      PROVE  i < capacity' /\ slots'[i] = slots[i]
  <2>1. PICK n \in SelectNode :
          \/ /\ \A j \in CreateScan \cap Allocated : slots[j].guild \notin {g, NoGuild}
             /\ AppendSlot(g, n)
          \/ \E j \in Allocated : slots[j].guild = NoGuild /\ ReuseSlot(g, n, j)
          \/ Corrupted
    BY <1>1 DEF CreatePlayer
  <2>2. CASE /\ \A j \in CreateScan \cap Allocated : slots[j].guild \notin {g, NoGuild}
             /\ AppendSlot(g, n)
    <3>1. i < size /\ slots'[i] = slots[i]
      BY <2>2, AppendSlotFacts
    <3>2. capacity' = size + 1
      BY <2>2 DEF AppendSlot
    <3> QED BY <1>0, <3>1, <3>2
  <2>3. CASE \E j \in Allocated : slots[j].guild = NoGuild /\ ReuseSlot(g, n, j)
    BY <1>0, <2>3, TableConstants DEF ReuseSlot
  <2>4. CASE Corrupted
    BY <1>0, <2>4 DEF Corrupted
  <2> QED BY <2>1, <2>2, <2>3, <2>4
<1>2. ASSUME NEW g \in Guilds, RemovePlayer(g)
      PROVE  i < capacity' /\ slots'[i] = slots[i]
  BY <1>0, <1>2 DEF RemovePlayer, Corrupted
<1>3. ASSUME NEW j \in live, NEW q, slots' = [slots EXCEPT ![j].queue = q],
             capacity' = capacity
      PROVE  /\ i < capacity'
             /\ slots'[i].guild = slots[i].guild
             /\ slots'[i].node = slots[i].node
  BY <1>0, <1>3 DEF Player
<1>4. ASSUME NEW g \in Guilds, NEW t \in Tracks, AddTrack(g, t)
      PROVE  /\ i < capacity'
             /\ slots'[i].guild = slots[i].guild
             /\ slots'[i].node = slots[i].node
  <2>1. PICK j \in Found(g) :
          \/ /\ j \in live /\ UNCHANGED capacity
             /\ slots' = [slots EXCEPT ![j].queue = Append(@, t)]
          \/ Corrupted
    BY <1>4 DEF AddTrack
  <2>2. CASE /\ j \in live /\ UNCHANGED capacity
             /\ slots' = [slots EXCEPT ![j].queue = Append(@, t)]
    BY <1>3, <2>2
  <2>3. CASE Corrupted
    BY <1>0, <2>3 DEF Corrupted
  <2> QED BY <2>1, <2>2, <2>3
<1>5. ASSUME NEW g \in Guilds, NEW pos \in 0..MaxQueue, RemoveTrack(g, pos)
      PROVE  /\ i < capacity'
             /\ slots'[i].guild = slots[i].guild
             /\ slots'[i].node = slots[i].node
  BY <1>0, <1>3, <1>5 DEF RemoveTrack, Corrupted
<1>6. ASSUME UNCHANGED <<slots, capacity>>
      PROVE  i < capacity' /\ slots'[i] = slots[i]
  BY <1>0, <1>6
<1> QED BY <1>1, <1>2, <1>4, <1>5, <1>6 DEF Next, NodeReady, vars, tableVars

(* The realloc of coglink_create_player, although it may shrink the block, *)
(* and the reuse of slots never lose or move a player in use.              *)
THEOREM LiveSlotsStay == Spec => NoLiveSlotLost
<1>1. TableInv /\ [Next]_vars =>
        [\A i \in live \cap live' :
           /\ i < capacity'
           /\ slots'[i].guild = slots[i].guild
           /\ slots'[i].node = slots[i].node]_vars
  BY NoLiveSlotLostStep
<1> QED BY <1>1, TableInvariant, PTL DEF Spec, NoLiveSlotLost

-----------------------------------------------------------------------------
(* The players in use, while the table serves its application.             *)
LEMMA InUseFacts ==
  ASSUME TableInv, Served
  PROVE  /\ appends \in 0..1 /\ capacity = appends + 1 /\ Allocated = 0..appends
         /\ DOMAIN InUse = live /\ live \subseteq 0..appends
         /\ \A i \in live : InUse[i] = slots[i] /\ slots[i].guild \in Guilds
         /\ \A i \in Allocated : i \in live \/ slots[i].guild = NoGuild
         /\ \A g : Stacks!Of(g) = {i \in live : slots[i].guild = g}
         /\ IsFiniteSet(live) /\ Cardinality(live) \in Nat
         /\ size = Cardinality(live) + appends
<1>1. /\ appends \in 0..1 /\ capacity = appends + 1 /\ Allocated = 0..appends
      /\ live \subseteq 0..appends /\ size = Cardinality(live) + appends
      /\ \A i \in Allocated : i \in live \/ slots[i].guild = NoGuild
  BY DEF TableInv, TypeOK, Served, SmallTable, Allocated, Free, SizeCountsAppendsTwice
<1>2. DOMAIN InUse = live /\ \A i \in live : InUse[i] = slots[i]
  BY DEF InUse
<1>3. \A i \in live : slots[i].guild \in Guilds
  BY DEF TableInv, LivePlayerNodeHasSession
<1>4. IsFiniteSet(live) /\ Cardinality(live) \in Nat
  <2>1. IsFiniteSet(0..appends)
    BY <1>1, FS_Interval
  <2> QED BY <1>1, <2>1, FS_Subset, FS_CardinalityType
<1>5. \A g : Stacks!Of(g) = {i \in live : slots[i].guild = g}
  BY <1>2 DEF Stacks!Of
<1> QED BY <1>1, <1>2, <1>3, <1>4, <1>5

(* A scan leaves the block only when both places are taken.                *)
LEMMA PastBlockWhenFull ==
  ASSUME TableInv, Served, NEW i \in CreateScan, i \notin Allocated
  PROVE  i \in GetScan /\ appends = 1 /\ live = 0..1
<1>1. /\ appends \in 0..1 /\ Allocated = 0..appends /\ live \subseteq 0..appends
      /\ IsFiniteSet(live) /\ Cardinality(live) \in Nat /\ size = Cardinality(live) + appends
  BY InUseFacts
<1>2. i \in GetScan /\ i >= appends + 1 /\ i <= size - 1
  BY <1>1 DEF CreateScan, GetScan
<1>3. Cardinality(live) >= 2
  BY <1>1, <1>2 DEF GetScan
<1>4. IsFiniteSet(0..appends) /\ Cardinality(0..appends) = appends + 1
  BY <1>1, FS_Interval
<1>5. Cardinality(live) <= appends + 1
  BY <1>1, <1>4, FS_Subset
<1>6. appends = 1 /\ Cardinality(live) = Cardinality(0..appends)
  BY <1>1, <1>3, <1>4, <1>5
<1>7. live = 0..appends
  BY <1>1, <1>4, <1>6, FS_Subset
<1> QED BY <1>2, <1>6, <1>7

(* What coglink_get_player returns is the guild's player on top, unless    *)
(* the guild has none and both places are taken.                           *)
LEMMA FoundIsTop ==
  ASSUME TableInv, Served, NEW g \in Guilds, NEW i \in Found(g)
  PROVE  /\ i \in live => i \in Stacks!Top(g)
         /\ i \notin live => Stacks!Of(g) = {} /\ live = 0..1
<1>1. /\ appends \in 0..1 /\ Allocated = 0..appends
      /\ \A j \in Allocated : j \in live \/ slots[j].guild = NoGuild
      /\ size \in Nat
  BY InUseFacts DEF TableInv, TypeOK
<1>2. ASSUME NEW j \in Stacks!Of(g)
      PROVE  j \in live /\ slots[j].guild = g /\ j \in Allocated /\ j \in 0..1
  <2>1. j \in live /\ slots[j].guild = g /\ live \subseteq 0..appends
    BY InUseFacts
  <2> QED BY <1>1, <2>1
<1>3. i \in GetScan /\ i \in 0..(size - 1) /\ (i \in Allocated => slots[i].guild = g)
  BY DEF Found, Stops, GetScan
<1>4. ASSUME NEW j \in Stacks!Of(g) PROVE ~(j < i)
  <2> SUFFICES ASSUME j < i PROVE FALSE
    OBVIOUS
  <2>1. j \in GetScan \cap Allocated
    BY <1>1, <1>2, <1>3 DEF GetScan
  <2> QED BY <1>2, <2>1 DEF Found, Stops
<1>5. ASSUME i \in live PROVE i \in Stacks!Top(g)
  <2>1. i \in Allocated
    BY <1>1, <1>5, InUseFacts
  <2>2. i \in Stacks!Of(g)
    BY <1>3, <1>5, <2>1, InUseFacts
  <2>3. \A j \in Stacks!Of(g) : i <= j
    BY <1>2, <1>3, <1>4
  <2> QED BY <2>2, <2>3 DEF Stacks!Top
<1>6. ASSUME i \notin live PROVE Stacks!Of(g) = {} /\ live = 0..1
  <2>1. i \notin Allocated
    BY <1>1, <1>3, <1>6, TableConstants
  <2>2. live = 0..1 /\ appends = 1
    BY <1>3, <2>1, PastBlockWhenFull DEF CreateScan
  <2>3. i > 1
    BY <1>1, <1>3, <2>1, <2>2
  <2>4. \A j \in Stacks!Of(g) : j < i
    BY <1>2, <1>3, <2>3
  <2> QED BY <1>4, <2>2, <2>4
<1> QED BY <1>5, <1>6

(* Whatever is no longer served is as good as lost.                        *)
LEMMA Overflows ==
  ASSUME TableInv, Served, NEW g \in Guilds, Stacks!Of(g) = {}, live = 0..1, ~Served'
  PROVE  Stacks!Next
<1>1. DOMAIN InUse = 0..1
  BY InUseFacts
<1>2. InUse' = [p \in {} |-> p]
  BY DEF InUse
<1>3. Stacks!Overflow(g)
  BY <1>1, <1>2 DEF Stacks!Overflow
<1> QED BY <1>3 DEF Stacks!Next

LEMMA StacksCreate ==
  ASSUME TableInv, Served, status = "running", NEW g \in Guilds, CreatePlayer(g)
  PROVE  Stacks!Next
<1>1. /\ appends \in 0..1 /\ Allocated = 0..appends /\ live \subseteq Allocated
      /\ DOMAIN InUse = live
      /\ \A i \in live : InUse[i] = slots[i] /\ slots[i].guild \in Guilds
      /\ \A i \in Allocated : i \in live \/ slots[i].guild = NoGuild
      /\ Stacks!Of(g) = {j \in live : slots[j].guild = g}
      /\ IsFiniteSet(live) /\ Cardinality(live) \in Nat /\ size = Cardinality(live) + appends
  BY InUseFacts
<1>2. PICK n \in SelectNode :
        \/ /\ \A i \in CreateScan \cap Allocated : slots[i].guild \notin {g, NoGuild}
           /\ AppendSlot(g, n)
        \/ \E i \in Stops(CreateScan, {g, NoGuild}) :
             \/ /\ i \in Allocated /\ slots[i].guild = NoGuild
                /\ ReuseSlot(g, n, i)
             \/ /\ i \notin live
                /\ i \in Allocated => slots[i].guild = g
                /\ Corrupted
  BY DEF CreatePlayer
<1>3. n \in Nodes
  BY DEF SelectNode, Selectable, TableInv, TypeOK
<1>4. ASSUME NEW p \in (0..1) \ live, live' = live \cup {p}, Served',
             \A i \in live : slots'[i] = slots[i] /\ (slots[i].guild = g => p < i),
             slots'[p] = NewPlayer(g, n)
      PROVE  Stacks!Next
  <2>1. InUse' = [q \in DOMAIN InUse \cup {p} |->
                    IF q = p THEN [guild |-> g, node |-> n, queue |-> <<>>] ELSE InUse[q]]
    <3>1. InUse' = [q \in live \cup {p} |-> slots'[q]]
      BY <1>4 DEF InUse
    <3>2. \A q \in live \cup {p} : slots'[q] = IF q = p THEN NewPlayer(g, n) ELSE InUse[q]
      BY <1>1, <1>4
    <3> QED BY <1>1, <3>1, <3>2 DEF NewPlayer
  <2>2. \A q \in Stacks!Of(g) : p < q
    BY <1>1, <1>4
  <2>3. Stacks!Create(g)
    BY <1>1, <1>3, <1>4, <2>1, <2>2 DEF Stacks!Create
  <2> QED BY <2>3 DEF Stacks!Next
<1>5. CASE /\ \A i \in CreateScan \cap Allocated : slots[i].guild \notin {g, NoGuild}
           /\ AppendSlot(g, n)
  <2>1. /\ \A i \in live : slots'[i] = slots[i]
        /\ slots'[size] = NewPlayer(g, n) /\ size \notin live
    BY <1>5, AppendSlotFacts
  <2>2. live' = live \cup {size} /\ appends' = appends + 1 /\ status' = status
    BY <1>5 DEF AppendSlot
  <2>3. 0 \in live /\ slots[0].guild # g
    BY <1>1, <1>5 DEF CreateScan
  <2>4. Cardinality(live) >= 1
    BY <1>1, <2>3, FS_EmptySet
  <2>5. CASE appends = 0
    <3>1. live = {0} /\ size = 1
      <4>1. live = {0}
        <5>1. Allocated = 0..0 /\ live \subseteq Allocated
          BY <1>1, <2>5
        <5>2. 0..0 = {0}
          OBVIOUS
        <5> QED BY <2>3, <5>1, <5>2
      <4>2. Cardinality({0}) = 1
        BY FS_Singleton
      <4> QED BY <1>1, <2>5, <4>1, <4>2
    <3>2. Served'
      BY <2>2, <2>5 DEF Served
    <3> QED BY <1>4, <2>1, <2>2, <2>3, <3>1, <3>2
  <2>6. CASE appends = 1
    <3>1. 1 \in GetScan
      BY <1>1, <2>4, <2>6 DEF GetScan
    <3>2. 1 \in live /\ slots[1].guild # g
      BY <1>1, <1>5, <2>6, <3>1 DEF CreateScan
    <3>3. live = 0..1
      <4>1. live \subseteq 0..1
        BY <1>1, <2>6
      <4>2. \A j \in 0..1 : j = 0 \/ j = 1
        OBVIOUS
      <4>3. 0..1 \subseteq live
        BY <2>3, <3>2, <4>2
      <4> QED BY <4>1, <4>3
    <3>4. \A j \in live : slots[j].guild # g
      <4>1. \A j \in 0..1 : j = 0 \/ j = 1
        OBVIOUS
      <4> QED BY <2>3, <3>2, <3>3, <4>1
    <3>5. Stacks!Of(g) = {}
      BY <1>1, <3>4
    <3>6. ~Served'
      BY <2>2, <2>6 DEF Served
    <3> QED BY <3>3, <3>5, <3>6, Overflows
  <2> QED BY <1>1, <2>5, <2>6
<1>6. ASSUME NEW i \in Stops(CreateScan, {g, NoGuild}), i \in Allocated,
             slots[i].guild = NoGuild, ReuseSlot(g, n, i)
      PROVE  Stacks!Next
  <2>1. /\ slots' = [slots EXCEPT ![i] = NewPlayer(g, n)] /\ live' = live \cup {i}
        /\ appends' = appends /\ status' = status
    BY <1>6 DEF ReuseSlot
  <2>2. i \notin live
    BY <1>1, <1>6, TableConstants
  <2>3. DOMAIN slots = Allocated
    BY DEF TableInv, TypeOK
  <2>4. slots'[i] = NewPlayer(g, n) /\ \A j \in live : slots'[j] = slots[j]
    BY <1>1, <1>6, <2>1, <2>2, <2>3
  <2>5. ASSUME NEW j \in live, slots[j].guild = g PROVE i < j
    <3>1. i \in CreateScan /\ \A k \in CreateScan \cap Allocated : k < i => slots[k].guild # g
      BY DEF Stops
    <3>2. i \in 0..1 /\ j \in 0..1 /\ i # j
      BY <1>1, <1>6, <2>2
    <3>3. ~(j < i)
      <4> SUFFICES ASSUME j < i PROVE FALSE
        OBVIOUS
      <4>1. j \in CreateScan
        BY <3>1, <3>2 DEF CreateScan, GetScan
      <4> QED BY <1>1, <2>5, <3>1, <4>1
    <3> QED BY <3>2, <3>3
  <2>6. Served'
    BY <2>1 DEF Served
  <2>7. i \in (0..1) \ live
    BY <1>1, <1>6, <2>2
  <2> QED BY <1>4, <2>1, <2>4, <2>5, <2>6, <2>7
<1>7. ASSUME NEW i \in Stops(CreateScan, {g, NoGuild}), i \notin live,
             i \in Allocated => slots[i].guild = g, Corrupted
      PROVE  Stacks!Next
  <2>1. i \notin Allocated
    BY <1>1, <1>7, TableConstants
  <2>2. i \in CreateScan /\ \A k \in CreateScan \cap Allocated : k < i => slots[k].guild # g
    BY DEF Stops
  <2>3. i \in GetScan /\ live = 0..1 /\ appends = 1
    BY <2>1, <2>2, PastBlockWhenFull
  <2>4. Stacks!Of(g) = {}
    <3>1. i > 1 /\ i \in 0..(size - 1)
      BY <1>1, <2>1, <2>3 DEF GetScan
    <3>2. 0 \in CreateScan /\ 1 \in CreateScan
      BY <1>1, <3>1 DEF CreateScan, GetScan
    <3> QED BY <1>1, <2>2, <2>3, <3>1, <3>2
  <2>5. ~Served'
    BY <1>7 DEF Corrupted, Served
  <2> QED BY <2>3, <2>4, <2>5, Overflows
<1> QED BY <1>2, <1>5, <1>6, <1>7

(* A player in use gets another queue.                                     *)
LEMMA QueueInUse ==
  ASSUME TableInv, Served, NEW i \in live, NEW q,
         slots' = [slots EXCEPT ![i].queue = q],
         UNCHANGED <<live, appends, status>>
  PROVE  InUse' = [InUse EXCEPT ![i].queue = q] /\ Served'
<1>1. Served'
  BY DEF Served
<1>2. /\ DOMAIN InUse = live /\ live \subseteq Allocated /\ DOMAIN slots = Allocated
      /\ \A j \in live : InUse[j] = slots[j]
  BY InUseFacts DEF TableInv, TypeOK
<1>3. \A j \in live : slots'[j] = IF j = i THEN [slots[i] EXCEPT !.queue = q] ELSE slots[j]
  BY <1>2
<1>4. InUse' = [j \in live |-> slots'[j]] /\ InUse = [j \in live |-> slots[j]]
  BY <1>1 DEF InUse
<1>5. InUse' = [j \in live |-> IF j = i THEN [slots[i] EXCEPT !.queue = q] ELSE slots[j]]
  BY <1>3, <1>4
<1>6. [InUse EXCEPT ![i].queue = q]
        = [j \in live |-> IF j = i THEN [slots[i] EXCEPT !.queue = q] ELSE slots[j]]
  BY <1>4
<1> QED BY <1>1, <1>5, <1>6

(* Undefined behaviour comes only with a guild that has no player.         *)
LEMMA CorruptedOverflows ==
  ASSUME TableInv, Served, NEW g \in Guilds, NEW i \in Found(g), i \notin live, Corrupted
  PROVE  Stacks!Next
<1>1. Stacks!Of(g) = {} /\ live = 0..1
  BY FoundIsTop
<1>2. ~Served'
  BY DEF Corrupted, Served
<1> QED BY <1>1, <1>2, Overflows

LEMMA StacksAdd ==
  ASSUME TableInv, Served, NEW g \in Guilds, NEW t \in Tracks, AddTrack(g, t)
  PROVE  Stacks!Next
<1>1. PICK i \in Found(g) :
        \/ /\ i \in live
           /\ slots' = [slots EXCEPT ![i].queue = Append(@, t)]
           /\ UNCHANGED <<ready, capacity, size, live, appends, status>>
        \/ i \notin live /\ Corrupted
  BY DEF AddTrack
<1>2. CASE i \notin live /\ Corrupted
  BY <1>2, CorruptedOverflows
<1>3. CASE /\ i \in live
           /\ slots' = [slots EXCEPT ![i].queue = Append(@, t)]
           /\ UNCHANGED <<ready, capacity, size, live, appends, status>>
  <2>1. i \in Stacks!Top(g) /\ InUse[i] = slots[i]
    BY <1>3, FoundIsTop, InUseFacts
  <2>2. slots' = [slots EXCEPT ![i].queue = Append(slots[i].queue, t)]
    BY <1>3
  <2>3. InUse' = [InUse EXCEPT ![i].queue = Append(slots[i].queue, t)] /\ Served'
    BY <1>3, <2>2, QueueInUse
  <2>4. InUse' = [InUse EXCEPT ![i].queue = Append(@, t)]
    BY <2>1, <2>3
  <2>5. Stacks!Enqueue(g, t)
    BY <2>1, <2>3, <2>4 DEF Stacks!Enqueue
  <2> QED BY <2>5 DEF Stacks!Next
<1> QED BY <1>1, <1>2, <1>3

LEMMA StacksDrop ==
  ASSUME TableInv, Served, NEW g \in Guilds, NEW pos \in 0..MaxQueue, RemoveTrack(g, pos)
  PROVE  [Stacks!Next]_(Stacks!stackVars)
<1>1. PICK i \in Found(g) :
        \/ /\ i \in live
           /\ pos < Len(slots[i].queue)
           /\ slots' = [slots EXCEPT ![i].queue = Without(@, pos)]
           /\ UNCHANGED <<ready, capacity, size, live, appends, status>>
        \/ /\ status' = "exited"
           /\ UNCHANGED <<ready, slots, capacity, size, live, appends>>
        \/ i \notin live /\ Corrupted
  BY DEF RemoveTrack
<1>2. CASE i \notin live /\ Corrupted
  BY <1>2, CorruptedOverflows
<1>3. CASE /\ status' = "exited"
           /\ UNCHANGED <<ready, slots, capacity, size, live, appends>>
  <2>1. Served' /\ InUse' = InUse
    BY <1>3 DEF Served, InUse
  <2> QED BY <2>1 DEF Stacks!stackVars
<1>4. CASE /\ i \in live
           /\ pos < Len(slots[i].queue)
           /\ slots' = [slots EXCEPT ![i].queue = Without(@, pos)]
           /\ UNCHANGED <<ready, capacity, size, live, appends, status>>
  <2>1. i \in Stacks!Top(g) /\ InUse[i] = slots[i]
    BY <1>4, FoundIsTop, InUseFacts
  <2>2. slots' = [slots EXCEPT ![i].queue = Without(slots[i].queue, pos)]
    BY <1>4
  <2>3. InUse' = [InUse EXCEPT ![i].queue = Without(slots[i].queue, pos)] /\ Served'
    BY <1>4, <2>2, QueueInUse
  <2>4. InUse' = [InUse EXCEPT ![i].queue =
                    SubSeq(@, 1, pos) \o SubSeq(@, pos + 2, Len(@))]
    BY <2>1, <2>3 DEF Without
  <2>5. pos \in 0..(Len(InUse[i].queue) - 1)
    <3>1. slots[i].queue \in Seq(Tracks) /\ Len(slots[i].queue) \in Nat
      BY <1>4 DEF TableInv, TypeOK, Player
    <3>2. pos \in Nat
      BY TableConstants
    <3> QED BY <1>4, <2>1, <3>1, <3>2
  <2>6. Stacks!Dequeue(g)
    BY <2>1, <2>3, <2>4, <2>5 DEF Stacks!Dequeue
  <2> QED BY <2>6 DEF Stacks!Next
<1> QED BY <1>1, <1>2, <1>3, <1>4

LEMMA StacksRemove ==
  ASSUME TableInv, Served, NEW g \in Guilds, RemovePlayer(g)
  PROVE  Stacks!Next
<1>1. PICK i \in Found(g) :
        \/ /\ i \in live
           /\ slots' = [slots EXCEPT ![i] = [guild |-> NoGuild, node |-> 0,
                                             queue |-> <<>>]]
           /\ live' = live \ {i}
           /\ UNCHANGED <<appends, status>>
        \/ i \notin live /\ Corrupted
  BY DEF RemovePlayer
<1>2. CASE i \notin live /\ Corrupted
  BY <1>2, CorruptedOverflows
<1>3. CASE /\ i \in live
           /\ slots' = [slots EXCEPT ![i] = [guild |-> NoGuild, node |-> 0,
                                             queue |-> <<>>]]
           /\ live' = live \ {i}
           /\ UNCHANGED <<appends, status>>
  <2>1. i \in Stacks!Top(g)
    BY <1>3, FoundIsTop
  <2>2. Served'
    BY <1>3 DEF Served
  <2>3. \A j \in live \ {i} : slots'[j] = slots[j]
    BY <1>3 DEF TableInv, TypeOK
  <2>4. InUse' = [j \in live \ {i} |-> slots'[j]]
    BY <1>3, <2>2 DEF InUse
  <2>5. InUse' = [q \in DOMAIN InUse \ {i} |-> InUse[q]]
    BY <2>3, <2>4, InUseFacts
  <2>6. Stacks!Remove(g)
    BY <2>1, <2>2, <2>5 DEF Stacks!Remove
  <2> QED BY <2>6 DEF Stacks!Next
<1> QED BY <1>1, <1>2, <1>3

(* A table that no longer serves its application never does again.         *)
LEMMA LostStays ==
  ASSUME TableInv, ~Served, [Next]_vars
  PROVE  UNCHANGED Stacks!stackVars
<1>1. appends \in Nat
  BY DEF TableInv, TypeOK
<1>2. CASE UNCHANGED vars
  BY <1>2 DEF vars, tableVars, Served, InUse, Stacks!stackVars
<1>3. CASE Next
  <2>1. status = "running" /\ appends > 1
    BY <1>1, <1>3 DEF Next, Served
  <2>2. appends' = appends \/ appends' = appends + 1
    BY <1>3 DEF Next, NodeReady, CreatePlayer, ReuseSlot, AppendSlot, AddTrack, RemoveTrack,
                RemovePlayer, Corrupted, tableVars
  <2>3. ~Served'
    BY <1>1, <2>1, <2>2 DEF Served
  <2> QED BY <2>3 DEF Served, InUse, Stacks!stackVars
<1> QED BY <1>2, <1>3

(* Every step of the table is a step of the stacks, or leaves them alone.  *)
LEMMA StacksStep ==
  ASSUME TableInv, [Next]_vars
  PROVE  [Stacks!Next]_(Stacks!stackVars)
<1>1. CASE ~Served
  BY <1>1, LostStays
<1>2. CASE Served
  <2>1. CASE UNCHANGED <<slots, live, appends, status>>
    BY <2>1 DEF Served, InUse, Stacks!stackVars
  <2>2. ASSUME status = "running", NEW g \in Guilds, CreatePlayer(g)
        PROVE  [Stacks!Next]_(Stacks!stackVars)
    BY <1>2, <2>2, StacksCreate
  <2>3. ASSUME NEW g \in Guilds, NEW t \in Tracks, AddTrack(g, t)
        PROVE  [Stacks!Next]_(Stacks!stackVars)
    BY <1>2, <2>3, StacksAdd
  <2>4. ASSUME NEW g \in Guilds, NEW pos \in 0..MaxQueue, RemoveTrack(g, pos)
        PROVE  [Stacks!Next]_(Stacks!stackVars)
    BY <1>2, <2>4, StacksDrop
  <2>5. ASSUME NEW g \in Guilds, RemovePlayer(g)
        PROVE  [Stacks!Next]_(Stacks!stackVars)
    BY <1>2, <2>5, StacksRemove
  <2> QED BY <2>1, <2>2, <2>3, <2>4, <2>5 DEF Next, NodeReady, vars, tableVars
<1> QED BY <1>1, <1>2

(* The table implements stacks of players on two places, and fails its     *)
(* application only when it asks for a guild without a player while both   *)
(* are taken (lib/rest.c:25-39 and 101-204).                               *)
THEOREM ImplementsStacks == Spec => ServesTwoPlayers
<1>1. Init => Stacks!Init
  <2> SUFFICES ASSUME Init PROVE Stacks!Init
    OBVIOUS
  <2>1. Served /\ live = {}
    BY DEF Init, Served
  <2>2. InUse = [p \in {} |-> p]
    BY <2>1 DEF InUse
  <2> QED BY <2>1, <2>2 DEF Stacks!Init
<1>2. TableInv /\ [Next]_vars => [Stacks!Next]_(Stacks!stackVars)
  BY StacksStep
<1> QED BY <1>1, <1>2, TableInvariant, PTL DEF Spec, ServesTwoPlayers, Stacks!Spec
=============================================================================
