-------------------------- MODULE LifecycleProofs --------------------------
(***************************************************************************)
(* Proofs about Lifecycle: connecting and cleaning up do not disturb what  *)
(* PlayerTableProofs and VoiceHandshakeProofs show, and cleanup is safe up *)
(* to the first realloc, for any number of guilds, nodes and tracks.       *)
(***************************************************************************)
EXTENDS Lifecycle, VoiceHandshakeProofs

(* What a step does to the table is a step of the table, or nothing.       *)
LEMMA RunIsTableStep ==
  ASSUME Running, Run
  PROVE  [Next]_vars
<1>1. ASSUME NEW n \in Nodes, LifeReady(n) PROVE Next
  BY <1>1 DEF LifeReady, Ready, TableStep, Next, Running
<1>2. ASSUME NEW g \in Guilds, LifeCreate(g) PROVE Next
  BY <1>2 DEF LifeCreate, Create, TableStep, Next, Running
<1>3. ASSUME NEW g \in Guilds, NEW t \in Tracks, LifeAdd(g, t) PROVE Next
  BY <1>3 DEF LifeAdd, TableStep, Next, Running
<1>4. ASSUME NEW g \in Guilds, NEW pos \in 0..MaxQueue, LifeTake(g, pos) PROVE Next
  BY <1>4 DEF LifeTake, TableStep, Next, Running
<1>5. ASSUME NEW g \in Guilds, LifeRemove(g) PROVE Next
  BY <1>5 DEF LifeRemove, Remove, TableStep, Next, Running
<1>6. GatewayStep => UNCHANGED vars
  BY DEF GatewayStep, JoinVoice, Restate, Failover, Send, VoiceStateUpdate,
         GuildCreateOwnState, VoiceServerUpdate, Received
<1> QED BY <1>1, <1>2, <1>3, <1>4, <1>5, <1>6 DEF Run

LEMMA LifeStepIsTableStep == [LifeNext]_lifeVars => [Next]_vars
<1> SUFFICES ASSUME [LifeNext]_lifeVars PROVE [Next]_vars
  OBVIOUS
<1>1. CASE LifeNext /\ Run
  BY <1>1, RunIsTableStep DEF LifeNext
<1>2. CASE ConnectNode \/ StartLoop \/ CleanUp
  BY <1>2 DEF ConnectNode, StartLoop, CleanUp, allVars
<1>3. CASE UNCHANGED lifeVars
  BY <1>3 DEF lifeVars, allVars
<1> QED BY <1>1, <1>2, <1>3 DEF LifeNext

(* The life of a client implements the player table.                       *)
THEOREM LifeImplementsTable == LifeSpec => Spec
<1>1. LifeInit => Init
  BY DEF LifeInit, VoiceInit
<1>2. [LifeNext]_lifeVars => [Next]_vars
  BY LifeStepIsTableStep
<1> QED BY <1>1, <1>2, PTL DEF LifeSpec, Spec

-----------------------------------------------------------------------------
(* A cleanup takes strings away, and with the block all voice_data.        *)
LEMMA CleanUpVoice ==
  ASSUME VoiceInv, CleanUp
  PROVE  VoiceInv'
<1>1. /\ UNCHANGED <<vars, told, gateway, announced, forwarded, lost, fault>>
      /\ Allocated' = Allocated /\ StatesPending' = StatesPending /\ Sent' = Sent
  BY DEF CleanUp, Allocated, StatesPending, Sent, vars, tableVars
<1>2. CASE UNCHANGED <<strings, voice>>
  BY <1>1, <1>2 DEF VoiceInv, VoiceTypeOK, VoiceDataOwned, FreshStrings, SentIsGone, SentOnce
<1>3. CASE FreeSlots /\ voice' = [i \in Allocated |-> NoVoice]
  <2>1. strings' \subseteq strings
    BY <1>3 DEF FreeSlots
  <2>2. VoiceTypeOK'
    BY <1>1, <1>3, <2>1 DEF VoiceInv, VoiceTypeOK
  <2>3. VoiceDataOwned'
    BY <1>1, <1>3 DEF VoiceDataOwned
  <2>4. FreshStrings'
    <3>1. told \in Nat /\ \A k \in StatesPending : gateway[k].session # NoVoice
      BY PendingTyped DEF VoiceInv, VoiceTypeOK, Sessions, NoVoice
    <3> QED BY <1>1, <1>3, <3>1 DEF VoiceInv, FreshStrings, NoVoice
  <2>5. SentIsGone' /\ SentOnce'
    <3>1. NoVoice \notin Sent
      BY DEF VoiceInv, SentIsGone, Sessions, NoVoice
    <3> QED BY <1>1, <1>3, <3>1 DEF VoiceInv, SentIsGone, SentOnce
  <2> QED BY <2>2, <2>3, <2>4, <2>5 DEF VoiceInv
<1> QED BY <1>2, <1>3 DEF CleanUp

LEMMA LifeStepVoice ==
  VoiceInv /\ TypeOK /\ TypeOK' /\ [LifeNext]_lifeVars => VoiceInv'
<1> SUFFICES ASSUME VoiceInv, TypeOK, TypeOK', [LifeNext]_lifeVars PROVE VoiceInv'
  OBVIOUS
<1>1. ASSUME NEW n \in Nodes, LifeReady(n) PROVE VoiceInv'
  BY <1>1, TableStepVoice DEF LifeReady, Ready, TableStep
<1>2. ASSUME NEW g \in Guilds, LifeCreate(g) \/ LifeRemove(g) PROVE VoiceInv'
  BY <1>2, TableStepVoice DEF LifeCreate, Create, LifeRemove, Remove, TableStep
<1>3. ASSUME NEW g \in Guilds, NEW t \in Tracks, LifeAdd(g, t) PROVE VoiceInv'
  BY <1>3, TableStepVoice DEF LifeAdd, TableStep
<1>4. ASSUME NEW g \in Guilds, NEW pos \in 0..MaxQueue, LifeTake(g, pos) PROVE VoiceInv'
  BY <1>4, TableStepVoice DEF LifeTake, TableStep
<1>5. CASE GatewayStep
  BY <1>5, DiscordStep, StateStep, ServerStep DEF GatewayStep
<1>6. CASE ConnectNode \/ StartLoop \/ UNCHANGED lifeVars
  <2>1. UNCHANGED allVars
    BY <1>6 DEF ConnectNode, StartLoop, lifeVars
  <2> QED BY <2>1, VoiceStep
<1> QED BY <1>1, <1>2, <1>3, <1>4, <1>5, <1>6, CleanUpVoice DEF LifeNext, Run

(* Sessions have one owner and are sent once, up to and through cleanup.   *)
THEOREM LifeVoiceInvariant == LifeSpec => []VoiceInv
<1>1. LifeInit => VoiceInv
  BY InitVoice DEF LifeInit
<1>2. LifeSpec => []TypeOK
  BY LifeImplementsTable, TypeCorrect, PTL
<1> QED BY <1>1, <1>2, LifeStepVoice, PTL DEF LifeSpec

-----------------------------------------------------------------------------
LEMMA InitLife == LifeInit => LifeInv
<1> SUFFICES ASSUME LifeInit PROVE LifeInv
  OBVIOUS
<1>1. /\ Allocated = {0} /\ live = {} /\ appends = 0
      /\ queueOf = [i \in {0} |-> 0] /\ structs = {} /\ arrays = {} /\ removed = {}
      /\ made = 0 /\ voice = [i \in {0} |-> 0] /\ ~crashed
  BY DEF LifeInit, VoiceInit, Init, Allocated, NoQueue, NoVoice
<1>2. LifeTypeOK
  <2>1. /\ phase = "connecting" /\ given \in 0..NodeCount /\ next = 0 /\ crashed = FALSE
        /\ NodeCount \in Nat
    BY TableConstants DEF LifeInit
  <2>2. next \in 0..given
    BY <2>1
  <2>3. queueOf \in [Allocated -> Nat \cup {WildQueue}]
    BY <1>1
  <2> QED BY <1>1, <2>1, <2>2, <2>3 DEF LifeTypeOK
<1>3. CleanupSafe /\ QueuesOwned /\ QueuesReached /\ QueuesWritten /\ VoiceWritten
  BY <1>1 DEF CleanupSafe, QueuesOwned, QueuesReached, QueuesWritten, VoiceWritten, WildVoice
<1> QED BY <1>2, <1>3 DEF LifeInv

(* A step that touches neither the queues nor the slots that hold them.    *)
LEMMA QueuesFrame ==
  ASSUME LifeInv, UNCHANGED <<slots, capacity, live, appends, queueVars>>,
         UNCHANGED <<given, crashed>>, ~crashed,
         next' \in 0..given, phase' \in {phase, "running"}, phase # "cleaned",
         phase' # "connecting" => next' = given,
         VoiceWritten'
  PROVE  LifeInv'
<1>1. Allocated' = Allocated
  BY DEF Allocated
<1>2. LifeTypeOK'
  BY <1>1 DEF LifeInv, LifeTypeOK, queueVars
<1>3. CleanupSafe'
  BY DEF CleanupSafe
<1>4. QueuesOwned' /\ QueuesReached' /\ QueuesWritten'
  BY <1>1 DEF LifeInv, QueuesOwned, QueuesReached, QueuesWritten, queueVars
<1> QED BY <1>2, <1>3, <1>4 DEF LifeInv

LEMMA GatewayVoice ==
  ASSUME VoiceInv, TypeOK, GatewayStep
  PROVE  \A i \in Allocated : voice'[i] = voice[i] \/ voice'[i] # WildVoice
<1>1. CASE \E g \in Guilds : JoinVoice(g) \/ Restate(g) \/ Failover(g)
  BY <1>1 DEF JoinVoice, Restate, Failover, Send, voiceVars
<1>2. CASE VoiceStateUpdate \/ GuildCreateOwnState
  <2> DEFINE n == Head(gateway).session
  <2>1. gateway # <<>> /\ gateway' = Tail(gateway) /\ StoreSession(Head(gateway).guild, n)
    BY <1>2 DEF VoiceStateUpdate, GuildCreateOwnState, Received
  <2>2. n # WildVoice
    BY <2>1, TailFacts DEF GatewayEvent, Sessions, WildVoice
  <2>3. voice' = voice \/ \E i \in live : voice' = [voice EXCEPT ![i] = n]
    BY <2>1 DEF StoreSession, Replace, Fault
  <2>4. DOMAIN voice = Allocated
    BY DEF VoiceInv, VoiceTypeOK
  <2> HIDE DEF n
  <2> QED BY <2>2, <2>3, <2>4
<1>3. CASE VoiceServerUpdate
  <2>1. voice' = voice \/ \E i \in live : voice' = [voice EXCEPT ![i] = NoVoice]
    BY <1>3 DEF VoiceServerUpdate, Forward, Fault
  <2>2. DOMAIN voice = Allocated
    BY DEF VoiceInv, VoiceTypeOK
  <2> QED BY <2>1, <2>2 DEF NoVoice, WildVoice
<1> QED BY <1>1, <1>2, <1>3 DEF GatewayStep

LEMMA QuietStep ==
  ASSUME LifeInv, VoiceInv, TypeOK, ~crashed,
         \/ ConnectNode \/ StartLoop
         \/ phase = "running" /\ UNCHANGED <<phase, given, next, crashed>>
            /\ ((\E n \in Nodes : LifeReady(n)) \/ (GatewayStep /\ UNCHANGED queueVars))
  PROVE  LifeInv' \/ crashed'
<1>1. CASE ConnectNode \/ StartLoop
  <2>1. UNCHANGED allVars /\ UNCHANGED queueVars /\ UNCHANGED given /\ phase = "connecting"
    BY <1>1 DEF ConnectNode, StartLoop
  <2>2. VoiceWritten'
    BY <2>1 DEF LifeInv, VoiceWritten, Allocated, allVars, vars, tableVars, voiceVars
  <2>3. given \in Nat /\ next \in 0..given /\ phase # "cleaned"
    BY <2>1 DEF LifeInv, LifeTypeOK
  <2>4. CASE ConnectNode /\ ~crashed'
    <3>1. next' \in 0..given /\ phase' = "connecting" /\ UNCHANGED crashed
      BY <2>1, <2>3, <2>4 DEF ConnectNode
    <3> QED BY <2>1, <2>2, <2>3, <3>1, QueuesFrame DEF allVars, vars, tableVars
  <2>5. CASE StartLoop
    <3>1. next > LastNode /\ UNCHANGED <<next, crashed>> /\ phase' = "running"
      BY <2>5 DEF StartLoop
    <3>2. next = given
      <4>1. NodeCount \in Nat /\ SizeWords \in Nat /\ SizeWords > given
        BY LifeConstants, TableConstants DEF LifeInv, LifeTypeOK
      <4>2. CASE given = 0
        BY <2>3, <4>2
      <4>3. CASE given > 0
        <5>1. (given - 1) % SizeWords = given - 1
          BY <2>3, <4>1, <4>3
        <5> QED BY <2>3, <3>1, <5>1 DEF LastNode
      <4> QED BY <2>3, <4>2, <4>3
    <3> QED BY <2>1, <2>2, <2>3, <3>1, <3>2, QueuesFrame DEF allVars, vars, tableVars
  <2> QED BY <1>1, <2>4, <2>5
<1>2. ASSUME phase = "running", UNCHANGED <<phase, given, next, crashed>>,
             \/ \E n \in Nodes : LifeReady(n)
             \/ GatewayStep /\ UNCHANGED queueVars
      PROVE  LifeInv'
  <2>1. next \in 0..given /\ next = given
    BY <1>2 DEF LifeInv, LifeTypeOK
  <2>2. CASE GatewayStep /\ UNCHANGED queueVars
    <3>1. UNCHANGED vars
      BY <2>2 DEF GatewayStep, JoinVoice, Restate, Failover, Send, VoiceStateUpdate,
             GuildCreateOwnState, VoiceServerUpdate, Received
    <3>2. VoiceWritten'
      BY <2>2, <3>1, GatewayVoice DEF LifeInv, VoiceWritten, Allocated, vars, tableVars
    <3> QED BY <1>2, <2>1, <2>2, <3>1, <3>2, QueuesFrame DEF vars, tableVars
  <2>3. CASE \E n \in Nodes : LifeReady(n)
    <3>1. UNCHANGED tableVars /\ WithSlots /\ UNCHANGED queueVars
      BY <2>3 DEF LifeReady, Ready, TableStep, NodeReady
    <3>2. VoiceWritten'
      BY <3>1 DEF WithSlots, LifeInv, VoiceWritten, Allocated, tableVars
    <3> QED BY <1>2, <2>1, <3>1, <3>2, QueuesFrame DEF tableVars
  <2> QED BY <1>2, <2>2, <2>3
<1> QED BY <1>1, <1>2

(* What the steps that change the queue of a player in use do to the       *)
(* slots.                                                                  *)
LEMMA RequeueFacts ==
  ASSUME TableInv, NEW g \in Guilds,
         \/ \E t \in Tracks : AddTrack(g, t)
         \/ \E pos \in Nat : RemoveTrack(g, pos)
  PROVE  /\ UNCHANGED <<capacity, live, appends>>
         /\ \A i \in Allocated : slots'[i] = slots[i] \/ i \in Requeued
<1>1. CASE \E i \in live, q \in Seq(Tracks) :
             /\ slots' = [slots EXCEPT ![i].queue = q]
             /\ UNCHANGED <<capacity, live, appends>>
  <2>1. PICK i \in live, q \in Seq(Tracks) :
          /\ slots' = [slots EXCEPT ![i].queue = q]
          /\ UNCHANGED <<capacity, live, appends>>
    BY <1>1
  <2>2. i \in Allocated /\ slots[i] \in Player /\ DOMAIN slots = Allocated
    BY DEF TableInv, TypeOK
  <2>3. slots'[i] = [slots[i] EXCEPT !.queue = q]
    BY <2>1, <2>2
  <2>4. slots'[i] = slots[i] \/ slots'[i].queue # slots[i].queue
    BY <2>2, <2>3 DEF Player
  <2> QED BY <2>1, <2>2, <2>4 DEF Requeued
<1>2. CASE UNCHANGED <<slots, capacity, live, appends>>
  BY <1>2
<1>3. ASSUME NEW t \in Tracks, AddTrack(g, t)
      PROVE  \/ UNCHANGED <<slots, capacity, live, appends>>
             \/ \E i \in live, q \in Seq(Tracks) :
                  /\ slots' = [slots EXCEPT ![i].queue = q]
                  /\ UNCHANGED <<capacity, live, appends>>
  <2>1. \/ Corrupted
        \/ \E i \in live : /\ slots' = [slots EXCEPT ![i].queue = Append(@, t)]
                           /\ UNCHANGED <<capacity, live, appends>>
    BY <1>3 DEF AddTrack
  <2>2. ASSUME NEW i \in live PROVE Append(slots[i].queue, t) \in Seq(Tracks)
    BY <1>3 DEF TableInv, TypeOK, Player
  <2> QED BY <2>1, <2>2 DEF Corrupted
<1>4. ASSUME NEW pos \in Nat, RemoveTrack(g, pos)
      PROVE  \/ UNCHANGED <<slots, capacity, live, appends>>
             \/ \E i \in live, q \in Seq(Tracks) :
                  /\ slots' = [slots EXCEPT ![i].queue = q]
                  /\ UNCHANGED <<capacity, live, appends>>
  <2>1. \/ UNCHANGED <<slots, capacity, live, appends>>
        \/ \E i \in live : /\ pos < Len(slots[i].queue)
                           /\ slots' = [slots EXCEPT ![i].queue = Without(@, pos)]
                           /\ UNCHANGED <<capacity, live, appends>>
    BY <1>4 DEF RemoveTrack, Corrupted
  <2>2. ASSUME NEW i \in live, pos < Len(slots[i].queue)
        PROVE  Without(slots[i].queue, pos) \in Seq(Tracks)
    BY <2>2, WithoutType DEF TableInv, TypeOK, Player
  <2> QED BY <2>1, <2>2
<1> QED BY <1>1, <1>2, <1>3, <1>4

LEMMA RemoveFacts ==
  ASSUME TableInv, NEW g \in Guilds, RemovePlayer(g)
  PROVE  /\ UNCHANGED <<capacity, appends>>
         /\ live' \subseteq live
         /\ \A i \in live' : slots'[i] = slots[i]
<1>1. CASE \E i \in live : /\ slots' = [slots EXCEPT ![i] = [guild |-> NoGuild, node |-> 0,
                                                             queue |-> <<>>]]
                           /\ live' = live \ {i}
                           /\ UNCHANGED <<capacity, appends>>
  BY <1>1 DEF TableInv, TypeOK
<1>2. CASE Corrupted
  BY <1>2 DEF Corrupted
<1> QED BY <1>1, <1>2 DEF RemovePlayer

(* A create takes one slot that was not in use, or ends in corruption.     *)
LEMMA CreateFacts ==
  ASSUME TableInv, TypeOK', NEW g \in Guilds, CreatePlayer(g)
  PROVE  \/ UNCHANGED <<slots, capacity, live, appends>>
         \/ \E s \in Allocated' :
              /\ s \notin live /\ live' = live \cup {s}
              /\ \A i \in live : i \in Allocated' /\ slots'[i] = slots[i]
              /\ slots'[s].queue = <<>>
              /\ \/ s \in Allocated /\ UNCHANGED <<capacity, appends>>
                 \/ /\ s = size /\ capacity' = size + 1 /\ appends' = appends + 1
                    /\ size \notin Allocated \/ appends # 0
<1> USE DEF TableInv, TypeOK
<1>1. PICK n \in SelectNode :
        \/ /\ \A i \in CreateScan \cap Allocated : slots[i].guild \notin {g, NoGuild}
           /\ AppendSlot(g, n)
        \/ \E i \in Stops(CreateScan, {g, NoGuild}) :
             \/ /\ i \in Allocated /\ slots[i].guild = NoGuild
                /\ ReuseSlot(g, n, i)
             \/ Corrupted
  BY DEF CreatePlayer
<1>2. CASE Corrupted
  BY <1>2 DEF Corrupted
<1>3. ASSUME NEW i \in Allocated, slots[i].guild = NoGuild, ReuseSlot(g, n, i)
      PROVE  /\ i \notin live /\ live' = live \cup {i} /\ i \in Allocated'
             /\ \A j \in live : j \in Allocated' /\ slots'[j] = slots[j]
             /\ slots'[i].queue = <<>> /\ UNCHANGED <<capacity, appends>>
  <2>1. i \notin live
    BY <1>3, TableConstants DEF LivePlayerNodeHasSession
  <2> QED BY <1>3, <2>1 DEF ReuseSlot, NewPlayer, Allocated
<1>4. CASE /\ \A i \in CreateScan \cap Allocated : slots[i].guild \notin {g, NoGuild}
           /\ AppendSlot(g, n)
  <2>1. /\ size \notin live
        /\ \A i \in live : i < size /\ slots'[i] = slots[i]
        /\ slots'[size] = NewPlayer(g, n)
    BY <1>4, AppendSlotFacts
  <2>2. capacity' = size + 1 /\ appends' = appends + 1 /\ live' = live \cup {size}
    BY <1>4 DEF AppendSlot
  <2>3. size \in Allocated' /\ \A i \in live : i \in Allocated'
    BY <2>1, <2>2 DEF Allocated
  <2>4. size \notin Allocated \/ appends # 0
    <3>1. SUFFICES ASSUME appends = 0, size \in Allocated PROVE FALSE
      OBVIOUS
    <3>2. capacity = 1 /\ size = 0
      BY <3>1 DEF SmallTable, Allocated
    <3>3. slots[0].guild # NoGuild /\ 0 \in Allocated
      BY <1>4, <3>2 DEF CreateScan, GetScan, Allocated
    <3>4. 0 \in live
      BY <3>1, <3>3 DEF SmallTable, Free
    <3> QED BY <2>1, <3>2, <3>4
  <2> QED BY <2>1, <2>2, <2>3, <2>4 DEF NewPlayer
<1> QED BY <1>1, <1>2, <1>3, <1>4

-----------------------------------------------------------------------------
LEMMA CreateStepLife ==
  ASSUME TableInv, TableInv', LifeInv, NEW g \in Guilds, LifeCreate(g),
         phase = "running", ~crashed, UNCHANGED <<phase, given, next, crashed>>
  PROVE  LifeInv'
<1> USE DEF LifeInv
<1>1. TypeOK /\ TypeOK' /\ CreatePlayer(g) /\ WithSlots /\ UNCHANGED <<arrays, removed>>
  BY DEF TableInv, LifeCreate, Create, TableStep
<1>2. QueuesOwned /\ QueuesReached /\ QueuesWritten /\ VoiceWritten /\ LifeTypeOK
  OBVIOUS
<1>3. /\ queueOf' = [i \in Allocated' |-> IF i \in Created THEN made + 1
                                          ELSE IF i \in Allocated THEN queueOf[i]
                                          ELSE WildQueue]
      /\ IF Created = {} THEN UNCHANGED <<made, structs>>
         ELSE made' = made + 1 /\ structs' = structs \cup {made + 1}
  BY DEF LifeCreate, Allocated
<1>4. made \in Nat /\ live \subseteq Allocated
      /\ structs \subseteq 1..made /\ removed \subseteq 1..made
      /\ queueOf \in [Allocated -> Nat \cup {WildQueue}]
  BY <1>1 DEF LifeTypeOK, TypeOK
<1>5. LifeTypeOK'
  <2>1. queueOf' \in [Allocated' -> Nat \cup {WildQueue}]
    BY <1>3, <1>4
  <2>2. /\ made' \in Nat /\ structs' \subseteq 1..made'
        /\ arrays' \subseteq 1..made' /\ removed' \subseteq 1..made'
    <3>1. arrays \subseteq 1..made /\ UNCHANGED <<arrays, removed>>
      BY <1>1 DEF LifeTypeOK
    <3>2. CASE UNCHANGED <<made, structs>>
      BY <1>4, <3>1, <3>2
    <3>3. CASE made' = made + 1 /\ structs' = structs \cup {made + 1}
      <4>1. \A k \in 1..made : k \in 1..made'
        BY <1>4, <3>3
      <4> QED BY <1>4, <3>1, <3>3, <4>1
    <3> QED BY <1>3, <3>2, <3>3
  <2> QED BY <2>1, <2>2 DEF LifeTypeOK
<1>6. CleanupSafe'
  BY DEF CleanupSafe
<1>7. CASE UNCHANGED <<slots, capacity, live, appends>>
  <2>1. Created = {} /\ Allocated' = Allocated
    BY <1>7 DEF Created, Allocated
  <2>2. queueOf' = queueOf /\ UNCHANGED <<made, structs>>
    BY <1>3, <1>4, <2>1
  <2>3. VoiceWritten'
    BY <1>1, <1>2, <1>7, <2>1 DEF WithSlots, VoiceWritten, Allocated
  <2>4. QueuesOwned' /\ QueuesReached' /\ QueuesWritten'
    BY <1>1, <1>2, <1>7, <2>1, <2>2 DEF QueuesOwned, QueuesReached, QueuesWritten
  <2> QED BY <1>5, <1>6, <2>3, <2>4
<1>8. ASSUME NEW s \in Allocated', s \notin live, live' = live \cup {s},
             \A i \in live : i \in Allocated' /\ slots'[i] = slots[i],
             slots'[s].queue = <<>>,
             \/ s \in Allocated /\ UNCHANGED <<capacity, appends>>
             \/ s = size /\ capacity' = size + 1 /\ appends' = appends + 1
      PROVE  LifeInv'
  <2>1. Created = {s}
    BY <1>8 DEF Created
  <2>2. made' = made + 1 /\ structs' = structs \cup {made + 1}
    BY <1>3, <2>1
  <2>3. /\ queueOf'[s] = made + 1
        /\ \A i \in live : i # s /\ queueOf'[i] = queueOf[i]
        /\ \A i \in Allocated' \ {s} :
             queueOf'[i] = IF i \in Allocated THEN queueOf[i] ELSE WildQueue
    BY <1>3, <1>4, <1>8, <2>1
  <2>4. made + 1 \notin structs /\ made + 1 \notin removed /\ made + 1 > 0 /\ ~(WildQueue > 0)
    BY <1>4 DEF WildQueue
  <2>5. QueuesOwned'
    <3>1. \A i \in live' : queueOf'[i] \in structs' \ removed'
      BY <1>1, <1>2, <1>8, <2>2, <2>3, <2>4 DEF QueuesOwned
    <3>2. \A i \in Allocated' : queueOf'[i] > 0 => queueOf'[i] \in structs'
      BY <1>2, <2>2, <2>3, <2>4 DEF QueuesOwned
    <3>3. \A i \in Allocated' \ {s} :
            queueOf'[i] > 0 => /\ i \in Allocated /\ queueOf'[i] = queueOf[i]
                               /\ queueOf'[i] \in structs /\ queueOf'[i] # made + 1
      BY <1>2, <2>3, <2>4 DEF QueuesOwned
    <3>4. \A i, j \in Allocated' : queueOf'[i] = queueOf'[j] /\ queueOf'[i] > 0 => i = j
      BY <1>2, <2>3, <3>3 DEF QueuesOwned
    <3> QED BY <3>1, <3>2, <3>4 DEF QueuesOwned
  <2>6. QueuesReached'
    <3>1. \A k \in structs' \ removed' : \E i \in live' : queueOf'[i] = k
      BY <1>1, <1>2, <1>8, <2>2, <2>3 DEF QueuesReached
    <3>2. \A k \in arrays' \ removed' :
            \E i \in live' : queueOf'[i] = k /\ slots'[i].queue # <<>>
      BY <1>1, <1>2, <1>8, <2>3 DEF QueuesReached
    <3> QED BY <3>1, <3>2 DEF QueuesReached
  <2>7. QueuesWritten'
    <3>1. SUFFICES ASSUME appends' <= 1, NEW i \in Allocated', i # s
                   PROVE  queueOf'[i] > 0
      BY <2>3, <2>4 DEF QueuesWritten
    <3>2. appends \in Nat /\ capacity \in Nat /\ size \in Nat /\ i \in Nat
      BY <1>1 DEF TypeOK, Allocated
    <3>3. CASE s \in Allocated /\ UNCHANGED <<capacity, appends>>
      <4>1. i \in Allocated /\ s \in Allocated /\ queueOf'[i] = queueOf[i]
        BY <2>3, <3>1, <3>3 DEF Allocated
      <4>2. CASE appends = 0
        <5>1. Allocated = {0}
          BY <4>2 DEF TableInv, SmallTable, Allocated
        <5> QED BY <3>1, <4>1, <5>1
      <4>3. CASE appends # 0
        BY <1>2, <3>1, <3>3, <4>1, <4>3 DEF QueuesWritten
      <4> QED BY <4>2, <4>3
    <3>4. CASE s = size /\ capacity' = size + 1 /\ appends' = appends + 1
      <4>1. appends = 0 /\ capacity = 1 /\ capacity' = 2 /\ size = 1
        BY <3>1, <3>2, <3>4 DEF TableInv, SmallTable
      <4>2. i = 0 /\ 0 \in Allocated /\ queueOf'[i] = queueOf[0]
        BY <2>3, <3>1, <3>4, <4>1 DEF Allocated
      <4>3. live # {}
        BY <4>1, FS_EmptySet DEF TableInv, SizeCountsAppendsTwice
      <4> QED BY <1>2, <4>1, <4>2, <4>3 DEF QueuesWritten
    <3> QED BY <1>8, <3>3, <3>4
  <2>8. VoiceWritten'
    <3>1. SUFFICES ASSUME appends' = 0 PROVE \A i \in Allocated' : voice'[i] # WildVoice
      BY DEF VoiceWritten
    <3>2. UNCHANGED <<capacity, appends>>
      BY <1>1, <1>8, <3>1 DEF TypeOK
    <3> QED BY <1>1, <1>2, <3>1, <3>2 DEF WithSlots, VoiceWritten, Allocated
  <2> QED BY <1>5, <1>6, <2>5, <2>6, <2>7, <2>8
<1> QED BY <1>1, <1>7, <1>8, CreateFacts

LEMMA RequeueStepLife ==
  ASSUME TableInv, LifeInv, phase = "running", ~crashed,
         UNCHANGED <<phase, given, next, crashed>>, NEW g \in Guilds,
         \/ \E t \in Tracks : LifeAdd(g, t)
         \/ \E pos \in 0..MaxQueue : LifeTake(g, pos)
  PROVE  LifeInv'
<1> USE DEF LifeInv
<1>1. /\ UNCHANGED <<capacity, live, appends>> /\ Allocated' = Allocated
      /\ \A i \in Allocated : slots'[i] = slots[i] \/ i \in Requeued
      /\ WithSlots /\ UNCHANGED <<queueOf, structs, made, removed>>
  BY RequeueFacts DEF LifeAdd, LifeTake, TableStep, Allocated
<1>2. live \subseteq Allocated /\ QueuesOwned /\ QueuesReached
  BY DEF TableInv, TypeOK
<1>3. arrays' \subseteq 1..made
  <2>1. \A i \in live : queueOf[i] \in 1..made
    BY <1>2 DEF QueuesOwned, LifeTypeOK
  <2>2. CASE \E t \in Tracks : LifeAdd(g, t)
    BY <2>1, <2>2 DEF LifeAdd, LifeTypeOK, Requeued
  <2>3. CASE \E pos \in 0..MaxQueue : LifeTake(g, pos)
    BY <2>3 DEF LifeTake, LifeTypeOK
  <2> QED BY <2>2, <2>3
<1>4. ASSUME NEW k \in arrays' \ removed
      PROVE  \E i \in live : queueOf[i] = k /\ slots'[i].queue # <<>>
  <2>1. ASSUME NEW t \in Tracks, LifeAdd(g, t)
        PROVE  \E i \in live : queueOf[i] = k /\ slots'[i].queue # <<>>
    <3>1. \A i \in Requeued : i \in live /\ slots'[i].queue # <<>>
      <4>1. \/ slots' = slots
            \/ \E j \in live : slots' = [slots EXCEPT ![j].queue = Append(@, t)]
        BY <2>1 DEF LifeAdd, TableStep, AddTrack, Corrupted
      <4>2. CASE slots' = slots
        BY <4>2 DEF Requeued
      <4>3. ASSUME NEW j \in live, slots' = [slots EXCEPT ![j].queue = Append(@, t)]
            PROVE  \A i \in Requeued : i \in live /\ slots'[i].queue # <<>>
        <5>1. slots[j] \in Player /\ j \in Allocated /\ DOMAIN slots = Allocated
          BY <1>2 DEF TableInv, TypeOK
        <5>2. slots[j].queue \in Seq(Tracks)
          BY <5>1 DEF Player
        <5>3. slots'[j].queue = Append(slots[j].queue, t)
          BY <4>3, <5>1 DEF Player
        <5>4. slots'[j].queue # <<>>
          <6>1. Len(Append(slots[j].queue, t)) = Len(slots[j].queue) + 1
                /\ Len(slots[j].queue) \in Nat
            BY <2>1, <5>2
          <6> QED BY <5>3, <6>1
        <5>5. \A i \in Allocated : i # j => slots'[i] = slots[i]
          BY <4>3, <5>1
        <5> QED BY <1>2, <5>4, <5>5 DEF Requeued
      <4> QED BY <4>1, <4>2, <4>3
    <3>2. CASE k \in arrays
      BY <1>1, <1>2, <3>1, <3>2 DEF QueuesReached
    <3>3. CASE k \notin arrays
      BY <2>1, <3>1, <3>3 DEF LifeAdd
    <3> QED BY <3>2, <3>3
  <2>2. ASSUME NEW pos \in 0..MaxQueue, LifeTake(g, pos)
        PROVE  \E i \in live : queueOf[i] = k /\ slots'[i].queue # <<>>
    <3>1. /\ k \in arrays
          /\ k \notin {queueOf[i] : i \in {j \in Requeued : slots'[j].queue = <<>>}}
      BY <2>2 DEF LifeTake
    <3>2. PICK i \in live : queueOf[i] = k /\ slots[i].queue # <<>>
      BY <1>2, <3>1 DEF QueuesReached
    <3> QED BY <1>1, <1>2, <3>1, <3>2
  <2> QED BY <2>1, <2>2
<1>5. LifeTypeOK'
  BY <1>1, <1>3 DEF LifeTypeOK
<1>6. QueuesOwned' /\ QueuesReached' /\ QueuesWritten'
  BY <1>1, <1>2, <1>4 DEF QueuesOwned, QueuesReached, QueuesWritten
<1>7. VoiceWritten'
  BY <1>1 DEF WithSlots, VoiceWritten, Allocated
<1> QED BY <1>5, <1>6, <1>7 DEF CleanupSafe

LEMMA RemoveStepLife ==
  ASSUME TableInv, LifeInv, phase = "running", ~crashed,
         UNCHANGED <<phase, given, next, crashed>>, NEW g \in Guilds, LifeRemove(g)
  PROVE  LifeInv'
<1> USE DEF LifeInv
<1>1. /\ UNCHANGED <<capacity, appends>> /\ Allocated' = Allocated
      /\ live' \subseteq live /\ \A i \in live' : slots'[i] = slots[i]
      /\ WithSlots /\ UNCHANGED <<queueOf, structs, arrays, made>>
      /\ removed' = removed \cup {queueOf[i] : i \in live \ live'}
  BY RemoveFacts DEF LifeRemove, Remove, TableStep, Allocated
<1>2. live \subseteq Allocated /\ QueuesOwned /\ QueuesReached /\ made \in Nat
  BY DEF TableInv, TypeOK, LifeTypeOK
<1>3. \A i \in live : queueOf[i] \in 1..made /\ queueOf[i] > 0
  <2> SUFFICES ASSUME NEW i \in live PROVE queueOf[i] \in 1..made /\ queueOf[i] > 0
    OBVIOUS
  <2>1. queueOf[i] \in structs
    BY <1>2 DEF QueuesOwned
  <2>2. queueOf[i] \in 1..made
    BY <1>2, <2>1 DEF LifeTypeOK
  <2> QED BY <1>2, <2>2
<1>4. LifeTypeOK'
  <2>1. removed' \subseteq 1..made
    BY <1>1, <1>3 DEF LifeTypeOK
  <2> QED BY <1>1, <2>1 DEF LifeTypeOK
<1>5. QueuesOwned'
  <2>1. \A i \in live' : queueOf[i] \notin removed'
    BY <1>1, <1>2, <1>3 DEF QueuesOwned
  <2> QED BY <1>1, <1>2, <2>1 DEF QueuesOwned
<1>6. QueuesReached'
  BY <1>1, <1>2 DEF QueuesReached
<1>7. QueuesWritten' /\ VoiceWritten'
  BY <1>1 DEF QueuesWritten, WithSlots, VoiceWritten, Allocated
<1> QED BY <1>4, <1>5, <1>6, <1>7 DEF CleanupSafe

-----------------------------------------------------------------------------
(* Up to the first realloc, the loop of coglink_cleanup comes to all       *)
(* players in use.                                                         *)
LEMMA LiveVisited ==
  ASSUME TableInv, appends <= 1
  PROVE  live \subseteq Visited
<1>1. appends \in {0, 1} /\ size \in Nat /\ live \subseteq Allocated /\ IsFiniteSet(live)
  <2>1. IsFiniteSet(Allocated)
    BY FreeFinite DEF TableInv, TypeOK
  <2> QED BY <2>1, FS_Subset DEF TableInv, TypeOK
<1>2. size = Cardinality(live) + appends /\ capacity = appends + 1
  BY DEF TableInv, SizeCountsAppendsTwice, SmallTable
<1>3. ASSUME NEW i \in live PROVE i < size /\ i \in Nat
  <2>1. i \in 0..appends
    BY <1>1, <1>2 DEF Allocated
  <2>2. Cardinality(live) \in Nat /\ Cardinality(live) # 0
    BY <1>1, FS_CardinalityType, FS_EmptySet
  <2> QED BY <1>1, <1>2, <2>1, <2>2
<1> QED BY <1>1, <1>3 DEF Visited, GetScan

(* When cleanup comes to no slot past the block, it can follow what it     *)
(* finds.                                                                  *)
LEMMA SlotsWalkable ==
  ASSUME TableInv, VoiceInv, LifeInv, phase = "running", appends <= 1,
         size <= capacity, \A i \in Allocated : voice[i] # WildVoice
  PROVE  \A i \in Visited : Walkable(i) /\ voice[i] # WildVoice
<1> USE DEF LifeInv
<1> SUFFICES ASSUME NEW i \in Visited PROVE Walkable(i) /\ voice[i] # WildVoice
  OBVIOUS
<1>1. i \in Allocated /\ size > 0
  BY DEF Visited, GetScan, Allocated, TableInv, TypeOK
<1>2. queueOf[i] > 0 /\ queueOf[i] \in structs
  <2>1. appends = 0 => live # {}
    BY <1>1, FS_EmptySet DEF TableInv, SizeCountsAppendsTwice
  <2> QED BY <1>1, <2>1 DEF QueuesWritten, QueuesOwned
<1>3. ~Dangling(i)
  BY <1>1 DEF Dangling, VoiceInv, VoiceDataOwned
<1>4. \A j \in Visited \cap Allocated : queueOf[j] = queueOf[i] => j = i
  BY <1>1, <1>2 DEF QueuesOwned
<1> QED BY <1>1, <1>2, <1>3, <1>4 DEF Walkable

LEMMA CleanUpStepLife ==
  ASSUME TableInv, VoiceInv, LifeInv, ~crashed, CleanUp
  PROVE  LifeInv'
<1> USE DEF LifeInv
<1>1. /\ UNCHANGED <<vars, given, next, made, removed>> /\ Allocated' = Allocated
      /\ phase = "running" /\ phase' = "cleaned"
  BY DEF CleanUp, Allocated, vars, tableVars
<1>2. CASE FreeSlots /\ voice' = [i \in Allocated |-> NoVoice]
           /\ queueOf' = [i \in Allocated |-> NoQueue] /\ UNCHANGED crashed
  <2>1. structs' \subseteq structs /\ arrays' \subseteq arrays
    BY <1>2 DEF FreeSlots
  <2>2. LifeTypeOK'
    BY <1>1, <1>2, <2>1 DEF LifeTypeOK, NoQueue
  <2>3. VoiceWritten'
    BY <1>1, <1>2 DEF VoiceWritten, NoVoice, WildVoice
  <2> QED BY <1>1, <1>2, <2>2, <2>3 DEF CleanupSafe
<1>3. CASE /\ \E i \in Visited : ~(Walkable(i) /\ voice[i] # WildVoice)
           /\ crashed' = TRUE
           /\ UNCHANGED <<strings, structs, arrays, voice, queueOf>>
  <2>1. LifeTypeOK' /\ VoiceWritten'
    BY <1>1, <1>3 DEF LifeTypeOK, VoiceWritten, vars, tableVars
  <2>2. CleanupSafe'
    <3>1. SUFFICES ASSUME appends <= 1, \A i \in Allocated : voice[i] # WildVoice
                   PROVE  appends = 1 /\ live = {0, 1}
      BY <1>1, <1>3 DEF CleanupSafe, VoiceWritten, vars, tableVars, TableInv, TypeOK
    <3>2. ~(size <= capacity)
      BY <1>1, <1>3, <3>1, SlotsWalkable
    <3>3. /\ appends \in {0, 1} /\ capacity = appends + 1 /\ live \subseteq Allocated
          /\ size = Cardinality(live) + appends
      BY <3>1 DEF TableInv, SmallTable, SizeCountsAppendsTwice, TypeOK
    <3>4. CASE appends = 0
      <4>1. live = {} \/ live = {0}
        <5>1. Allocated = {0}
          BY <3>3, <3>4 DEF Allocated
        <5> QED BY <3>3, <5>1, Zenon
      <4>2. Cardinality(live) \in {0, 1}
        <5>1. Cardinality({}) = 0 /\ Cardinality({0}) = 1 /\ Cardinality({1}) = 1
          BY FS_EmptySet, FS_Singleton, Zenon
        <5> QED BY <4>1, <5>1
      <4> QED BY <3>2, <3>3, <3>4, <4>2
    <3>5. CASE appends = 1 /\ live # {0, 1}
      <4>1. live = {} \/ live = {0} \/ live = {1}
        <5>1. Allocated = {0, 1}
          BY <3>3, <3>5 DEF Allocated
        <5> QED BY <3>3, <3>5, <5>1, Zenon
      <4>2. Cardinality(live) \in {0, 1}
        <5>1. Cardinality({}) = 0 /\ Cardinality({0}) = 1 /\ Cardinality({1}) = 1
          BY FS_EmptySet, FS_Singleton, Zenon
        <5> QED BY <4>1, <5>1
      <4> QED BY <3>2, <3>3, <3>5, <4>2
    <3> QED BY <3>3, <3>4, <3>5
  <2> QED BY <1>1, <2>1, <2>2
<1> QED BY <1>2, <1>3 DEF CleanUp

LEMMA LifeStep ==
  TableInv /\ TableInv' /\ VoiceInv /\ LifeInv /\ [LifeNext]_lifeVars => LifeInv'
<1> SUFFICES ASSUME TableInv, TableInv', VoiceInv, LifeInv, [LifeNext]_lifeVars
             PROVE  LifeInv'
  OBVIOUS
<1>1. CASE UNCHANGED lifeVars
  <2>1. Allocated' = Allocated
    BY <1>1 DEF Allocated, lifeVars, allVars, vars, tableVars
  <2>2. UNCHANGED <<slots, live, appends, voice, phase, given, next, queueVars, crashed>>
    BY <1>1 DEF lifeVars, allVars, vars, tableVars, voiceVars
  <2> QED BY <2>1, <2>2 DEF LifeInv, LifeTypeOK, CleanupSafe, QueuesOwned, QueuesReached,
                            QueuesWritten, VoiceWritten, queueVars
<1>2. CASE LifeNext
  <2>1. ~crashed /\ TypeOK
    BY <1>2 DEF LifeNext, TableInv
  <2>2. CASE ConnectNode
    <3>1. LifeInv' \/ crashed'
      BY <2>1, <2>2, QuietStep
    <3>2. CASE crashed' /\ next >= given
      <4>1. given = 0
        <5>1. given \in 0..NodeCount /\ next \in 0..given /\ NodeCount \in Nat
          BY TableConstants DEF LifeInv, LifeTypeOK
        <5>2. SizeWords \in Nat /\ SizeWords > given /\ next <= LastNode
          BY <2>2, <5>1, LifeConstants DEF ConnectNode
        <5>3. given > 0 => (given - 1) % SizeWords = given - 1
          BY <5>1, <5>2
        <5> QED BY <3>2, <5>1, <5>2, <5>3 DEF LastNode
      <4>2. /\ UNCHANGED allVars /\ UNCHANGED queueVars
            /\ UNCHANGED <<phase, given, next>> /\ crashed' = TRUE
        <5>1. next \in Nat /\ given \in Nat
          BY TableConstants DEF LifeInv, LifeTypeOK
        <5>2. ~(next < given)
          BY <3>2, <5>1
        <5> QED BY <2>2, <5>2 DEF ConnectNode
      <4>3. Allocated' = Allocated /\ UNCHANGED <<slots, live, appends, voice>>
        BY <4>2 DEF Allocated, allVars, vars, tableVars, voiceVars
      <4>4. UNCHANGED <<queueOf, structs, arrays, made, removed>>
        BY <4>2 DEF queueVars
      <4>5. LifeTypeOK' /\ VoiceWritten'
        BY <4>2, <4>3, <4>4 DEF LifeInv, LifeTypeOK, VoiceWritten
      <4>6. CleanupSafe'
        BY <4>1, <4>2 DEF CleanupSafe
      <4>7. phase' = "cleaned" \/ (QueuesOwned' /\ QueuesReached' /\ QueuesWritten')
        BY <4>2, <4>3, <4>4 DEF LifeInv, QueuesOwned, QueuesReached, QueuesWritten
      <4> QED BY <4>5, <4>6, <4>7 DEF LifeInv
    <3>3. crashed' => next >= given
      <4>1. next \in Nat /\ given \in Nat
        BY TableConstants DEF LifeInv, LifeTypeOK
      <4>2. next < given => crashed' = crashed
        BY <2>2 DEF ConnectNode
      <4>3. ~(crashed' /\ next < given)
        BY <2>1, <4>2, Zenon
      <4> QED BY <4>1, <4>3
    <3> QED BY <3>1, <3>2, <3>3
  <2>3. CASE StartLoop
    BY <2>1, <2>3, QuietStep DEF StartLoop
  <2>4. CASE Run
    <3>1. phase = "running" /\ UNCHANGED <<phase, given, next, crashed>>
      BY <2>4 DEF Run
    <3>2. CASE (\E n \in Nodes : LifeReady(n)) \/ (GatewayStep /\ UNCHANGED queueVars)
      BY <2>1, <3>1, <3>2, QuietStep
    <3>3. ASSUME NEW g \in Guilds, LifeCreate(g) PROVE LifeInv'
      BY <2>1, <3>1, <3>3, CreateStepLife
    <3>4. ASSUME NEW g \in Guilds, NEW t \in Tracks, LifeAdd(g, t) PROVE LifeInv'
      BY <2>1, <3>1, <3>4, RequeueStepLife
    <3>5. ASSUME NEW g \in Guilds, NEW pos \in 0..MaxQueue, LifeTake(g, pos) PROVE LifeInv'
      BY <2>1, <3>1, <3>5, RequeueStepLife
    <3>6. ASSUME NEW g \in Guilds, LifeRemove(g) PROVE LifeInv'
      BY <2>1, <3>1, <3>6, RemoveStepLife
    <3> QED BY <2>4, <3>2, <3>3, <3>4, <3>5, <3>6 DEF Run
  <2>5. CASE CleanUp
    BY <2>1, <2>5, CleanUpStepLife
  <2> QED BY <1>2, <2>2, <2>3, <2>4, <2>5 DEF LifeNext
<1> QED BY <1>1, <1>2

THEOREM LifeInvariant == LifeSpec => [](TableInv /\ VoiceInv /\ LifeInv)
<1>1. LifeSpec => []TableInv
  BY LifeImplementsTable, TableInvariant, PTL
<1>2. LifeSpec => []VoiceInv
  BY LifeVoiceInvariant
<1> QED BY <1>1, <1>2, InitLife, LifeStep, PTL DEF LifeSpec

(* Types; all nodes given have a websocket when the event loop starts.     *)
THEOREM LifeTypeCorrect == LifeSpec => []LifeTypeOK
<1>1. LifeInv => LifeTypeOK
  BY DEF LifeInv
<1> QED BY <1>1, LifeInvariant, PTL

(* No session string is owned twice or kept after its free, from connect   *)
(* through cleanup.                                                        *)
THEOREM LifeSessionsOwned == LifeSpec => []VoiceDataOwned
<1>1. VoiceInv => VoiceDataOwned
  BY DEF VoiceInv
<1> QED BY <1>1, LifeInvariant, PTL

(* Connect and cleanup stay in their arrays, up to the first realloc, with *)
(* the exceptions that CleanupSafe names.                                  *)
THEOREM CleanupIsSafe == LifeSpec => []CleanupSafe
<1>1. LifeInv => CleanupSafe
  BY DEF LifeInv
<1> QED BY <1>1, LifeInvariant, PTL

(* A cleanup that ends frees the players in use whole, and leaves of       *)
(* queues only what removed players had.                                   *)
THEOREM CleanupFrees == LifeSpec => CleanupFreesPlayers
<1> DEFINE Frees == phase' = "cleaned" /\ ~crashed' /\ appends <= 1 =>
                      /\ \A i \in live : voice[i] \notin strings'
                      /\ structs' \cup arrays' \subseteq removed
<1>1. TableInv /\ LifeInv /\ [LifeNext]_lifeVars => [Frees]_lifeVars
  <2> SUFFICES ASSUME TableInv, LifeInv, LifeNext, phase' = "cleaned", ~crashed', appends <= 1
               PROVE  /\ \A i \in live : voice[i] \notin strings'
                      /\ structs' \cup arrays' \subseteq removed
    OBVIOUS
  <2>1. CleanUp /\ phase = "running"
    BY DEF LifeNext, ConnectNode, StartLoop, Run, CleanUp
  <2>2. FreeSlots
    BY <2>1 DEF CleanUp
  <2>3. live \subseteq Visited
    BY LiveVisited
  <2>4. QueuesReached
    BY <2>1 DEF LifeInv
  <2> QED BY <2>2, <2>3, <2>4 DEF FreeSlots, QueuesReached
<1> QED BY <1>1, LifeInvariant, PTL DEF CleanupFreesPlayers, LifeSpec
=============================================================================
