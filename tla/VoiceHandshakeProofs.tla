------------------------ MODULE VoiceHandshakeProofs ------------------------
(***************************************************************************)
(* Proofs about VoiceHandshake for any number of guilds, announcements and *)
(* reallocs, for the hastiest application and for a careful one.           *)
(***************************************************************************)
EXTENDS VoiceHandshake, PlayerTableProofs, SequenceTheorems

(* Handling or sending a gateway event leaves the table alone; every other *)
(* step is a step of the table.                                            *)
LEMMA VoiceStepIsTableStep == [VoiceNext]_allVars => [Next]_vars
<1> SUFFICES ASSUME [VoiceNext]_allVars PROVE [Next]_vars
  OBVIOUS
<1>1. ASSUME NEW n \in Nodes, Ready(n), status = "running" PROVE Next
  BY <1>1 DEF Ready, TableStep, Next
<1>2. ASSUME NEW g \in Guilds, Create(g), status = "running" PROVE Next
  BY <1>2 DEF Create, TableStep, Next
<1>3. ASSUME NEW g \in Guilds, Remove(g), status = "running" PROVE Next
  BY <1>3 DEF Remove, TableStep, Next
<1>4. ASSUME NEW g \in Guilds, JoinVoice(g) \/ Restate(g) \/ Failover(g)
      PROVE  UNCHANGED vars
  BY <1>4 DEF JoinVoice, Restate, Failover, Send
<1>5. ASSUME VoiceStateUpdate \/ GuildCreateOwnState \/ VoiceServerUpdate
      PROVE  UNCHANGED vars
  BY <1>5 DEF VoiceStateUpdate, GuildCreateOwnState, VoiceServerUpdate, Received
<1>6. UNCHANGED allVars => UNCHANGED vars
  BY DEF allVars
<1> QED BY <1>1, <1>2, <1>3, <1>4, <1>5, <1>6 DEF VoiceNext, GatewayStep

(* The composition implements the table, so what PlayerTableProofs shows   *)
(* of the table holds while voice events are handled.                      *)
THEOREM VoiceImplementsTable == VoiceSpec => Spec
<1>1. VoiceInit => Init
  BY DEF VoiceInit
<1>2. [VoiceNext]_allVars => [Next]_vars
  BY VoiceStepIsTableStep
<1> QED BY <1>1, <1>2, PTL DEF VoiceSpec, Spec

(* The node a session is forwarded to has a session of its own.            *)
THEOREM ForwardToReadyNode == VoiceSpec => []LivePlayerNodeHasSession
BY VoiceImplementsTable, PlayerNodeHasSession, PTL

-----------------------------------------------------------------------------
LEMMA PendingTyped ==
  ASSUME VoiceTypeOK, NEW k \in StatesPending
  PROVE  k \in Nat \ {0} /\ gateway[k] \in GatewayEvent /\ gateway[k].session \in Sessions
<1>1. gateway \in Seq(GatewayEvent) /\ k \in DOMAIN gateway
  BY DEF VoiceTypeOK, StatesPending
<1>2. k \in Nat \ {0} /\ gateway[k] \in GatewayEvent
  BY <1>1, LenProperties
<1> QED BY <1>2 DEF GatewayEvent

LEMMA InitVoice == VoiceInit => VoiceInv
<1> SUFFICES ASSUME VoiceInit PROVE VoiceInv
  OBVIOUS
<1>1. Allocated = {0}
  BY DEF VoiceInit, Init, Allocated
<1>2. voice = [i \in {0} |-> 0] /\ told = 0 /\ gateway = <<>> /\ strings = {}
      /\ forwarded = {} /\ lost = {}
  BY DEF VoiceInit, NoVoice
<1>3. DOMAIN gateway = {}
  BY <1>2
<1>4. VoiceTypeOK
  BY <1>1, <1>2 DEF VoiceTypeOK, VoiceInit, NoVoice, WildVoice, Sessions
<1>5. VoiceDataOwned
  BY <1>1, <1>2 DEF VoiceDataOwned, NoVoice
<1>6. FreshStrings
  BY <1>1, <1>2, <1>3 DEF FreshStrings, StatesPending
<1>7. SentIsGone /\ SentOnce
  BY <1>2 DEF SentIsGone, Sent, SentOnce
<1> QED BY <1>4, <1>5, <1>6, <1>7 DEF VoiceInv

(* Moving the slots, with uninitialised voice_data in the new ones.        *)
LEMMA TableStepVoice ==
  ASSUME VoiceInv, TypeOK, TypeOK', WithSlots,
         UNCHANGED <<strings, announced, forwarded, lost, fault, told, gateway>>
  PROVE  VoiceInv'
<1>1. /\ DOMAIN voice' = Allocated'
      /\ \A i \in Allocated' : voice'[i] = IF i \in Allocated THEN voice[i] ELSE WildVoice
  BY DEF WithSlots, Allocated
<1>2. \A i \in Allocated' : voice'[i] # WildVoice =>
                              i \in Allocated /\ voice'[i] = voice[i]
  BY <1>1
<1>3. VoiceTypeOK'
  <2>1. voice' \in [Allocated' -> Sessions \cup {NoVoice, WildVoice}]
    BY DEF WithSlots, Allocated, VoiceInv, VoiceTypeOK
  <2> QED BY <2>1 DEF VoiceInv, VoiceTypeOK
<1>4. VoiceDataOwned'
  BY <1>2 DEF VoiceInv, VoiceDataOwned
<1>5. FreshStrings'
  <2>1. told \in Nat /\ StatesPending' = StatesPending
    BY DEF VoiceInv, VoiceTypeOK, StatesPending
  <2>2. \A k \in StatesPending : gateway[k].session \in Sessions
    BY PendingTyped DEF VoiceInv
  <2>3. \A i \in Allocated' : voice'[i] <= told
    BY <1>1, <2>1 DEF VoiceInv, FreshStrings, WildVoice
  <2>4. \A k \in StatesPending, i \in Allocated' : voice'[i] # gateway[k].session
    BY <1>1, <2>2 DEF VoiceInv, FreshStrings, WildVoice, Sessions
  <2> QED BY <2>1, <2>3, <2>4 DEF VoiceInv, FreshStrings
<1>6. SentIsGone' /\ SentOnce'
  <2>1. Sent' = Sent /\ StatesPending' = StatesPending
    BY DEF Sent, StatesPending
  <2>2. WildVoice \notin Sent
    BY DEF Sent, WildVoice, VoiceInv, VoiceTypeOK
  <2> QED BY <1>2, <2>1, <2>2 DEF VoiceInv, SentIsGone, SentOnce
<1> QED BY <1>3, <1>4, <1>5, <1>6 DEF VoiceInv

-----------------------------------------------------------------------------
(* What Discord sends: at most one announcement, the newest, last in the   *)
(* gateway or followed by the server event of its join.                    *)
LEMMA SendStep ==
  ASSUME VoiceInv, UNCHANGED <<vars, voiceVars>>,
         NEW es \in Seq(GatewayEvent), gateway' = gateway \o es,
         told' \in {told, told + 1},
         \A k \in DOMAIN es : es[k].kind # "SERVER" =>
                                k = 1 /\ told' = told + 1 /\ es[k].session = told'
  PROVE  VoiceInv'
<1>. USE DEF VoiceInv, voiceVars, vars, tableVars
<1>1. told \in Nat /\ gateway \in Seq(GatewayEvent)
  BY DEF VoiceTypeOK
<1>2. gateway' \in Seq(GatewayEvent) /\ told' \in Nat /\ told <= told'
  BY <1>1
<1>3. Allocated' = Allocated
  BY DEF Allocated
<1>4. VoiceTypeOK' /\ VoiceDataOwned'
  BY <1>2, <1>3 DEF VoiceTypeOK, VoiceDataOwned
<1>5. ASSUME NEW k \in StatesPending'
      PROVE  \/ k \in StatesPending /\ gateway'[k] = gateway[k]
             \/ k = Len(gateway) + 1 /\ gateway'[k].session = told' /\ told' = told + 1
  <2>1. k \in DOMAIN gateway' /\ gateway'[k].kind # "SERVER"
    BY DEF StatesPending
  <2>2. Len(gateway) \in Nat /\ Len(es) \in Nat /\ DOMAIN gateway = 1..Len(gateway)
        /\ DOMAIN es = 1..Len(es) /\ DOMAIN gateway' = 1..(Len(gateway) + Len(es))
    BY <1>1, <1>2
  <2>3. CASE k <= Len(gateway)
    BY <1>1, <2>1, <2>2, <2>3 DEF StatesPending
  <2>4. CASE k > Len(gateway)
    <3>1. k - Len(gateway) \in DOMAIN es /\ gateway'[k] = es[k - Len(gateway)]
      BY <1>1, <2>1, <2>2, <2>4
    <3> QED BY <2>1, <2>2, <3>1
  <2> QED BY <2>1, <2>2, <2>3, <2>4
<1>6. \A i \in Allocated : voice[i] \in Int /\ voice[i] <= told
  <2>1. \A i \in Allocated : voice[i] \in Sessions \cup {NoVoice, WildVoice}
    BY DEF VoiceTypeOK
  <2> QED BY <2>1 DEF FreshStrings, Sessions, NoVoice, WildVoice
<1>7. \A k \in StatesPending : gateway[k].session \in Int /\ gateway[k].session <= told
  BY PendingTyped DEF FreshStrings, Sessions
<1>8. FreshStrings'
  <2>1. \A i \in Allocated' : voice'[i] <= told'
    BY <1>1, <1>2, <1>3, <1>6
  <2>2. ASSUME NEW k \in StatesPending'
        PROVE  /\ gateway'[k].session <= told'
               /\ \A i \in Allocated : voice[i] # gateway'[k].session
    <3>1. CASE k \in StatesPending /\ gateway'[k] = gateway[k]
      <4>1. gateway[k].session \in Int /\ gateway[k].session <= told
        BY <1>7, <3>1
      <4> HIDE DEF VoiceInv
      <4>2. gateway'[k].session <= told'
        BY <1>1, <1>2, <3>1, <4>1
      <4> QED BY <3>1, <4>2 DEF FreshStrings, VoiceInv
    <3>2. CASE gateway'[k].session = told' /\ told' = told + 1
      <4> HIDE DEF VoiceInv
      <4> QED BY <1>1, <1>6, <3>2
    <3> QED BY <1>5, <3>1, <3>2
  <2>3. ASSUME NEW k \in StatesPending', NEW l \in StatesPending', k # l
        PROVE  gateway'[k].session # gateway'[l].session
    <3>1. CASE /\ k \in StatesPending /\ gateway'[k] = gateway[k]
               /\ l \in StatesPending /\ gateway'[l] = gateway[l]
      BY <2>3, <3>1 DEF FreshStrings
    <3>2. CASE /\ k \in StatesPending /\ gateway'[k] = gateway[k]
               /\ gateway'[l].session = told + 1
      BY <1>1, <1>7, <3>2
    <3>3. CASE /\ l \in StatesPending /\ gateway'[l] = gateway[l]
               /\ gateway'[k].session = told + 1
      BY <1>1, <1>7, <3>3
    <3>4. \/ k \in StatesPending /\ gateway'[k] = gateway[k]
          \/ k = Len(gateway) + 1 /\ gateway'[k].session = told + 1
      BY <1>5
    <3>5. \/ l \in StatesPending /\ gateway'[l] = gateway[l]
          \/ l = Len(gateway) + 1 /\ gateway'[l].session = told + 1
      BY <1>5
    <3> QED BY ONLY <2>3, <3>1, <3>2, <3>3, <3>4, <3>5
  <2>4. voice' = voice
    OBVIOUS
  <2>5. \A k \in StatesPending', i \in Allocated' : voice'[i] # gateway'[k].session
    BY <1>3, <2>2, <2>4
  <2>6. \A k \in StatesPending' : gateway'[k].session <= told'
    BY <2>2
  <2>7. \A k, l \in StatesPending' :
          k # l => gateway'[k].session # gateway'[l].session
    BY <2>3
  <2> QED BY <2>1, <2>5, <2>6, <2>7 DEF FreshStrings
<1>9. SentIsGone' /\ SentOnce'
  <2>1. Sent' = Sent /\ voice' = voice /\ SentOnce' /\ Sent \subseteq Nat
    BY DEF Sent, SentOnce, VoiceTypeOK
  <2>2. \A n \in Sent : n \in Sessions /\ n <= told'
    BY <1>1, <1>2, <2>1 DEF SentIsGone
  <2>3. ASSUME NEW k \in StatesPending' PROVE gateway'[k].session \notin Sent
    <3>1. CASE k \in StatesPending /\ gateway'[k] = gateway[k]
      BY <3>1 DEF SentIsGone
    <3>2. CASE gateway'[k].session = told' /\ told' = told + 1
      <4>1. \A n \in Sent : n <= told
        BY DEF SentIsGone
      <4> HIDE DEF VoiceInv
      <4> QED BY <1>1, <2>1, <3>2, <4>1
    <3> QED BY <1>5, <3>1, <3>2
  <2> QED BY <1>3, <2>1, <2>2, <2>3 DEF SentIsGone
<1> QED BY <1>4, <1>8, <1>9

LEMMA DiscordStep ==
  ASSUME VoiceInv, NEW g \in Guilds, JoinVoice(g) \/ Restate(g) \/ Failover(g)
  PROVE  VoiceInv'
<1>1. told \in Nat /\ announced[g] \in Nat
  BY DEF VoiceInv, VoiceTypeOK
<1>2. CASE JoinVoice(g)
  <2> DEFINE es == <<State("STATE", g), Server(g, told + 1)>>
  <2>1. es \in Seq(GatewayEvent)
    BY <1>1 DEF State, Server, GatewayEvent, Sessions
  <2>2. \A k \in DOMAIN es : es[k].kind # "SERVER" => k = 1 /\ es[k].session = told + 1
    BY DEF State, Server
  <2>3. gateway' = gateway \o es /\ told' = told + 1 /\ UNCHANGED <<vars, voiceVars>>
    BY <1>2 DEF JoinVoice, Send
  <2> HIDE DEF es
  <2> QED BY <2>1, <2>2, <2>3, SendStep
<1>3. CASE Restate(g)
  <2>1. PICK kind \in {"STATE", "GUILD"} : Send(<<State(kind, g)>>)
    BY <1>3 DEF Restate
  <2> DEFINE es == <<State(kind, g)>>
  <2>2. es \in Seq(GatewayEvent)
    BY <1>1 DEF State, GatewayEvent, Sessions
  <2>3. \A k \in DOMAIN es : k = 1 /\ es[k].session = told + 1
    BY DEF State
  <2>4. gateway' = gateway \o es /\ told' = told + 1 /\ UNCHANGED <<vars, voiceVars>>
    BY <1>3, <2>1 DEF Restate, Send
  <2> HIDE DEF es
  <2> QED BY <2>2, <2>3, <2>4, SendStep
<1>4. CASE Failover(g)
  <2> DEFINE es == <<Server(g, announced[g])>>
  <2>1. es \in Seq(GatewayEvent)
    BY <1>1, <1>4 DEF Failover, Server, GatewayEvent, Sessions
  <2>2. \A k \in DOMAIN es : es[k].kind = "SERVER"
    BY DEF Server
  <2>3. gateway' = gateway \o es /\ told' = told /\ UNCHANGED <<vars, voiceVars>>
    BY <1>4 DEF Failover, Send
  <2> HIDE DEF es
  <2> QED BY <2>1, <2>2, <2>3, SendStep
<1> QED BY <1>2, <1>3, <1>4

-----------------------------------------------------------------------------
(* The events that stay in the gateway when the first one is handled.      *)
LEMMA TailFacts ==
  ASSUME VoiceInv, gateway # <<>>, gateway' = Tail(gateway)
  PROVE  /\ gateway' \in Seq(GatewayEvent) /\ Head(gateway) \in GatewayEvent
         /\ \A k \in StatesPending' : k + 1 \in StatesPending /\ k \in Nat \ {0}
                                      /\ gateway'[k] = gateway[k + 1]
<1>1. gateway \in Seq(GatewayEvent)
  BY DEF VoiceInv, VoiceTypeOK
<1>2. gateway' \in Seq(GatewayEvent) /\ Head(gateway) \in GatewayEvent
      /\ Len(gateway') = Len(gateway) - 1 /\ Len(gateway) \in Nat \ {0}
  BY <1>1
<1>3. DOMAIN gateway = 1..Len(gateway) /\ DOMAIN gateway' = 1..(Len(gateway) - 1)
  BY <1>1, <1>2
<1>4. \A k \in DOMAIN gateway' : gateway'[k] = gateway[k + 1]
  BY <1>1, <1>3
<1> QED BY <1>2, <1>3, <1>4 DEF StatesPending

(* What FreshStrings says of them.                                         *)
LEMMA FreshTail ==
  ASSUME VoiceInv, gateway # <<>>, gateway' = Tail(gateway)
  PROVE  /\ \A k \in StatesPending' : gateway'[k].session <= told
         /\ \A k \in StatesPending' : gateway'[k].session \notin Sent
         /\ \A k \in StatesPending', i \in Allocated : voice[i] # gateway'[k].session
         /\ \A k, l \in StatesPending' :
              k # l => gateway'[k].session # gateway'[l].session
         /\ Head(gateway).kind # "SERVER" =>
              \A k \in StatesPending' : gateway'[k].session # Head(gateway).session
<1> USE DEF VoiceInv, FreshStrings
<1>1. \A k \in StatesPending' : k + 1 \in StatesPending /\ k \in Nat \ {0}
                                /\ gateway'[k] = gateway[k + 1]
  BY TailFacts
<1>2. ASSUME NEW k \in StatesPending', NEW l \in StatesPending', k # l
      PROVE  gateway'[k].session # gateway'[l].session
  <2>1. k + 1 # l + 1 /\ k + 1 \in StatesPending /\ l + 1 \in StatesPending
    BY <1>1, <1>2
  <2> QED BY <1>1, <2>1
<1>3. ASSUME Head(gateway).kind # "SERVER", NEW k \in StatesPending'
      PROVE  gateway'[k].session # Head(gateway).session
  <2>1. gateway \in Seq(GatewayEvent)
    BY DEF VoiceTypeOK
  <2>2. 1 \in DOMAIN gateway /\ Head(gateway) = gateway[1]
    BY <2>1
  <2>3. 1 \in StatesPending /\ k + 1 # 1 /\ k + 1 \in StatesPending
    BY <1>1, <1>3, <2>2 DEF StatesPending
  <2> QED BY <1>1, <2>2, <2>3
<1>4. \A k \in StatesPending' : gateway'[k].session <= told
  BY <1>1
<1>5. \A k \in StatesPending', i \in Allocated : voice[i] # gateway'[k].session
  BY <1>1
<1>6. \A k \in StatesPending' : gateway'[k].session \notin Sent
  BY <1>1 DEF SentIsGone
<1> QED BY <1>2, <1>3, <1>4, <1>5, <1>6

(* Handling an event that changes no voice_data.                           *)
LEMMA IgnoredStep ==
  ASSUME VoiceInv, gateway # <<>>, gateway' = Tail(gateway),
         UNCHANGED <<vars, told, voice>>,
         strings \subseteq strings', strings' \subseteq Sessions,
         announced' \in [Guilds -> Nat], UNCHANGED <<forwarded, lost>>, fault' \in BOOLEAN
  PROVE  VoiceInv'
<1>1. Allocated' = Allocated
  BY DEF Allocated, vars, tableVars
<1>2. VoiceTypeOK' /\ VoiceDataOwned'
  BY <1>1, TailFacts DEF VoiceInv, VoiceTypeOK, VoiceDataOwned
<1>3. FreshStrings'
  BY <1>1, FreshTail DEF VoiceInv, FreshStrings
<1>4. SentIsGone' /\ SentOnce'
  <2>1. Sent' = Sent
    BY DEF Sent
  <2> QED BY <1>1, <2>1, FreshTail DEF VoiceInv, SentIsGone, SentOnce
<1> QED BY <1>2, <1>3, <1>4 DEF VoiceInv

(* A player takes the session of the announcement being handled.           *)
LEMMA ReplaceStep ==
  ASSUME VoiceInv, TypeOK, gateway # <<>>, gateway' = Tail(gateway),
         Head(gateway).kind # "SERVER",
         NEW i \in live, Replace(i, Head(gateway).session),
         UNCHANGED <<vars, told, forwarded, lost, fault>>,
         announced' \in [Guilds -> Nat]
  PROVE  VoiceInv'
<1> DEFINE n == Head(gateway).session
<1>1. Allocated' = Allocated /\ i \in Allocated
  BY DEF Allocated, vars, tableVars, TypeOK
<1>2. n \in Sessions /\ 1 \in StatesPending /\ n = gateway[1].session
  <2>1. gateway \in Seq(GatewayEvent)
    BY DEF VoiceInv, VoiceTypeOK
  <2>2. 1 \in DOMAIN gateway /\ Head(gateway) = gateway[1]
    BY <2>1
  <2> QED BY <2>2, TailFacts DEF StatesPending, GatewayEvent
<1>3. n <= told /\ \A j \in Allocated : voice[j] # n
  BY <1>2 DEF VoiceInv, FreshStrings
<1>4. /\ voice' \in [Allocated' -> Sessions \cup {NoVoice, WildVoice}]
      /\ \A j \in Allocated : voice'[j] = IF j = i THEN n ELSE voice[j]
  BY <1>1, <1>2 DEF Replace, VoiceInv, VoiceTypeOK
<1> HIDE DEF n
<1>5. VoiceTypeOK'
  BY <1>2, <1>4, TailFacts DEF n, Replace, VoiceInv, VoiceTypeOK
<1>6. VoiceDataOwned'
  <2>1. strings' = (strings \ {voice[i]}) \cup {n}
    BY DEF Replace, n
  <2> QED BY <1>1, <1>3, <1>4, <2>1 DEF VoiceInv, VoiceDataOwned
<1>7. FreshStrings'
  <2>1. \A k \in StatesPending' : gateway'[k].session # n
    BY FreshTail DEF n
  <2> QED BY <1>1, <1>3, <1>4, <2>1, FreshTail DEF VoiceInv, FreshStrings
<1>8. SentIsGone' /\ SentOnce'
  <2>1. Sent' = Sent
    BY DEF Sent
  <2>2. n \notin Sent
    BY <1>2 DEF n, VoiceInv, SentIsGone
  <2> QED BY <1>1, <1>4, <2>1, <2>2, FreshTail DEF VoiceInv, SentIsGone, SentOnce
<1> QED BY <1>5, <1>6, <1>7, <1>8 DEF VoiceInv

LEMMA StateStep ==
  ASSUME VoiceInv, TypeOK, VoiceStateUpdate \/ GuildCreateOwnState
  PROVE  VoiceInv'
<1> DEFINE g == Head(gateway).guild
           n == Head(gateway).session
<1>1. /\ gateway # <<>> /\ gateway' = Tail(gateway) /\ Head(gateway).kind # "SERVER"
      /\ UNCHANGED <<vars, told>> /\ StoreSession(g, n)
  BY DEF VoiceStateUpdate, GuildCreateOwnState, Received
<1>2. n \in Sessions /\ g \in Guilds /\ strings \subseteq Sessions
  BY <1>1, TailFacts DEF GatewayEvent, VoiceInv, VoiceTypeOK
<1>3. announced' \in [Guilds -> Nat]
  BY <1>1, <1>2 DEF StoreSession, VoiceInv, VoiceTypeOK, Sessions
<1> HIDE DEF g
<1>4. \/ strings' = strings \cup {n} /\ UNCHANGED <<voice, forwarded, lost, fault>>
      \/ \E i \in live : Replace(i, n) /\ UNCHANGED <<forwarded, lost, fault>>
      \/ Fault
  BY <1>1 DEF StoreSession
<1>5. fault \in BOOLEAN
  BY DEF VoiceInv, VoiceTypeOK
<1>6. CASE strings' = strings \cup {n} /\ UNCHANGED <<voice, forwarded, lost, fault>>
  BY <1>1, <1>2, <1>3, <1>5, <1>6, IgnoredStep
<1>7. CASE \E i \in live : Replace(i, n) /\ UNCHANGED <<forwarded, lost, fault>>
  BY <1>1, <1>3, <1>7, ReplaceStep
<1>8. CASE Fault
  BY <1>1, <1>2, <1>3, <1>8, IgnoredStep DEF Fault
<1> QED BY <1>4, <1>6, <1>7, <1>8

LEMMA ServerStep ==
  ASSUME VoiceInv, TypeOK, VoiceServerUpdate
  PROVE  VoiceInv'
<1> DEFINE g == Head(gateway).guild
<1>1. /\ gateway # <<>> /\ gateway' = Tail(gateway)
      /\ UNCHANGED <<vars, told, announced>>
  BY DEF VoiceServerUpdate, Received
<1>2. g \in Guilds /\ strings \subseteq Sessions /\ fault \in BOOLEAN
      /\ announced \in [Guilds -> Nat]
  BY <1>1, TailFacts DEF GatewayEvent, VoiceInv, VoiceTypeOK
<1>3. \/ UNCHANGED <<voice, strings, forwarded, lost, fault>>
      \/ \E i \in live : voice[i] \in strings /\ Forward(g, i)
      \/ Fault
  BY DEF VoiceServerUpdate
<1>4. CASE UNCHANGED <<voice, strings, forwarded, lost, fault>>
  BY <1>1, <1>2, <1>4, IgnoredStep
<1>5. CASE Fault
  BY <1>1, <1>2, <1>5, IgnoredStep DEF Fault
<1>6. ASSUME NEW i \in live, voice[i] \in strings, Forward(g, i) PROVE VoiceInv'
  <2>1. Allocated' = Allocated /\ i \in Allocated
    BY <1>1 DEF Allocated, vars, tableVars, TypeOK
  <2>2. /\ voice' \in [Allocated' -> Sessions \cup {NoVoice, WildVoice}]
        /\ \A j \in Allocated : voice'[j] = IF j = i THEN NoVoice ELSE voice[j]
    BY <1>6, <2>1 DEF Forward, VoiceInv, VoiceTypeOK
  <2>3. /\ forwarded' \subseteq Guilds \X Nat /\ lost' \subseteq Guilds \X Nat
        /\ Sent' = Sent \cup {voice[i]}
        /\ forwarded' \cup lost' = forwarded \cup lost \cup {<<g, voice[i]>>}
    <3>1. /\ voice[i] \in Nat
          /\ forwarded \subseteq Guilds \X Nat /\ lost \subseteq Guilds \X Nat
      BY <1>2, <1>6 DEF VoiceInv, VoiceTypeOK, Sessions
    <3>2. forwarded' \cup lost' = forwarded \cup lost \cup {<<g, voice[i]>>}
      BY <1>6 DEF Forward, Patch
    <3>3. Sent' = {f[2] : f \in (forwarded \cup lost) \cup {<<g, voice[i]>>}}
      BY <3>2 DEF Sent
    <3>4. Sent' = Sent \cup {<<g, voice[i]>>[2]}
      BY <3>3, Zenon DEF Sent
    <3> QED BY <1>2, <1>6, <3>1, <3>2, <3>4 DEF Forward, Patch
  <2>4. VoiceTypeOK'
    BY <1>1, <1>2, <1>6, <2>2, <2>3, TailFacts DEF Forward, VoiceInv, VoiceTypeOK
  <2>5. voice[i] \notin {NoVoice, WildVoice}
    BY <1>2, <1>6 DEF Sessions, NoVoice, WildVoice
  <2>6. VoiceDataOwned'
    BY <1>6, <2>1, <2>2, <2>5 DEF Forward, VoiceInv, VoiceDataOwned
  <2>7. FreshStrings'
    <3>1. \A k \in StatesPending' : gateway'[k].session \in Sessions
      BY <1>1, TailFacts, PendingTyped DEF VoiceInv
    <3>2. told \in Nat /\ told' = told
      BY <1>1 DEF VoiceInv, VoiceTypeOK
    <3>3. \A j \in Allocated : voice'[j] <= told
      BY <2>1, <2>2, <3>2 DEF VoiceInv, FreshStrings, NoVoice
    <3>4. \A k \in StatesPending', j \in Allocated : voice'[j] # gateway'[k].session
      <4>1. \A k \in StatesPending' : gateway'[k].session # NoVoice
        BY <3>1 DEF Sessions, NoVoice
      <4> QED BY <1>1, <2>2, <4>1, FreshTail
    <3> QED BY <1>1, <2>1, <3>2, <3>3, <3>4, FreshTail DEF FreshStrings
  <2>8. SentIsGone'
    <3>1. voice[i] \in Sessions /\ voice[i] <= told /\ told' = told
      BY <1>1, <1>2, <1>6, <2>1 DEF VoiceInv, FreshStrings
    <3>2. \A n \in Sent' : n \in Sessions /\ n <= told'
      BY <2>3, <3>1 DEF VoiceInv, SentIsGone
    <3>3. \A j \in Allocated : voice'[j] \notin Sent'
      <4>1. NoVoice \notin Sent'
        <5>1. NoVoice \notin Sent
          BY DEF VoiceInv, SentIsGone, Sessions, NoVoice
        <5> QED BY <2>3, <2>5, <5>1
      <4>2. \A j \in Allocated : voice[j] = voice[i] => j = i
        BY <2>1, <2>5 DEF VoiceInv, VoiceDataOwned
      <4> QED BY <2>2, <2>3, <4>1, <4>2 DEF VoiceInv, SentIsGone
    <3>4. \A k \in StatesPending' : gateway'[k].session \notin Sent'
      BY <1>1, <2>1, <2>3, FreshTail
    <3> QED BY <2>1, <3>2, <3>3, <3>4 DEF SentIsGone
  <2>9. SentOnce'
    <3>1. <<g, voice[i]>> \notin forwarded \cup lost
      BY <2>1 DEF VoiceInv, SentIsGone, Sent
    <3> QED BY <1>6, <3>1 DEF Forward, Patch, VoiceInv, SentOnce
  <2> QED BY <2>4, <2>6, <2>7, <2>8, <2>9 DEF VoiceInv
<1> QED BY <1>3, <1>4, <1>5, <1>6

LEMMA VoiceStep ==
  VoiceInv /\ TypeOK /\ TypeOK' /\ [VoiceNext]_allVars => VoiceInv'
<1> SUFFICES ASSUME VoiceInv, TypeOK, TypeOK', [VoiceNext]_allVars PROVE VoiceInv'
  OBVIOUS
<1>1. ASSUME NEW n \in Nodes, Ready(n) PROVE VoiceInv'
  BY <1>1, TableStepVoice DEF Ready, TableStep
<1>2. ASSUME NEW g \in Guilds, Create(g) PROVE VoiceInv'
  BY <1>2, TableStepVoice DEF Create, TableStep
<1>3. ASSUME NEW g \in Guilds, Remove(g) PROVE VoiceInv'
  BY <1>3, TableStepVoice DEF Remove, TableStep
<1>4. CASE UNCHANGED allVars
  BY <1>4 DEF allVars, vars, tableVars, voiceVars, VoiceInv, VoiceTypeOK,
              VoiceDataOwned, FreshStrings, StatesPending, Allocated,
              SentIsGone, Sent, SentOnce
<1> QED BY <1>1, <1>2, <1>3, <1>4, DiscordStep, StateStep, ServerStep
    DEF VoiceNext, GatewayStep

THEOREM VoiceInvariant == VoiceSpec => []VoiceInv
<1>1. VoiceInit => VoiceInv
  BY InitVoice
<1>2. VoiceInv /\ TypeOK /\ TypeOK' /\ [VoiceNext]_allVars => VoiceInv'
  BY VoiceStep
<1>3. VoiceSpec => []TypeOK
  BY VoiceImplementsTable, TypeCorrect, PTL
<1> QED BY <1>1, <1>2, <1>3, PTL DEF VoiceSpec

(* Every step keeps the types of the handshake's state.                    *)
THEOREM VoiceTypeCorrect == VoiceSpec => []VoiceTypeOK
<1>1. VoiceInv => VoiceTypeOK
  BY DEF VoiceInv
<1> QED BY <1>1, VoiceInvariant, PTL

(* No session string is freed twice, used after it was freed, or shared by *)
(* two slots, through any removals, reuses and reallocs.                   *)
THEOREM SessionsOwned == VoiceSpec => []VoiceDataOwned
<1>1. VoiceInv => VoiceDataOwned
  BY DEF VoiceInv
<1> QED BY <1>1, VoiceInvariant, PTL

(* A session whose PATCH failed reaches no node later, and none is sent    *)
(* twice.                                                                  *)
THEOREM SessionsSentOnce == VoiceSpec => []SentOnce
<1>1. VoiceInv => SentOnce
  BY DEF VoiceInv
<1> QED BY <1>1, VoiceInvariant, PTL

-----------------------------------------------------------------------------
(* From here on, players do not come and go under their guild's pending    *)
(* events and Discord moves no voice server: the session that is forwarded *)
(* is the guild's last, and nothing bad is followed.                       *)

(* Up to one realloc, a scan reads every slot if there is a player, and a  *)
(* slot is in use or free.                                                 *)
LEMMA SmallScan ==
  ASSUME TableInv, appends <= 1
  PROVE  /\ \A j \in Allocated : j \in live \/ slots[j].guild = NoGuild
         /\ live # {} => GetScan \cap Allocated = Allocated
<1>. USE DEF TableInv, TypeOK, Allocated
<1>1. capacity = appends + 1 /\ \A j \in Allocated : j \in live \/ slots[j].guild = NoGuild
  BY DEF SmallTable, Free
<1>2. ASSUME live # {} PROVE size >= capacity
  <2>1. IsFiniteSet(live) /\ Cardinality(live) \in Nat
    BY FreeFinite, FS_Subset, FS_CardinalityType
  <2>2. Cardinality(live) # 0
    BY <1>2, <2>1, FS_EmptySet
  <2> QED BY <1>1, <2>1, <2>2 DEF SizeCountsAppendsTwice
<1>3. size >= capacity => GetScan \cap Allocated = Allocated
  BY DEF GetScan
<1> QED BY <1>1, <1>2, <1>3

(* coglink_get_player finds the guild's first slot, and misses no player.  *)
LEMMA FoundIsFirst ==
  ASSUME TableInv, appends <= 1, NEW g \in Guilds
  PROVE  /\ Found(g) \cap live = FirstOf(g)
         /\ \A i \in live : slots[i].guild = g =>
              Found(g) = FirstOf(g) /\ FirstOf(g) # {} /\ ~MayMiss(g)
<1>1. /\ \A j \in Allocated : j \in live \/ slots[j].guild = NoGuild
      /\ live # {} => GetScan \cap Allocated = Allocated
  BY SmallScan
<1>2. live \subseteq Allocated /\ Allocated \subseteq Int /\ g # NoGuild
  BY TableConstants DEF TableInv, TypeOK, Allocated
<1>3. Found(g) \cap live \subseteq FirstOf(g)
  <2> SUFFICES ASSUME NEW i \in Found(g), i \in live PROVE i \in FirstOf(g)
    OBVIOUS
  <2>1. slots[i].guild = g /\ \A j \in Allocated : j < i => slots[j].guild # g
    BY <1>1, <1>2 DEF Found, Stops
  <2>2. \A j \in live : slots[j].guild = g => i <= j
    BY <1>2, <2>1
  <2> QED BY <2>1, <2>2 DEF FirstOf
<1>4. FirstOf(g) \subseteq Found(g) \cap live
  <2> SUFFICES ASSUME NEW i \in FirstOf(g) PROVE i \in Found(g) /\ i \in live
    OBVIOUS
  <2>1. i \in live /\ slots[i].guild = g /\ \A j \in live : slots[j].guild = g => i <= j
    BY DEF FirstOf
  <2>2. i \in GetScan /\ GetScan \cap Allocated = Allocated
    BY <1>1, <1>2, <2>1
  <2>3. \A j \in Allocated : j < i => slots[j].guild # g
    BY <1>1, <1>2, <2>1
  <2> QED BY <2>1, <2>2, <2>3 DEF Found, Stops
<1>5. ASSUME NEW i \in live, slots[i].guild = g
      PROVE  Found(g) = FirstOf(g) /\ FirstOf(g) # {} /\ ~MayMiss(g)
  <2>1. Found(g) # {} /\ Found(g) \subseteq live
    BY <1>5, FoundInSmallTable DEF LivePlayersFoundWithOneAppend
  <2>2. i \in GetScan \cap Allocated
    BY <1>1, <1>2, <1>5
  <2> QED BY <1>3, <1>4, <1>5, <2>1, <2>2 DEF MayMiss
<1> QED BY <1>3, <1>4, <1>5

(* Before the first realloc, a lookup finds players in use only.           *)
LEMMA FoundInFirstSlot ==
  ASSUME TableInv, appends = 0, NEW g \in Guilds
  PROVE  Found(g) \subseteq live
<1> SUFFICES ASSUME NEW i \in Found(g) PROVE i \in live
  OBVIOUS
<1>1. i \in GetScan /\ (i \in Allocated => slots[i].guild = g)
  BY DEF Found, Stops
<1>2. GetScan \subseteq Allocated
  BY DEF GetScan, Allocated, TableInv, TypeOK, SinglePlayerInBounds
<1>3. g # NoGuild
  BY TableConstants
<1> QED BY <1>1, <1>2, <1>3, SmallScan DEF TableInv, TypeOK

(* Creating or removing a guild's player leaves the other guilds' slots.   *)
LEMMA OthersKeepSlots ==
  ASSUME TableInv, NEW h \in Guilds, CreatePlayer(h) \/ RemovePlayer(h)
  PROVE  /\ \A g \in Guilds \ {h}, i \in live \cup live' :
              (i \in live' /\ slots'[i].guild = g) <=> (i \in live /\ slots[i].guild = g)
         /\ appends \in Nat /\ appends' \in {appends, appends + 1}
<1>. USE DEF TableInv, TypeOK
<1>1. CASE RemovePlayer(h)
  <2>1. CASE \E i \in Found(h) : /\ i \in live
                                 /\ slots' = [slots EXCEPT ![i] = [guild |-> NoGuild, node |-> 0,
                                                                   queue |-> <<>>]]
                                 /\ live' = live \ {i}
                                 /\ UNCHANGED appends
    <3>1. PICK i \in live : /\ slots[i].guild = h /\ live' = live \ {i}
                            /\ \A j \in live \ {i} : slots'[j] = slots[j]
      BY <2>1 DEF Found, Stops
    <3> QED BY <2>1, <3>1
  <2>2. CASE Corrupted
    BY <2>2 DEF Corrupted
  <2> QED BY <1>1, <2>1, <2>2 DEF RemovePlayer
<1>2. CASE CreatePlayer(h)
  <2>1. PICK n \in SelectNode :
          \/ /\ \A i \in CreateScan \cap Allocated : slots[i].guild \notin {h, NoGuild}
             /\ AppendSlot(h, n)
          \/ \E i \in Stops(CreateScan, {h, NoGuild}) :
               \/ i \in Allocated /\ slots[i].guild = NoGuild /\ ReuseSlot(h, n, i)
               \/ Corrupted
    BY <1>2 DEF CreatePlayer
  <2>2. CASE /\ \A i \in CreateScan \cap Allocated : slots[i].guild \notin {h, NoGuild}
             /\ AppendSlot(h, n)
    <3>1. /\ size \notin live /\ \A i \in live : slots'[i] = slots[i]
          /\ slots'[size] = NewPlayer(h, n)
      BY <2>1, <2>2, AppendSlotFacts
    <3>2. live' = live \cup {size} /\ appends' = appends + 1
      BY <2>2 DEF AppendSlot
    <3> QED BY <3>1, <3>2 DEF NewPlayer
  <2>3. CASE \E i \in Allocated : slots[i].guild = NoGuild /\ ReuseSlot(h, n, i)
    <3>1. PICK i \in Allocated : /\ slots[i].guild = NoGuild /\ live' = live \cup {i}
                                 /\ slots' = [slots EXCEPT ![i] = NewPlayer(h, n)]
                                 /\ UNCHANGED appends
      BY <2>3 DEF ReuseSlot
    <3>2. i \notin live
      BY <3>1, TableConstants DEF LivePlayerNodeHasSession
    <3>3. slots'[i].guild = h /\ \A j \in live : slots'[j] = slots[j]
      BY <3>1, <3>2 DEF NewPlayer
    <3> QED BY <3>1, <3>2, <3>3
  <2>4. CASE Corrupted
    BY <2>4 DEF Corrupted
  <2> QED BY <2>1, <2>2, <2>3, <2>4
<1> QED BY <1>1, <1>2

-----------------------------------------------------------------------------
(* A guild has one first slot.                                             *)
LEMMA FirstOfIsOne ==
  ASSUME TableInv, NEW g \in Guilds, NEW i \in FirstOf(g)
  PROVE  FirstOf(g) = {i}
<1>1. live \subseteq Int
  BY DEF TableInv, TypeOK, Allocated
<1> SUFFICES ASSUME NEW j \in FirstOf(g) PROVE j = i
  OBVIOUS
<1>2. i \in live /\ j \in live /\ i <= j /\ j <= i
  BY DEF FirstOf
<1> QED BY <1>1, <1>2

LEMMA InitCareful == VoiceInit => CarefulInv
<1> SUFFICES ASSUME VoiceInit PROVE CarefulInv
  OBVIOUS
<1>1. gateway = <<>> /\ ~fault /\ \A i \in Allocated : voice[i] # WildVoice
  BY DEF VoiceInit, Init, Allocated, NoVoice, WildVoice
<1> QED BY <1>1 DEF CarefulInv, ServersFollow, JoinedHavePlayers, FirstSlotWritten,
                    NextSessionStored, NoFaultInFirstSlot

(* A step of the table that leaves alone the slots of every guild with     *)
(* events on their way.                                                    *)
LEMMA TableStepCareful ==
  ASSUME TableInv, TableInv', VoiceInv, CarefulInv, WithSlots,
         UNCHANGED <<strings, announced, forwarded, lost, fault, told, gateway>>,
         appends' \in {appends, appends + 1},
         \A k \in DOMAIN gateway, i \in live \cup live' :
           (i \in live' /\ slots'[i].guild = gateway[k].guild)
             <=> (i \in live /\ slots[i].guild = gateway[k].guild)
  PROVE  CarefulInv'
<1>1. appends \in Nat /\ (appends' <= 1 => appends <= 1) /\ (appends' = 0 => appends = 0)
  BY DEF TableInv, TypeOK
<1>2. live \subseteq Allocated /\ live' \subseteq Allocated'
  BY DEF TableInv, TypeOK
<1>3. \A i \in Allocated \cap Allocated' : voice'[i] = voice[i]
  BY DEF WithSlots, Allocated
<1>4. ServersFollow'
  BY DEF CarefulInv, ServersFollow
<1>5. JoinedHavePlayers'
  <2> SUFFICES ASSUME NEW k \in DOMAIN gateway, gateway[k].kind = "SERVER"
               PROVE  \E i \in live' : slots'[i].guild = gateway[k].guild
    BY DEF JoinedHavePlayers
  <2>1. PICK i \in live : slots[i].guild = gateway[k].guild
    BY DEF CarefulInv, JoinedHavePlayers
  <2> QED BY <2>1
<1>6. FirstSlotWritten'
  <2> SUFFICES ASSUME appends' = 0, NEW i \in Allocated' PROVE voice'[i] # WildVoice
    BY DEF FirstSlotWritten
  <2>1. Allocated' = Allocated
    BY <1>1 DEF TableInv, SmallTable, Allocated
  <2> QED BY <1>1, <1>3, <2>1 DEF CarefulInv, FirstSlotWritten
<1>7. ASSUME ~fault PROVE NextSessionStored'
  <2> SUFFICES ASSUME gateway # <<>>, Head(gateway).kind = "SERVER"
               PROVE  /\ announced[Head(gateway).guild] = Head(gateway).session
                      /\ appends' <= 1 =>
                           \A i \in FirstOf(Head(gateway).guild)' :
                             voice'[i] = Head(gateway).session
    BY DEF NextSessionStored
  <2> DEFINE g == Head(gateway).guild
  <2>1. 1 \in DOMAIN gateway /\ Head(gateway) = gateway[1]
    BY DEF VoiceInv, VoiceTypeOK
  <2>2. \A i \in live \cup live' :
          (i \in live' /\ slots'[i].guild = g) <=> (i \in live /\ slots[i].guild = g)
    BY <2>1
  <2>3. FirstOf(g)' = FirstOf(g)
    BY <2>2 DEF FirstOf
  <2>4. FirstOf(g) \subseteq Allocated \cap Allocated'
    BY <1>2, <2>3 DEF FirstOf
  <2> QED BY <1>1, <1>3, <1>7, <2>3, <2>4 DEF CarefulInv, NextSessionStored
<1>8. NoFaultInFirstSlot'
  BY <1>1 DEF CarefulInv, NoFaultInFirstSlot
<1> QED BY <1>4, <1>5, <1>6, <1>7, <1>8 DEF CarefulInv

-----------------------------------------------------------------------------
(* Discord sends server events only behind their announcement, for a guild *)
(* with a player.                                                          *)
LEMMA SendCareful ==
  ASSUME VoiceInv, CarefulInv, UNCHANGED <<vars, voiceVars>>,
         NEW es \in Seq(GatewayEvent), gateway' = gateway \o es,
         \A k \in DOMAIN es : es[k].kind = "SERVER" =>
           /\ k > 1 /\ es[k - 1] = [es[k] EXCEPT !.kind = "STATE"]
           /\ \E i \in live : slots[i].guild = es[k].guild
  PROVE  CarefulInv'
<1>. USE DEF voiceVars, vars, tableVars
<1>1. gateway \in Seq(GatewayEvent)
  BY DEF VoiceInv, VoiceTypeOK
<1>2. /\ Len(gateway) \in Nat /\ Len(es) \in Nat /\ DOMAIN gateway = 1..Len(gateway)
      /\ DOMAIN es = 1..Len(es) /\ DOMAIN gateway' = 1..(Len(gateway) + Len(es))
      /\ \A k \in DOMAIN gateway : gateway'[k] = gateway[k]
      /\ \A k \in DOMAIN es : gateway'[Len(gateway) + k] = es[k]
  BY <1>1
<1>3. ASSUME NEW k \in DOMAIN gateway', k \notin DOMAIN gateway
      PROVE  k - Len(gateway) \in DOMAIN es /\ gateway'[k] = es[k - Len(gateway)]
  <2>1. k - Len(gateway) \in DOMAIN es /\ Len(gateway) + (k - Len(gateway)) = k
    BY <1>2, <1>3
  <2> QED BY <1>2, <2>1
<1>4. ServersFollow'
  <2> SUFFICES ASSUME NEW k \in DOMAIN gateway', gateway'[k].kind = "SERVER", k > 1
               PROVE  gateway'[k - 1] = [gateway'[k] EXCEPT !.kind = "STATE"]
    BY DEF ServersFollow
  <2>1. CASE k \in DOMAIN gateway
    <3>1. k - 1 \in DOMAIN gateway
      BY <1>2, <2>1
    <3> QED BY <1>2, <2>1, <3>1 DEF CarefulInv, ServersFollow
  <2>2. CASE k \notin DOMAIN gateway
    <3> DEFINE j == k - Len(gateway)
    <3>1. j \in DOMAIN es /\ gateway'[k] = es[j]
      BY <1>3, <2>2
    <3>2. j > 1 /\ es[j - 1] = [es[j] EXCEPT !.kind = "STATE"]
      BY <3>1
    <3>3. j - 1 \in DOMAIN es /\ Len(gateway) + (j - 1) = k - 1
      BY <1>2, <3>1, <3>2
    <3>4. gateway'[k - 1] = es[j - 1]
      BY <1>2, <3>3
    <3> QED BY <3>1, <3>2, <3>4
  <2> QED BY <2>1, <2>2
<1>5. JoinedHavePlayers'
  <2> SUFFICES ASSUME NEW k \in DOMAIN gateway', gateway'[k].kind = "SERVER"
               PROVE  \E i \in live : slots[i].guild = gateway'[k].guild
    BY DEF JoinedHavePlayers
  <2>1. CASE k \in DOMAIN gateway
    BY <1>2, <2>1 DEF CarefulInv, JoinedHavePlayers
  <2>2. CASE k \notin DOMAIN gateway
    <3> DEFINE j == k - Len(gateway)
    <3>1. j \in DOMAIN es /\ gateway'[k] = es[j]
      BY <1>3, <2>2
    <3>2. es[j].kind = "SERVER"
      BY <3>1
    <3>3. \E i \in live : slots[i].guild = es[j].guild
      BY <3>1, <3>2
    <3> QED BY <3>1, <3>3
  <2> QED BY <2>1, <2>2
<1>6. FirstSlotWritten' /\ NoFaultInFirstSlot'
  BY DEF CarefulInv, FirstSlotWritten, NoFaultInFirstSlot, Allocated
<1>7. ASSUME ~fault PROVE NextSessionStored'
  <2> SUFFICES ASSUME gateway' # <<>>, Head(gateway').kind = "SERVER"
               PROVE  /\ announced[Head(gateway').guild] = Head(gateway').session
                      /\ appends <= 1 =>
                           \A i \in FirstOf(Head(gateway').guild) :
                             voice[i] = Head(gateway').session
    BY DEF NextSessionStored, FirstOf
  <2>1. gateway' \in Seq(GatewayEvent) /\ 1 \in DOMAIN gateway' /\ Head(gateway') = gateway'[1]
    BY <1>1
  <2>2. 1 \in DOMAIN gateway
    <3> SUFFICES ASSUME 1 \notin DOMAIN gateway PROVE FALSE
      OBVIOUS
    <3>1. Len(gateway) = 0 /\ gateway'[1] = es[1] /\ 1 \in DOMAIN es
      BY <1>2, <1>3, <2>1
    <3>2. es[1].kind = "SERVER"
      BY <2>1, <3>1
    <3>3. 1 > 1
      BY <3>1, <3>2
    <3> QED BY <3>3
  <2>3. gateway # <<>> /\ Head(gateway) = Head(gateway')
    BY <1>1, <1>2, <2>1, <2>2
  <2> QED BY <1>7, <2>3 DEF CarefulInv, NextSessionStored
<1> QED BY <1>4, <1>5, <1>6, <1>7 DEF CarefulInv

(* Handling an event that stores or forwards: the events move up by one.   *)
LEMMA ReceivedCareful ==
  ASSUME VoiceInv, CarefulInv, gateway # <<>>, gateway' = Tail(gateway), UNCHANGED vars
  PROVE  /\ ServersFollow' /\ JoinedHavePlayers'
         /\ gateway' # <<>> /\ Head(gateway').kind = "SERVER" =>
              Head(gateway) = [Head(gateway') EXCEPT !.kind = "STATE"]
<1>. USE DEF vars, tableVars
<1>1. /\ Len(gateway) \in Nat \ {0} /\ DOMAIN gateway = 1..Len(gateway)
      /\ DOMAIN gateway' = 1..(Len(gateway) - 1) /\ Head(gateway) = gateway[1]
      /\ \A k \in DOMAIN gateway' : k + 1 \in DOMAIN gateway /\ gateway'[k] = gateway[k + 1]
  <2>1. gateway \in Seq(GatewayEvent)
    BY DEF VoiceInv, VoiceTypeOK
  <2> QED BY <2>1
<1>2. ServersFollow'
  <2> SUFFICES ASSUME NEW k \in DOMAIN gateway', gateway'[k].kind = "SERVER", k > 1
               PROVE  gateway'[k - 1] = [gateway'[k] EXCEPT !.kind = "STATE"]
    BY DEF ServersFollow
  <2>1. k + 1 \in DOMAIN gateway /\ gateway'[k] = gateway[k + 1] /\ k + 1 > 1 /\ (k + 1) - 1 = k
    BY <1>1
  <2>2. k - 1 \in DOMAIN gateway' /\ (k - 1) + 1 = k
    BY <1>1
  <2>3. gateway'[k - 1] = gateway[k]
    BY <1>1, <2>2
  <2>4. gateway[k] = [gateway[k + 1] EXCEPT !.kind = "STATE"]
    BY <2>1 DEF CarefulInv, ServersFollow
  <2> QED BY <2>1, <2>3, <2>4
<1>3. JoinedHavePlayers'
  BY <1>1 DEF CarefulInv, JoinedHavePlayers
<1>4. ASSUME gateway' # <<>>, Head(gateway').kind = "SERVER"
      PROVE  Head(gateway) = [Head(gateway') EXCEPT !.kind = "STATE"]
  <2>1. gateway' \in Seq(GatewayEvent)
    BY TailFacts
  <2>2. 1 \in DOMAIN gateway' /\ Head(gateway') = gateway'[1]
    BY <1>4, <2>1
  <2>3. 2 \in DOMAIN gateway /\ gateway'[1] = gateway[2] /\ 2 > 1 /\ 2 - 1 = 1
    BY <1>1, <2>2
  <2>4. gateway[1] = [gateway[2] EXCEPT !.kind = "STATE"]
    BY <1>4, <2>2, <2>3 DEF CarefulInv, ServersFollow
  <2> QED BY <1>1, <2>2, <2>3, <2>4
<1> QED BY <1>2, <1>3, <1>4

(* Storing a session makes the guild's player hold the last announced one. *)
LEMMA StoreCareful ==
  ASSUME TableInv, VoiceInv, CarefulInv, ~fault,
         NEW g \in Guilds, NEW n \in Sessions, StoreSession(g, n),
         gateway # <<>>, gateway' = Tail(gateway), UNCHANGED vars,
         Head(gateway).guild = g, Head(gateway).session = n
  PROVE  CarefulInv'
<1>1. gateway # <<>> /\ gateway' = Tail(gateway) /\ UNCHANGED vars /\ StoreSession(g, n)
  OBVIOUS
<1>2. g \in Guilds /\ n \in Sessions
  OBVIOUS
<1>10. ASSUME gateway' # <<>>, Head(gateway').kind = "SERVER"
       PROVE  Head(gateway').guild = g /\ Head(gateway').session = n
  <2>1. Head(gateway) = [Head(gateway') EXCEPT !.kind = "STATE"]
    BY <1>10, ReceivedCareful
  <2>2. gateway' \in Seq(GatewayEvent)
    BY TailFacts
  <2>3. Head(gateway') \in GatewayEvent
    BY <1>10, <2>2
  <2> QED BY <2>1, <2>3 DEF GatewayEvent
<1>3. UNCHANGED <<slots, live, appends, capacity>> /\ Allocated' = Allocated
  BY <1>1 DEF vars, tableVars, Allocated
<1>4. ServersFollow' /\ JoinedHavePlayers'
  BY <1>1, ReceivedCareful
<1>5. announced' = [announced EXCEPT ![g] = n] /\ announced' \in [Guilds -> Nat]
      /\ announced'[g] = n
  BY <1>1, <1>2 DEF StoreSession, VoiceInv, VoiceTypeOK, Sessions
<1>6. voice \in [Allocated -> Sessions \cup {NoVoice, WildVoice}] /\ live \subseteq Allocated
  BY DEF VoiceInv, VoiceTypeOK, TableInv, TypeOK
<1>7. CASE MayMiss(g) /\ UNCHANGED <<voice, fault>>
  <2>1. appends <= 1 => FirstOf(g) = {}
    BY <1>2, <1>7, FoundIsFirst DEF FirstOf
  <2>2. NextSessionStored'
    <3> SUFFICES ASSUME gateway' # <<>>, Head(gateway').kind = "SERVER"
                 PROVE  /\ announced'[Head(gateway').guild] = Head(gateway').session
                        /\ appends <= 1 => FirstOf(Head(gateway).guild)' = {}
      BY <1>3 DEF NextSessionStored
    <3>1. Head(gateway').guild = g /\ Head(gateway').session = n
      BY <1>10
    <3> QED BY <1>3, <1>5, <2>1, <3>1 DEF FirstOf
  <2> QED BY <1>3, <1>4, <1>7, <2>2 DEF CarefulInv, FirstSlotWritten, NoFaultInFirstSlot
<1>8. CASE \E i \in Found(g) : i \in live /\ Replace(i, n) /\ fault' = fault
  <2>1. PICK i \in Found(g) : i \in live /\ Replace(i, n) /\ fault' = fault
    BY <1>8
  <2>2. appends <= 1 => FirstOf(g) \subseteq {i}
    <3>1. appends <= 1 => i \in FirstOf(g)
      BY <1>2, <2>1, FoundIsFirst
    <3> QED BY <1>2, <3>1, FirstOfIsOne
  <2>3. voice'[i] = n /\ \A j \in Allocated : voice'[j] \in {voice[j], n}
    BY <1>6, <2>1 DEF Replace
  <2>4. NextSessionStored'
    <3> SUFFICES ASSUME gateway' # <<>>, Head(gateway').kind = "SERVER"
                 PROVE  /\ announced'[Head(gateway').guild] = Head(gateway').session
                        /\ appends <= 1 => \A j \in FirstOf(Head(gateway).guild)' :
                                              voice'[j] = Head(gateway').session
      BY <1>3 DEF NextSessionStored
    <3>1. Head(gateway').guild = g /\ Head(gateway').session = n
      BY <1>10
    <3>2. FirstOf(Head(gateway).guild)' = FirstOf(g)
      BY <1>3, <3>1 DEF FirstOf
    <3> QED BY <1>5, <2>2, <2>3, <3>1, <3>2
  <2>5. FirstSlotWritten'
    BY <1>2, <1>3, <2>3 DEF CarefulInv, FirstSlotWritten, WildVoice, Sessions
  <2> QED BY <1>3, <1>4, <2>1, <2>4, <2>5 DEF CarefulInv, NoFaultInFirstSlot
<1>9. CASE \E i \in Found(g) : (i \in live => Dangling(i)) /\ Fault
  <2>1. appends # 0
    <3> SUFFICES ASSUME appends = 0 PROVE FALSE
      OBVIOUS
    <3>1. PICK i \in Found(g) : i \in live => Dangling(i)
      BY <1>9
    <3>2. i \in live
      BY <1>2, <3>1, FoundInFirstSlot
    <3>3. voice[i] # WildVoice /\ i \in Allocated
      BY <1>6, <3>2 DEF CarefulInv, FirstSlotWritten
    <3> QED BY <3>1, <3>2, <3>3 DEF Dangling, VoiceInv, VoiceDataOwned
  <2>2. fault' = TRUE
    BY <1>9 DEF Fault
  <2> QED BY <1>3, <1>4, <2>1, <2>2 DEF CarefulInv, FirstSlotWritten, NoFaultInFirstSlot
<1> QED BY <1>1, <1>7, <1>8, <1>9 DEF StoreSession

(* A server event finds the session that was stored just before it.        *)
LEMMA ServerCareful ==
  ASSUME TableInv, VoiceInv, CarefulInv, ~fault,
         NEW g \in Guilds, NEW n \in Sessions, VoiceServerUpdate,
         Head(gateway).guild = g, Head(gateway).session = n
  PROVE  CarefulInv'
<1>1. /\ gateway # <<>> /\ gateway' = Tail(gateway) /\ Head(gateway).kind = "SERVER"
      /\ UNCHANGED vars
  BY DEF VoiceServerUpdate, Received
<1>2. UNCHANGED <<slots, live, appends, capacity>> /\ Allocated' = Allocated
  BY <1>1 DEF vars, tableVars, Allocated
<1>3. ServersFollow' /\ JoinedHavePlayers'
  BY <1>1, ReceivedCareful
<1>4. NextSessionStored'
  <2> SUFFICES ASSUME gateway' # <<>>, Head(gateway').kind = "SERVER" PROVE FALSE
    BY DEF NextSessionStored
  <2>1. Head(gateway) = [Head(gateway') EXCEPT !.kind = "STATE"]
    BY <1>1, ReceivedCareful
  <2>2. gateway' \in Seq(GatewayEvent)
    BY <1>1, TailFacts
  <2>3. Head(gateway') \in GatewayEvent
    BY <2>2
  <2> QED BY <1>1, <2>1, <2>3 DEF GatewayEvent
<1>5. voice \in [Allocated -> Sessions \cup {NoVoice, WildVoice}] /\ live \subseteq Allocated
  BY DEF VoiceInv, VoiceTypeOK, TableInv, TypeOK
<1>6. \/ UNCHANGED <<voice, fault>>
      \/ \E i \in live : voice' = [voice EXCEPT ![i] = NoVoice] /\ fault' = fault
      \/ Fault /\ \E i \in Found(g) : i \in live => voice[i] \notin strings
  BY DEF VoiceServerUpdate, Forward
<1>7. \A j \in Allocated : voice'[j] \in {voice[j], NoVoice}
  BY <1>5, <1>6 DEF Fault
<1>8. FirstSlotWritten'
  BY <1>2, <1>7 DEF CarefulInv, FirstSlotWritten, NoVoice, WildVoice
<1>9. NoFaultInFirstSlot'
  <2> SUFFICES ASSUME appends = 0, fault' PROVE FALSE
    BY <1>2 DEF NoFaultInFirstSlot
  <2>1. PICK i \in Found(g) : i \in live => voice[i] \notin strings
    BY <1>6
  <2>2. i \in FirstOf(g) /\ i \in live
    BY <2>1, FoundInFirstSlot, FoundIsFirst
  <2>3. voice[i] = n
    BY <1>1, <2>2 DEF CarefulInv, NextSessionStored
  <2> QED BY <1>5, <2>1, <2>2, <2>3
          DEF VoiceInv, VoiceDataOwned, Sessions, NoVoice, WildVoice
<1> QED BY <1>3, <1>4, <1>8, <1>9 DEF CarefulInv

LEMMA DiscordCareful ==
  ASSUME Careful, VoiceInv, CarefulInv, NEW g \in Guilds,
         JoinVoice(g) \/ Restate(g) \/ Failover(g)
  PROVE  CarefulInv'
<1>1. told \in Nat
  BY DEF VoiceInv, VoiceTypeOK
<1>2. CASE JoinVoice(g)
  <2> DEFINE es == <<State("STATE", g), Server(g, told + 1)>>
  <2>1. es \in Seq(GatewayEvent)
    BY <1>1 DEF State, Server, GatewayEvent, Sessions
  <2>2. /\ \A k \in DOMAIN es : es[k].kind = "SERVER" => k = 2
        /\ es[1] = [es[2] EXCEPT !.kind = "STATE"] /\ es[2].guild = g
    BY DEF State, Server
  <2>3. /\ gateway' = gateway \o es /\ UNCHANGED <<vars, voiceVars>>
        /\ \E i \in live : slots[i].guild = g
    BY <1>2 DEF JoinVoice, Send
  <2> HIDE DEF es
  <2>4. \A k \in DOMAIN es : es[k].kind = "SERVER" =>
          /\ k > 1 /\ es[k - 1] = [es[k] EXCEPT !.kind = "STATE"]
          /\ \E i \in live : slots[i].guild = es[k].guild
    <3> SUFFICES ASSUME NEW k \in DOMAIN es, es[k].kind = "SERVER"
                 PROVE  /\ k > 1 /\ es[k - 1] = [es[k] EXCEPT !.kind = "STATE"]
                        /\ \E i \in live : slots[i].guild = es[k].guild
      OBVIOUS
    <3>1. k = 2 /\ k - 1 = 1
      BY <2>2
    <3> QED BY <2>2, <2>3, <3>1
  <2> QED BY <2>1, <2>3, <2>4, SendCareful
<1>3. CASE Restate(g)
  <2>1. PICK kind \in {"STATE", "GUILD"} : Send(<<State(kind, g)>>)
    BY <1>3 DEF Restate
  <2> DEFINE es == <<State(kind, g)>>
  <2>2. es \in Seq(GatewayEvent)
    BY <1>1 DEF State, GatewayEvent, Sessions
  <2>3. \A k \in DOMAIN es : es[k].kind # "SERVER"
    BY DEF State
  <2>4. gateway' = gateway \o es /\ UNCHANGED <<vars, voiceVars>>
    BY <2>1 DEF Send
  <2> HIDE DEF es
  <2> QED BY <2>2, <2>3, <2>4, SendCareful
<1> QED BY <1>2, <1>3 DEF Careful, Failover

LEMMA ChangeCareful ==
  ASSUME Careful, TableInv, TableInv', VoiceInv, CarefulInv,
         NEW h \in Guilds, Create(h) \/ Remove(h)
  PROVE  CarefulInv'
<1>1. /\ Quiet(h) /\ WithSlots /\ (CreatePlayer(h) \/ RemovePlayer(h))
      /\ UNCHANGED <<strings, announced, forwarded, lost, fault, told, gateway>>
  BY DEF Create, Remove, Careful, TableStep
<1>2. \A k \in DOMAIN gateway : gateway[k].guild \in Guilds \ {h}
  <2>1. gateway \in Seq(GatewayEvent)
    BY DEF VoiceInv, VoiceTypeOK
  <2>2. \A k \in DOMAIN gateway : gateway[k] \in GatewayEvent
    BY <2>1
  <2> QED BY <1>1, <2>2 DEF Quiet, GatewayEvent
<1>3. /\ \A g \in Guilds \ {h}, i \in live \cup live' :
           (i \in live' /\ slots'[i].guild = g) <=> (i \in live /\ slots[i].guild = g)
      /\ appends' \in {appends, appends + 1}
  BY <1>1, OthersKeepSlots
<1> QED BY <1>1, <1>2, <1>3, TableStepCareful

LEMMA CarefulStep ==
  Careful /\ TableInv /\ TableInv' /\ VoiceInv /\ CarefulInv /\ [VoiceNext]_allVars
    => CarefulInv'
<1> SUFFICES ASSUME Careful, TableInv, TableInv', VoiceInv, CarefulInv, [VoiceNext]_allVars
             PROVE  CarefulInv'
  OBVIOUS
<1>1. CASE UNCHANGED allVars
  BY <1>1 DEF allVars, vars, tableVars, voiceVars, CarefulInv, ServersFollow, JoinedHavePlayers,
              NextSessionStored, FirstSlotWritten, NoFaultInFirstSlot, FirstOf, Allocated
<1>2. ASSUME NEW m \in Nodes, Ready(m) PROVE CarefulInv'
  BY <1>2, TableStepCareful DEF Ready, TableStep, NodeReady, tableVars
<1>3. ASSUME ~fault, VoiceStateUpdate \/ GuildCreateOwnState \/ VoiceServerUpdate
      PROVE  CarefulInv'
  <2>1. gateway # <<>> /\ gateway' = Tail(gateway) /\ UNCHANGED vars
    BY <1>3 DEF VoiceStateUpdate, GuildCreateOwnState, VoiceServerUpdate, Received
  <2>2. PICK g \in Guilds, n \in Sessions : Head(gateway).guild = g /\ Head(gateway).session = n
    BY <2>1, TailFacts DEF GatewayEvent
  <2>3. CASE StoreSession(g, n)
    BY <1>3, <2>1, <2>2, <2>3, StoreCareful
  <2>4. CASE VoiceServerUpdate
    BY <1>3, <2>2, <2>4, ServerCareful
  <2> QED BY <1>3, <2>2, <2>3, <2>4 DEF VoiceStateUpdate, GuildCreateOwnState
<1> QED BY <1>1, <1>2, <1>3, DiscordCareful, ChangeCareful DEF VoiceNext, GatewayStep

-----------------------------------------------------------------------------
(* The conditions under which Discord's server events meet the session     *)
(* that their guild announced last are kept by every step.                 *)
THEOREM CarefulInvariant == ASSUME Careful PROVE VoiceSpec => []CarefulInv
<1>1. VoiceInit => CarefulInv
  BY InitCareful
<1>2. Careful /\ TableInv /\ TableInv' /\ VoiceInv /\ CarefulInv /\ [VoiceNext]_allVars
        => CarefulInv'
  BY CarefulStep
<1>3. VoiceSpec => []TableInv
  BY VoiceImplementsTable, TableInvariant, PTL
<1> QED BY <1>1, <1>2, <1>3, VoiceInvariant, PTL DEF VoiceSpec

(* An application that leaves alone the players of guilds with events on   *)
(* their way never makes the handlers follow a NULL or dangling voice_data *)
(* before the first realloc.                                               *)
THEOREM FirstSlotSafe == ASSUME Careful PROVE VoiceSpec => []NoFaultInFirstSlot
<1>1. CarefulInv => NoFaultInFirstSlot
  BY DEF CarefulInv
<1> QED BY <1>1, CarefulInvariant, PTL

(* What such an application's node is sent is the session that the guild   *)
(* announced last, up to the second realloc.                               *)
THEOREM LastSessionForwarded == ASSUME Careful PROVE VoiceSpec => ForwardsLastSession
<1>1. TableInv /\ VoiceInv /\ CarefulInv /\ [VoiceNext]_allVars =>
        [appends <= 1 => \A f \in forwarded' \ forwarded : f[2] = announced[f[1]]]_allVars
  <2> SUFFICES ASSUME TableInv, VoiceInv, CarefulInv, [VoiceNext]_allVars, appends <= 1,
                      NEW f \in forwarded', f \notin forwarded
               PROVE  f[2] = announced[f[1]]
    OBVIOUS
  <2>1. ~fault /\ VoiceServerUpdate
    BY DEF VoiceNext, Ready, Create, Remove, TableStep, GatewayStep, JoinVoice, Restate,
           Failover, Send, voiceVars, allVars, VoiceStateUpdate, GuildCreateOwnState,
           StoreSession, Fault
  <2> DEFINE g == Head(gateway).guild
  <2>2. /\ gateway # <<>> /\ Head(gateway).kind = "SERVER"
        /\ \E i \in Found(g) : i \in live /\ Forward(g, i)
    BY <2>1 DEF VoiceServerUpdate, Received, Fault
  <2>3. PICK i \in Found(g) : i \in live /\ Forward(g, i)
    BY <2>2
  <2>4. g \in Guilds
    BY <2>2, TailFacts, <2>1 DEF GatewayEvent, VoiceServerUpdate, Received
  <2>5. i \in FirstOf(g)
    BY <2>3, <2>4, FoundIsFirst
  <2>6. voice[i] = Head(gateway).session /\ announced[g] = Head(gateway).session
    BY <2>1, <2>2, <2>5 DEF CarefulInv, NextSessionStored
  <2>7. f = <<g, voice[i]>>
    BY <2>3 DEF Forward, Patch
  <2> QED BY <2>6, <2>7
<1> QED BY <1>1, CarefulInvariant, VoiceInvariant, VoiceImplementsTable, TableInvariant, PTL
        DEF VoiceSpec, ForwardsLastSession
=============================================================================
