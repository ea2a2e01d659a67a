--------------------------- MODULE VoiceHandshake ---------------------------
(***************************************************************************)
(* The voice handshake on top of the player table.  Discord answers a join *)
(* with VOICE_STATE_UPDATE (the session of the bot) and then               *)
(* VOICE_SERVER_UPDATE; the client keeps the session in the player's       *)
(* voice_data and forwards it, once, to the player's node                  *)
(* (_coglink_handle_scheduler, lib/websocket.c:185-202, 238-287 and        *)
(* 288-315).  Gateway events arrive in order and one at a time; the        *)
(* application creates, joins and removes players in between.              *)
(*                                                                         *)
(* voice_data and the session string in it are allocated and freed         *)
(* together, so one number stands for both: the number of the state        *)
(* announcement that carried the string.  Following a NULL or dangling     *)
(* voice_data sets `fault`, and the model stops.                           *)
(***************************************************************************)
EXTENDS PlayerTable

CONSTANTS Hasty,       \* players may come and go while their events are pending
          MayFailover, \* Discord may move a connected guild's voice server
          MayLose,     \* the PATCH to the node may fail
          MaxStates,   \* bound: announcements of the bot's voice state
          MaxPending   \* bound: gateway events on their way

ASSUME VoiceConstants ==
  /\ Hasty \in BOOLEAN /\ MayFailover \in BOOLEAN /\ MayLose \in BOOLEAN
  /\ MaxStates \in Nat /\ MaxPending \in Nat

NoVoice == 0      \* voice_data = NULL
WildVoice == -1   \* voice_data of a slot that realloc added

VARIABLES voice,      \* slot index -> its voice_data
          strings,    \* the session strings that are allocated
          told,       \* announcements made by Discord so far
          gateway,    \* events on their way, oldest first
          announced,  \* history: guild -> its last announcement handled, or 0
          forwarded,  \* history: <<guild, session>> that reached a node
          lost,       \* history: <<guild, session>> whose PATCH failed
          fault       \* a bad voice_data was followed

voiceVars == <<voice, strings, announced, forwarded, lost, fault>>
allVars == <<vars, voiceVars, told, gateway>>

VoiceInit ==
  /\ Init
  /\ voice = [i \in {0} |-> NoVoice]
  /\ strings = {}
  /\ told = 0
  /\ gateway = <<>>
  /\ announced = [g \in Guilds |-> 0]
  /\ forwarded = {}
  /\ lost = {}
  /\ fault = FALSE

-----------------------------------------------------------------------------
(* Mutant of WithSlots: voice_data is not reallocated with the slots.      *)
WithOldSlots == UNCHANGED voice

(* The table's operations move voice_data along with its slot: realloc     *)
(* leaves it uninitialised in a new slot, and neither create nor remove    *)
(* writes it.                                                              *)
WithSlots ==
  voice' = [i \in 0..(capacity' - 1) |-> IF i \in Allocated THEN voice[i] ELSE WildVoice]

TableStep(A) ==
  /\ A
  /\ WithSlots
  /\ UNCHANGED <<strings, announced, forwarded, lost, fault, told, gateway>>

(* An application that is not Hasty creates and removes no player whose    *)
(* guild has events on their way.  (A create may take the first free slot  *)
(* although the guild has a player further on, see ExistingPlayerReturned, *)
(* and the events then meet the voice_data that slot's last guild left.)   *)
Quiet(g) == \A k \in DOMAIN gateway : gateway[k].guild # g

Ready(n) == TableStep(NodeReady(n))
Create(g) == (Hasty \/ Quiet(g)) /\ TableStep(CreatePlayer(g))
Remove(g) == (Hasty \/ Quiet(g)) /\ TableStep(RemovePlayer(g))

-----------------------------------------------------------------------------
(* Discord (external).                                                     *)
State(kind, g) == [kind |-> kind, guild |-> g, session |-> told + 1]
Server(g, n) == [kind |-> "SERVER", guild |-> g, session |-> n]

Send(es) ==
  /\ Len(gateway) + Len(es) <= MaxPending
  /\ gateway' = gateway \o es
  /\ UNCHANGED <<vars, voiceVars>>

(* The answer to coglink_join_voice_channel, called for a player in use.   *)
JoinVoice(g) ==
  /\ \E i \in live : slots[i].guild = g
  /\ told < MaxStates /\ told' = told + 1
  /\ Send(<<State("STATE", g), Server(g, told + 1)>>)

(* The bot was moved or muted, or the guild was sent again.                *)
Restate(g) ==
  /\ announced[g] # 0
  /\ told < MaxStates /\ told' = told + 1
  /\ \E kind \in {"STATE", "GUILD"} : Send(<<State(kind, g)>>)

Failover(g) ==
  /\ MayFailover /\ announced[g] # 0
  /\ Send(<<Server(g, announced[g])>>)
  /\ UNCHANGED told

-----------------------------------------------------------------------------
Fault == fault' = TRUE /\ UNCHANGED <<voice, strings, forwarded, lost>>

Dangling(i) == voice[i] # NoVoice /\ voice[i] \notin strings

(* coglink_get_player returns NULL.                                        *)
MayMiss(g) == \A i \in GetScan \cap Allocated : slots[i].guild # g

(* Mutant of Replace: a session already held is kept.                      *)
ReplaceNone(i, n) ==
  IF voice[i] = NoVoice
    THEN voice' = [voice EXCEPT ![i] = n] /\ strings' = strings \cup {n}
    ELSE UNCHANGED <<voice, strings>>

Replace(i, n) ==
  /\ voice' = [voice EXCEPT ![i] = n]
  /\ strings' = (strings \ {voice[i]}) \cup {n}

(* The session of the bot replaces the one the player holds; an            *)
(* uninitialised voice_data may also read as NULL.  Without a player the   *)
(* string is leaked.                                                       *)
StoreSession(g, n) ==
  /\ announced' = [announced EXCEPT ![g] = n]
  /\ \/ /\ MayMiss(g)
        /\ strings' = strings \cup {n}
        /\ UNCHANGED <<voice, forwarded, lost, fault>>
     \/ \E i \in Found(g) :
          \/ /\ i \in live
             /\ Dangling(i) => voice[i] = WildVoice
             /\ Replace(i, n)
             /\ UNCHANGED <<forwarded, lost, fault>>
          \/ (i \in live => Dangling(i)) /\ Fault

Received(kind) ==
  /\ gateway # <<>> /\ Head(gateway).kind = kind
  /\ gateway' = Tail(gateway)
  /\ UNCHANGED <<vars, told>>

VoiceStateUpdate ==
  Received("STATE") /\ StoreSession(Head(gateway).guild, Head(gateway).session)

GuildCreateOwnState ==
  Received("GUILD") /\ StoreSession(Head(gateway).guild, Head(gateway).session)

(* _coglink_perform_request: the node takes the session, or not.           *)
Patch(g, n) ==
  \/ forwarded' = forwarded \cup {<<g, n>>} /\ UNCHANGED lost
  \/ MayLose /\ lost' = lost \cup {<<g, n>>} /\ UNCHANGED forwarded

(* Mutants of Forward: voice_data keeps its pointer; and the session is    *)
(* kept when the PATCH failed.                                             *)
ForwardKeeps(g, i) ==
  /\ Patch(g, voice[i])
  /\ strings' = strings \ {voice[i]}
  /\ UNCHANGED <<voice, fault>>
ForwardRetries(g, i) ==
  /\ Patch(g, voice[i])
  /\ IF lost' = lost THEN /\ strings' = strings \ {voice[i]}
                          /\ voice' = [voice EXCEPT ![i] = NoVoice]
     ELSE UNCHANGED <<voice, strings>>
  /\ UNCHANGED fault

(* The result of the PATCH is not looked at, and voice_data is freed.      *)
Forward(g, i) ==
  /\ Patch(g, voice[i])
  /\ strings' = strings \ {voice[i]}
  /\ voice' = [voice EXCEPT ![i] = NoVoice]
  /\ UNCHANGED fault

(* voice_data is not compared with NULL here.                              *)
VoiceServerUpdate ==
  /\ Received("SERVER")
  /\ LET g == Head(gateway).guild IN
       \/ MayMiss(g) /\ UNCHANGED <<voice, strings, forwarded, lost, fault>>
       \/ \E i \in Found(g) :
            \/ i \in live /\ voice[i] \in strings /\ Forward(g, i)
            \/ (i \in live => voice[i] \notin strings) /\ Fault
  /\ UNCHANGED announced

(* What Discord does, and what the client does about it.                   *)
GatewayStep ==
  \/ \E g \in Guilds : JoinVoice(g)
  \/ \E g \in Guilds : Restate(g)
  \/ \E g \in Guilds : Failover(g)
  \/ VoiceStateUpdate
  \/ GuildCreateOwnState
  \/ VoiceServerUpdate

VoiceNext ==
  /\ status = "running" /\ ~fault
  /\ \/ \E n \in Nodes : Ready(n)
     \/ \E g \in Guilds : Create(g)
     \/ \E g \in Guilds : Remove(g)
     \/ GatewayStep

VoiceSpec == VoiceInit /\ [][VoiceNext]_allVars

(* The event loop handles what the gateway has sent.                       *)
Running == status = "running" /\ ~fault
Handle ==
  Running /\ (VoiceStateUpdate \/ GuildCreateOwnState \/ VoiceServerUpdate)
FairVoiceSpec == VoiceSpec /\ WF_allVars(Handle)

-----------------------------------------------------------------------------
Sessions == Nat \ {0}
GatewayEvent ==
  [kind : {"STATE", "GUILD", "SERVER"}, guild : Guilds, session : Sessions]

(* The types of the handshake's state; voice follows the slots.            *)
VoiceTypeOK ==
  /\ voice \in [Allocated -> Sessions \cup {NoVoice, WildVoice}]
  /\ strings \subseteq Sessions
  /\ told \in Nat
  /\ gateway \in Seq(GatewayEvent)
  /\ announced \in [Guilds -> Nat]
  /\ forwarded \subseteq Guilds \X Nat
  /\ lost \subseteq Guilds \X Nat
  /\ fault \in BOOLEAN

(* No session is freed twice or used after it was freed, whatever is       *)
(* removed, reused, reallocated or announced in between: a slot's          *)
(* voice_data is NULL, uninitialised, or an allocated string that no other *)
(* slot holds.                                                             *)
VoiceDataOwned ==
  \A i \in Allocated :
    voice[i] \notin {NoVoice, WildVoice} =>
      /\ voice[i] \in strings
      /\ \A j \in Allocated : voice[j] = voice[i] => j = i

(* What the client forwards for a guild is the session that guild          *)
(* announced last, although slots change hands and keep their voice_data.  *)
(* (For an application that is not Hasty, and until the second realloc.)   *)
ForwardsLastSession ==
  [][appends <= 1 =>
       \A f \in forwarded' \ forwarded : f[2] = announced[f[1]]]_allVars

(* Up to the first realloc, no NULL or dangling voice_data is followed.    *)
(* (For an application that is not Hasty, and without failovers.)          *)
NoFaultInFirstSlot == appends = 0 => ~fault

(* A session is sent once: one whose PATCH failed reaches no node later,   *)
(* and one that reached a node is not sent again, whatever else is         *)
(* announced, moved or removed (the free of websocket.c:281-283 does not   *)
(* depend on the answer).                                                  *)
SentOnce == forwarded \cap lost = {}

(* Every join of a player ends with that session or a newer one sent to    *)
(* the node, or lost on its way there, unless the program stops first.     *)
(* (Under the conditions of NoFaultInFirstSlot.)                           *)
Joining(g, n) ==
  \E k \in DOMAIN gateway : gateway[k] = [kind |-> "SERVER", guild |-> g, session |-> n]
JoinCompletes ==
  \A g \in Guilds, n \in 1..MaxStates :
    Joining(g, n) ~> ~Running \/ \E m \in n..MaxStates : <<g, m>> \in forwarded \cup lost

-----------------------------------------------------------------------------
(* The inductive strengthening of VoiceDataOwned: an announcement on its   *)
(* way brings a string that no slot and no other announcement has.         *)
StatesPending == {k \in DOMAIN gateway : gateway[k].kind # "SERVER"}

FreshStrings ==
  /\ \A i \in Allocated : voice[i] <= told
  /\ \A k \in StatesPending : gateway[k].session <= told
  /\ \A k \in StatesPending, i \in Allocated : voice[i] # gateway[k].session
  /\ \A k, l \in StatesPending :
       k # l => gateway[k].session # gateway[l].session

(* A session that was sent is in no slot and on no way to one.             *)
Sent == {f[2] : f \in forwarded \cup lost}
SentIsGone ==
  /\ \A n \in Sent : n \in Sessions /\ n <= told
  /\ \A i \in Allocated : voice[i] \notin Sent
  /\ \A k \in StatesPending : gateway[k].session \notin Sent

VoiceInv ==
  VoiceTypeOK /\ VoiceDataOwned /\ FreshStrings /\ SentIsGone /\ SentOnce

-----------------------------------------------------------------------------
(* The inductive strengthening of ForwardsLastSession and                  *)
(* NoFaultInFirstSlot, for an application that is not Hasty and without    *)
(* failovers: a server event travels right behind its announcement, and    *)
(* when it is handled, the first slot of its guild holds what that brought.*)
Careful == ~Hasty /\ ~MayFailover

FirstOf(g) ==
  {i \in live : /\ slots[i].guild = g
                /\ \A j \in live : slots[j].guild = g => i <= j}

ServersFollow ==
  \A k \in DOMAIN gateway : gateway[k].kind = "SERVER" /\ k > 1 =>
    gateway[k - 1] = [gateway[k] EXCEPT !.kind = "STATE"]

JoinedHavePlayers ==
  \A k \in DOMAIN gateway : gateway[k].kind = "SERVER" =>
    \E i \in live : slots[i].guild = gateway[k].guild

NextSessionStored ==
  gateway # <<>> /\ Head(gateway).kind = "SERVER" =>
    /\ announced[Head(gateway).guild] = Head(gateway).session
    /\ appends <= 1 =>
         \A i \in FirstOf(Head(gateway).guild) : voice[i] = Head(gateway).session

FirstSlotWritten == appends = 0 => \A i \in Allocated : voice[i] # WildVoice

CarefulInv ==
  /\ ServersFollow /\ JoinedHavePlayers /\ FirstSlotWritten
  /\ ~fault => NextSessionStored
  /\ NoFaultInFirstSlot
=============================================================================
