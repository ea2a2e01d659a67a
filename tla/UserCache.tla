----------------------------- MODULE UserCache -----------------------------
(***************************************************************************)
(* The cache of the voice channels users are in: c_client->users, filled   *)
(* by VOICE_STATE_UPDATE and GUILD_CREATE (lib/websocket.c:203-232 and     *)
(* 315-333) and read by coglink_get_user (lib/rest.c:41-49), through which *)
(* the `.play` command finds the channel to join (example.c:100-105, 131). *)
(*                                                                         *)
(* Entries of the bot itself take the other branch of both handlers and    *)
(* are part of VoiceHandshake.  Ids are exact: PAIR_TO_SIZET copies them   *)
(* one byte past its buffer, but all of them.                              *)
(***************************************************************************)
EXTENDS Integers, Sequences

CONSTANTS Users,      \* user ids other than the bot's, never 0
          Channels,   \* voice channel ids, never 0
          Zero,       \* id or channel 0
          MaxEntries  \* bound: entries of the array

ASSUME CacheConstants ==
  Zero \notin Users /\ Zero \notin Channels /\ MaxEntries \in Nat

VARIABLES users,     \* the array, users[1] first; its length is users->size
          where,     \* history: the channel Discord last announced, or Zero
          announced  \* history: every channel Discord announced for a user

vars == <<users, where, announced>>

Entry == [id : Users \cup {Zero}, channel : Channels \cup {Zero}]
VoiceState == [id : Users, channel : Channels]

Init ==
  /\ users = <<>>
  /\ where = [u \in Users |-> Zero]
  /\ announced = [u \in Users |-> {}]

FirstWithId(s, u) ==
  {i \in DOMAIN s : s[i].id = u /\ \A j \in 1..(i - 1) : s[j].id # u}

(* coglink_get_user: the channel of the first entry, {} for NULL.          *)
Lookup(s, u) == {s[i].channel : i \in FirstWithId(s, u)}
GetUser(u) == Lookup(users, u)

-----------------------------------------------------------------------------
(* Mutant of MarkFirstFree: the user's id is written instead.              *)
MarkWithId(u, c) ==
  [i \in DOMAIN users |-> IF i \in FirstWithId(users, Zero)
                            THEN [users[i] EXCEPT !.channel = u] ELSE users[i]]

(* The channel of the first freed entry is overwritten; its id stays 0.    *)
MarkFirstFree(u, c) ==
  [i \in DOMAIN users |-> IF i \in FirstWithId(users, Zero)
                            THEN [users[i] EXCEPT !.channel = c] ELSE users[i]]

(* VOICE_STATE_UPDATE with a channel: the user joined it, moved to it, or  *)
(* changed its state in it.  The new entry is always appended.             *)
VoiceStateIn(u, c) ==
  /\ Len(users) < MaxEntries
  /\ users' = Append(MarkFirstFree(u, c), [id |-> u, channel |-> c])
  /\ where' = [where EXCEPT ![u] = c]
  /\ announced' = [announced EXCEPT ![u] = @ \cup {c}]

(* Mutants of ClearEntries: every entry from the first one on; the entry   *)
(* loses its channel only.                                                 *)
ClearFromFirst(u) ==
  [i \in DOMAIN users |-> IF \E j \in FirstWithId(users, u) : j <= i
                            THEN [id |-> Zero, channel |-> Zero] ELSE users[i]]
ClearChannel(u) ==
  [i \in DOMAIN users |-> IF i \in FirstWithId(users, u)
                            THEN [users[i] EXCEPT !.channel = Zero] ELSE users[i]]

ClearEntries(u) ==
  [i \in DOMAIN users |-> IF i \in FirstWithId(users, u)
                            THEN [id |-> Zero, channel |-> Zero] ELSE users[i]]

(* VOICE_STATE_UPDATE without a channel: the user's first entry is zeroed. *)
VoiceStateOut(u) ==
  /\ where[u] # Zero
  /\ users' = ClearEntries(u)
  /\ where' = [where EXCEPT ![u] = Zero]
  /\ UNCHANGED announced

(* Mutant of FillFree: every entry is given the first voice state.         *)
FillAll(vs) == [i \in DOMAIN users |-> vs[1]]

(* The first voice state of a GUILD_CREATE goes into every freed entry.    *)
FillFree(vs) ==
  [i \in DOMAIN users |-> IF users[i].id = Zero THEN vs[1] ELSE users[i]]

(* The voice states Discord lists for a guild: one per user.               *)
VoiceStateLists ==
  UNION {{vs \in [1..n -> VoiceState] : \A i, j \in 1..n : vs[i].id = vs[j].id => i = j} :
           n \in 1..(MaxEntries - Len(users))}

Listed(vs) == {vs[i].id : i \in DOMAIN vs}
PositionOf(u, vs) == CHOOSE i \in DOMAIN vs : vs[i].id = u

(* GUILD_CREATE.  Its loop fills the freed entries and appends, once per   *)
(* voice state; after the first one no freed entry is left.  (On an empty  *)
(* table the loop also writes slot 0 of the block, which the append then   *)
(* overwrites.)                                                            *)
GuildCreate(vs) ==
  /\ users' = FillFree(vs) \o vs
  /\ where' = [u \in Users |-> IF u \in Listed(vs) THEN vs[PositionOf(u, vs)].channel
                                 ELSE where[u]]
  /\ announced' = [u \in Users |-> announced[u] \cup
                     {vs[i].channel : i \in {j \in DOMAIN vs : vs[j].id = u}}]

Next ==
  \/ \E u \in Users, c \in Channels : VoiceStateIn(u, c)
  \/ \E u \in Users : VoiceStateOut(u)
  \/ \E vs \in VoiceStateLists : GuildCreate(vs)

Spec == Init /\ [][Next]_vars

-----------------------------------------------------------------------------
TypeOK ==
  /\ users \in Seq(Entry)
  /\ where \in [Users -> Channels \cup {Zero}]
  /\ announced \in [Users -> SUBSET Channels]

(* The newest entry of a user who is in voice holds the channel Discord    *)
(* announced last: the cache knows the truth, whatever other users' events *)
(* and freed entries went through it.                                      *)
NewestEntryIsCurrent ==
  \A u \in Users : where[u] # Zero =>
    \E i \in DOMAIN users :
      /\ users[i] = [id |-> u, channel |-> where[u]]
      /\ \A j \in DOMAIN users : j > i => users[j].id # u

(* A user who is in voice is found, and never in a channel that was not    *)
(* announced for that user: `.play` does not answer "You are not in a      *)
(* voice channel." to somebody who is in one (example.c:102-105).          *)
LookupPlausible ==
  \A u \in Users : /\ where[u] # Zero => GetUser(u) # {}
                   /\ GetUser(u) \subseteq announced[u]

(* An event that announces no new channel for a user (another user's       *)
(* event, a mute, the guild created again after an outage) leaves the      *)
(* lookup of that user alone, or corrects it.                              *)
LookupNeverWorsens ==
  [][\A u \in Users :
       where'[u] = where[u] => GetUser(u)' \in {GetUser(u), {where[u]}}]_vars

(* What the answer "You are not in a voice channel." of example.c:105      *)
(* takes for granted: a user who left voice is not found any more.         *)
LeftUsersNotFound == \A u \in Users : where[u] = Zero => GetUser(u) = {}
=============================================================================
