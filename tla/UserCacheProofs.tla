-------------------------- MODULE UserCacheProofs --------------------------
(***************************************************************************)
(* Proofs about UserCache for any number of users, channels and entries.   *)
(***************************************************************************)
EXTENDS UserCache, SequenceTheorems, WellFoundedInduction, TLAPS

(* Every entry that carries a user's id carries a channel announced for    *)
(* that user.                                                              *)
EntriesAnnounced ==
  \A i \in DOMAIN users : users[i].id \in Users =>
                            users[i].channel \in announced[users[i].id]

CacheInv == TypeOK /\ NewestEntryIsCurrent /\ EntriesAnnounced

-----------------------------------------------------------------------------
(* A set of numbers that is not empty has a smallest element.              *)
LEMMA Smallest ==
  ASSUME NEW T \in SUBSET Nat, T # {}
  PROVE  \E x \in T : \A y \in T : x <= y
<1>1. PICK x \in T : \A y \in T : ~(<<y, x>> \in OpToRel(<, Nat))
  BY NatLessThanWellFounded, WFMin
<1>2. ASSUME NEW y \in T PROVE x <= y
  <2>1. ~(y < x)
    BY <1>1 DEF OpToRel
  <2> QED BY <2>1
<1> QED BY <1>2

(* Rewriting the entries of a sequence in place gives a sequence of the    *)
(* same length.                                                            *)
LEMMA RewriteType ==
  ASSUME NEW S, NEW s \in Seq(S), NEW f, DOMAIN f = DOMAIN s,
         \A i \in DOMAIN s : f[i] \in S, f = [i \in DOMAIN f |-> f[i]]
  PROVE  f \in Seq(S) /\ Len(f) = Len(s)
<1>1. DOMAIN s = 1..Len(s) /\ Len(s) \in Nat
  BY LenProperties
<1>2. f \in [1..Len(s) -> S]
  BY <1>1
<1> QED BY <1>1, <1>2, SeqDef, LenProperties

(* The scan of coglink_get_user finds a user who has an entry.             *)
LEMMA FirstExists ==
  ASSUME NEW s \in Seq(Entry), NEW u, NEW k \in DOMAIN s, s[k].id = u
  PROVE  FirstWithId(s, u) # {}
<1>1. DOMAIN s = 1..Len(s) /\ Len(s) \in Nat
  BY LenProperties
<1> DEFINE T == {i \in DOMAIN s : s[i].id = u}
<1>2. PICK i \in T : \A j \in T : i <= j
  <2>1. T \in SUBSET Nat /\ T # {}
    BY <1>1
  <2> HIDE DEF T
  <2> QED BY <2>1, Smallest
<1>3. i \in FirstWithId(s, u)
  <2>1. ASSUME NEW j \in 1..(i - 1) PROVE s[j].id # u
    <3>1. j \in DOMAIN s /\ j \in Int /\ i \in Int /\ j < i
      BY <1>1, <1>2
    <3>2. j \notin T
      BY <1>2, <3>1
    <3> QED BY <3>1, <3>2
  <2> QED BY <1>2, <2>1 DEF FirstWithId
<1> QED BY <1>3

(* ... and finds only one entry.                                           *)
LEMMA FirstUnique ==
  ASSUME NEW s \in Seq(Entry), NEW u,
         NEW i \in FirstWithId(s, u), NEW j \in FirstWithId(s, u)
  PROVE  i = j
<1>1. DOMAIN s = 1..Len(s) /\ Len(s) \in Nat
  BY LenProperties
<1> QED BY <1>1 DEF FirstWithId

-----------------------------------------------------------------------------
(* What each handler does to the array.                                    *)
LEMMA InFacts ==
  ASSUME TypeOK, NEW u \in Users, NEW c \in Channels, VoiceStateIn(u, c)
  PROVE  /\ users' \in Seq(Entry) /\ Len(users') = Len(users) + 1
         /\ users'[Len(users) + 1] = [id |-> u, channel |-> c]
         /\ \A i \in 1..Len(users) :
              /\ users'[i].id = users[i].id
              /\ users[i].id # Zero => users'[i] = users[i]
<1> DEFINE M == MarkFirstFree(u, c)
<1>1. DOMAIN users = 1..Len(users) /\ Len(users) \in Nat
  BY LenProperties DEF TypeOK
<1>2. \A i \in DOMAIN users : users[i] \in Entry
  BY LenProperties DEF TypeOK
<1>3. /\ M = [i \in DOMAIN users |-> M[i]] /\ DOMAIN M = DOMAIN users
      /\ \A i \in DOMAIN users : M[i] = IF i \in FirstWithId(users, Zero)
                                         THEN [users[i] EXCEPT !.channel = c]
                                         ELSE users[i]
  BY DEF MarkFirstFree
<1>4. \A i \in DOMAIN users : /\ M[i] \in Entry
                              /\ M[i].id = users[i].id
                              /\ users[i].id # Zero => M[i] = users[i]
  BY <1>2, <1>3 DEF Entry, FirstWithId
<1> HIDE DEF M
<1>5. M \in Seq(Entry) /\ Len(M) = Len(users)
  BY <1>3, <1>4, RewriteType DEF TypeOK
<1>6. [id |-> u, channel |-> c] \in Entry
  BY DEF Entry
<1>7. users' = Append(M, [id |-> u, channel |-> c])
  BY DEF VoiceStateIn, M
<1> QED BY <1>1, <1>4, <1>5, <1>6, <1>7, AppendProperties

LEMMA OutFacts ==
  ASSUME TypeOK, NEW u \in Users, VoiceStateOut(u)
  PROVE  /\ users' \in Seq(Entry) /\ Len(users') = Len(users)
         /\ \A i \in 1..Len(users) :
              IF i \in FirstWithId(users, u)
                THEN users'[i] = [id |-> Zero, channel |-> Zero]
                ELSE users'[i] = users[i]
<1>1. DOMAIN users = 1..Len(users) /\ Len(users) \in Nat
  BY LenProperties DEF TypeOK
<1>2. \A i \in DOMAIN users : users[i] \in Entry
  BY LenProperties DEF TypeOK
<1>3. /\ users' = [i \in DOMAIN users |-> users'[i]] /\ DOMAIN users' = DOMAIN users
      /\ \A i \in DOMAIN users : users'[i] = IF i \in FirstWithId(users, u)
                                         THEN [id |-> Zero, channel |-> Zero]
                                         ELSE users[i]
  BY DEF VoiceStateOut, ClearEntries
<1>4. \A i \in DOMAIN users : users'[i] \in Entry
  BY <1>2, <1>3 DEF Entry
<1> QED BY <1>1, <1>3, <1>4, RewriteType DEF TypeOK

LEMMA CreateFacts ==
  ASSUME TypeOK, NEW vs \in VoiceStateLists, GuildCreate(vs)
  PROVE  /\ users' \in Seq(Entry) /\ Len(users') = Len(users) + Len(vs)
         /\ Len(vs) \in Nat \ {0} /\ DOMAIN vs = 1..Len(vs)
         /\ \A i \in 1..Len(vs) : /\ vs[i] \in VoiceState
                                  /\ users'[Len(users) + i] = vs[i]
                                  /\ \A j \in 1..Len(vs) : vs[i].id = vs[j].id => i = j
         /\ \A i \in 1..Len(users) :
              users'[i] = IF users[i].id = Zero THEN vs[1] ELSE users[i]
<1> DEFINE F == FillFree(vs)
<1>1. DOMAIN users = 1..Len(users) /\ Len(users) \in Nat
  BY LenProperties DEF TypeOK
<1>2. \A i \in DOMAIN users : users[i] \in Entry
  BY LenProperties DEF TypeOK
<1>3. PICK n \in 1..(MaxEntries - Len(users)) :
        /\ vs \in [1..n -> VoiceState]
        /\ \A i, j \in 1..n : vs[i].id = vs[j].id => i = j
  BY DEF VoiceStateLists
<1>4. n \in Nat \ {0}
  BY <1>1, CacheConstants
<1>5. VoiceState \subseteq Entry
  BY DEF VoiceState, Entry
<1>6. vs \in Seq(Entry) /\ Len(vs) = n /\ DOMAIN vs = 1..n
  <2>1. vs \in [1..n -> Entry]
    BY <1>3, <1>5
  <2>2. vs \in Seq(Entry)
    BY <1>4, <2>1, SeqDef
  <2> QED BY <1>3, <1>4, <2>2, LenProperties
<1>7. /\ F = [i \in DOMAIN users |-> F[i]] /\ DOMAIN F = DOMAIN users
      /\ \A i \in DOMAIN users : F[i] = IF users[i].id = Zero THEN vs[1] ELSE users[i]
  BY DEF FillFree
<1> HIDE DEF F
<1>8. \A i \in DOMAIN users : F[i] \in Entry
  BY <1>2, <1>3, <1>4, <1>5, <1>7
<1>9. F \in Seq(Entry) /\ Len(F) = Len(users)
  BY <1>7, <1>8, RewriteType DEF TypeOK
<1>10. users' = F \o vs
  BY DEF GuildCreate, F
<1>11. /\ users' \in Seq(Entry) /\ Len(users') = Len(users) + n
       /\ \A i \in 1..(Len(users) + n) :
            users'[i] = IF i <= Len(users) THEN F[i] ELSE vs[i - Len(users)]
  <2>1. /\ F \o vs \in Seq(Entry) /\ Len(F \o vs) = Len(F) + Len(vs)
        /\ \A i \in 1..(Len(F) + Len(vs)) :
             (F \o vs)[i] = IF i <= Len(F) THEN F[i] ELSE vs[i - Len(F)]
    BY <1>6, <1>9, ConcatProperties
  <2> QED BY <1>6, <1>9, <1>10, <2>1
<1>12. \A i \in 1..n : users'[Len(users) + i] = vs[i]
  BY <1>1, <1>4, <1>11
<1>13. \A i \in 1..Len(users) : users'[i] = F[i]
  BY <1>1, <1>4, <1>11
<1> QED BY <1>1, <1>3, <1>4, <1>6, <1>7, <1>11, <1>12, <1>13

-----------------------------------------------------------------------------
(* The argument of each step: the newest entry of a user is the appended   *)
(* one, or the one it was, because ids change only from 0 or to 0.         *)
LEMMA InStep ==
  ASSUME CacheInv, NEW u \in Users, NEW c \in Channels, VoiceStateIn(u, c)
  PROVE  CacheInv'
<1>. USE DEF CacheInv
<1>1. /\ users' \in Seq(Entry) /\ Len(users') = Len(users) + 1
      /\ users'[Len(users) + 1] = [id |-> u, channel |-> c]
      /\ \A i \in 1..Len(users) :
           /\ users'[i].id = users[i].id
           /\ users[i].id # Zero => users'[i] = users[i]
  BY InFacts
<1>2. /\ where' = [where EXCEPT ![u] = c]
      /\ announced' = [announced EXCEPT ![u] = @ \cup {c}]
  BY DEF VoiceStateIn
<1>3. TypeOK'
  BY <1>1, <1>2 DEF TypeOK
<1>4. /\ DOMAIN users = 1..Len(users) /\ Len(users) \in Nat
      /\ DOMAIN users' = 1..(Len(users) + 1)
  BY <1>1, LenProperties DEF TypeOK
<1>5. NewestEntryIsCurrent'
  <2>1. SUFFICES ASSUME NEW v \in Users, where'[v] # Zero
                 PROVE  \E i \in DOMAIN users' :
                          /\ users'[i] = [id |-> v, channel |-> where'[v]]
                          /\ \A j \in DOMAIN users' : j > i => users'[j].id # v
    BY DEF NewestEntryIsCurrent
  <2>2. CASE v = u
    BY <1>1, <1>2, <1>4, <2>2 DEF TypeOK
  <2>3. CASE v # u
    <3>1. PICK i \in DOMAIN users :
            /\ users[i] = [id |-> v, channel |-> where[v]]
            /\ \A j \in DOMAIN users : j > i => users[j].id # v
      BY <1>2, <2>1, <2>3 DEF NewestEntryIsCurrent, TypeOK
    <3>2. users'[i] = [id |-> v, channel |-> where'[v]]
      BY <1>1, <1>2, <1>4, <2>3, <3>1, CacheConstants DEF TypeOK
    <3>3. \A j \in DOMAIN users' : j > i => users'[j].id # v
      BY <1>1, <1>4, <2>3, <3>1
    <3> QED BY <1>4, <3>2, <3>3
  <2> QED BY <2>2, <2>3
<1>6. EntriesAnnounced'
  BY <1>1, <1>2, <1>4, CacheConstants DEF EntriesAnnounced, TypeOK
<1> QED BY <1>3, <1>5, <1>6

LEMMA OutStep ==
  ASSUME CacheInv, NEW u \in Users, VoiceStateOut(u)
  PROVE  CacheInv'
<1>. USE DEF CacheInv
<1>1. /\ users' \in Seq(Entry) /\ Len(users') = Len(users)
      /\ \A i \in 1..Len(users) :
           IF i \in FirstWithId(users, u)
             THEN users'[i] = [id |-> Zero, channel |-> Zero]
             ELSE users'[i] = users[i]
  BY OutFacts
<1>2. where' = [where EXCEPT ![u] = Zero] /\ announced' = announced
  BY DEF VoiceStateOut
<1>3. TypeOK'
  BY <1>1, <1>2 DEF TypeOK
<1>4. /\ DOMAIN users = 1..Len(users) /\ Len(users) \in Nat
      /\ DOMAIN users' = DOMAIN users
  BY <1>1, LenProperties DEF TypeOK
<1>5. NewestEntryIsCurrent'
  <2>1. SUFFICES ASSUME NEW v \in Users, where'[v] # Zero
                 PROVE  \E i \in DOMAIN users' :
                          /\ users'[i] = [id |-> v, channel |-> where'[v]]
                          /\ \A j \in DOMAIN users' : j > i => users'[j].id # v
    BY DEF NewestEntryIsCurrent
  <2>2. v # u /\ where'[v] = where[v]
    BY <1>2, <2>1 DEF TypeOK
  <2>3. PICK i \in DOMAIN users :
          /\ users[i] = [id |-> v, channel |-> where[v]]
          /\ \A j \in DOMAIN users : j > i => users[j].id # v
    BY <2>1, <2>2 DEF NewestEntryIsCurrent
  <2>4. users'[i] = [id |-> v, channel |-> where'[v]]
    BY <1>1, <1>4, <2>2, <2>3 DEF FirstWithId
  <2>5. \A j \in DOMAIN users' : j > i => users'[j].id # v
    BY <1>1, <1>4, <2>3, CacheConstants
  <2> QED BY <1>4, <2>4, <2>5
<1>6. EntriesAnnounced'
  BY <1>1, <1>2, <1>4, CacheConstants DEF EntriesAnnounced
<1> QED BY <1>3, <1>5, <1>6

(* Where a user listed in a GUILD_CREATE stands in the list.               *)
LEMMA ListedFacts ==
  ASSUME NEW vs, NEW v, v \in Listed(vs)
  PROVE  PositionOf(v, vs) \in DOMAIN vs /\ vs[PositionOf(v, vs)].id = v
BY DEF Listed, PositionOf

LEMMA CreateStep ==
  ASSUME CacheInv, NEW vs \in VoiceStateLists, GuildCreate(vs)
  PROVE  CacheInv'
<1>. USE DEF CacheInv
<1> DEFINE n == Len(users)
           m == Len(vs)
<1>1. /\ users' \in Seq(Entry) /\ Len(users') = n + m
      /\ m \in Nat \ {0} /\ DOMAIN vs = 1..m
      /\ \A i \in 1..m : /\ vs[i] \in VoiceState
                         /\ users'[n + i] = vs[i]
                         /\ \A j \in 1..m : vs[i].id = vs[j].id => i = j
      /\ \A i \in 1..n : users'[i] = IF users[i].id = Zero THEN vs[1] ELSE users[i]
  BY CreateFacts
<1>2. /\ \A v \in Users : where'[v] = IF v \in Listed(vs)
                                        THEN vs[PositionOf(v, vs)].channel ELSE where[v]
      /\ \A v \in Users : announced'[v] = announced[v] \cup
                            {vs[i].channel : i \in {j \in DOMAIN vs : vs[j].id = v}}
      /\ where' = [v \in Users |-> where'[v]]
      /\ announced' = [v \in Users |-> announced'[v]]
  BY DEF GuildCreate
<1>3. TypeOK'
  <2>1. \A v \in Users : where'[v] \in Channels \cup {Zero}
    BY <1>1, <1>2, ListedFacts DEF TypeOK, VoiceState
  <2>2. \A v \in Users : announced'[v] \in SUBSET Channels
    BY <1>1, <1>2 DEF TypeOK, VoiceState
  <2> QED BY <1>1, <1>2, <2>1, <2>2 DEF TypeOK
<1>4. /\ DOMAIN users = 1..n /\ n \in Nat
      /\ DOMAIN users' = 1..(n + m)
  BY <1>1, LenProperties DEF TypeOK
<1> HIDE DEF n, m
<1>5. \A j \in 1..(n + m) : j > n => j - n \in 1..m /\ users'[j] = vs[j - n]
  BY <1>1, <1>4
<1>6. NewestEntryIsCurrent'
  <2>1. SUFFICES ASSUME NEW v \in Users, where'[v] # Zero
                 PROVE  \E i \in DOMAIN users' :
                          /\ users'[i] = [id |-> v, channel |-> where'[v]]
                          /\ \A j \in DOMAIN users' : j > i => users'[j].id # v
    BY DEF NewestEntryIsCurrent
  <2>2. CASE v \in Listed(vs)
    <3>1. PICK p \in 1..m : vs[p].id = v /\ where'[v] = vs[p].channel
      BY <1>1, <1>2, <2>2, ListedFacts
    <3>2. users'[n + p] = [id |-> v, channel |-> where'[v]]
      BY <1>1, <3>1 DEF VoiceState
    <3>3. \A j \in 1..(n + m) : j > n + p => users'[j].id # v
      <4>1. SUFFICES ASSUME NEW j \in 1..(n + m), j > n + p PROVE users'[j].id # v
        OBVIOUS
      <4>2. j - n \in 1..m /\ j - n # p /\ users'[j] = vs[j - n]
        BY <1>4, <1>5, <4>1
      <4> QED BY <1>1, <3>1, <4>2
    <3>4. n + p \in 1..(n + m)
      BY <1>1, <1>4
    <3> QED BY <1>4, <3>2, <3>3, <3>4
  <2>3. CASE v \notin Listed(vs)
    <3>1. PICK i \in DOMAIN users :
            /\ users[i] = [id |-> v, channel |-> where[v]]
            /\ \A j \in DOMAIN users : j > i => users[j].id # v
      BY <1>2, <2>1, <2>3 DEF NewestEntryIsCurrent
    <3>2. \A k \in 1..m : vs[k].id # v
      BY <1>1, <2>3 DEF Listed
    <3>3. users'[i] = [id |-> v, channel |-> where'[v]]
      BY <1>1, <1>2, <1>4, <2>3, <3>1, CacheConstants
    <3>4. \A j \in 1..(n + m) : j > i => users'[j].id # v
      <4>1. SUFFICES ASSUME NEW j \in 1..(n + m), j > i PROVE users'[j].id # v
        OBVIOUS
      <4>2. CASE j > n
        BY <1>5, <3>2, <4>2
      <4>3. CASE j <= n
        BY <1>1, <1>4, <3>1, <3>2, <4>1, <4>3
      <4> QED BY <1>4, <4>2, <4>3
    <3> QED BY <1>1, <1>4, <3>3, <3>4
  <2> QED BY <2>2, <2>3
<1>7. EntriesAnnounced'
  <2>1. SUFFICES ASSUME NEW j \in 1..(n + m), users'[j].id \in Users
                 PROVE  users'[j].channel \in announced'[users'[j].id]
    BY <1>4 DEF EntriesAnnounced
  <2>2. ASSUME NEW k \in 1..m, users'[j] = vs[k]
        PROVE  users'[j].channel \in announced'[users'[j].id]
    BY <1>1, <1>2, <2>1, <2>2
  <2>3. CASE j <= n /\ users'[j] = users[j]
    BY <1>2, <1>4, <2>1, <2>3 DEF EntriesAnnounced
  <2> QED BY <1>1, <1>4, <1>5, <2>2, <2>3
<1> QED BY <1>3, <1>6, <1>7

LEMMA CacheStep == CacheInv /\ [Next]_vars => CacheInv'
<1> SUFFICES ASSUME CacheInv, [Next]_vars PROVE CacheInv'
  OBVIOUS
<1>1. CASE UNCHANGED vars
  BY <1>1 DEF vars, CacheInv, TypeOK, NewestEntryIsCurrent, EntriesAnnounced
<1>2. CASE Next
  BY <1>2, InStep, OutStep, CreateStep DEF Next
<1> QED BY <1>1, <1>2

-----------------------------------------------------------------------------
(* The cache keeps the truth about every user in its newest entries, and   *)
(* never mixes up the users' channels.                                     *)
THEOREM CacheInvariant == Spec => []CacheInv
<1>1. Init => CacheInv
  <2>1. SUFFICES ASSUME Init PROVE CacheInv
    OBVIOUS
  <2>2. users \in Seq(Entry) /\ DOMAIN users = {}
    BY <2>1 DEF Init
  <2> QED BY <2>1, <2>2 DEF Init, CacheInv, TypeOK, NewestEntryIsCurrent, EntriesAnnounced
<1>2. CacheInv /\ [Next]_vars => CacheInv'
  BY CacheStep
<1> QED BY <1>1, <1>2, PTL DEF Spec

(* The types of the cache.                                                 *)
THEOREM CacheTypeCorrect == Spec => []TypeOK
<1>1. CacheInv => TypeOK
  BY DEF CacheInv
<1> QED BY <1>1, CacheInvariant, PTL

(* Whatever joins, leaves and guilds went through the cache, its newest    *)
(* entry of a user in voice is current.                                    *)
THEOREM NewestIsCurrent == Spec => []NewestEntryIsCurrent
<1>1. CacheInv => NewestEntryIsCurrent
  BY DEF CacheInv
<1> QED BY <1>1, CacheInvariant, PTL

LEMMA PlausibleFromInv == CacheInv => LookupPlausible
<1> SUFFICES ASSUME CacheInv, NEW u \in Users
             PROVE  /\ where[u] # Zero => GetUser(u) # {}
                    /\ GetUser(u) \subseteq announced[u]
  BY DEF LookupPlausible
<1>. USE DEF CacheInv, TypeOK
<1>1. ASSUME where[u] # Zero PROVE GetUser(u) # {}
  <2>1. PICK k \in DOMAIN users : users[k] = [id |-> u, channel |-> where[u]]
    BY <1>1 DEF NewestEntryIsCurrent
  <2>2. FirstWithId(users, u) # {}
    BY <2>1, FirstExists
  <2> QED BY <2>2 DEF GetUser, Lookup
<1>2. GetUser(u) \subseteq announced[u]
  BY DEF GetUser, Lookup, FirstWithId, EntriesAnnounced
<1> QED BY <1>1, <1>2

(* A user in voice is found, in a channel announced for that user.         *)
THEOREM LookupIsPlausible == Spec => []LookupPlausible
BY PlausibleFromInv, CacheInvariant, PTL

-----------------------------------------------------------------------------
(* Entries that keep their place, and none of a user before them: the scan *)
(* stops where it did.                                                     *)
LEMMA SameLookup ==
  ASSUME NEW s \in Seq(Entry), NEW t \in Seq(Entry), NEW v, Len(s) <= Len(t),
         \A i \in 1..Len(s) : s[i].id = v \/ t[i].id = v => t[i] = s[i],
         FirstWithId(s, v) # {} \/ \A i \in 1..Len(t) : i > Len(s) => t[i].id # v
  PROVE  Lookup(t, v) = Lookup(s, v)
<1>1. /\ DOMAIN s = 1..Len(s) /\ Len(s) \in Nat
      /\ DOMAIN t = 1..Len(t) /\ Len(t) \in Nat
  BY LenProperties
<1>2. FirstWithId(s, v) \subseteq FirstWithId(t, v)
  BY <1>1 DEF FirstWithId
<1>3. FirstWithId(t, v) \subseteq FirstWithId(s, v)
  <2>1. CASE FirstWithId(s, v) # {}
    BY <1>2, <2>1, FirstUnique
  <2>2. CASE \A i \in 1..Len(t) : i > Len(s) => t[i].id # v
    BY <1>1, <2>2 DEF FirstWithId
  <2> QED BY <2>1, <2>2
<1>4. FirstWithId(t, v) = FirstWithId(s, v)
  BY <1>2, <1>3
<1>5. \A i \in FirstWithId(s, v) : t[i] = s[i]
  BY <1>1 DEF FirstWithId
<1> QED BY <1>4, <1>5 DEF Lookup

LEMMA NeverWorsensStep ==
  ASSUME CacheInv, [Next]_vars, NEW v \in Users, where'[v] = where[v]
  PROVE  GetUser(v)' \in {GetUser(v), {where[v]}}
<1>. USE DEF CacheInv, TypeOK
<1>0. DOMAIN users = 1..Len(users) /\ Len(users) \in Nat
  BY LenProperties
<1>1. SUFFICES Lookup(users', v) \in {Lookup(users, v), {where[v]}}
  BY DEF GetUser
<1>2. ASSUME where[v] # Zero PROVE FirstWithId(users, v) # {}
  <2>1. PICK k \in DOMAIN users : users[k] = [id |-> v, channel |-> where[v]]
    BY <1>2 DEF NewestEntryIsCurrent
  <2> QED BY <2>1, FirstExists
<1>3. ASSUME NEW u \in Users, NEW c \in Channels, VoiceStateIn(u, c)
      PROVE  Lookup(users', v) = Lookup(users, v)
  <2>1. /\ users' \in Seq(Entry) /\ Len(users') = Len(users) + 1
        /\ users'[Len(users) + 1] = [id |-> u, channel |-> c]
        /\ \A i \in 1..Len(users) :
             /\ users'[i].id = users[i].id
             /\ users[i].id # Zero => users'[i] = users[i]
    BY <1>3, InFacts
  <2>2. FirstWithId(users, v) # {} \/ \A i \in 1..Len(users') : i > Len(users) => users'[i].id # v
    <3>1. CASE v = u
      BY <1>2, <1>3, <3>1, CacheConstants DEF VoiceStateIn
    <3>2. CASE v # u
      BY <1>0, <2>1, <3>2
    <3> QED BY <3>1, <3>2
  <2>3. \A i \in 1..Len(users) : users[i].id = v \/ users'[i].id = v => users'[i] = users[i]
    BY <2>1, CacheConstants
  <2>4. Len(users) <= Len(users')
    BY <1>0, <2>1
  <2> QED BY <2>1, <2>2, <2>3, <2>4, SameLookup
<1>4. ASSUME NEW u \in Users, VoiceStateOut(u)
      PROVE  Lookup(users', v) = Lookup(users, v)
  <2>1. /\ users' \in Seq(Entry) /\ Len(users') = Len(users)
        /\ \A i \in 1..Len(users) :
             IF i \in FirstWithId(users, u)
               THEN users'[i] = [id |-> Zero, channel |-> Zero]
               ELSE users'[i] = users[i]
    BY <1>4, OutFacts
  <2>2. v # u
    BY <1>4 DEF VoiceStateOut
  <2>3. \A i \in 1..Len(users) : users[i].id = v \/ users'[i].id = v => users'[i] = users[i]
    BY <1>0, <2>1, <2>2, CacheConstants DEF FirstWithId
  <2>4. \A i \in 1..Len(users') : i > Len(users) => users'[i].id # v
    BY <1>0, <2>1
  <2>5. Len(users) <= Len(users')
    BY <1>0, <2>1
  <2> QED BY <2>1, <2>3, <2>4, <2>5, SameLookup
<1>5. ASSUME NEW vs \in VoiceStateLists, GuildCreate(vs)
      PROVE  Lookup(users', v) \in {Lookup(users, v), {where[v]}}
  <2>1. /\ users' \in Seq(Entry) /\ Len(users') = Len(users) + Len(vs)
        /\ Len(vs) \in Nat \ {0} /\ DOMAIN vs = 1..Len(vs)
        /\ \A i \in 1..Len(vs) : /\ vs[i] \in VoiceState
                                 /\ users'[Len(users) + i] = vs[i]
                                 /\ \A j \in 1..Len(vs) : vs[i].id = vs[j].id => i = j
        /\ \A i \in 1..Len(users) :
             users'[i] = IF users[i].id = Zero THEN vs[1] ELSE users[i]
    BY <1>5, CreateFacts
  <2>2. /\ DOMAIN users' = 1..Len(users') /\ Len(users) <= Len(users')
        /\ \A j \in 1..Len(users') :
             j > Len(users) => /\ j - Len(users) \in 1..Len(vs)
                               /\ users'[j] = vs[j - Len(users)]
    <3>1. DOMAIN users' = 1..Len(users')
      BY <2>1, LenProperties
    <3> QED BY <1>0, <2>1, <3>1
  <2>3. CASE v \notin Listed(vs)
    <3>1. \A k \in 1..Len(vs) : vs[k].id # v
      BY <2>1, <2>3 DEF Listed
    <3>2. \A i \in 1..Len(users) : users[i].id = v \/ users'[i].id = v => users'[i] = users[i]
      BY <2>1, <3>1, CacheConstants
    <3>3. \A j \in 1..Len(users') : j > Len(users) => users'[j].id # v
      BY <2>2, <3>1
    <3> QED BY <2>1, <2>2, <3>2, <3>3, SameLookup
  <2>4. CASE v \in Listed(vs)
    <3>1. PICK p \in 1..Len(vs) : vs[p].id = v /\ where[v] = vs[p].channel
      BY <1>5, <2>1, <2>4, ListedFacts DEF GuildCreate
    <3>2. FirstWithId(users, v) # {}
      BY <1>2, <2>1, <3>1, CacheConstants DEF VoiceState
    <3>3. CASE p # 1
      <4>1. vs[1].id # v
        BY <2>1, <3>1, <3>3
      <4>2. \A i \in 1..Len(users) : users[i].id = v \/ users'[i].id = v => users'[i] = users[i]
        BY <2>1, <4>1, CacheConstants
      <4>3. users' \in Seq(Entry) /\ Len(users) <= Len(users')
        BY <2>1, <2>2
      <4>4. Lookup(users', v) = Lookup(users, v)
        BY <3>2, <4>2, <4>3, SameLookup
      <4> QED BY <4>4
    <3>4. CASE p = 1
      <4>1. PICK k \in FirstWithId(users, v) : TRUE
        BY <3>2
      <4>2. k \in 1..Len(users) /\ users'[k].id = v /\ users'[k] = users[k]
        BY <1>0, <2>1, <4>1, CacheConstants DEF FirstWithId
      <4>3. PICK i \in FirstWithId(users', v) : TRUE
        <5>1. k \in DOMAIN users' /\ users' \in Seq(Entry)
          BY <1>0, <2>1, <2>2, <4>2
        <5>2. FirstWithId(users', v) # {}
          BY <4>2, <5>1, FirstExists
        <5> QED BY <5>2
      <4>4. Lookup(users', v) = {users'[i].channel}
        BY <2>1, FirstUnique DEF Lookup
      <4>5. Lookup(users, v) = {users[k].channel}
        BY FirstUnique DEF Lookup
      <4>6. i \in 1..Len(users') /\ users'[i].id = v /\ ~(k < i)
        BY <1>0, <2>2, <4>2 DEF FirstWithId
      <4>7. i \in 1..Len(users)
        BY <1>0, <4>2, <4>6
      <4>8. CASE users[i].id = Zero
        BY <2>1, <3>1, <3>4, <4>4, <4>7, <4>8
      <4>9. CASE users[i].id # Zero
        <5>1. users'[i] = users[i] /\ users[i].id = v
          BY <2>1, <4>6, <4>7, <4>9
        <5>2. i = k
          BY <1>0, <4>2, <4>6, <4>7, <5>1 DEF FirstWithId
        <5> QED BY <4>2, <4>4, <4>5, <5>2
      <4> QED BY <4>8, <4>9
    <3> QED BY <3>3, <3>4
  <2> QED BY <2>3, <2>4
<1>6. CASE UNCHANGED vars
  BY <1>6 DEF vars
<1> QED BY <1>3, <1>4, <1>5, <1>6 DEF Next

(* No event but its own makes the lookup of a user less accurate.          *)
THEOREM LookupStable == Spec => LookupNeverWorsens
<1>1. CacheInv /\ [Next]_vars =>
        [\A u \in Users :
           where'[u] = where[u] => GetUser(u)' \in {GetUser(u), {where[u]}}]_vars
  BY NeverWorsensStep
<1> QED BY <1>1, CacheInvariant, PTL DEF Spec, LookupNeverWorsens
=============================================================================
