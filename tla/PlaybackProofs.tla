--------------------------- MODULE PlaybackProofs ---------------------------
(***************************************************************************)
(* Proofs about Playback for any number of tracks, removals, stops, lost   *)
(* requests and closed websockets.                                         *)
(***************************************************************************)
EXTENDS Playback, SequenceTheorems, TLAPS

(* What is left of a queue without one of its entries.                     *)
LEMMA WithoutElements ==
  ASSUME NEW S, NEW q \in Seq(S), NEW pos \in Nat, pos < Len(q)
  PROVE  /\ Without(q, pos) \in Seq(S)
         /\ Len(Without(q, pos)) = Len(q) - 1
         /\ \A i \in 1..(Len(q) - 1) :
              Without(q, pos)[i] = IF i <= pos THEN q[i] ELSE q[i + 1]
<1> DEFINE l == SubSeq(q, 1, pos)
           r == SubSeq(q, pos + 2, Len(q))
<1>1. /\ l \in Seq(S) /\ Len(l) = pos
      /\ \A i \in 1..pos : l[i] = q[i]
  BY SubSeqProperties
<1>2. /\ r \in Seq(S) /\ Len(r) = Len(q) - 1 - pos
      /\ \A i \in 1..(Len(q) - 1 - pos) : r[i] = q[i + pos + 1]
  <2>1. /\ Len(q) \in Nat /\ pos + 2 \in Int
        /\ \A i \in (pos + 2)..Len(q) : q[i] \in S
    OBVIOUS
  <2>2. /\ r \in Seq(S)
        /\ Len(r) = IF pos + 2 <= Len(q) THEN Len(q) - (pos + 2) + 1 ELSE 0
        /\ \A i \in 1..(Len(q) - (pos + 2) + 1) : r[i] = q[pos + 2 + i - 1]
    BY <2>1, SubSeqProperties
  <2> QED BY <2>1, <2>2
<1>3. Without(q, pos) = l \o r
  BY DEF Without
<1> HIDE DEF l, r
<1>4. /\ l \o r \in Seq(S) /\ Len(l \o r) = Len(l) + Len(r)
      /\ \A i \in 1..(Len(l) + Len(r)) :
           (l \o r)[i] = IF i <= Len(l) THEN l[i] ELSE r[i - Len(l)]
  <2>1. l \in Seq(S) /\ r \in Seq(S)
    BY <1>1, <1>2
  <2> QED BY <2>1, ConcatProperties
<1>5. Len(q) \in Nat /\ Len(l) + Len(r) = Len(q) - 1
  BY <1>1, <1>2
<1>6. ASSUME NEW i \in 1..(Len(q) - 1)
      PROVE  (l \o r)[i] = IF i <= pos THEN q[i] ELSE q[i + 1]
  <2>1. CASE i <= pos
    BY <1>1, <1>4, <1>5, <2>1
  <2>2. CASE i > pos
    <3>1. i - pos \in 1..(Len(q) - 1 - pos) /\ i - pos + pos + 1 = i + 1
      BY <1>5, <2>2
    <3> QED BY <1>1, <1>2, <1>4, <1>5, <2>2, <3>1
  <2> QED BY <1>5, <2>1, <2>2
<1> QED BY <1>3, <1>4, <1>5, <1>6

(* A queue with new tracks at its end.                                     *)
LEMMA ExtendedQueue ==
  ASSUME TypeOK, NEW n \in Nat
  PROVE  /\ NewTracks(n) \in Seq(Nat \ {0}) /\ Len(NewTracks(n)) = n
         /\ \A i \in 1..n : NewTracks(n)[i] = added + i
         /\ queue \o NewTracks(n) \in Seq(Nat \ {0})
         /\ Len(queue \o NewTracks(n)) = Len(queue) + n
         /\ \A i \in 1..(Len(queue) + n) :
              (queue \o NewTracks(n))[i] =
                IF i <= Len(queue) THEN queue[i] ELSE added + i - Len(queue)
<1>1. /\ NewTracks(n) \in Seq(Nat \ {0}) /\ Len(NewTracks(n)) = n
      /\ \A i \in 1..n : NewTracks(n)[i] = added + i
  BY DEF NewTracks, TypeOK
<1>2. queue \in Seq(Nat \ {0}) /\ added \in Nat
  BY DEF TypeOK
<1> DEFINE new == NewTracks(n)
<1> HIDE DEF new
<1>3. /\ queue \o new \in Seq(Nat \ {0})
      /\ Len(queue \o new) = Len(queue) + Len(new)
      /\ \A i \in 1..(Len(queue) + Len(new)) :
           (queue \o new)[i] = IF i <= Len(queue) THEN queue[i] ELSE new[i - Len(queue)]
  <2>1. new \in Seq(Nat \ {0})
    BY <1>1 DEF new
  <2> QED BY <1>2, <2>1, ConcatProperties
<1>4. Len(new) = n /\ \A i \in 1..n : new[i] = added + i
  BY <1>1 DEF new
<1>5. ASSUME NEW i \in 1..(Len(queue) + n)
      PROVE  (queue \o new)[i] = IF i <= Len(queue) THEN queue[i] ELSE added + i - Len(queue)
  <2>1. Len(queue) \in Nat
    BY <1>2
  <2>2. CASE i > Len(queue)
    <3>1. i - Len(queue) \in 1..n
      BY <2>1, <2>2
    <3> QED BY <1>2, <1>3, <1>4, <2>1, <2>2, <3>1
  <2> QED BY <1>3, <1>4, <2>1, <2>2
<1> QED BY <1>1, <1>3, <1>4, <1>5 DEF new

(* Events stay events when the node sends another one.                     *)
LEMMA SentType ==
  ASSUME NEW s \in Seq(Event), NEW t \in Nat, NEW r \in Reasons
  PROVE  /\ Sent(s, t, r) \in Seq(Event)
         /\ t # NoTrack /\ online => Sent(s, t, r) = Append(s, [track |-> t, reason |-> r])
         /\ t = NoTrack \/ ~online => Sent(s, t, r) = s
<1>1. ASSUME t # NoTrack
      PROVE  Append(s, [track |-> t, reason |-> r]) \in Seq(Event)
  <2>1. [track |-> t, reason |-> r] \in Event
    BY <1>1 DEF Event, NoTrack
  <2> QED BY <2>1, AppendProperties
<1> QED BY <1>1 DEF Sent

(* A request starts its track or changes nothing but the events.           *)
LEMMA RequestFacts ==
  ASSUME TypeOK, NEW t \in Nat, NEW s \in Seq(Event), Request(t, s)
  PROVE  /\ playing' \in Nat /\ lastStarted' \in Nat
         /\ events' \in Seq(Event) /\ lost' \in BOOLEAN
         /\ \/ /\ playing' = t /\ lastStarted' = t
               /\ lost' = lost
               /\ playing = NoTrack => events' = s
            \/ playing' = playing /\ lastStarted' = lastStarted /\ lost' = TRUE /\ events' = s
<1>1. Sent(s, playing, "REPLACED") \in Seq(Event)
  BY SentType DEF TypeOK, Reasons
<1> QED BY <1>1, SentType DEF Request, TypeOK, Sent

-----------------------------------------------------------------------------
(* The invariant of any use, one lemma per action that starts tracks or    *)
(* changes the queue.                                                      *)
LEMMA PlayOrder ==
  ASSUME OrderInv, NEW n \in 1..MaxPlaylist, Play(n)
  PROVE  OrderInv' /\ (playing' # playing /\ playing' # NoTrack => playing' > lastStarted)
<1>. USE PlaybackConstants
<1>0. /\ TypeOK /\ n \in Nat /\ n > 0
      /\ added' = added + n /\ queue' = queue \o NewTracks(n) /\ online' = online
  BY DEF OrderInv, Play
<1>1. /\ queue' \in Seq(Nat \ {0}) /\ Len(queue') = Len(queue) + n
      /\ \A i \in 1..(Len(queue) + n) :
           queue'[i] = IF i <= Len(queue) THEN queue[i] ELSE added + i - Len(queue)
  BY <1>0, ExtendedQueue
<1>2. CASE queue = <<>> /\ Request(added + 1, events)
  <2>0. added + 1 \in Nat /\ events \in Seq(Event) /\ Request(added + 1, events)
    BY <1>0, <1>2 DEF TypeOK
  <2>1. /\ playing' \in Nat /\ lastStarted' \in Nat
        /\ events' \in Seq(Event) /\ lost' \in BOOLEAN
        /\ \/ playing' = added + 1 /\ lastStarted' = added + 1
           \/ playing' = playing /\ lastStarted' = lastStarted
    BY <1>0, <2>0, RequestFacts
  <2>2. TypeOK' /\ lastStarted' <= added' /\ (playing' # NoTrack => playing' = lastStarted')
    BY <1>0, <1>1, <2>1 DEF OrderInv, TypeOK
  <2>3. QueueInOrder'
    BY <1>0, <1>1, <1>2, <2>1 DEF OrderInv, TypeOK, QueueInOrder
  <2> QED BY <1>0, <2>1, <2>2, <2>3 DEF OrderInv, TypeOK
<1>3. CASE UNCHANGED <<nodeVars, lost>>
  <2>1. TypeOK'
    BY <1>0, <1>1, <1>3 DEF TypeOK, nodeVars
  <2>2. QueueInOrder'
    <3>1. /\ Len(queue) \in Nat /\ added \in Nat /\ lastStarted \in Nat
          /\ DOMAIN queue = 1..Len(queue) /\ DOMAIN queue' = 1..(Len(queue) + n)
          /\ lastStarted' = lastStarted /\ lastStarted <= added
          /\ \A i \in DOMAIN queue : queue[i] \in Nat
      BY <1>0, <1>1, <1>3 DEF OrderInv, TypeOK, nodeVars
    <3>2. \A i \in DOMAIN queue' : queue'[i] <= added'
      BY <1>0, <1>1, <3>1 DEF OrderInv, QueueInOrder
    <3>3. \A i, j \in DOMAIN queue' : i < j => queue'[i] < queue'[j]
      BY <1>0, <1>1, <3>1 DEF OrderInv, QueueInOrder
    <3>4. \A i \in DOMAIN queue' : i > 1 => queue'[i] > lastStarted'
      BY <1>0, <1>1, <3>1 DEF OrderInv, QueueInOrder
    <3> QED BY <3>2, <3>3, <3>4 DEF QueueInOrder
  <2> QED BY <1>0, <1>3, <2>1, <2>2 DEF OrderInv, TypeOK, nodeVars
<1> QED BY <1>2, <1>3 DEF Play

(* Taking one entry out keeps the order, and only the head can have been   *)
(* started.                                                                *)
LEMMA WithoutOrder ==
  ASSUME OrderInv, NEW pos \in Nat, pos < Len(queue)
  PROVE  LET q == Without(queue, pos) IN
         /\ q \in Seq(Nat \ {0}) /\ Len(q) = Len(queue) - 1
         /\ \A i \in DOMAIN q : q[i] <= added
         /\ \A i, j \in DOMAIN q : i < j => q[i] < q[j]
         /\ \A i \in DOMAIN q : i > 1 => q[i] > lastStarted
         /\ pos = 0 /\ q # <<>> => q[1] > lastStarted
<1> DEFINE q == Without(queue, pos)
<1>1. queue \in Seq(Nat \ {0}) /\ added \in Nat /\ lastStarted \in Nat
  BY DEF OrderInv, TypeOK
<1>2. /\ q \in Seq(Nat \ {0}) /\ Len(q) = Len(queue) - 1
      /\ \A i \in 1..(Len(queue) - 1) :
           q[i] = IF i <= pos THEN queue[i] ELSE queue[i + 1]
  BY <1>1, WithoutElements
<1>3. DOMAIN q = 1..(Len(queue) - 1) /\ DOMAIN queue = 1..Len(queue)
  BY <1>1, <1>2
<1> HIDE DEF q
<1>4. Len(queue) \in Nat /\ \A i \in DOMAIN queue : queue[i] \in Nat
  BY <1>1
<1>5. /\ \A i \in DOMAIN queue : queue[i] <= added
      /\ \A i, j \in DOMAIN queue : i < j => queue[i] < queue[j]
      /\ \A i \in DOMAIN queue : i > 1 => queue[i] > lastStarted
  BY DEF OrderInv, QueueInOrder
<1>6. \A i \in DOMAIN q :
        \/ i <= pos /\ i \in DOMAIN queue /\ q[i] = queue[i]
        \/ i > pos /\ i + 1 \in DOMAIN queue /\ q[i] = queue[i + 1]
  BY <1>2, <1>3, <1>4
<1>7. \A i \in DOMAIN q : q[i] <= added
  BY <1>5, <1>6
<1>8. \A i, j \in DOMAIN q : i < j => q[i] < q[j]
  <2> SUFFICES ASSUME NEW i \in DOMAIN q, NEW j \in DOMAIN q, i < j
               PROVE  q[i] < q[j]
    OBVIOUS
  <2>1. i \in Nat /\ j \in Nat
    BY <1>3, <1>4
  <2> QED BY <1>5, <1>6, <2>1
<1>9. \A i \in DOMAIN q : i > 1 => q[i] > lastStarted
  <2> SUFFICES ASSUME NEW i \in DOMAIN q, i > 1
               PROVE  q[i] > lastStarted
    OBVIOUS
  <2>1. i \in Nat
    BY <1>3, <1>4
  <2> QED BY <1>5, <1>6, <2>1
<1>10. pos = 0 /\ q # <<>> => q[1] > lastStarted
  <2> SUFFICES ASSUME pos = 0, q # <<>>
               PROVE  q[1] > lastStarted
    OBVIOUS
  <2>1. 1 \in DOMAIN q
    BY <1>2, <1>3, <1>4
  <2>2. 2 \in DOMAIN queue /\ q[1] = queue[2]
    BY <1>6, <2>1
  <2> QED BY <1>5, <2>2
<1> QED BY <1>2, <1>7, <1>8, <1>9, <1>10 DEF q

LEMMA TrackEndOrder ==
  ASSUME OrderInv, TrackEnd
  PROVE  OrderInv' /\ (playing' # playing /\ playing' # NoTrack => playing' > lastStarted)
<1>0. /\ TypeOK /\ events # <<>> /\ added' = added /\ online' = online
      /\ Tail(events) \in Seq(Event)
  BY HeadTailProperties DEF OrderInv, TypeOK, TrackEnd
<1>1. CASE /\ queue # <<>> /\ queue' = Without(queue, 0)
           /\ IF queue' # <<>>
                THEN Request(queue'[1], Tail(events))
                ELSE events' = Tail(events) /\ UNCHANGED <<playing, lastStarted, lost>>
  <2>1. 0 < Len(queue)
    BY <1>0, <1>1 DEF TypeOK
  <2>2. /\ queue' \in Seq(Nat \ {0}) /\ Len(queue') = Len(queue) - 1
        /\ \A i \in DOMAIN queue' : queue'[i] <= added
        /\ \A i, j \in DOMAIN queue' : i < j => queue'[i] < queue'[j]
        /\ \A i \in DOMAIN queue' : i > 1 => queue'[i] > lastStarted
        /\ queue' # <<>> => queue'[1] > lastStarted
    BY <1>1, <2>1, WithoutOrder
  <2>3. CASE queue' # <<>> /\ Request(queue'[1], Tail(events))
    <3>1. queue'[1] \in Nat \ {0} /\ 1 \in DOMAIN queue'
      BY <2>2, <2>3
    <3>2. /\ playing' \in Nat /\ lastStarted' \in Nat
          /\ events' \in Seq(Event) /\ lost' \in BOOLEAN
          /\ \/ playing' = queue'[1] /\ lastStarted' = queue'[1]
             \/ playing' = playing /\ lastStarted' = lastStarted
      BY <1>0, <2>3, <3>1, RequestFacts
    <3>3. TypeOK'
      BY <1>0, <2>2, <3>2 DEF TypeOK
    <3>4. \A i \in DOMAIN queue' : i > 1 => queue'[i] > lastStarted'
      BY <2>2, <3>1, <3>2
    <3> QED BY <1>0, <2>2, <2>3, <3>1, <3>2, <3>3, <3>4 DEF OrderInv, QueueInOrder, TypeOK
  <2>4. CASE events' = Tail(events) /\ UNCHANGED <<playing, lastStarted, lost>>
    BY <1>0, <2>2, <2>4 DEF OrderInv, QueueInOrder, TypeOK
  <2> QED BY <1>1, <2>3, <2>4
<1>2. CASE events' = Tail(events) /\ UNCHANGED <<queue, playing, lastStarted, lost>>
  BY <1>0, <1>2 DEF OrderInv, QueueInOrder, TypeOK
<1> QED BY <1>1, <1>2 DEF TrackEnd

LEMMA NodeEndsOrder ==
  ASSUME OrderInv, NEW reason \in Reasons, NodeEnds(reason)
  PROVE  OrderInv' /\ playing' = NoTrack
<1>1. Sent(events, playing, reason) \in Seq(Event)
  BY SentType DEF OrderInv, TypeOK
<1> QED BY <1>1 DEF OrderInv, TypeOK, QueueInOrder, NodeEnds, clientVars, NoTrack

(* The order of the queue and of the starts, in any use.                   *)
LEMMA OrderStep ==
  ASSUME OrderInv, [Next]_vars
  PROVE  OrderInv' /\ (playing' # playing /\ playing' # NoTrack => playing' > lastStarted)
<1>. USE PlaybackConstants
<1>1. ASSUME NEW n \in 1..MaxPlaylist, Play(n)
      PROVE  OrderInv' /\ (playing' # playing /\ playing' # NoTrack => playing' > lastStarted)
  BY <1>1, PlayOrder
<1>2. ASSUME NEW pos \in 0..(MaxTracks - 1), RemoveTrack(pos)
      PROVE  OrderInv' /\ playing' = playing
  <2>1. /\ pos \in Nat /\ pos < Len(queue) /\ queue' = Without(queue, pos)
        /\ UNCHANGED <<added, nodeVars, online, lost>>
    BY <1>2 DEF RemoveTrack
  <2>2. /\ queue' \in Seq(Nat \ {0})
        /\ \A i \in DOMAIN queue' : queue'[i] <= added
        /\ \A i, j \in DOMAIN queue' : i < j => queue'[i] < queue'[j]
        /\ \A i \in DOMAIN queue' : i > 1 => queue'[i] > lastStarted
    BY <2>1, WithoutOrder
  <2> QED BY <2>1, <2>2 DEF OrderInv, QueueInOrder, TypeOK, nodeVars
<1>3. ASSUME Stop
      PROVE  OrderInv' /\ playing' \in {playing, NoTrack}
  <2>1. Sent(events, playing, "STOPPED") \in Seq(Event)
    BY SentType DEF OrderInv, TypeOK, Reasons
  <2>2. queue' = <<>> /\ added' = added /\ lastStarted' = lastStarted /\ online' = online
    BY <1>3 DEF Stop
  <2>3. \/ playing' = NoTrack /\ events' = Sent(events, playing, "STOPPED") /\ lost' = lost
        \/ lost' = TRUE /\ playing' = playing /\ events' = events
    BY <1>3 DEF Stop
  <2>4. TypeOK'
    <3>1. queue' \in Seq(Nat \ {0})
      BY <2>2, EmptySeq
    <3>2. events' \in Seq(Event)
      BY <2>1, <2>3 DEF OrderInv, TypeOK
    <3>3. playing' \in Nat
      BY <2>3 DEF OrderInv, TypeOK, NoTrack
    <3>4. added' \in Nat /\ lastStarted' \in Nat /\ online' \in BOOLEAN
      BY <2>2 DEF OrderInv, TypeOK
    <3>5. lost' \in BOOLEAN
      BY <2>3 DEF OrderInv, TypeOK
    <3> QED BY <3>1, <3>2, <3>3, <3>4, <3>5 DEF TypeOK
  <2>5. QueueInOrder'
    BY <2>2 DEF QueueInOrder
  <2> QED BY <2>2, <2>3, <2>4, <2>5 DEF OrderInv, NoTrack
<1>4. ASSUME TrackFinishes \/ NodeCleansUp
      PROVE  OrderInv' /\ playing' = NoTrack
  BY <1>4, NodeEndsOrder DEF TrackFinishes, NodeCleansUp, Reasons
<1>5. ASSUME SocketCloses
      PROVE  OrderInv' /\ playing' = playing
  <2>1. <<>> \in Seq(Event)
    BY EmptySeq
  <2> QED BY <1>5, <2>1 DEF SocketCloses, OrderInv, TypeOK, QueueInOrder, clientVars
<1>6. ASSUME TrackEnd
      PROVE  OrderInv' /\ (playing' # playing /\ playing' # NoTrack => playing' > lastStarted)
  BY <1>6, TrackEndOrder
<1>7. ASSUME UNCHANGED vars
      PROVE  OrderInv' /\ playing' = playing
  BY <1>7 DEF OrderInv, TypeOK, QueueInOrder, vars, clientVars, nodeVars
<1> QED BY <1>1, <1>2, <1>3, <1>4, <1>5, <1>6, <1>7 DEF Next

LEMMA OrderInit == Init => OrderInv
<1>1. <<>> \in Seq(Nat \ {0}) /\ <<>> \in Seq(Event)
  BY EmptySeq
<1>2. Init => TypeOK
  <2>1. Init => queue \in Seq(Nat \ {0}) /\ events \in Seq(Event)
    BY <1>1, Zenon DEF Init
  <2>2. Init => added \in Nat /\ playing \in Nat /\ lastStarted \in Nat
    BY DEF Init, NoTrack
  <2>3. Init => online \in BOOLEAN /\ lost \in BOOLEAN
    BY DEF Init
  <2> QED BY <2>1, <2>2, <2>3 DEF TypeOK
<1>3. Init => QueueInOrder
  BY DEF Init, QueueInOrder
<1> QED BY <1>2, <1>3 DEF Init, OrderInv, NoTrack

(* The strengthened order invariant, whatever the application removes or   *)
(* stops and whatever is lost.                                             *)
THEOREM OrderInvariant == Spec => []OrderInv
BY OrderInit, OrderStep, PTL DEF Spec

(* Type correctness.                                                       *)
THEOREM PlaybackTypeCorrect == Spec => []TypeOK
<1>1. OrderInv => TypeOK
  BY DEF OrderInv
<1> QED BY <1>1, OrderInvariant, PTL

(* The queue keeps the order of addition; only its head may have started.  *)
THEOREM QueueKeepsOrder == Spec => []QueueInOrder
<1>1. OrderInv => QueueInOrder
  BY DEF OrderInv
<1> QED BY <1>1, OrderInvariant, PTL

(* Tracks start in the order of their addition, and never a second time.   *)
THEOREM TracksStartInOrder == Spec => StartsInOrder
<1>1. OrderInv /\ [Next]_vars =>
        [playing' # playing /\ playing' # NoTrack => playing' > lastStarted]_vars
  BY OrderStep
<1> QED BY <1>1, OrderInvariant, PTL DEF Spec, StartsInOrder

-----------------------------------------------------------------------------
(* The invariant of an application that follows example.c.                 *)

(* What HeadInv says of an idle player, a playing one and one whose end is *)
(* on its way.                                                             *)
LEMMA HeadFacts ==
  ASSUME HeadInv
  PROVE  /\ TypeOK /\ OrderInv
         /\ queue = <<>> => playing = NoTrack /\ events = <<>>
         /\ playing # NoTrack =>
              queue # <<>> /\ playing = queue[1] /\ queue[1] = lastStarted /\ events = <<>>
         /\ events # <<>> =>
              /\ playing = NoTrack /\ Tail(events) = <<>>
              /\ queue # <<>> /\ queue[1] <= lastStarted
              /\ Head(events) = events[1]
              /\ Advances(events[1].reason) \/ lost
<1>1. ASSUME events # <<>>
      PROVE  Tail(events) = <<>> /\ Head(events) = events[1]
  <2>1. events \in Seq(Event) /\ Len(events) = 1
    BY <1>1 DEF HeadInv, OrderInv, TypeOK, PlayingIsHead
  <2>2. Len(Tail(events)) = 0 /\ Tail(events) \in Seq(Event)
    BY <1>1, <2>1, HeadTailProperties
  <2>3. Tail(events) = <<>>
    BY <2>2, EmptySeq
  <2>4. Head(events) = events[1]
    BY <2>1
  <2> QED BY <2>3, <2>4
<1> QED BY <1>1 DEF HeadInv, OrderInv, PlayingIsHead, EventsSettled

(* What each action does to a player whose application follows example.c.  *)
LEMMA PlayFacts ==
  ASSUME HeadInv, NEW n \in 1..MaxPlaylist, Play(n)
  PROVE  /\ n \in Nat \ {0} /\ added' = added + n /\ added + n <= MaxTracks
         /\ queue' = queue \o NewTracks(n) /\ queue' # <<>>
         /\ \/ /\ queue # <<>> /\ queue'[1] = queue[1]
               /\ UNCHANGED <<playing, lastStarted, events, lost>>
            \/ /\ queue = <<>> /\ queue'[1] = added + 1 /\ queue' = NewTracks(n)
               /\ playing = NoTrack /\ events' = <<>>
               /\ \/ playing' = added + 1 /\ lastStarted' = added + 1
                  \/ playing' = playing /\ lastStarted' = lastStarted /\ lost' = TRUE
<1>. USE PlaybackConstants
<1>1. /\ n \in Nat \ {0} /\ added' = added + n /\ added + n <= MaxTracks
      /\ queue' = queue \o NewTracks(n)
  BY DEF Play
<1>2. /\ TypeOK /\ queue \in Seq(Nat \ {0}) /\ added \in Nat
      /\ Len(queue') = Len(queue) + n /\ queue' \in Seq(Nat \ {0})
      /\ \A i \in 1..(Len(queue) + n) :
           queue'[i] = IF i <= Len(queue) THEN queue[i] ELSE added + i - Len(queue)
      /\ NewTracks(n) \in Seq(Nat \ {0})
  BY <1>1, HeadFacts, ExtendedQueue DEF TypeOK
<1>3. Len(queue) \in Nat /\ queue' # <<>>
  BY <1>1, <1>2
<1>4. CASE queue # <<>>
  <2>1. Len(queue) > 0
    BY <1>2, <1>4
  <2>2. 1 \in 1..(Len(queue) + n) /\ 1 <= Len(queue)
    BY <1>1, <1>3, <2>1
  <2>3. queue'[1] = queue[1]
    BY <1>2, <2>2
  <2> QED BY <1>1, <1>3, <1>4, <2>3 DEF Play, nodeVars
<1>5. CASE queue = <<>>
  <2>1. playing = NoTrack /\ events = <<>> /\ Len(queue) = 0
    BY <1>5, HeadFacts
  <2>2. queue'[1] = added + 1
    BY <1>1, <1>2, <2>1
  <2>3. queue' = NewTracks(n)
    BY <1>1, <1>2, <1>5, ConcatEmptySeq
  <2>4. added + 1 \in Nat /\ events \in Seq(Event) /\ Request(added + 1, events)
    BY <1>2, <1>5 DEF TypeOK, Play
  <2>5. /\ events' = <<>>
        /\ \/ playing' = added + 1 /\ lastStarted' = added + 1
           \/ playing' = playing /\ lastStarted' = lastStarted /\ lost' = TRUE
    BY <1>2, <2>1, <2>4, RequestFacts
  <2> QED BY <1>1, <1>3, <1>5, <2>1, <2>2, <2>3, <2>5
<1> QED BY <1>4, <1>5

LEMMA RemoveTrackFacts ==
  ASSUME FollowsExample, HeadInv, NEW pos \in 0..(MaxTracks - 1), RemoveTrack(pos)
  PROVE  /\ pos \in Nat /\ pos > 0 /\ pos < Len(queue)
         /\ queue # <<>> /\ queue' # <<>> /\ queue'[1] = queue[1]
         /\ queue' \in Seq(Nat \ {0}) /\ Len(queue') = Len(queue) - 1
         /\ \A i \in 1..(Len(queue) - 1) :
              queue'[i] = IF i <= pos THEN queue[i] ELSE queue[i + 1]
         /\ UNCHANGED <<added, playing, lastStarted, events, lost>>
<1>1. /\ pos \in Nat /\ pos > 0 /\ pos < Len(queue)
      /\ queue' = Without(queue, pos)
      /\ UNCHANGED <<added, playing, lastStarted, events, lost>>
  BY PlaybackConstants DEF FollowsExample, RemoveTrack, nodeVars
<1>2. queue \in Seq(Nat \ {0})
  BY HeadFacts DEF TypeOK
<1>3. /\ queue' \in Seq(Nat \ {0}) /\ Len(queue') = Len(queue) - 1
      /\ \A i \in 1..(Len(queue) - 1) :
           queue'[i] = IF i <= pos THEN queue[i] ELSE queue[i + 1]
  BY <1>1, <1>2, WithoutElements
<1>4. 1 \in 1..(Len(queue) - 1) /\ queue # <<>> /\ queue' # <<>>
  BY <1>1, <1>2, <1>3
<1> QED BY <1>1, <1>3, <1>4

LEMMA NodeEndsFacts ==
  ASSUME HeadInv, NEW reason \in Reasons, NodeEnds(reason), Advances(reason) \/ reason = "CLEANUP"
  PROVE  /\ playing # NoTrack /\ playing' = NoTrack
         /\ queue # <<>> /\ queue[1] = lastStarted
         /\ UNCHANGED <<queue, added, lastStarted>>
         /\ \/ /\ events' # <<>> /\ Len(events') = 1
               /\ events'[1].track = queue[1]
               /\ Advances(events'[1].reason) \/ lost'
            \/ events' = <<>> /\ lost' = TRUE
<1>1. /\ playing # NoTrack /\ playing' = NoTrack
      /\ queue # <<>> /\ playing = queue[1] /\ queue[1] = lastStarted /\ events = <<>>
      /\ UNCHANGED <<queue, added, lastStarted>>
  BY HeadFacts DEF NodeEnds, clientVars
<1>2. /\ events' = Sent(events, playing, reason)
      /\ lost' = (lost \/ ~online \/ reason = "CLEANUP")
  BY DEF NodeEnds
<1>3. CASE online
  <2>1. events' = <<[track |-> playing, reason |-> reason]>>
    BY <1>1, <1>2, <1>3 DEF Sent
  <2>2. /\ events' # <<>> /\ Len(events') = 1
        /\ events'[1].track = playing /\ events'[1].reason = reason
    BY <2>1
  <2>3. Advances(reason) \/ lost'
    BY <1>2
  <2> QED BY <1>1, <2>2, <2>3
<1>4. CASE ~online
  BY <1>1, <1>2, <1>4 DEF Sent
<1> QED BY <1>3, <1>4

LEMMA TrackEndFacts ==
  ASSUME HeadInv, TrackEnd
  PROVE  /\ playing = NoTrack /\ events' = <<>> /\ added' = added
         /\ queue # <<>> /\ queue[1] <= lastStarted
         /\ \/ /\ queue' = Without(queue, 0)
               /\ \/ /\ queue' # <<>> /\ playing' = queue'[1] /\ lastStarted' = queue'[1]
                  \/ /\ playing' = playing /\ lastStarted' = lastStarted
                     /\ queue' # <<>> => lost' = TRUE
            \/ /\ lost /\ UNCHANGED <<queue, playing, lastStarted, lost>>
<1>1. /\ TypeOK /\ events # <<>> /\ playing = NoTrack /\ Tail(events) = <<>>
      /\ queue # <<>> /\ queue[1] <= lastStarted /\ added' = added
      /\ Head(events) = events[1]
      /\ Advances(events[1].reason) \/ lost
  BY HeadFacts DEF TrackEnd
<1>2. <<>> \in Seq(Event) /\ queue \in Seq(Nat \ {0})
  BY <1>1, EmptySeq DEF TypeOK
<1>3. PICK reason \in Parsed(Head(events).reason) :
        \/ /\ queue # <<>> /\ Advances(reason)
           /\ queue' = Without(queue, 0)
           /\ IF queue' # <<>>
                THEN Request(queue'[1], Tail(events))
                ELSE events' = Tail(events) /\ UNCHANGED <<playing, lastStarted, lost>>
        \/ /\ queue = <<>> \/ ~Advances(reason)
           /\ events' = Tail(events)
           /\ UNCHANGED <<queue, playing, lastStarted, lost>>
  BY DEF TrackEnd
<1>4. CASE queue' = Without(queue, 0) /\ queue' # <<>> /\ Request(queue'[1], <<>>)
  <2>1. queue' \in Seq(Nat \ {0})
    BY <1>1, <1>2, <1>4, WithoutElements
  <2>2. queue'[1] \in Nat
    BY <1>4, <2>1
  <2>3. /\ events' = <<>>
        /\ \/ playing' = queue'[1] /\ lastStarted' = queue'[1]
           \/ playing' = playing /\ lastStarted' = lastStarted /\ lost' = TRUE
    BY <1>1, <1>2, <1>4, <2>2, RequestFacts
  <2> QED BY <1>1, <1>4, <2>3
<1>5. CASE /\ queue' = Without(queue, 0) /\ queue' = <<>>
           /\ events' = <<>> /\ UNCHANGED <<playing, lastStarted, lost>>
  BY <1>1, <1>5
<1>6. CASE /\ ~Advances(reason) /\ events' = <<>>
           /\ UNCHANGED <<queue, playing, lastStarted, lost>>
  <2>1. ~Advances(events[1].reason)
    BY <1>1, <1>3, <1>6 DEF Parsed, Advances
  <2> QED BY <1>1, <1>6, <2>1
<1> QED BY <1>1, <1>3, <1>4, <1>5, <1>6


LEMMA HeadInit == Init => HeadInv
BY OrderInit DEF Init, HeadInv, PlayingIsHead, StalledOnlyAfterLoss, Stalled,
                 EventsSettled, NoTrack

LEMMA HeadStep ==
  ASSUME FollowsExample, HeadInv, [Next]_vars
  PROVE  HeadInv'
<1>0. OrderInv'
  BY OrderStep DEF HeadInv
<1>. SUFFICES PlayingIsHead' /\ StalledOnlyAfterLoss' /\ EventsSettled'
  BY <1>0 DEF HeadInv
<1>. USE DEF PlayingIsHead, StalledOnlyAfterLoss, Stalled, EventsSettled
<1>1. ASSUME NEW n \in 1..MaxPlaylist, Play(n)
      PROVE  PlayingIsHead' /\ StalledOnlyAfterLoss' /\ EventsSettled'
  <2>1. CASE /\ queue # <<>> /\ queue' # <<>> /\ queue'[1] = queue[1]
             /\ UNCHANGED <<playing, lastStarted, events, lost>>
    BY <2>1 DEF HeadInv
  <2>2. CASE /\ queue' # <<>> /\ queue'[1] = added + 1
             /\ playing = NoTrack /\ events' = <<>>
             /\ \/ playing' = added + 1 /\ lastStarted' = added + 1
                \/ playing' = playing /\ lost' = TRUE
    <3>1. added \in Nat
      BY HeadFacts DEF TypeOK
    <3> QED BY <2>2, <3>1 DEF NoTrack
  <2> QED BY <1>1, <2>1, <2>2, PlayFacts
<1>2. ASSUME NEW pos \in 0..(MaxTracks - 1), RemoveTrack(pos)
      PROVE  PlayingIsHead' /\ StalledOnlyAfterLoss' /\ EventsSettled'
  <2>1. /\ queue # <<>> /\ queue' # <<>> /\ queue'[1] = queue[1]
        /\ UNCHANGED <<playing, lastStarted, events, lost>>
    BY <1>2, RemoveTrackFacts
  <2> QED BY <2>1 DEF HeadInv
<1>3. ASSUME NEW reason \in Reasons, NodeEnds(reason),
             Advances(reason) \/ reason = "CLEANUP"
      PROVE  PlayingIsHead' /\ StalledOnlyAfterLoss' /\ EventsSettled'
  <2>1. /\ playing' = NoTrack /\ queue' # <<>> /\ queue'[1] = queue[1]
        /\ queue'[1] = lastStarted' /\ lastStarted' \in Nat
        /\ \/ /\ events' # <<>> /\ Len(events') = 1
              /\ events'[1].track = queue'[1]
              /\ Advances(events'[1].reason) \/ lost'
           \/ events' = <<>> /\ lost' = TRUE
    BY <1>3, NodeEndsFacts, HeadFacts DEF TypeOK
  <2> QED BY <2>1
<1>4. TrackFinishes \/ NodeCleansUp => PlayingIsHead' /\ StalledOnlyAfterLoss' /\ EventsSettled'
  BY <1>3 DEF TrackFinishes, NodeCleansUp, Reasons, Advances
<1>5. ASSUME SocketCloses
      PROVE  PlayingIsHead' /\ StalledOnlyAfterLoss' /\ EventsSettled'
  BY <1>5 DEF SocketCloses, clientVars, HeadInv
<1>6. ASSUME TrackEnd
      PROVE  PlayingIsHead' /\ StalledOnlyAfterLoss' /\ EventsSettled'
  <2>1. /\ playing = NoTrack /\ events' = <<>>
        /\ \/ queue' # <<>> /\ playing' = queue'[1]
           \/ playing' = playing /\ (queue' # <<>> => lost' = TRUE)
           \/ playing' = playing /\ lost' = TRUE
    <3>1. CASE lost /\ UNCHANGED <<queue, playing, lastStarted, lost>>
      <4>1. lost' = TRUE
        BY <3>1, HeadFacts DEF TypeOK
      <4> QED BY <1>6, <3>1, <4>1, TrackEndFacts
    <3> QED BY <1>6, <3>1, TrackEndFacts
  <2>2. queue' # <<>> => queue'[1] # NoTrack
    <3>1. queue' \in Seq(Nat \ {0})
      BY <1>0 DEF OrderInv, TypeOK
    <3> QED BY <3>1 DEF NoTrack
  <2> QED BY <2>1, <2>2
<1>7. ASSUME UNCHANGED vars
      PROVE  PlayingIsHead' /\ StalledOnlyAfterLoss' /\ EventsSettled'
  BY <1>7 DEF HeadInv, vars, clientVars, nodeVars
<1>8. ~Stop
  BY DEF FollowsExample, Stop
<1> QED BY <1>1, <1>2, <1>4, <1>5, <1>6, <1>7, <1>8 DEF Next

(* The strengthened invariant of an application that follows example.c.    *)
THEOREM HeadInvariant ==
  ASSUME FollowsExample
  PROVE  Spec => []HeadInv
<1>1. HeadInv /\ [Next]_vars => HeadInv'
  BY HeadStep
<1> QED BY <1>1, HeadInit, PTL DEF Spec

(* The node plays the head of the queue, and the one TRACK_END on its way  *)
(* is that of the head: the handler, which does not compare the track that *)
(* ended with the head, removes the right one.                             *)
THEOREM HeadIsPlayed ==
  ASSUME FollowsExample
  PROVE  Spec => []PlayingIsHead
<1>1. HeadInv => PlayingIsHead
  BY DEF HeadInv
<1> QED BY <1>1, HeadInvariant, PTL

(* A player stalls only after a lost request or a lost end.                *)
THEOREM StallNeedsLoss ==
  ASSUME FollowsExample
  PROVE  Spec => []StalledOnlyAfterLoss
<1>1. HeadInv => StalledOnlyAfterLoss
  BY DEF HeadInv
<1> QED BY <1>1, HeadInvariant, PTL


(* A track that plays is never cut off: while one plays, no step requests  *)
(* another.                                                                *)
THEOREM NothingInterrupts ==
  ASSUME FollowsExample
  PROVE  Spec => NoInterruption
<1>1. ASSUME HeadInv, [Next]_vars, playing # NoTrack
      PROVE  playing' \in {playing, NoTrack}
  <2>1. queue # <<>> /\ events = <<>>
    BY <1>1, HeadFacts
  <2>2. ASSUME NEW n \in 1..MaxPlaylist, Play(n)
        PROVE  playing' = playing
    BY <1>1, <2>1, <2>2, PlayFacts
  <2>3. ~TrackEnd
    BY <2>1 DEF TrackEnd
  <2> QED BY <1>1, <2>2, <2>3 DEF Next, RemoveTrack, Stop, TrackFinishes, NodeCleansUp,
             NodeEnds, SocketCloses, vars, nodeVars, FollowsExample
<1>2. HeadInv /\ [Next]_vars =>
        [playing # NoTrack => playing' \in {playing, NoTrack}]_vars
  BY <1>1
<1> QED BY <1>2, HeadInvariant, PTL DEF Spec, NoInterruption

(* Nothing resumes a stalled player: neither a new track nor the node.     *)
THEOREM StallsForever ==
  ASSUME FollowsExample
  PROVE  Spec => StallIsPermanent
<1>1. ASSUME HeadInv, [Next]_vars, Stalled
      PROVE  Stalled'
  <2>1. queue # <<>> /\ playing = NoTrack /\ events = <<>>
    BY <1>1 DEF Stalled
  <2>2. ASSUME NEW n \in 1..MaxPlaylist, Play(n)
        PROVE  Stalled'
    BY <2>1, <1>1, <2>2, PlayFacts DEF Stalled
  <2>3. ASSUME NEW pos \in 0..(MaxTracks - 1), RemoveTrack(pos)
        PROVE  Stalled'
    BY <2>1, <1>1, <2>3, RemoveTrackFacts DEF Stalled
  <2>4. ~TrackEnd /\ ~TrackFinishes /\ ~NodeCleansUp /\ ~Stop
    BY <2>1 DEF TrackEnd, TrackFinishes, NodeCleansUp, NodeEnds, Stop, FollowsExample
  <2>5. SocketCloses => Stalled'
    BY <2>1 DEF SocketCloses, clientVars, Stalled
  <2>6. UNCHANGED vars => Stalled'
    BY <2>1 DEF vars, clientVars, nodeVars, Stalled
  <2> QED BY <1>1, <2>2, <2>3, <2>4, <2>5, <2>6 DEF Next
<1>2. HeadInv /\ [Next]_vars => [Stalled => Stalled']_vars
  BY <1>1
<1> QED BY <1>2, HeadInvariant, PTL DEF Spec, StallIsPermanent

-----------------------------------------------------------------------------
(* The refinement of TrackFifo.                                            *)

(* The head of a queue is taken out by Tail.                               *)
LEMMA WithoutHead ==
  ASSUME NEW S, NEW q \in Seq(S), q # <<>>
  PROVE  Without(q, 0) = Tail(q)
<1>1. SubSeq(q, 1, 0) = <<>>
  BY SubSeqEmpty
<1>2. Tail(q) = SubSeq(q, 2, Len(q)) /\ Tail(q) \in Seq(S)
  BY TailIsSubSeq, HeadTailProperties
<1>3. <<>> \o Tail(q) = Tail(q)
  BY <1>2, ConcatEmptySeq
<1> QED BY <1>1, <1>2, <1>3 DEF Without

LEMMA TailConcat ==
  ASSUME NEW S, NEW q \in Seq(S), q # <<>>, NEW r \in Seq(S)
  PROVE  Tail(q \o r) = Tail(q) \o r
<1>1. /\ Len(q) \in Nat \ {0} /\ Len(r) \in Nat
      /\ Tail(q) \in Seq(S) /\ Len(Tail(q)) = Len(q) - 1
      /\ \A i \in 1..Len(Tail(q)) : Tail(q)[i] = q[i + 1]
  BY EmptySeq, LenProperties, HeadTailProperties
<1>2. /\ q \o r \in Seq(S) /\ Len(q \o r) = Len(q) + Len(r)
      /\ \A i \in 1..(Len(q) + Len(r)) :
           (q \o r)[i] = IF i <= Len(q) THEN q[i] ELSE r[i - Len(q)]
  BY ConcatProperties
<1>3. /\ Tail(q) \o r \in Seq(S) /\ Len(Tail(q) \o r) = Len(Tail(q)) + Len(r)
      /\ \A i \in 1..(Len(Tail(q)) + Len(r)) :
           (Tail(q) \o r)[i] = IF i <= Len(Tail(q)) THEN Tail(q)[i] ELSE r[i - Len(Tail(q))]
  BY <1>1, ConcatProperties
<1> DEFINE c == q \o r
           d == Tail(q) \o r
           n == Len(q)
           m == Len(r)
           tl == Tail(q)
<1>4. c # <<>>
  BY <1>1, <1>2, EmptySeq
<1>5. /\ Tail(c) \in Seq(S) /\ Len(Tail(c)) = Len(c) - 1
      /\ \A i \in 1..Len(Tail(c)) : Tail(c)[i] = c[i + 1]
  BY <1>2, <1>4, HeadTailProperties
<1> HIDE DEF c, d, n, m, tl
<1>6. n \in Nat \ {0} /\ m \in Nat
  BY <1>1 DEF n, m
<1>7. \A i \in 1..(n - 1) : tl[i] = q[i + 1]
  BY <1>1, Zenon DEF tl, n
<1>8. \A i \in 1..(n + m) : c[i] = IF i <= n THEN q[i] ELSE r[i - n]
  BY <1>2, Zenon DEF c, n, m
<1>9. \A i \in 1..(n - 1 + m) : d[i] = IF i <= n - 1 THEN tl[i] ELSE r[i - (n - 1)]
  BY <1>1, <1>3, Zenon DEF d, n, m, tl
<1>10. Len(Tail(c)) = n + m - 1 /\ Len(d) = n - 1 + m /\ d \in Seq(S)
  BY <1>1, <1>2, <1>3, <1>5 DEF c, d, n, m
<1>11. ASSUME NEW i \in 1..Len(Tail(c))
       PROVE  Tail(c)[i] = d[i]
  <2>1. i \in 1..(n - 1 + m) /\ i + 1 \in 1..(n + m) /\ i \in Nat
    BY <1>6, <1>10
  <2>2. Tail(c)[i] = IF i + 1 <= n THEN q[i + 1] ELSE r[(i + 1) - n]
    <3>1. Tail(c)[i] = c[i + 1]
      BY <1>5, <1>11, Zenon
    <3>2. c[i + 1] = IF i + 1 <= n THEN q[i + 1] ELSE r[(i + 1) - n]
      BY <1>8, <2>1, Zenon
    <3> QED BY <3>1, <3>2, Zenon
  <2>3. d[i] = IF i <= n - 1 THEN tl[i] ELSE r[i - (n - 1)]
    BY <1>9, <2>1
  <2>4. i <= n - 1 => i \in 1..(n - 1)
    BY <1>6, <2>1
  <2>5. (i + 1) - n = i - (n - 1) /\ (i + 1 <= n <=> i <= n - 1)
    BY <1>6, <2>1
  <2> QED BY <1>7, <2>2, <2>3, <2>4, <2>5
<1>12. Len(Tail(c)) = Len(d)
  BY <1>6, <1>10
<1>13. Tail(c) = d
  BY <1>5, <1>10, <1>11, <1>12, SeqEqual
<1> QED BY <1>13 DEF c, d

(* Taking a track out of a queue takes it out of the rest of the queue.    *)
LEMMA TailWithout ==
  ASSUME NEW S, NEW q \in Seq(S), NEW pos \in Nat, pos > 0, pos < Len(q)
  PROVE  Tail(Without(q, pos)) =
           SubSeq(Tail(q), 1, pos - 1) \o SubSeq(Tail(q), pos - 1 + 2, Len(Tail(q)))
<1>1. /\ q # <<>> /\ Len(q) \in Nat
      /\ Tail(q) \in Seq(S) /\ Len(Tail(q)) = Len(q) - 1
      /\ \A i \in 1..(Len(q) - 1) : Tail(q)[i] = q[i + 1]
  BY HeadTailProperties
<1>2. /\ Without(q, pos) \in Seq(S) /\ Len(Without(q, pos)) = Len(q) - 1
      /\ \A i \in 1..(Len(q) - 1) :
           Without(q, pos)[i] = IF i <= pos THEN q[i] ELSE q[i + 1]
  BY WithoutElements
<1>3. /\ Without(Tail(q), pos - 1) \in Seq(S)
      /\ Len(Without(Tail(q), pos - 1)) = Len(q) - 2
      /\ \A i \in 1..(Len(q) - 2) :
           Without(Tail(q), pos - 1)[i] =
             IF i <= pos - 1 THEN Tail(q)[i] ELSE Tail(q)[i + 1]
  <2>1. pos - 1 \in Nat /\ pos - 1 < Len(Tail(q))
    BY <1>1
  <2>2. /\ Without(Tail(q), pos - 1) \in Seq(S)
        /\ Len(Without(Tail(q), pos - 1)) = Len(Tail(q)) - 1
        /\ \A i \in 1..(Len(Tail(q)) - 1) :
             Without(Tail(q), pos - 1)[i] =
               IF i <= pos - 1 THEN Tail(q)[i] ELSE Tail(q)[i + 1]
    BY <1>1, <2>1, WithoutElements
  <2>3. Len(Tail(q)) - 1 = Len(q) - 2
    BY <1>1
  <2> QED BY <2>2, <2>3, Zenon
<1> DEFINE w == Without(q, pos)
           v == Without(Tail(q), pos - 1)
<1> HIDE DEF w, v
<1>4. w # <<>> /\ Tail(w) \in Seq(S) /\ Len(Tail(w)) = Len(q) - 2
      /\ \A i \in 1..(Len(q) - 2) : Tail(w)[i] = w[i + 1]
  <2>1. w \in Seq(S) /\ Len(w) = Len(q) - 1 /\ Len(w) > 0
    BY <1>1, <1>2 DEF w
  <2>2. w # <<>>
    BY <2>1
  <2>3. /\ Tail(w) \in Seq(S) /\ Len(Tail(w)) = Len(w) - 1
        /\ \A i \in 1..Len(Tail(w)) : Tail(w)[i] = w[i + 1]
    BY <2>1, <2>2, HeadTailProperties
  <2>4. Len(Tail(w)) = Len(q) - 2
    <3>1. Len(w) - 1 = Len(q) - 2
      BY <1>1, <2>1
    <3> QED BY <2>3, <3>1, Zenon
  <2> QED BY <2>2, <2>3, <2>4, Zenon
<1>5. ASSUME NEW i \in 1..(Len(q) - 2)
      PROVE  Tail(w)[i] = v[i]
  <2>1. i \in Nat /\ i > 0 /\ i + 1 \in 1..(Len(q) - 1) /\ i \in 1..(Len(q) - 1)
    BY <1>1
  <2>2. w[i + 1] = IF i + 1 <= pos THEN q[i + 1] ELSE q[i + 1 + 1]
    BY <1>2, <2>1 DEF w
  <2>3. v[i] = IF i <= pos - 1 THEN q[i + 1] ELSE q[i + 1 + 1]
    BY <1>1, <1>3, <2>1 DEF v
  <2> QED BY <1>4, <2>1, <2>2, <2>3
<1>6. v \in Seq(S) /\ Len(v) = Len(q) - 2
  BY <1>3 DEF v
<1>7. Tail(w) = v
  BY <1>4, <1>5, <1>6, SeqEqual
<1> QED BY <1>7 DEF w, v, Without

LEMMA FifoInit == Init => Fifo!Init
BY DEF Init, Fifo!Init, Unstarted


(* New tracks wait behind those that wait already, and when nothing waits  *)
(* or plays the first of them may start.                                   *)
LEMMA FifoPlay ==
  ASSUME HeadInv, HeadInv', NEW n \in 1..MaxPlaylist, Play(n)
  PROVE  Fifo!Next
<1>. USE PlaybackConstants
<1>1. /\ n \in Nat \ {0} /\ added' = added + n /\ added + n <= MaxTracks
      /\ queue' = queue \o NewTracks(n) /\ queue' # <<>>
  BY PlayFacts
<1>2. /\ TypeOK /\ added \in Nat /\ queue \in Seq(Nat \ {0}) /\ lastStarted \in Nat
      /\ queue' \in Seq(Nat \ {0}) /\ lastStarted <= added
  BY HeadFacts DEF TypeOK, HeadInv, OrderInv
<1>3. /\ NewTracks(n) \in Seq(Nat \ {0}) /\ NewTracks(n) # <<>>
      /\ NewTracks(n)[1] = added + 1
  <2>1. /\ NewTracks(n) \in Seq(Nat \ {0}) /\ Len(NewTracks(n)) = n
        /\ \A i \in 1..n : NewTracks(n)[i] = added + i
    BY <1>1, <1>2, ExtendedQueue
  <2> QED BY <1>1, <2>1
<1>4. Fifo!UpTo(added') = NewTracks(n) /\ added' \in Tracks /\ added' > added
  <2>1. added' - added = n
    BY <1>1, <1>2
  <2> QED BY <1>1, <1>2, <2>1 DEF Fifo!UpTo, NewTracks, Tracks
<1>5. CASE /\ queue # <<>> /\ queue'[1] = queue[1]
           /\ UNCHANGED <<playing, lastStarted>>
  <2>1. Unstarted' = Unstarted \o NewTracks(n)
    <3>1. CASE queue[1] <= lastStarted
      <4>1. Unstarted' = Tail(queue') /\ Unstarted = Tail(queue)
        BY <1>1, <1>5, <3>1 DEF Unstarted
      <4> QED BY <1>1, <1>2, <1>3, <1>5, <4>1, TailConcat
    <3>2. CASE ~(queue[1] <= lastStarted)
      BY <1>1, <1>5, <3>2 DEF Unstarted
    <3> QED BY <3>1, <3>2
  <2>2. Fifo!Enqueue(added')
    BY <1>4, <1>5, <2>1 DEF Fifo!Enqueue
  <2> QED BY <1>4, <2>2 DEF Fifo!Next
<1>6. CASE /\ queue = <<>> /\ queue'[1] = added + 1 /\ queue' = NewTracks(n)
           /\ playing = NoTrack
           /\ \/ playing' = added + 1 /\ lastStarted' = added + 1
              \/ playing' = playing /\ lastStarted' = lastStarted
  <2>1. Unstarted = <<>>
    BY <1>6 DEF Unstarted
  <2>2. CASE playing' = added + 1 /\ lastStarted' = added + 1
    <3>1. Unstarted' = Tail(NewTracks(n))
      BY <1>1, <1>2, <1>6, <2>2 DEF Unstarted
    <3>2. Head(NewTracks(n)) = added + 1
      BY <1>3
    <3>3. Fifo!StartNew(added')
      BY <1>4, <1>6, <2>1, <2>2, <3>1, <3>2 DEF Fifo!StartNew
    <3> QED BY <1>4, <3>3 DEF Fifo!Next
  <2>3. CASE playing' = playing /\ lastStarted' = lastStarted
    <3>1. Unstarted' = NewTracks(n)
      BY <1>1, <1>2, <1>6, <2>3 DEF Unstarted
    <3>2. <<>> \o NewTracks(n) = NewTracks(n)
      BY <1>3, ConcatEmptySeq
    <3>3. Fifo!Enqueue(added')
      BY <1>4, <2>1, <2>3, <3>1, <3>2 DEF Fifo!Enqueue
    <3> QED BY <1>4, <3>3 DEF Fifo!Next
  <2> QED BY <1>6, <2>2, <2>3
<1> QED BY <1>5, <1>6, PlayFacts

LEMMA FifoRemoveTrack ==
  ASSUME FollowsExample, HeadInv, NEW pos \in 0..(MaxTracks - 1), RemoveTrack(pos)
  PROVE  Fifo!Next
<1>1. /\ pos \in Nat /\ pos > 0 /\ pos < Len(queue)
      /\ queue # <<>> /\ queue' # <<>> /\ queue'[1] = queue[1]
      /\ UNCHANGED <<added, playing, lastStarted>>
  BY RemoveTrackFacts
<1>2. queue \in Seq(Nat \ {0}) /\ queue' = Without(queue, pos)
  BY HeadFacts DEF TypeOK, RemoveTrack
<1>3. CASE queue[1] <= lastStarted
  <2>1. Unstarted = Tail(queue) /\ Unstarted' = Tail(Without(queue, pos))
    BY <1>1, <1>2, <1>3 DEF Unstarted
  <2>2. pos - 1 \in 0..(Len(Tail(queue)) - 1)
    <3>1. Len(Tail(queue)) = Len(queue) - 1
      BY <1>1, <1>2, HeadTailProperties
    <3>2. Len(queue) \in Nat
      BY <1>2, LenProperties
    <3> QED BY <1>1, <3>1, <3>2
  <2>3. Fifo!TakeOut(pos - 1)
    <3>1. Tail(Without(queue, pos)) =
            SubSeq(Tail(queue), 1, pos - 1)
              \o SubSeq(Tail(queue), pos - 1 + 2, Len(Tail(queue)))
      BY <1>1, <1>2, TailWithout
    <3> QED BY <1>1, <2>1, <3>1, Zenon DEF Fifo!TakeOut
  <2> QED BY <2>1, <2>2, <2>3, Zenon DEF Fifo!Next
<1>4. CASE ~(queue[1] <= lastStarted)
  <2>1. Unstarted = queue /\ Unstarted' = Without(queue, pos)
    BY <1>1, <1>2, <1>4 DEF Unstarted
  <2>2. Fifo!TakeOut(pos)
    BY <1>1, <2>1 DEF Fifo!TakeOut, Without
  <2>3. pos \in 0..(Len(Unstarted) - 1)
    BY <1>1, <1>2, <2>1
  <2> QED BY <2>2, <2>3 DEF Fifo!Next
<1> QED BY <1>3, <1>4

LEMMA FifoTrackEnd ==
  ASSUME HeadInv, TrackEnd
  PROVE  Fifo!StartNext \/ UNCHANGED Fifo!fifoVars
<1>1. /\ playing = NoTrack /\ added' = added
      /\ queue # <<>> /\ queue[1] <= lastStarted
  BY TrackEndFacts
<1>2. OrderInv /\ queue \in Seq(Nat \ {0}) /\ lastStarted \in Nat
  BY HeadFacts DEF TypeOK
<1>3. Unstarted = Tail(queue) /\ Without(queue, 0) = Tail(queue)
  BY <1>1, <1>2, WithoutHead DEF Unstarted
<1>4. CASE /\ queue' = Without(queue, 0)
           /\ queue' # <<>> /\ playing' = queue'[1] /\ lastStarted' = queue'[1]
  <2>1. queue' \in Seq(Nat \ {0}) /\ queue'[1] \in Nat
    <3>1. queue' \in Seq(Nat \ {0})
      BY <1>1, <1>2, <1>3, <1>4, HeadTailProperties
    <3> QED BY <1>4, <3>1
  <2>2. Unstarted' = Tail(queue') /\ Head(queue') = queue'[1]
    BY <1>4, <2>1 DEF Unstarted
  <2>3. Fifo!StartNext
    BY <1>1, <1>3, <1>4, <2>2 DEF Fifo!StartNext
  <2> QED BY <2>3
<1>5. CASE queue' = Without(queue, 0) /\ playing' = playing /\ lastStarted' = lastStarted
  <2>1. queue' # <<>> => queue'[1] > lastStarted /\ queue'[1] \in Nat
    <3>1. 0 < Len(queue)
      BY <1>1, <1>2
    <3>2. /\ queue' \in Seq(Nat \ {0})
          /\ queue' # <<>> => queue'[1] > lastStarted
      BY <1>2, <1>5, <3>1, WithoutOrder
    <3> QED BY <3>2
  <2>2. Unstarted' = queue'
    BY <1>2, <1>5, <2>1 DEF Unstarted
  <2> QED BY <1>1, <1>3, <1>5, <2>2 DEF Fifo!fifoVars
<1>6. CASE UNCHANGED <<queue, playing, lastStarted>>
  BY <1>1, <1>6 DEF Fifo!fifoVars, Unstarted
<1> QED BY <1>4, <1>5, <1>6, TrackEndFacts

LEMMA FifoStep ==
  ASSUME FollowsExample, HeadInv, HeadInv', [Next]_vars
  PROVE  [Fifo!Next]_(Fifo!fifoVars)
<1>1. ASSUME NEW n \in 1..MaxPlaylist, Play(n)
      PROVE  Fifo!Next
  BY <1>1, FifoPlay
<1>2. ASSUME NEW pos \in 0..(MaxTracks - 1), RemoveTrack(pos)
      PROVE  Fifo!Next
  BY <1>2, FifoRemoveTrack
<1>3. ASSUME NEW reason \in Reasons, NodeEnds(reason)
      PROVE  Fifo!Next
  BY <1>3 DEF NodeEnds, clientVars, Unstarted, Fifo!End, Fifo!Next
<1>4. TrackFinishes \/ NodeCleansUp => Fifo!Next
  BY <1>3 DEF TrackFinishes, NodeCleansUp, Reasons
<1>5. SocketCloses \/ UNCHANGED vars => UNCHANGED Fifo!fifoVars
  BY DEF SocketCloses, clientVars, nodeVars, vars, Unstarted, Fifo!fifoVars
<1>6. TrackEnd => Fifo!Next \/ UNCHANGED Fifo!fifoVars
  BY FifoTrackEnd DEF Fifo!Next
<1>7. ~Stop
  BY DEF FollowsExample, Stop
<1> QED BY <1>1, <1>2, <1>4, <1>5, <1>6, <1>7 DEF Next

(* The client and the node together implement a first-in first-out player: *)
(* whatever requests, ends or websockets are lost, tracks are played one   *)
(* at a time, in the order they were added and at most once.               *)
THEOREM ImplementsFifo ==
  ASSUME FollowsExample
  PROVE  Spec => PlaysFifo
<1>1. HeadInv /\ HeadInv' /\ [Next]_vars => [Fifo!Next]_(Fifo!fifoVars)
  BY FifoStep
<1> QED BY <1>1, FifoInit, HeadInvariant, PTL DEF Spec, PlaysFifo, Fifo!Spec

=============================================================================
