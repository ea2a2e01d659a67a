------------------------ MODULE RequestBodiesProofs ------------------------
(***************************************************************************)
(* Proofs about RequestBodies, for every set of optional fields and any    *)
(* number of tracks.                                                       *)
(***************************************************************************)
EXTENDS RequestBodies, SequenceTheorems, TLAPS

(* What is in a sequence that was put together from two.                   *)
LEMMA ConcatFacts ==
  ASSUME NEW S, NEW u \in Seq(S), NEW m \in Seq(S), NEW p, p = Len(u)
  PROVE  /\ u \o m \in Seq(S)
         /\ p \in Nat /\ Len(m) \in Nat /\ Len(u \o m) = p + Len(m)
         /\ DOMAIN u = 1..p /\ DOMAIN m = 1..Len(m) /\ DOMAIN (u \o m) = 1..(p + Len(m))
         /\ \A k \in 1..p : (u \o m)[k] = u[k]
         /\ \A j \in 1..Len(m) : (u \o m)[p + j] = m[j]
<1>1. /\ p \in Nat /\ Len(m) \in Nat /\ DOMAIN u = 1..p /\ DOMAIN m = 1..Len(m)
  BY LenProperties
<1>2. /\ u \o m \in Seq(S) /\ Len(u \o m) = p + Len(m)
      /\ \A k \in 1..(p + Len(m)) : (u \o m)[k] = IF k <= p THEN u[k] ELSE m[k - p]
  BY ConcatProperties
<1>3. DOMAIN (u \o m) = 1..(p + Len(m))
  BY <1>2, LenProperties
<1>4. ASSUME NEW k \in 1..p PROVE (u \o m)[k] = u[k]
  BY <1>1, <1>2
<1>5. ASSUME NEW j \in 1..Len(m) PROVE (u \o m)[p + j] = m[j]
  <2>1. p + j \in 1..(p + Len(m)) /\ ~(p + j <= p) /\ (p + j) - p = j
    BY <1>1
  <2> QED BY <1>2, <2>1
<1> QED BY <1>1, <1>2, <1>3, <1>4, <1>5

(* snprintf writes the text cut to its room, and a NUL.                    *)
LEMMA WrittenFacts ==
  ASSUME NEW text \in Seq(Cells), NEW room \in 1..(Len(text) + 1)
  PROVE  /\ DOMAIN Written(text, room) = 1..room
         /\ Written(text, room)[room] = Nul
         /\ \A j \in 1..(room - 1) : Written(text, room)[j] = text[j]
<1> DEFINE S == Cells \cup {Nul}
           q == room - 1
           u == SubSeq(text, 1, q)
<1>1. Len(text) \in Nat /\ q \in Int /\ q + 1 = room /\ q <= Len(text) /\ 0 <= q
  BY LenProperties
<1>2. \A i \in 1..q : text[i] \in S
  <2>1. \A i \in 1..q : i \in 1..Len(text)
    BY <1>1
  <2> QED BY <2>1, ElementOfSeq
<1> HIDE DEF S, q
<1>3. u \in Seq(S) /\ Len(u) = q /\ \A i \in 1..q : u[i] = text[i]
  <2>1. q >= 1 - 1 /\ 1 \in Int
    BY <1>1
  <2>2. /\ SubSeq(text, 1, q) \in Seq(S)
        /\ Len(SubSeq(text, 1, q)) = IF 1 <= q THEN q - 1 + 1 ELSE 0
        /\ \A i \in 1..q - 1 + 1 : SubSeq(text, 1, q)[i] = text[1 + i - 1]
    BY <1>1, <1>2, SubSeqProperties
  <2> QED BY <1>1, <2>2
<1>4. Written(text, room) = Append(u, Nul)
  BY DEF Written, q
<1> HIDE DEF u
<1>5. Nul \in S
  BY DEF S
<1>6. /\ Append(u, Nul) \in Seq(S) /\ Len(Append(u, Nul)) = q + 1
      /\ \A k \in 1..q : Append(u, Nul)[k] = u[k]
      /\ Append(u, Nul)[q + 1] = Nul
  BY <1>3, <1>5, AppendProperties
<1>7. DOMAIN Append(u, Nul) = 1..(q + 1)
  BY <1>6, LenProperties
<1> QED BY <1>1, <1>3, <1>4, <1>6, <1>7 DEF q

(* What an operation that prints leaves in the block.                      *)
Result(b, room, text, toClose, new) ==
  /\ DOMAIN new.block = 1..(b.position + room)
  /\ new.position = b.position + Len(text)
  /\ new.toClose = toClose
  /\ \A k \in 1..b.position : new.block[k] = b.block[k]
  /\ \A j \in 1..(room - 1) : new.block[b.position + j] = text[j]
  /\ new.block[b.position + room] = Nul

LEMMA PrintedFacts ==
  ASSUME NEW b, NEW n \in Nat, DOMAIN b.block = 1..n, b.position \in 1..n,
         NEW text \in Seq(Cells), NEW room \in 1..(Len(text) + 1), NEW toClose
  PROVE  Result(b, room, text, toClose, Printed(b, room, text, toClose))
<1> DEFINE w == Written(text, room)
           p == Printed(b, room, text, toClose)
<1>1. /\ DOMAIN w = 1..room /\ w[room] = Nul
      /\ \A j \in 1..(room - 1) : w[j] = text[j]
  BY WrittenFacts
<1>2. p.block = [i \in 1..(b.position + room) |->
                   IF i - b.position \in DOMAIN w THEN w[i - b.position]
                   ELSE Resized(b.block, b.position + room)[i]]
  BY DEF Printed
<1>3. room \in Nat \ {0} /\ b.position \in Nat \ {0} /\ Len(text) \in Nat
  BY LenProperties
<1> HIDE DEF w
<1>4. ASSUME NEW k \in 1..b.position PROVE p.block[k] = b.block[k]
  <2>1. k \in 1..(b.position + room) /\ k - b.position \notin 1..room /\ k \in DOMAIN b.block
    BY <1>3
  <2>2. p.block[k] = Resized(b.block, b.position + room)[k]
    BY <1>1, <1>2, <2>1
  <2> QED BY <2>1, <2>2 DEF Resized
<1>5. ASSUME NEW j \in 1..room PROVE p.block[b.position + j] = w[j]
  <2>1. b.position + j \in 1..(b.position + room) /\ (b.position + j) - b.position = j
    BY <1>3
  <2> QED BY <1>1, <1>2, <2>1
<1>6. DOMAIN p.block = 1..(b.position + room)
  BY <1>2
<1>7. p.position = b.position + Len(text) /\ p.toClose = toClose
  BY DEF Printed
<1>8. \A j \in 1..(room - 1) : p.block[b.position + j] = text[j]
  BY <1>1, <1>3, <1>5
<1>9. p.block[b.position + room] = Nul
  BY <1>1, <1>3, <1>5
<1> HIDE DEF p
<1> QED BY <1>4, <1>6, <1>7, <1>8, <1>9 DEF Result, p

(* What the proofs need to know of the cells.                              *)
LEMMA CellsDiffer ==
  /\ Nul \notin Cells /\ NoKey \in Keys
  /\ Comma # Nul /\ Comma \notin Openings /\ Value \notin Openings
  /\ CloseObject \notin Openings /\ Nul \notin Openings
BY Zenon DEF Cells, Keys, FilterNames, Openings, Nul, NoKey, Comma, Colon, Value,
             OpenObject, CloseObject, OpenArray, CloseArray

-----------------------------------------------------------------------------
(* Up to p two blocks are the same; from there on one of them holds m, and *)
(* has or has not lost a cell of it.                                       *)
Agree(new, old, p) == \A k \in 1..p : new[k] = old[k]
Follows(new, p, m) == \A j \in 1..Len(m) : Same(new[p + j], m[j])
Loses(new, p, m) == \E j \in 1..Len(m) : new[p + j] = Nul

(* The text grows by m, and the block by what is taken for it.             *)
LEMMA TextGrows ==
  ASSUME NEW w \in Seq(Cells), NEW m \in Seq(Cells), NEW old, NEW new,
         NEW p, p = Len(w),
         Agree(new, old, p), Held(old, w), Follows(new, p, m)
  PROVE  /\ Held(new, w \o m)
         /\ LostIn(new, w \o m) <=> LostIn(old, w) \/ Loses(new, p, m)
<1> DEFINE t == w \o m
<1>1. /\ p \in Nat /\ Len(m) \in Nat
      /\ DOMAIN w = 1..p /\ DOMAIN t = 1..(p + Len(m))
      /\ \A k \in 1..p : t[k] = w[k]
      /\ \A j \in 1..Len(m) : t[p + j] = m[j]
  BY ConcatFacts
<1> HIDE DEF t
<1>2. ASSUME NEW k \in DOMAIN t, k \notin 1..p
      PROVE  \E j \in 1..Len(m) : k = p + j
  <2>1. k - p \in 1..Len(m) /\ k = p + (k - p)
    BY <1>1, <1>2
  <2> QED BY <2>1
<1>3. \A k \in 1..p : k \in DOMAIN t /\ t[k] = w[k] /\ new[k] = old[k]
  BY <1>1 DEF Agree
<1>4. \A j \in 1..Len(m) : p + j \in DOMAIN t
  BY <1>1
<1>5. Held(new, t)
  <2>1. ASSUME NEW k \in DOMAIN t PROVE Same(new[k], t[k])
    <3>1. CASE k \in 1..p
      BY <1>1, <1>3, <3>1 DEF Held
    <3>2. CASE \E j \in 1..Len(m) : k = p + j
      BY <1>1, <3>2 DEF Follows
    <3> QED BY <1>2, <3>1, <3>2
  <2> QED BY <2>1 DEF Held
<1>6. LostIn(new, t) <=> LostIn(old, w) \/ Loses(new, p, m)
  <2>1. ASSUME NEW k \in DOMAIN t, new[k] = Nul
        PROVE  LostIn(old, w) \/ Loses(new, p, m)
    <3>1. CASE k \in 1..p
      BY <1>1, <1>3, <2>1, <3>1 DEF LostIn
    <3>2. CASE \E j \in 1..Len(m) : k = p + j
      BY <2>1, <3>2 DEF Loses
    <3> QED BY <1>2, <3>1, <3>2
  <2>2. LostIn(old, w) => LostIn(new, t)
    BY <1>1, <1>3 DEF LostIn
  <2>3. Loses(new, p, m) => LostIn(new, t)
    BY <1>4 DEF Loses, LostIn
  <2> QED BY <2>1, <2>2, <2>3 DEF LostIn
<1> QED BY <1>5, <1>6 DEF t

(* The next member of what is open: the block already holds its separator. *)
Prints(new, p, m) == \A j \in 1..Len(m) : new[p + j] = m[j]

LEMMA PrintedTakesAll ==
  ASSUME NEW m \in Seq(Cells), NEW new, NEW p, Prints(new, p, m)
  PROVE  Follows(new, p, m) /\ ~Loses(new, p, m)
<1>1. \A j \in 1..Len(m) : m[j] # Nul
  BY ElementOfSeq, CellsDiffer
<1> QED BY <1>1 DEF Prints, Follows, Loses, Same

LEMMA TextEnds ==
  ASSUME NEW w \in Seq(Cells), w # <<>>, NEW m \in Seq(Cells), m # <<>>,
         NEW p, p = Len(w)
  PROVE  /\ w \o m \in Seq(Cells) /\ w \o m # <<>> /\ Len(w \o m) = p + Len(m)
         /\ (w \o m)[1] = w[1] /\ (w \o m)[Len(w \o m)] = m[Len(m)]
<1>1. p \in Nat \ {0} /\ Len(m) \in Nat \ {0}
  BY EmptySeq
<1>2. /\ w \o m \in Seq(Cells) /\ Len(w \o m) = p + Len(m)
      /\ \A k \in 1..p : (w \o m)[k] = w[k]
      /\ \A j \in 1..Len(m) : (w \o m)[p + j] = m[j]
  BY ConcatFacts
<1>3. 1 \in 1..p /\ Len(m) \in 1..Len(m) /\ p + Len(m) # 0
  BY <1>1
<1>4. w \o m # <<>>
  BY <1>2, <1>3, EmptySeq
<1> QED BY <1>2, <1>3, <1>4

LEMMA MemberGrows ==
  ASSUME NEW w \in Seq(Cells), w # <<>>, NEW m \in Seq(Cells), m # <<>>,
         NEW old, NEW new, NEW p, Held(old, w), Agree(new, old, p), Prints(new, p, m),
         IF w[Len(w)] \in Openings THEN p = Len(w)
         ELSE p = Len(w) + 1 /\ Same(old[p], Comma)
  PROVE  LET t == (w \o IF w[Len(w)] \in Openings THEN <<>> ELSE <<Comma>>) \o m IN
         /\ t \in Seq(Cells) /\ t # <<>> /\ Len(t) = p + Len(m)
         /\ t[1] = w[1] /\ t[Len(t)] = m[Len(m)]
         /\ Held(new, t)
         /\ LostIn(new, t) <=> LostIn(old, w) \/ (w[Len(w)] \notin Openings /\ old[p] = Nul)
<1>1. Follows(new, p, m) /\ ~Loses(new, p, m)
  BY PrintedTakesAll
<1>2. CASE w[Len(w)] \in Openings
  <2>1. w \o <<>> = w
    BY ConcatEmptySeq
  <2>2. Held(new, w \o m) /\ (LostIn(new, w \o m) <=> LostIn(old, w))
    BY <1>1, <1>2, TextGrows
  <2> QED BY <1>2, <2>1, <2>2, TextEnds
<1>3. CASE w[Len(w)] \notin Openings
  <2> DEFINE v == w \o <<Comma>>
  <2>1. <<Comma>> \in Seq(Cells) /\ <<Comma>> # <<>> /\ Len(<<Comma>>) = 1 /\ <<Comma>>[1] = Comma
    BY DEF Cells
  <2>2. v \in Seq(Cells) /\ v # <<>> /\ Len(v) = p /\ v[1] = w[1]
    BY <1>3, <2>1, TextEnds
  <2>3. Len(w) \in Nat
    BY LenProperties
  <2>4. Agree(old, old, Len(w)) /\ Follows(old, Len(w), <<Comma>>)
        /\ (Loses(old, Len(w), <<Comma>>) <=> old[p] = Nul)
    BY <1>3, <2>1, <2>3 DEF Agree, Follows, Loses
  <2>5. Held(old, v) /\ (LostIn(old, v) <=> LostIn(old, w) \/ old[p] = Nul)
    BY <2>1, <2>4, TextGrows
  <2> HIDE DEF v
  <2>6. Held(new, v \o m) /\ (LostIn(new, v \o m) <=> LostIn(old, v))
    BY <1>1, <2>2, <2>5, TextGrows
  <2>7. /\ v \o m \in Seq(Cells) /\ v \o m # <<>> /\ Len(v \o m) = p + Len(m)
        /\ (v \o m)[1] = w[1] /\ (v \o m)[Len(v \o m)] = m[Len(m)]
    BY <2>2, TextEnds
  <2> QED BY <1>3, <2>5, <2>6, <2>7 DEF v
<1> QED BY <1>2, <1>3

-----------------------------------------------------------------------------
(* A call is made while a request is being built.                          *)
Building ==
  /\ WellFormed(script) /\ TextMatches
  /\ done \in 0..(Len(script) - 1)
  /\ done' = done + 1 /\ script' = script

ThisCall == script[done + 1]

LEMMA ScriptFacts ==
  ASSUME Building
  PROVE  /\ Len(script) \in Nat \ {0} /\ DOMAIN script = 1..Len(script)
         /\ done \in Nat /\ done + 1 \in DOMAIN script
         /\ ThisCall.op \in CallKinds /\ ThisCall.key \in Keys
         /\ ThisCall.op # "end" => done' \in 0..(Len(script') - 1)
         /\ done # 0 => /\ done \in DOMAIN script /\ done \in 1..(Len(script) - 1)
                        /\ script[done].op \in CallKinds \ {"end"}
         /\ ThisCall.op = "end" => done = Len(script) - 1
<1>1. done \in 0..(Len(script) - 1) /\ done' = done + 1 /\ script' = script
  BY DEF Building
<1>2. script \in Seq([op : CallKinds, key : Keys]) /\ script # <<>>
  BY DEF Building, WellFormed
<1>3. Len(script) \in Nat \ {0} /\ DOMAIN script = 1..Len(script)
  BY <1>2, LenProperties, EmptySeq
<1> DEFINE n == Len(script)
<1>4. n \in Nat \ {0} /\ done \in 0..(n - 1)
  BY <1>1, <1>3
<1> HIDE DEF n
<1>5. /\ done \in Nat /\ done + 1 \in 1..n
      /\ done # 0 => done \in 1..n /\ done \in 1..(n - 1) /\ done # n
      /\ done + 1 = n => done = n - 1
      /\ done + 1 # n => done + 1 \in 0..(n - 1)
  BY <1>4
<1>6. /\ done \in Nat /\ done + 1 \in DOMAIN script
      /\ done # 0 => done \in DOMAIN script /\ done \in 1..(Len(script) - 1) /\ done # Len(script)
  BY <1>3, <1>5 DEF n
<1>7. \A i \in DOMAIN script : script[i].op \in CallKinds /\ script[i].key \in Keys
  <2>1. \A i \in DOMAIN script : script[i] \in [op : CallKinds, key : Keys]
    BY <1>2, <1>3, ElementOfSeq
  <2> QED BY <2>1
<1>8. \A i \in DOMAIN script : script[i].op = "end" <=> i = Len(script)
  BY DEF Building, WellFormed
<1>9. ThisCall.op = "end" <=> done + 1 = Len(script)
  BY <1>6, <1>8 DEF ThisCall
<1>10. ThisCall.op = "end" => done = Len(script) - 1
  BY <1>9, <1>5 DEF n
<1>11. ThisCall.op # "end" => done' \in 0..(Len(script') - 1)
  BY <1>1, <1>9, <1>5 DEF n
<1>12. ThisCall.op \in CallKinds /\ ThisCall.key \in Keys
  BY <1>6, <1>7 DEF ThisCall
<1>13. done # 0 => script[done].op \in CallKinds \ {"end"}
  BY <1>6, <1>7, <1>8
<1> QED BY <1>3, <1>6, <1>10, <1>11, <1>12, <1>13

(* Which separators are lost after one more call.                          *)
LEMMA LostGrows ==
  ASSUME Building
  PROVE  LostSoFar' <=> \/ LostSoFar
                        \/ /\ done # 0 /\ script[done].op = "set"
                           /\ ThisCall.op \in {"set", "enter"}
<1>1. done \in Nat /\ done' = done + 1 /\ script' = script
  BY ScriptFacts DEF Building
<1>2. LostSoFar' <=>
        \E i \in 1..done : script[i].op = "set" /\ script[i + 1].op \in {"set", "enter"}
  BY <1>1 DEF LostSoFar
<1>3. ASSUME NEW i \in 1..done PROVE i \in 1..(done - 1) \/ (i = done /\ done # 0)
  BY <1>1
<1>4. done # 0 => done \in 1..done
  BY <1>1
<1>5. 1..(done - 1) \subseteq 1..done
  BY <1>1
<1> QED BY <1>2, <1>3, <1>4, <1>5 DEF LostSoFar, ThisCall

(* A call that makes a member keeps block and text together.               *)
LEMMA MemberStep ==
  ASSUME Building, ThisCall.op \in {"set", "item", "enter"},
         NEW m \in Seq(Cells), m # <<>>, wanted' = Member(m),
         m[Len(m)] \in Openings <=> ThisCall.op = "enter",
         Agree(builder'.block, builder.block, builder.position),
         Prints(builder'.block, builder.position, m),
         builder'.position = builder.position + Len(m) + (IF ThisCall.op = "enter" THEN 0 ELSE 1),
         ThisCall.op # "enter" => builder'.block[builder'.position] =
                                    IF ThisCall.op = "set" THEN Nul ELSE Comma
  PROVE  TextMatches' /\ (Separated' <=> ThisCall.op # "enter")
<1> DEFINE old == builder.block
           new == builder'.block
<1>1. /\ wanted \in Seq(Cells) /\ wanted # <<>> /\ wanted[1] \in Openings
      /\ builder.position = Len(wanted) + (IF Separated THEN 1 ELSE 0)
      /\ Held(old, wanted) /\ (LostIn(old, wanted) <=> LostSoFar)
      /\ wanted[Len(wanted)] \in Openings <=> ~Separated
      /\ Separated => old[builder.position] = IF script[done].op = "set" THEN Nul ELSE Comma
  BY DEF Building, TextMatches
<1>2. Len(wanted) \in Nat
  BY <1>1, LenProperties
<1>3. IF wanted[Len(wanted)] \in Openings THEN builder.position = Len(wanted)
      ELSE builder.position = Len(wanted) + 1 /\ Same(old[builder.position], Comma)
  BY <1>1, <1>2 DEF Same
<1>4. wanted' = (wanted \o IF wanted[Len(wanted)] \in Openings THEN <<>> ELSE <<Comma>>) \o m
  BY DEF Member
<1>5. /\ wanted' \in Seq(Cells) /\ wanted' # <<>> /\ Len(wanted') = builder.position + Len(m)
      /\ wanted'[1] = wanted[1] /\ wanted'[Len(wanted')] = m[Len(m)]
      /\ Held(new, wanted')
      /\ LostIn(new, wanted') <=>
           LostIn(old, wanted) \/ (wanted[Len(wanted)] \notin Openings /\ old[builder.position] = Nul)
  BY <1>1, <1>3, <1>4, MemberGrows
<1>6. /\ script' = script /\ done' = done + 1 /\ done' # 0
      /\ script'[done'] = ThisCall
  <2>1. script' = script /\ done' = done + 1 /\ done \in Nat
    BY ScriptFacts DEF Building
  <2> QED BY <2>1 DEF ThisCall
<1>7. Separated' <=> ThisCall.op # "enter"
  BY <1>6 DEF Separated
<1>8. LostSoFar' <=> LostIn(new, wanted')
  <2>1. Separated /\ old[builder.position] = Nul <=> done # 0 /\ script[done].op = "set"
    BY <1>1, CellsDiffer DEF Separated
  <2>2. done # 0 /\ script[done].op = "set" => ThisCall.op # "item"
    <3> SUFFICES ASSUME done # 0, script[done].op = "set" PROVE ThisCall.op # "item"
      OBVIOUS
    <3>1. done \in 1..(Len(script) - 1)
      BY ScriptFacts
    <3> QED BY <3>1 DEF Building, WellFormed, ThisCall
  <2> QED BY <1>1, <1>5, <2>1, <2>2, LostGrows
<1>9. builder'.position = Len(wanted') + (IF Separated' THEN 1 ELSE 0)
  BY <1>5, <1>7
<1> QED BY <1>1, <1>5, <1>6, <1>7, <1>8, <1>9 DEF TextMatches

-----------------------------------------------------------------------------
(* The block reaches to the position or one cell further, before a crash.  *)
Sized ==
  /\ builder.position \in Nat \ {0}
  /\ \E more \in {0, 1} : DOMAIN builder.block = 1..(builder.position + more)

LEMMA PrintedSized ==
  ASSUME Sized, NEW text \in Seq(Cells), NEW room \in 1..(Len(text) + 1), NEW toClose,
         builder' = Printed(builder, room, text, toClose)
  PROVE  /\ DOMAIN builder'.block = 1..(builder.position + room)
         /\ builder'.position = builder.position + Len(text)
         /\ builder'.toClose = toClose
         /\ Agree(builder'.block, builder.block, builder.position)
         /\ \A j \in 1..(room - 1) : builder'.block[builder.position + j] = text[j]
         /\ builder'.block[builder.position + room] = Nul
<1>1. PICK more \in {0, 1} : DOMAIN builder.block = 1..(builder.position + more)
  BY DEF Sized
<1>2. /\ builder.position + more \in Nat
      /\ builder.position \in 1..(builder.position + more)
  BY DEF Sized
<1>3. Result(builder, room, text, toClose, builder')
  BY <1>1, <1>2, PrintedFacts
<1> QED BY <1>3 DEF Result, Agree

LEMMA SetScalarStep ==
  ASSUME Building, Sized, SetScalar
  PROVE  TextMatches' /\ Separated' /\ Sized' /\ builder'.toClose = TRUE
<1> DEFINE text == <<Key, Colon, Value, Comma>>
           m == <<Key, Colon, Value>>
<1>1. ThisCall.op = "set" /\ Key \in Cells /\ wanted' = Member(m)
      /\ builder' = Printed(builder, 4, text, TRUE)
  BY ScriptFacts DEF SetScalar, Step, ThisCall, SetKeyed, Key, Cells
<1>2. Colon \in Cells /\ Value \in Cells /\ Comma \in Cells
  BY DEF Cells
<1>3. /\ text \in Seq(Cells) /\ Len(text) = 4 /\ 4 \in 1..(Len(text) + 1)
      /\ text[1] = Key /\ text[2] = Colon /\ text[3] = Value
  BY <1>1, <1>2
<1>4. /\ m \in Seq(Cells) /\ m # <<>> /\ Len(m) = 3
      /\ m[1] = Key /\ m[2] = Colon /\ m[3] = Value
  BY <1>1, <1>2
<1> HIDE DEF text, m
<1>5. builder.position \in Nat \ {0}
  BY DEF Sized
<1>6. /\ DOMAIN builder'.block = 1..(builder.position + 4)
      /\ builder'.position = builder.position + 4
      /\ builder'.toClose = TRUE
      /\ Agree(builder'.block, builder.block, builder.position)
      /\ \A j \in 1..(4 - 1) : builder'.block[builder.position + j] = text[j]
      /\ builder'.block[builder.position + 4] = Nul
  BY <1>1, <1>3, PrintedSized
<1>7. Prints(builder'.block, builder.position, m)
  <2>1. ASSUME NEW j \in 1..3 PROVE builder'.block[builder.position + j] = m[j]
    <3>1. j = 1 \/ j = 2 \/ j = 3
      OBVIOUS
    <3>2. text[j] = m[j]
      BY <1>3, <1>4, <3>1
    <3>3. j \in 1..(4 - 1)
      OBVIOUS
    <3> QED BY <1>6, <3>2, <3>3
  <2> QED BY <1>4, <2>1 DEF Prints
<1>8. m[Len(m)] \notin Openings
  BY <1>4, CellsDiffer
<1>9. TextMatches' /\ Separated'
  <2>1. /\ ThisCall.op \in {"set", "item", "enter"} /\ ThisCall.op # "enter"
        /\ builder'.position = builder.position + Len(m) + (IF ThisCall.op = "enter" THEN 0 ELSE 1)
        /\ builder'.block[builder'.position] = IF ThisCall.op = "set" THEN Nul ELSE Comma
        /\ m[Len(m)] \in Openings <=> ThisCall.op = "enter"
    <3>1. ThisCall.op \in {"set", "item", "enter"} /\ ThisCall.op # "enter"
      BY <1>1
    <3>2. builder'.position = builder.position + Len(m) + 1
      BY <1>4, <1>5, <1>6
    <3>3. builder'.block[builder'.position] = Nul
      BY <1>6
    <3> QED BY <1>1, <1>8, <3>1, <3>2, <3>3
  <2>2. Agree(builder'.block, builder.block, builder.position)
    BY <1>6
  <2> HIDE DEF Sized, SetScalar
  <2> QED BY <1>1, <1>4, <1>7, <2>1, <2>2, MemberStep
<1>10. Sized'
  BY <1>5, <1>6 DEF Sized
<1> QED BY <1>6, <1>9, <1>10

LEMMA AddItemStep ==
  ASSUME Building, Sized, AddItem
  PROVE  TextMatches' /\ Separated' /\ Sized' /\ builder'.toClose = TRUE
<1> DEFINE text == <<Value, Comma>>
           m == <<Value>>
<1>1. ThisCall.op = "item" /\ wanted' = Member(m) /\ builder' = Printed(builder, 3, text, TRUE)
  BY DEF AddItem, Step, ThisCall, SetItem
<1>2. Value \in Cells /\ Comma \in Cells
  BY DEF Cells
<1>3. /\ text \in Seq(Cells) /\ Len(text) = 2 /\ 3 \in 1..(Len(text) + 1)
      /\ text[1] = Value /\ text[2] = Comma
  BY <1>2
<1>4. m \in Seq(Cells) /\ m # <<>> /\ Len(m) = 1 /\ m[1] = Value
  BY <1>2
<1> HIDE DEF text, m
<1>5. builder.position \in Nat \ {0}
  BY DEF Sized
<1>6. /\ DOMAIN builder'.block = 1..(builder.position + 3)
      /\ builder'.position = builder.position + 2
      /\ builder'.toClose = TRUE
      /\ Agree(builder'.block, builder.block, builder.position)
      /\ \A j \in 1..(3 - 1) : builder'.block[builder.position + j] = text[j]
  BY <1>1, <1>3, PrintedSized
<1>7. builder'.block[builder.position + 1] = Value /\ builder'.block[builder.position + 2] = Comma
  <2>1. 1 \in 1..(3 - 1) /\ 2 \in 1..(3 - 1)
    OBVIOUS
  <2> QED BY <1>3, <1>6, <2>1
<1>8. Prints(builder'.block, builder.position, m)
  <2>1. ASSUME NEW j \in 1..Len(m) PROVE j = 1
    BY <1>4
  <2> QED BY <1>4, <1>7, <2>1 DEF Prints
<1>9. TextMatches' /\ Separated'
  <2>1. /\ ThisCall.op \in {"set", "item", "enter"} /\ ThisCall.op # "enter"
        /\ builder'.position = builder.position + Len(m) + (IF ThisCall.op = "enter" THEN 0 ELSE 1)
        /\ builder'.block[builder'.position] = IF ThisCall.op = "set" THEN Nul ELSE Comma
        /\ m[Len(m)] \in Openings <=> ThisCall.op = "enter"
    <3>1. /\ ThisCall.op \in {"set", "item", "enter"}
          /\ ThisCall.op # "enter" /\ ThisCall.op # "set"
      BY <1>1
    <3>2. builder'.position = builder.position + Len(m) + 1
      BY <1>4, <1>5, <1>6
    <3>3. builder'.block[builder'.position] = Comma
      BY <1>6, <1>7
    <3>4. m[Len(m)] \notin Openings
      BY <1>4, CellsDiffer
    <3> QED BY <3>1, <3>2, <3>3, <3>4
  <2>2. Agree(builder'.block, builder.block, builder.position)
    BY <1>6
  <2> QED BY <1>1, <1>4, <1>8, <2>1, <2>2, MemberStep
<1>10. Sized'
  <2>1. DOMAIN builder'.block = 1..(builder'.position + 1) /\ builder'.position \in Nat \ {0}
    BY <1>5, <1>6
  <2> QED BY <2>1 DEF Sized
<1> QED BY <1>6, <1>9, <1>10

LEMMA EnterStep ==
  ASSUME Building, Sized, Enter
  PROVE  TextMatches' /\ ~Separated' /\ Sized' /\ builder'.toClose = FALSE
<1> DEFINE text == <<Key, Colon, OpenObject>>
<1>1. ThisCall.op = "enter" /\ Key \in Cells /\ wanted' = Member(text)
      /\ builder' = Printed(builder, 4, text, FALSE)
  BY ScriptFacts DEF Enter, Step, ThisCall, EnterObject, Key, Cells
<1>2. Colon \in Cells /\ OpenObject \in Cells
  BY DEF Cells, Openings
<1>3. /\ text \in Seq(Cells) /\ text # <<>> /\ Len(text) = 3 /\ 4 \in 1..(Len(text) + 1)
      /\ text[3] = OpenObject
  BY <1>1, <1>2
<1> HIDE DEF text
<1>4. builder.position \in Nat \ {0}
  BY DEF Sized
<1>5. /\ DOMAIN builder'.block = 1..(builder.position + 4)
      /\ builder'.position = builder.position + 3
      /\ builder'.toClose = FALSE
      /\ Agree(builder'.block, builder.block, builder.position)
      /\ \A j \in 1..(4 - 1) : builder'.block[builder.position + j] = text[j]
  BY <1>1, <1>3, PrintedSized
<1>6. Prints(builder'.block, builder.position, text)
  <2>1. 1..Len(text) = 1..(4 - 1)
    BY <1>3
  <2> QED BY <1>5, <2>1 DEF Prints
<1>7. TextMatches' /\ ~Separated'
  <2>1. /\ ThisCall.op \in {"set", "item", "enter"} /\ ~(ThisCall.op # "enter")
        /\ builder'.position = builder.position + Len(text) + (IF ThisCall.op = "enter" THEN 0 ELSE 1)
        /\ text[Len(text)] \in Openings <=> ThisCall.op = "enter"
    <3>1. builder'.position = builder.position + Len(text) + 0
      BY <1>3, <1>4, <1>5
    <3>2. text[Len(text)] \in Openings
      BY <1>3 DEF Openings
    <3> QED BY <1>1, <3>1, <3>2
  <2>2. Agree(builder'.block, builder.block, builder.position)
    BY <1>5
  <2> QED BY <1>1, <1>3, <1>6, <2>1, <2>2, MemberStep
<1>8. Sized'
  <2>1. DOMAIN builder'.block = 1..(builder'.position + 1) /\ builder'.position \in Nat \ {0}
    BY <1>4, <1>5
  <2> QED BY <2>1 DEF Sized
<1> QED BY <1>5, <1>7, <1>8

(* A bracket closes an object, in the place of a separator if there is one. *)
LEMMA LeaveStep ==
  ASSUME Building, Sized, Leave, builder.toClose \in BOOLEAN, builder.toClose <=> Separated
  PROVE  TextMatches' /\ Separated' /\ Sized' /\ builder'.toClose = TRUE
<1> DEFINE p == Len(wanted)
           m == <<CloseObject>>
           old == builder.block
           new == builder'.block
<1>1. /\ wanted \in Seq(Cells) /\ wanted # <<>> /\ wanted[1] \in Openings
      /\ builder.position = p + (IF Separated THEN 1 ELSE 0)
      /\ Held(old, wanted) /\ (LostIn(old, wanted) <=> LostSoFar)
  BY DEF Building, TextMatches
<1>2. p \in Nat \ {0}
  BY <1>1, EmptySeq
<1>3. ThisCall.op = "leave" /\ wanted' = wanted \o m /\ builder' = LeaveObject(builder)
  BY DEF Leave, Step, ThisCall
<1>4. m \in Seq(Cells) /\ m # <<>> /\ Len(m) = 1 /\ m[1] = CloseObject
  BY DEF Cells
<1> HIDE DEF m
<1>5. /\ Agree(new, old, p) /\ new[p + 1] = CloseObject /\ new[p + 2] = Comma
      /\ builder'.position = p + 2 /\ builder'.toClose = TRUE
      /\ DOMAIN new = 1..(p + 2) \/ DOMAIN new = 1..(p + 3)
  <2>1. CASE builder.toClose
    <3>1. builder.position = p + 1
      BY <1>1, <1>2, <2>1
    <3> DEFINE r == Resized(old, p + 2)
    <3>2. /\ DOMAIN r = 1..(p + 2)
          /\ \A k \in 1..p : r[k] = old[k]
      <4>1. \A k \in 1..p : k \in DOMAIN old /\ k \in 1..(p + 2)
        BY <1>2, <3>1 DEF Sized
      <4> QED BY <4>1 DEF Resized
    <3> HIDE DEF r
    <3>3. /\ new = [r EXCEPT ![p + 1] = CloseObject, ![p + 2] = Comma]
          /\ builder'.position = p + 2 /\ builder'.toClose = TRUE
      <4>1. p + 1 + 1 = p + 2
        BY <1>2
      <4> QED BY <1>3, <2>1, <3>1, <4>1 DEF LeaveObject, r
    <3>4. p + 1 \in DOMAIN r /\ p + 2 \in DOMAIN r /\ p + 1 # p + 2
      BY <1>2, <3>2
    <3>5. \A k \in 1..p : k \in DOMAIN r /\ k # p + 1 /\ k # p + 2
      BY <1>2, <3>2
    <3> QED BY <3>2, <3>3, <3>4, <3>5 DEF Agree
  <2>2. CASE ~builder.toClose
    <3> DEFINE text == <<CloseObject, Comma>>
    <3>1. builder.position = p
      BY <1>1, <1>2, <2>2
    <3>2. builder' = Printed(builder, 3, text, TRUE)
      BY <1>3, <2>2 DEF LeaveObject
    <3>3. /\ text \in Seq(Cells) /\ Len(text) = 2 /\ 3 \in 1..(Len(text) + 1)
          /\ text[1] = CloseObject /\ text[2] = Comma
      BY DEF Cells
    <3> HIDE DEF text
    <3>4. /\ DOMAIN new = 1..(p + 3)
          /\ builder'.position = p + 2 /\ builder'.toClose = TRUE
          /\ Agree(new, old, p)
          /\ \A j \in 1..(3 - 1) : new[p + j] = text[j]
      <4>1. /\ DOMAIN builder'.block = 1..(builder.position + 3)
            /\ builder'.position = builder.position + 2 /\ builder'.toClose = TRUE
            /\ Agree(builder'.block, builder.block, builder.position)
            /\ \A j \in 1..(3 - 1) : builder'.block[builder.position + j] = text[j]
        BY <3>2, <3>3, PrintedSized
      <4> QED BY <3>1, <4>1
    <3>5. 1 \in 1..(3 - 1) /\ 2 \in 1..(3 - 1)
      OBVIOUS
    <3> QED BY <3>3, <3>4, <3>5
  <2> QED BY <2>1, <2>2
<1>6. Prints(new, p, m)
  <2>1. ASSUME NEW j \in 1..Len(m) PROVE j = 1
    BY <1>4
  <2> QED BY <1>4, <1>5, <2>1 DEF Prints
<1>7. Held(new, wanted') /\ (LostIn(new, wanted') <=> LostIn(old, wanted))
  <2>1. Follows(new, p, m) /\ ~Loses(new, p, m)
    BY <1>4, <1>6, PrintedTakesAll
  <2> QED BY <1>1, <1>3, <1>4, <1>5, <2>1, TextGrows
<1>8. /\ wanted' \in Seq(Cells) /\ wanted' # <<>> /\ Len(wanted') = p + 1
      /\ wanted'[1] = wanted[1] /\ wanted'[Len(wanted')] = CloseObject
  <2>1. LET t == wanted \o m IN
        /\ t \in Seq(Cells) /\ t # <<>> /\ Len(t) = p + 1
        /\ t[1] = wanted[1] /\ t[Len(t)] = CloseObject
    BY <1>1, <1>4, TextEnds
  <2> QED BY <1>3, <2>1
<1>9. /\ Separated' /\ script'[done'] = ThisCall
  <2>1. script' = script /\ done' = done + 1 /\ done \in Nat
    BY ScriptFacts DEF Building
  <2>2. script'[done'] = ThisCall /\ done' # 0
    BY <2>1 DEF ThisCall
  <2> QED BY <1>3, <2>2 DEF Separated
<1>10. LostSoFar' <=> LostSoFar
  BY <1>3, LostGrows
<1>11. builder'.position = Len(wanted') + 1
  BY <1>2, <1>5, <1>8
<1>12. new[builder'.position] = Comma
  BY <1>5
<1>13. TextMatches'
  BY <1>1, <1>3, <1>7, <1>8, <1>9, <1>10, <1>11, <1>12, CellsDiffer DEF TextMatches
<1>14. Sized'
  <2>1. builder'.position \in Nat \ {0} /\ builder'.position + 0 = p + 2 /\ builder'.position + 1 = p + 3
    BY <1>2, <1>5
  <2> QED BY <1>5, <2>1 DEF Sized
<1> QED BY <1>5, <1>9, <1>13, <1>14

(* Two functions on 1..n that have the same values, one of them a text.    *)
LEMMA TextEqual ==
  ASSUME NEW t \in Seq(Cells), NEW n, n = Len(t), NEW f, f = [i \in 1..n |-> f[i]]
  PROVE  f = t <=> \A i \in 1..n : f[i] = t[i]
<1>1. PICK k \in Nat : t \in [1..k -> Cells]
  BY SeqDef
<1>2. k = n /\ t = [i \in 1..n |-> t[i]]
  BY <1>1, LenProperties
<1> QED BY <1>2

(* What is sent is the text, but for the separators it has lost.           *)
LEMMA BodyIsText ==
  ASSUME NEW b, NEW t \in Seq(Cells), b.position = Len(t), Held(b.block, t)
  PROVE  Repaired(Body(b)) = t /\ (Body(b) = t <=> ~LostIn(b.block, t))
<1> DEFINE n == Len(t)
           s == Body(b)
<1>1. n \in Nat /\ DOMAIN t = 1..n /\ \A i \in 1..n : t[i] # Nul
  BY LenProperties, ElementOfSeq, CellsDiffer
<1>2. s = [i \in 1..n |-> b.block[i]]
  BY DEF Body
<1> HIDE DEF s
<1>3. s = [i \in 1..n |-> s[i]] /\ DOMAIN s = 1..n /\ \A i \in 1..n : s[i] = b.block[i]
  BY <1>2
<1>4. \A i \in 1..n : s[i] = t[i] \/ (s[i] = Nul /\ t[i] = Comma)
  BY <1>1, <1>3 DEF Held, Same
<1>5. Repaired(s) = t
  <2> DEFINE r == Repaired(s)
  <2>1. r = [i \in 1..n |-> IF s[i] = Nul THEN Comma ELSE s[i]]
    BY <1>3 DEF Repaired
  <2> HIDE DEF r
  <2>2. r = [i \in 1..n |-> r[i]] /\ \A i \in 1..n : r[i] = IF s[i] = Nul THEN Comma ELSE s[i]
    BY <2>1
  <2>3. \A i \in 1..n : r[i] = t[i]
    BY <1>1, <1>4, <2>2
  <2>4. r = t
    BY <2>2, <2>3, TextEqual
  <2> QED BY <2>4 DEF r
<1>6. s = t <=> ~LostIn(b.block, t)
  <2>1. s = t <=> \A i \in 1..n : s[i] = t[i]
    BY <1>3, TextEqual
  <2>2. LostIn(b.block, t) <=> \E i \in 1..n : s[i] = Nul
    BY <1>1, <1>3 DEF LostIn
  <2> QED BY <1>1, <1>4, <2>1, <2>2
<1> QED BY <1>5, <1>6 DEF s

(* At the end of a script every lost separator has been seen.              *)
LEMMA LostAtEnd ==
  ASSUME Building, ThisCall.op = "end"
  PROVE  LostSoFar <=> ScalarFollowed
<1>1. done = Len(script) - 1 /\ done \in Nat /\ Len(script) \in Nat \ {0}
  BY ScriptFacts
<1>2. ASSUME NEW i \in 1..(Len(script) - 1), script[i + 1].op \in {"set", "enter"}
      PROVE  i \in 1..(done - 1)
  <2>1. i # done
    BY <1>2 DEF ThisCall
  <2> QED BY <1>1, <2>1
<1>3. 1..(done - 1) \subseteq 1..(Len(script) - 1)
  BY <1>1
<1> QED BY <1>2, <1>3 DEF LostSoFar, ScalarFollowed

LEMMA SendStep ==
  ASSUME Building, Sized, SendBody
  PROVE  Sized' /\ builder'.toClose = builder.toClose
         /\ BodyButForSeparators' /\ ExactUnlessScalarFollowed'
<1> DEFINE p == Len(wanted)
           old == builder.block
           new == builder'.block
           c == Closing(wanted[1])
           m == <<c>>
<1>1. /\ wanted \in Seq(Cells) /\ wanted # <<>> /\ wanted[1] \in Openings
      /\ builder.position = p + (IF Separated THEN 1 ELSE 0)
      /\ Held(old, wanted) /\ (LostIn(old, wanted) <=> LostSoFar)
  BY DEF Building, TextMatches
<1>2. p \in Nat \ {0} /\ DOMAIN wanted = 1..p
  BY <1>1, EmptySeq, LenProperties
<1>3. ThisCall.op = "end" /\ wanted' = wanted \o m /\ builder' = End(builder) /\ script' = script
  BY DEF SendBody, Step, ThisCall
<1>4. c \in Cells /\ m \in Seq(Cells) /\ m # <<>> /\ Len(m) = 1 /\ m[1] = c
  <2>1. c \in Cells
    BY DEF Closing, Cells
  <2> QED BY <2>1
<1>5. old[1] = wanted[1]
  <2>1. 1 \in DOMAIN wanted
    BY <1>2
  <2> QED BY <1>1, <2>1, CellsDiffer DEF Held, Same
<1> HIDE DEF c, m
<1>6. /\ new = [old EXCEPT ![builder.position] = c]
      /\ builder'.position = builder.position /\ builder'.toClose = builder.toClose
  BY <1>3, <1>5 DEF End, c
<1>7. builder.position \in DOMAIN old
  <2>1. PICK more \in {0, 1} : DOMAIN old = 1..(builder.position + more)
    BY DEF Sized
  <2> QED BY <2>1 DEF Sized
<1>8. Sized'
  <2>1. DOMAIN new = DOMAIN old
    BY <1>6
  <2> QED BY <1>6, <2>1 DEF Sized
<1>9. ASSUME Len(script) > 1
      PROVE  /\ Repaired(Body(builder')) = wanted'
             /\ Body(builder') = wanted' <=> ~ScalarFollowed
  <2>1. Separated
    <3>1. done = Len(script) - 1 /\ done \in Nat /\ done # 0 /\ done \in 1..(Len(script) - 1)
      BY <1>3, <1>9, ScriptFacts
    <3>2. script[done].op # "enter"
      BY <1>3, <3>1 DEF Building, WellFormed, ThisCall
    <3> QED BY <3>1, <3>2 DEF Separated
  <2>2. builder.position = p + 1
    BY <1>1, <1>2, <2>1
  <2>3. new[p + 1] = c /\ Agree(new, old, p)
    <3>1. new[p + 1] = c
      BY <1>6, <1>7, <2>2
    <3>2. ASSUME NEW k \in 1..p PROVE new[k] = old[k]
      <4>1. k # p + 1 /\ k \in DOMAIN old
        BY <1>2, <2>2 DEF Sized
      <4> QED BY <1>6, <2>2, <4>1
    <3> QED BY <3>1, <3>2 DEF Agree
  <2>4. Prints(new, p, m)
    <3>1. ASSUME NEW j \in 1..Len(m) PROVE j = 1
      BY <1>4
    <3> QED BY <1>4, <2>3, <3>1 DEF Prints
  <2>5. Follows(new, p, m) /\ ~Loses(new, p, m)
    BY <1>4, <2>4, PrintedTakesAll
  <2>6. Held(new, wanted') /\ (LostIn(new, wanted') <=> LostIn(old, wanted))
    BY <1>1, <1>3, <1>4, <2>3, <2>5, TextGrows
  <2>7. wanted' \in Seq(Cells) /\ Len(wanted') = p + 1
    BY <1>1, <1>3, <1>4, TextEnds
  <2>8. LostSoFar <=> ScalarFollowed
    BY <1>3, LostAtEnd
  <2>9. builder'.position = Len(wanted')
    BY <1>6, <2>2, <2>7
  <2> QED BY <1>1, <2>6, <2>7, <2>8, <2>9, BodyIsText
<1>10. ScalarFollowed' <=> ScalarFollowed
  BY <1>3 DEF ScalarFollowed
<1> QED BY <1>3, <1>6, <1>8, <1>9, <1>10 DEF BodyButForSeparators, ExactUnlessScalarFollowed

LEMMA CrashStep ==
  ASSUME Building, Sized, CrashOnEqualizer
  PROVE  /\ builder'.position \in Nat \ {0} /\ builder'.toClose = FALSE
         /\ DOMAIN builder'.block = 1..(builder'.position - 1)
<1> DEFINE text == <<Key, Colon, OpenArray>>
<1>1. Key \in Cells /\ builder' = Printed(builder, 2, text, FALSE)
  BY ScriptFacts DEF CrashOnEqualizer, Step, ThisCall, EnterArray, Key, Cells
<1>2. Colon \in Cells /\ OpenArray \in Cells
  BY DEF Cells, Openings
<1>3. text \in Seq(Cells) /\ Len(text) = 3 /\ 2 \in 1..(Len(text) + 1)
  BY <1>1, <1>2
<1> HIDE DEF text
<1>4. builder.position \in Nat \ {0}
  BY DEF Sized
<1>5. /\ DOMAIN builder'.block = 1..(builder.position + 2)
      /\ builder'.position = builder.position + 3
      /\ builder'.toClose = FALSE
  BY <1>1, <1>3, PrintedSized
<1>6. builder'.position - 1 = builder.position + 2 /\ builder'.position \in Nat \ {0}
  BY <1>4, <1>5
<1> QED BY <1>5, <1>6

-----------------------------------------------------------------------------
(* The invariant, step by step.                                            *)
LEMMA BodyStep ==
  ASSUME BodyInv, [Next]_vars
  PROVE  BodyInv'
<1>1. CASE UNCHANGED vars
  BY <1>1 DEF vars, BodyInv, TextMatches, Separated, LostSoFar, BodyButForSeparators,
              ExactUnlessScalarFollowed, ScalarFollowed
<1>2. ASSUME NEW op, Step(op)
      PROVE  /\ Building /\ Sized /\ WellFormed(script') /\ ThisCall.op = op
             /\ status = "building" /\ builder.toClose \in BOOLEAN
             /\ builder.toClose <=> Separated
             /\ op # "end" => done' \in 0..(Len(script') - 1)
  <2>1. status = "building" /\ done' = done + 1 /\ script' = script /\ ThisCall.op = op
    BY <1>2 DEF Step, ThisCall
  <2>2. Building
    BY <2>1 DEF BodyInv, Building
  <2>3. Sized
    <3>1. PICK more \in {-1, 0, 1} : /\ DOMAIN builder.block = 1..(builder.position + more)
                                     /\ more = -1 => status = "crashed"
      BY DEF BodyInv
    <3>2. more \in {0, 1}
      BY <2>1, <3>1
    <3> QED BY <3>1, <3>2 DEF Sized, BodyInv
  <2>4. op # "end" => done' \in 0..(Len(script') - 1)
    BY <2>1, <2>2, ScriptFacts
  <2> QED BY <2>1, <2>2, <2>3, <2>4 DEF BodyInv
<1>3. ASSUME NEW op, Step(op), op # "end", status' = status, TextMatches', Sized',
             builder'.toClose \in BOOLEAN, builder'.toClose <=> Separated'
      PROVE  BodyInv'
  <2>1. /\ WellFormed(script') /\ status' = "building" /\ done' \in 0..(Len(script') - 1)
    BY <1>2, <1>3
  <2>2. \E more \in {-1, 0, 1} : /\ DOMAIN builder'.block = 1..(builder'.position + more)
                                 /\ more = -1 => status' = "crashed"
    BY <1>3 DEF Sized
  <2>3. builder'.position \in Nat \ {0}
    BY <1>3 DEF Sized
  <2>4. BodyButForSeparators' /\ ExactUnlessScalarFollowed'
    BY <2>1 DEF BodyButForSeparators, ExactUnlessScalarFollowed
  <2> QED BY <1>3, <2>1, <2>2, <2>3, <2>4 DEF BodyInv
<1>4. CASE SetScalar
  <2>1. Step("set") /\ status' = status
    BY <1>4 DEF SetScalar
  <2>2. TextMatches' /\ Separated' /\ Sized' /\ builder'.toClose = TRUE
    BY <1>2, <1>4, <2>1, SetScalarStep
  <2> QED BY <1>3, <2>1, <2>2
<1>5. CASE AddItem
  <2>1. Step("item") /\ status' = status
    BY <1>5 DEF AddItem
  <2>2. TextMatches' /\ Separated' /\ Sized' /\ builder'.toClose = TRUE
    BY <1>2, <1>5, <2>1, AddItemStep
  <2> QED BY <1>3, <2>1, <2>2
<1>6. CASE Enter
  <2>1. Step("enter") /\ status' = status
    BY <1>6 DEF Enter
  <2>2. TextMatches' /\ ~Separated' /\ Sized' /\ builder'.toClose = FALSE
    BY <1>2, <1>6, <2>1, EnterStep
  <2>3. builder'.toClose <=> Separated'
    BY <2>2
  <2> QED BY <1>3, <2>1, <2>2, <2>3
<1>7. CASE Leave
  <2>1. Step("leave") /\ status' = status
    BY <1>7 DEF Leave
  <2>2. TextMatches' /\ Separated' /\ Sized' /\ builder'.toClose = TRUE
    BY <1>2, <1>7, <2>1, LeaveStep
  <2> QED BY <1>3, <2>1, <2>2
<1>8. CASE SendBody
  <2>1. Step("end") /\ status' = "sent"
    BY <1>8 DEF SendBody
  <2>2. /\ Sized' /\ builder'.toClose = builder.toClose
        /\ BodyButForSeparators' /\ ExactUnlessScalarFollowed'
    BY <1>2, <1>8, <2>1, SendStep
  <2>3. \E more \in {-1, 0, 1} : /\ DOMAIN builder'.block = 1..(builder'.position + more)
                                 /\ more = -1 => status' = "crashed"
    BY <2>2 DEF Sized
  <2>4. builder'.position \in Nat \ {0} /\ WellFormed(script') /\ builder'.toClose \in BOOLEAN
    BY <1>2, <2>1, <2>2 DEF Sized
  <2> QED BY <2>1, <2>2, <2>3, <2>4 DEF BodyInv
<1>9. CASE CrashOnEqualizer
  <2>1. Step("crash") /\ status' = "crashed"
    BY <1>9 DEF CrashOnEqualizer
  <2>2. /\ builder'.position \in Nat \ {0} /\ builder'.toClose = FALSE
        /\ DOMAIN builder'.block = 1..(builder'.position - 1)
    BY <1>2, <1>9, <2>1, CrashStep
  <2>3. \E more \in {-1, 0, 1} : /\ DOMAIN builder'.block = 1..(builder'.position + more)
                                 /\ more = -1 => status' = "crashed"
    BY <2>1, <2>2
  <2>4. WellFormed(script') /\ builder'.toClose \in BOOLEAN
    BY <1>2, <2>1, <2>2
  <2>5. BodyButForSeparators' /\ ExactUnlessScalarFollowed'
    BY <2>1 DEF BodyButForSeparators, ExactUnlessScalarFollowed
  <2> QED BY <2>1, <2>2, <2>3, <2>4, <2>5 DEF BodyInv
<1> QED BY <1>1, <1>4, <1>5, <1>6, <1>7, <1>8, <1>9 DEF Next

-----------------------------------------------------------------------------
(* A part of a script: what is neither the end nor an item, and does not   *)
(* stop right after an object was entered.                                 *)
PartCalls == [op : {"set", "enter", "leave", "crash"}, key : Keys]
Part(c) == c \in Seq(PartCalls) /\ (c # <<>> => c[Len(c)].op # "enter")

LEMMA NoPart == Part(<<>>)
BY DEF Part

LEMMA OneCall ==
  ASSUME NEW op \in {"set", "enter", "leave", "crash"}, NEW key \in Keys
  PROVE  /\ <<Call(op, key)>> \in Seq(PartCalls) /\ <<Call(op, key)>> # <<>>
         /\ Len(<<Call(op, key)>>) = 1 /\ <<Call(op, key)>>[1].op = op
         /\ op # "enter" => Part(<<Call(op, key)>>)
<1>1. Call(op, key) \in PartCalls /\ Call(op, key).op = op
  BY DEF Call, PartCalls
<1> DEFINE c == Call(op, key)
           s == <<c>>
<1> HIDE DEF c
<1>2. s \in Seq(PartCalls) /\ s # <<>> /\ Len(s) = 1 /\ s[1] = c
  BY <1>1 DEF c
<1> HIDE DEF s
<1>3. op # "enter" => Part(s)
  BY <1>1, <1>2 DEF Part, c
<1> QED BY <1>1, <1>2, <1>3 DEF c, s

LEMMA JoinedParts ==
  ASSUME NEW c, NEW d, Part(c), Part(d)
  PROVE  Part(c \o d)
<1>1. c \in Seq(PartCalls) /\ d \in Seq(PartCalls)
  BY DEF Part
<1>2. c \o d \in Seq(PartCalls)
  BY <1>1, ConcatProperties
<1>3. CASE d = <<>>
  <2>1. c \o d = c
    BY <1>1, <1>3, ConcatEmptySeq
  <2> QED BY <2>1
<1>4. CASE d # <<>>
  <2>1. Len(d) \in Nat \ {0}
    BY <1>1, <1>4, EmptySeq
  <2>2. /\ Len(c \o d) = Len(c) + Len(d)
        /\ \A j \in 1..Len(d) : (c \o d)[Len(c) + j] = d[j]
    BY <1>1, ConcatFacts
  <2>3. Len(d) \in 1..Len(d)
    BY <2>1
  <2>4. (c \o d)[Len(c \o d)] = d[Len(d)]
    BY <2>2, <2>3
  <2> QED BY <1>2, <1>4, <2>4 DEF Part
<1> QED BY <1>3, <1>4

LEMMA ObjectPart ==
  ASSUME NEW key \in Keys, NEW c, Part(c)
  PROVE  Part(Object(key, c))
<1> DEFINE e == <<Call("enter", key)>>
           l == <<Call("leave", key)>>
<1>1. e \in Seq(PartCalls) /\ Part(l) /\ l # <<>> /\ Len(l) = 1 /\ l \in Seq(PartCalls)
      /\ l[1].op = "leave"
  BY OneCall
<1> HIDE DEF e, l
<1>2. c \in Seq(PartCalls)
  BY DEF Part
<1>3. e \o c \in Seq(PartCalls)
  BY <1>1, <1>2, ConcatProperties
<1>4. /\ (e \o c) \o l \in Seq(PartCalls)
      /\ Len((e \o c) \o l) = Len(e \o c) + 1
      /\ ((e \o c) \o l)[Len(e \o c) + 1] = l[1]
  <2>1. \A j \in 1..Len(l) : ((e \o c) \o l)[Len(e \o c) + j] = l[j]
    BY <1>1, <1>3, ConcatFacts
  <2>2. (e \o c) \o l \in Seq(PartCalls) /\ Len((e \o c) \o l) = Len(e \o c) + Len(l)
    BY <1>1, <1>3, ConcatProperties
  <2> QED BY <1>1, <2>1, <2>2
<1>5. Part((e \o c) \o l)
  BY <1>1, <1>4 DEF Part
<1> QED BY <1>5 DEF Object, e, l

(* A script is a part and the end.                                         *)
LEMMA EndedPart ==
  ASSUME NEW c, Part(c)
  PROVE  WellFormed(c \o <<Call("end", NoKey)>>)
<1> DEFINE e == <<Call("end", NoKey)>>
           n == Len(c)
           s == c \o e
           R == [op : CallKinds, key : Keys]
<1>1. e \in Seq(R) /\ Len(e) = 1 /\ e[1].op = "end"
  <2>1. Call("end", NoKey) \in R /\ Call("end", NoKey).op = "end"
    BY CellsDiffer DEF Call, CallKinds
  <2> QED BY <2>1
<1>2. c \in Seq(R) /\ n \in Nat /\ DOMAIN c = 1..n
      /\ \A i \in 1..n : c[i].op \in {"set", "enter", "leave", "crash"}
  <2>1. c \in Seq(PartCalls) /\ PartCalls \subseteq R
    BY DEF Part, PartCalls, CallKinds
  <2>2. n \in Nat /\ DOMAIN c = 1..n /\ \A i \in 1..n : c[i] \in PartCalls
    BY <2>1, LenProperties, ElementOfSeq
  <2>3. \A i \in 1..n : c[i].op \in {"set", "enter", "leave", "crash"}
    BY <2>2 DEF PartCalls
  <2> QED BY <2>1, <2>2, <2>3, SeqMonotonic
<1> HIDE DEF e, R
<1>3. /\ s \in Seq(R) /\ Len(s) = n + 1 /\ DOMAIN s = 1..(n + 1)
      /\ \A i \in 1..n : s[i] = c[i]
      /\ s[n + 1].op = "end"
  <2>1. /\ s \in Seq(R) /\ Len(s) = n + Len(e) /\ DOMAIN s = 1..(n + Len(e))
        /\ \A i \in 1..n : s[i] = c[i]
        /\ \A j \in 1..Len(e) : s[n + j] = e[j]
    <3>1. c \in Seq(R) /\ e \in Seq(R)
      BY <1>1, <1>2
    <3> QED BY <3>1, ConcatFacts
  <2> QED BY <1>1, <2>1
<1> HIDE DEF s
<1>4. \A i \in 1..(n + 1) : i \in 1..n \/ i = n + 1
  BY <1>2
<1>5. \A i \in 1..n : s[i].op \in {"set", "enter", "leave", "crash"}
  BY <1>2, <1>3
<1>6. \A i \in DOMAIN s : s[i].op = "end" <=> i = Len(s)
  <2>1. \A i \in 1..n : i # n + 1
    BY <1>2
  <2> QED BY <1>3, <1>4, <1>5, <2>1
<1>7. ASSUME NEW i \in 1..n
      PROVE  /\ s[i].op = "enter" => s[i + 1].op # "end"
             /\ s[i + 1].op = "item" => s[i].op = "item"
  <2>1. n \in Nat /\ (i = n \/ i + 1 \in 1..n)
    BY <1>2
  <2>2. CASE i = n
    <3>1. c # <<>>
      <4>1. n # 0
        BY <2>1, <2>2
      <4> QED BY <4>1
    <3>2. s[n].op # "enter"
      BY <1>3, <2>1, <2>2, <3>1 DEF Part
    <3> QED BY <1>3, <2>2, <3>2
  <2>3. CASE i + 1 \in 1..n
    BY <1>5, <2>3
  <2> QED BY <2>1, <2>2, <2>3
<1>8. s # <<>>
  BY <1>2, <1>3
<1>9. 1..(Len(s) - 1) = 1..n
  BY <1>2, <1>3
<1> QED BY <1>3, <1>6, <1>7, <1>8, <1>9 DEF WellFormed, s, R, e

LEMMA SetsArePart ==
  ASSUME NEW c \in Seq({Set(k) : k \in Keys})
  PROVE  Part(c)
<1>1. ASSUME NEW k \in Keys PROVE Set(k) \in PartCalls /\ Set(k).op # "enter"
  BY DEF Set, Call, PartCalls
<1>2. {Set(k) : k \in Keys} \subseteq PartCalls
  BY <1>1
<1>3. c \in Seq(PartCalls)
  BY <1>2, SeqMonotonic
<1>4. ASSUME c # <<>> PROVE c[Len(c)].op # "enter"
  <2>1. Len(c) \in Nat \ {0}
    BY <1>4, EmptySeq
  <2>2. Len(c) \in 1..Len(c)
    BY <2>1
  <2>3. c[Len(c)] \in {Set(k) : k \in Keys}
    BY <2>2, ElementOfSeq
  <2> QED BY <1>1, <2>3
<1> QED BY <1>3, <1>4 DEF Part

LEMMA OptionalPart ==
  ASSUME NEW key \in Keys, NEW S
  PROVE  Part(Optional(key, S))
<1>1. <<Set(key)>> \in Seq({Set(k) : k \in Keys})
  OBVIOUS
<1> QED BY <1>1, SetsArePart, NoPart DEF Optional

LEMMA FilterParts ==
  \A name \in FilterNames \ {"volume", "equalizer"} : Part(FilterFields[name])
<1> DEFINE Sets == {Set(k) : k \in Keys}
<1>1. \A k \in Keys : Set(k) \in Sets
  OBVIOUS
<1> HIDE DEF Sets
<1>2. /\ Set("level") \in Sets /\ Set("monoLevel") \in Sets /\ Set("filterBand") \in Sets
      /\ Set("filterWidth") \in Sets /\ Set("speed") \in Sets /\ Set("pitch") \in Sets
      /\ Set("rate") \in Sets /\ Set("frequency") \in Sets /\ Set("depth") \in Sets
  BY <1>1 DEF Keys
<1>3. /\ Set("sinOffset") \in Sets /\ Set("sinScale") \in Sets /\ Set("cosOffset") \in Sets
      /\ Set("cosScale") \in Sets /\ Set("tanOffset") \in Sets /\ Set("tanScale") \in Sets
      /\ Set("offset") \in Sets /\ Set("scale") \in Sets
  BY <1>1 DEF Keys
<1>4. /\ Set("leftToLeft") \in Sets /\ Set("leftToRight") \in Sets
      /\ Set("rightToLeft") \in Sets /\ Set("rightToRight") \in Sets
      /\ Set("smoothing") \in Sets
  BY <1>1 DEF Keys
<1>5. FilterFields.karaoke \in Seq(Sets)
  BY <1>2 DEF FilterFields
<1>6. FilterFields.timescale \in Seq(Sets)
  BY <1>2 DEF FilterFields
<1>7. /\ FilterFields.tremolo \in Seq(Sets) /\ FilterFields.vibrato \in Seq(Sets)
      /\ FilterFields.rotation \in Seq(Sets)
  BY <1>2 DEF FilterFields
<1>8. FilterFields.distortion \in Seq(Sets)
  BY <1>3 DEF FilterFields
<1>9. FilterFields.channelMix \in Seq(Sets) /\ FilterFields.lowPass \in Seq(Sets)
  BY <1>4 DEF FilterFields
<1>10. \A name \in FilterNames \ {"volume", "equalizer"} : FilterFields[name] \in Seq(Sets)
  BY <1>5, <1>6, <1>7, <1>8, <1>9 DEF FilterNames
<1> QED BY <1>10, SetsArePart DEF Sets

LEMMA FilterPart ==
  ASSUME NEW name \in FilterNames \ {"volume", "equalizer"}, NEW S
  PROVE  Part(Filter(name, S))
<1>1. name \in Keys
  BY DEF Keys
<1>2. Part(Object(name, FilterFields[name]))
  BY <1>1, FilterParts, ObjectPart
<1> QED BY <1>2, NoPart DEF Filter

LEMMA EqualizerPart == ASSUME NEW S PROVE Part(Equalizer(S))
<1>1. "equalizer" \in Keys
  BY DEF Keys, FilterNames
<1>2. Part(<<Call("crash", "equalizer")>>)
  BY <1>1, OneCall
<1> QED BY <1>2, NoPart DEF Equalizer

LEMMA TrackPart == ASSUME NEW S PROVE Part(Object("track", TrackFields(S)))
<1>1. /\ "track" \in Keys /\ "encoded" \in Keys /\ "identifier" \in Keys
      /\ "userData" \in Keys
  BY DEF Keys
<1>2. Part(Optional("encoded", S) \o Optional("identifier", S))
  BY <1>1, OptionalPart, JoinedParts
<1>3. Part(TrackFields(S))
  BY <1>1, <1>2, OptionalPart, JoinedParts DEF TrackFields
<1> QED BY <1>1, <1>3, ObjectPart

LEMMA TopPart == ASSUME NEW S PROVE Part(TopFields(S))
<1>1. /\ "position" \in Keys /\ "endTime" \in Keys /\ "volume" \in Keys
      /\ "paused" \in Keys
  BY DEF Keys, FilterNames
<1>2. Part(Optional("position", S) \o Optional("endTime", S))
  BY <1>1, OptionalPart, JoinedParts
<1>3. Part((Optional("position", S) \o Optional("endTime", S)) \o Optional("volume", S))
  BY <1>1, <1>2, OptionalPart, JoinedParts
<1> QED BY <1>1, <1>3, OptionalPart, JoinedParts DEF TopFields

LEMMA FiltersPart == ASSUME NEW S PROVE Part(FilterCalls(S))
<1>1. /\ "volume" \in Keys /\ "filters" \in Keys
      /\ {"karaoke", "timescale", "tremolo", "vibrato", "rotation", "distortion",
          "channelMix", "lowPass"} \subseteq FilterNames \ {"volume", "equalizer"}
  BY DEF Keys, FilterNames
<1> DEFINE a == Optional("volume", S) \o Equalizer(S)
           b == (a \o Filter("karaoke", S)) \o Filter("timescale", S)
           c == (b \o Filter("tremolo", S)) \o Filter("vibrato", S)
           d == (c \o Filter("rotation", S)) \o Filter("distortion", S)
           e == (d \o Filter("channelMix", S)) \o Filter("lowPass", S)
<1>2. Part(a)
  BY <1>1, OptionalPart, EqualizerPart, JoinedParts
<1> HIDE DEF a
<1>3. Part(b)
  BY <1>1, <1>2, FilterPart, JoinedParts
<1> HIDE DEF b
<1>4. Part(c)
  BY <1>1, <1>3, FilterPart, JoinedParts
<1> HIDE DEF c
<1>5. Part(d)
  BY <1>1, <1>4, FilterPart, JoinedParts
<1> HIDE DEF d
<1>6. Part(e)
  BY <1>1, <1>5, FilterPart, JoinedParts
<1> HIDE DEF e
<1>7. Part(Object("filters", e))
  BY <1>1, <1>6, ObjectPart
<1> QED BY <1>7 DEF FilterCalls, a, b, c, d, e

(* Every request is a well-formed script.                                  *)
LEMMA PlayerScript == ASSUME NEW p PROVE WellFormed(UpdatePlayerCalls(p))
<1> DEFINE a == IF p.track = {} THEN <<>> ELSE Object("track", TrackFields(UNION p.track))
           b == IF p.filters = {} THEN <<>> ELSE FilterCalls(UNION p.filters)
<1>1. Part(a) /\ Part(b)
  BY NoPart, TrackPart, FiltersPart
<1> HIDE DEF a, b
<1>2. Part((a \o TopFields(p.top)) \o b)
  BY <1>1, TopPart, JoinedParts
<1> QED BY <1>2, EndedPart DEF UpdatePlayerCalls, a, b

LEMMA SessionScript == ASSUME NEW S PROVE WellFormed(UpdateSessionCalls(S))
<1>1. "resuming" \in Keys /\ "timeout" \in Keys
  BY DEF Keys
<1>2. Part(Optional("resuming", S) \o Optional("timeout", S))
  BY <1>1, OptionalPart, JoinedParts
<1> QED BY <1>2, EndedPart DEF UpdateSessionCalls

LEMMA TracksScript == ASSUME NEW n \in Nat PROVE WellFormed(DecodeTracksCalls(n))
<1> DEFINE R == [op : CallKinds, key : Keys]
           c == [i \in 1..n |-> Call("item", NoKey)]
           e == <<Call("end", NoKey)>>
           s == c \o e
<1>1. /\ Call("item", NoKey) \in R /\ Call("item", NoKey).op = "item"
      /\ Call("end", NoKey) \in R /\ Call("end", NoKey).op = "end"
  BY CellsDiffer DEF Call, CallKinds
<1>2. c \in Seq(R) /\ Len(c) = n /\ \A i \in 1..n : c[i].op = "item"
  <2>1. c \in [1..n -> R]
    BY <1>1
  <2> QED BY <1>1, <2>1
<1>3. e \in Seq(R) /\ Len(e) = 1 /\ e[1].op = "end"
  BY <1>1
<1> HIDE DEF R, c, e
<1>4. /\ s \in Seq(R) /\ Len(s) = n + 1 /\ DOMAIN s = 1..(n + 1)
      /\ \A i \in 1..n : s[i].op = "item"
      /\ s[n + 1].op = "end"
  <2>1. /\ s \in Seq(R) /\ Len(s) = n + Len(e) /\ DOMAIN s = 1..(n + Len(e))
        /\ \A i \in 1..n : s[i] = c[i]
        /\ \A j \in 1..Len(e) : s[n + j] = e[j]
    <3>1. c \in Seq(R) /\ e \in Seq(R) /\ n = Len(c)
      BY <1>2, <1>3
    <3> QED BY <3>1, ConcatFacts
  <2> QED BY <1>2, <1>3, <2>1
<1> HIDE DEF s
<1>5. \A i \in DOMAIN s : s[i].op = "end" <=> i = Len(s)
  <2>1. \A i \in 1..(n + 1) : i = n + 1 \/ (i \in 1..n /\ i # n + 1)
    OBVIOUS
  <2> QED BY <1>4, <2>1
<1>6. 1..(Len(s) - 1) = 1..n /\ s # <<>>
  BY <1>4
<1> QED BY <1>4, <1>5, <1>6 DEF WellFormed, DecodeTracksCalls, s, R, c, e

-----------------------------------------------------------------------------
LEMMA BodyInit == Init => BodyInv
<1> SUFFICES ASSUME NEW opening \in Openings, NEW calls, WellFormed(calls),
                    Begin(opening, calls)
             PROVE  BodyInv
  <2>1. OpenObject \in Openings /\ OpenArray \in Openings
    BY DEF Openings
  <2> QED BY <2>1, PlayerScript, SessionScript, TracksScript DEF Init
<1>1. /\ builder.block = <<opening>> /\ builder.position = 1 /\ builder.toClose = FALSE
      /\ script = calls /\ wanted = <<opening>> /\ done = 0 /\ status = "building"
  BY DEF Begin, NewBuilder
<1>2. opening \in Cells /\ <<opening>> \in Seq(Cells) /\ DOMAIN <<opening>> = 1..1
      /\ Len(<<opening>>) = 1 /\ <<opening>>[1] = opening /\ <<opening>> # <<>>
  <2>1. opening \in Cells
    BY DEF Cells
  <2> QED BY <2>1
<1>3. ~Separated /\ ~LostSoFar
  BY <1>1 DEF Separated, LostSoFar
<1>4. Held(builder.block, wanted) /\ ~LostIn(builder.block, wanted)
  BY <1>1, <1>2, CellsDiffer DEF Held, LostIn, Same
<1>5. TextMatches
  BY <1>1, <1>2, <1>3, <1>4 DEF TextMatches
<1>6. done \in 0..(Len(script) - 1)
  <2>1. Len(calls) \in Nat \ {0}
    BY EmptySeq DEF WellFormed
  <2> QED BY <1>1, <2>1
<1>7. \E more \in {-1, 0, 1} : /\ DOMAIN builder.block = 1..(builder.position + more)
                               /\ more = -1 => status = "crashed"
  <2>1. DOMAIN builder.block = 1..(builder.position + 0)
    BY <1>1, <1>2
  <2> QED BY <2>1
<1>8. BodyButForSeparators /\ ExactUnlessScalarFollowed
  BY <1>1 DEF BodyButForSeparators, ExactUnlessScalarFollowed
<1>9. builder.toClose \in BOOLEAN /\ (builder.toClose <=> Separated)
  BY <1>1, <1>3
<1> QED BY <1>1, <1>5, <1>6, <1>7, <1>8, <1>9 DEF BodyInv

(* The inductive invariant of RequestBodies: while a body is being built,  *)
(* the block holds the text asked for so far and the flag tells whether a  *)
(* separator follows it (external/jsonb.c).                                *)
THEOREM BodyInvariant == Spec => []BodyInv
<1>1. BodyInv /\ [Next]_vars => BodyInv'
  BY BodyStep
<1> QED BY <1>1, BodyInit, PTL DEF Spec

(* Every byte written in place or sent lies inside the block, whatever     *)
(* fields are set (external/jsonb.c, lib/rest.c:382-518).                  *)
THEOREM TextStaysInBlock == Spec => []TextInBlock
<1>1. BodyInv => TextInBlock
  <2> SUFFICES ASSUME BodyInv, status # "crashed"
               PROVE  builder.position \in DOMAIN builder.block
    BY DEF BodyInv, TextInBlock
  <2>1. PICK more \in {-1, 0, 1} : /\ DOMAIN builder.block = 1..(builder.position + more)
                                   /\ more = -1 => status = "crashed"
    BY DEF BodyInv
  <2>2. more \in {0, 1} /\ builder.position \in Nat \ {0}
    BY <2>1 DEF BodyInv
  <2> QED BY <2>1, <2>2
<1> QED BY <1>1, BodyInvariant, PTL

(* For every set of fields and any number of tracks, the body sent is the  *)
(* JSON text asked for, but for separators that became NULs.               *)
THEOREM BodiesButForSeparators == Spec => []BodyButForSeparators
<1>1. BodyInv => BodyButForSeparators
  BY DEF BodyInv
<1> QED BY <1>1, BodyInvariant, PTL

(* For every set of fields and any number of tracks, a separator is lost   *)
(* exactly after a keyed value that another member follows.                *)
THEOREM BodiesExact == Spec => []ExactUnlessScalarFollowed
<1>1. BodyInv => ExactUnlessScalarFollowed
  BY DEF BodyInv
<1> QED BY <1>1, BodyInvariant, PTL
=============================================================================
