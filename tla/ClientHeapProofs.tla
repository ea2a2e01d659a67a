-------------------------- MODULE ClientHeapProofs --------------------------
(***************************************************************************)
(* Proofs about ClientHeap, for any number of messages, any sizes of the   *)
(* arrays in their answers and any early return.                           *)
(***************************************************************************)
EXTENDS ClientHeap, SequenceTheorems, WellFoundedInduction, TLAPS

Requests == {"curl", "full_url", "authorization", "chunk", "jsonber", "payload_text"}

(* A sequence of frees finds every block it frees, once each.              *)
Frees(L, s) ==
  /\ \E U : s \in Seq(U)
  /\ \A k \in DOMAIN s : /\ s[k].do = "free"
                         /\ s[k].block \in L /\ s[k].block[1] # "session_id"
                         /\ \A j \in DOMAIN s : s[j].block = s[k].block => j = k

Left(L, s) == {b \in L : \A k \in DOMAIN s : s[k].block # b}

(* What a step of message `c`, with arrays of `n` elements, makes of the   *)
(* blocks L that the message has allocated.  At an early return, what the  *)
(* callers undo leaves no request behind, unless the handler goes on.  In  *)
(* place of a call, `c` is "RELEASE" for the steps of the application,     *)
(* which returns nothing.                                                  *)
Does(c, n, step, L, M) ==
  \/ /\ step.do = "malloc"
     /\ step.block[2] \in 0..n /\ M = L \cup {step.block}
  \/ /\ step.do = "free"
     /\ step.block \in L /\ step.block[1] # "session_id" /\ M = L \ {step.block}
  \/ /\ step.do = "use"
     /\ step.blocks \subseteq L /\ M = L
  \/ /\ step.do = "keep"
     /\ c = "READY" /\ step.block = <<"session_id", 0>> /\ step.block \in L /\ M = L
  \/ /\ step.do = "check"
     /\ c # "RELEASE" /\ step.code \in Codes \ {"SUCCESS"} /\ M = L
     /\ \/ /\ Frees(L, step.undo)
           /\ step.code # "EXIT" => \A b \in Left(L, step.undo) : b[1] \notin Requests
        \/ /\ step.undo = Unwritten /\ step.code = "PARSE_FAILED" /\ c \in FallsThrough
           /\ \A b \in L : b[1] \notin Requests

(* The steps s are safe from L on, and lead to M.                          *)
Runs(c, n, L, s, M) ==
  /\ \E U : s \in Seq(U)
  /\ \E live : /\ live[0] = L /\ live[Len(s)] = M
               /\ \A k \in 1..Len(s) : Does(c, n, s[k], live[k - 1], live[k])

-----------------------------------------------------------------------------
(* Induction on the natural numbers, over a set of them.                   *)
LEMMA LeastNumber ==
  ASSUME NEW T \in SUBSET Nat, T # {}
  PROVE  \E m \in T : \A k \in T : m <= k
<1>1. PICK m \in T : \A k \in T : ~(<<k, m>> \in OpToRel(<, Nat))
  BY NatLessThanWellFounded, WFMin
<1>2. ASSUME NEW k \in T PROVE m <= k
  <2>1. ~(k < m)
    BY <1>1 DEF OpToRel
  <2> QED BY <2>1
<1> QED BY <1>2

LEMMA Induction ==
  ASSUME NEW T \in SUBSET Nat, 0 \in T, \A k \in T : k + 1 \in T
  PROVE  T = Nat
<1> DEFINE U == Nat \ T
<1> SUFFICES ASSUME U # {} PROVE FALSE
  OBVIOUS
<1>1. PICK m \in U : \A k \in U : m <= k
  <2>1. U \in SUBSET Nat
    OBVIOUS
  <2> HIDE DEF U
  <2> QED BY <2>1, LeastNumber
<1>2. m # 0 /\ m - 1 \in Nat /\ m - 1 \in T
  BY <1>1
<1> QED BY <1>1, <1>2

-----------------------------------------------------------------------------
LEMMA RunsNone == ASSUME NEW c, NEW n, NEW L PROVE Runs(c, n, L, <<>>, L)
<1> DEFINE s == <<>>
           live == [k \in {0} |-> L]
<1>1. s \in Seq({}) /\ Len(s) = 0 /\ live[0] = L
  OBVIOUS
<1> HIDE DEF s, live
<1>2. 1..Len(s) = {}
  BY <1>1
<1>3. Runs(c, n, L, s, L)
  BY <1>1, <1>2 DEF Runs
<1> QED BY <1>3 DEF s

(* What follows a step that was made.                                      *)
LEMMA RunsStep ==
  ASSUME NEW c, NEW n, NEW L, NEW s, NEW M, Runs(c, n, L, s, M)
  PROVE  IF s = <<>> THEN M = L
         ELSE \E K : Does(c, n, Head(s), L, K) /\ Runs(c, n, K, Tail(s), M)
<1>1. PICK U : s \in Seq(U)
  BY DEF Runs
<1>2. PICK live : /\ live[0] = L /\ live[Len(s)] = M
                  /\ \A k \in 1..Len(s) : Does(c, n, s[k], live[k - 1], live[k])
  BY DEF Runs
<1>3. CASE s = <<>>
  <2>1. Len(s) = 0
    BY <1>3
  <2> QED BY <1>2, <1>3, <2>1
<1>4. CASE s # <<>>
  <2> DEFINE t == Tail(s)
             next == [k \in 0..Len(t) |-> live[k + 1]]
  <2>1. /\ Len(s) \in Nat \ {0} /\ Head(s) = s[1]
        /\ t \in Seq(U) /\ Len(t) = Len(s) - 1 /\ \A k \in 1..Len(t) : t[k] = s[k + 1]
    BY <1>1, <1>4, LenProperties, EmptySeq, HeadTailProperties
  <2>2. Does(c, n, Head(s), L, live[1])
    <3>1. 1 \in 1..Len(s) /\ 1 - 1 = 0
      BY <2>1
    <3> QED BY <1>2, <2>1, <3>1
  <2> HIDE DEF t
  <2>3. next[0] = live[1] /\ next[Len(t)] = M
    <3>1. 0 \in 0..Len(t) /\ Len(t) \in 0..Len(t) /\ Len(t) + 1 = Len(s) /\ 0 + 1 = 1
      BY <2>1
    <3> QED BY <1>2, <3>1
  <2>4. ASSUME NEW k \in 1..Len(t) PROVE Does(c, n, t[k], next[k - 1], next[k])
    <3>1. /\ k + 1 \in 1..Len(s) /\ (k + 1) - 1 = k /\ (k - 1) + 1 = k
          /\ k \in 0..Len(t) /\ k - 1 \in 0..Len(t)
      BY <2>1
    <3>2. Does(c, n, s[k + 1], live[(k + 1) - 1], live[k + 1])
      BY <1>2, <3>1
    <3>3. next[k - 1] = live[k] /\ next[k] = live[k + 1]
      BY <3>1
    <3> HIDE DEF next
    <3> QED BY <2>1, <3>1, <3>2, <3>3
  <2> HIDE DEF next
  <2>5. Runs(c, n, live[1], t, M)
    BY <2>1, <2>3, <2>4 DEF Runs
  <2> QED BY <1>4, <2>2, <2>5 DEF t
<1> QED BY <1>3, <1>4

(* A step alone.                                                           *)
LEMMA RunsOne ==
  ASSUME NEW c, NEW n, NEW L, NEW step, NEW M, Does(c, n, step, L, M)
  PROVE  Runs(c, n, L, <<step>>, M)
<1> DEFINE s == <<step>>
           live == [k \in 0..1 |-> IF k = 0 THEN L ELSE M]
<1>1. s \in Seq({step}) /\ Len(s) = 1 /\ s[1] = step
  OBVIOUS
<1>2. live[0] = L /\ live[1] = M
  OBVIOUS
<1> HIDE DEF s, live
<1>3. ASSUME NEW k \in 1..1 PROVE Does(c, n, s[k], live[k - 1], live[k])
  <2>1. k = 1 /\ k - 1 = 0
    OBVIOUS
  <2> QED BY <1>1, <1>2, <2>1
<1>4. Runs(c, n, L, s, M)
  BY <1>1, <1>2, <1>3 DEF Runs
<1> QED BY <1>4 DEF s

(* One sequence of steps after another.                                    *)
LEMMA RunsConcat ==
  ASSUME NEW c, NEW n, NEW L, NEW s, NEW K, NEW t, NEW M,
         Runs(c, n, L, s, K), Runs(c, n, K, t, M)
  PROVE  Runs(c, n, L, s \o t, M)
<1>1. PICK U1 : s \in Seq(U1)
  BY DEF Runs
<1>2. PICK U2 : t \in Seq(U2)
  BY DEF Runs
<1>3. PICK first : /\ first[0] = L /\ first[Len(s)] = K
                   /\ \A k \in 1..Len(s) : Does(c, n, s[k], first[k - 1], first[k])
  BY DEF Runs
<1>4. PICK second : /\ second[0] = K /\ second[Len(t)] = M
                    /\ \A k \in 1..Len(t) : Does(c, n, t[k], second[k - 1], second[k])
  BY DEF Runs
<1> DEFINE U == U1 \cup U2
           p == Len(s)
           q == Len(t)
           r == s \o t
           live == [k \in 0..(p + q) |-> IF k <= p THEN first[k] ELSE second[k - p]]
<1>5. s \in Seq(U) /\ t \in Seq(U)
  <2>1. U1 \subseteq U /\ U2 \subseteq U
    OBVIOUS
  <2> HIDE DEF U
  <2> QED BY <1>1, <1>2, <2>1, SeqMonotonic
<1> HIDE DEF U
<1>6. p \in Nat /\ q \in Nat
  BY <1>1, <1>2, LenProperties
<1>7. /\ r \in Seq(U) /\ Len(r) = p + q
      /\ \A k \in 1..(p + q) : r[k] = IF k <= p THEN s[k] ELSE t[k - p]
  BY <1>5, ConcatProperties
<1> HIDE DEF p, q, r
<1>8. live[0] = L /\ live[p + q] = M
  <2>1. 0 \in 0..(p + q) /\ p + q \in 0..(p + q) /\ 0 <= p /\ (p + q) - p = q
    BY <1>6
  <2>2. CASE q = 0
    BY <1>3, <1>4, <1>6, <2>1, <2>2 DEF p, q
  <2>3. CASE q # 0
    BY <1>3, <1>4, <1>6, <2>1, <2>3 DEF p, q
  <2> QED BY <2>2, <2>3
<1>9. ASSUME NEW k \in 1..(p + q) PROVE Does(c, n, r[k], live[k - 1], live[k])
  <2>1. k \in 0..(p + q) /\ k - 1 \in 0..(p + q) /\ k \in Int
    BY <1>6
  <2>2. CASE k <= p
    <3>1. k \in 1..p /\ k - 1 <= p
      BY <1>6, <2>1, <2>2
    <3>2. live[k - 1] = first[k - 1] /\ live[k] = first[k] /\ r[k] = s[k]
      BY <1>7, <2>1, <2>2, <3>1
    <3> HIDE DEF live
    <3> QED BY <1>3, <3>1, <3>2 DEF p
  <2>3. CASE ~(k <= p)
    <3>1. k - p \in 1..q /\ (k - p) - 1 = (k - 1) - p
      BY <1>6, <2>1, <2>3
    <3>2. live[k] = second[k - p] /\ r[k] = t[k - p]
      BY <1>7, <2>1, <2>3
    <3>3. live[k - 1] = second[(k - p) - 1]
      <4>1. CASE k - 1 <= p
        <5>1. k - 1 = p /\ (k - p) - 1 = 0
          BY <1>6, <2>1, <2>3, <4>1
        <5> QED BY <1>3, <1>4, <2>1, <5>1 DEF p
      <4>2. CASE ~(k - 1 <= p)
        BY <2>1, <3>1, <4>2
      <4> QED BY <4>1, <4>2
    <3> HIDE DEF live
    <3>4. Does(c, n, t[k - p], second[(k - p) - 1], second[k - p])
      BY <1>4, <3>1 DEF q
    <3> QED BY <3>2, <3>3, <3>4
  <2> QED BY <2>2, <2>3
<1> HIDE DEF live
<1>10. Runs(c, n, L, r, M)
  BY <1>7, <1>8, <1>9 DEF Runs
<1> QED BY <1>10 DEF r

-----------------------------------------------------------------------------
(* FlattenSeq is the concatenation of its parts, one after another.        *)
Flattens(f, parts, m) ==
  /\ f = [i \in 1..m |-> f[i]]
  /\ \A i \in 1..m : f[i] = IF i = 1 THEN parts[i] ELSE f[i - 1] \o parts[i]

LEMMA FlattenFacts ==
  ASSUME NEW parts, NEW n \in Nat, DOMAIN parts = 1..n, Len(parts) = n,
         n = 0 => parts = <<>>
  PROVE  /\ n = 0 => FlattenSeq(parts) = <<>>
         /\ n # 0 => \E f : Flattens(f, parts, n) /\ FlattenSeq(parts) = f[n]
<1> DEFINE T == {m \in Nat : \E f : Flattens(f, parts, m)}
<1>1. 0 \in T
  <2> DEFINE g == [i \in 1..0 |-> {}]
  <2>1. g = [i \in 1..0 |-> g[i]] /\ 1..0 = {}
    OBVIOUS
  <2> HIDE DEF g
  <2>2. Flattens(g, parts, 0)
    BY <2>1 DEF Flattens
  <2> QED BY <2>2
<1>2. ASSUME NEW m \in T PROVE m + 1 \in T
  <2>1. PICK f : Flattens(f, parts, m)
    OBVIOUS
  <2> DEFINE last == IF m = 0 THEN parts[m + 1] ELSE f[m] \o parts[m + 1]
             g == [i \in 1..(m + 1) |-> IF i = m + 1 THEN last ELSE f[i]]
  <2>2. ASSUME NEW i \in 1..(m + 1)
        PROVE  g[i] = IF i = 1 THEN parts[i] ELSE g[i - 1] \o parts[i]
    <3>1. CASE i = m + 1
      <4>1. g[i] = last /\ (m # 0 => g[i - 1] = f[m])
        BY <3>1
      <4> QED BY <3>1, <4>1
    <3>2. CASE i # m + 1
      <4>1. i \in 1..m /\ g[i] = f[i] /\ (i # 1 => g[i - 1] = f[i - 1])
        BY <3>2
      <4> HIDE DEF g
      <4> QED BY <2>1, <4>1 DEF Flattens
    <3> QED BY <3>1, <3>2
  <2>3. g = [i \in 1..(m + 1) |-> g[i]]
    OBVIOUS
  <2> HIDE DEF g
  <2>4. Flattens(g, parts, m + 1)
    BY <2>2, <2>3 DEF Flattens
  <2> QED BY <2>4
<1>3. n \in T
  <2> HIDE DEF T
  <2>1. T \in SUBSET Nat
    BY DEF T
  <2> QED BY <1>1, <1>2, <2>1, Induction
<1>4. PICK f : Flattens(f, parts, n)
  BY <1>3
<1>5. CASE n = 0
  BY <1>5 DEF FlattenSeq
<1>6. CASE n # 0
  <2> DEFINE P(g) == g = [i \in 1..n |-> IF i = 1 THEN parts[i] ELSE g[i - 1] \o parts[i]]
             h == CHOOSE g : P(g)
  <2>1. FlattenSeq(parts) = h[n]
    BY <1>6 DEF FlattenSeq
  <2>2. P(f)
    <3>1. f = [i \in 1..n |-> f[i]]
      BY <1>4 DEF Flattens
    <3> QED BY <1>4, <3>1 DEF Flattens
  <2>3. P(h)
    BY <2>2
  <2>4. Flattens(h, parts, n)
    <3> HIDE DEF h
    <3> QED BY <2>3 DEF Flattens
  <2> QED BY <1>6, <2>1, <2>4
<1> QED BY <1>5, <1>6

(* A loop: each turn leads to the next.                                    *)
LEMMA RunsLoop ==
  ASSUME NEW c, NEW n, NEW parts, NEW m \in Nat,
         DOMAIN parts = 1..m, Len(parts) = m, m = 0 => parts = <<>>, NEW live,
         \A i \in 1..m : Runs(c, n, live[i - 1], parts[i], live[i])
  PROVE  Runs(c, n, live[0], FlattenSeq(parts), live[m])
<1>1. CASE m = 0
  BY <1>1, FlattenFacts, RunsNone
<1>2. CASE m # 0
  <2>1. PICK f : /\ FlattenSeq(parts) = f[m] /\ f[1] = parts[1]
                 /\ \A i \in 2..m : f[i] = f[i - 1] \o parts[i]
    <3>1. PICK f : Flattens(f, parts, m) /\ FlattenSeq(parts) = f[m]
      BY <1>2, FlattenFacts
    <3>2. \A i \in 1..m : f[i] = IF i = 1 THEN parts[i] ELSE f[i - 1] \o parts[i]
      BY <3>1 DEF Flattens
    <3>3. 1 \in 1..m /\ \A i \in 2..m : i \in 1..m /\ i # 1
      BY <1>2
    <3> QED BY <3>1, <3>2, <3>3
  <2> DEFINE T == {k \in Nat : k \in 1..m => Runs(c, n, live[0], f[k], live[k])}
  <2>2. 0 \in T
    OBVIOUS
  <2>3. ASSUME NEW k \in T PROVE k + 1 \in T
    <3> SUFFICES ASSUME k + 1 \in 1..m
                 PROVE  Runs(c, n, live[0], f[k + 1], live[k + 1])
      OBVIOUS
    <3>1. Runs(c, n, live[k], parts[k + 1], live[k + 1])
      <4>1. (k + 1) - 1 = k
        OBVIOUS
      <4> QED BY <4>1
    <3>2. CASE k = 0
      <4>1. k + 1 = 1
        BY <3>2
      <4> QED BY <2>1, <3>1, <3>2, <4>1
    <3>3. CASE k # 0
      <4>1. k \in 1..m /\ k + 1 \in 2..m /\ (k + 1) - 1 = k
        BY <3>3
      <4>2. f[k + 1] = f[k] \o parts[k + 1]
        BY <2>1, <4>1
      <4> QED BY <3>1, <4>1, <4>2, RunsConcat
    <3> QED BY <3>2, <3>3
  <2>4. m \in T
    <3> HIDE DEF T
    <3>1. T \in SUBSET Nat
      BY DEF T
    <3> QED BY <2>2, <2>3, <3>1, Induction
  <2> QED BY <1>2, <2>1, <2>4
<1> QED BY <1>1, <1>2

-----------------------------------------------------------------------------
(* The steps that the scripts are made of.                                 *)
List(names) == \E m \in Nat : DOMAIN names = 1..m
Distinct(names) == \A j, k \in DOMAIN names : names[j] = names[k] => j = k

LEMMA ToSetFacts ==
  ASSUME NEW names, NEW m \in Nat, DOMAIN names = 1..m
  PROVE  ToSet(names) = {names[j] : j \in 1..m}
BY DEF ToSet

LEMMA RunsMalloc ==
  ASSUME NEW c, NEW n, NEW L, NEW names, List(names), NEW i \in 0..n
  PROVE  Runs(c, n, L, Malloc(names, i), L \cup (ToSet(names) \X {i}))
<1>1. PICK m \in Nat : DOMAIN names = 1..m
  BY DEF List
<1> DEFINE s == Malloc(names, i)
           live == [k \in 0..m |-> L \cup {<<names[j], i>> : j \in 1..k}]
<1>2. /\ s \in Seq({[do |-> "malloc", block |-> <<names[j], i>>] : j \in 1..m})
      /\ Len(s) = m
      /\ \A k \in 1..m : s[k] = [do |-> "malloc", block |-> <<names[k], i>>]
  BY <1>1 DEF Malloc
<1> HIDE DEF s
<1>3. live[0] = L
  OBVIOUS
<1>4. live[m] = L \cup (ToSet(names) \X {i})
  BY <1>1, ToSetFacts
<1>5. ASSUME NEW k \in 1..m PROVE Does(c, n, s[k], live[k - 1], live[k])
  <2>1. live[k] = live[k - 1] \cup {<<names[k], i>>}
    OBVIOUS
  <2>2. s[k].do = "malloc" /\ s[k].block = <<names[k], i>>
    BY <1>2
  <2> HIDE DEF live
  <2> QED BY <2>1, <2>2 DEF Does
<1> HIDE DEF live
<1>6. Runs(c, n, L, s, L \cup (ToSet(names) \X {i}))
  BY <1>2, <1>3, <1>4, <1>5 DEF Runs
<1> QED BY <1>6 DEF s

LEMMA RunsFree ==
  ASSUME NEW c, NEW n, NEW L, NEW names, List(names), Distinct(names), NEW i,
         ToSet(names) \X {i} \subseteq L, "session_id" \notin ToSet(names)
  PROVE  Runs(c, n, L, Free(names, i), L \ (ToSet(names) \X {i}))
<1>1. PICK m \in Nat : DOMAIN names = 1..m
  BY DEF List
<1> DEFINE s == Free(names, i)
           live == [k \in 0..m |-> L \ {<<names[j], i>> : j \in 1..k}]
<1>2. /\ s \in Seq({[do |-> "free", block |-> <<names[j], i>>] : j \in 1..m})
      /\ Len(s) = m
      /\ \A k \in 1..m : s[k] = [do |-> "free", block |-> <<names[k], i>>]
  BY <1>1 DEF Free
<1> HIDE DEF s
<1>3. live[0] = L
  OBVIOUS
<1>4. live[m] = L \ (ToSet(names) \X {i})
  BY <1>1, ToSetFacts
<1>5. ASSUME NEW k \in 1..m PROVE Does(c, n, s[k], live[k - 1], live[k])
  <2>1. live[k] = live[k - 1] \ {<<names[k], i>>}
    OBVIOUS
  <2>2. s[k].do = "free" /\ s[k].block = <<names[k], i>>
    BY <1>2
  <2>3. names[k] \in ToSet(names)
    BY <1>1, ToSetFacts
  <2>4. <<names[k], i>> \in L /\ names[k] # "session_id"
    BY <2>3
  <2>5. \A j \in 1..(k - 1) : <<names[j], i>> # <<names[k], i>>
    BY <1>1 DEF Distinct
  <2>6. <<names[k], i>> \in live[k - 1]
    BY <2>4, <2>5
  <2> HIDE DEF live
  <2> QED BY <2>1, <2>2, <2>4, <2>6 DEF Does
<1> HIDE DEF live
<1>6. Runs(c, n, L, s, L \ (ToSet(names) \X {i}))
  BY <1>2, <1>3, <1>4, <1>5 DEF Runs
<1> QED BY <1>6 DEF s

(* What callers undo: nothing, or frees of what they hold.                 *)
LEMMA FreesNone == ASSUME NEW L PROVE Frees(L, <<>>) /\ Left(L, <<>>) = L
<1> DEFINE s == <<>>
<1>1. s \in Seq({}) /\ DOMAIN s = {}
  OBVIOUS
<1> HIDE DEF s
<1>2. Frees(L, s) /\ Left(L, s) = L
  BY <1>1 DEF Frees, Left
<1> QED BY <1>2 DEF s

LEMMA FreesNames ==
  ASSUME NEW L, NEW names, List(names), Distinct(names), NEW i,
         ToSet(names) \X {i} \subseteq L, "session_id" \notin ToSet(names)
  PROVE  Frees(L, Free(names, i)) /\ Left(L, Free(names, i)) = L \ (ToSet(names) \X {i})
<1>1. PICK m \in Nat : DOMAIN names = 1..m
  BY DEF List
<1> DEFINE s == Free(names, i)
<1>2. /\ s \in Seq({[do |-> "free", block |-> <<names[j], i>>] : j \in 1..m})
      /\ DOMAIN s = 1..m
      /\ \A k \in 1..m : s[k].do = "free" /\ s[k].block = <<names[k], i>>
  BY <1>1 DEF Free
<1> HIDE DEF s
<1>3. ASSUME NEW k \in 1..m
      PROVE  /\ s[k].block \in L /\ s[k].block[1] # "session_id"
             /\ \A j \in 1..m : s[j].block = s[k].block => j = k
  <2>1. names[k] \in ToSet(names)
    BY <1>1, ToSetFacts
  <2>2. <<names[k], i>> \in L /\ names[k] # "session_id"
    BY <2>1
  <2>3. ASSUME NEW j \in 1..m, <<names[j], i>> = <<names[k], i>> PROVE j = k
    BY <1>1, <2>3 DEF Distinct
  <2>4. s[k].block = <<names[k], i>> /\ <<names[k], i>>[1] = names[k]
    BY <1>2
  <2>5. \A j \in 1..m : s[j].block = s[k].block => j = k
    BY <1>2, <2>3, <2>4
  <2> QED BY <2>2, <2>4, <2>5
<1>4. Frees(L, s)
  BY <1>2, <1>3 DEF Frees
<1>5. Left(L, s) = L \ (ToSet(names) \X {i})
  <2>1. \A b : b \in ToSet(names) \X {i} <=> \E k \in 1..m : b = <<names[k], i>>
    BY <1>1, ToSetFacts
  <2>2. \A k \in 1..m : s[k].block = <<names[k], i>>
    BY <1>2
  <2>3. ASSUME NEW b \in ToSet(names) \X {i} PROVE b \notin Left(L, s)
    <3>1. PICK k \in 1..m : b = <<names[k], i>>
      BY <2>1
    <3> QED BY <1>2, <2>2, <3>1 DEF Left
  <2>4. ASSUME NEW b \in L, b \notin ToSet(names) \X {i} PROVE b \in Left(L, s)
    <3>1. \A k \in 1..m : s[k].block # b
      BY <2>1, <2>2, <2>4
    <3> QED BY <1>2, <3>1 DEF Left
  <2>5. Left(L, s) \subseteq L
    BY DEF Left
  <2> QED BY <2>3, <2>4, <2>5
<1> QED BY <1>4, <1>5 DEF s

(* No request is left if the callers free those they hold.                 *)
Clean(L, undo) == Frees(L, undo) /\ \A b \in Left(L, undo) : b[1] \notin Requests

LEMMA RunsCheck ==
  ASSUME NEW c, c # "RELEASE", NEW n, NEW L, NEW code \in Codes \ {"SUCCESS"},
         NEW undo, Clean(L, undo)
  PROVE  Runs(c, n, L, Check(code, undo), L)
<1> DEFINE step == [do |-> "check", code |-> code, undo |-> undo]
<1>1. Does(c, n, step, L, L)
  BY DEF Does, Clean
<1> HIDE DEF step
<1>2. Runs(c, n, L, <<step>>, L)
  BY <1>1, RunsOne
<1> QED BY <1>2 DEF Check, step

LEMMA RunsExit ==
  ASSUME NEW c, c # "RELEASE", NEW n, NEW L
  PROVE  Runs(c, n, L, Check("EXIT", <<>>), L)
<1> DEFINE step == [do |-> "check", code |-> "EXIT", undo |-> <<>>]
<1>1. Does(c, n, step, L, L)
  BY FreesNone DEF Does, Codes
<1> HIDE DEF step
<1>2. Runs(c, n, L, <<step>>, L)
  BY <1>1, RunsOne
<1> QED BY <1>2 DEF Check, step

LEMMA RunsField ==
  ASSUME NEW c, c # "RELEASE", NEW n, NEW L, NEW undo, Clean(L, undo)
  PROVE  Runs(c, n, L, Field(undo), L) /\ Runs(c, n, L, Json(undo), L)
BY RunsCheck, RunsExit, RunsConcat DEF Field, Json, Codes

-----------------------------------------------------------------------------
(* The names on a list, each on it once.                                   *)
Names(names, S) == List(names) /\ Distinct(names) /\ ToSet(names) = S

(* Wherever a call holds the names of U, and no request besides, `undo` is *)
(* what its callers may do at an early return.                             *)
Holds(L, U) == U \X {0} \subseteq L /\ \A b \in L : b[1] \in Requests => b \in U \X {0}
Undoes(undo, U) == \A L : Holds(L, U) => Clean(L, undo)

LEMMA UndoesNothing == Undoes(<<>>, {})
BY FreesNone DEF Undoes, Holds, Clean

LEMMA UndoesNames ==
  ASSUME NEW names, NEW U, Names(names, U), "session_id" \notin U
  PROVE  Undoes(Free(names, 0), U)
<1> SUFFICES ASSUME NEW L, Holds(L, U) PROVE Clean(L, Free(names, 0))
  BY DEF Undoes
<1>1. U \X {0} \subseteq L
  BY DEF Holds
<1>2. /\ Frees(L, Free(names, 0))
      /\ Left(L, Free(names, 0)) = L \ (U \X {0})
  BY <1>1, FreesNames DEF Names
<1> QED BY <1>2 DEF Clean, Holds

(* The names A and, elsewhere than at index 0, the blocks R: what a call   *)
(* holds at most of its steps.                                             *)
At(A, R) == (A \X {0}) \cup R
Elsewhere(R) == \A b \in R : b[2] # 0 /\ b[1] \notin Requests

(* The callers can undo what is held: U, and no request besides.           *)
Undoable(A, U) == U \subseteq A /\ (A \ U) \cap Requests = {}

LEMMA HoldsAt ==
  ASSUME NEW A, NEW R, NEW U, Elsewhere(R), Undoable(A, U)
  PROVE  Holds(At(A, R), U)
BY DEF Holds, At, Elsewhere, Undoable

LEMMA AtMalloc ==
  ASSUME NEW c, NEW n \in Nat, NEW A, NEW R, NEW names, NEW S, Names(names, S)
  PROVE  Runs(c, n, At(A, R), Malloc(names, 0), At(A \cup S, R))
<1>1. 0 \in 0..n
  OBVIOUS
<1>2. At(A, R) \cup (S \X {0}) = At(A \cup S, R)
  BY DEF At
<1> QED BY <1>1, <1>2, RunsMalloc DEF Names

LEMMA AtFree ==
  ASSUME NEW c, NEW n \in Nat, NEW A, NEW R, NEW names, NEW S, Names(names, S),
         Elsewhere(R), S \subseteq A, "session_id" \notin S
  PROVE  Runs(c, n, At(A, R), Free(names, 0), At(A \ S, R))
<1>1. S \X {0} \subseteq At(A, R)
  BY DEF At
<1>2. At(A, R) \ (S \X {0}) = At(A \ S, R)
  BY DEF At, Elsewhere
<1> QED BY <1>1, <1>2, RunsFree DEF Names

LEMMA AtField ==
  ASSUME NEW c, c # "RELEASE", NEW n, NEW A, NEW R, NEW undo, NEW U, Undoes(undo, U),
         Elsewhere(R), Undoable(A, U)
  PROVE  /\ Runs(c, n, At(A, R), Field(undo), At(A, R))
         /\ Runs(c, n, At(A, R), Json(undo), At(A, R))
         /\ \A code \in Codes \ {"SUCCESS"} :
              Runs(c, n, At(A, R), Check(code, undo), At(A, R))
<1>1. Clean(At(A, R), undo)
  BY HoldsAt DEF Undoes
<1> QED BY <1>1, RunsField, RunsCheck

(* A handler that goes on without what it should have parsed.              *)
LEMMA AtUnwritten ==
  ASSUME NEW c \in FallsThrough, NEW n, NEW A, A \cap Requests = {}
  PROVE  Runs(c, n, At(A, {}), Check("PARSE_FAILED", Unwritten), At(A, {}))
<1> DEFINE step == [do |-> "check", code |-> "PARSE_FAILED", undo |-> Unwritten]
           L == At(A, {})
<1>1. \A b \in L : b[1] \notin Requests
  BY DEF At
<1>2. c # "RELEASE" /\ "PARSE_FAILED" \in Codes \ {"SUCCESS"}
  BY DEF FallsThrough, Codes
<1>3. /\ step.do = "check" /\ step.code = "PARSE_FAILED" /\ step.undo = Unwritten
  OBVIOUS
<1> HIDE DEF step, L
<1>4. Does(c, n, step, L, L)
  BY <1>1, <1>2, <1>3 DEF Does
<1>5. Runs(c, n, L, <<step>>, L)
  BY <1>4, RunsOne
<1> QED BY <1>5 DEF Check, step, L

LEMMA AtJsonAuto ==
  ASSUME NEW c, c # "RELEASE", NEW n \in Nat, NEW A, NEW R, NEW undo, NEW U,
         Undoes(undo, U), Elsewhere(R), Undoable(A, U), NEW code \in Codes \ {"SUCCESS"}
  PROVE  Runs(c, n, At(A, R), JsonAuto(code, undo), At(A \cup {"toks", "pairs"}, R))
<1> DEFINE A1 == A \cup {"toks"}
           A2 == A1 \cup {"pairs"}
<1>1. Names(<<"toks">>, {"toks"}) /\ Names(<<"pairs">>, {"pairs"})
  BY DEF Names, List, Distinct, ToSet
<1>2. Undoable(A1, U) /\ Undoable(A2, U)
  BY DEF Undoable, Requests
<1>3. A \cup {"toks", "pairs"} = A2
  OBVIOUS
<1> HIDE DEF A1, A2
<1>4. /\ Runs(c, n, At(A, R), Malloc(<<"toks">>, 0), At(A1, R))
      /\ Runs(c, n, At(A1, R), Malloc(<<"pairs">>, 0), At(A2, R))
  BY <1>1, AtMalloc DEF A1, A2
<1>5. /\ Runs(c, n, At(A1, R), Check(code, undo), At(A1, R))
      /\ Runs(c, n, At(A2, R), Check(code, undo), At(A2, R))
  BY <1>2, AtField
<1> QED BY <1>3, <1>4, <1>5, RunsConcat DEF JsonAuto

LEMMA AtJsonAutoUnwritten ==
  ASSUME NEW c \in FallsThrough, NEW n \in Nat
  PROVE  Runs(c, n, At({}, {}), JsonAuto("PARSE_FAILED", Unwritten),
              At({} \cup {"toks", "pairs"}, {}))
<1> DEFINE A0 == {}
           A1 == A0 \cup {"toks"}
           A2 == A1 \cup {"pairs"}
<1>1. Names(<<"toks">>, {"toks"}) /\ Names(<<"pairs">>, {"pairs"})
  BY DEF Names, List, Distinct, ToSet
<1>2. A1 \cap Requests = {} /\ A2 \cap Requests = {} /\ {} \cup {"toks", "pairs"} = A2
  BY DEF Requests
<1> HIDE DEF A0, A1, A2
<1>3. /\ Runs(c, n, At(A0, {}), Malloc(<<"toks">>, 0), At(A1, {}))
      /\ Runs(c, n, At(A1, {}), Malloc(<<"pairs">>, 0), At(A2, {}))
  BY <1>1, AtMalloc DEF A1, A2
<1>4. /\ Runs(c, n, At(A1, {}), Check("PARSE_FAILED", Unwritten), At(A1, {}))
      /\ Runs(c, n, At(A2, {}), Check("PARSE_FAILED", Unwritten), At(A2, {}))
  BY <1>2, AtUnwritten
<1> QED BY <1>2, <1>3, <1>4, RunsConcat DEF JsonAuto, A0

(* A request is made and its answer, if any, comes in.                     *)
LEMMA AtPerform ==
  ASSUME NEW c, c # "RELEASE", NEW n \in Nat, NEW A, NEW R, NEW undo, NEW U,
         Undoes(undo, U), Elsewhere(R), NEW answer, NEW S, Names(answer, S), Undoable(A \cup S, U),
         S \cap Requests = {}, A \cap {"curl", "full_url", "authorization", "chunk"} = {}
  PROVE  Runs(c, n, At(A, R), Perform(answer, undo), At(A \cup S, R))
<1> DEFINE q == <<"curl", "full_url", "authorization", "chunk">>
           Q == {"curl", "full_url", "authorization", "chunk"}
           A1 == A \cup Q
           A2 == A1 \cup S
           A3 == A2 \ Q
<1>1. Names(q, Q) /\ "session_id" \notin Q
  BY DEF Names, List, Distinct, ToSet
<1>2. A3 = A \cup S /\ Q \subseteq A2
  BY DEF Requests
<1>3. Undoable(A3, U)
  BY <1>2 DEF Undoable
<1> HIDE DEF q, Q, A1, A2, A3
<1>4. /\ Runs(c, n, At(A, R), Malloc(q, 0), At(A1, R))
      /\ Runs(c, n, At(A1, R), Malloc(answer, 0), At(A2, R))
  BY <1>1, AtMalloc DEF A1, A2
<1>5. Runs(c, n, At(A2, R), Free(q, 0), At(A3, R))
  BY <1>1, <1>2, AtFree DEF A3
<1>6. Runs(c, n, At(A3, R), Check("FAILED", undo), At(A3, R))
  BY <1>3, AtField DEF Codes
<1> QED BY <1>2, <1>4, <1>5, <1>6, RunsConcat DEF Perform, q

LEMMA AtUnanswered ==
  ASSUME NEW c, c # "RELEASE", NEW n \in Nat, NEW A, NEW R, NEW undo, NEW U,
         Undoes(undo, U), Elsewhere(R), Undoable(A, U),
         A \cap {"curl", "full_url", "authorization", "chunk"} = {}
  PROVE  Runs(c, n, At(A, R), Unanswered(undo), At(A, R))
<1>1. Names(<<>>, {}) /\ A \cup {} = A
  BY DEF Names, List, Distinct, ToSet
<1> QED BY <1>1, AtPerform DEF Unanswered

LEMMA AtAnswered ==
  ASSUME NEW c, c # "RELEASE", NEW n \in Nat, NEW A, NEW R, NEW undo, NEW U,
         Undoes(undo, U), Elsewhere(R), Undoable(A \cup {"body"}, U),
         A \cap {"curl", "full_url", "authorization", "chunk"} = {}
  PROVE  Runs(c, n, At(A, R), Answered(undo), At(A \cup {"body"}, R))
<1>1. Names(<<"body">>, {"body"}) /\ {"body"} \cap Requests = {}
  BY DEF Names, List, Distinct, ToSet, Requests
<1> QED BY <1>1, AtPerform DEF Answered

-----------------------------------------------------------------------------
TrackNames == {"track", "info", "encoded"}

(* One track, at any index.                                                *)
LEMMA RunsTrack ==
  ASSUME NEW c, c # "RELEASE", NEW n \in Nat, NEW L, NEW i \in 0..n, NEW undo, NEW U,
         Undoes(undo, U), Holds(L, U)
  PROVE  Runs(c, n, L, Track(i, undo), L \cup (TrackNames \X {i}))
<1> DEFINE L1 == L \cup ({"track", "info"} \X {i})
           L2 == L1 \cup ({"encoded"} \X {i})
<1>1. Names(<<"track", "info">>, {"track", "info"}) /\ Names(<<"encoded">>, {"encoded"})
  BY DEF Names, List, Distinct, ToSet
<1>2. Holds(L1, U) /\ Holds(L2, U)
  BY DEF Holds, Requests
<1>3. L2 = L \cup (TrackNames \X {i})
  BY DEF TrackNames
<1> HIDE DEF L1, L2
<1>4. /\ Runs(c, n, L, Malloc(<<"track", "info">>, i), L1)
      /\ Runs(c, n, L1, Malloc(<<"encoded">>, i), L2)
  BY <1>1, RunsMalloc DEF Names, L1, L2
<1>5. Runs(c, n, L1, Field(undo), L1) /\ Runs(c, n, L2, Field(undo), L2)
  BY <1>2, RunsField DEF Undoes
<1> QED BY <1>3, <1>4, <1>5, RunsConcat DEF Track

LEMMA RunsFreeTrack ==
  ASSUME NEW c, NEW n, NEW L, NEW i, TrackNames \X {i} \subseteq L
  PROVE  Runs(c, n, L, FreeTrack(i), L \ (TrackNames \X {i}))
<1>1. Names(<<"encoded", "info", "track">>, TrackNames) /\ "session_id" \notin TrackNames
  BY DEF Names, List, Distinct, ToSet, TrackNames
<1> QED BY <1>1, RunsFree DEF FreeTrack, Names

LEMMA AtUse ==
  ASSUME NEW c, NEW n, NEW A, NEW R, NEW S, S \subseteq A
  PROVE  Runs(c, n, At(A, R), Use(S), At(A, R))
<1> DEFINE step == [do |-> "use", blocks |-> S \X {0}]
<1>1. Does(c, n, step, At(A, R), At(A, R))
  BY DEF Does, At
<1> HIDE DEF step
<1>2. Runs(c, n, At(A, R), <<step>>, At(A, R))
  BY <1>1, RunsOne
<1> QED BY <1>2 DEF Use, step

LEMMA AtKeep ==
  ASSUME NEW n, NEW A, NEW R, "session_id" \in A
  PROVE  Runs("READY", n, At(A, R), Keep("session_id"), At(A, R))
<1> DEFINE step == [do |-> "keep", block |-> <<"session_id", 0>>]
<1>1. Does("READY", n, step, At(A, R), At(A, R))
  BY DEF Does, At
<1> HIDE DEF step
<1>2. Runs("READY", n, At(A, R), <<step>>, At(A, R))
  BY <1>1, RunsOne
<1> QED BY <1>2 DEF Keep, step

(* The arrays of an answer.                                                *)
LEMMA AtTrack ==
  ASSUME NEW c, c # "RELEASE", NEW n \in Nat, NEW A, NEW R, NEW undo, NEW U,
         Undoes(undo, U), Elsewhere(R), Undoable(A, U)
  PROVE  Runs(c, n, At(A, R), Track(0, undo), At(A \cup TrackNames, R))
<1>1. At(A \cup TrackNames, R) = At(A, R) \cup (TrackNames \X {0}) /\ 0 \in 0..n
  BY DEF At
<1> QED BY <1>1, RunsTrack, HoldsAt

LEMMA AtTracks ==
  ASSUME NEW c, c # "RELEASE", NEW n \in Nat, NEW A, NEW undo, NEW U,
         Undoes(undo, U), Undoable(A, U)
  PROVE  Runs(c, n, At(A, {}), FlattenSeq([i \in 1..n |-> Track(i, undo)]),
              At(A, TrackNames \X (1..n)))
<1> DEFINE parts == [i \in 1..n |-> Track(i, undo)]
           live == [i \in 0..n |-> At(A, TrackNames \X (1..i))]
<1>1. DOMAIN parts = 1..n /\ Len(parts) = n /\ (n = 0 => parts = <<>>)
  OBVIOUS
<1>2. ASSUME NEW i \in 1..n PROVE Runs(c, n, live[i - 1], parts[i], live[i])
  <2> DEFINE R == TrackNames \X (1..(i - 1))
  <2>1. Elsewhere(R)
    BY DEF Elsewhere, TrackNames, Requests
  <2>2. live[i - 1] = At(A, R) /\ live[i] = At(A, R) \cup (TrackNames \X {i})
    <3>1. 1..i = (1..(i - 1)) \cup {i}
      OBVIOUS
    <3> QED BY <3>1 DEF At
  <2> HIDE DEF R, live
  <2>3. i \in 0..n /\ Holds(At(A, R), U)
    BY <2>1, HoldsAt
  <2>4. Runs(c, n, At(A, R), Track(i, undo), At(A, R) \cup (TrackNames \X {i}))
    BY <2>3, RunsTrack
  <2> QED BY <2>2, <2>4
<1>3. live[0] = At(A, {}) /\ live[n] = At(A, TrackNames \X (1..n))
  BY DEF At
<1> HIDE DEF parts, live
<1>4. Runs(c, n, live[0], FlattenSeq(parts), live[n])
  BY <1>1, <1>2, RunsLoop
<1> QED BY <1>3, <1>4 DEF parts

LEMMA AtFreeTracks ==
  ASSUME NEW c, NEW n \in Nat, NEW A
  PROVE  Runs(c, n, At(A, TrackNames \X (1..n)), FreeTracks(n), At(A, {}))
<1> DEFINE parts == [i \in 1..n |-> FreeTrack(i)]
           live == [i \in 0..n |-> At(A, TrackNames \X ((i + 1)..n))]
<1>1. DOMAIN parts = 1..n /\ Len(parts) = n /\ (n = 0 => parts = <<>>)
  OBVIOUS
<1>2. ASSUME NEW i \in 1..n PROVE Runs(c, n, live[i - 1], parts[i], live[i])
  <2> DEFINE L == At(A, TrackNames \X (i..n))
  <2>1. live[i - 1] = L /\ live[i] = L \ (TrackNames \X {i})
    <3>1. (i + 1)..n = (i..n) \ {i} /\ (i - 1) + 1 = i /\ i # 0
      OBVIOUS
    <3> QED BY <3>1 DEF At
  <2>2. TrackNames \X {i} \subseteq L
    BY DEF At
  <2> HIDE DEF L, live
  <2>3. Runs(c, n, L, FreeTrack(i), L \ (TrackNames \X {i}))
    BY <2>2, RunsFreeTrack
  <2> QED BY <2>1, <2>3
<1>3. live[0] = At(A, TrackNames \X (1..n)) /\ live[n] = At(A, {})
  BY DEF At
<1> HIDE DEF parts, live
<1>4. Runs(c, n, live[0], FlattenSeq(parts), live[n])
  BY <1>1, <1>2, RunsLoop
<1> QED BY <1>3, <1>4 DEF parts, FreeTracks

LEMMA AtNames ==
  ASSUME NEW c, c # "RELEASE", NEW n \in Nat, NEW A, NEW R, NEW undo, NEW U,
         Undoes(undo, U), Elsewhere(R), Undoable(A, U), NEW list, NEW S, Names(list, S),
         S \cap Requests = {}, NEW name, name \notin Requests
  PROVE  Runs(c, n, At(A, R), NamesParsed(n, list, name, undo),
              At(A \cup S, R \cup ({name} \X (1..n))))
<1> DEFINE parts == [i \in 1..n |-> Field(undo) \o Malloc(<<name>>, i)]
           B == A \cup S
           live == [i \in 0..n |-> At(B, R \cup ({name} \X (1..i)))]
<1>1. DOMAIN parts = 1..n /\ Len(parts) = n /\ (n = 0 => parts = <<>>)
  OBVIOUS
<1>2. Undoable(B, U)
  BY DEF Undoable
<1>3. Names(<<name>>, {name})
  BY DEF Names, List, Distinct, ToSet
<1> HIDE DEF B
<1>4. ASSUME NEW i \in 1..n PROVE Runs(c, n, live[i - 1], parts[i], live[i])
  <2> DEFINE Q == R \cup ({name} \X (1..(i - 1)))
  <2>1. Elsewhere(Q)
    BY DEF Elsewhere
  <2>2. live[i - 1] = At(B, Q) /\ live[i] = At(B, Q) \cup ({name} \X {i})
    <3>1. 1..i = (1..(i - 1)) \cup {i}
      OBVIOUS
    <3> QED BY <3>1 DEF At
  <2> HIDE DEF Q, live
  <2>3. Runs(c, n, At(B, Q), Field(undo), At(B, Q))
    BY <1>2, <2>1, AtField
  <2>4. Runs(c, n, At(B, Q), Malloc(<<name>>, i), At(B, Q) \cup ({name} \X {i}))
    BY <1>3, RunsMalloc DEF Names
  <2> QED BY <2>2, <2>3, <2>4, RunsConcat
<1>5. live[0] = At(B, R) /\ live[n] = At(B, R \cup ({name} \X (1..n)))
  BY DEF At
<1> HIDE DEF parts, live
<1>6. Runs(c, n, live[0], FlattenSeq(parts), live[n])
  BY <1>1, <1>4, RunsLoop
<1>7. Runs(c, n, At(A, R), Malloc(list, 0), At(B, R))
  BY AtMalloc DEF B
<1> QED BY <1>5, <1>6, <1>7, RunsConcat DEF parts, B, NamesParsed

LEMMA AtFreeNames ==
  ASSUME NEW c, NEW n \in Nat, NEW A, NEW R, NEW name, name # "session_id",
         \A b \in R : b[1] # name
  PROVE  Runs(c, n, At(A, R \cup ({name} \X (1..n))), FreeNames(n, name), At(A, R))
<1> DEFINE parts == [i \in 1..n |-> Free(<<name>>, i)]
           live == [i \in 0..n |-> At(A, R \cup ({name} \X ((i + 1)..n)))]
<1>1. DOMAIN parts = 1..n /\ Len(parts) = n /\ (n = 0 => parts = <<>>)
  OBVIOUS
<1>2. Names(<<name>>, {name})
  BY DEF Names, List, Distinct, ToSet
<1>3. ASSUME NEW i \in 1..n PROVE Runs(c, n, live[i - 1], parts[i], live[i])
  <2> DEFINE L == At(A, R \cup ({name} \X (i..n)))
  <2>1. live[i - 1] = L /\ live[i] = L \ ({name} \X {i})
    <3>1. (i + 1)..n = (i..n) \ {i} /\ (i - 1) + 1 = i /\ i # 0
      OBVIOUS
    <3> QED BY <3>1 DEF At
  <2>2. {name} \X {i} \subseteq L
    BY DEF At
  <2> HIDE DEF L, live
  <2>3. Runs(c, n, L, Free(<<name>>, i), L \ ({name} \X {i}))
    BY <1>2, <2>2, RunsFree DEF Names
  <2> QED BY <2>1, <2>3
<1>4. live[0] = At(A, R \cup ({name} \X (1..n))) /\ live[n] = At(A, R)
  BY DEF At
<1> HIDE DEF parts, live
<1>5. Runs(c, n, live[0], FlattenSeq(parts), live[n])
  BY <1>1, <1>3, RunsLoop
<1> QED BY <1>4, <1>5 DEF parts, FreeNames

(* The filters of a player, each looked up and kept.                       *)
FilterNames == ToSet(Filters)

LEMMA AtFilters ==
  ASSUME NEW c, c # "RELEASE", NEW n \in Nat, NEW A, NEW R, NEW undo, NEW U,
         Undoes(undo, U), Elsewhere(R), Undoable(A, U)
  PROVE  Runs(c, n, At(A, R),
              FlattenSeq([i \in DOMAIN Filters |-> Field(undo) \o Malloc(<<Filters[i]>>, 0)]),
              At(A \cup FilterNames, R))
<1> DEFINE parts == [i \in DOMAIN Filters |-> Field(undo) \o Malloc(<<Filters[i]>>, 0)]
           kept == [i \in 0..9 |-> A \cup {Filters[j] : j \in 1..i}]
           live == [i \in 0..9 |-> At(kept[i], R)]
<1>1. DOMAIN Filters = 1..9 /\ \A j \in 1..9 : Filters[j] \notin Requests
  BY DEF Filters, Requests
<1>2. DOMAIN parts = 1..9 /\ Len(parts) = 9 /\ 9 # 0
  BY <1>1
<1>3. ASSUME NEW i \in 1..9 PROVE Runs(c, n, live[i - 1], parts[i], live[i])
  <2>1. Undoable(kept[i - 1], U)
    BY <1>1 DEF Undoable
  <2>2. Names(<<Filters[i]>>, {Filters[i]})
    BY DEF Names, List, Distinct, ToSet
  <2>3. kept[i] = kept[i - 1] \cup {Filters[i]}
    OBVIOUS
  <2>4. /\ live[i - 1] = At(kept[i - 1], R) /\ live[i] = At(kept[i], R)
        /\ parts[i] = Field(undo) \o Malloc(<<Filters[i]>>, 0)
    <3>1. i \in 0..9 /\ i - 1 \in 0..9
      OBVIOUS
    <3> HIDE DEF kept
    <3> QED BY <1>1, <3>1
  <2> HIDE DEF kept, live, parts
  <2>5. Runs(c, n, At(kept[i - 1], R), Field(undo), At(kept[i - 1], R))
    BY <2>1, AtField
  <2>6. Runs(c, n, At(kept[i - 1], R), Malloc(<<Filters[i]>>, 0), At(kept[i], R))
    BY <2>2, <2>3, AtMalloc
  <2> QED BY <2>4, <2>5, <2>6, RunsConcat
<1>4. live[0] = At(A, R) /\ live[9] = At(A \cup FilterNames, R)
  <2>1. FilterNames = {Filters[j] : j \in 1..9}
    BY <1>1, ToSetFacts DEF FilterNames
  <2>2. kept[0] = A /\ kept[9] = A \cup FilterNames
    BY <2>1
  <2>3. live[0] = At(kept[0], R) /\ live[9] = At(kept[9], R)
    <3> HIDE DEF kept
    <3> QED OBVIOUS
  <2> QED BY <2>2, <2>3
<1> HIDE DEF parts, live
<1>5. Runs(c, n, live[0], FlattenSeq(parts), live[9])
  BY <1>2, <1>3, RunsLoop
<1> QED BY <1>4, <1>5 DEF parts

-----------------------------------------------------------------------------
LEMMA ElsewhereNone == Elsewhere({})
BY DEF Elsewhere

LEMMA ElsewhereTracks == ASSUME NEW n \in Nat PROVE Elsewhere(TrackNames \X (1..n))
BY DEF Elsewhere, TrackNames, Requests

(* The events of a node's websocket.                                       *)
LEMMA EventNames ==
  Events = {"READY", "PLAYER_UPDATE", "STATS", "TRACK_START", "TRACK_END",
            "TRACK_END_UNKNOWN", "TRACK_EXCEPTION", "TRACK_STUCK", "WEBSOCKET_CLOSED"}
BY DEF Events, EventParts

(* Of its parts an event leaves the session, in READY.                     *)
Kept(e) == IF e = "READY" THEN {"session_id"} ELSE {}

LEMMA EventFacts ==
  ASSUME NEW e \in Events
  PROVE  LET P == ToSet(EventParts[e])
             F == ToSet(EventFreed[e])
         IN  /\ Names(EventParts[e], P) /\ Names(EventFreed[e], F)
             /\ P \cap (Requests \cup TrackNames \cup {"payload"}) = {}
             /\ F \subseteq P /\ P \ F = Kept(e) /\ "session_id" \notin F
<1>1. CASE e = "READY"
  <2>1. EventParts[e] = <<"session_id">> /\ EventFreed[e] = <<>>
    BY <1>1 DEF EventParts, EventFreed
  <2>2. Names(<<"session_id">>, {"session_id"}) /\ Names(<<>>, {})
    BY DEF Names, List, Distinct, ToSet
  <2> QED BY <1>1, <2>1, <2>2 DEF Names, Kept, Requests, TrackNames
<1>2. CASE e \in {"TRACK_START", "TRACK_END", "TRACK_END_UNKNOWN", "TRACK_STUCK"}
  <2>1. EventParts[e] = <<>> /\ EventFreed[e] = <<>>
    BY <1>2 DEF EventParts, EventFreed
  <2>2. Names(<<>>, {})
    BY DEF Names, List, Distinct, ToSet
  <2> QED BY <1>2, <2>1, <2>2 DEF Names, Kept, Requests, TrackNames
<1>3. CASE e = "PLAYER_UPDATE"
  <2>1. EventParts[e] = <<"state">> /\ EventFreed[e] = <<"state">>
    BY <1>3 DEF EventParts, EventFreed
  <2>2. Names(<<"state">>, {"state"})
    BY DEF Names, List, Distinct, ToSet
  <2> QED BY <1>3, <2>1, <2>2 DEF Names, Kept, Requests, TrackNames
<1>4. CASE e = "STATS"
  <2>1. EventParts[e] = <<"memory", "cpu", "frameStats">> /\ EventFreed[e] = EventParts[e]
    BY <1>4 DEF EventParts, EventFreed
  <2>2. Names(<<"memory", "cpu", "frameStats">>, {"memory", "cpu", "frameStats"})
    BY DEF Names, List, Distinct, ToSet
  <2> QED BY <1>4, <2>1, <2>2 DEF Names, Kept, Requests, TrackNames
<1>5. CASE e = "TRACK_EXCEPTION"
  <2>1. /\ EventParts[e] = <<"exception", "message", "cause">>
        /\ EventFreed[e] = <<"cause", "message", "exception">>
    BY <1>5 DEF EventParts, EventFreed
  <2>2. /\ Names(<<"exception", "message", "cause">>, {"exception", "message", "cause"})
        /\ Names(<<"cause", "message", "exception">>, {"exception", "message", "cause"})
    BY DEF Names, List, Distinct, ToSet
  <2> QED BY <1>5, <2>1, <2>2 DEF Names, Kept, Requests, TrackNames
<1>6. CASE e = "WEBSOCKET_CLOSED"
  <2>1. EventParts[e] = <<"reason">> /\ EventFreed[e] = <<"reason">>
    BY <1>6 DEF EventParts, EventFreed
  <2>2. Names(<<"reason">>, {"reason"})
    BY DEF Names, List, Distinct, ToSet
  <2> QED BY <1>6, <2>1, <2>2 DEF Names, Kept, Requests, TrackNames
<1> QED BY <1>1, <1>2, <1>3, <1>4, <1>5, <1>6, EventNames

LEMMA EventRuns ==
  ASSUME NEW e \in Events, NEW n \in Nat
  PROVE  Runs(e, n, At({}, {}), EventWork(e), At(Kept(e), {}))
<1>1. PICK P, F : /\ Names(EventParts[e], P) /\ Names(EventFreed[e], F)
                  /\ P \cap (Requests \cup TrackNames \cup {"payload"}) = {}
                  /\ F \subseteq P /\ P \ F = Kept(e) /\ "session_id" \notin F
  BY EventFacts
<1> DEFINE T == IF e \in TrackEvents THEN TrackNames ELSE {}
           A1 == {"payload"}
           A2 == A1 \cup T
           A3 == A2 \cup P
           A4 == A3 \ T
           A5 == A4 \ F
           A6 == A5 \ A1
<1> USE ElsewhereNone
<1>2. e # "RELEASE" /\ Names(<<"payload">>, A1)
  BY EventNames DEF Names, List, Distinct, ToSet
<1>3. A6 = Kept(e) /\ F \subseteq A4 /\ A1 \subseteq A5
  BY <1>1 DEF TrackNames, Kept
<1>4. Undoable({}, {}) /\ Undoable(A1, {})
  BY DEF Undoable, Requests
<1>5. ToSet(EventParts[e]) = P /\ (e = "READY" => "session_id" \in A3)
  BY <1>1 DEF Names, Kept
<1>6. T \subseteq A3 /\ A1 \subseteq A3 /\ P \subseteq A3
  OBVIOUS
<1>7. T \cap A1 = {} /\ "session_id" \notin A1
  BY DEF TrackNames
<1> DEFINE R(A, s, B) == Runs(e, n, At(A, {}), s, At(B, {}))
<1>8. /\ R({}, Check("CONSUMED", <<>>), {}) /\ R({}, Json(<<>>), {})
      /\ R({}, Field(<<>>), {})
  BY <1>2, <1>4, AtField, UndoesNothing DEF Codes
<1>9. R({}, Malloc(<<"payload">>, 0), A1)
  <2>1. {} \cup A1 = A1
    OBVIOUS
  <2> QED BY <1>2, <2>1, AtMalloc
<1>10. R(A1, IF e \in TrackEvents THEN Track(0, <<>>) ELSE <<>>, A2)
  <2>1. CASE e \in TrackEvents
    BY <1>2, <1>4, <2>1, AtTrack, UndoesNothing
  <2>2. CASE e \notin TrackEvents
    BY <2>2, RunsNone
  <2> QED BY <2>1, <2>2
<1>11. R(A2, Malloc(EventParts[e], 0), A3)
  BY <1>1, AtMalloc
<1>12. R(A3, Session(e), A3)
  <2>1. CASE e = "READY"
    <3> HIDE DEF A3
    <3> QED BY <1>5, <2>1, AtKeep DEF Session
  <2>2. CASE e # "READY"
    BY <2>2, RunsNone DEF Session
  <2> QED BY <2>1, <2>2
<1>13. R(A3, Callback(e), A3)
  <2>1. CASE e = "TRACK_END_UNKNOWN"
    BY <2>1, RunsNone DEF Callback
  <2>2. CASE e # "TRACK_END_UNKNOWN"
    <3> DEFINE S == {"payload"} \cup ToSet(EventParts[e])
                      \cup (IF e \in TrackEvents THEN {"track", "info", "encoded"} ELSE {})
    <3>1. S \subseteq A3
      BY <1>5, <1>6 DEF TrackNames
    <3> HIDE DEF S, A3
    <3>2. R(A3, Use(S), A3)
      BY <3>1, AtUse
    <3> QED BY <2>2, <3>2 DEF Callback, S
  <2> QED BY <2>1, <2>2
<1>14. R(A3, IF e \in TrackEvents THEN FreeTrack(0) ELSE <<>>, A4)
  <2>1. CASE e \in TrackEvents
    <3>1. Names(<<"encoded", "info", "track">>, T) /\ "session_id" \notin T
      BY <2>1 DEF Names, List, Distinct, ToSet, TrackNames
    <3> HIDE DEF T, A3
    <3> QED BY <1>6, <2>1, <3>1, AtFree DEF FreeTrack
  <2>2. CASE e \notin TrackEvents
    BY <2>2, RunsNone
  <2> QED BY <2>1, <2>2
<1> HIDE DEF T, A1, A2, A3, A4, A5, A6
<1>15. R(A4, Free(EventFreed[e], 0), A5)
  BY <1>1, <1>3, AtFree DEF A5
<1>16. R(A5, Free(<<"payload">>, 0), A6)
  BY <1>2, <1>3, <1>7, AtFree DEF A6
<1>17. R({}, EventParsed(e), A3)
  BY <1>9, <1>10, <1>11, RunsConcat DEF EventParsed
<1>18. R(A3, Dropped(e), A5)
  BY <1>14, <1>15, RunsConcat DEF Dropped
<1>19. R(A3, EventHandled(e), A6)
  BY <1>12, <1>13, <1>16, <1>18, RunsConcat DEF EventHandled
<1> QED BY <1>3, <1>8, <1>17, <1>19, RunsConcat DEF EventWork

-----------------------------------------------------------------------------
(* The calls of lib/rest.c that take a response from the application.      *)
(* What a coglink_node_info owns besides the rows of its two arrays.       *)
InfoNames ==
  {"response", "version", "semver", "preRelease", "build", "git", "branch", "commit",
   "jvm", "lavaplayer", "sourceManagers", "managers", "filters", "filterNames"}

Managers(n) == {"manager"} \X (1..n)
FilterRows(n) == {"filter"} \X (1..n)
Rows(n) == FilterRows(n) \cup Managers(n)

LEMMA InfoFacts ==
  ASSUME NEW n \in Nat
  PROVE  /\ Elsewhere(Managers(n)) /\ Elsewhere(FilterRows(n)) /\ Elsewhere(Rows(n))
         /\ {} \cup ({"manager"} \X (1..n)) = Managers(n)
         /\ {} \cup ({"filter"} \X (1..n)) = FilterRows(n)
         /\ FilterRows(n) \cup ({"manager"} \X (1..n)) = Rows(n)
         /\ Managers(n) \cup ({"filter"} \X (1..n)) = Rows(n)
         /\ \A b \in FilterRows(n) : b[1] # "manager"
         /\ {"manager", "filter", "sourceManagers", "managers", "filters", "filterNames"}
              \cap Requests = {}
         /\ Names(<<"sourceManagers", "managers">>, {"sourceManagers", "managers"})
         /\ Names(<<"filters", "filterNames">>, {"filters", "filterNames"})
<1>1. /\ Names(<<"sourceManagers", "managers">>, {"sourceManagers", "managers"})
      /\ Names(<<"filters", "filterNames">>, {"filters", "filterNames"})
  BY DEF Names, List, Distinct, ToSet
<1> QED BY <1>1 DEF Managers, FilterRows, Rows, Elsewhere, Requests

LEMMA FilterFacts ==
  /\ FilterNames = {"equalizer", "karaoke", "timescale", "tremolo", "vibrato",
                    "rotation", "distortion", "channelMix", "lowPass"}
  /\ FilterNames \cap Requests = {}
BY DEF FilterNames, ToSet, Filters, Requests

LEMMA DecodeTrackRuns ==
  ASSUME NEW n \in Nat
  PROVE  Runs("DECODE_TRACK", n, At({}, {}), DecodeTrackWork,
              At({"response"} \cup TrackNames, {}))
<1> DEFINE R(A, s, B) == Runs("DECODE_TRACK", n, At(A, {}), s, At(B, {}))
           sent == Free(<<"endpoint">>, 0)
           undo == Free(<<"body", "endpoint">>, 0)
           A0 == {}
           A1 == A0 \cup {"response"}
           A2 == A1 \cup {"endpoint"}
           A3 == A2 \cup {"body"}
           A4 == A3 \cup TrackNames
           A5 == A4 \ {"body", "endpoint"}
<1>1. /\ Names(<<"response">>, {"response"}) /\ Names(<<"endpoint">>, {"endpoint"})
      /\ Names(<<"body", "endpoint">>, {"body", "endpoint"})
  BY DEF Names, List, Distinct, ToSet
<1>2. Undoes(sent, {"endpoint"}) /\ Undoes(undo, {"body", "endpoint"})
  BY <1>1, UndoesNames
<1>3. /\ Undoable(A3, {"endpoint"}) /\ Undoable(A3, {"body", "endpoint"})
      /\ Undoable(A3, {})
  BY DEF Undoable, Requests, TrackNames
<1>4. /\ A2 \cap {"curl", "full_url", "authorization", "chunk"} = {}
      /\ {"body", "endpoint"} \subseteq A4 /\ A5 = {"response"} \cup TrackNames
  BY DEF TrackNames
<1> HIDE DEF sent, undo, A0, A1, A2, A3, A4, A5
<1>5. /\ R(A0, Malloc(<<"response">>, 0), A1)
      /\ R(A1, Malloc(<<"endpoint">>, 0), A2)
  BY <1>1, AtMalloc DEF A1, A2
<1>6. R(A3, Check("FAILED", undo), A3)
  BY <1>2, <1>3, ElsewhereNone, UndoesNothing, AtField DEF Codes
<1>7. R(A2, Answered(sent), A3)
  BY <1>4, <1>2, <1>3, ElsewhereNone, UndoesNothing, AtAnswered DEF A3
<1>8. R(A3, Track(0, <<>>), A4)
  BY <1>2, <1>3, ElsewhereNone, UndoesNothing, <1>1, AtTrack DEF A4
<1>9. R(A4, undo, A5)
  BY <1>1, <1>4, ElsewhereNone, AtFree DEF A5, undo
<1> QED BY <1>4, <1>5, <1>6, <1>7, <1>8, <1>9, RunsConcat
       DEF A0, sent, undo, DecodeTrackWork, Response

LEMMA DecodeTracksRuns ==
  ASSUME NEW n \in Nat
  PROVE  Runs("DECODE_TRACKS", n, At({}, {}), DecodeTracksWork(n),
              At({"response", "array"}, TrackNames \X (1..n)))
<1> DEFINE R(L, s, M) == Runs("DECODE_TRACKS", n, L, s, M)
           sent == Free(<<"jsonber">>, 0)
           A0 == {}
           A1 == A0 \cup {"response"}
           A2 == A1 \cup {"jsonber"}
           A3 == A2 \cup {"body"}
           A4 == A3 \ {"jsonber"}
           A5 == A4 \cup {"toks", "pairs"}
           A6 == A5 \cup {"array"}
           A7 == A6 \ {"body", "toks", "pairs"}
<1>1. /\ Names(<<"response">>, {"response"}) /\ Names(<<"jsonber">>, {"jsonber"})
      /\ Names(<<"array">>, {"array"})
      /\ Names(<<"body", "toks", "pairs">>, {"body", "toks", "pairs"})
  BY DEF Names, List, Distinct, ToSet
<1>2. Undoes(sent, {"jsonber"})
  BY <1>1, UndoesNames
<1>3. Undoable(A3, {"jsonber"}) /\ Undoable(A4, {}) /\ Undoable(A6, {})
  BY DEF Undoable, Requests
<1>4. /\ A2 \cap {"curl", "full_url", "authorization", "chunk"} = {}
      /\ {"jsonber"} \subseteq A3 /\ {"body", "toks", "pairs"} \subseteq A6
      /\ A7 = {"response", "array"}
  OBVIOUS
<1> HIDE DEF sent, A0, A1, A2, A3, A4, A5, A6, A7
<1>5. /\ R(At(A0, {}), Malloc(<<"response">>, 0), At(A1, {}))
      /\ R(At(A1, {}), Malloc(<<"jsonber">>, 0), At(A2, {}))
      /\ R(At(A5, {}), Malloc(<<"array">>, 0), At(A6, {}))
  BY <1>1, AtMalloc DEF A1, A2, A6
<1>6. R(At(A2, {}), Answered(sent), At(A3, {}))
  BY <1>4, <1>2, <1>3, ElsewhereNone, ElsewhereTracks, UndoesNothing, AtAnswered DEF A3
<1>7. R(At(A4, {}), JsonAuto("FAILED", <<>>), At(A5, {}))
  BY <1>2, <1>3, ElsewhereNone, ElsewhereTracks, UndoesNothing, AtJsonAuto DEF Codes, A5
<1>8. R(At(A6, {}), FlattenSeq([i \in 1..n |-> Track(i, <<>>)]), At(A6, TrackNames \X (1..n)))
  BY <1>2, <1>3, ElsewhereNone, ElsewhereTracks, UndoesNothing, <1>1, AtTracks
<1>9. /\ R(At(A3, {}), sent, At(A4, {}))
      /\ R(At(A6, TrackNames \X (1..n)), Free(<<"body", "toks", "pairs">>, 0), At(A7, TrackNames \X (1..n)))
  BY <1>1, <1>4, ElsewhereNone, ElsewhereTracks, AtFree DEF A4, sent, A7
<1> QED BY <1>4, <1>5, <1>6, <1>7, <1>8, <1>9, RunsConcat
       DEF A0, sent, DecodeTracksWork, Response

LEMMA UpdatePlayerRuns ==
  ASSUME NEW n \in Nat
  PROVE  Runs("UPDATE_PLAYER", n, At({}, {}), UpdatePlayerWork,
              At({}, {}))
<1> DEFINE R(A, s, B) == Runs("UPDATE_PLAYER", n, At(A, {}), s, At(B, {}))
           undo == Free(<<"jsonber", "endpoint">>, 0)
           A0 == {}
           A1 == A0 \cup {"endpoint", "jsonber"}
           A2 == A1 \ {"jsonber", "endpoint"}
<1>1. /\ Names(<<"endpoint", "jsonber">>, {"endpoint", "jsonber"})
      /\ Names(<<"jsonber", "endpoint">>, {"jsonber", "endpoint"})
  BY DEF Names, List, Distinct, ToSet
<1>2. Undoes(undo, {"jsonber", "endpoint"})
  BY <1>1, UndoesNames
<1>3. Undoable(A0, {}) /\ Undoable(A1, {"jsonber", "endpoint"})
  BY DEF Undoable, Requests
<1>4. /\ A1 \cap {"curl", "full_url", "authorization", "chunk"} = {}
      /\ {"jsonber", "endpoint"} \subseteq A1 /\ A2 = {}
  OBVIOUS
<1> HIDE DEF undo, A0, A1, A2
<1>5. R(A0, Malloc(<<"endpoint", "jsonber">>, 0), A1)
  BY <1>1, AtMalloc DEF A1
<1>6. R(A0, Check("NODE_OFFLINE", <<>>), A0)
  BY <1>2, <1>3, ElsewhereNone, UndoesNothing, AtField DEF Codes
<1>7. R(A1, Unanswered(undo), A1)
  BY <1>4, <1>2, <1>3, ElsewhereNone, UndoesNothing, AtUnanswered
<1>8. R(A1, undo, A2)
  BY <1>1, <1>4, ElsewhereNone, AtFree DEF A2, undo
<1> QED BY <1>4, <1>5, <1>6, <1>7, <1>8, RunsConcat DEF A0, undo, UpdatePlayerWork

LEMMA UpdatedPlayerRuns ==
  ASSUME NEW n \in Nat
  PROVE  Runs("UPDATED_PLAYER", n, At({}, {}), UpdatedPlayerWork,
              At({"response", "state", "filters"} \cup TrackNames \cup FilterNames, {}))
<1> DEFINE R(A, s, B) == Runs("UPDATED_PLAYER", n, At(A, {}), s, At(B, {}))
           undo == Free(<<"body", "jsonber", "endpoint">>, 0)
           filters == FlattenSeq([i \in DOMAIN Filters |->
                           Field(undo) \o Malloc(<<Filters[i]>>, 0)])
           A0 == {}
           A1 == A0 \cup {"response"}
           A2 == A1 \cup {"endpoint", "jsonber"}
           A3 == A2 \cup {"body"}
           A4 == A3 \cup TrackNames
           A5 == A4 \cup {"state", "filters"}
           A6 == A5 \cup FilterNames
           A7 == A6 \ {"body", "jsonber", "endpoint"}
<1>1. /\ Names(<<"response">>, {"response"})
      /\ Names(<<"endpoint", "jsonber">>, {"endpoint", "jsonber"})
      /\ Names(<<"state", "filters">>, {"state", "filters"})
      /\ Names(<<"body", "jsonber", "endpoint">>, {"body", "jsonber", "endpoint"})
  BY DEF Names, List, Distinct, ToSet
<1>2. Undoes(undo, {"body", "jsonber", "endpoint"})
  BY <1>1, UndoesNames
<1>3. /\ Undoable(A1, {}) /\ Undoable(A3, {"body", "jsonber", "endpoint"})
      /\ Undoable(A4, {"body", "jsonber", "endpoint"})
      /\ Undoable(A5, {"body", "jsonber", "endpoint"})
  BY DEF Undoable, Requests, TrackNames
<1>4. /\ A2 \cap {"curl", "full_url", "authorization", "chunk"} = {}
      /\ {"body", "jsonber", "endpoint"} \subseteq A6
      /\ A7 = {"response", "state", "filters"} \cup TrackNames \cup FilterNames
  BY FilterFacts DEF TrackNames
<1> HIDE DEF filters, undo, A0, A1, A2, A3, A4, A5, A6, A7
<1>5. /\ R(A0, Malloc(<<"response">>, 0), A1)
      /\ R(A1, Malloc(<<"endpoint", "jsonber">>, 0), A2)
      /\ R(A4, Malloc(<<"state", "filters">>, 0), A5)
  BY <1>1, AtMalloc DEF A1, A2, A5
<1>6. /\ R(A1, Check("NODE_OFFLINE", <<>>), A1)
      /\ R(A3, Json(undo), A3) /\ R(A3, Field(undo), A3)
      /\ R(A4, Field(undo), A4)
  BY <1>2, <1>3, ElsewhereNone, UndoesNothing, AtField DEF Codes
<1>7. R(A2, Answered(undo), A3)
  BY <1>4, <1>2, <1>3, ElsewhereNone, UndoesNothing, AtAnswered DEF A3
<1>8. R(A3, Track(0, undo), A4)
  BY <1>2, <1>3, ElsewhereNone, UndoesNothing, <1>1, AtTrack DEF A4
<1>9. R(A5, filters, A6)
  BY <1>2, <1>3, ElsewhereNone, UndoesNothing, <1>1, AtFilters DEF A6, filters
<1>10. R(A6, undo, A7)
  BY <1>1, <1>4, ElsewhereNone, AtFree DEF A7, undo
<1>11. R(A3, PlayerParsed(undo), A6)
  BY <1>5, <1>6, <1>7, <1>8, <1>9, <1>10, RunsConcat DEF PlayerParsed, filters
<1> QED BY <1>4, <1>5, <1>6, <1>7, <1>8, <1>9, <1>10, <1>11, RunsConcat
       DEF A0, filters, undo, UpdatedPlayerWork, Response

LEMMA DestroyPlayerRuns ==
  ASSUME NEW n \in Nat
  PROVE  Runs("DESTROY_PLAYER", n, At({}, {}), DestroyPlayerWork,
              At({}, {}))
<1> DEFINE R(A, s, B) == Runs("DESTROY_PLAYER", n, At(A, {}), s, At(B, {}))
           undo == Free(<<"endpoint">>, 0)
           A0 == {}
           A1 == A0 \cup {"endpoint"}
           A2 == A1 \ {"endpoint"}
<1>1. Names(<<"endpoint">>, {"endpoint"})
  BY DEF Names, List, Distinct, ToSet
<1>2. Undoes(undo, {"endpoint"})
  BY <1>1, UndoesNames
<1>3. Undoable(A0, {}) /\ Undoable(A1, {"endpoint"})
  BY DEF Undoable, Requests
<1>4. /\ A1 \cap {"curl", "full_url", "authorization", "chunk"} = {}
      /\ {"endpoint"} \subseteq A1 /\ A2 = {}
  OBVIOUS
<1> HIDE DEF undo, A0, A1, A2
<1>5. R(A0, Malloc(<<"endpoint">>, 0), A1)
  BY <1>1, AtMalloc DEF A1
<1>6. R(A0, Check("NODE_OFFLINE", <<>>), A0)
  BY <1>2, <1>3, ElsewhereNone, UndoesNothing, AtField DEF Codes
<1>7. R(A1, Unanswered(undo), A1)
  BY <1>4, <1>2, <1>3, ElsewhereNone, UndoesNothing, AtUnanswered
<1>8. R(A1, undo, A2)
  BY <1>1, <1>4, ElsewhereNone, AtFree DEF A2, undo
<1> QED BY <1>4, <1>5, <1>6, <1>7, <1>8, RunsConcat DEF A0, undo, DestroyPlayerWork

LEMMA UpdateSessionRuns ==
  ASSUME NEW n \in Nat
  PROVE  Runs("UPDATE_SESSION", n, At({}, {}), UpdateSessionWork,
              At({"response"}, {}))
<1> DEFINE R(A, s, B) == Runs("UPDATE_SESSION", n, At(A, {}), s, At(B, {}))
           undo == Free(<<"body", "jsonber", "endpoint">>, 0)
           A0 == {}
           A1 == A0 \cup {"response"}
           A2 == A1 \cup {"endpoint", "jsonber"}
           A3 == A2 \cup {"body"}
           A4 == A3 \ {"body", "jsonber", "endpoint"}
<1>1. /\ Names(<<"response">>, {"response"})
      /\ Names(<<"endpoint", "jsonber">>, {"endpoint", "jsonber"})
      /\ Names(<<"body", "jsonber", "endpoint">>, {"body", "jsonber", "endpoint"})
  BY DEF Names, List, Distinct, ToSet
<1>2. Undoes(undo, {"body", "jsonber", "endpoint"})
  BY <1>1, UndoesNames
<1>3. Undoable(A1, {}) /\ Undoable(A3, {"body", "jsonber", "endpoint"})
  BY DEF Undoable, Requests
<1>4. /\ A2 \cap {"curl", "full_url", "authorization", "chunk"} = {}
      /\ {"body", "jsonber", "endpoint"} \subseteq A3 /\ A4 = {"response"}
  OBVIOUS
<1> HIDE DEF undo, A0, A1, A2, A3, A4
<1>5. /\ R(A0, Malloc(<<"response">>, 0), A1)
      /\ R(A1, Malloc(<<"endpoint", "jsonber">>, 0), A2)
  BY <1>1, AtMalloc DEF A1, A2
<1>6. /\ R(A1, Check("NODE_OFFLINE", <<>>), A1)
      /\ R(A3, Json(undo), A3) /\ R(A3, Field(undo), A3)
  BY <1>2, <1>3, ElsewhereNone, UndoesNothing, AtField DEF Codes
<1>7. R(A2, Answered(undo), A3)
  BY <1>4, <1>2, <1>3, ElsewhereNone, UndoesNothing, AtAnswered DEF A3
<1>8. R(A3, undo, A4)
  BY <1>1, <1>4, ElsewhereNone, AtFree DEF A4, undo
<1> QED BY <1>4, <1>5, <1>6, <1>7, <1>8, RunsConcat
       DEF A0, undo, UpdateSessionWork, Response

LEMMA NodeInfoRuns ==
  ASSUME NEW n \in Nat
  PROVE  Runs("NODE_INFO", n, At({}, {}), NodeInfoWork(n),
              At(InfoNames, Rows(n)))
<1> DEFINE R(L, s, M) == Runs("NODE_INFO", n, L, s, M)
           list1 == <<"version", "semver", "preRelease", "build">>
           set1 == {"version", "semver", "preRelease", "build"}
           list2 == <<"git", "branch", "commit", "jvm", "lavaplayer">>
           set2 == {"git", "branch", "commit", "jvm", "lavaplayer"}
           undo == Free(<<"body">>, 0)
           A0 == {}
           A1 == A0 \cup {"response"}
           A2 == A1 \cup {"body"}
           A3 == A2 \cup set1
           A4 == A3 \cup set2
           A5 == A4 \cup {"sourceManagers", "managers"}
           A6 == A5 \cup {"filters", "filterNames"}
           A7 == A6 \ {"body"}
<1>1. /\ Names(<<"response">>, {"response"}) /\ Names(list1, set1) /\ Names(list2, set2)
      /\ Names(<<"body">>, {"body"})
  BY DEF Names, List, Distinct, ToSet
<1>2. Undoes(undo, {"body"})
  BY <1>1, UndoesNames
<1>3. /\ Undoable(A1, {}) /\ Undoable(A2, {}) /\ Undoable(A2, {"body"})
      /\ Undoable(A3, {"body"}) /\ Undoable(A4, {"body"}) /\ Undoable(A5, {"body"})
  BY DEF Undoable, Requests
<1>4. /\ A1 \cap {"curl", "full_url", "authorization", "chunk"} = {}
      /\ {"body"} \subseteq A6 /\ A7 = InfoNames
  BY DEF InfoNames
<1> HIDE DEF list1, set1, list2, set2, undo, A0, A1, A2, A3, A4, A5, A6, A7
<1>5. /\ R(At(A0, {}), Malloc(<<"response">>, 0), At(A1, {}))
      /\ R(At(A2, {}), Malloc(list1, 0), At(A3, {}))
      /\ R(At(A3, {}), Malloc(list2, 0), At(A4, {}))
  BY <1>1, AtMalloc DEF A1, A3, A4
<1>6. /\ R(At(A1, {}), Check("NODE_OFFLINE", <<>>), At(A1, {}))
      /\ R(At(A2, {}), Json(undo), At(A2, {})) /\ R(At(A2, {}), Field(undo), At(A2, {}))
      /\ R(At(A3, {}), Field(undo), At(A3, {}))
  BY <1>2, <1>3, ElsewhereNone, InfoFacts, UndoesNothing, AtField DEF Codes
<1>7. R(At(A1, {}), Answered(<<>>), At(A2, {}))
  BY <1>4, <1>2, <1>3, ElsewhereNone, InfoFacts, UndoesNothing, AtAnswered DEF A2
<1>8. R(At(A4, {}), NamesParsed(n, <<"sourceManagers", "managers">>, "manager", undo), At(A5, Managers(n)))
  BY <1>2, <1>3, ElsewhereNone, InfoFacts, UndoesNothing, <1>1, InfoFacts, AtNames DEF A5
<1>9. R(At(A5, Managers(n)), NamesParsed(n, <<"filters", "filterNames">>, "filter", undo), At(A6, Rows(n)))
  BY <1>2, <1>3, ElsewhereNone, InfoFacts, UndoesNothing, <1>1, InfoFacts, AtNames DEF A6
<1>10. R(At(A6, Rows(n)), undo, At(A7, Rows(n)))
  BY <1>1, <1>4, ElsewhereNone, InfoFacts, AtFree DEF A7, undo, set1, set2
<1>11. R(At(A2, {}), NodeInfoParsed(n, undo), At(A6, Rows(n)))
  BY <1>5, <1>6, <1>7, <1>8, <1>9, <1>10, RunsConcat DEF NodeInfoParsed, list1, list2
<1> QED BY <1>4, <1>5, <1>6, <1>7, <1>8, <1>9, <1>10, <1>11, RunsConcat
       DEF A0, list1, list2, undo, NodeInfoWork, Response

LEMMA NodeInfoReleasedRuns ==
  ASSUME NEW n \in Nat
  PROVE  Runs("RELEASE", n, At(InfoNames, Rows(n)), NodeInfoReleased(n),
              At({}, {}))
<1> DEFINE R(L, s, M) == Runs("RELEASE", n, L, s, M)
           list1 ==
             <<"semver", "preRelease", "build", "version", "branch", "commit", "git", "jvm", "lavaplayer">>
           set1 ==
             {"semver", "preRelease", "build", "version", "branch", "commit", "git", "jvm", "lavaplayer"}
           A0 == InfoNames
           A1 == A0 \ set1
           A2 == A1 \ {"managers", "sourceManagers"}
           A3 == A2 \ {"filterNames", "filters", "response"}
<1>1. /\ Names(list1, set1)
      /\ Names(<<"managers", "sourceManagers">>, {"managers", "sourceManagers"})
      /\ Names(<<"filterNames", "filters", "response">>, {"filterNames", "filters", "response"})
  BY DEF Names, List, Distinct, ToSet
<1>2. /\ set1 \subseteq A0 /\ {"managers", "sourceManagers"} \subseteq A1
      /\ {"filterNames", "filters", "response"} \subseteq A2 /\ A3 = {}
  BY DEF InfoNames
<1> HIDE DEF list1, set1, A0, A1, A2, A3
<1>3. R(At(A1, Rows(n)), FreeNames(n, "manager"), At(A1, FilterRows(n)))
  BY ElsewhereNone, InfoFacts, <1>1, InfoFacts, AtFreeNames
<1>4. R(At(A2, FilterRows(n)), FreeNames(n, "filter"), At(A2, {}))
  BY ElsewhereNone, InfoFacts, <1>1, InfoFacts, AtFreeNames
<1>5. /\ R(At(A0, Rows(n)), Free(list1, 0), At(A1, Rows(n)))
      /\ R(At(A1, FilterRows(n)), Free(<<"managers", "sourceManagers">>, 0), At(A2, FilterRows(n)))
      /\ R(At(A2, {}), Free(<<"filterNames", "filters", "response">>, 0), At(A3, {}))
  BY <1>1, <1>2, ElsewhereNone, InfoFacts, AtFree DEF A1, A2, A3, set1
<1> QED BY <1>2, <1>3, <1>4, <1>5, RunsConcat DEF A0, list1, NodeInfoReleased

LEMMA VersionRuns ==
  ASSUME NEW n \in Nat
  PROVE  Runs("VERSION", n, At({}, {}), VersionWork(<<>>),
              At({}, {}))
<1> DEFINE R(A, s, B) == Runs("VERSION", n, At(A, {}), s, At(B, {}))
           undo == Free(<<"body">>, 0)
           A0 == {}
           A1 == A0 \cup {"body"}
           A2 == A1 \cup {}
           A3 == A2 \ {"body"}
<1>1. Names(<<>>, {}) /\ Names(<<"body">>, {"body"})
  BY DEF Names, List, Distinct, ToSet
<1>2. Undoes(undo, {"body"})
  BY <1>1, UndoesNames
<1>3. Undoable(A1, {}) /\ Undoable(A1, {"body"})
  BY DEF Undoable, Requests
<1>4. /\ A0 \cap {"curl", "full_url", "authorization", "chunk"} = {}
      /\ {"body"} \subseteq A2 /\ A3 = {}
  OBVIOUS
<1> HIDE DEF undo, A0, A1, A2, A3
<1>5. R(A1, Malloc(<<>>, 0), A2)
  BY <1>1, AtMalloc DEF A2
<1>6. R(A1, Check("PARSE_FAILED", undo), A1)
  BY <1>2, <1>3, ElsewhereNone, UndoesNothing, AtField DEF Codes
<1>7. R(A0, Answered(<<>>), A1)
  BY <1>4, <1>2, <1>3, ElsewhereNone, UndoesNothing, AtAnswered DEF A1
<1>8. R(A2, undo, A3)
  BY <1>1, <1>4, ElsewhereNone, AtFree DEF A3, undo
<1> QED BY <1>4, <1>5, <1>6, <1>7, <1>8, RunsConcat DEF A0, undo, VersionWork

LEMMA PreReleaseRuns ==
  ASSUME NEW n \in Nat
  PROVE  Runs("VERSION_PRERELEASE", n, At({}, {}), VersionWork(<<"preRelease">>),
              At({"preRelease"}, {}))
<1> DEFINE R(A, s, B) == Runs("VERSION_PRERELEASE", n, At(A, {}), s, At(B, {}))
           undo == Free(<<"body">>, 0)
           A0 == {}
           A1 == A0 \cup {"body"}
           A2 == A1 \cup {"preRelease"}
           A3 == A2 \ {"body"}
<1>1. Names(<<"preRelease">>, {"preRelease"}) /\ Names(<<"body">>, {"body"})
  BY DEF Names, List, Distinct, ToSet
<1>2. Undoes(undo, {"body"})
  BY <1>1, UndoesNames
<1>3. Undoable(A1, {}) /\ Undoable(A1, {"body"})
  BY DEF Undoable, Requests
<1>4. /\ A0 \cap {"curl", "full_url", "authorization", "chunk"} = {}
      /\ {"body"} \subseteq A2 /\ A3 = {"preRelease"}
  OBVIOUS
<1> HIDE DEF undo, A0, A1, A2, A3
<1>5. R(A1, Malloc(<<"preRelease">>, 0), A2)
  BY <1>1, AtMalloc DEF A2
<1>6. R(A1, Check("PARSE_FAILED", undo), A1)
  BY <1>2, <1>3, ElsewhereNone, UndoesNothing, AtField DEF Codes
<1>7. R(A0, Answered(<<>>), A1)
  BY <1>4, <1>2, <1>3, ElsewhereNone, UndoesNothing, AtAnswered DEF A1
<1>8. R(A2, undo, A3)
  BY <1>1, <1>4, ElsewhereNone, AtFree DEF A3, undo
<1> QED BY <1>4, <1>5, <1>6, <1>7, <1>8, RunsConcat DEF A0, undo, VersionWork

LEMMA StatsRuns ==
  ASSUME NEW n \in Nat
  PROVE  Runs("NODE_STATS", n, At({}, {}), StatsWork,
              At({"response", "memory", "cpu"}, {}))
<1> DEFINE R(A, s, B) == Runs("NODE_STATS", n, At(A, {}), s, At(B, {}))
           undo == Free(<<"body">>, 0)
           A0 == {}
           A1 == A0 \cup {"response"}
           A2 == A1 \cup {"body"}
           A3 == A2 \cup {"memory", "cpu"}
           A4 == A3 \ {"body"}
<1>1. /\ Names(<<"response">>, {"response"})
      /\ Names(<<"memory", "cpu">>, {"memory", "cpu"}) /\ Names(<<"body">>, {"body"})
  BY DEF Names, List, Distinct, ToSet
<1>2. Undoes(undo, {"body"})
  BY <1>1, UndoesNames
<1>3. Undoable(A2, {}) /\ Undoable(A2, {"body"})
  BY DEF Undoable, Requests
<1>4. /\ A1 \cap {"curl", "full_url", "authorization", "chunk"} = {}
      /\ {"body"} \subseteq A3 /\ A4 = {"response", "memory", "cpu"}
  OBVIOUS
<1> HIDE DEF undo, A0, A1, A2, A3, A4
<1>5. /\ R(A0, Malloc(<<"response">>, 0), A1)
      /\ R(A2, Malloc(<<"memory", "cpu">>, 0), A3)
  BY <1>1, AtMalloc DEF A1, A3
<1>6. R(A2, Json(undo), A2) /\ R(A2, Field(undo), A2)
  BY <1>2, <1>3, ElsewhereNone, UndoesNothing, AtField DEF Codes
<1>7. R(A1, Answered(<<>>), A2)
  BY <1>4, <1>2, <1>3, ElsewhereNone, UndoesNothing, AtAnswered DEF A2
<1>8. R(A3, undo, A4)
  BY <1>1, <1>4, ElsewhereNone, AtFree DEF A4, undo
<1> QED BY <1>4, <1>5, <1>6, <1>7, <1>8, RunsConcat DEF A0, undo, StatsWork, Response

-----------------------------------------------------------------------------
(* coglink_load_tracks, by kind of result.                                 *)
LoadUndo == Free(<<"endpoint", "body">>, 0)
LoadHeld == {"endpoint", "body", "toks", "pairs"}

LEMMA LoadUndoes == Undoes(LoadUndo, {"endpoint", "body"})
<1>1. Names(<<"endpoint", "body">>, {"endpoint", "body"})
  BY DEF Names, List, Distinct, ToSet
<1> QED BY <1>1, UndoesNames DEF LoadUndo

(* Around what is parsed: the names X, and the blocks Q elsewhere.         *)
LEMMA LoadRuns ==
  ASSUME NEW n \in Nat, NEW k \in Loads, NEW X, X \cap LoadHeld = {},
         NEW Q, Elsewhere(Q),
         Runs(k, n, At(LoadHeld, {}), LoadParsed(n, LoadUndo)[k], At(LoadHeld \cup X, Q))
  PROVE  Runs(k, n, At({}, {}), LoadWork(n)[k], At(X, Q))
<1> DEFINE R(A, s, B) == Runs(k, n, At(A, {}), s, At(B, {}))
           sent == Free(<<"endpoint">>, 0)
           A0 == {}
           A1 == A0 \cup {"endpoint"}
           A2 == A1 \cup {"body"}
           A3 == A2 \cup {"toks", "pairs"}
           A4 == A3 \cup X
           A5 == A4 \ {"toks", "pairs"}
           A6 == A5 \ {"endpoint", "body"}
<1>1. /\ Names(<<"endpoint">>, {"endpoint"}) /\ Names(<<"toks", "pairs">>, {"toks", "pairs"})
      /\ Names(<<"endpoint", "body">>, {"endpoint", "body"})
  BY DEF Names, List, Distinct, ToSet
<1>2. Undoes(sent, {"endpoint"})
  BY <1>1, UndoesNames
<1>3. /\ Undoable(A2, {"endpoint"}) /\ Undoable(A2, {"endpoint", "body"})
      /\ Undoable(A3, {"endpoint", "body"})
  BY DEF Undoable, Requests
<1>4. /\ A1 \cap {"curl", "full_url", "authorization", "chunk"} = {}
      /\ {"toks", "pairs"} \subseteq A4 /\ {"endpoint", "body"} \subseteq A5
      /\ A3 = LoadHeld /\ A6 = X
  BY DEF LoadHeld
<1>5. k # "RELEASE"
  BY DEF Loads, LoadReleased
<1> HIDE DEF sent, A0, A1, A2, A3, A4, A5, A6
<1>6. R(A0, Malloc(<<"endpoint">>, 0), A1)
  BY <1>1, AtMalloc DEF A1
<1>7. R(A3, Field(LoadUndo), A3)
  BY <1>3, <1>5, ElsewhereNone, LoadUndoes, AtField
<1>8. R(A1, Answered(sent), A2)
  BY <1>2, <1>3, <1>4, <1>5, ElsewhereNone, AtAnswered DEF A2
<1>9. R(A2, JsonAuto("PARSE_FAILED", LoadUndo), A3)
  BY <1>3, <1>5, ElsewhereNone, LoadUndoes, AtJsonAuto DEF Codes, A3
<1>10. Runs(k, n, At(A3, {}), LoadParsed(n, LoadUndo)[k], At(A4, Q))
  BY <1>4 DEF A4
<1>11. /\ Runs(k, n, At(A4, Q), Free(<<"toks", "pairs">>, 0), At(A5, Q))
       /\ Runs(k, n, At(A5, Q), LoadUndo, At(A6, Q))
  BY <1>1, <1>4, AtFree DEF A5, A6, LoadUndo
<1>12. LoadWork(n)[k] = Malloc(<<"endpoint">>, 0) \o Answered(sent)
           \o JsonAuto("PARSE_FAILED", LoadUndo) \o Field(LoadUndo)
           \o LoadParsed(n, LoadUndo)[k] \o Free(<<"toks", "pairs">>, 0) \o LoadUndo
  BY DEF LoadWork, Loads, LoadReleased, LoadParsed, LoadUndo, sent
<1> QED BY <1>4, <1>6, <1>7, <1>8, <1>9, <1>10, <1>11, <1>12, RunsConcat DEF A0

(* The tracks in a playlist or in the results of a search.                 *)
PlaylistNames == {"data", "playlist_info", "tracks", "array"}

LEMMA LoadsRun ==
  ASSUME NEW n \in Nat
  PROVE  /\ Runs("LOAD_TRACK", n, At({}, {}), LoadWork(n)["LOAD_TRACK"], At(TrackNames, {}))
         /\ Runs("LOAD_PLAYLIST", n, At({}, {}), LoadWork(n)["LOAD_PLAYLIST"],
                 At(PlaylistNames, TrackNames \X (1..n)))
         /\ Runs("LOAD_SEARCH", n, At({}, {}), LoadWork(n)["LOAD_SEARCH"],
                 At({"data", "array"}, TrackNames \X (1..n)))
         /\ Runs("LOAD_EMPTY", n, At({}, {}), LoadWork(n)["LOAD_EMPTY"], At({}, {}))
         /\ Runs("LOAD_ERROR", n, At({}, {}), LoadWork(n)["LOAD_ERROR"],
                 At({"data", "message", "cause"}, {}))
<1> DEFINE parsed == LoadParsed(n, LoadUndo)
           tracks == FlattenSeq([i \in 1..n |-> Track(i, LoadUndo)])
           list == <<"data", "playlist_info", "tracks", "array">>
           U == {"endpoint", "body"}
<1>1. \A k \in {"LOAD_TRACK", "LOAD_PLAYLIST", "LOAD_SEARCH", "LOAD_EMPTY", "LOAD_ERROR"} :
        k \in Loads
  BY DEF Loads, LoadReleased
<1>2. /\ Names(list, PlaylistNames) /\ Names(<<"data", "array">>, {"data", "array"})
      /\ Names(<<"data", "message", "cause">>, {"data", "message", "cause"})
  BY DEF Names, List, Distinct, ToSet, PlaylistNames
<1>3. /\ Undoable(LoadHeld, U)
      /\ Undoable(LoadHeld \cup PlaylistNames, U)
      /\ Undoable(LoadHeld \cup {"data", "array"}, U)
  BY DEF Undoable, LoadHeld, PlaylistNames, Requests
<1>4. \A X \in {TrackNames, PlaylistNames, {"data", "array"}, {}, {"data", "message", "cause"}} :
        X \cap LoadHeld = {}
  BY DEF LoadHeld, PlaylistNames, TrackNames
<1> HIDE DEF tracks, list, U
<1>5. /\ parsed["LOAD_TRACK"] = Track(0, LoadUndo)
      /\ parsed["LOAD_PLAYLIST"] = Malloc(list, 0) \o tracks
      /\ parsed["LOAD_SEARCH"] = Field(LoadUndo) \o Malloc(<<"data", "array">>, 0) \o tracks
      /\ parsed["LOAD_EMPTY"] = <<>>
      /\ parsed["LOAD_ERROR"] = Field(LoadUndo) \o Malloc(<<"data", "message", "cause">>, 0)
  BY DEF LoadParsed, tracks, list
<1> HIDE DEF parsed
<1> DEFINE Q == TrackNames \X (1..n)
<1>6. Elsewhere(Q)
  BY ElsewhereTracks
<1> HIDE DEF Q
<1>7. Runs("LOAD_TRACK", n, At(LoadHeld, {}), parsed["LOAD_TRACK"],
           At(LoadHeld \cup TrackNames, {}))
  BY <1>3, <1>5, ElsewhereNone, LoadUndoes, AtTrack DEF U
<1>8. Runs("LOAD_PLAYLIST", n, At(LoadHeld, {}), parsed["LOAD_PLAYLIST"],
           At(LoadHeld \cup PlaylistNames, Q))
  <2> DEFINE A == LoadHeld \cup PlaylistNames
  <2>1. Runs("LOAD_PLAYLIST", n, At(LoadHeld, {}), Malloc(list, 0), At(A, {}))
    BY <1>2, AtMalloc
  <2> HIDE DEF A
  <2>2. Runs("LOAD_PLAYLIST", n, At(A, {}), tracks, At(A, Q))
    BY <1>3, LoadUndoes, AtTracks DEF A, U, tracks, Q
  <2> QED BY <1>5, <2>1, <2>2, RunsConcat DEF A
<1>9. Runs("LOAD_SEARCH", n, At(LoadHeld, {}), parsed["LOAD_SEARCH"],
           At(LoadHeld \cup {"data", "array"}, Q))
  <2> DEFINE A == LoadHeld \cup {"data", "array"}
  <2>1. Runs("LOAD_SEARCH", n, At(LoadHeld, {}), Malloc(<<"data", "array">>, 0), At(A, {}))
    BY <1>2, AtMalloc
  <2> HIDE DEF A
  <2>2. Runs("LOAD_SEARCH", n, At(A, {}), tracks, At(A, Q))
    BY <1>3, LoadUndoes, AtTracks DEF A, U, tracks, Q
  <2>3. Runs("LOAD_SEARCH", n, At(LoadHeld, {}), Field(LoadUndo), At(LoadHeld, {}))
    BY <1>3, ElsewhereNone, LoadUndoes, AtField DEF U
  <2> QED BY <1>5, <2>1, <2>2, <2>3, RunsConcat DEF A
<1>10. Runs("LOAD_EMPTY", n, At(LoadHeld, {}), parsed["LOAD_EMPTY"], At(LoadHeld \cup {}, {}))
  <2>1. LoadHeld \cup {} = LoadHeld
    OBVIOUS
  <2> QED BY <1>5, <2>1, RunsNone
<1>11. Runs("LOAD_ERROR", n, At(LoadHeld, {}), parsed["LOAD_ERROR"],
            At(LoadHeld \cup {"data", "message", "cause"}, {}))
  <2>1. /\ Runs("LOAD_ERROR", n, At(LoadHeld, {}), Field(LoadUndo), At(LoadHeld, {}))
        /\ Runs("LOAD_ERROR", n, At(LoadHeld, {}), Malloc(<<"data", "message", "cause">>, 0),
                At(LoadHeld \cup {"data", "message", "cause"}, {}))
    BY <1>2, <1>3, ElsewhereNone, LoadUndoes, AtField, AtMalloc DEF U
  <2> QED BY <1>5, <2>1, RunsConcat
<1>12. Runs("LOAD_TRACK", n, At({}, {}), LoadWork(n)["LOAD_TRACK"], At(TrackNames, {}))
  BY <1>1, <1>4, <1>7, ElsewhereNone, LoadRuns DEF parsed
<1>13. Runs("LOAD_PLAYLIST", n, At({}, {}), LoadWork(n)["LOAD_PLAYLIST"], At(PlaylistNames, Q))
  BY <1>1, <1>4, <1>6, <1>8, LoadRuns DEF parsed
<1>14. Runs("LOAD_SEARCH", n, At({}, {}), LoadWork(n)["LOAD_SEARCH"], At({"data", "array"}, Q))
  BY <1>1, <1>4, <1>6, <1>9, LoadRuns DEF parsed
<1>15. Runs("LOAD_EMPTY", n, At({}, {}), LoadWork(n)["LOAD_EMPTY"], At({}, {}))
  BY <1>1, <1>4, <1>10, ElsewhereNone, LoadRuns DEF parsed
<1>16. Runs("LOAD_ERROR", n, At({}, {}), LoadWork(n)["LOAD_ERROR"],
            At({"data", "message", "cause"}, {}))
  BY <1>1, <1>4, <1>11, ElsewhereNone, LoadRuns DEF parsed
<1> QED BY <1>12, <1>13, <1>14, <1>15, <1>16 DEF Q

-----------------------------------------------------------------------------
(* What the gateway sends.                                                 *)
LEMMA VoiceStateRuns ==
  ASSUME NEW n \in Nat
  PROVE  Runs("VOICE_STATE", n, At({}, {}), VoiceStateWork,
              At({"voice_session"}, {}))
<1> DEFINE R(A, s, B) == Runs("VOICE_STATE", n, At(A, {}), s, At(B, {}))
           A0 == {}
           A1 == A0 \cup {"voice_session"}
<1>1. Names(<<"voice_session">>, {"voice_session"})
  BY DEF Names, List, Distinct, ToSet
<1>2. Undoable(A0, {})
  BY DEF Undoable, Requests
<1>3. A1 = {"voice_session"}
  OBVIOUS
<1> HIDE DEF A0, A1
<1>4. R(A0, Malloc(<<"voice_session">>, 0), A1)
  BY <1>1, AtMalloc DEF A1
<1>5. R(A0, Json(<<>>), A0) /\ R(A0, Field(<<>>), A0)
  BY <1>2, ElsewhereNone, UndoesNothing, AtField DEF Codes
<1> QED BY <1>3, <1>4, <1>5, RunsConcat DEF A0, VoiceStateWork

LEMMA VoiceServerRuns ==
  ASSUME NEW n \in Nat
  PROVE  Runs("VOICE_SERVER", n, At({}, {}), VoiceServerWork(TRUE),
              At({}, {}))
<1> DEFINE R(A, s, B) == Runs("VOICE_SERVER", n, At(A, {}), s, At(B, {}))
           undo == Free(<<"payload_text", "token", "endpoint">>, 0)
           A0 == {}
           A1 == A0 \cup {"token", "endpoint"}
           A2 == A1 \cup {"payload_text"}
           A3 == A2 \ {"payload_text", "token", "endpoint"}
<1>1. /\ Names(<<"token", "endpoint">>, {"token", "endpoint"})
      /\ Names(<<"payload_text">>, {"payload_text"})
      /\ Names(<<"payload_text", "token", "endpoint">>, {"payload_text", "token", "endpoint"})
  BY DEF Names, List, Distinct, ToSet
<1>2. Undoes(undo, {"payload_text", "token", "endpoint"})
  BY <1>1, UndoesNames
<1>3. Undoable(A0, {}) /\ Undoable(A2, {"payload_text", "token", "endpoint"})
  BY DEF Undoable, Requests
<1>4. /\ A2 \cap {"curl", "full_url", "authorization", "chunk"} = {}
      /\ {"payload_text", "token", "endpoint"} \subseteq A2 /\ A3 = {}
  OBVIOUS
<1> HIDE DEF undo, A0, A1, A2, A3
<1>5. /\ R(A0, Malloc(<<"token", "endpoint">>, 0), A1)
      /\ R(A1, Malloc(<<"payload_text">>, 0), A2)
  BY <1>1, AtMalloc DEF A1, A2
<1>6. R(A0, Check("EXIT", <<>>), A0) /\ R(A0, Field(<<>>), A0)
  BY <1>2, <1>3, ElsewhereNone, UndoesNothing, AtField DEF Codes
<1>7. R(A0, Check("PARSE_FAILED", Unwritten), A0)
  BY AtUnwritten DEF A0, FallsThrough
<1>8. R(A2, Unanswered(undo), A2)
  BY <1>4, <1>2, <1>3, ElsewhereNone, UndoesNothing, AtUnanswered
<1>9. R(A2, undo, A3)
  BY <1>1, <1>4, ElsewhereNone, AtFree DEF A3, undo
<1>10. R(A1, Malloc(<<"payload_text">>, 0) \o Unanswered(undo) \o undo, A3)
  BY <1>5, <1>8, <1>9, RunsConcat DEF undo
<1> QED BY <1>4, <1>5, <1>6, <1>7, <1>8, <1>9, <1>10, RunsConcat
       DEF A0, undo, VoiceServerWork

LEMMA VoiceServerUnknownRuns ==
  ASSUME NEW n \in Nat
  PROVE  Runs("VOICE_SERVER_UNKNOWN", n, At({}, {}), VoiceServerWork(FALSE),
              At({}, {}))
<1> DEFINE R(A, s, B) == Runs("VOICE_SERVER_UNKNOWN", n, At(A, {}), s, At(B, {}))
           A0 == {}
           A1 == A0 \cup {"token", "endpoint"}
           A2 == A1 \ {"token", "endpoint"}
<1>1. Names(<<"token", "endpoint">>, {"token", "endpoint"})
  BY DEF Names, List, Distinct, ToSet
<1>2. Undoable(A0, {})
  BY DEF Undoable, Requests
<1>3. {"token", "endpoint"} \subseteq A1 /\ A2 = {}
  OBVIOUS
<1> HIDE DEF A0, A1, A2
<1>4. R(A0, Malloc(<<"token", "endpoint">>, 0), A1)
  BY <1>1, AtMalloc DEF A1
<1>5. /\ R(A0, Check("PARSE_FAILED", <<>>), A0) /\ R(A0, Check("EXIT", <<>>), A0)
      /\ R(A0, Field(<<>>), A0)
  BY <1>2, ElsewhereNone, UndoesNothing, AtField DEF Codes
<1>6. R(A1, Free(<<"token", "endpoint">>, 0), A2)
  BY <1>1, <1>3, ElsewhereNone, AtFree DEF A2
<1> QED BY <1>3, <1>4, <1>5, <1>6, RunsConcat DEF A0, VoiceServerWork

LEMMA GuildCreateRuns ==
  ASSUME NEW n \in Nat
  PROVE  Runs("GUILD_CREATE", n, At({}, {}), GuildCreateWork(<<>>),
              At({}, {}))
<1> DEFINE R(A, s, B) == Runs("GUILD_CREATE", n, At(A, {}), s, At(B, {}))
           A0 == {}
           A1 == A0 \cup {"toks", "pairs"}
           A2 == A1 \ {"toks"}
           A3 == A2 \cup {}
           A4 == A3 \ {"pairs"}
<1>1. Names(<<"toks">>, {"toks"}) /\ Names(<<>>, {}) /\ Names(<<"pairs">>, {"pairs"})
  BY DEF Names, List, Distinct, ToSet
<1>2. Undoable(A0, {}) /\ Undoable(A1, {}) /\ Undoable(A2, {})
  BY DEF Undoable, Requests
<1>3. {"toks"} \subseteq A1 /\ {"pairs"} \subseteq A3 /\ A4 = {}
  OBVIOUS
<1> HIDE DEF A0, A1, A2, A3, A4
<1>4. R(A2, Malloc(<<>>, 0), A3)
  BY <1>1, AtMalloc DEF A3
<1>5. /\ R(A1, Field(<<>>), A1)
      /\ R(A2, Field(<<>>), A2)
  BY <1>2, ElsewhereNone, UndoesNothing, AtField DEF Codes
<1>6. R(A0, JsonAuto("PARSE_FAILED", Unwritten), A1)
  BY AtJsonAutoUnwritten DEF A0, A1, FallsThrough
<1>7. /\ R(A1, Free(<<"toks">>, 0), A2)
      /\ R(A3, Free(<<"pairs">>, 0), A4)
  BY <1>1, <1>3, ElsewhereNone, AtFree DEF A2, A4
<1> QED BY <1>3, <1>4, <1>5, <1>6, <1>7, RunsConcat DEF A0, GuildCreateWork

LEMMA GuildCreateOwnRuns ==
  ASSUME NEW n \in Nat
  PROVE  Runs("GUILD_CREATE_OWN", n, At({}, {}), GuildCreateWork(<<"voice_session">>),
              At({"voice_session"}, {}))
<1> DEFINE R(A, s, B) == Runs("GUILD_CREATE_OWN", n, At(A, {}), s, At(B, {}))
           A0 == {}
           A1 == A0 \cup {"toks", "pairs"}
           A2 == A1 \ {"toks"}
           A3 == A2 \cup {"voice_session"}
           A4 == A3 \ {"pairs"}
<1>1. /\ Names(<<"toks">>, {"toks"}) /\ Names(<<"voice_session">>, {"voice_session"})
      /\ Names(<<"pairs">>, {"pairs"})
  BY DEF Names, List, Distinct, ToSet
<1>2. Undoable(A0, {}) /\ Undoable(A1, {}) /\ Undoable(A2, {})
  BY DEF Undoable, Requests
<1>3. {"toks"} \subseteq A1 /\ {"pairs"} \subseteq A3 /\ A4 = {"voice_session"}
  OBVIOUS
<1> HIDE DEF A0, A1, A2, A3, A4
<1>4. R(A2, Malloc(<<"voice_session">>, 0), A3)
  BY <1>1, AtMalloc DEF A3
<1>5. /\ R(A1, Field(<<>>), A1)
      /\ R(A2, Field(<<>>), A2)
  BY <1>2, ElsewhereNone, UndoesNothing, AtField DEF Codes
<1>6. R(A0, JsonAuto("PARSE_FAILED", Unwritten), A1)
  BY AtJsonAutoUnwritten DEF A0, A1, FallsThrough
<1>7. /\ R(A1, Free(<<"toks">>, 0), A2)
      /\ R(A3, Free(<<"pairs">>, 0), A4)
  BY <1>1, <1>3, ElsewhereNone, AtFree DEF A2, A4
<1> QED BY <1>3, <1>4, <1>5, <1>6, <1>7, RunsConcat DEF A0, GuildCreateWork

-----------------------------------------------------------------------------
NoRequest(M) == \A b \in M : b[1] \notin Requests
Only(c, M) == \A b \in M : b[1] \in Remains(c)

(* What a call may leave when it succeeds: no request; if the application  *)
(* has nothing to release, what remains of such a call; and if it has,     *)
(* blocks that its releasing leaves in order.  Two functions do not:       *)
(* coglink_free_update_player frees the track twice, and what              *)
(* coglink_decode_track has parsed is not in the response to be released.  *)
Settled(c, n, M) ==
  /\ NoRequest(M)
  /\ c \notin Documented => Only(c, M)
  /\ c \in Documented \ {"UPDATED_PLAYER"} =>
       \E K : /\ Runs("RELEASE", n, M, Release(n)[c], K)
              /\ NoRequest(K) /\ (c # "DECODE_TRACK" => Only(c, K))

Ends(c, n) == \E M : Runs(c, n, {}, Work(n)[c], M) /\ Settled(c, n, M)

LEMMA EndsAt ==
  ASSUME NEW c, NEW n, NEW A, NEW R, Runs(c, n, At({}, {}), Work(n)[c], At(A, R)),
         Elsewhere(R), A \cap Requests = {},
         c \notin Documented => A \subseteq Remains(c) /\ R = {},
         c \in Documented \ {"UPDATED_PLAYER"} =>
           \E B : /\ Runs("RELEASE", n, At(A, R), Release(n)[c], At(B, {}))
                  /\ B \cap Requests = {} /\ (c # "DECODE_TRACK" => B \subseteq Remains(c))
  PROVE  Ends(c, n)
<1>1. At({}, {}) = {}
  BY DEF At
<1>2. NoRequest(At(A, R))
  BY DEF NoRequest, At, Elsewhere
<1>3. \A B : /\ B \cap Requests = {} => NoRequest(At(B, {}))
             /\ B \subseteq Remains(c) => Only(c, At(B, {}))
  BY DEF NoRequest, Only, At
<1>4. c \notin Documented => Only(c, At(A, R))
  BY <1>3
<1>5. c \in Documented \ {"UPDATED_PLAYER"} =>
        \E K : /\ Runs("RELEASE", n, At(A, R), Release(n)[c], K)
               /\ NoRequest(K) /\ (c # "DECODE_TRACK" => Only(c, K))
  BY <1>3
<1>6. Settled(c, n, At(A, R))
  BY <1>2, <1>4, <1>5 DEF Settled
<1> QED BY <1>1, <1>6 DEF Ends

LEMMA CallNames ==
  /\ Loads = {"LOAD_TRACK", "LOAD_PLAYLIST", "LOAD_SEARCH", "LOAD_EMPTY", "LOAD_ERROR"}
  /\ \A n : DOMAIN OtherWork(n) =
       {"DECODE_TRACK", "DECODE_TRACKS", "UPDATE_PLAYER", "UPDATED_PLAYER",
        "DESTROY_PLAYER", "UPDATE_SESSION", "NODE_INFO", "VERSION",
        "VERSION_PRERELEASE", "NODE_STATS", "VOICE_STATE", "VOICE_SERVER",
        "VOICE_SERVER_UNKNOWN", "GUILD_CREATE", "GUILD_CREATE_OWN"}
  /\ Documented = Loads \cup
       {"DECODE_TRACK", "DECODE_TRACKS", "UPDATED_PLAYER", "UPDATE_SESSION",
        "NODE_INFO", "VERSION_PRERELEASE", "NODE_STATS"}
BY DEF Loads, LoadReleased, OtherWork, Documented, OtherReleased

LEMMA EventEnds ==
  ASSUME NEW e \in Events, NEW n \in Nat
  PROVE  Ends(e, n)
<1>1. Work(n)[e] = EventWork(e)
  BY DEF Work, Calls
<1>2. e \notin Documented
  BY EventNames, CallNames
<1>3. Kept(e) \cap Requests = {} /\ Kept(e) \subseteq Remains(e)
  BY DEF Kept, Requests, Remains
<1> QED BY <1>1, <1>2, <1>3, EventRuns, ElsewhereNone, EndsAt

(* coglink_free_load_tracks.                                               *)
LEMMA LoadEnds ==
  ASSUME NEW c \in Loads, NEW n \in Nat
  PROVE  Ends(c, n)
<1> DEFINE R(A, s, B) == Runs("RELEASE", n, At(A, {}), s, At(B, {}))
           Q == TrackNames \X (1..n)
<1>1. Work(n)[c] = LoadWork(n)[c] /\ Release(n)[c] = LoadReleased(n)[c] /\ c \in Documented
  BY EventNames, CallNames DEF Work, Calls, Release
<1>2. Elsewhere({}) /\ Elsewhere(Q)
  BY ElsewhereNone, ElsewhereTracks
<1>3. CASE c = "LOAD_TRACK"
  <2>1. Names(<<"encoded", "info", "track">>, TrackNames) /\ "session_id" \notin TrackNames
    BY DEF Names, List, Distinct, ToSet, TrackNames
  <2>2. R(TrackNames, FreeTrack(0), {})
    <3>1. TrackNames \ TrackNames = {}
      OBVIOUS
    <3> QED BY <1>2, <2>1, <3>1, AtFree DEF FreeTrack
  <2>3. Release(n)[c] = FreeTrack(0) /\ TrackNames \cap Requests = {}
    BY <1>1, <1>3 DEF LoadReleased, TrackNames, Requests
  <2> QED BY <1>1, <1>2, <1>3, <2>2, <2>3, LoadsRun, EndsAt
<1>4. CASE c = "LOAD_PLAYLIST"
  <2> DEFINE A1 == PlaylistNames \ {"playlist_info"}
             A2 == A1 \ {"tracks", "data"}
  <2>1. /\ Names(<<"playlist_info">>, {"playlist_info"})
        /\ Names(<<"tracks", "data">>, {"tracks", "data"})
    BY DEF Names, List, Distinct, ToSet
  <2>2. /\ {"playlist_info"} \subseteq PlaylistNames /\ {"tracks", "data"} \subseteq A1
        /\ PlaylistNames \cap Requests = {} /\ A2 \cap Requests = {}
        /\ A2 \subseteq Remains(c)
    BY <1>4 DEF PlaylistNames, Remains, Requests
  <2> HIDE DEF A1, A2, Q
  <2>3. Runs("RELEASE", n, At(PlaylistNames, Q), Free(<<"playlist_info">>, 0), At(A1, Q))
    BY <1>2, <2>1, <2>2, AtFree DEF A1
  <2>4. Runs("RELEASE", n, At(A1, Q), FreeTracks(n), At(A1, {}))
    BY AtFreeTracks DEF Q
  <2>5. R(A1, Free(<<"tracks", "data">>, 0), A2)
    BY <1>2, <2>1, <2>2, AtFree DEF A2
  <2>6. Runs("RELEASE", n, At(PlaylistNames, Q), Release(n)[c], At(A2, {}))
    BY <1>1, <1>4, <2>3, <2>4, <2>5, RunsConcat DEF LoadReleased
  <2> QED BY <1>1, <1>2, <1>4, <2>2, <2>6, LoadsRun, EndsAt DEF Q
<1>5. CASE c = "LOAD_SEARCH"
  <2> DEFINE A0 == {"data", "array"}
             A1 == A0 \ {"array", "data"}
  <2>1. Names(<<"array", "data">>, {"array", "data"})
    BY DEF Names, List, Distinct, ToSet
  <2>2. /\ {"array", "data"} \subseteq A0 /\ A0 \cap Requests = {}
        /\ A1 \cap Requests = {} /\ A1 \subseteq Remains(c)
    BY DEF Requests
  <2> HIDE DEF A0, A1, Q
  <2>3. Runs("RELEASE", n, At(A0, Q), FreeTracks(n), At(A0, {}))
    BY AtFreeTracks DEF Q
  <2>4. R(A0, Free(<<"array", "data">>, 0), A1)
    BY <1>2, <2>1, <2>2, AtFree DEF A1
  <2>5. Runs("RELEASE", n, At(A0, Q), Release(n)[c], At(A1, {}))
    BY <1>1, <1>5, <2>3, <2>4, RunsConcat DEF LoadReleased
  <2> QED BY <1>1, <1>2, <1>5, <2>2, <2>5, LoadsRun, EndsAt DEF A0, Q
<1>6. CASE c = "LOAD_EMPTY"
  <2>1. Release(n)[c] = <<>>
    BY <1>1, <1>6 DEF LoadReleased
  <2>2. R({}, Release(n)[c], {}) /\ {} \cap Requests = {} /\ {} \subseteq Remains(c)
    BY <2>1, RunsNone
  <2>3. Runs(c, n, At({}, {}), Work(n)[c], At({}, {}))
    BY <1>1, <1>6, LoadsRun
  <2> QED BY <1>2, <2>2, <2>3, EndsAt
<1>7. CASE c = "LOAD_ERROR"
  <2> DEFINE A0 == {"data", "message", "cause"}
  <2>1. Names(<<"message", "cause", "data">>, A0)
    BY DEF Names, List, Distinct, ToSet
  <2>2. A0 \cap Requests = {} /\ A0 \ A0 = {} /\ "session_id" \notin A0
    BY DEF Requests
  <2>3. Release(n)[c] = Free(<<"message", "cause", "data">>, 0)
    BY <1>1, <1>7 DEF LoadReleased
  <2> HIDE DEF A0
  <2>4. R(A0, Release(n)[c], {})
    BY <1>2, <2>1, <2>2, <2>3, AtFree
  <2> QED BY <1>1, <1>2, <1>7, <2>2, <2>4, LoadsRun, EndsAt DEF A0
<1> QED BY <1>3, <1>4, <1>5, <1>6, <1>7, CallNames

LEMMA OtherEnds ==
  ASSUME NEW c \in DOMAIN OtherWork(0), NEW n \in Nat
  PROVE  Ends(c, n)
<1> DEFINE R(A, s, B) == Runs("RELEASE", n, At(A, {}), s, At(B, {}))
           Q == TrackNames \X (1..n)
<1>1. Work(n)[c] = OtherWork(n)[c]
  BY EventNames, CallNames DEF Work, Calls
<1>2. c \in Documented => Release(n)[c] = OtherReleased(n)[c]
  BY CallNames DEF Release
<1>3. Elsewhere({}) /\ Elsewhere(Q) /\ Elsewhere(Rows(n))
  BY ElsewhereNone, ElsewhereTracks, InfoFacts
<1>4. \A A : A \ A = {} /\ {} \cap A = {} /\ {} \subseteq A
  OBVIOUS
<1> DEFINE Nothing == {"UPDATE_PLAYER", "DESTROY_PLAYER", "VERSION", "VOICE_SERVER",
                       "VOICE_SERVER_UNKNOWN", "GUILD_CREATE"}
<1>5. CASE c \in Nothing
  <2>1. c \notin Documented
    BY <1>5, CallNames
  <2>2. /\ OtherWork(n)["UPDATE_PLAYER"] = UpdatePlayerWork
        /\ OtherWork(n)["DESTROY_PLAYER"] = DestroyPlayerWork
        /\ OtherWork(n)["VERSION"] = VersionWork(<<>>)
        /\ OtherWork(n)["VOICE_SERVER"] = VoiceServerWork(TRUE)
        /\ OtherWork(n)["VOICE_SERVER_UNKNOWN"] = VoiceServerWork(FALSE)
        /\ OtherWork(n)["GUILD_CREATE"] = GuildCreateWork(<<>>)
    BY DEF OtherWork
  <2>3. Runs(c, n, At({}, {}), Work(n)[c], At({}, {}))
    BY <1>1, <1>5, <2>2, UpdatePlayerRuns, DestroyPlayerRuns, VersionRuns, VoiceServerRuns,
       VoiceServerUnknownRuns, GuildCreateRuns
  <2> QED BY <1>3, <1>4, <2>1, <2>3, EndsAt
<1>6. CASE c \in {"VOICE_STATE", "GUILD_CREATE_OWN"}
  <2>1. c \notin Documented
    BY <1>6, CallNames
  <2>2. Runs(c, n, At({}, {}), Work(n)[c], At({"voice_session"}, {}))
    BY <1>1, <1>6, VoiceStateRuns, GuildCreateOwnRuns DEF OtherWork
  <2>3. {"voice_session"} \cap Requests = {} /\ {"voice_session"} \subseteq Remains(c)
    BY <1>6 DEF Requests, Remains
  <2> QED BY <1>3, <2>1, <2>2, <2>3, EndsAt
<1>7. CASE c = "DECODE_TRACK"
  <2> DEFINE A0 == {"response"} \cup TrackNames
  <2>1. Names(<<"response">>, {"response"}) /\ Release(n)[c] = Free(<<"response">>, 0)
    BY <1>2, <1>7, CallNames
    DEF Names, List, Distinct, ToSet, OtherReleased, DecodeTrackReleased
  <2>2. {"response"} \subseteq A0 /\ A0 \ {"response"} = TrackNames
        /\ A0 \cap Requests = {} /\ TrackNames \cap Requests = {}
    BY DEF TrackNames, Requests
  <2>3. Runs(c, n, At({}, {}), Work(n)[c], At(A0, {}))
    BY <1>1, <1>7, DecodeTrackRuns DEF OtherWork
  <2> HIDE DEF A0
  <2>4. R(A0, Release(n)[c], TrackNames)
    BY <1>3, <2>1, <2>2, AtFree
  <2>5. c \in Documented
    BY <1>7, CallNames
  <2> QED BY <1>3, <1>7, <2>2, <2>3, <2>4, <2>5, EndsAt
<1>8. CASE c = "DECODE_TRACKS"
  <2> DEFINE A0 == {"response", "array"}
  <2>1. /\ Names(<<"array", "response">>, A0)
        /\ Release(n)[c] = FreeTracks(n) \o Free(<<"array", "response">>, 0)
    BY <1>2, <1>8, CallNames
    DEF Names, List, Distinct, ToSet, OtherReleased, TracksReleased
  <2>2. A0 \cap Requests = {} /\ "session_id" \notin A0
    BY DEF Requests
  <2>3. Runs(c, n, At({}, {}), Work(n)[c], At(A0, Q))
    BY <1>1, <1>8, DecodeTracksRuns DEF OtherWork
  <2> HIDE DEF A0, Q
  <2>4. Runs("RELEASE", n, At(A0, Q), FreeTracks(n), At(A0, {}))
    BY AtFreeTracks DEF Q
  <2>5. R(A0, Free(<<"array", "response">>, 0), {})
    BY <1>3, <1>4, <2>1, <2>2, AtFree
  <2>6. Runs("RELEASE", n, At(A0, Q), Release(n)[c], At({}, {}))
    BY <2>1, <2>4, <2>5, RunsConcat
  <2>7. c \in Documented
    BY <1>8, CallNames
  <2> QED BY <1>3, <1>4, <2>2, <2>3, <2>6, <2>7, EndsAt
<1>9. CASE c = "UPDATED_PLAYER"
  <2> DEFINE A0 == {"response", "state", "filters"} \cup TrackNames \cup FilterNames
  <2>1. A0 \cap Requests = {} /\ c \in Documented
    BY <1>9, FilterFacts, CallNames DEF TrackNames, Requests
  <2>2. Runs(c, n, At({}, {}), Work(n)[c], At(A0, {}))
    BY <1>1, <1>9, UpdatedPlayerRuns DEF OtherWork
  <2> HIDE DEF A0
  <2> QED BY <1>3, <1>9, <2>1, <2>2, EndsAt
<1>10. CASE c = "UPDATE_SESSION"
  <2> DEFINE A0 == {"response"}
  <2>1. Names(<<"response">>, A0) /\ Release(n)[c] = Free(<<"response">>, 0)
    BY <1>2, <1>10, CallNames DEF Names, List, Distinct, ToSet, OtherReleased
  <2>2. A0 \cap Requests = {} /\ "session_id" \notin A0
    BY DEF Requests
  <2>3. Runs(c, n, At({}, {}), Work(n)[c], At(A0, {}))
    BY <1>1, <1>10, UpdateSessionRuns DEF OtherWork
  <2> HIDE DEF A0
  <2>4. R(A0, Release(n)[c], {})
    BY <1>3, <1>4, <2>1, <2>2, AtFree
  <2>5. c \in Documented
    BY <1>10, CallNames
  <2> QED BY <1>3, <1>4, <2>2, <2>3, <2>4, <2>5, EndsAt
<1>11. CASE c = "NODE_INFO"
  <2>1. Release(n)[c] = NodeInfoReleased(n) /\ c \in Documented
    BY <1>2, <1>11, CallNames DEF OtherReleased
  <2>2. Runs(c, n, At({}, {}), Work(n)[c], At(InfoNames, Rows(n)))
    BY <1>1, <1>11, NodeInfoRuns DEF OtherWork
  <2>3. InfoNames \cap Requests = {}
    BY DEF InfoNames, Requests
  <2>4. Runs("RELEASE", n, At(InfoNames, Rows(n)), Release(n)[c], At({}, {}))
    BY <2>1, NodeInfoReleasedRuns
  <2> QED BY <1>3, <1>4, <2>1, <2>2, <2>3, <2>4, EndsAt
<1>12. CASE c = "VERSION_PRERELEASE"
  <2> DEFINE A0 == {"preRelease"}
  <2>1. Names(<<"preRelease">>, A0) /\ Release(n)[c] = Free(<<"preRelease">>, 0)
    BY <1>2, <1>12, CallNames DEF Names, List, Distinct, ToSet, OtherReleased
  <2>2. A0 \cap Requests = {} /\ "session_id" \notin A0
    BY DEF Requests
  <2>3. Runs(c, n, At({}, {}), Work(n)[c], At(A0, {}))
    BY <1>1, <1>12, PreReleaseRuns DEF OtherWork
  <2> HIDE DEF A0
  <2>4. R(A0, Release(n)[c], {})
    BY <1>3, <1>4, <2>1, <2>2, AtFree
  <2>5. c \in Documented
    BY <1>12, CallNames
  <2> QED BY <1>3, <1>4, <2>2, <2>3, <2>4, <2>5, EndsAt
<1>13. CASE c = "NODE_STATS"
  <2> DEFINE A0 == {"response", "memory", "cpu"}
  <2>1. Names(<<"memory", "cpu", "response">>, A0)
    BY DEF Names, List, Distinct, ToSet
  <2>2. A0 \cap Requests = {} /\ "session_id" \notin A0
    BY DEF Requests
  <2>3. Runs(c, n, At({}, {}), Work(n)[c], At(A0, {}))
    BY <1>1, <1>13, StatsRuns DEF OtherWork
  <2> HIDE DEF A0
  <2>4. R(A0, Release(n)[c], {})
    BY <1>2, <1>3, <1>4, <1>13, <2>1, <2>2, CallNames, AtFree
    DEF OtherReleased, StatsReleased
  <2>5. c \in Documented
    BY <1>13, CallNames
  <2> QED BY <1>3, <1>4, <2>2, <2>3, <2>4, <2>5, EndsAt
<1> QED BY <1>5, <1>6, <1>7, <1>8, <1>9, <1>10, <1>11, <1>12, <1>13, CallNames

(* Every call ends well, whatever it is, with arrays of any length.        *)
LEMMA CallEnds == ASSUME NEW c \in Calls, NEW n \in Nat PROVE Ends(c, n)
BY EventEnds, LoadEnds, OtherEnds DEF Calls

-----------------------------------------------------------------------------
(* The messages.                                                           *)
FreesOnly(s) ==
  /\ \E U : s \in Seq(U)
  /\ \A k \in DOMAIN s : s[k].do = "free" /\ s[k].block[1] # "session_id"

(* The steps left of a message of call `c` and outcome `code` fit the      *)
(* blocks L that it has.                                                   *)
Fits(st, code, c, n, steps, L) ==
  /\ st = "work" /\ code = "SUCCESS" =>
       \E M : Runs(c, n, L, steps, M) /\ Settled(c, n, M)
  /\ st = "work" /\ code # "SUCCESS" =>
       \/ Frees(L, steps) /\ (code # "EXIT" => NoRequest(Left(L, steps)))
       \/ /\ steps = Unwritten /\ code = "PARSE_FAILED" /\ c \in FallsThrough
          /\ NoRequest(L)
  /\ st = "release" /\ code = "SUCCESS" /\ c = "UPDATED_PLAYER" =>
       FreesOnly(steps) /\ NoRequest(L)
  /\ st = "release" /\ code = "SUCCESS" /\ c # "UPDATED_PLAYER" =>
       \E K : /\ Runs("RELEASE", n, L, steps, K)
              /\ NoRequest(K) /\ (c # "DECODE_TRACK" => Only(c, K))
  /\ st = "release" /\ code # "SUCCESS" =>
       /\ NoRequest(L) /\ code # "FAILED"
       /\ \/ steps = <<>>
          \/ steps = Unwritten /\ c \in FollowsUnwritten
          \/ steps = Free(<<"response">>, 0) /\ <<"response", 0>> \in L

(* Where a step may follow a pointer to no block.                          *)
Wrong(st, code, c) ==
  \/ st = "work" /\ code = "PARSE_FAILED" /\ c \in FallsThrough
  \/ st = "release" /\ code \notin {"SUCCESS", "FAILED"} /\ c \in FollowsUnwritten
  \/ st = "release" /\ code = "SUCCESS" /\ c = "UPDATED_PLAYER"

LEMMA UnwrittenFacts ==
  /\ Unwritten # <<>> /\ Head(Unwritten).do = "use" /\ Tail(Unwritten) = <<>>
<1> DEFINE step == [do |-> "use", blocks |-> {"unwritten"} \X {0}]
<1>1. step.do = "use"
  OBVIOUS
<1> HIDE DEF step
<1>2. <<step>> # <<>> /\ Head(<<step>>) = step /\ Tail(<<step>>) = <<>>
  OBVIOUS
<1> QED BY <1>1, <1>2 DEF Unwritten, Use, step

LEMMA ResponseFreed ==
  LET s == Free(<<"response">>, 0)
  IN  /\ s # <<>> /\ Head(s).do = "free" /\ Head(s).block = <<"response", 0>>
      /\ Tail(s) = <<>>
<1> DEFINE step == [do |-> "free", block |-> <<"response", 0>>]
           names == <<"response">>
<1>1. DOMAIN names = 1..1 /\ names[1] = "response"
  OBVIOUS
<1>2. step.do = "free" /\ step.block = <<"response", 0>>
  OBVIOUS
<1> HIDE DEF names
<1>3. Free(names, 0) = [j \in 1..1 |-> [do |-> "free", block |-> <<names[j], 0>>]]
  BY <1>1 DEF Free
<1>4. Free(names, 0) = [j \in 1..1 |-> step]
  BY <1>1, <1>3
<1> HIDE DEF step
<1>5. [j \in 1..1 |-> step] = <<step>>
  OBVIOUS
<1>6. <<step>> # <<>> /\ Head(<<step>>) = step /\ Tail(<<step>>) = <<>>
  OBVIOUS
<1> QED BY <1>2, <1>4, <1>5, <1>6 DEF names

LEMMA FreesStep ==
  ASSUME NEW L, NEW s, Frees(L, s), s # <<>>
  PROVE  /\ Head(s).do = "free" /\ Head(s).block \in L /\ Head(s).block[1] # "session_id"
         /\ Frees(L \ {Head(s).block}, Tail(s))
         /\ Left(L \ {Head(s).block}, Tail(s)) = Left(L, s)
<1>1. PICK U : s \in Seq(U)
  BY DEF Frees
<1> DEFINE t == Tail(s)
           m == Len(s)
<1>2. /\ m \in Nat \ {0} /\ DOMAIN s = 1..m /\ Head(s) = s[1]
      /\ t \in Seq(U) /\ DOMAIN t = 1..(m - 1) /\ \A k \in 1..(m - 1) : t[k] = s[k + 1]
  BY <1>1, LenProperties, EmptySeq, HeadTailProperties
<1> HIDE DEF t, m
<1>3. /\ 1 \in DOMAIN s
      /\ \A k \in 1..m : k = 1 \/ (k - 1 \in 1..(m - 1) /\ (k - 1) + 1 = k)
      /\ \A k \in 1..(m - 1) : k + 1 \in 1..m /\ k + 1 # 1
      /\ \A j, k \in 1..(m - 1) : j + 1 = k + 1 => j = k
  BY <1>2
<1>4. Head(s).do = "free" /\ Head(s).block \in L /\ Head(s).block[1] # "session_id"
  BY <1>2, <1>3 DEF Frees
<1>5. ASSUME NEW k \in 1..(m - 1)
      PROVE  /\ t[k].do = "free" /\ t[k].block \in L \ {Head(s).block}
             /\ t[k].block[1] # "session_id"
             /\ \A j \in 1..(m - 1) : t[j].block = t[k].block => j = k
  <2>1. t[k] = s[k + 1] /\ k + 1 \in 1..m /\ k + 1 # 1
    BY <1>2, <1>3
  <2>2. /\ s[k + 1].do = "free" /\ s[k + 1].block \in L
        /\ s[k + 1].block[1] # "session_id"
        /\ \A j \in 1..m : s[j].block = s[k + 1].block => j = k + 1
    BY <1>2, <2>1 DEF Frees
  <2>3. s[k + 1].block # Head(s).block
    BY <1>2, <1>3, <2>1, <2>2
  <2>4. \A j \in 1..(m - 1) : t[j].block = t[k].block => j = k
    BY <1>2, <1>3, <2>1, <2>2
  <2> QED BY <2>1, <2>2, <2>3, <2>4
<1>6. Frees(L \ {Head(s).block}, t)
  BY <1>2, <1>5 DEF Frees
<1>7. Left(L \ {Head(s).block}, t) = Left(L, s)
  <2>1. ASSUME NEW b
        PROVE  (\A k \in 1..m : s[k].block # b)
                 <=> b # Head(s).block /\ (\A k \in 1..(m - 1) : t[k].block # b)
    <3>1. ASSUME NEW k \in 1..m, s[k].block = b, b # Head(s).block
          PROVE  \E j \in 1..(m - 1) : t[j].block = b
      BY <1>2, <1>3, <3>1
    <3>2. ASSUME NEW j \in 1..(m - 1), t[j].block = b
          PROVE  \E k \in 1..m : s[k].block = b
      BY <1>2, <1>3, <3>2
    <3> QED BY <1>2, <1>3, <3>1, <3>2
  <2> DEFINE G == L \ {Head(s).block}
             X == Left(L, s)
             Y == Left(G, t)
  <2>2. ASSUME NEW b PROVE b \in X <=> b \in L /\ (\A k \in 1..m : s[k].block # b)
    BY <1>2 DEF Left
  <2>3. ASSUME NEW b PROVE b \in Y <=> b \in G /\ (\A k \in 1..(m - 1) : t[k].block # b)
    BY <1>2 DEF Left
  <2>4. ASSUME NEW b PROVE b \in G <=> b \in L /\ b # Head(s).block
    OBVIOUS
  <2> HIDE DEF G, X, Y
  <2>5. ASSUME NEW b PROVE b \in X <=> b \in Y
    BY <2>1, <2>2, <2>3, <2>4
  <2>6. X = Y
    BY <2>5
  <2> QED BY <2>6 DEF X, Y, G
<1> QED BY <1>4, <1>6, <1>7 DEF t

LEMMA FreesOnlyStep ==
  ASSUME NEW s, FreesOnly(s), s # <<>>
  PROVE  Head(s).do = "free" /\ Head(s).block[1] # "session_id" /\ FreesOnly(Tail(s))
<1>1. PICK U : s \in Seq(U)
  BY DEF FreesOnly
<1> DEFINE t == Tail(s)
           m == Len(s)
<1>2. /\ m \in Nat \ {0} /\ DOMAIN s = 1..m /\ Head(s) = s[1]
      /\ t \in Seq(U) /\ DOMAIN t = 1..(m - 1) /\ \A k \in 1..(m - 1) : t[k] = s[k + 1]
  BY <1>1, LenProperties, EmptySeq, HeadTailProperties
<1> HIDE DEF t, m
<1>3. 1 \in 1..m /\ \A k \in 1..(m - 1) : k + 1 \in 1..m
  BY <1>2
<1>4. FreesOnly(t)
  BY <1>2, <1>3 DEF FreesOnly
<1> QED BY <1>2, <1>3, <1>4 DEF FreesOnly, t

(* Of the steps that fit, each finds what it needs, but where the message  *)
(* goes Wrong, and leaves steps that fit; an early return is one of a call *)
(* that was successful so far.                                             *)
FitsOn(st, code, c, n, s, L) ==
  LET step == Head(s)
      After(M) == Fits(st, code, c, n, Tail(s), M)
  IN  /\ step.do = "malloc" => step.block[2] \in 0..n /\ After(L \cup {step.block})
      /\ step.do = "free" =>
           /\ step.block \in L \/ Wrong(st, code, c)
           /\ step.block[1] # "session_id" /\ After(L \ {step.block})
      /\ step.do = "use" => (step.blocks \subseteq L \/ Wrong(st, code, c)) /\ After(L)
      /\ step.do = "keep" =>
           c = "READY" /\ step.block = <<"session_id", 0>> /\ step.block \in L /\ After(L)
      /\ step.do = "check" =>
           /\ st = "work" /\ code = "SUCCESS" /\ step.code \in Codes \ {"SUCCESS"}
           /\ After(L)
           /\ Fits(st, step.code, c, n, step.undo, L)

LEMMA FitsStep ==
  ASSUME NEW st \in {"work", "release"}, NEW code, NEW c, NEW n, NEW s, NEW L,
         Fits(st, code, c, n, s, L), s # <<>>
  PROVE  FitsOn(st, code, c, n, s, L)
<1> DEFINE step == Head(s)
<1>1. CASE st = "work" /\ code = "SUCCESS"
  <2>1. PICK M : Runs(c, n, L, s, M) /\ Settled(c, n, M)
    BY <1>1 DEF Fits
  <2>2. PICK K : Does(c, n, step, L, K) /\ Runs(c, n, K, Tail(s), M)
    BY <2>1, RunsStep
  <2>3. Fits(st, code, c, n, Tail(s), K)
    BY <1>1, <2>1, <2>2 DEF Fits
  <2>4. step.do = "check" => step.code # "SUCCESS" /\ Fits(st, step.code, c, n, step.undo, L)
    BY <1>1, <2>2 DEF Does, Fits, NoRequest
  <2> HIDE DEF step
  <2>5. (step.do = "malloc" => step.block[2] \in 0..n /\ K = L \cup {step.block})
    BY <2>2 DEF Does
  <2>6. step.do = "free" =>
          step.block \in L /\ step.block[1] # "session_id" /\ K = L \ {step.block}
    BY <2>2 DEF Does
  <2>7. step.do = "use" => step.blocks \subseteq L /\ K = L
    BY <2>2 DEF Does
  <2>8. step.do = "keep" =>
          c = "READY" /\ step.block = <<"session_id", 0>> /\ step.block \in L /\ K = L
    BY <2>2 DEF Does
  <2>9. step.do = "check" => step.code \in Codes \ {"SUCCESS"} /\ K = L
    BY <2>2 DEF Does
  <2> QED BY <1>1, <2>3, <2>4, <2>5, <2>6, <2>7, <2>8, <2>9 DEF FitsOn, step
<1>2. CASE /\ st = "work" /\ code # "SUCCESS"
           /\ Frees(L, s) /\ (code # "EXIT" => NoRequest(Left(L, s)))
  <2>2. /\ step.do = "free" /\ step.block \in L /\ step.block[1] # "session_id"
        /\ Frees(L \ {step.block}, Tail(s))
        /\ Left(L \ {step.block}, Tail(s)) = Left(L, s)
    BY <1>2, FreesStep
  <2> HIDE DEF step
  <2>3. Fits(st, code, c, n, Tail(s), L \ {step.block})
    BY <1>2, <2>2 DEF Fits
  <2> QED BY <2>2, <2>3 DEF FitsOn, step
<1>3. CASE /\ st = "work" /\ code = "PARSE_FAILED" /\ s = Unwritten
           /\ c \in FallsThrough /\ NoRequest(L)
  <2>1. step.do = "use" /\ Tail(s) = <<>>
    BY <1>3, UnwrittenFacts
  <2> HIDE DEF step
  <2>2. Frees(L, <<>>) /\ NoRequest(Left(L, <<>>))
    BY <1>3, FreesNone
  <2>3. Fits(st, code, c, n, <<>>, L)
    BY <1>3, <2>2 DEF Fits
  <2> QED BY <1>3, <2>1, <2>3 DEF FitsOn, step, Wrong
<1>4. CASE st = "release" /\ code = "SUCCESS" /\ c = "UPDATED_PLAYER"
  <2>1. FreesOnly(s) /\ NoRequest(L)
    BY <1>4 DEF Fits
  <2>2. step.do = "free" /\ step.block[1] # "session_id" /\ FreesOnly(Tail(s))
    BY <2>1, FreesOnlyStep
  <2> HIDE DEF step
  <2>3. Fits(st, code, c, n, Tail(s), L \ {step.block})
    BY <1>4, <2>1, <2>2 DEF Fits, NoRequest
  <2> QED BY <1>4, <2>2, <2>3 DEF FitsOn, step, Wrong
<1>5. CASE st = "release" /\ code = "SUCCESS" /\ c # "UPDATED_PLAYER"
  <2>1. PICK M : /\ Runs("RELEASE", n, L, s, M)
                 /\ NoRequest(M) /\ (c # "DECODE_TRACK" => Only(c, M))
    BY <1>5 DEF Fits
  <2>2. PICK K : Does("RELEASE", n, step, L, K) /\ Runs("RELEASE", n, K, Tail(s), M)
    BY <2>1, RunsStep
  <2>3. Fits(st, code, c, n, Tail(s), K)
    BY <1>5, <2>1, <2>2 DEF Fits
  <2> HIDE DEF step
  <2>4. step.do # "keep" /\ step.do # "check"
    BY <2>2 DEF Does
  <2>5. (step.do = "malloc" => step.block[2] \in 0..n /\ K = L \cup {step.block})
    BY <2>2 DEF Does
  <2>6. step.do = "free" =>
          step.block \in L /\ step.block[1] # "session_id" /\ K = L \ {step.block}
    BY <2>2 DEF Does
  <2>7. step.do = "use" => step.blocks \subseteq L /\ K = L
    BY <2>2 DEF Does
  <2> QED BY <2>3, <2>4, <2>5, <2>6, <2>7 DEF FitsOn, step
<1>6. CASE st = "release" /\ code # "SUCCESS"
  <2>1. NoRequest(L) /\ code # "FAILED"
    BY <1>6 DEF Fits
  <2>2. \A M : NoRequest(M) => Fits(st, code, c, n, <<>>, M)
    BY <1>6, <2>1 DEF Fits
  <2>3. CASE s = Unwritten /\ c \in FollowsUnwritten
    <3>1. step.do = "use" /\ Tail(s) = <<>>
      BY <2>3, UnwrittenFacts
    <3> HIDE DEF step
    <3> QED BY <1>6, <2>1, <2>2, <2>3, <3>1 DEF FitsOn, step, Wrong
  <2>4. CASE s = Free(<<"response">>, 0) /\ <<"response", 0>> \in L
    <3>1. /\ step.do = "free" /\ step.block = <<"response", 0>> /\ Tail(s) = <<>>
      BY <2>4, ResponseFreed
    <3>2. step.block \in L /\ step.block[1] # "session_id"
      BY <2>4, <3>1
    <3> HIDE DEF step
    <3>3. NoRequest(L \ {step.block})
      BY <2>1 DEF NoRequest
    <3> QED BY <1>6, <2>2, <3>1, <3>2, <3>3 DEF FitsOn, step
  <2> QED BY <1>6, <2>3, <2>4 DEF Fits
<1>7. st = "work" /\ code # "SUCCESS" =>
        \/ Frees(L, s) /\ (code # "EXIT" => NoRequest(Left(L, s)))
        \/ s = Unwritten /\ code = "PARSE_FAILED" /\ c \in FallsThrough /\ NoRequest(L)
  BY DEF Fits
<1> QED BY <1>1, <1>2, <1>4, <1>5, <1>3, <1>6, <1>7

-----------------------------------------------------------------------------
(* coglink_update_session and coglink_get_stats leave the response alone   *)
(* that the application is to release, on every return.                    *)
TheResponse == <<"response", 0>>

Keeps(s) ==
  /\ \E U : s \in Seq(U)
  /\ \A k \in 1..Len(s) : s[k].do = "free" => s[k].block # TheResponse

Spares(s) == Keeps(s) /\ \A k \in 1..Len(s) : s[k].do = "check" => Keeps(s[k].undo)

LEMMA SparesMalloc ==
  ASSUME NEW names, List(names) PROVE Spares(Malloc(names, 0))
<1>1. PICK m \in Nat : DOMAIN names = 1..m
  BY DEF List
<1> DEFINE s == Malloc(names, 0)
<1>2. /\ s \in Seq({[do |-> "malloc", block |-> <<names[j], 0>>] : j \in 1..m})
      /\ Len(s) = m
      /\ \A k \in 1..m : s[k] = [do |-> "malloc", block |-> <<names[k], 0>>]
  BY <1>1 DEF Malloc
<1>3. \A k \in 1..m : s[k].do = "malloc"
  BY <1>2
<1> HIDE DEF s
<1>4. Spares(s)
  BY <1>2, <1>3 DEF Spares, Keeps
<1> QED BY <1>4 DEF s

LEMMA SparesFree ==
  ASSUME NEW names, List(names), \A j \in DOMAIN names : names[j] # "response"
  PROVE  Spares(Free(names, 0))
<1>1. PICK m \in Nat : DOMAIN names = 1..m
  BY DEF List
<1> DEFINE s == Free(names, 0)
<1>2. /\ s \in Seq({[do |-> "free", block |-> <<names[j], 0>>] : j \in 1..m})
      /\ Len(s) = m
      /\ \A k \in 1..m : s[k] = [do |-> "free", block |-> <<names[k], 0>>]
  BY <1>1 DEF Free
<1> HIDE DEF s
<1>3. ASSUME NEW k \in 1..m PROVE s[k].do = "free" /\ s[k].block # TheResponse
  <2> DEFINE b == <<names[k], 0>>
  <2>1. s[k] = [do |-> "free", block |-> b]
    BY <1>2
  <2>2. b # TheResponse
    BY <1>1 DEF TheResponse
  <2> HIDE DEF b
  <2> QED BY <2>1, <2>2
<1>4. Spares(s)
  BY <1>2, <1>3 DEF Spares, Keeps
<1> QED BY <1>4 DEF s

LEMMA SparesNone == Spares(<<>>)
<1> DEFINE s == <<>>
<1>1. s \in Seq({}) /\ 1..Len(s) = {}
  OBVIOUS
<1> HIDE DEF s
<1>2. Spares(s)
  BY <1>1 DEF Spares, Keeps
<1> QED BY <1>2 DEF s

LEMMA SparesCheck ==
  ASSUME NEW code, NEW undo, Spares(undo) PROVE Spares(Check(code, undo))
<1> DEFINE step == [do |-> "check", code |-> code, undo |-> undo]
           s == <<step>>
<1>1. step.do = "check" /\ step.undo = undo
  OBVIOUS
<1> HIDE DEF step
<1>2. s \in Seq({step}) /\ Len(s) = 1 /\ \A k \in 1..1 : s[k] = step
  OBVIOUS
<1> HIDE DEF s
<1>3. Spares(s)
  BY <1>1, <1>2 DEF Spares, Keeps
<1> QED BY <1>3 DEF Check, s, step

LEMMA SparesConcat ==
  ASSUME NEW s, NEW t, Spares(s), Spares(t) PROVE Spares(s \o t)
<1>1. PICK U1 : s \in Seq(U1)
  BY DEF Spares, Keeps
<1>2. PICK U2 : t \in Seq(U2)
  BY DEF Spares, Keeps
<1> DEFINE U == U1 \cup U2
           r == s \o t
<1>3. s \in Seq(U) /\ t \in Seq(U)
  <2>1. U1 \subseteq U /\ U2 \subseteq U
    OBVIOUS
  <2> HIDE DEF U
  <2> QED BY <1>1, <1>2, <2>1, SeqMonotonic
<1> HIDE DEF U
<1>4. /\ Len(s) \in Nat /\ Len(t) \in Nat
      /\ r \in Seq(U) /\ Len(r) = Len(s) + Len(t)
      /\ \A k \in 1..(Len(s) + Len(t)) : r[k] = IF k <= Len(s) THEN s[k] ELSE t[k - Len(s)]
  BY <1>3, ConcatProperties, LenProperties
<1> HIDE DEF r
<1>5. ASSUME NEW k \in 1..Len(r)
      PROVE  /\ r[k].do = "free" => r[k].block # TheResponse
             /\ r[k].do = "check" => Keeps(r[k].undo)
  <2>1. CASE k <= Len(s)
    <3>1. k \in 1..Len(s) /\ r[k] = s[k]
      BY <1>4, <2>1
    <3> QED BY <3>1 DEF Spares, Keeps
  <2>2. CASE ~(k <= Len(s))
    <3>1. k - Len(s) \in 1..Len(t) /\ r[k] = t[k - Len(s)]
      BY <1>4, <2>2
    <3> QED BY <3>1 DEF Spares, Keeps
  <2> QED BY <2>1, <2>2
<1>6. Spares(r)
  BY <1>4, <1>5 DEF Spares, Keeps
<1> QED BY <1>6 DEF r

(* What is left after a step.                                              *)
LEMMA SparesStep ==
  ASSUME NEW s, Keeps(s), s # <<>>
  PROVE  /\ Head(s).do = "free" => Head(s).block # TheResponse
         /\ Keeps(Tail(s))
         /\ Spares(s) => Spares(Tail(s)) /\ (Head(s).do = "check" => Keeps(Head(s).undo))
<1>1. PICK U : s \in Seq(U)
  BY DEF Keeps
<1> DEFINE t == Tail(s)
           m == Len(s)
<1>2. /\ m \in Nat \ {0} /\ Head(s) = s[1] /\ t \in Seq(U) /\ Len(t) = m - 1
      /\ \A k \in 1..(m - 1) : t[k] = s[k + 1]
  BY <1>1, LenProperties, EmptySeq, HeadTailProperties
<1> HIDE DEF t, m
<1>3. 1 \in 1..m /\ \A k \in 1..(m - 1) : k + 1 \in 1..m
  BY <1>2
<1>4. /\ \A k \in 1..m : s[k].do = "free" => s[k].block # TheResponse
      /\ Spares(s) => \A k \in 1..m : s[k].do = "check" => Keeps(s[k].undo)
  BY DEF Keeps, Spares, m
<1>5. Keeps(t)
  BY <1>2, <1>3, <1>4 DEF Keeps
<1>6. Spares(s) => Spares(t)
  BY <1>2, <1>3, <1>4, <1>5 DEF Spares
<1> QED BY <1>2, <1>3, <1>4, <1>5, <1>6 DEF t

LEMMA SparesRequest ==
  ASSUME NEW undo, Spares(undo)
  PROVE  Spares(Answered(undo)) /\ Spares(Json(undo)) /\ Spares(Field(undo))
<1> DEFINE q == <<"curl", "full_url", "authorization", "chunk">>
           a == <<"body">>
<1>1. List(q) /\ List(a) /\ \A j \in DOMAIN q : q[j] # "response"
  BY DEF List
<1> HIDE DEF q, a
<1>2. /\ Spares(Malloc(q, 0)) /\ Spares(Malloc(a, 0)) /\ Spares(Free(q, 0))
      /\ Spares(Check("FAILED", undo)) /\ Spares(Check("PARSE_FAILED", undo))
  BY <1>1, SparesMalloc, SparesFree, SparesCheck
<1>3. Spares(Check("EXIT", <<>>))
  BY SparesNone, SparesCheck
<1>4. Spares(Answered(undo))
  BY <1>2, SparesConcat DEF Answered, Perform, q, a
<1> QED BY <1>2, <1>3, <1>4, SparesConcat DEF Json, Field

(* The first step is to allocate the response.                             *)
Starts(s) ==
  Spares(s) /\ s # <<>> /\ Head(s).do = "malloc" /\ Head(s).block = TheResponse

LEMMA StartsResponse == Starts(Response)
<1> DEFINE step == [do |-> "malloc", block |-> TheResponse]
           names == <<"response">>
           r == <<step>>
<1>1. DOMAIN names = 1..1 /\ names[1] = "response"
  OBVIOUS
<1> HIDE DEF names
<1>2. Malloc(names, 0) = [j \in 1..1 |-> [do |-> "malloc", block |-> <<names[j], 0>>]]
  BY <1>1 DEF Malloc
<1>3. Malloc(names, 0) = [j \in 1..1 |-> step]
  BY <1>1, <1>2 DEF TheResponse
<1>4. Spares(Malloc(names, 0))
  BY <1>1, SparesMalloc DEF List
<1>5. step.do = "malloc" /\ step.block = TheResponse
  OBVIOUS
<1> HIDE DEF step
<1>6. [j \in 1..1 |-> step] = r /\ r # <<>> /\ Head(r) = step
  OBVIOUS
<1> HIDE DEF r
<1>7. Malloc(names, 0) = r
  BY <1>3, <1>6
<1> QED BY <1>4, <1>5, <1>6, <1>7 DEF Starts, Response, names

LEMMA StartsConcat ==
  ASSUME NEW s, NEW t, Starts(s), Spares(t) PROVE Starts(s \o t)
<1>1. PICK U1 : s \in Seq(U1)
  BY DEF Starts, Spares, Keeps
<1>2. PICK U2 : t \in Seq(U2)
  BY DEF Spares, Keeps
<1> DEFINE U == U1 \cup U2
           r == s \o t
<1>3. s \in Seq(U) /\ t \in Seq(U)
  <2>1. U1 \subseteq U /\ U2 \subseteq U
    OBVIOUS
  <2> HIDE DEF U
  <2> QED BY <1>1, <1>2, <2>1, SeqMonotonic
<1> HIDE DEF U
<1>4. /\ Len(s) \in Nat \ {0} /\ Len(t) \in Nat /\ Head(s) = s[1]
      /\ r \in Seq(U) /\ Len(r) = Len(s) + Len(t)
      /\ \A k \in 1..(Len(s) + Len(t)) : r[k] = IF k <= Len(s) THEN s[k] ELSE t[k - Len(s)]
  BY <1>3, ConcatProperties, LenProperties, EmptySeq, HeadTailProperties DEF Starts
<1> HIDE DEF r
<1>5. Len(r) # 0 /\ r[1] = s[1]
  BY <1>4
<1>6. r # <<>> /\ Head(r) = Head(s)
  BY <1>4, <1>5, EmptySeq, HeadTailProperties
<1>7. Spares(r)
  BY SparesConcat DEF Starts, r
<1>8. Starts(r)
  BY <1>6, <1>7 DEF Starts
<1> QED BY <1>8 DEF r

LEMMA SparesResponse == Starts(UpdateSessionWork) /\ Starts(StatsWork)
<1> DEFINE b == <<"body">>
           e == <<"endpoint", "jsonber">>
           u == <<"body", "jsonber", "endpoint">>
           p == <<"memory", "cpu">>
           undo == Free(u, 0)
           done == Free(b, 0)
<1>1. /\ List(b) /\ List(e) /\ List(u) /\ List(p)
      /\ \A j \in DOMAIN u : u[j] # "response"
      /\ \A j \in DOMAIN b : b[j] # "response"
  BY DEF List
<1> HIDE DEF b, e, u, p
<1>2. /\ Spares(undo) /\ Spares(done) /\ Spares(Malloc(e, 0)) /\ Spares(Malloc(p, 0))
  BY <1>1, SparesMalloc, SparesFree
<1> HIDE DEF undo, done
<1>3. /\ Spares(Check("NODE_OFFLINE", <<>>))
      /\ Spares(Answered(undo)) /\ Spares(Json(undo)) /\ Spares(Field(undo))
      /\ Spares(Answered(<<>>)) /\ Spares(Json(done)) /\ Spares(Field(done))
  BY <1>2, SparesNone, SparesCheck, SparesRequest
<1>4. Starts(UpdateSessionWork)
  BY <1>2, <1>3, StartsResponse, StartsConcat DEF UpdateSessionWork, undo, u, e
<1>5. Starts(StatsWork)
  BY <1>2, <1>3, StartsResponse, StartsConcat DEF StatsWork, done, b, p
<1> QED BY <1>4, <1>5

-----------------------------------------------------------------------------
(* The blocks of a message.                                                *)
Blocks(H, m) == {b \in {h[2] : h \in H} : <<m, b>> \in H}

LEMMA BlocksFacts ==
  ASSUME NEW H, NEW m, NEW b
  PROVE  /\ b \in Blocks(H, m) <=> <<m, b>> \in H
         /\ Blocks(H \cup {<<m, b>>}, m) = Blocks(H, m) \cup {b}
<1>1. \A G, d : d \in Blocks(G, m) <=> <<m, d>> \in G
  <2> TAKE G, d
  <2>1. <<m, d>>[2] = d
    OBVIOUS
  <2> QED BY <2>1 DEF Blocks
<1>2. \A d : <<m, d>> = <<m, b>> <=> d = b
  OBVIOUS
<1> DEFINE G == H \cup {<<m, b>>}
<1>3. \A d : d \in Blocks(G, m) <=> d \in Blocks(H, m) \cup {b}
  <2> TAKE d
  <2>1. <<m, d>> \in G <=> <<m, d>> \in H \/ <<m, d>> = <<m, b>>
    OBVIOUS
  <2> HIDE DEF G
  <2>2. /\ d \in Blocks(G, m) <=> <<m, d>> \in G
        /\ d \in Blocks(H, m) <=> <<m, d>> \in H
    BY <1>1
  <2> QED BY <1>2, <2>1, <2>2
<1> HIDE DEF G
<1>4. Blocks(G, m) = Blocks(H, m) \cup {b}
  BY <1>3
<1> QED BY <1>1, <1>4 DEF G

Typed ==
  /\ log \in Seq([call : Calls, code : Codes])
  /\ stage \in {"idle", "work", "release", "stop"}
  /\ stage \in {"work", "release"} => log # <<>>
  /\ stage \in {"idle", "stop"} => todo = <<>>
  /\ size \in 0..MaxSize
  /\ \A h \in heap : /\ h = <<h[1], h[2]>> /\ h[1] \in 1..Len(log)
                     /\ h[2][2] \in 0..MaxSize

(* The steps left of the message under way fit its blocks.                 *)
Running ==
  /\ stage \in {"work", "release"} =>
       Fits(stage, log[Len(log)].code, Current, size, todo, Blocks(heap, Len(log)))
  /\ stage = "release" => Current \in Released

(* The response is there, or is allocated next.                            *)
ResponseStays ==
  stage = "work" /\ Current \in {"UPDATE_SESSION", "NODE_STATS"} =>
    /\ IF log[Len(log)].code = "SUCCESS" THEN Spares(todo) ELSE Keeps(todo)
    /\ \/ todo # <<>> /\ Head(todo).do = "malloc" /\ Head(todo).block = TheResponse
       \/ <<Len(log), TheResponse>> \in heap

(* What earlier messages leave.                                            *)
Accepted(entry) ==
  /\ entry.code = "SUCCESS"
  /\ entry.call \in (Released \ {"DECODE_TRACK", "UPDATED_PLAYER"})
                      \cup (Calls \ Documented)

Past ==
  \A h \in heap :
    h[1] < Len(log) \/ stage = "idle" =>
      h[2][1] \notin Requests /\ (Accepted(log[h[1]]) => h[2][1] \in Remains(log[h[1]].call))

SessionLasts ==
  session = NoBlock
    \/ /\ session = <<session[1], <<"session_id", 0>>>> /\ session[1] \in 1..Len(log)
       /\ log[session[1]].call = "READY"
       /\ stage # "stop" => session \in heap

(* A pointer to no block is followed only by a message that is Misled,     *)
(* after its outcome is known.                                             *)
Pointers ==
  invalid => /\ log # <<>> /\ Misled(log[Len(log)])
             /\ stage = "work" => log[Len(log)].code # "SUCCESS"

HeapInv == Typed /\ Running /\ ResponseStays /\ Past /\ SessionLasts /\ Pointers

LEMMA LogFacts ==
  ASSUME Typed
  PROVE  /\ Len(log) \in Nat /\ DOMAIN log = 1..Len(log)
         /\ \A m \in 1..Len(log) : log[m].call \in Calls /\ log[m].code \in Codes
         /\ log # <<>> => Len(log) \in 1..Len(log)
<1>1. log \in Seq([call : Calls, code : Codes])
  BY DEF Typed
<1>2. Len(log) \in Nat /\ DOMAIN log = 1..Len(log) /\ (log # <<>> => Len(log) # 0)
  BY <1>1, LenProperties, EmptySeq
<1>3. \A m \in 1..Len(log) : log[m] \in [call : Calls, code : Codes]
  BY <1>1, <1>2, ElementOfSeq
<1> QED BY <1>2, <1>3

LEMMA InitHeap == Init => HeapInv
<1> SUFFICES ASSUME Init PROVE HeapInv
  OBVIOUS
<1>1. 0 \in 0..MaxSize
  BY HeapConstants
<1> QED BY <1>1 DEF Init, HeapInv, Typed, Running, ResponseStays, Past, SessionLasts, Pointers

(* A step of the message under way, but for an early return.               *)
LEMMA ResponseStep ==
  ASSUME HeapInv, todo # <<>>, todo' = Tail(todo), UNCHANGED <<log, stage>>,
         \A b : /\ <<Len(log), b>> \in heap
                 => <<Len(log), b>> \in heap'
                      \/ (Head(todo).do = "free" /\ Head(todo).block = b)
                /\ Head(todo).do = "malloc" => <<Len(log), Head(todo).block>> \in heap'
  PROVE  ResponseStays'
<1> SUFFICES ASSUME stage = "work", Current \in {"UPDATE_SESSION", "NODE_STATS"}
             PROVE  /\ IF log[Len(log)].code = "SUCCESS" THEN Spares(todo') ELSE Keeps(todo')
                    /\ <<Len(log), TheResponse>> \in heap'
  BY DEF ResponseStays, Current
<1>1. /\ IF log[Len(log)].code = "SUCCESS" THEN Spares(todo) ELSE Keeps(todo)
      /\ \/ Head(todo).do = "malloc" /\ Head(todo).block = TheResponse
         \/ <<Len(log), TheResponse>> \in heap
  BY DEF HeapInv, ResponseStays
<1>2. Keeps(todo)
  BY <1>1 DEF Spares
<1>3. /\ Head(todo).do = "free" => Head(todo).block # TheResponse
      /\ Keeps(Tail(todo)) /\ (Spares(todo) => Spares(Tail(todo)))
  BY <1>2, SparesStep
<1>4. <<Len(log), TheResponse>> \in heap'
  <2>1. CASE Head(todo).do = "malloc" /\ Head(todo).block = TheResponse
    BY <2>1
  <2>2. CASE <<Len(log), TheResponse>> \in heap
    BY <2>2, <1>3
  <2> QED BY <1>1, <2>1, <2>2
<1>5. IF log[Len(log)].code = "SUCCESS" THEN Spares(todo') ELSE Keeps(todo')
  BY <1>1, <1>3
<1> QED BY <1>4, <1>5

LEMMA BeginHeap ==
  ASSUME HeapInv, NEW c \in Calls, Begin(c)
  PROVE  HeapInv'
<1> DEFINE entry == [call |-> c, code |-> "SUCCESS"]
           m == Len(log) + 1
<1>1. /\ Len(log) \in Nat /\ stage = "idle" /\ stage' = "work" /\ heap' = heap
      /\ session' = session /\ ~invalid /\ ~invalid'
      /\ log' = Append(log, entry) /\ todo' = Work(size')[c]
  BY LogFacts DEF HeapInv, Begin
<1>2. size' \in 0..MaxSize /\ size' \in Nat
  BY HeapConstants DEF Begin
<1>3. entry \in [call : Calls, code : Codes]
  BY DEF Codes
<1>4. /\ log' \in Seq([call : Calls, code : Codes]) /\ Len(log') = m /\ log' # <<>>
      /\ log'[m] = entry /\ \A k \in 1..Len(log) : log'[k] = log[k]
  <2>1. log \in Seq([call : Calls, code : Codes])
    BY DEF HeapInv, Typed
  <2>2. /\ log' \in Seq([call : Calls, code : Codes]) /\ Len(log') = m
        /\ log'[m] = entry /\ \A k \in 1..Len(log) : log'[k] = log[k]
    BY <1>1, <1>3, <2>1, AppendProperties
  <2> QED BY <1>1, <2>2, EmptySeq
<1>5. \A h \in heap : /\ h = <<h[1], h[2]>> /\ h[1] \in 1..Len(log)
                      /\ h[2][2] \in 0..MaxSize
  BY DEF HeapInv, Typed
<1>6. Typed'
  BY <1>1, <1>2, <1>4, <1>5 DEF Typed
<1>7. Running'
  <2>1. Blocks(heap, m) = {}
    <3> SUFFICES ASSUME NEW b \in Blocks(heap, m) PROVE FALSE
      OBVIOUS
    <3>1. <<m, b>> \in heap
      BY BlocksFacts
    <3>2. <<m, b>>[1] = m
      OBVIOUS
    <3> QED BY <1>1, <1>5, <3>1, <3>2
  <2>2. \E M : Runs(c, size', {}, Work(size')[c], M) /\ Settled(c, size', M)
    BY <1>2, CallEnds DEF Ends
  <2>3. Fits("work", "SUCCESS", c, size', Work(size')[c], {})
    BY <2>2 DEF Fits
  <2>4. Current' = c /\ log'[Len(log')].code = "SUCCESS"
    BY <1>4 DEF Current
  <2> HIDE DEF m
  <2> QED BY <1>1, <1>4, <2>1, <2>3, <2>4 DEF Running
<1>8. Past'
  <2> SUFFICES ASSUME NEW h \in heap
               PROVE  /\ h[2][1] \notin Requests
                      /\ Accepted(log'[h[1]]) => h[2][1] \in Remains(log'[h[1]].call)
    BY <1>1 DEF Past, Accepted
  <2> QED BY <1>1, <1>4, <1>5 DEF HeapInv, Past
<1>9. SessionLasts'
  BY <1>1, <1>4 DEF HeapInv, SessionLasts
<1>10. Pointers'
  BY <1>1 DEF Pointers
<1>11. ResponseStays'
  <2> SUFFICES ASSUME c \in {"UPDATE_SESSION", "NODE_STATS"} PROVE Starts(todo')
    <3>1. Current' = c /\ log'[Len(log')].code = "SUCCESS"
      BY <1>4 DEF Current
    <3> QED BY <1>1, <3>1 DEF ResponseStays, Starts
  <2>1. Work(size')[c] = OtherWork(size')[c]
    BY EventNames, CallNames DEF Work
  <2>2. /\ OtherWork(size')["UPDATE_SESSION"] = UpdateSessionWork
        /\ OtherWork(size')["NODE_STATS"] = StatsWork
    BY DEF OtherWork
  <2> QED BY <1>1, <2>1, <2>2, SparesResponse
<1> QED BY <1>6, <1>7, <1>8, <1>9, <1>10, <1>11 DEF HeapInv

(* The message under way is one that may follow a pointer to no block.     *)
Astray ==
  /\ Misled(log[Len(log)])
  /\ stage = "work" => log[Len(log)].code # "SUCCESS"

LEMMA StepFacts ==
  ASSUME HeapInv, todo # <<>>
  PROVE  LET step == Head(todo)
             m == Len(log)
             L == Blocks(heap, m)
             After(steps, M) == Fits(stage, log[m].code, Current, size, steps, M)
         IN  /\ stage \in {"work", "release"} /\ m \in Nat /\ m \in 1..m
             /\ step.do = "malloc" =>
                  step.block[2] \in 0..MaxSize /\ After(Tail(todo), L \cup {step.block})
             /\ step.do = "free" =>
                  /\ <<m, step.block>> \in heap \/ Astray
                  /\ step.block[1] # "session_id"
                  /\ After(Tail(todo), L \ {step.block})
             /\ step.do = "use" =>
                  /\ (\A b \in step.blocks : <<m, b>> \in heap) \/ Astray
                  /\ After(Tail(todo), L)
             /\ step.do = "keep" =>
                  /\ Current = "READY" /\ step.block = <<"session_id", 0>>
                  /\ <<m, step.block>> \in heap /\ After(Tail(todo), L)
             /\ step.do = "check" =>
                  /\ stage = "work" /\ log[m].code = "SUCCESS" /\ step.code \in Codes \ {"SUCCESS"}
                  /\ After(Tail(todo), L)
                  /\ Fits(stage, step.code, Current, size, step.undo, L)
<1> DEFINE step == Head(todo)
           m == Len(log)
           L == Blocks(heap, m)
<1>1. stage \in {"work", "release"} /\ m \in Nat /\ m \in 1..m
  BY LogFacts DEF HeapInv, Typed
<1>2. Fits(stage, log[m].code, Current, size, todo, L)
  BY <1>1 DEF HeapInv, Running
<1>3. \A k \in 0..size : k \in 0..MaxSize
  BY HeapConstants DEF HeapInv, Typed
<1>4. \A b : b \in L => <<m, b>> \in heap
  BY BlocksFacts
<1>5. stage = "release" => Current \in Released
  BY DEF HeapInv, Running
<1>6. Wrong(stage, log[m].code, Current) => Astray
  BY <1>1, <1>5 DEF Wrong, Astray, Misled, Current
<1> HIDE DEF L, m
<1>7. FitsOn(stage, log[m].code, Current, size, todo, L)
  BY <1>1, <1>2, FitsStep
<1>8. \A b \in step.blocks : step.blocks \subseteq L => <<m, b>> \in heap
  BY <1>4
<1> QED BY <1>1, <1>3, <1>4, <1>6, <1>7, <1>8 DEF FitsOn, L, m

LEMMA MallocHeap == ASSUME HeapInv, DoMalloc PROVE HeapInv'
<1> DEFINE m == Len(log)
           b == Head(todo).block
<1>1. /\ todo # <<>> /\ Head(todo).do = "malloc" /\ todo' = Tail(todo)
      /\ heap' = heap \cup {<<m, b>>}
      /\ UNCHANGED <<log, stage, size, session, invalid>>
  BY DEF DoMalloc, NextDoes, Stamp
<1>2. /\ stage \in {"work", "release"} /\ m \in Nat /\ m \in 1..m /\ b[2] \in 0..MaxSize
      /\ Fits(stage, log[m].code, Current, size, todo', Blocks(heap, m) \cup {b})
  BY <1>1, StepFacts
<1>3. Blocks(heap', m) = Blocks(heap, m) \cup {b}
  BY <1>1, BlocksFacts
<1>4. <<m, b>>[1] = m /\ <<m, b>>[2] = b
  OBVIOUS
<1> HIDE DEF b
<1>5. Typed'
  <2>1. ASSUME NEW h \in heap'
        PROVE  h = <<h[1], h[2]>> /\ h[1] \in 1..Len(log) /\ h[2][2] \in 0..MaxSize
    BY <1>1, <1>2, <1>4 DEF HeapInv, Typed
  <2> QED BY <1>1, <1>2, <2>1 DEF HeapInv, Typed
<1>6. Running'
  BY <1>1, <1>2, <1>3 DEF HeapInv, Running, Current
<1>7. Past'
  BY <1>1, <1>2, <1>4 DEF HeapInv, Past, Accepted
<1>8. SessionLasts' /\ Pointers'
  BY <1>1 DEF HeapInv, SessionLasts, Pointers
<1>9. ResponseStays'
  BY <1>1, ResponseStep DEF m, b
<1> QED BY <1>5, <1>6, <1>7, <1>8, <1>9 DEF HeapInv

LEMMA FreeHeap == ASSUME HeapInv, DoFree PROVE HeapInv'
<1> DEFINE m == Len(log)
           b == Head(todo).block
<1>1. /\ todo # <<>> /\ Head(todo).do = "free" /\ todo' = Tail(todo)
      /\ heap' = heap \ {<<m, b>>} /\ invalid' = (invalid \/ <<m, b>> \notin heap)
      /\ UNCHANGED <<log, stage, size, session>>
  BY DEF DoFree, NextDoes, Stamp
<1>2. /\ stage \in {"work", "release"} /\ m \in Nat
      /\ <<m, b>> \in heap \/ Astray
      /\ b[1] # "session_id"
      /\ Fits(stage, log[m].code, Current, size, todo', Blocks(heap, m) \ {b})
  BY <1>1, StepFacts
<1> HIDE DEF m, b
<1>3. Blocks(heap', m) = Blocks(heap, m) \ {b}
  <2> DEFINE G == heap \ {<<m, b>>}
  <2>1. heap' = G
    BY <1>1
  <2>2. G = heap \ {<<m, b>>}
    OBVIOUS
  <2> HIDE DEF G
  <2>3. \A d : d \in Blocks(G, m) <=> d \in Blocks(heap, m) /\ d # b
    <3> TAKE d
    <3>1. /\ d \in Blocks(G, m) <=> <<m, d>> \in G
          /\ d \in Blocks(heap, m) <=> <<m, d>> \in heap
      BY BlocksFacts
    <3>2. <<m, d>> \in G <=> <<m, d>> \in heap /\ <<m, d>> # <<m, b>>
      BY <2>2
    <3>3. <<m, d>> = <<m, b>> <=> d = b
      OBVIOUS
    <3> QED BY <3>1, <3>2, <3>3
  <2>4. Blocks(heap', m) = Blocks(G, m)
    BY <2>1
  <2> QED BY <2>3, <2>4
<1> USE DEF m
<1>4. <<m, b>> # session
  <2>1. ASSUME session = <<m, b>> PROVE FALSE
    <3>1. session[2] = b /\ NoBlock[2] = <<"none", 0>>
      BY <2>1 DEF NoBlock
    <3>2. CASE session = NoBlock
      BY <1>2, <2>1, <3>2 DEF NoBlock, HeapInv, Typed, SessionLasts
    <3>3. CASE session = <<session[1], <<"session_id", 0>>>>
      <4>1. session[2] = <<"session_id", 0>>
        BY <3>3
      <4> QED BY <1>2, <3>1, <4>1
    <3> QED BY <3>2, <3>3 DEF HeapInv, SessionLasts
  <2> QED BY <2>1
<1> HIDE DEF b
<1>5. Typed'
  BY <1>1, <1>2 DEF HeapInv, Typed
<1>6. Running'
  BY <1>1, <1>2, <1>3 DEF HeapInv, Running, Current
<1>7. Past'
  BY <1>1 DEF HeapInv, Past, Accepted
<1>8. SessionLasts'
  BY <1>1, <1>4 DEF HeapInv, SessionLasts
<1>9. Pointers'
  BY <1>1, <1>2 DEF HeapInv, Typed, Pointers, Astray
<1>10. ResponseStays'
  <2>1. ASSUME NEW d, <<m, d>> \in heap
        PROVE  <<m, d>> \in heap' \/ (Head(todo).do = "free" /\ Head(todo).block = d)
    BY <1>1, <2>1 DEF b
  <2> QED BY <1>1, <2>1, ResponseStep
<1> QED BY <1>5, <1>6, <1>7, <1>8, <1>9, <1>10 DEF HeapInv

LEMMA UseHeap == ASSUME HeapInv, DoUse PROVE HeapInv'
<1> DEFINE m == Len(log)
<1>1. /\ todo # <<>> /\ Head(todo).do = "use" /\ todo' = Tail(todo)
      /\ invalid' = (invalid \/ \E b \in Head(todo).blocks : <<m, b>> \notin heap)
      /\ UNCHANGED <<log, stage, size, heap, session>>
  BY DEF DoUse, NextDoes, Stamp
<1>2. /\ stage \in {"work", "release"}
      /\ (\A b \in Head(todo).blocks : <<m, b>> \in heap) \/ Astray
      /\ Fits(stage, log[m].code, Current, size, todo', Blocks(heap, m))
  BY <1>1, StepFacts
<1>3. Pointers'
  BY <1>1, <1>2 DEF HeapInv, Typed, Pointers, Astray
<1>4. Typed'
  BY <1>1, <1>2 DEF HeapInv, Typed
<1>5. Running'
  BY <1>1, <1>2 DEF HeapInv, Running, Current
<1>6. Past' /\ SessionLasts'
  BY <1>1 DEF HeapInv, Past, Accepted, SessionLasts
<1>7. ResponseStays'
  BY <1>1, ResponseStep
<1> QED BY <1>3, <1>4, <1>5, <1>6, <1>7 DEF HeapInv

LEMMA KeepHeap == ASSUME HeapInv, DoKeep PROVE HeapInv'
<1> DEFINE m == Len(log)
           b == Head(todo).block
<1>1. /\ todo # <<>> /\ Head(todo).do = "keep" /\ todo' = Tail(todo)
      /\ session' = <<m, b>>
      /\ UNCHANGED <<log, stage, size, heap, invalid>>
  BY DEF DoKeep, NextDoes, Stamp
<1>2. /\ stage \in {"work", "release"} /\ m \in 1..m
      /\ Current = "READY" /\ b = <<"session_id", 0>> /\ <<m, b>> \in heap
      /\ Fits(stage, log[m].code, Current, size, todo', Blocks(heap, m))
  BY <1>1, StepFacts
<1>3. Typed'
  BY <1>1, <1>2 DEF HeapInv, Typed
<1>4. Running'
  BY <1>1, <1>2 DEF HeapInv, Running, Current
<1>5. SessionLasts'
  <2>1. session'[1] = m
    BY <1>1
  <2> QED BY <1>1, <1>2, <2>1 DEF SessionLasts, Current
<1>6. Past' /\ Pointers'
  BY <1>1 DEF HeapInv, Past, Accepted, Pointers
<1>7. ResponseStays'
  BY <1>1, ResponseStep
<1> QED BY <1>3, <1>4, <1>5, <1>6, <1>7 DEF HeapInv

LEMMA CheckPassesHeap == ASSUME HeapInv, CheckPasses PROVE HeapInv'
<1>1. /\ todo # <<>> /\ Head(todo).do = "check" /\ todo' = Tail(todo)
      /\ UNCHANGED <<log, stage, size, heap, session, invalid>>
  BY DEF CheckPasses, NextDoes
<1>2. /\ stage \in {"work", "release"}
      /\ Fits(stage, log[Len(log)].code, Current, size, todo', Blocks(heap, Len(log)))
  BY <1>1, StepFacts
<1>3. Typed'
  BY <1>1, <1>2 DEF HeapInv, Typed
<1>4. Running'
  BY <1>1, <1>2 DEF HeapInv, Running, Current
<1>5. Past' /\ SessionLasts' /\ Pointers'
  BY <1>1 DEF HeapInv, Past, Accepted, SessionLasts, Pointers
<1>6. ResponseStays'
  BY <1>1, ResponseStep
<1> QED BY <1>3, <1>4, <1>5, <1>6 DEF HeapInv

(* An early return: the message has another outcome.                       *)
LEMMA CheckFailsHeap == ASSUME HeapInv, CheckFails PROVE HeapInv'
<1> DEFINE m == Len(log)
           step == Head(todo)
<1>1. /\ todo # <<>> /\ step.do = "check" /\ todo' = step.undo
      /\ log' = [log EXCEPT ![m].code = step.code]
      /\ UNCHANGED <<stage, size, heap, session, invalid>>
  BY DEF CheckFails
<1>2. /\ stage = "work" /\ log[m].code = "SUCCESS"
      /\ m \in Nat /\ m \in 1..m /\ step.code \in Codes
      /\ Fits(stage, step.code, Current, size, step.undo, Blocks(heap, m))
  BY <1>1, StepFacts
<1> HIDE DEF step
<1>3. /\ log' \in Seq([call : Calls, code : Codes]) /\ Len(log') = m /\ log' # <<>>
      /\ log'[m].call = log[m].call /\ log'[m].code = step.code
      /\ \A k \in 1..m : k # m => log'[k] = log[k]
  <2> DEFINE entry == [log[m] EXCEPT !.code = step.code]
  <2>1. log \in Seq([call : Calls, code : Codes]) /\ DOMAIN log = 1..m
    BY LogFacts DEF HeapInv, Typed
  <2>2. log[m] \in [call : Calls, code : Codes]
    BY <1>2, <2>1, ElementOfSeq
  <2>3. /\ entry \in [call : Calls, code : Codes]
        /\ entry.call = log[m].call /\ entry.code = step.code
    BY <1>2, <2>2
  <2>4. log' = [log EXCEPT ![m] = entry]
    BY <1>1
  <2> HIDE DEF entry
  <2> DEFINE S == [call : Calls, code : Codes]
             s == [log EXCEPT ![m] = entry]
  <2> HIDE DEF S
  <2>45. /\ s \in Seq(S) /\ Len(s) = m
        /\ \A k \in 1..m : s[k] = IF k = m THEN entry ELSE log[k]
    <3>1. log \in Seq(S) /\ m \in 1..Len(log) /\ entry \in S
      BY <1>2, <2>1, <2>3 DEF S
    <3> QED BY <3>1, ExceptSeq
  <2> HIDE DEF s
  <2>5. /\ log' \in Seq([call : Calls, code : Codes]) /\ Len(log') = m
        /\ log'[m] = entry /\ \A k \in 1..m : k # m => log'[k] = log[k]
    BY <1>2, <2>4, <2>45 DEF S, s
  <2>6. log' # <<>>
    BY <1>2, <2>5, EmptySeq
  <2> QED BY <2>3, <2>5, <2>6
<1>4. Typed'
  BY <1>1, <1>2, <1>3 DEF HeapInv, Typed
<1>5. Running'
  <2>1. Current' = Current
    BY <1>3 DEF Current
  <2> QED BY <1>1, <1>2, <1>3, <2>1 DEF Running
<1>6. Past'
  <2> SUFFICES ASSUME NEW h \in heap, h[1] < m
               PROVE  /\ h[2][1] \notin Requests
                      /\ Accepted(log'[h[1]]) => h[2][1] \in Remains(log'[h[1]].call)
    BY <1>1, <1>2, <1>3 DEF Past, Accepted
  <2>1. log'[h[1]] = log[h[1]]
    BY <1>2, <1>3 DEF HeapInv, Typed
  <2> QED BY <2>1 DEF HeapInv, Past
<1>7. SessionLasts'
  <2>1. \A k \in 1..m : log'[k].call = log[k].call
    BY <1>3
  <2> QED BY <1>1, <1>3, <2>1 DEF HeapInv, SessionLasts
<1>8. Pointers'
  BY <1>1, <1>2 DEF HeapInv, Pointers
<1>9. ResponseStays'
  <2> SUFFICES ASSUME Current \in {"UPDATE_SESSION", "NODE_STATS"}
               PROVE  /\ Keeps(todo') /\ (step.code = "SUCCESS" => Spares(todo'))
                      /\ <<m, TheResponse>> \in heap
    BY <1>1, <1>3 DEF ResponseStays, Current
  <2>1. Spares(todo) /\ <<m, TheResponse>> \in heap
    BY <1>1, <1>2 DEF HeapInv, ResponseStays, step
  <2>2. Keeps(step.undo)
    BY <1>1, <2>1, SparesStep DEF Spares, step
  <2>3. step.code # "SUCCESS"
    BY <1>1, <1>2, StepFacts DEF step
  <2> QED BY <1>1, <2>1, <2>2, <2>3
<1> QED BY <1>4, <1>5, <1>6, <1>7, <1>8, <1>9 DEF HeapInv

(* Between messages: what the last one left joins what the others did.     *)
LEMMA PastJoined ==
  ASSUME HeapInv, stage \in {"work", "release"}, UNCHANGED <<log, heap>>,
         NoRequest(Blocks(heap, Len(log))),
         Accepted(log[Len(log)]) => Only(Current, Blocks(heap, Len(log)))
  PROVE  Past'
<1> DEFINE m == Len(log)
           L == Blocks(heap, m)
<1>1. m \in Nat /\ \A h \in heap : h = <<h[1], h[2]>> /\ h[1] \in 1..m
  BY LogFacts DEF HeapInv, Typed
<1>2. \A h \in heap : h[1] = m => h[2] \in L
  <2> TAKE h \in heap
  <2> HAVE h[1] = m
  <2>1. <<m, h[2]>> \in heap
    BY <1>1
  <2> QED BY <2>1, BlocksFacts
<1>3. NoRequest(L) /\ (Accepted(log[m]) => Only(log[m].call, L))
  BY DEF Current
<1> HIDE DEF m, L
<1>4. ASSUME NEW h \in heap
      PROVE  /\ h[2][1] \notin Requests
             /\ Accepted(log[h[1]]) => h[2][1] \in Remains(log[h[1]].call)
  <2>1. CASE h[1] = m
    BY <1>2, <1>3, <2>1 DEF NoRequest, Only
  <2>2. CASE h[1] < m
    BY <2>2 DEF HeapInv, Past, m
  <2> QED BY <1>1, <2>1, <2>2
<1> QED BY <1>4 DEF Past, Accepted

LEMMA PlayerReleasedFacts == FreesOnly(PlayerReleased)
<1> DEFINE first == <<"encoded", "info", "track">>
           second == <<"track", "state", "filters", "response">>
           U == {[do |-> "free", block |-> <<a, 0>>] :
                   a \in {"encoded", "info", "track", "state", "filters", "response"}}
           s == Free(first, 0)
           t == Free(second, 0)
<1>1. /\ DOMAIN first = 1..3 /\ DOMAIN second = 1..4
      /\ \A k \in 1..3 : first[k] \in {"encoded", "info", "track"}
      /\ \A k \in 1..4 : second[k] \in {"track", "state", "filters", "response"}
  OBVIOUS
<1> HIDE DEF first, second
<1>2. s = [k \in 1..3 |-> [do |-> "free", block |-> <<first[k], 0>>]]
      /\ t = [k \in 1..4 |-> [do |-> "free", block |-> <<second[k], 0>>]]
  BY <1>1 DEF Free
<1>3. s \in [1..3 -> U] /\ t \in [1..4 -> U]
  BY <1>1, <1>2
<1> HIDE DEF s, t, U
<1>4. s \in Seq(U) /\ t \in Seq(U)
  <2>1. \A n \in Nat : \A r \in [1..n -> U] : r \in Seq(U)
    BY SeqDef
  <2>2. 3 \in Nat /\ 4 \in Nat
    OBVIOUS
  <2> QED BY <1>3, <2>1, <2>2, Zenon
<1>5. s \o t \in Seq(U)
  BY <1>4, ConcatProperties
<1>6. \A u \in U : u.do = "free" /\ u.block[1] # "session_id"
  BY DEF U
<1>7. DOMAIN (s \o t) = 1..Len(s \o t) /\ \A k \in 1..Len(s \o t) : (s \o t)[k] \in U
  BY <1>5, LenProperties, ElementOfSeq
<1>8. FreesOnly(s \o t)
  BY <1>5, <1>6, <1>7 DEF FreesOnly
<1> QED BY <1>8 DEF PlayerReleased, FreeTrack, s, t, first, second

LEMMA ReturnHeap == ASSUME HeapInv, Return PROVE HeapInv'
<1> DEFINE m == Len(log)
           code == log[m].code
           L == Blocks(heap, m)
<1>1. /\ stage = "work" /\ todo = <<>>
      /\ UNCHANGED <<log, size, heap, session, invalid>>
      /\ \/ code = "EXIT" /\ stage' = "stop" /\ todo' = todo
         \/ /\ code \notin {"EXIT", "FAILED"} /\ Current \in Released
            /\ stage' = "release"
            /\ todo' = IF code = "SUCCESS" THEN Release(size)[Current]
                       ELSE ReleaseUnwritten[Current]
         \/ /\ ~(code \notin {"EXIT", "FAILED"} /\ Current \in Released) /\ code # "EXIT"
            /\ stage' = "idle" /\ todo' = todo
  BY DEF Return
<1>2. /\ Current \in Calls /\ code \in Codes
      /\ Fits("work", code, Current, size, <<>>, L)
  BY <1>1, LogFacts DEF HeapInv, Typed, Running, Current
<1>3. code = "SUCCESS" => Settled(Current, size, L)
  <2> HAVE code = "SUCCESS"
  <2>1. PICK M : Runs(Current, size, L, <<>>, M) /\ Settled(Current, size, M)
    BY <1>2 DEF Fits
  <2>2. M = L
    BY <2>1, RunsStep
  <2> QED BY <2>1, <2>2
<1>4. code \notin {"SUCCESS", "EXIT"} => NoRequest(L)
  <2>1. code \notin {"SUCCESS", "EXIT"} => NoRequest(Left(L, <<>>))
    BY <1>2, UnwrittenFacts DEF Fits
  <2> QED BY <2>1, FreesNone
<1>5. Current \in {"UPDATE_SESSION", "NODE_STATS"} => TheResponse \in L
  <2>1. Current \in {"UPDATE_SESSION", "NODE_STATS"} => <<m, TheResponse>> \in heap
    BY <1>1 DEF HeapInv, ResponseStays
  <2> QED BY <2>1, BlocksFacts
<1> HIDE DEF L
<1>6. Typed'
  BY <1>1 DEF HeapInv, Typed
<1>7. Running'
  <2> SUFFICES ASSUME stage' = "release"
               PROVE  Fits("release", code, Current, size, todo', L) /\ Current \in Released
    BY <1>1 DEF Running, Current, L
  <2>1. /\ Current \in Released /\ Current \in Documented /\ code \notin {"EXIT", "FAILED"}
        /\ todo' = IF code = "SUCCESS" THEN Release(size)[Current]
                   ELSE ReleaseUnwritten[Current]
    BY <1>1, HeapConstants
  <2>2. CASE code = "SUCCESS" /\ Current = "UPDATED_PLAYER"
    <3>1. todo' = PlayerReleased
      BY <2>1, <2>2, CallNames DEF Release, OtherReleased
    <3> QED BY <1>3, <2>1, <2>2, <3>1, PlayerReleasedFacts DEF Fits, Settled
  <2>3. CASE code = "SUCCESS" /\ Current # "UPDATED_PLAYER"
    BY <1>3, <2>1, <2>3 DEF Fits, Settled
  <2>4. CASE code # "SUCCESS"
    <3>1. todo' = CASE Current \in FollowsUnwritten -> Unwritten
                    [] Current \in {"UPDATE_SESSION", "NODE_STATS"} ->
                         Free(<<"response">>, 0)
                    [] OTHER -> <<>>
      BY <2>1, <2>4 DEF ReleaseUnwritten
    <3>2. \/ todo' = <<>>
          \/ todo' = Unwritten /\ Current \in FollowsUnwritten
          \/ todo' = Free(<<"response">>, 0) /\ TheResponse \in L
      BY <1>5, <3>1
    <3> QED BY <1>4, <2>1, <2>4, <3>2 DEF Fits, TheResponse
  <2> QED BY <2>1, <2>2, <2>3, <2>4
<1>8. Past'
  <2>1. CASE stage' = "idle"
    <3>1. NoRequest(L)
      BY <1>1, <1>3, <1>4, <2>1 DEF Settled
    <3>2. Accepted(log[m]) => Only(Current, L)
      BY <1>1, <1>3, <2>1 DEF Accepted, Settled, Current
    <3> QED BY <1>1, <3>1, <3>2, PastJoined DEF L
  <2>2. CASE stage' # "idle"
    BY <1>1, <2>2 DEF HeapInv, Past, Accepted
  <2> QED BY <2>1, <2>2
<1>9. SessionLasts' /\ Pointers' /\ ResponseStays'
  BY <1>1 DEF HeapInv, SessionLasts, Pointers, ResponseStays
<1> QED BY <1>6, <1>7, <1>8, <1>9 DEF HeapInv

LEMMA ReleaseEndsHeap == ASSUME HeapInv, ReleaseEnds PROVE HeapInv'
<1> DEFINE m == Len(log)
           code == log[m].code
           L == Blocks(heap, m)
<1>1. /\ stage = "release" /\ todo = <<>> /\ stage' = "idle"
      /\ UNCHANGED <<log, size, todo, heap, session, invalid>>
  BY DEF ReleaseEnds
<1>2. Fits("release", code, Current, size, <<>>, L) /\ Current \in Documented
  BY <1>1, HeapConstants DEF HeapInv, Running
<1> HIDE DEF L
<1>3. /\ NoRequest(L)
      /\ code = "SUCCESS" /\ Current \notin {"UPDATED_PLAYER", "DECODE_TRACK"}
           => Only(Current, L)
  <2>1. CASE code = "SUCCESS" /\ Current = "UPDATED_PLAYER"
    BY <1>2, <2>1 DEF Fits
  <2>2. CASE code = "SUCCESS" /\ Current # "UPDATED_PLAYER"
    <3>1. PICK K : /\ Runs("RELEASE", size, L, <<>>, K) /\ NoRequest(K)
                   /\ (Current # "DECODE_TRACK" => Only(Current, K))
      BY <1>2, <2>2 DEF Fits
    <3>2. K = L
      BY <3>1, RunsStep
    <3> QED BY <3>1, <3>2
  <2>3. CASE code # "SUCCESS"
    BY <1>2, <2>3 DEF Fits
  <2> QED BY <2>1, <2>2, <2>3
<1>4. Past'
  <2>1. Accepted(log[m]) => Only(Current, L)
    BY <1>2, <1>3 DEF Accepted, Current
  <2> QED BY <1>1, <1>3, <2>1, PastJoined DEF L
<1>5. Typed' /\ Running' /\ SessionLasts' /\ Pointers' /\ ResponseStays'
  BY <1>1 DEF HeapInv, Typed, Running, SessionLasts, Pointers, ResponseStays
<1> QED BY <1>4, <1>5 DEF HeapInv

LEMMA CleanupHeap == ASSUME HeapInv, Cleanup PROVE HeapInv'
<1>1. /\ stage = "idle" /\ ~invalid /\ stage' = "stop" /\ heap' = heap \ {session}
      /\ invalid' = (invalid \/ (session # NoBlock /\ session \notin heap))
      /\ UNCHANGED <<log, size, todo, session>>
  BY DEF Cleanup
<1>2. session # NoBlock => session \in heap
  BY <1>1 DEF HeapInv, SessionLasts
<1>3. Typed' /\ Running' /\ ResponseStays'
  BY <1>1 DEF HeapInv, Typed, Running, ResponseStays
<1>4. Past'
  BY <1>1 DEF HeapInv, Past, Accepted
<1>5. SessionLasts' /\ Pointers'
  BY <1>1, <1>2 DEF HeapInv, SessionLasts, Pointers
<1> QED BY <1>3, <1>4, <1>5 DEF HeapInv

LEMMA UnchangedHeap == ASSUME HeapInv, UNCHANGED vars PROVE HeapInv'
<1>1. UNCHANGED <<log, stage, size, todo, heap, session, invalid>>
  BY DEF vars
<1>2. Typed' /\ Running' /\ ResponseStays'
  BY <1>1 DEF HeapInv, Typed, Running, ResponseStays, Current
<1>3. Past' /\ SessionLasts' /\ Pointers'
  BY <1>1 DEF HeapInv, Past, Accepted, SessionLasts, Pointers
<1> QED BY <1>2, <1>3 DEF HeapInv

-----------------------------------------------------------------------------
(* The inductive invariant: what is left of the message under way fits the *)
(* blocks it has, and earlier messages left what they may.                 *)
THEOREM HeapInvariant == Spec => []HeapInv
<1>1. HeapInv /\ [Next]_vars => HeapInv'
  <2> SUFFICES ASSUME HeapInv, [Next]_vars PROVE HeapInv'
    OBVIOUS
  <2>1. ASSUME NEW c \in Calls, Begin(c) PROVE HeapInv'
    BY <2>1, BeginHeap
  <2>2. CASE DoMalloc      BY <2>2, MallocHeap
  <2>3. CASE DoFree        BY <2>3, FreeHeap
  <2>4. CASE DoUse         BY <2>4, UseHeap
  <2>5. CASE DoKeep        BY <2>5, KeepHeap
  <2>6. CASE CheckPasses   BY <2>6, CheckPassesHeap
  <2>7. CASE CheckFails    BY <2>7, CheckFailsHeap
  <2>8. CASE Return        BY <2>8, ReturnHeap
  <2>9. CASE ReleaseEnds   BY <2>9, ReleaseEndsHeap
  <2>10. CASE Cleanup      BY <2>10, CleanupHeap
  <2>11. CASE UNCHANGED vars
    BY <2>11, UnchangedHeap
  <2> QED
    BY <2>1, <2>2, <2>3, <2>4, <2>5, <2>6, <2>7, <2>8, <2>9, <2>10, <2>11 DEF Next
<1> QED BY <1>1, InitHeap, PTL DEF Spec

(* Messages, outcomes, sizes and blocks stay what ClientHeap declares.     *)
THEOREM HeapTyped == Spec => []HeapTypeOK
<1>1. HeapInv => HeapTypeOK
  <2> SUFFICES ASSUME HeapInv PROVE HeapTypeOK
    OBVIOUS
  <2>1. session = NoBlock \/ log[session[1]].call = "READY"
    BY DEF HeapInv, SessionLasts
  <2> QED BY <2>1, LogFacts DEF HeapInv, Typed, HeapTypeOK
<1> QED BY <1>1, HeapInvariant, PTL

(* No early return of any call leaves a curl handle, a URL, headers or the *)
(* JSON text of its request (_coglink_perform_request, lib/rest.c).        *)
THEOREM RequestsGone == Spec => []RequestsLeaveNothing
<1>1. HeapInv => RequestsLeaveNothing
  BY DEF HeapInv, Past, Requests, RequestsLeaveNothing
<1> QED BY <1>1, HeapInvariant, PTL

(* node->session_id points to a live string from READY to coglink_cleanup, *)
(* whatever comes in between (lib/websocket.c:73).                         *)
THEOREM SessionStaysLive == Spec => []SessionLive
<1>1. HeapInv => SessionLive
  BY DEF HeapInv, SessionLasts, SessionLive
<1> QED BY <1>1, HeapInvariant, PTL

(* Nothing is freed twice, freed without having been allocated, or         *)
(* followed when it is not there, on any return of any call and whatever   *)
(* the application releases, except by the messages that Misled names: a   *)
(* gateway event that does not parse (lib/websocket.c:241, 291), a         *)
(* response released although no parser wrote it (include/rest.h:267, 313, *)
(* 351), and coglink_free_update_player (lib/codecs.c:894-896).            *)
THEOREM PointersStayValid == Spec => []PointersValid
<1>1. HeapInv => PointersValid
  BY DEF HeapInv, Pointers, PointersValid
<1> QED BY <1>1, HeapInvariant, PTL

(* An accepted message whose response was released leaves what Remains     *)
(* lists; the two functions of which it is not true are left out           *)
(* (coglink_decode_track stores nothing in the response to be released).   *)
THEOREM AcceptedLeaveOnlyTheirs ==
  ASSUME {"DECODE_TRACK", "UPDATED_PLAYER"} \cap Released = {}
  PROVE  Spec => []AcceptedLeaveNothing
<1>1. HeapInv => AcceptedLeaveNothing
  <2> SUFFICES ASSUME HeapInv, stage = "idle", NEW h \in heap,
                      log[h[1]].code = "SUCCESS",
                      log[h[1]].call \in Released \cup (Calls \ Documented)
               PROVE  h[2][1] \in Remains(log[h[1]].call)
    BY DEF AcceptedLeaveNothing
  <2>1. Accepted(log[h[1]])
    BY DEF Accepted
  <2> QED BY <2>1 DEF HeapInv, Past
<1> QED BY <1>1, HeapInvariant, PTL

=============================================================================
