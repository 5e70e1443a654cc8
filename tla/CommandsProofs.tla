--------------------------- MODULE CommandsProofs ---------------------------
(***************************************************************************)
(* The events and the commands, for any number of emitters and             *)
(* subscriptions, and any commands, words, levels and clients.             *)
(*                                                                         *)
(* The first part is about the slices of handlers: no Emit that has begun  *)
(* shares its array with the list of handlers, so that what it has copied  *)
(* stays as it was, and the handlers it starts are those of one moment of  *)
(* the call.  The second is about the registry: the meaning of every word, *)
(* the list of commands in step with the words, the commands of            *)
(* administrators to administrators.  Both hold while commands emit events.*)
(***************************************************************************)
EXTENDS Commands, TLAPS, SequenceTheorems, FiniteSetTheorems

\* A leaf that names no backend is tried with the SMT solver, then with Zenon,
\* each given more time than it takes on an idle machine.
USE SMTT(30), ZenonT(20)

---------------------------------------------------------------------------
(* The invariant of the subscriptions.                                     *)

\* The i-th element of a slice, and its elements.
At(m, s, i) == m[s.array][i]
Members(m, s) == {At(m, s, i) : i \in 1..s.len}

NoRepeat(m, s) == \A i, j \in 1..s.len : At(m, s, i) = At(m, s, j) => i = j

\* The list of handlers: numbers given out, none twice.
ListOK ==
  /\ memory[0] = <<>>
  /\ handlers.len <= Len(memory[handlers.array])
  /\ handlers.len <= nextHID
  /\ Members(memory, handlers) \subseteq 1..nextHID
  /\ NoRepeat(memory, handlers)

\* The slice of an Emit is its own.
SliceOK(e) ==
  /\ emit[e].slice.len <= Len(memory[emit[e].slice.array])
  /\ emit[e].slice.array = handlers.array => handlers.array = 0
  /\ emit[e].pc # "start" => emit[e].slice = Nil /\ emit[e].next = 1

\* What an Emit has to start covers what was subscribed all the time, and is
\* covered by what was subscribed at some time.
WalkOK(e) ==
  /\ emit[e].pc # "start" => called[e] = <<>>
  /\ emit[e].pc = "lookup" =>
       stay[e] \subseteq Members(memory, handlers) /\ Members(memory, handlers) \subseteq seen[e]
  /\ emit[e].pc = "start" =>
       /\ emit[e].next <= emit[e].slice.len + 1
       /\ NoRepeat(memory, emit[e].slice)
       /\ called[e] = SubSeq(memory[emit[e].slice.array], 1, emit[e].next - 1)
       /\ stay[e] \subseteq Members(memory, emit[e].slice)
       /\ Members(memory, emit[e].slice) \subseteq seen[e]

SubsInv ==
  /\ SubsTypeOK
  /\ ListOK
  /\ \A e \in Emitter : SliceOK(e) /\ WalkOK(e)

\* The steps that change the subscriptions and the Emits.
SubsNext ==
  \/ Subscribe
  \/ \E h \in HID : Cancel(h)
  \/ \E e \in Emitter : Call(e) \/ EmitStep(e) \/ HandlersEnd(e)

---------------------------------------------------------------------------
(* Arrays and slices.                                                      *)

\* There are more arrays than slices, so append always finds one that is free.
LEMMA FreeExists ==
  ASSUME SubsTypeOK
  PROVE  /\ Free \in Array /\ Free # 0 /\ Free # handlers.array
         /\ \A e \in Emitter : emit[e].slice.array # Free
<1> DEFINE f == [e \in Emitter |-> emit[e].slice.array]
           T == {emit[e].slice.array : e \in Emitter}
           S == 1..(Cardinality(Emitter) + 2)
<1>1. IsFiniteSet(Emitter) /\ Cardinality(Emitter) \in Nat
  BY SubscriptionAssumption, FS_CardinalityType
<1>2. f \in Surjection(Emitter, T)
  BY DEF Surjection
<1>3. IsFiniteSet(T) /\ Cardinality(T) <= Cardinality(Emitter)
  BY <1>1, <1>2, FS_Surjection
<1>4. Cardinality(T) \in Nat
  BY <1>3, FS_CardinalityType
<1>5. /\ IsFiniteSet(T \cup {handlers.array})
      /\ Cardinality(T \cup {handlers.array}) <= Cardinality(Emitter) + 1
  <2> HIDE DEF T
  <2>1. /\ IsFiniteSet(T \cup {handlers.array})
        /\ Cardinality(T \cup {handlers.array}) =
             IF handlers.array \in T THEN Cardinality(T) ELSE Cardinality(T) + 1
    BY <1>3, FS_AddElement
  <2> QED
    BY <1>1, <1>3, <1>4, <2>1
<1>6. Cardinality(S) = Cardinality(Emitter) + 2
  BY <1>1, FS_Interval
<1>7. ~(S \subseteq T \cup {handlers.array})
  <2> HIDE DEF S, T
  <2>1. SUFFICES ASSUME S \subseteq T \cup {handlers.array} PROVE FALSE
    OBVIOUS
  <2>2. Cardinality(S) <= Cardinality(T \cup {handlers.array})
    BY <1>5, <2>1, FS_Subset
  <2>3. Cardinality(T \cup {handlers.array}) \in Nat
    BY <1>5, FS_CardinalityType
  <2> QED
    BY <1>1, <1>5, <1>6, <2>2, <2>3
<1>8. \E a \in Array \ {0} :
        a # handlers.array /\ \A e \in Emitter : emit[e].slice.array # a
  BY <1>1, <1>7 DEF Array
<1> QED
  BY <1>8 DEF Free

\* The front of a sequence.
LEMMA FrontAt ==
  ASSUME NEW S, NEW p \in Seq(S), NEW n \in 0..Len(p)
  PROVE  /\ SubSeq(p, 1, n) \in Seq(S)
         /\ Len(SubSeq(p, 1, n)) = n
         /\ DOMAIN SubSeq(p, 1, n) = 1..n
         /\ \A i \in 1..n : SubSeq(p, 1, n)[i] = p[i]
<1>1. /\ SubSeq(p, 1, n) \in Seq(S)
      /\ Len(SubSeq(p, 1, n)) = n
      /\ \A i \in 1..n : SubSeq(p, 1, n)[i] = p[i]
  <2>1. \A i \in 1..n : p[i] \in S
    OBVIOUS
  <2> QED
    BY <2>1, SubSeqProperties
<1> QED
  BY <1>1

\* The elements of a slice, one by one.
LEMMA ElementsAt ==
  ASSUME SubsInv
  PROVE  /\ Elements(memory, handlers) \in Seq(0..MaxHID)
         /\ Len(Elements(memory, handlers)) = handlers.len
         /\ DOMAIN Elements(memory, handlers) = 1..handlers.len
         /\ \A i \in 1..handlers.len : Elements(memory, handlers)[i] = At(memory, handlers, i)
         /\ Range(Elements(memory, handlers)) = Members(memory, handlers)
<1> DEFINE p == memory[handlers.array]
           n == handlers.len
           S == 0..MaxHID
<1>1. p \in Seq(S) /\ n \in 0..Len(p)
  BY DEF SubsInv, SubsTypeOK, ListOK, Slice
<1>2. /\ SubSeq(p, 1, n) \in Seq(S)
      /\ Len(SubSeq(p, 1, n)) = n
      /\ DOMAIN SubSeq(p, 1, n) = 1..n
      /\ \A i \in 1..n : SubSeq(p, 1, n)[i] = p[i]
  <2> HIDE DEF p, n, S
  <2> QED
    BY <1>1, FrontAt
<1> QED
  BY <1>2 DEF Elements, At, Members, Range

\* A sequence with an element and more sequence after it.
LEMMA Grown ==
  ASSUME NEW S, NEW q \in Seq(S), NEW x \in S, NEW z \in Seq(S)
  PROVE  /\ Append(q, x) \o z \in Seq(S)
         /\ Len(Append(q, x) \o z) = Len(q) + 1 + Len(z)
         /\ \A i \in 1..Len(q) : (Append(q, x) \o z)[i] = q[i]
         /\ (Append(q, x) \o z)[Len(q) + 1] = x
<1> DEFINE ap == Append(q, x)
<1>1. /\ ap \in Seq(S) /\ Len(ap) = Len(q) + 1
      /\ \A i \in 1..Len(q) : ap[i] = q[i]
      /\ ap[Len(q) + 1] = x
  BY AppendProperties
<1> HIDE DEF ap
<1>2. /\ ap \o z \in Seq(S) /\ Len(ap \o z) = Len(ap) + Len(z)
      /\ \A i \in 1..(Len(ap) + Len(z)) :
           (ap \o z)[i] = IF i <= Len(ap) THEN ap[i] ELSE z[i - Len(ap)]
  BY <1>1, ConcatProperties, ZenonT(30)
<1>3. Len(q) \in Nat /\ Len(z) \in Nat
  OBVIOUS
<1>4. \A i \in 1..(Len(q) + 1) : (ap \o z)[i] = ap[i]
  BY <1>1, <1>2, <1>3
<1> QED
  BY <1>1, <1>2, <1>3, <1>4 DEF ap

\* Zeros are a sequence.
LEMMA ZerosType ==
  ASSUME NEW n \in Nat
  PROVE  Zeros(n) \in Seq(0..MaxHID) /\ Len(Zeros(n)) = n
<1>1. Zeros(n) \in [1..n -> 0..MaxHID]
  BY SubscriptionAssumption DEF Zeros
<1>2. Zeros(n) \in Seq(0..MaxHID) /\ DOMAIN Zeros(n) = 1..n
  BY <1>1, SeqDef, ZenonT(30)
<1> QED
  BY <1>2

\* What the filter keeps: all but h, in the same order.
LEMMA KeptType ==
  ASSUME NEW S, NEW q \in Seq(S), NEW h, IsInjective(q)
  PROVE  /\ Kept(q, h) \in Seq(S)
         /\ Len(Kept(q, h)) <= Len(q)
         /\ IsInjective(Kept(q, h))
         /\ Range(Kept(q, h)) = Range(q) \ {h}
         /\ \/ Kept(q, h) = q
            \/ \E i \in DOMAIN q : q[i] = h /\ Kept(q, h) = RemoveAt(q, i)
<1>1. CASE h \notin Range(q)
  BY <1>1 DEF Kept
<1>2. CASE h \in Range(q)
  <2>1. PICK i \in DOMAIN q : q[i] = h /\ Kept(q, h) = RemoveAt(q, i)
    BY <1>2, Zenon DEF Kept, Range
  <2> DEFINE front == SubSeq(q, 1, i - 1)
             back == SubSeq(q, i + 1, Len(q))
             kept == Kept(q, h)
  <2>2. DOMAIN q = 1..Len(q) /\ Len(q) \in Nat /\ i \in 1..Len(q)
    OBVIOUS
  <2>3. /\ front \in Seq(S) /\ Len(front) = i - 1
        /\ \A j \in 1..(i - 1) : front[j] = q[j]
    <3>1. i - 1 \in Int /\ \A j \in 1..(i - 1) : q[j] \in S
      BY <2>2
    <3> QED
      BY <2>2, <3>1, SubSeqProperties
  <2>4. /\ back \in Seq(S) /\ Len(back) = Len(q) - i
        /\ \A j \in 1..(Len(q) - i) : back[j] = q[i + j]
    <3>1. i + 1 \in Int /\ \A j \in (i + 1)..Len(q) : q[j] \in S
      BY <2>2
    <3> QED
      BY <2>2, <3>1, SubSeqProperties
  <2>5. kept = front \o back
    BY <2>1 DEF RemoveAt
  <2> HIDE DEF front, back, kept
  <2>6. /\ kept \in Seq(S) /\ Len(kept) = Len(q) - 1
        /\ \A j \in 1..(Len(q) - 1) : kept[j] = IF j < i THEN q[j] ELSE q[j + 1]
    <3>1. /\ kept \in Seq(S) /\ Len(kept) = Len(front) + Len(back)
          /\ \A j \in 1..(Len(front) + Len(back)) :
               kept[j] = IF j <= Len(front) THEN front[j] ELSE back[j - Len(front)]
      BY <2>3, <2>4, <2>5, ConcatProperties, ZenonT(30)
    <3>2. Len(front) + Len(back) = Len(q) - 1
      BY <2>2, <2>3, <2>4
    <3>3. ASSUME NEW j \in 1..(Len(q) - 1)
          PROVE  kept[j] = IF j < i THEN q[j] ELSE q[j + 1]
      <4>1. CASE j < i
        BY <2>2, <2>3, <3>1, <3>2, <4>1
      <4>2. CASE ~(j < i)
        <5>1. kept[j] = back[j - (i - 1)] /\ j - (i - 1) \in 1..(Len(q) - i)
          BY <2>2, <2>3, <3>1, <3>2, <4>2
        <5>2. i + (j - (i - 1)) = j + 1
          BY <2>2
        <5> QED
          BY <2>4, <4>2, <5>1, <5>2
      <4> QED
        BY <4>1, <4>2
    <3> QED
      BY <3>1, <3>2, <3>3
  <2>7. DOMAIN kept = 1..(Len(q) - 1)
    BY <2>6
  <2>8. IsInjective(kept)
    <3>1. SUFFICES ASSUME NEW a \in DOMAIN kept, NEW b \in DOMAIN kept, kept[a] = kept[b]
                   PROVE  a = b
      BY DEF IsInjective
    <3>2. \A j, k \in 1..Len(q) : q[j] = q[k] => j = k
      BY <2>2 DEF IsInjective
    <3> QED
      BY <2>2, <2>6, <2>7, <3>1, <3>2
  <2>9. Range(kept) = Range(q) \ {h}
    <3>1. ASSUME NEW j \in DOMAIN kept PROVE kept[j] \in Range(q) \ {h}
      <4>1. PICK k \in 1..Len(q) : k # i /\ kept[j] = q[k]
        BY <2>2, <2>6, <2>7
      <4>2. q[k] # h
        BY <2>1, <2>2, <4>1 DEF IsInjective
      <4> QED
        BY <2>2, <4>1, <4>2 DEF Range
    <3>2. ASSUME NEW j \in DOMAIN q, q[j] # h PROVE \E k \in DOMAIN kept : kept[k] = q[j]
      <4>1. CASE j < i
        <5>1. j \in DOMAIN kept /\ kept[j] = q[j]
          BY <2>2, <2>6, <2>7, <4>1
        <5> QED
          BY <5>1
      <4>2. CASE j > i
        <5>1. j - 1 \in DOMAIN kept /\ kept[j - 1] = q[j]
          BY <2>2, <2>6, <2>7, <4>2
        <5> QED
          BY <5>1
      <4> QED
        BY <2>1, <2>2, <3>2, <4>1, <4>2
    <3> QED
      BY <3>1, <3>2 DEF Range
  <2> QED
    BY <2>1, <2>2, <2>6, <2>8, <2>9 DEF kept
<1> QED
  BY <1>1, <1>2

\* Collecting garbage leaves the arrays that are referred to alone.
LEMMA CollectKeeps ==
  ASSUME NEW S, NEW m \in [Array -> Seq(S)]
  PROVE  /\ Collect(m) \in [Array -> Seq(S)]
         /\ handlers'.array \in Array => Collect(m)[handlers'.array] = m[handlers'.array]
         /\ \A e \in Emitter : emit'[e].slice.array \in Array =>
              Collect(m)[emit'[e].slice.array] = m[emit'[e].slice.array]
         /\ \A a \in Array : m[a] = <<>> => Collect(m)[a] = <<>>
<1>1. <<>> \in Seq(S)
  OBVIOUS
<1> QED
  BY <1>1 DEF Collect

---------------------------------------------------------------------------
(* What the steps do to the arrays.                                        *)

\* The list of handlers is longer by the new number, and no Emit sees it.
LEMMA SubscribeEffect ==
  ASSUME SubsInv, Subscribe
  PROVE  /\ handlers' \in Slice /\ handlers'.array # 0 /\ handlers'.len = handlers.len + 1
         /\ memory' \in [Array -> Seq(0..MaxHID)] /\ memory'[0] = <<>>
         /\ handlers'.len <= Len(memory'[handlers'.array])
         /\ \A i \in 1..handlers.len : At(memory', handlers', i) = At(memory, handlers, i)
         /\ At(memory', handlers', handlers.len + 1) = nextHID + 1
         /\ \A e \in Emitter : /\ emit[e].slice.array # handlers'.array
                               /\ memory'[emit[e].slice.array] = memory[emit[e].slice.array]
<1> DEFINE V == 0..MaxHID
           n == handlers.len
           q == memory[handlers.array]
           m == AppendedTo(handlers, nextHID')
<1>1. /\ MaxHID \in Nat /\ n \in Nat /\ nextHID \in Nat /\ 0 \in Array
      /\ nextHID + 1 \in V /\ nextHID' = nextHID + 1
      /\ handlers.array \in Array /\ q \in Seq(V) /\ n <= Len(q) /\ n <= nextHID
      /\ memory \in [Array -> Seq(V)]
      /\ \A e \in Emitter : emit[e].slice.array \in Array
      /\ memory[0] = <<>>
  <2>1. Cardinality(Emitter) \in Nat
    BY SubscriptionAssumption, FS_CardinalityType
  <2> QED
    BY <2>1, SubscriptionAssumption
    DEF SubsInv, SubsTypeOK, ListOK, Subscribe, Slice, EmitState, Array
<1>2. memory' = Collect(m) /\ handlers' = Appended(handlers) /\ emit' = emit
  BY DEF Subscribe
<1>3. /\ Free \in Array /\ Free # 0 /\ Free # handlers.array
      /\ \A e \in Emitter : emit[e].slice.array # Free
  BY FreeExists DEF SubsInv
<1>4. handlers'.len = n + 1 /\ handlers'.len \in 0..MaxHID
  BY <1>1, <1>2 DEF Appended
<1>5. /\ handlers'.array \in Array /\ handlers'.array # 0
      /\ m \in [Array -> Seq(V)]
      /\ n + 1 <= Len(m[handlers'.array])
      /\ \A i \in 1..n : m[handlers'.array][i] = q[i]
      /\ m[handlers'.array][n + 1] = nextHID + 1
      /\ \A a \in Array : a # handlers'.array => m[a] = memory[a]
      /\ \A e \in Emitter : emit[e].slice.array # handlers'.array
  <2>1. CASE Room(handlers)
    <3>1. n < Len(q) /\ handlers'.array = handlers.array /\ handlers.array # 0
      BY <1>1, <1>2, <2>1 DEF Room, Appended
    <3>2. m = [memory EXCEPT ![handlers.array] = [q EXCEPT ![n + 1] = nextHID + 1]]
      BY <1>1, <2>1 DEF AppendedTo
    <3>3. /\ [q EXCEPT ![n + 1] = nextHID + 1] \in Seq(V)
          /\ Len([q EXCEPT ![n + 1] = nextHID + 1]) = Len(q)
          /\ \A j \in 1..Len(q) : [q EXCEPT ![n + 1] = nextHID + 1][j] =
                                    IF j = n + 1 THEN nextHID + 1 ELSE q[j]
      <4> DEFINE k == n + 1
                 x == nextHID + 1
      <4> HIDE DEF q, n
      <4>1. k \in 1..Len(q) /\ x \in V /\ q \in Seq(V)
        BY <1>1, <3>1
      <4> HIDE DEF k, x, V
      <4>2. /\ [q EXCEPT ![k] = x] \in Seq(V) /\ Len([q EXCEPT ![k] = x]) = Len(q)
            /\ \A j \in 1..Len(q) : [q EXCEPT ![k] = x][j] = IF j = k THEN x ELSE q[j]
        BY <4>1, ExceptSeq
      <4> QED
        BY <4>2 DEF k, x
    <3>4. m[handlers.array] = [q EXCEPT ![n + 1] = nextHID + 1]
      BY <1>1, <3>2, Zenon
    <3>5. \A e \in Emitter : emit[e].slice.array # handlers.array
      BY <3>1 DEF SubsInv, SliceOK
    <3> DEFINE r == [q EXCEPT ![n + 1] = nextHID + 1]
               b == handlers.array
    <3>6. /\ b \in Array /\ b # 0 /\ handlers'.array = b /\ r \in Seq(V) /\ Len(r) = Len(q)
          /\ m = [memory EXCEPT ![b] = r] /\ m[b] = r
          /\ \A j \in 1..Len(q) : r[j] = IF j = n + 1 THEN nextHID + 1 ELSE q[j]
      BY <1>1, <3>1, <3>2, <3>3, <3>4
    <3>7. n \in Nat /\ n < Len(q) /\ Len(q) \in Nat
      BY <1>1, <3>1, LenProperties
    <3> HIDE DEF q, n, m, r, V
    <3>8. m \in [Array -> Seq(V)] /\ \A a \in Array : a # b => m[a] = memory[a]
      BY <1>1, <3>6
    <3>9. n + 1 <= Len(r) /\ (\A i \in 1..n : r[i] = q[i]) /\ r[n + 1] = nextHID + 1
      BY <3>6, <3>7
    <3> QED
      BY <3>5, <3>6, <3>8, <3>9, Zenon
  <2>2. CASE ~Room(handlers)
    <3> DEFINE k == IF n = 0 THEN 0 ELSE n - 1
               el == Elements(memory, handlers)
               new == Append(el, nextHID + 1) \o Zeros(k)
    <3>1. handlers'.array = Free /\ m = [memory EXCEPT ![Free] = new]
      BY <1>1, <1>2, <2>2 DEF Appended, AppendedTo
    <3>2. k \in Nat
      BY <1>1
    <3>3. Zeros(k) \in Seq(V) /\ Len(Zeros(k)) = k
      BY <3>2, ZerosType
    <3>4. el \in Seq(V) /\ Len(el) = n /\ \A i \in 1..n : el[i] = q[i]
      BY ElementsAt DEF At
    <3> HIDE DEF V
    <3> HIDE DEF el, k, q, n, m
    <3>5. /\ new \in Seq(V) /\ Len(new) = n + 1 + k
          /\ \A i \in 1..n : new[i] = q[i]
          /\ new[n + 1] = nextHID + 1
      <4> DEFINE x == nextHID + 1
                 z == Zeros(k)
      <4>1. x \in V /\ z \in Seq(V) /\ Len(z) = k /\ new = Append(el, x) \o z
        BY <1>1, <3>3
      <4> HIDE DEF x, z, new
      <4>2. /\ new \in Seq(V) /\ Len(new) = Len(el) + 1 + Len(z)
            /\ \A i \in 1..Len(el) : new[i] = el[i]
            /\ new[Len(el) + 1] = x
        <5>1. /\ Append(el, x) \o z \in Seq(V)
              /\ Len(Append(el, x) \o z) = Len(el) + 1 + Len(z)
              /\ \A i \in 1..Len(el) : (Append(el, x) \o z)[i] = el[i]
              /\ (Append(el, x) \o z)[Len(el) + 1] = x
          <6>1. el \in Seq(V) /\ x \in V /\ z \in Seq(V)
            BY <3>4, <4>1
          <6> QED
            BY <6>1, Grown
        <5> QED
          BY <4>1, <5>1
      <4> QED
        BY <1>1, <3>2, <3>4, <4>1, <4>2, ZenonT(30) DEF x
    <3> HIDE DEF new
    <3> QED
      BY <1>1, <1>3, <3>1, <3>2, <3>5
  <2> QED
    BY <2>1, <2>2
<1>6. handlers' \in Slice
  BY <1>2, <1>4, <1>5 DEF Appended, Slice
<1> HIDE DEF m, n, q, V
<1>7. /\ memory' \in [Array -> Seq(V)] /\ memory'[0] = <<>>
      /\ memory'[handlers'.array] = m[handlers'.array]
      /\ \A e \in Emitter : memory'[emit[e].slice.array] = memory[emit[e].slice.array]
  <2>1. m \in [Array -> Seq(V)] /\ handlers'.array \in Array /\ handlers'.array # 0
    BY <1>5
  <2>2. m[0] = <<>>
    BY <1>1, <1>5
  <2>3. /\ Collect(m) \in [Array -> Seq(V)] /\ Collect(m)[0] = <<>>
        /\ Collect(m)[handlers'.array] = m[handlers'.array]
        /\ \A e \in Emitter : Collect(m)[emit'[e].slice.array] = m[emit'[e].slice.array]
    BY <1>1, <1>2, <2>1, <2>2, CollectKeeps, ZenonT(30)
  <2>4. \A e \in Emitter : m[emit[e].slice.array] = memory[emit[e].slice.array]
    BY <1>1, <1>5
  <2> QED
    BY <1>2, <2>3, <2>4
<1> QED
  BY <1>1, <1>4, <1>5, <1>6, <1>7, Zenon DEF At, n, q, V

\* The list of handlers, which has no number twice.
LEMMA ListInjective == ASSUME SubsInv PROVE IsInjective(Elements(memory, handlers))
<1>1. \A i, j \in 1..handlers.len : At(memory, handlers, i) = At(memory, handlers, j) => i = j
  BY DEF SubsInv, ListOK, NoRepeat
<1> QED
  BY <1>1, ElementsAt DEF IsInjective

\* A cancel leaves the list of handlers in an array of its own, without the
\* number it cancels, and no Emit sees it.
LEMMA CancelEffect ==
  ASSUME SubsInv, NEW h \in HID, Cancel(h)
  PROVE  /\ handlers' \in Slice /\ handlers'.len <= handlers.len
         /\ memory' \in [Array -> Seq(0..MaxHID)] /\ memory'[0] = <<>>
         /\ memory'[handlers'.array] = Kept(Elements(memory, handlers), h)
         /\ handlers'.len = Len(memory'[handlers'.array])
         /\ \A e \in Emitter : /\ emit[e].slice.array = handlers'.array => handlers'.array = 0
                               /\ memory'[emit[e].slice.array] = memory[emit[e].slice.array]
<1> DEFINE V == 0..MaxHID
           q == Elements(memory, handlers)
           keep == Kept(q, h)
           p == memory[handlers.array]
           m == [Filtered(keep) EXCEPT ![handlers'.array] = keep]
<1>1. /\ handlers.len \in V /\ 0 \in Array
      /\ handlers.array \in Array /\ p \in Seq(V)
      /\ memory \in [Array -> Seq(V)]
      /\ \A e \in Emitter : emit[e].slice.array \in Array
      /\ memory[0] = <<>>
  <2>1. Cardinality(Emitter) \in Nat
    BY SubscriptionAssumption, FS_CardinalityType
  <2> QED
    BY <2>1 DEF SubsInv, SubsTypeOK, ListOK, Slice, EmitState, Array
<1>2. q \in Seq(V) /\ Len(q) = handlers.len /\ IsInjective(q)
  BY ElementsAt, ListInjective
<1>3. memory' = Collect(m) /\ handlers' = Copied(keep) /\ emit' = emit
  BY DEF Cancel
<1>4. keep \in Seq(V) /\ Len(keep) <= Len(q) /\ Len(keep) \in V
  <2>1. keep \in Seq(V) /\ Len(keep) <= Len(q)
    <3> HIDE DEF V, q
    <3> QED
      BY <1>2, KeptType
  <2> HIDE DEF q, keep
  <2>2. Len(keep) \in Nat
    BY <2>1
  <2> QED
    BY <1>1, <1>2, <2>1, <2>2, SubscriptionAssumption
<1>5. /\ Free \in Array /\ Free # 0 /\ Free # handlers.array
      /\ \A e \in Emitter : emit[e].slice.array # Free
  BY FreeExists DEF SubsInv
<1>6. /\ handlers'.array = IF keep = <<>> THEN 0 ELSE Free
      /\ handlers'.len = Len(keep)
      /\ handlers' \in Slice
  <2> HIDE DEF keep
  <2> QED
    BY <1>1, <1>3, <1>4, <1>5 DEF Copied, Slice
<1>7. \A e \in Emitter : emit[e].slice.array = handlers.array => handlers.array = 0
  BY DEF SubsInv, SliceOK
<1>8. keep \o SubSeq(p, Len(keep) + 1, Len(p)) \in Seq(V)
  <2> DEFINE rest == SubSeq(p, Len(keep) + 1, Len(p))
  <2>1. rest \in Seq(V)
    <3> DEFINE k == Len(keep) + 1
               l == Len(p)
    <3>1. k \in Int /\ k >= 1 /\ l \in Int
      BY <1>1, <1>4
    <3>2. \A i \in k..l : p[i] \in V
      <4> HIDE DEF V, keep, p, k
      <4> QED
        BY <1>1, <3>1
    <3> HIDE DEF V, keep, p, k, l
    <3>3. SubSeq(p, k, l) \in Seq(V)
      BY <3>1, <3>2, SubSeqProperties
    <3> QED
      BY <3>3 DEF k, l
  <2> HIDE DEF rest, V, keep
  <2> QED
    BY <1>4, <2>1, ConcatProperties DEF rest
<1>9. handlers.array = 0 => keep = <<>> /\ p = <<>>
  <2>1. ASSUME handlers.array = 0 PROVE handlers.len = 0
    BY <1>1, <2>1 DEF SubsInv, ListOK
  <2> HIDE DEF q, keep
  <2> QED
    BY <1>1, <1>2, <1>4, <2>1
<1>10. /\ m \in [Array -> Seq(V)] /\ m[handlers'.array] = keep /\ m[0] = <<>>
       /\ \A a \in Array : a # handlers.array /\ a # handlers'.array => m[a] = memory[a]
  <2> DEFINE f == keep \o SubSeq(p, Len(keep) + 1, Len(p))
  <2>1. Filtered(keep) = [memory EXCEPT ![handlers.array] = f]
    BY <1>1 DEF Filtered
  <2>2. handlers.array = 0 => f = <<>>
    <3>1. ASSUME keep = <<>>, p = <<>> PROVE f = <<>>
      <4>1. f = <<>> \o SubSeq(<<>>, 1, 0)
        BY <3>1
      <4>2. SubSeq(<<>>, 1, 0) = <<>>
        BY SubSeqEmpty
      <4>3. <<>> \o <<>> = <<>>
        <5>1. <<>> \in Seq({})
          OBVIOUS
        <5> QED
          BY <5>1, ConcatEmptySeq
      <4> QED
        BY <4>1, <4>2, <4>3, Zenon
    <3> QED
      BY <1>9, <3>1
  <2> HIDE DEF f, keep, p, V
  <2> QED
    BY <1>1, <1>4, <1>5, <1>6, <1>8, <2>1, <2>2, Zenon DEF f
<1> HIDE DEF m, V, keep, q, p
<1>11. /\ memory' \in [Array -> Seq(V)] /\ memory'[0] = <<>>
       /\ memory'[handlers'.array] = m[handlers'.array]
       /\ \A e \in Emitter : memory'[emit[e].slice.array] = m[emit[e].slice.array]
  <2>1. handlers'.array \in Array /\ \A e \in Emitter : emit'[e].slice.array \in Array
    BY <1>1, <1>3, <1>5, <1>6
  <2> QED
    BY <1>1, <1>3, <1>10, <2>1, CollectKeeps, ZenonT(30)
<1>12. \A e \in Emitter : m[emit[e].slice.array] = memory[emit[e].slice.array]
  BY <1>1, <1>5, <1>6, <1>7, <1>10, ZenonT(30)
<1> QED
  <2>1. handlers'.len <= handlers.len
    BY <1>2, <1>4, <1>6
  <2>2. memory'[handlers'.array] = keep /\ handlers'.len = Len(memory'[handlers'.array])
    BY <1>6, <1>10, <1>11
  <2>3. \A e \in Emitter : emit[e].slice.array = handlers'.array => handlers'.array = 0
    BY <1>5, <1>6
  <2> QED
    BY <1>6, <1>11, <1>12, <2>1, <2>2, <2>3 DEF V, keep, q

---------------------------------------------------------------------------
(* The invariant is inductive.                                             *)

\* An Emit that does not move keeps what is said of it, as long as its array
\* is left alone.
LEMMA EmitterKept ==
  ASSUME SubsInv, NEW e \in Emitter,
         emit'[e] = emit[e], called'[e] = called[e],
         memory'[emit[e].slice.array] = memory[emit[e].slice.array],
         emit[e].slice.array = handlers'.array => handlers'.array = 0,
         emit[e].pc = "lookup" => /\ stay'[e] \subseteq Members(memory', handlers')
                                  /\ Members(memory', handlers') \subseteq seen'[e],
         emit[e].pc = "start" => stay'[e] \subseteq stay[e] /\ seen[e] \subseteq seen'[e]
  PROVE  SliceOK(e)' /\ WalkOK(e)'
<1>1. SliceOK(e) /\ WalkOK(e)
  BY DEF SubsInv
<1>2. SliceOK(e)'
  BY <1>1 DEF SliceOK
<1>3. /\ Members(memory', emit[e].slice) = Members(memory, emit[e].slice)
      /\ NoRepeat(memory, emit[e].slice) => NoRepeat(memory', emit[e].slice)
  BY DEF Members, NoRepeat, At
<1>4. WalkOK(e)'
  BY <1>1, <1>3 DEF WalkOK
<1> QED
  BY <1>2, <1>4

\* Bounds that every step uses.
LEMMA Bounds ==
  ASSUME SubsInv
  PROVE  /\ MaxHID \in Nat /\ nextHID \in 0..MaxHID /\ 0 \in Array
         /\ handlers \in Slice /\ handlers.len \in Nat /\ handlers.array \in Array
         /\ memory \in [Array -> Seq(0..MaxHID)]
         /\ \A e \in Emitter : /\ emit[e].slice.array \in Array /\ emit[e].slice.len \in Nat
                               /\ emit[e].next \in Nat
<1>1. Cardinality(Emitter) \in Nat
  BY SubscriptionAssumption, FS_CardinalityType
<1> QED
  BY <1>1, SubscriptionAssumption DEF SubsInv, SubsTypeOK, Slice, EmitState, Array

\* Subscribing keeps the invariant.
LEMMA SubscribeKeeps == ASSUME SubsInv, Subscribe PROVE SubsInv'
<1>1. /\ nextHID' = nextHID + 1 /\ nextHID < MaxHID
      /\ UNCHANGED <<emit, running, called, stay>>
      /\ seen' = [e \in Emitter |->
                    IF emit[e].pc = "idle" THEN {} ELSE seen[e] \cup {nextHID + 1}]
  BY DEF Subscribe
<1>2. SubsTypeOK'
  <2>1. nextHID' \in 0..MaxHID /\ nextHID + 1 \in HID
    BY <1>1, Bounds DEF HID
  <2>2. seen' \in [Emitter -> SUBSET HID]
    BY <1>1, <2>1 DEF SubsInv, SubsTypeOK
  <2> QED
    BY <1>1, <2>1, <2>2, SubscribeEffect DEF SubsInv, SubsTypeOK
<1>3. Members(memory', handlers') = Members(memory, handlers) \cup {nextHID + 1}
  <2> DEFINE n == handlers.len
  <2>1. n \in Nat /\ handlers'.len = n + 1
    BY Bounds, SubscribeEffect
  <2>2. /\ \A i \in 1..n : At(memory', handlers', i) = At(memory, handlers, i)
        /\ At(memory', handlers', n + 1) = nextHID + 1
    BY SubscribeEffect
  <2>3. 1..(n + 1) = 1..n \cup {n + 1}
    BY <2>1
  <2> HIDE DEF n
  <2> QED
    BY <2>1, <2>2, <2>3 DEF Members, n
<1>4. ListOK'
  <2>1. Members(memory, handlers) \subseteq 1..nextHID /\ handlers.len <= nextHID
    BY DEF SubsInv, ListOK
  <2>2. Members(memory', handlers') \subseteq 1..nextHID'
    BY <1>1, <1>3, <2>1, Bounds
  <2>3. NoRepeat(memory', handlers')
    <3> DEFINE n == handlers.len
               a(k) == At(memory, handlers, k)
               b(k) == At(memory', handlers', k)
    <3>1. n \in Nat /\ handlers'.len = n + 1 /\ nextHID \in Nat
      BY SubscribeEffect, Bounds
    <3>2. ASSUME NEW k \in 1..n PROVE a(k) \in 1..nextHID
      BY <2>1, <3>2 DEF Members
    <3>3. \A k, l \in 1..n : a(k) = a(l) => k = l
      BY DEF SubsInv, ListOK, NoRepeat
    <3>4. b(n + 1) = nextHID + 1 /\ \A k \in 1..n : b(k) = a(k)
      BY SubscribeEffect
    <3> HIDE DEF n, a, b
    <3>5. \A k \in 1..n : b(k) # nextHID + 1
      BY <3>1, <3>2, <3>4
    <3>6. ASSUME NEW i \in 1..(n + 1), NEW j \in 1..(n + 1), b(i) = b(j) PROVE i = j
      <4>1. i \in 1..n \/ i = n + 1
        BY <3>1
      <4>2. j \in 1..n \/ j = n + 1
        BY <3>1
      <4> QED
        BY <3>3, <3>4, <3>5, <3>6, <4>1, <4>2
    <3> QED
      BY <3>1, <3>6 DEF NoRepeat, n, b
  <2>4. handlers'.len <= nextHID'
    BY <1>1, <2>1, SubscribeEffect, Bounds
  <2> QED
    BY <2>2, <2>3, <2>4, SubscribeEffect DEF ListOK
<1>5. ASSUME NEW e \in Emitter PROVE SliceOK(e)' /\ WalkOK(e)'
  <2>1. emit[e].pc = "lookup" => /\ stay'[e] \subseteq Members(memory', handlers')
                                 /\ Members(memory', handlers') \subseteq seen'[e]
    BY <1>1, <1>3 DEF SubsInv, WalkOK
  <2>2. emit[e].pc = "start" => stay'[e] \subseteq stay[e] /\ seen[e] \subseteq seen'[e]
    BY <1>1
  <2>3. /\ memory'[emit[e].slice.array] = memory[emit[e].slice.array]
        /\ emit[e].slice.array # handlers'.array
    BY SubscribeEffect
  <2> QED
    BY <1>1, <2>1, <2>2, <2>3, EmitterKept
<1> QED
  BY <1>2, <1>4, <1>5 DEF SubsInv

\* A cancel keeps the invariant.
LEMMA CancelKeeps == ASSUME SubsInv, NEW h \in HID, Cancel(h) PROVE SubsInv'
<1> DEFINE q == Elements(memory, handlers)
           keep == Kept(q, h)
<1>1. /\ UNCHANGED <<nextHID, emit, running, called, seen>>
      /\ stay' = [e \in Emitter |-> stay[e] \ {h}]
  BY DEF Cancel
<1>2. SubsTypeOK'
  BY <1>1, CancelEffect DEF SubsInv, SubsTypeOK
<1>3. /\ keep \in Seq(0..MaxHID) /\ IsInjective(keep)
      /\ Range(keep) = Members(memory, handlers) \ {h}
  <2> DEFINE V == 0..MaxHID
  <2>1. q \in Seq(V) /\ IsInjective(q) /\ Range(q) = Members(memory, handlers)
    BY ElementsAt, ListInjective
  <2> HIDE DEF q, V
  <2>2. keep \in Seq(V) /\ IsInjective(keep) /\ Range(keep) = Range(q) \ {h}
    BY <2>1, KeptType
  <2> QED
    BY <2>1, <2>2 DEF V
<1>4. memory'[handlers'.array] = keep /\ handlers'.len = Len(keep)
  BY CancelEffect
<1> HIDE DEF keep
<1>5. DOMAIN keep = 1..handlers'.len
  BY <1>3, <1>4
<1>6. /\ Members(memory', handlers') = Members(memory, handlers) \ {h}
      /\ NoRepeat(memory', handlers')
  <2>1. \A i \in 1..handlers'.len : At(memory', handlers', i) = keep[i]
    BY <1>4 DEF At
  <2>2. Members(memory', handlers') = Range(keep)
    BY <1>5, <2>1 DEF Members, Range
  <2>3. NoRepeat(memory', handlers')
    BY <1>3, <1>5, <2>1 DEF NoRepeat, IsInjective
  <2> QED
    BY <1>3, <2>2, <2>3
<1>7. ListOK'
  <2>1. handlers.len <= nextHID /\ Members(memory, handlers) \subseteq 1..nextHID
    BY DEF SubsInv, ListOK
  <2>2. handlers'.len \in Nat /\ handlers'.len <= handlers.len
    BY CancelEffect DEF Slice
  <2>3. handlers'.len <= nextHID' /\ handlers'.len <= Len(memory'[handlers'.array])
    BY <1>1, <1>4, <2>1, <2>2, Bounds
  <2> QED
    BY <1>1, <1>6, <2>1, <2>3, CancelEffect DEF ListOK
<1>8. ASSUME NEW e \in Emitter PROVE SliceOK(e)' /\ WalkOK(e)'
  <2>1. emit[e].pc = "lookup" => /\ stay'[e] \subseteq Members(memory', handlers')
                                 /\ Members(memory', handlers') \subseteq seen'[e]
    BY <1>1, <1>6 DEF SubsInv, WalkOK
  <2>2. emit[e].pc = "start" => stay'[e] \subseteq stay[e] /\ seen[e] \subseteq seen'[e]
    BY <1>1
  <2>3. /\ memory'[emit[e].slice.array] = memory[emit[e].slice.array]
        /\ emit[e].slice.array = handlers'.array => handlers'.array = 0
    BY CancelEffect
  <2> QED
    BY <1>1, <2>1, <2>2, <2>3, EmitterKept
<1> QED
  BY <1>2, <1>7, <1>8 DEF SubsInv

\* What Emit copies under the read lock: the list of handlers, in an array of
\* its own.
LEMMA LookupEffect ==
  ASSUME SubsInv, NEW e \in Emitter, Lookup(e)
  PROVE  /\ emit'[e].pc = "start" /\ emit'[e].next = 1
         /\ emit'[e].slice \in Slice /\ emit'[e].slice.len = handlers.len
         /\ emit' = [emit EXCEPT ![e] = emit'[e]]
         /\ memory' \in [Array -> Seq(0..MaxHID)] /\ memory'[0] = <<>>
         /\ memory'[emit'[e].slice.array] = Elements(memory, handlers)
         /\ emit'[e].slice.array = handlers.array => handlers.array = 0
         /\ memory'[handlers.array] = memory[handlers.array]
         /\ \A f \in Emitter : memory'[emit[f].slice.array] = memory[emit[f].slice.array]
<1> DEFINE V == 0..MaxHID
           q == Elements(memory, handlers)
           s == Copied(q)
           new == [pc |-> "start", slice |-> s, next |-> 1]
<1>1. /\ emit' = [emit EXCEPT ![e] = new]
      /\ memory' = [memory EXCEPT ![emit'[e].slice.array] = q]
  BY DEF Lookup, Walk
<1>2. q \in Seq(V) /\ Len(q) = handlers.len
  BY ElementsAt
<1>3. /\ Free \in Array /\ Free # 0 /\ Free # handlers.array
      /\ \A f \in Emitter : emit[f].slice.array # Free
  BY FreeExists DEF SubsInv
<1>4. /\ s \in Slice /\ s.len = handlers.len
      /\ s.array = IF q = <<>> THEN 0 ELSE Free
  <2> HIDE DEF q, V
  <2> QED
    BY <1>2, <1>3, Bounds DEF Copied, Slice
<1>5. emit'[e] = new
  BY <1>1 DEF SubsInv, SubsTypeOK
<1>6. emit'[e].pc = "start" /\ emit'[e].next = 1 /\ emit'[e].slice = s
  <2> HIDE DEF s
  <2> QED
    BY <1>5
<1> HIDE DEF new, s, q, V
<1>7. memory[0] = <<>> /\ 0 \in Array /\ memory \in [Array -> Seq(V)]
  BY Bounds DEF SubsInv, ListOK, V
<1>8. /\ memory' \in [Array -> Seq(V)] /\ memory'[s.array] = q
      /\ \A a \in Array : a # Free => memory'[a] = memory[a]
  <2>1. memory' = [memory EXCEPT ![s.array] = q]
    BY <1>1, <1>6, Zenon
  <2> QED
    BY <1>2, <1>3, <1>4, <1>7, <2>1
<1>9. emit' = [emit EXCEPT ![e] = emit'[e]]
  BY <1>1, <1>5, ZenonT(30)
<1> QED
  BY <1>3, <1>4, <1>6, <1>7, <1>8, <1>9, Bounds DEF q, V

\* The copy keeps the invariant.
LEMMA LookupKeeps == ASSUME SubsInv, NEW e \in Emitter, Lookup(e) PROVE SubsInv'
<1> DEFINE s == emit'[e].slice
<1>1. UNCHANGED <<handlers, nextHID, running, called, stay, seen>> /\ emit[e].pc = "lookup"
  BY DEF Lookup
<1>2. /\ emit'[e].pc = "start" /\ emit'[e].next = 1 /\ s \in Slice /\ s.len = handlers.len
      /\ \A f \in Emitter : f # e => emit'[f] = emit[f]
  <2>1. \A f \in Emitter : f # e => emit'[f] = emit[f]
    BY DEF Lookup, Walk, SubsInv, SubsTypeOK
  <2> QED
    BY <2>1, LookupEffect
<1>3. SubsTypeOK'
  <2>1. emit' \in [Emitter -> EmitState]
    <3>1. emit'[e] \in EmitState
      <4>1. emit'[e] = [pc |-> "start", slice |-> Copied(Elements(memory, handlers)), next |-> 1]
        BY DEF Lookup, Walk, SubsInv, SubsTypeOK
      <4>2. emit'[e].slice = Copied(Elements(memory, handlers))
        BY <4>1
      <4>3. 1 \in 1..(MaxHID + 1)
        BY Bounds
      <4> HIDE DEF s
      <4> QED
        BY <1>2, <4>1, <4>2, <4>3 DEF EmitState, s
    <3> QED
      BY <3>1, LookupEffect, ZenonT(30) DEF SubsInv, SubsTypeOK
  <2> QED
    BY <1>1, <2>1, LookupEffect DEF SubsInv, SubsTypeOK
<1>4. /\ Members(memory', handlers) = Members(memory, handlers)
      /\ NoRepeat(memory', handlers)
  BY LookupEffect DEF SubsInv, ListOK, Members, NoRepeat, At
<1>5. ListOK'
  BY <1>1, <1>4, LookupEffect DEF SubsInv, ListOK
<1>6. ASSUME NEW f \in Emitter, f # e PROVE SliceOK(f)' /\ WalkOK(f)'
  <2>1. emit'[f] = emit[f]
    BY <1>2, <1>6
  <2>2. emit[f].pc = "lookup" => /\ stay'[f] \subseteq Members(memory', handlers')
                                 /\ Members(memory', handlers') \subseteq seen'[f]
    BY <1>1, <1>4 DEF SubsInv, WalkOK
  <2>3. /\ memory'[emit[f].slice.array] = memory[emit[f].slice.array]
        /\ emit[f].slice.array = handlers'.array => handlers'.array = 0
    BY <1>1, LookupEffect DEF SubsInv, SliceOK
  <2> QED
    BY <1>1, <2>1, <2>2, <2>3, EmitterKept
<1>7. SliceOK(e)' /\ WalkOK(e)'
  <2>1. /\ memory'[s.array] = Elements(memory, handlers)
        /\ s.array = handlers.array => handlers.array = 0
    BY LookupEffect
  <2>2. \A i \in 1..s.len : At(memory', s, i) = At(memory, handlers, i)
    BY <1>2, <2>1, ElementsAt DEF At
  <2>3. Members(memory', s) = Members(memory, handlers) /\ NoRepeat(memory', s)
    <3> HIDE DEF s
    <3> QED
      BY <1>2, <2>2 DEF SubsInv, ListOK, Members, NoRepeat
  <2>4. s.len = Len(memory'[s.array])
    BY <1>2, <2>1, ElementsAt
  <2>5. handlers.len \in Nat
    BY Bounds
  <2>6. SliceOK(e)'
    BY <1>1, <1>2, <2>1, <2>4, <2>5 DEF SliceOK
  <2>7. called'[e] = <<>>
    BY <1>1 DEF SubsInv, WalkOK
  <2>8. SubSeq(memory'[s.array], 1, emit'[e].next - 1) = <<>>
    <3> DEFINE p == memory'[s.array]
    <3>1. SubSeq(p, 1, 0) = <<>>
      <4> HIDE DEF p
      <4> QED
        BY SubSeqEmpty
    <3> QED
      BY <1>2, <3>1
  <2>9. stay'[e] \subseteq Members(memory', s) /\ Members(memory', s) \subseteq seen'[e]
    BY <1>1, <2>3 DEF SubsInv, WalkOK
  <2>10. emit'[e].next <= s.len + 1
    BY <1>2, <2>5
  <2>11. emit'[e].slice = s /\ emit'[e].pc = "start"
    BY <1>2
  <2>12. WalkOK(e)'
    <3> HIDE DEF s
    <3> QED
      BY <2>3, <2>7, <2>8, <2>9, <2>10, <2>11, Zenon DEF WalkOK
  <2> QED
    BY <2>6, <2>12
<1> QED
  BY <1>3, <1>5, <1>6, <1>7 DEF SubsInv

\* Calling Emit keeps the invariant.
LEMMA CallKeeps == ASSUME SubsInv, NEW e \in Emitter, Call(e) PROVE SubsInv'
<1>1. /\ UNCHANGED <<memory, handlers, nextHID, running, called>>
      /\ emit[e].pc = "idle" /\ emit' = [emit EXCEPT ![e].pc = "lookup"]
      /\ stay' = [stay EXCEPT ![e] = Subscribed] /\ seen' = [seen EXCEPT ![e] = Subscribed]
  BY DEF Call
<1>2. /\ emit'[e].pc = "lookup" /\ emit'[e].slice = emit[e].slice
      /\ emit'[e].next = emit[e].next /\ emit'[e] \in EmitState
      /\ emit' \in [Emitter -> EmitState]
      /\ \A f \in Emitter : f # e => emit'[f] = emit[f]
  BY <1>1, ZenonT(30) DEF SubsInv, SubsTypeOK, EmitState
<1>3. Subscribed = Members(memory, handlers) /\ Subscribed \subseteq HID
  <2>1. Subscribed = Members(memory, handlers)
    BY ElementsAt DEF Subscribed
  <2>2. 1..nextHID \subseteq HID
    BY Bounds DEF HID
  <2> QED
    BY <2>1, <2>2 DEF SubsInv, ListOK
<1>4. /\ stay' \in [Emitter -> SUBSET HID] /\ seen' \in [Emitter -> SUBSET HID]
      /\ stay'[e] = Subscribed /\ seen'[e] = Subscribed
      /\ \A f \in Emitter : f # e => stay'[f] = stay[f] /\ seen'[f] = seen[f]
  BY <1>1, <1>3 DEF SubsInv, SubsTypeOK
<1>5. SubsTypeOK' /\ ListOK'
  BY <1>1, <1>2, <1>4 DEF SubsInv, SubsTypeOK, ListOK
<1>6. ASSUME NEW f \in Emitter, f # e PROVE SliceOK(f)' /\ WalkOK(f)'
  <2>1. SliceOK(f) /\ WalkOK(f)
    BY DEF SubsInv
  <2> QED
    BY <1>1, <1>2, <1>4, <1>6, <2>1 DEF SliceOK, WalkOK
<1>7. SliceOK(e)' /\ WalkOK(e)'
  <2>1. SliceOK(e) /\ WalkOK(e)
    BY DEF SubsInv
  <2> QED
    BY <1>1, <1>2, <1>3, <1>4, <2>1 DEF SliceOK, WalkOK
<1> QED
  BY <1>5, <1>6, <1>7 DEF SubsInv

\* Starting a handler keeps the invariant.
LEMMA StartKeeps == ASSUME SubsInv, NEW e \in Emitter, StartHandler(e) PROVE SubsInv'
<1> DEFINE s == emit[e].slice
           n == emit[e].next
           p == memory[s.array]
<1>1. /\ UNCHANGED <<memory, handlers, nextHID, stay, seen>>
      /\ emit[e].pc = "start" /\ n <= s.len
      /\ emit' = [emit EXCEPT ![e].next = n + 1]
      /\ called' = [called EXCEPT ![e] = Append(called[e], p[n])]
      /\ running' = running \cup {e}
  BY DEF StartHandler
<1>2. SliceOK(e) /\ WalkOK(e)
  BY DEF SubsInv
<1>3. /\ n \in 1..(MaxHID + 1) /\ s \in Slice /\ s.len \in 0..MaxHID /\ s.len <= Len(p)
      /\ p \in Seq(0..MaxHID) /\ MaxHID \in Nat
  BY <1>2, Bounds DEF SubsInv, SubsTypeOK, EmitState, Slice, SliceOK
<1>4. /\ emit'[e].pc = "start" /\ emit'[e].slice = s
      /\ emit'[e].next = n + 1 /\ emit' \in [Emitter -> EmitState]
      /\ \A f \in Emitter : f # e => emit'[f] = emit[f]
  <2>1. n + 1 \in 1..(MaxHID + 1)
    BY <1>1, <1>3
  <2> HIDE DEF n
  <2> QED
    BY <1>1, <2>1, ZenonT(30) DEF SubsInv, SubsTypeOK, EmitState
<1>5. p[n] \in HID
  <2>1. At(memory, s, n) \in Members(memory, s)
    BY <1>1, <1>3 DEF Members
  <2> QED
    BY <1>1, <1>2, <2>1 DEF WalkOK, At, SubsInv, SubsTypeOK
<1>6. /\ called' \in [Emitter -> Seq(HID)] /\ called'[e] = Append(called[e], p[n])
      /\ \A f \in Emitter : f # e => called'[f] = called[f]
  <2>1. Append(called[e], p[n]) \in Seq(HID)
    BY <1>5, AppendProperties, ZenonT(30) DEF SubsInv, SubsTypeOK
  <2> HIDE DEF p, n
  <2> QED
    BY <1>1, <2>1 DEF SubsInv, SubsTypeOK
<1>7. SubsTypeOK' /\ ListOK'
  BY <1>1, <1>4, <1>6 DEF SubsInv, SubsTypeOK, ListOK
<1>8. ASSUME NEW f \in Emitter, f # e PROVE SliceOK(f)' /\ WalkOK(f)'
  <2>1. SliceOK(f) /\ WalkOK(f)
    BY DEF SubsInv
  <2> QED
    BY <1>1, <1>4, <1>6, <1>8, <2>1, ZenonT(30) DEF SliceOK, WalkOK
<1>9. called'[e] = SubSeq(p, 1, n)
  <2> DEFINE V == 0..MaxHID
  <2>1. called[e] = SubSeq(p, 1, n - 1)
    BY <1>1, <1>2 DEF WalkOK
  <2>2. n \in 1..Len(p) /\ 1 \in 1..Len(p)
    BY <1>1, <1>3
  <2>10. p \in Seq(V)
    BY <1>3
  <2> HIDE DEF p, n, V
  <2>3. p \in Seq(V) /\ p[n] \in V
    BY <2>10, <2>2, ElementOfSeq
  <2>4. n \in Nat /\ n >= 1 /\ n - 1 \in 0..Len(p) /\ n \in 0..Len(p)
    BY <2>2
  <2>5. /\ SubSeq(p, 1, n - 1) \in Seq(V) /\ Len(SubSeq(p, 1, n - 1)) = n - 1
        /\ \A i \in 1..(n - 1) : SubSeq(p, 1, n - 1)[i] = p[i]
    BY <2>3, <2>4, FrontAt
  <2>6. /\ SubSeq(p, 1, n) \in Seq(V) /\ Len(SubSeq(p, 1, n)) = n
        /\ \A i \in 1..n : SubSeq(p, 1, n)[i] = p[i]
    BY <2>3, <2>4, FrontAt
  <2>7. /\ called'[e] \in Seq(V) /\ Len(called'[e]) = n
        /\ \A i \in 1..(n - 1) : called'[e][i] = p[i]
        /\ called'[e][n] = p[n]
    <3> DEFINE c == SubSeq(p, 1, n - 1)
               x == p[n]
    <3>1. c \in Seq(V) /\ x \in V /\ called'[e] = Append(c, x)
      BY <1>6, <2>1, <2>3, <2>5
    <3>2. Len(c) = n - 1 /\ \A i \in 1..(n - 1) : c[i] = p[i]
      BY <2>5
    <3> HIDE DEF c, x
    <3>3. /\ Append(c, x) \in Seq(V) /\ Len(Append(c, x)) = Len(c) + 1
          /\ \A i \in 1..Len(c) : Append(c, x)[i] = c[i]
          /\ Append(c, x)[Len(c) + 1] = x
      BY <3>1, AppendProperties
    <3>4. Len(c) + 1 = n
      BY <2>4, <3>2
    <3> QED
      BY <3>1, <3>2, <3>3, <3>4 DEF x
  <2>8. \A i \in 1..n : called'[e][i] = SubSeq(p, 1, n)[i]
    BY <2>4, <2>6, <2>7
  <2> QED
    BY <2>6, <2>7, <2>8, SeqEqual
<1>10. SliceOK(e)' /\ WalkOK(e)'
  <2>1. n + 1 <= s.len + 1 /\ (n + 1) - 1 = n
    BY <1>1, <1>3
  <2> QED
    BY <1>1, <1>2, <1>4, <1>9, <2>1, Zenon DEF SliceOK, WalkOK
<1> QED
  BY <1>7, <1>8, <1>10 DEF SubsInv

\* Returning frees the copy and leaves the other arrays as they were.
LEMMA ReturnEffect ==
  ASSUME SubsInv, NEW e \in Emitter, Return(e)
  PROVE  /\ emit'[e] = Quiet /\ emit' \in [Emitter -> EmitState]
         /\ \A f \in Emitter : f # e => emit'[f] = emit[f]
         /\ memory' \in [Array -> Seq(0..MaxHID)] /\ memory'[0] = <<>>
         /\ memory'[handlers.array] = memory[handlers.array]
         /\ \A f \in Emitter : f # e =>
              memory'[emit[f].slice.array] = memory[emit[f].slice.array]
<1> DEFINE V == 0..MaxHID
<1>1. memory' = Collect(memory) /\ emit' = [emit EXCEPT ![e] = Quiet] /\ handlers' = handlers
  BY DEF Return
<1>2. Quiet \in EmitState
  <2>1. Nil \in Slice
    BY Bounds DEF Nil, Slice
  <2> QED
    BY <2>1, Bounds DEF Quiet, EmitState
<1>3. /\ emit'[e] = Quiet /\ emit' \in [Emitter -> EmitState]
      /\ \A f \in Emitter : f # e => emit'[f] = emit[f]
  BY <1>1, <1>2 DEF SubsInv, SubsTypeOK
<1>4. /\ memory \in [Array -> Seq(V)] /\ memory[0] = <<>> /\ 0 \in Array
      /\ handlers.array \in Array
      /\ \A f \in Emitter : emit[f].slice.array \in Array
  BY Bounds DEF SubsInv, ListOK
<1> HIDE DEF V
<1>5. /\ memory' \in [Array -> Seq(V)] /\ memory'[0] = <<>>
      /\ memory'[handlers.array] = memory[handlers.array]
      /\ \A f \in Emitter : f # e =>
           memory'[emit[f].slice.array] = memory[emit[f].slice.array]
  <2>1. memory' \in [Array -> Seq(V)] /\ memory'[0] = <<>>
    BY <1>1, <1>4, CollectKeeps
  <2>2. memory'[handlers.array] = memory[handlers.array]
    BY <1>1, <1>4, CollectKeeps
  <2>3. ASSUME NEW f \in Emitter, f # e
        PROVE  memory'[emit[f].slice.array] = memory[emit[f].slice.array]
    <3>1. emit'[f] = emit[f] /\ emit[f].slice.array \in Array
      BY <1>3, <1>4, <2>3
    <3> QED
      BY <1>1, <1>4, <3>1, CollectKeeps
  <2> QED
    BY <2>1, <2>2, <2>3
<1> QED
  BY <1>3, <1>5 DEF V

\* Returning keeps the invariant.
LEMMA ReturnKeeps == ASSUME SubsInv, NEW e \in Emitter, Return(e) PROVE SubsInv'
<1>1. /\ UNCHANGED <<handlers, nextHID, running>>
      /\ called' = [called EXCEPT ![e] = <<>>]
      /\ stay' = [stay EXCEPT ![e] = {}] /\ seen' = [seen EXCEPT ![e] = {}]
  BY DEF Return
<1>2. SubsTypeOK'
  <2>1. <<>> \in Seq(HID)
    OBVIOUS
  <2> QED
    BY <1>1, <2>1, ReturnEffect DEF SubsInv, SubsTypeOK
<1>3. /\ Members(memory', handlers) = Members(memory, handlers)
      /\ NoRepeat(memory', handlers)
  BY ReturnEffect DEF SubsInv, ListOK, Members, NoRepeat, At
<1>4. ListOK'
  BY <1>1, <1>3, ReturnEffect DEF SubsInv, ListOK
<1>5. ASSUME NEW f \in Emitter, f # e PROVE SliceOK(f)' /\ WalkOK(f)'
  <2>1. emit'[f] = emit[f] /\ memory'[emit[f].slice.array] = memory[emit[f].slice.array]
    BY <1>5, ReturnEffect
  <2>2. called'[f] = called[f] /\ stay'[f] = stay[f] /\ seen'[f] = seen[f]
    BY <1>1, <1>5 DEF SubsInv, SubsTypeOK
  <2>3. emit[f].pc = "lookup" => /\ stay'[f] \subseteq Members(memory', handlers')
                                 /\ Members(memory', handlers') \subseteq seen'[f]
    BY <1>1, <1>3, <2>2 DEF SubsInv, WalkOK
  <2>4. emit[f].slice.array = handlers'.array => handlers'.array = 0
    BY <1>1 DEF SubsInv, SliceOK
  <2> QED
    BY <2>1, <2>2, <2>3, <2>4, EmitterKept
<1>6. SliceOK(e)' /\ WalkOK(e)'
  <2>1. /\ emit'[e].pc = "idle" /\ emit'[e].slice = Nil /\ emit'[e].next = 1
        /\ emit'[e].slice.array = 0 /\ emit'[e].slice.len = 0
    BY ReturnEffect DEF Quiet, Nil
  <2>2. called'[e] = <<>>
    BY <1>1 DEF SubsInv, SubsTypeOK
  <2>3. Len(memory'[0]) = 0
    BY ReturnEffect
  <2> QED
    BY <1>1, <2>1, <2>2, <2>3 DEF SliceOK, WalkOK
<1> QED
  BY <1>2, <1>4, <1>5, <1>6 DEF SubsInv

\* Every step keeps the invariant.
LEMMA SubsStep == ASSUME SubsInv, [SubsNext]_subsVars PROVE SubsInv'
<1>1. ASSUME NEW e \in Emitter, HandlersEnd(e) PROVE SubsInv'
  BY <1>1 DEF HandlersEnd, SubsInv, SubsTypeOK, ListOK, SliceOK, WalkOK
<1>2. CASE UNCHANGED subsVars
  BY <1>2 DEF subsVars, SubsInv, SubsTypeOK, ListOK, SliceOK, WalkOK
<1> QED
  BY <1>1, <1>2, SubscribeKeeps, CancelKeeps, CallKeeps, LookupKeeps, StartKeeps, ReturnKeeps
  DEF SubsNext, EmitStep

\* It holds to begin with.
LEMMA SubsStart == SubsInit => SubsInv
<1> SUFFICES ASSUME SubsInit PROVE SubsInv
  OBVIOUS
<1>1. Cardinality(Emitter) \in Nat /\ MaxHID \in Nat
  BY SubscriptionAssumption, FS_CardinalityType
<1>2. 0 \in Array /\ Nil \in Slice /\ <<>> \in Seq(0..MaxHID) /\ <<>> \in Seq(HID)
  BY <1>1 DEF Array, Nil, Slice
<1>3. Quiet \in EmitState
  BY <1>1, <1>2 DEF Quiet, EmitState
<1>4. SubsTypeOK
  BY <1>1, <1>2, <1>3 DEF SubsInit, SubsTypeOK
<1>5. ListOK
  <2>1. handlers.len = 0 /\ handlers.array = 0 /\ nextHID = 0 /\ memory[0] = <<>>
    BY <1>2 DEF SubsInit, Nil
  <2>2. Members(memory, handlers) = {} /\ NoRepeat(memory, handlers)
    BY <2>1 DEF Members, NoRepeat
  <2> QED
    BY <2>1, <2>2 DEF ListOK
<1>6. ASSUME NEW e \in Emitter PROVE SliceOK(e) /\ WalkOK(e)
  <2>1. /\ emit[e].pc = "idle" /\ emit[e].slice = Nil /\ emit[e].next = 1
        /\ emit[e].slice.array = 0 /\ emit[e].slice.len = 0
        /\ called[e] = <<>> /\ memory[0] = <<>> /\ handlers.array = 0
    BY <1>2 DEF SubsInit, Quiet, Nil
  <2> QED
    BY <2>1 DEF SliceOK, WalkOK
<1> QED
  BY <1>4, <1>5, <1>6 DEF SubsInv

\* An Emit that is done has started what was subscribed from its call on, and
\* nothing twice.
LEMMA DoneComplete == SubsInv => EmitComplete
<1> SUFFICES ASSUME SubsInv, NEW e \in Emitter, Done(e)
             PROVE  /\ stay[e] \subseteq Range(called[e]) /\ Range(called[e]) \subseteq seen[e]
                    /\ IsInjective(called[e])
  BY DEF EmitComplete
<1> DEFINE s == emit[e].slice
           p == memory[s.array]
           n == s.len
<1>1. SliceOK(e) /\ WalkOK(e) /\ emit[e].pc = "start" /\ emit[e].next > n
  BY DEF SubsInv, Done
<1>2. n \in Nat /\ emit[e].next \in Nat /\ p \in Seq(0..MaxHID) /\ n <= Len(p)
  BY <1>1, Bounds DEF SliceOK
<1>9. emit[e].next <= n + 1
  BY <1>1 DEF WalkOK
<1>3. emit[e].next - 1 = n
  <2> HIDE DEF n
  <2> QED
    BY <1>1, <1>2, <1>9
<1>4. called[e] = SubSeq(p, 1, n)
  BY <1>1, <1>3 DEF WalkOK
<1>5. DOMAIN called[e] = 1..n /\ \A i \in 1..n : called[e][i] = p[i]
  <2> DEFINE V == 0..MaxHID
  <2>1. p \in Seq(V) /\ n \in 0..Len(p)
    BY <1>2
  <2> HIDE DEF V, p, n
  <2> QED
    BY <1>4, <2>1, FrontAt
<1>6. Range(called[e]) = Members(memory, s)
  BY <1>5 DEF Range, Members, At
<1>7. IsInjective(called[e])
  <2>1. \A i, j \in 1..n : p[i] = p[j] => i = j
    BY <1>1 DEF WalkOK, NoRepeat, At
  <2> HIDE DEF p, n
  <2> QED
    BY <1>5, <2>1 DEF IsInjective
<1> QED
  BY <1>1, <1>6, <1>7 DEF WalkOK

---------------------------------------------------------------------------
(* The slices implement the event bus, step by step.                       *)

List == Elements(memory, handlers)
Rest(e) == SubSeq(memory[emit[e].slice.array], emit[e].next, emit[e].slice.len)
Todo == [e \in Emitter |-> Rest(e)]

\* What is not started and not referred to has nothing left to start.
LEMMA RestEmpty ==
  SubsInv => \A e \in Emitter :
               (emit[e].pc # "start" \/ emit[e].next > emit[e].slice.len) => Rest(e) = <<>>
<1> SUFFICES ASSUME SubsInv, NEW e \in Emitter,
                    emit[e].pc # "start" \/ emit[e].next > emit[e].slice.len
             PROVE  Rest(e) = <<>>
  OBVIOUS
<1> DEFINE p == memory[emit[e].slice.array]
           n == emit[e].next
           l == emit[e].slice.len
<1>1. n \in Int /\ l \in Int
  BY Bounds
<1>2. l < n
  <2>1. emit[e].pc # "start" => n = 1 /\ l = 0
    BY DEF SubsInv, SliceOK, Nil
  <2> QED
    BY <1>1, <2>1
<1> HIDE DEF p, n, l
<1>3. SubSeq(p, n, l) = <<>>
  BY <1>1, <1>2, SubSeqEmpty
<1> QED
  BY <1>3 DEF Rest, p, n, l

\* And so in the next state.
LEMMA RestEmptyNext ==
  SubsInv' => (\A e \in Emitter :
               (emit[e].pc # "start" \/ emit[e].next > emit[e].slice.len) => Rest(e) = <<>>)'
  BY RestEmpty, PTL

\* An Emit that does not move, and whose array is left alone, has the same left.
LEMMA RestKept ==
  ASSUME NEW e \in Emitter, emit'[e] = emit[e],
         memory'[emit[e].slice.array] = memory[emit[e].slice.array]
  PROVE  Rest(e)' = Rest(e)
  BY DEF Rest

\* Subscribe subscribes.
LEMMA SubscribeRefines ==
  ASSUME SubsInv, SubsInv', Subscribe
  PROVE  List' = Append(List, nextHID + 1) /\ Todo' = Todo
<1> DEFINE V == 0..MaxHID
           n == handlers.len
           x == nextHID + 1
           p == memory'[handlers'.array]
<1>1. /\ n \in Nat /\ handlers'.len = n + 1 /\ x \in V /\ p \in Seq(V) /\ n + 1 <= Len(p)
      /\ \A i \in 1..n : p[i] = At(memory, handlers, i)
      /\ p[n + 1] = x
  <2>1. x \in V
    BY Bounds DEF Subscribe
  <2> QED
    BY <2>1, Bounds, SubscribeEffect DEF At, Slice
<1>2. List \in Seq(V) /\ Len(List) = n /\ \A i \in 1..n : List[i] = At(memory, handlers, i)
  BY ElementsAt DEF List
<1>3. List' = SubSeq(p, 1, n + 1)
  BY <1>1 DEF List, Elements
<1> HIDE DEF V, n, x, p
<1>4. /\ Append(List, x) \in Seq(V) /\ Len(Append(List, x)) = n + 1
      /\ \A i \in 1..n : Append(List, x)[i] = List[i]
      /\ Append(List, x)[n + 1] = x
  BY <1>1, <1>2, AppendProperties
<1>5. /\ SubSeq(p, 1, n + 1) \in Seq(V) /\ Len(SubSeq(p, 1, n + 1)) = n + 1
      /\ \A i \in 1..(n + 1) : SubSeq(p, 1, n + 1)[i] = p[i]
  <2>1. n + 1 \in 0..Len(p)
    BY <1>1
  <2> QED
    BY <1>1, <2>1, FrontAt
<1>6. \A i \in 1..(n + 1) : SubSeq(p, 1, n + 1)[i] = Append(List, x)[i]
  BY <1>1, <1>2, <1>4, <1>5
<1>7. SubSeq(p, 1, n + 1) = Append(List, x)
  BY <1>4, <1>5, <1>6, SeqEqual
<1>8. ASSUME NEW e \in Emitter PROVE Rest(e)' = Rest(e)
  BY SubscribeEffect, RestKept DEF Subscribe
<1> QED
  BY <1>3, <1>7, <1>8, ZenonT(30) DEF x, Todo

\* Cancel takes the subscription off the list, or finds that it is not there.
LEMMA CancelRefines ==
  ASSUME SubsInv, NEW h \in HID, Cancel(h)
  PROVE  /\ \/ List' = List
            \/ \E i \in DOMAIN List : List[i] = h /\ List' = RemoveAt(List, i)
         /\ Todo' = Todo
<1> DEFINE V == 0..MaxHID
           keep == Kept(List, h)
<1>1. List \in Seq(V) /\ IsInjective(List)
  BY ElementsAt, ListInjective DEF List
<1>2. memory'[handlers'.array] = keep /\ handlers'.len = Len(keep)
  BY CancelEffect DEF List
<1> HIDE DEF V
<1>3. /\ keep \in Seq(V)
      /\ keep = List \/ \E i \in DOMAIN List : List[i] = h /\ keep = RemoveAt(List, i)
  BY <1>1, KeptType
<1> HIDE DEF keep
<1>4. List' = SubSeq(keep, 1, Len(keep))
  BY <1>2 DEF List, Elements
<1>5. List' = keep
  BY <1>3, <1>4, SubSeqFull
<1>6. ASSUME NEW e \in Emitter PROVE Rest(e)' = Rest(e)
  BY CancelEffect, RestKept, Zenon DEF Cancel
<1> QED
  BY <1>3, <1>5, <1>6 DEF Todo

\* The copy is the snapshot that Emit starts from.
LEMMA LookupRefines ==
  ASSUME SubsInv, NEW e \in Emitter, Lookup(e)
  PROVE  List' = List /\ Todo[e] = <<>> /\ Todo' = [Todo EXCEPT ![e] = List]
<1>1. List' = List
  BY LookupEffect, Zenon DEF List, Elements, Lookup
<1>2. Rest(e) = <<>>
  BY RestEmpty, ZenonT(30) DEF Lookup
<1>3. Rest(e)' = List
  <2> DEFINE V == 0..MaxHID
  <2>1. List \in Seq(V) /\ Len(List) = handlers.len
    BY ElementsAt DEF List
  <2>2. Rest(e)' = SubSeq(List, 1, Len(List))
    BY <2>1, LookupEffect DEF Rest, List
  <2> HIDE DEF V
  <2> QED
    BY <2>1, <2>2, SubSeqFull
<1>4. ASSUME NEW f \in Emitter, f # e PROVE Rest(f)' = Rest(f)
  <2>1. emit'[f] = emit[f]
    BY <1>4 DEF Lookup, Walk, SubsInv, SubsTypeOK
  <2> QED
    BY <2>1, LookupEffect, RestKept
<1> QED
  BY <1>1, <1>2, <1>3, <1>4, ZenonT(30) DEF Todo

\* Every handler that is started is the first of those left.
LEMMA StartRefines ==
  ASSUME SubsInv, NEW e \in Emitter, StartHandler(e)
  PROVE  List' = List /\ Todo[e] # <<>> /\ Todo' = [Todo EXCEPT ![e] = Tail(Todo[e])]
<1> DEFINE V == 0..MaxHID
           p == memory[emit[e].slice.array]
           n == emit[e].next
           l == emit[e].slice.len
<1>1. List' = List
  BY DEF List, Elements, StartHandler
<1>2. /\ n \in 1..Len(p) /\ l \in n..Len(p) /\ p \in Seq(V) /\ n <= l
      /\ n \in Int /\ l \in Int
  <2>1. n \in 1..(MaxHID + 1) /\ n <= l /\ l <= Len(p)
    BY DEF SubsInv, SubsTypeOK, EmitState, StartHandler, SliceOK
  <2>2. MaxHID \in Nat /\ p \in Seq(V) /\ l \in Nat /\ n \in Nat
    BY Bounds
  <2>3. Len(p) \in Nat
    BY <2>2, LenProperties
  <2> HIDE DEF V, p, n, l
  <2> QED
    BY <2>1, <2>2, <2>3
<1>3. /\ emit'[e].slice = emit[e].slice /\ emit'[e].next = n + 1 /\ memory' = memory
      /\ \A f \in Emitter : f # e => emit'[f] = emit[f]
  BY DEF StartHandler, SubsInv, SubsTypeOK, EmitState
<1>4. Rest(e) = SubSeq(p, n, l) /\ Rest(e)' = SubSeq(p, n + 1, l)
  BY <1>3 DEF Rest
<1> HIDE DEF V, p, n, l
<1>5. Tail(SubSeq(p, n, l)) = SubSeq(p, n + 1, l)
  BY <1>2, HeadTailOfSubSeq
<1>6. SubSeq(p, n, l) # <<>>
  <2>1. \A i \in n..l : p[i] \in V
    BY <1>2
  <2>2. Len(SubSeq(p, n, l)) = l - n + 1
    BY <1>2, <2>1, SubSeqProperties
  <2> QED
    BY <1>2, <2>2
<1>7. ASSUME NEW f \in Emitter, f # e PROVE Rest(f)' = Rest(f)
  BY <1>3, <1>7, RestKept
<1> QED
  BY <1>1, <1>4, <1>5, <1>6, <1>7, ZenonT(30) DEF Todo

\* The other steps are not seen.
LEMMA OthersRefine ==
  ASSUME SubsInv, SubsInv', NEW e \in Emitter, Call(e) \/ Return(e) \/ HandlersEnd(e)
  PROVE  List' = List /\ Todo' = Todo
<1>1. CASE Call(e)
  <2>1. emit' = [emit EXCEPT ![e].pc = "lookup"] /\ memory' = memory /\ handlers' = handlers
    BY <1>1 DEF Call
  <2>2. \A f \in Emitter : emit'[f].slice = emit[f].slice /\ emit'[f].next = emit[f].next
    BY <2>1 DEF SubsInv, SubsTypeOK, EmitState
  <2>3. List' = List
    BY <2>1 DEF List, Elements
  <2>4. ASSUME NEW f \in Emitter PROVE Rest(f)' = Rest(f)
    BY <2>1, <2>2, Zenon DEF Rest
  <2> QED
    BY <2>3, <2>4 DEF Todo
<1>2. CASE Return(e)
  <2>1. List' = List
    BY <1>2, ReturnEffect, ZenonT(30) DEF List, Elements, Return
  <2>2. Rest(e) = <<>>
    BY <1>2, RestEmpty DEF Return, Done
  <2>3. Rest(e)' = <<>>
    <3>1. emit'[e].pc # "start"
      BY <1>2, ReturnEffect DEF Quiet
    <3> QED
      BY <3>1, RestEmptyNext
  <2>4. ASSUME NEW f \in Emitter, f # e PROVE Rest(f)' = Rest(f)
    BY <1>2, <2>4, ReturnEffect, RestKept
  <2> QED
    BY <2>1, <2>2, <2>3, <2>4 DEF Todo
<1>3. CASE HandlersEnd(e)
  BY <1>3 DEF HandlersEnd, List, Elements, Todo, Rest
<1> QED
  BY <1>1, <1>2, <1>3

\* Every step is one of the event bus, or none.
LEMMA StepRefines ==
  ASSUME SubsInv, SubsInv', [SubsNext]_subsVars
  PROVE  [Events!Next]_Events!vars
<1>1. Events!vars = <<List, nextHID, Todo>>
  BY DEF Events!vars, List, Todo, Rest
<1>2. CASE Subscribe
  <2>1. Events!Subscribe
    BY <1>2, SubscribeRefines, ZenonT(30) DEF Events!Subscribe, Subscribe, List, Todo, Rest
  <2> QED
    BY <2>1 DEF Events!Next
<1>3. ASSUME NEW h \in HID, Cancel(h) PROVE [Events!Next]_Events!vars
  <2>1. nextHID' = nextHID
    BY <1>3 DEF Cancel
  <2>2. CASE List' = List
    BY <1>1, <1>3, <2>1, <2>2, CancelRefines, Zenon DEF Events!vars, List, Todo, Rest
  <2>3. CASE \E i \in DOMAIN List : List[i] = h /\ List' = RemoveAt(List, i)
    <3>1. Events!Cancel(h)
      BY <1>3, <2>1, <2>3, CancelRefines, ZenonT(30)
      DEF Events!Cancel, Events!RemoveAt, RemoveAt, List, Todo, Rest
    <3> QED
      BY <3>1 DEF Events!Next, HID
  <2> QED
    BY <1>3, <2>2, <2>3, CancelRefines
<1>4. ASSUME NEW e \in Emitter, Lookup(e) PROVE Events!Emit(e)
  BY <1>4, LookupRefines, Zenon DEF Events!Emit, Lookup, List, Todo, Rest
<1>5. ASSUME NEW e \in Emitter, StartHandler(e) PROVE Events!Start(e)
  BY <1>5, StartRefines, ZenonT(30) DEF Events!Start, StartHandler, List, Todo, Rest
<1>6. ASSUME NEW e \in Emitter, Call(e) \/ Return(e) \/ HandlersEnd(e) PROVE UNCHANGED Events!vars
  <2>1. nextHID' = nextHID
    BY <1>6 DEF Call, Return, HandlersEnd
  <2> QED
    BY <1>6, <2>1, OthersRefine, ZenonT(30) DEF Events!vars, List, Todo, Rest
<1>7. CASE UNCHANGED subsVars
  BY <1>7 DEF subsVars, Events!vars, Elements
<1> QED
  BY <1>2, <1>3, <1>4, <1>5, <1>6, <1>7 DEF SubsNext, EmitStep, Events!Next

---------------------------------------------------------------------------
(* The registry.                                                           *)

\* The words of a command are its name and its aliases, as they are stored.
LEMMA WordsType ==
  ASSUME NEW cmd \in Command
  PROVE  /\ Words(cmd) \in Seq(Word)
         /\ 1 \in DOMAIN Words(cmd)
         /\ Words(cmd)[1] = ToLowerTrimSpace(Name[cmd])
         /\ DOMAIN Words(cmd) = 1..Len(Words(cmd))
         /\ \A j \in DOMAIN Words(cmd) : Words(cmd)[j] \in Word /\ Words(cmd)[j].plain
<1> DEFINE n == Len(Aliases[cmd]) + 1
<1>1. Aliases[cmd] \in Seq(Word) /\ Name[cmd] \in Word /\ n \in Nat /\ 1 \in 1..n
  BY RegistryAssumption
<1>2. ASSUME NEW w \in Word PROVE ToLowerTrimSpace(w) \in Word /\ ToLowerTrimSpace(w).plain
  BY <1>2, ZenonT(30) DEF ToLowerTrimSpace, Word
<1>3. ASSUME NEW i \in 1..n
      PROVE  (IF i = 1 THEN Name[cmd] ELSE Aliases[cmd][i - 1]) \in Word
  BY <1>1
<1>4. Words(cmd) = [i \in 1..n |->
                      ToLowerTrimSpace(IF i = 1 THEN Name[cmd] ELSE Aliases[cmd][i - 1])]
  BY DEF Words
<1> HIDE DEF n
<1>5. /\ \A i \in 1..n : Words(cmd)[i] \in Word /\ Words(cmd)[i].plain
      /\ DOMAIN Words(cmd) = 1..n
      /\ Words(cmd)[1] = ToLowerTrimSpace(Name[cmd])
  BY <1>1, <1>2, <1>3, <1>4
<1>6. Words(cmd) \in [1..n -> Word]
  BY <1>2, <1>3, <1>4
<1>7. Words(cmd) \in Seq(Word) /\ Len(Words(cmd)) = n
  BY <1>1, <1>5, <1>6
<1> QED
  BY <1>1, <1>5, <1>7

\* Register enters no word that is in the map already.
LEMMA RegisterKeeps ==
  ASSUME NEW cmd \in Command, Register(cmd)
  PROVE  \A w \in DOMAIN byName : w \in DOMAIN byName' /\ byName'[w] = byName[w]
<1>1. PICK words : /\ Enter(cmd, words)
                   /\ \A w \in words : w \notin DOMAIN byName
  <2>1. Enter(cmd, Entered(cmd, Len(Words(cmd))))
    BY DEF Register
  <2>2. ASSUME NEW w \in Entered(cmd, Len(Words(cmd))) PROVE w \notin DOMAIN byName
    <3>1. PICK j \in 1..Len(Words(cmd)) :
            w = Words(cmd)[j] /\ ~Empty(w) /\ \A k \in 1..j : ~Exists(cmd, k)
      BY DEF Entered
    <3>2. j \in 1..j
      <4>1. Len(Words(cmd)) \in Nat
        BY WordsType, LenProperties
      <4> QED
        BY <4>1
    <3> QED
      BY <3>1, <3>2 DEF Exists
  <2> QED
    BY <2>1, <2>2
<1> QED
  BY <1>1 DEF Enter

\* No other step touches the map.
LEMMA OthersKeep ==
  ASSUME [Next]_vars
  PROVE  \/ \E cmd \in Command : Register(cmd)
         \/ UNCHANGED byName
<1>1. ASSUME NEW c \in Client, Executing(c) PROVE UNCHANGED byName
  BY <1>1 DEF Executing, Check, Authorize, Auth, EmitEvent, Other, Answer, registryVars
<1>2. ASSUME NEW c \in Client, Line(c) PROVE UNCHANGED byName
  BY <1>2 DEF Line, Execute
<1> QED
  BY <1>1, <1>2 DEF Next, Registration, Subscription, vars, registryVars

\* A word that executes a command goes on executing that command.
THEOREM MeaningKept == Spec => WordsKeepMeaning
<1>1. ASSUME [Next]_vars
      PROVE  [\A w \in DOMAIN byName : w \in DOMAIN byName' /\ byName'[w] = byName[w]]_registryVars
  BY <1>1, RegisterKeeps, OthersKeep
<1> QED
  BY <1>1, PTL DEF Spec, WordsKeepMeaning

---------------------------------------------------------------------------
\* What an Execute can be doing.
Doing == {<<"idle">>} \cup ({"check", "handler"} \X Command \X (Client \cup {NoClient}))

\* Register keeps the map, the list and the failed commands well typed.
LEMMA RegisterType ==
  ASSUME RegistryTypeOK, NEW cmd \in Command, Register(cmd)
  PROVE  RegistryTypeOK'
<1> DEFINE words == Entered(cmd, Len(Words(cmd)))
<1>1. words \subseteq Word
  <2>1. \A i \in 1..Len(Words(cmd)) : Words(cmd)[i] \in Word
    BY WordsType
  <2> QED
    BY <2>1 DEF Entered
<1>2. byName' = [w \in DOMAIN byName \cup words |-> IF w \in words THEN cmd ELSE byName[w]]
  BY DEF Register, Enter
<1> HIDE DEF words
<1>3. DOMAIN byName' \subseteq Word /\ Range(byName') \subseteq Command
  BY <1>1, <1>2, ZenonT(30) DEF RegistryTypeOK, Range
<1>4. list' \in Seq(Command) /\ failed' \subseteq Command
  <2>1. list' = list \/ list' = Append(list, cmd)
    BY DEF Register
  <2>2. failed' = failed \/ failed' \subseteq failed \cup {cmd}
    BY DEF Register
  <2> QED
    BY <2>1, <2>2, AppendProperties DEF RegistryTypeOK
<1>5. UNCHANGED <<level, exec>>
  BY DEF Register
<1> QED
  BY <1>3, <1>4, <1>5 DEF RegistryTypeOK

\* A step of one Execute that changes nothing else.
LEMMA ExecType ==
  ASSUME RegistryTypeOK, NEW c \in Client, NEW x \in Doing,
         exec' = [exec EXCEPT ![c] = x], UNCHANGED <<byName, list, failed, level>>
  PROVE  RegistryTypeOK'
BY DEF RegistryTypeOK, Doing

\* Every step keeps the registry well typed.
LEMMA RegistryTypeStep == ASSUME RegistryTypeOK, [Next]_vars PROVE RegistryTypeOK'
<1>1. CASE Registration
  BY <1>1, RegisterType DEF Registration
<1>2. CASE UNCHANGED registryVars
  BY <1>2 DEF registryVars, RegistryTypeOK
<1>3. ASSUME NEW c \in Client, Line(c) PROVE RegistryTypeOK'
  <2>1. PICK client, w : client \in {c, NoClient} /\ Execute(c, client, w)
    BY <1>3 DEF Line
  <2>2. byName[Found(w)] \in Command
    BY <2>1 DEF Execute, RegistryTypeOK, Range
  <2>3. \A cmd \in Command : <<"check", cmd, client>> \in Doing
    BY <2>1 DEF Doing
  <2> QED
    BY <2>1, <2>2, <2>3, ExecType, ZenonT(30) DEF Execute
<1>4. ASSUME NEW c \in Client, Check(c) PROVE RegistryTypeOK'
  <2> DEFINE x == IF checkPermission(exec[c][3], MinLevel[exec[c][2]])
                  THEN <<"handler", exec[c][2], exec[c][3]>> ELSE <<"idle">>
  <2>1. exec[c] \in Doing /\ exec[c][1] = "check"
    BY <1>4 DEF Check, RegistryTypeOK, Doing
  <2>2. exec[c][2] \in Command /\ exec[c][3] \in Client \cup {NoClient}
    BY <2>1 DEF Doing
  <2>3. x \in Doing
    BY <2>2 DEF Doing
  <2>4. exec' = [exec EXCEPT ![c] = x] /\ UNCHANGED <<byName, list, failed, level>>
    BY <1>4 DEF Check
  <2> HIDE DEF x
  <2> QED
    BY <2>3, <2>4, ExecType, ZenonT(30)
<1>5. ASSUME NEW c \in Client, Answer(c) PROVE RegistryTypeOK'
  <2>1. <<"idle">> \in Doing
    BY DEF Doing
  <2> QED
    BY <1>5, <2>1, ExecType, Zenon DEF Answer, Finish
<1>6. ASSUME NEW c \in Client, NEW lv, Auth(c, lv) PROVE RegistryTypeOK'
  <2>1. DOMAIN level' \subseteq Client /\ Range(level') \subseteq Level
    BY <1>6, ZenonT(30) DEF Auth, SetLevel, RegistryTypeOK, Range
  <2>2. exec' = [exec EXCEPT ![c] = <<"idle">>] /\ UNCHANGED <<byName, list, failed>>
    BY <1>6 DEF Auth, Finish
  <2> QED
    BY <2>1, <2>2 DEF RegistryTypeOK
<1> QED
  BY <1>1, <1>2, <1>3, <1>4, <1>5, <1>6
     DEF Next, Subscription, Executing, Authorize, EmitEvent, Other, vars

---------------------------------------------------------------------------
\* The inductive invariant: a level is one of the two /auth can set, and a
\* handler that an administrator's level has let run still has it.
Inv ==
  /\ exec = [c \in Client |-> exec[c]]
  /\ \A c \in DOMAIN level : level[c] \in Level
  /\ AdminsOnly

\* A step that keeps every level and starts no handler keeps the invariant.
LEMMA InvKept ==
  ASSUME Inv, UNCHANGED level,
         exec' = [c \in Client |-> exec'[c]],
         \A c \in Client : exec'[c] = exec[c] \/ exec'[c][1] # "handler"
  PROVE  Inv'
  BY DEF Inv, AdminsOnly, InHandler

\* Every step keeps the invariant.
LEMMA InvStep == ASSUME Inv, [Next]_vars PROVE Inv'
<1> USE RegistryAssumption
<1>1. CASE Registration
  BY <1>1, InvKept DEF Registration, Register, Inv
<1>2. CASE UNCHANGED registryVars
  BY <1>2, InvKept DEF registryVars, Inv
<1>3. ASSUME NEW c \in Client, Line(c) PROVE Inv'
  <2>1. PICK client, w : Execute(c, client, w)
    BY <1>3 DEF Line
  <2> QED
    BY <2>1, InvKept, ZenonT(30) DEF Execute, Inv
<1>4. ASSUME NEW c \in Client, Check(c) PROVE Inv'
  <2>1. SUFFICES ASSUME NEW d \in Client, NEW cmd \in Command,
                        InHandler(d, cmd)', exec'[d][3] = d, MinLevel[cmd] = levelAdmin
                 PROVE  d \in DOMAIN level /\ level[d] = levelAdmin
    BY <1>4, Zenon DEF Check, Inv, AdminsOnly
  <2>2. CASE d # c
    BY <1>4, <2>1, <2>2, ZenonT(30) DEF Check, Inv, AdminsOnly, InHandler
  <2>3. CASE d = c
    <3>1. exec'[c] = IF checkPermission(exec[c][3], MinLevel[exec[c][2]])
                     THEN <<"handler", exec[c][2], exec[c][3]>> ELSE <<"idle">>
      BY <1>4 DEF Check, Inv
    <3>2. checkPermission(c, levelAdmin)
      <4>1. exec'[c][1] = "handler" /\ exec'[c][2] = cmd /\ exec'[c][3] = c
        BY <2>1, <2>3 DEF InHandler
      <4>3. checkPermission(exec[c][3], MinLevel[exec[c][2]])
        <5>1. SUFFICES ASSUME exec'[c] = <<"idle">> PROVE FALSE
          BY <3>1, ZenonT(30)
        <5> QED
          BY <4>1, <5>1
      <4>2. exec'[c] = <<"handler", exec[c][2], exec[c][3]>>
        BY <3>1, <4>3
      <4>4. exec[c][2] = cmd /\ exec[c][3] = c
        BY <4>1, <4>2
      <4> QED
        BY <2>1, <4>3, <4>4
    <3> QED
      BY <2>3, <3>2 DEF checkPermission, Inv, Level, levelUser, levelAdmin
  <2> QED
    BY <2>2, <2>3
<1>5. ASSUME NEW c \in Client, Authorize(c) PROVE Inv'
  <2>1. PICK lv : Auth(c, lv)
    BY <1>5 DEF Authorize
  <2>2. exec' = [exec EXCEPT ![c] = <<"idle">>]
    BY <2>1 DEF Auth, Finish
  <2>3. \A d \in DOMAIN level' : level'[d] \in Level
    BY <2>1 DEF Auth, SetLevel, Inv
  <2>4. \A d \in Client \ {c} :
          d \in DOMAIN level => d \in DOMAIN level' /\ level'[d] = level[d]
    BY <2>1 DEF Auth, SetLevel
  <2> QED
    BY <2>2, <2>3, <2>4, ZenonT(30) DEF Inv, AdminsOnly, InHandler
<1>6. ASSUME NEW c \in Client, Answer(c) PROVE Inv'
  BY <1>6, InvKept, Zenon DEF Answer, Finish, Inv
<1> QED
  BY <1>1, <1>2, <1>3, <1>4, <1>5, <1>6
  DEF Next, vars, Subscription, Executing, EmitEvent, Other

\* A handler runs for an administrator only while its client is one.
THEOREM AdminsOnlyAlways == Spec => []AdminsOnly
<1>1. Init => Inv
  BY DEF Init, RegistryInit, Inv, AdminsOnly, InHandler
<1>2. Inv => AdminsOnly
  BY DEF Inv
<1> QED
  BY <1>1, <1>2, InvStep, PTL DEF Spec

---------------------------------------------------------------------------
\* The inductive invariant of the list: a listed command has every word it
\* was entered under, and so cannot be entered a second time.
HasItsWords(cmd) ==
  \A j \in DOMAIN Words(cmd) : ~Empty(Words(cmd)[j]) =>
    /\ Words(cmd)[j] \in DOMAIN byName
    /\ byName[Words(cmd)[j]] = cmd

ListInv ==
  /\ list \in Seq(Command)
  /\ \A cmd \in Command : cmd \in Range(list) => HasItsWords(cmd)
  /\ TypedIsListed

\* A Register that succeeds enters every word of a command that was not listed.
LEMMA RegisterLists ==
  ASSUME ListInv, NEW cmd \in Command, Register(cmd)
  PROVE  ListInv'
<1>1. \A w \in DOMAIN byName : w \in DOMAIN byName' /\ byName'[w] = byName[w]
  BY RegisterKeeps
<1>2. \A c \in Command : HasItsWords(c) => HasItsWords(c)'
  BY <1>1 DEF HasItsWords
<1>3. \A w \in DOMAIN byName' : byName'[w] = cmd \/ (w \in DOMAIN byName /\ byName'[w] = byName[w])
  BY DEF Register, Enter
<1>4. CASE \E i \in DOMAIN Words(cmd) : Exists(cmd, i)
  <2>1. failed' = failed \cup ({cmd} \ Range(list)) /\ list' = list
    BY <1>4 DEF Register
  <2> QED
    BY <1>2, <1>3, <2>1 DEF ListInv, TypedIsListed
<1>5. CASE ~\E i \in DOMAIN Words(cmd) : Exists(cmd, i)
  <2>1. list' = Append(list, cmd) /\ failed' = failed
    BY <1>5 DEF Register
  <2>2. cmd \notin Range(list)
    <3>1. SUFFICES ASSUME cmd \in Range(list) PROVE FALSE
      OBVIOUS
    <3>2. ~Empty(Words(cmd)[1])
      <4>1. Name[cmd] \in Word /\ ~Empty(Name[cmd])
        BY RegistryAssumption DEF Register, ValidName
      <4>2. ~Empty(ToLowerTrimSpace(Name[cmd]))
        BY <4>1, ZenonT(30) DEF ToLowerTrimSpace, Empty, Word
      <4> QED
        BY <4>2, WordsType
    <3> QED
      BY <1>5, <3>1, <3>2, WordsType DEF ListInv, HasItsWords, Exists
  <2>3. HasItsWords(cmd)'
    <3>1. SUFFICES ASSUME NEW j \in DOMAIN Words(cmd), ~Empty(Words(cmd)[j])
                   PROVE  Words(cmd)[j] \in DOMAIN byName' /\ byName'[Words(cmd)[j]] = cmd
      BY DEF HasItsWords
    <3>2. Words(cmd)[j] \in Entered(cmd, Len(Words(cmd)))
      BY <1>5, <3>1, WordsType DEF Entered
    <3> QED
      BY <3>2 DEF Register, Enter
  <2>4. /\ list' \in Seq(Command) /\ DOMAIN list' = DOMAIN list \cup {Len(list) + 1}
        /\ \A i \in DOMAIN list : list'[i] = list[i] /\ i # Len(list) + 1
        /\ list'[Len(list) + 1] = cmd
    BY <2>1 DEF ListInv
  <2>5. Range(list') = Range(list) \cup {cmd}
    BY <2>4 DEF Range
  <2>6. \A c \in Command : c \in Range(list') => HasItsWords(c)'
    BY <1>2, <2>3, <2>5 DEF ListInv
  <2>7. IsInjective(list')
    BY <2>2, <2>4 DEF ListInv, TypedIsListed, IsInjective, Range
  <2> QED
    BY <1>3, <2>1, <2>4, <2>5, <2>6, <2>7 DEF ListInv, TypedIsListed
<1> QED
  BY <1>4, <1>5

\* No other step touches the map, the list or the failures.
LEMMA ListStep == ASSUME ListInv, [Next]_vars PROVE ListInv'
<1>1. CASE \E cmd \in Command : Register(cmd)
  BY <1>1, RegisterLists
<1>2. ASSUME UNCHANGED <<byName, list, failed>> PROVE ListInv'
  BY <1>2 DEF ListInv, TypedIsListed, HasItsWords
<1>3. ASSUME NEW c \in Client, Executing(c) PROVE UNCHANGED <<byName, list, failed>>
  BY <1>3 DEF Executing, Check, Authorize, Auth, EmitEvent, Other, Answer, registryVars
<1>4. ASSUME NEW c \in Client, Line(c) PROVE UNCHANGED <<byName, list, failed>>
  BY <1>4 DEF Line, Execute
<1> QED
  BY <1>1, <1>2, <1>3, <1>4 DEF Next, Registration, Subscription, vars, registryVars

\* Words and lines, whether a word is made of them or not.
Text == [slashes : Nat, letters : Letters, rest : Letters, plain : BOOLEAN]

\* A change to the slashes of a text leaves its other parts.
LEMMA SlashParts ==
  ASSUME NEW x \in Text, NEW n \in Nat
  PROVE  /\ [x EXCEPT !.slashes = n] \in Text
         /\ [x EXCEPT !.slashes = n].slashes = n
         /\ [x EXCEPT !.slashes = n].letters = x.letters
         /\ [x EXCEPT !.slashes = n].rest = x.rest
         /\ [x EXCEPT !.slashes = n].plain = x.plain
BY ZenonT(30) DEF Text

\* ToLowerTrimSpace leaves the slashes, the letters and the rest.
LEMMA LowerParts ==
  ASSUME NEW x \in Text
  PROVE  /\ ToLowerTrimSpace(x) \in Text
         /\ ToLowerTrimSpace(x).slashes = x.slashes
         /\ ToLowerTrimSpace(x).letters = x.letters
         /\ ToLowerTrimSpace(x).rest = x.rest
         /\ ToLowerTrimSpace(x).plain = TRUE
BY ZenonT(30) DEF Text, ToLowerTrimSpace

\* The first field of a text is the text without its rest.
LEMMA FieldParts ==
  ASSUME NEW x \in Text, Nothing \in Letters
  PROVE  /\ Field1(x) \in Text /\ Field1(x).slashes = x.slashes
         /\ Field1(x).letters = x.letters /\ Field1(x).rest = Nothing
         /\ Field1(x).plain = x.plain
BY ZenonT(30) DEF Text, Field1

\* TrimPrefix takes off one slash, if there is one.
LEMMA TrimParts ==
  ASSUME NEW x \in Text
  PROVE  /\ TrimPrefix(x) \in Text
         /\ TrimPrefix(x).slashes = (IF x.slashes > 0 THEN x.slashes - 1 ELSE 0)
         /\ TrimPrefix(x).letters = x.letters /\ TrimPrefix(x).rest = x.rest
         /\ TrimPrefix(x).plain = x.plain
<1> DEFINE n == IF x.slashes > 0 THEN x.slashes - 1 ELSE 0
<1>1. n \in Nat
  BY DEF Text
<1>2. TrimPrefix(x) = [x EXCEPT !.slashes = n]
  BY DEF TrimPrefix
<1> HIDE DEF n
<1>3. LET y == [x EXCEPT !.slashes = n]
      IN /\ y \in Text /\ y.slashes = n /\ y.letters = x.letters
         /\ y.rest = x.rest /\ y.plain = x.plain
  BY <1>1, SlashParts, ZenonT(30)
<1> QED
  BY <1>2, <1>3, Zenon DEF n

\* Two slashes are taken off a line, its rest is dropped, and it is stored as
\* words are.
LEMMA FoundParts ==
  ASSUME NEW line \in Text, Nothing \in Letters
  PROVE  /\ Found(line) \in Text
         /\ Found(line).slashes = (IF line.slashes > 1 THEN line.slashes - 2 ELSE 0)
         /\ Found(line).letters = line.letters
         /\ Found(line).rest = Nothing /\ Found(line).plain = TRUE
<1> DEFINE x1 == Field1(line)
           x2 == TrimPrefix(x1)
           x3 == TrimPrefix(x2)
<1>1. /\ x1 \in Text /\ x1.slashes = line.slashes
      /\ x1.letters = line.letters /\ x1.rest = Nothing
  BY FieldParts, Zenon
<1>2. /\ x2 \in Text /\ x2.slashes = (IF x1.slashes > 0 THEN x1.slashes - 1 ELSE 0)
      /\ x2.letters = x1.letters /\ x2.rest = x1.rest
  BY <1>1, TrimParts, Zenon
<1>3. /\ x3 \in Text /\ x3.slashes = (IF x2.slashes > 0 THEN x2.slashes - 1 ELSE 0)
      /\ x3.letters = x2.letters /\ x3.rest = x2.rest
  BY <1>2, TrimParts, Zenon
<1>4. Found(line) = ToLowerTrimSpace(x3)
  BY DEF Found, Key
<1>5. /\ ToLowerTrimSpace(x3) \in Text /\ ToLowerTrimSpace(x3).slashes = x3.slashes
      /\ ToLowerTrimSpace(x3).letters = x3.letters
      /\ ToLowerTrimSpace(x3).rest = x3.rest /\ ToLowerTrimSpace(x3).plain = TRUE
  BY <1>3, LowerParts, ZenonT(30)
<1>6. line.slashes \in Nat
  BY DEF Text
<1> HIDE DEF x1, x2, x3
<1>7. x3.slashes = (IF line.slashes > 1 THEN line.slashes - 2 ELSE 0)
  BY <1>1, <1>2, <1>3, <1>6
<1> QED
  BY <1>1, <1>2, <1>3, <1>4, <1>5, <1>7

\* A stored word without a blank inside is what Execute and Get make of it
\* with a slash before it, or with two if it has slashes of its own.
LEMMA FoundAgain ==
  ASSUME NEW w \in Word, w.plain, w.rest = Nothing
  PROVE  Found([w EXCEPT !.slashes = IF @ = 0 THEN 1 ELSE @ + 2]) = w
<1> DEFINE n == IF w.slashes = 0 THEN 1 ELSE w.slashes + 2
           line == [w EXCEPT !.slashes = n]
<1>1. w \in Text /\ Nothing \in Letters /\ w.plain = TRUE
  BY DEF Word, Text
<1>2. n \in Nat /\ w.slashes = (IF n > 1 THEN n - 2 ELSE 0)
  BY <1>1 DEF Text
<1> HIDE DEF n
<1>3. line \in Text /\ line.slashes = n /\ line.letters = w.letters
  BY <1>1, <1>2, SlashParts, ZenonT(30)
<1> HIDE DEF line
<1>4. /\ Found(line) \in Text /\ Found(line).slashes = w.slashes
      /\ Found(line).letters = w.letters
      /\ Found(line).rest = w.rest /\ Found(line).plain = w.plain
  BY <1>1, <1>2, <1>3, FoundParts, ZenonT(30)
<1>5. ASSUME NEW x \in Text, NEW y \in Text, x.slashes = y.slashes,
             x.letters = y.letters, x.rest = y.rest, x.plain = y.plain
      PROVE  x = y
  BY <1>5 DEF Text
<1>6. Found(line) = w
  BY <1>1, <1>4, <1>5, Zenon
<1> QED
  BY <1>6 DEF line, n

\* No line finds a word with a blank inside.
LEMMA BlankNotFound ==
  ASSUME NEW w \in Word, NEW line \in Text, Nothing \in Letters, w.rest # Nothing
  PROVE  Found(line) # w
BY FoundParts, ZenonT(30)

\* ListInv holds throughout.
THEOREM ListInvariance == Spec => []ListInv
<1>1. Init => ListInv
  BY DEF Init, RegistryInit, ListInv, TypedIsListed, IsInjective, Range
<1> QED
  BY <1>1, ListStep, PTL DEF Spec

\* What can be typed is listed once, unless its Register returned an error and
\* left it half entered.
THEOREM TypedAreListed == Spec => []TypedIsListed
<1>1. ListInv => TypedIsListed
  BY DEF ListInv
<1> QED
  BY <1>1, ListInvariance, PTL

\* What /help lists can be typed, slashes of its own or not, unless it has a
\* blank inside.
THEOREM ListedAreTyped == Spec => []ListedCanBeTyped
<1>1. ASSUME ListInv PROVE ListedCanBeTyped
  <2>1. SUFFICES ASSUME NEW i \in DOMAIN list, NEW j \in DOMAIN Words(list[i]),
                        NEW w, w = Words(list[i])[j], ~Empty(w)
                 PROVE  LET line == [w EXCEPT !.slashes = IF @ = 0 THEN 1 ELSE @ + 2]
                        IN IF w.rest = Nothing
                           THEN Found(line) \in DOMAIN byName /\ byName[Found(line)] = list[i]
                           ELSE Found(line) # w
    BY DEF ListedCanBeTyped
  <2>2. list[i] \in Command /\ list[i] \in Range(list)
    BY <1>1 DEF ListInv, Range
  <2>3. w \in DOMAIN byName /\ byName[w] = list[i]
    BY <1>1, <2>1, <2>2 DEF ListInv, HasItsWords
  <2>4. w \in Word /\ w.plain
    BY <2>1, <2>2, WordsType
  <2> DEFINE n == IF w.slashes = 0 THEN 1 ELSE w.slashes + 2
  <2>5. w \in Text /\ n \in Nat
    BY <2>4 DEF Word, Text
  <2>6. CASE w.rest = Nothing
    BY <2>3, <2>4, <2>6, FoundAgain
  <2>7. CASE w.rest # Nothing
    <3>1. [w EXCEPT !.slashes = n] \in Text
      BY <2>5, SlashParts, ZenonT(30)
    <3> QED
      BY <2>4, <2>7, <3>1, BlankNotFound, RegistryAssumption
  <2> QED
    BY <2>6, <2>7
<1> QED
  BY <1>1, ListInvariance, PTL

\* What is listed, or failed half-way, stays so.
LEMMA RegisteredStays ==
  ASSUME ListInv, [Next]_vars
  PROVE  Range(list) \cup failed \subseteq Range(list') \cup failed'
<1>1. CASE \E cmd \in Command : Register(cmd)
  <2>1. PICK cmd \in Command : Register(cmd)
    BY <1>1
  <2>2. \/ list' = list /\ failed \subseteq failed'
        \/ list' = Append(list, cmd) /\ failed' = failed
    BY <2>1 DEF Register
  <2>3. Range(list) \subseteq Range(Append(list, cmd))
    <3>1. DOMAIN list \subseteq DOMAIN Append(list, cmd)
          /\ \A i \in DOMAIN list : Append(list, cmd)[i] = list[i]
      BY DEF ListInv
    <3> QED
      BY <3>1, ZenonT(30) DEF Range
  <2> QED
    BY <2>2, <2>3, ZenonT(30)
<1>2. ASSUME NEW c \in Client, Executing(c) PROVE UNCHANGED <<list, failed>>
  BY <1>2 DEF Executing, Check, Authorize, Auth, EmitEvent, Other, Answer, registryVars
<1>3. ASSUME NEW c \in Client, Line(c) PROVE UNCHANGED <<list, failed>>
  BY <1>3 DEF Line, Execute
<1> QED
  BY <1>1, <1>2, <1>3 DEF Next, Registration, Subscription, vars, registryVars

\* What is being executed was registered before: a command is found under a
\* word of the map, and what has a word stays listed or failed.
THEOREM ExecutedAreRegistered == Spec => []ExecutedIsRegistered
<1> DEFINE Known == Range(list) \cup failed
           Runs == exec = [c \in Client |-> exec[c]] /\ ExecutedIsRegistered
<1>1. Init => Runs
  BY DEF Init, RegistryInit, ExecutedIsRegistered
<1>2. ASSUME ListInv, Runs, [Next]_vars PROVE Runs'
  <2>1. Known \subseteq Known'
    BY <1>2, RegisteredStays
  <2>2. SUFFICES ASSUME NEW d \in Client, NEW x, exec' = [exec EXCEPT ![d] = x],
                        x = <<"idle">> \/ x[2] \in Known
                 PROVE  Runs'
    <3>1. CASE UNCHANGED exec
      BY <1>2, <2>1, <3>1 DEF ExecutedIsRegistered
    <3>2. ASSUME NEW c \in Client, Line(c) PROVE Runs'
      <4>1. PICK client, line : Execute(c, client, line)
        BY <3>2 DEF Line
      <4>2. byName[Found(line)] \in Known
        BY <1>2, <4>1 DEF Execute, ListInv, TypedIsListed
      <4>3. <<"check", byName[Found(line)], client>>[2] \in Known
        BY <4>2
      <4> QED
        BY <2>2, <4>1, <4>3, Zenon DEF Execute
    <3>3. ASSUME NEW c \in Client, Check(c) PROVE Runs'
      <4> DEFINE x == IF checkPermission(exec[c][3], MinLevel[exec[c][2]])
                      THEN <<"handler", exec[c][2], exec[c][3]>> ELSE <<"idle">>
      <4>1. exec[c] # <<"idle">>
        BY <3>3 DEF Check
      <4>2. exec[c][2] \in Known
        BY <1>2, <4>1 DEF ExecutedIsRegistered
      <4>3. x = <<"idle">> \/ x[2] \in Known
        BY <4>2
      <4>4. exec' = [exec EXCEPT ![c] = x]
        BY <3>3 DEF Check
      <4> HIDE DEF x
      <4> QED
        BY <2>2, <4>3, <4>4, Zenon
    <3>4. ASSUME NEW c \in Client, Finish(c) PROVE Runs'
      BY <2>2, <3>4, Zenon DEF Finish
    <3> QED
      BY <1>2, <3>1, <3>2, <3>3, <3>4
         DEF Next, Registration, Register, Subscription, Executing, Authorize, Auth,
             EmitEvent, Other, Answer, vars, registryVars
  <2>3. \A c \in Client : exec'[c] = IF c = d THEN x ELSE exec[c]
    BY <1>2, <2>2, Zenon
  <2>4. exec' = [c \in Client |-> exec'[c]]
    BY <1>2, <2>2, Zenon
  <2>5. ASSUME NEW c \in Client, exec'[c] # <<"idle">> PROVE exec'[c][2] \in Known
    BY <1>2, <2>2, <2>3, <2>5 DEF ExecutedIsRegistered
  <2> QED
    BY <2>1, <2>4, <2>5, Zenon DEF ExecutedIsRegistered
<1>3. Runs => ExecutedIsRegistered
  OBVIOUS
<1> HIDE DEF Runs
<1> QED
  BY <1>1, <1>2, <1>3, ListInvariance, PTL DEF Spec

---------------------------------------------------------------------------
(* Events, while commands are executed.                                    *)

\* No step does anything to the subscriptions but what Subscriptions says.
LEMMA EventSteps == ASSUME [Next]_vars PROVE [SubsNext]_subsVars
<1> USE CommandsAssumption
<1>1. CASE Registration
  BY <1>1 DEF Registration
<1>2. CASE Subscription
  BY <1>2 DEF Subscription, SubsNext
<1>3. ASSUME NEW c \in Client, Line(c) PROVE UNCHANGED subsVars
  BY <1>3 DEF Line
<1>4. ASSUME NEW c \in Client, Executing(c) PROVE [SubsNext]_subsVars
  BY <1>4 DEF Executing, Authorize, EmitEvent, Other, SubsNext
<1>5. ASSUME NEW c \in Client, HandlersEnd(c) PROVE SubsNext
  BY <1>5 DEF SubsNext
<1> QED
  BY <1>1, <1>2, <1>3, <1>4, <1>5 DEF Next, vars

\* The invariant of the slices holds throughout.
THEOREM SlicesApart == Spec => []SubsInv
<1>1. Init => SubsInv
  BY SubsStart DEF Init
<1>2. SubsInv /\ [Next]_vars => SubsInv'
  BY EventSteps, SubsStep
<1> QED
  BY <1>1, <1>2, PTL DEF Spec

\* The map, the list, the levels, the executions and the slices keep their types.
THEOREM TypeCorrect == Spec => []TypeOK
<1>1. Init => RegistryTypeOK
  <2>1. SUFFICES ASSUME RegistryInit PROVE RegistryTypeOK
    BY DEF Init
  <2>2. byName = <<>> /\ list = <<>> /\ failed = {} /\ level = <<>>
    BY <2>1 DEF RegistryInit
  <2>3. exec = [c \in Client |-> <<"idle">>]
    BY <2>1 DEF RegistryInit
  <2>4. DOMAIN byName = {} /\ DOMAIN level = {}
    BY <2>2
  <2> QED
    BY <2>2, <2>3, <2>4 DEF RegistryTypeOK, Range
<1>2. RegistryTypeOK /\ [Next]_vars => RegistryTypeOK'
  BY RegistryTypeStep
<1>3. SubsInv => SubsTypeOK
  BY DEF SubsInv
<1>4. RegistryTypeOK /\ SubsTypeOK => TypeOK
  BY DEF TypeOK
<1> QED
  BY <1>1, <1>2, <1>3, <1>4, SlicesApart, PTL DEF Spec

\* A handler that is subscribed for the whole of an Emit is started by it,
\* none is started twice, and none that was cancelled before the call.
THEOREM EmitsComplete == Spec => []EmitComplete
  BY SlicesApart, DoneComplete, PTL

\* Shared slices, filtered in place and copied, amount to one list, and each
\* Emit to the start of the handlers of one snapshot of it: the safety part of
\* ImplementsEventBus.
THEOREM ImplementsEvents == Spec => Events!Safety
<1>1. Init => Events!Init
  <2> SUFFICES ASSUME SubsInit PROVE Events!Init
    BY DEF Init
  <2>1. List = <<>>
    <3>1. SubsInv /\ handlers.len = 0
      BY SubsStart DEF SubsInit, Nil
    <3> QED
      BY <3>1, ElementsAt DEF List
  <2>2. \A e \in Emitter : Rest(e) = <<>>
    <3>1. SubsInv /\ \A e \in Emitter : emit[e].pc # "start"
      BY SubsStart DEF SubsInit, Quiet
    <3> QED
      BY <3>1, RestEmpty
  <2> QED
    BY <2>1, <2>2 DEF Events!Init, SubsInit, List, Rest
<1>2. SubsInv /\ SubsInv' /\ [Next]_vars => [Events!Next]_Events!vars
  BY EventSteps, StepRefines
<1> QED
  BY <1>1, <1>2, SlicesApart, PTL DEF Spec, Events!Safety
============================================================================
