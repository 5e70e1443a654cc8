-------------------------- MODULE FrameStreamProofs --------------------------
(***************************************************************************)
(* Frames arrive whole, in order and without a difference, for any number  *)
(* of writers, any header, limit, pool and capacity of the connection.     *)
(*                                                                         *)
(* The bytes under way are described by the place at which each frame      *)
(* begins: frame i at place c[i] + 1, counted from the next byte to be     *)
(* read, so that the frame being read begins at a place that is not        *)
(* positive, and what has been read already at negative ones.              *)
(***************************************************************************)
EXTENDS FrameStream, TLAPS, SequenceTheorems

\* A leaf that names no backend is tried with the SMT solver, then with Zenon,
\* each given more time than it takes on an idle machine.
USE SMTT(30), ZenonT(20)

Frame(p) == PutUint32(Len(p)) \o p

\* The frames q begin at the places c of the stream S, of which d bytes of
\* frame k have been read; all of the frames are there if the stream is full.
Placed(c, q, S, full, k, d) ==
  /\ c \in [1..(Len(q) + 1) -> Int]
  /\ \A i \in 1..Len(q) : c[i + 1] = c[i] + Header + Len(q[i])
  /\ \A i, j \in 1..(Len(q) + 1) : i <= j => c[i] <= c[j]
  /\ k \in 1..(Len(q) + 1) /\ c[k] = 0 - d
  /\ Len(S) <= c[Len(q) + 1]
  /\ full => Len(S) = c[Len(q) + 1]
  /\ \A i \in k..Len(q) : \A t \in 1..(Header + Len(q[i])) :
       c[i] + t \in 1..Len(S) => S[c[i] + t] = Frame(q[i])[t]

\* What the holder of the lock has still to write.
Pending ==
  IF lock = NoWriter THEN <<>>
  ELSE IF wpc[lock] = "header" THEN todo[lock] \o payload[lock] ELSE todo[lock]

\* What the reader will get, if the connection is not closed.
Stream == IF open THEN pipe \o Pending ELSE pipe

\* The frame the reader is at, and how much of it it has read.
Turn == Len(received) + 1
Consumed == CASE rpc = "header" -> Len(got)
              [] rpc = "get" -> Header
              [] OTHER -> Header + filled

WriterOK(w) ==
  /\ wpc[w] \in {"header", "payload"} <=> lock = w
  /\ lock # w => todo[w] = <<>>
  /\ Len(payload[w]) <= MaxSize

SentOK == \A i \in 1..Len(sent) : Len(sent[i]) <= MaxSize

\* What has been received.
ReceivedOK ==
  /\ ~whole => example /\ rpc # "header"
  /\ example => rpc # "get" /\ got = <<>> /\ (rpc = "header" => filled = 0)
  /\ whole => /\ Len(received) <= Len(sent)
              /\ \A i \in 1..Len(received) : received[i] = sent[i]

\* What has been refused.
RefusedOK ==
  rpc = "failed" /\ open => Turn <= Len(sent) /\ sent[Turn] = <<>>

Reading == rpc \in {"header", "get", "payload"}

\* What has been read of the frame whose turn it is.
PartOK ==
  whole /\ Reading =>
    /\ rpc = "header" => \A t \in 1..Len(got) :
                           Turn <= Len(sent) /\ got[t] = Frame(sent[Turn])[t]
    /\ rpc \in {"get", "payload"} => Turn <= Len(sent) /\ length = Len(sent[Turn])
    /\ rpc = "payload" => \A t \in 1..filled : buf[t] = sent[Turn][t]

BufferOK ==
  rpc = "payload" => /\ filled <= length /\ length <= Len(buf)
                     /\ example => length = Len(buf)

StreamOK ==
  whole /\ Reading => \E c : Placed(c, sent, Stream, open, Turn, Consumed)

Inv ==
  /\ TypeOK
  /\ \A w \in Writer : WriterOK(w)
  /\ SentOK /\ ReceivedOK /\ RefusedOK /\ PartOK /\ BufferOK
  /\ StreamOK

---------------------------------------------------------------------------
(* Sequences of bytes.                                                     *)

\* What is left of a sequence after n elements.
Drop(s, n) == SubSeq(s, n + 1, Len(s))

\* The elements of what is left.
LEMMA DropAt ==
  ASSUME NEW B, NEW s \in Seq(B), NEW n \in 0..Len(s)
  PROVE  /\ Drop(s, n) \in Seq(B)
         /\ Len(Drop(s, n)) = Len(s) - n
         /\ \A t \in 1..(Len(s) - n) : Drop(s, n)[t] = s[n + t]
<1>1. n + 1 \in 1..(Len(s) + 1) /\ Len(s) \in Nat
  BY LenProperties
<1>2. CASE n = Len(s)
  <2>1. Drop(s, n) = <<>>
    BY <1>1, <1>2 DEF Drop
  <2> QED
    BY <2>1, <1>1, <1>2
<1>3. CASE n < Len(s)
  <2>1. /\ Drop(s, n) \in Seq(B)
        /\ Len(Drop(s, n)) = Len(s) - (n + 1) + 1
        /\ \A i \in 1..(Len(s) - (n + 1) + 1) : Drop(s, n)[i] = s[(n + 1) + i - 1]
    BY <1>1, <1>3 DEF Drop
  <2> QED
    BY <2>1, <1>1
<1> QED
  BY <1>1, <1>2, <1>3

\* Reading one byte is leaving the rest.
LEMMA TailIsDrop ==
  ASSUME NEW B, NEW s \in Seq(B), s # <<>>
  PROVE  Tail(s) = Drop(s, 1) /\ Head(s) = s[1] /\ 1 \in 0..Len(s)
<1>1. Len(s) \in Nat \ {0}
  BY EmptySeq, LenProperties
<1> QED
  BY <1>1 DEF Drop

\* Bytes of the front are taken from the whole.
LEMMA DropFront ==
  ASSUME NEW B, NEW s \in Seq(B), NEW r \in Seq(B), NEW n \in 0..Len(s)
  PROVE  Drop(s, n) \o r = Drop(s \o r, n) /\ n \in 0..Len(s \o r)
<1> DEFINE d == Drop(s, n)
           a == d \o r
           u == s \o r
           b == Drop(u, n)
<1>1. Len(s) \in Nat /\ Len(r) \in Nat
  BY LenProperties
<1>2. /\ u \in Seq(B) /\ Len(u) = Len(s) + Len(r)
      /\ \A i \in 1..(Len(s) + Len(r)) : u[i] = IF i <= Len(s) THEN s[i] ELSE r[i - Len(s)]
  BY ConcatProperties
<1>3. /\ d \in Seq(B) /\ Len(d) = Len(s) - n
      /\ \A t \in 1..(Len(s) - n) : d[t] = s[n + t]
  BY DropAt
<1>5. n \in 0..Len(u)
  BY <1>1, <1>2
<1> HIDE DEF d, u
<1>4. /\ a \in Seq(B) /\ Len(a) = Len(d) + Len(r)
      /\ \A i \in 1..(Len(d) + Len(r)) : a[i] = IF i <= Len(d) THEN d[i] ELSE r[i - Len(d)]
  BY <1>3, ConcatProperties, Zenon
<1>6. /\ b \in Seq(B) /\ Len(b) = Len(u) - n
      /\ \A t \in 1..(Len(u) - n) : b[t] = u[n + t]
  <2>1. u \in Seq(B)
    BY <1>2
  <2> QED
    BY <1>5, <2>1, DropAt, Zenon
<1> HIDE DEF a, b
<1>7. \A i \in 1..Len(a) : a[i] = b[i]
  <2> TAKE i \in 1..Len(a)
  <2>0. n + i \in 1..(Len(s) + Len(r)) /\ b[i] = u[n + i] /\ i \in 1..(Len(d) + Len(r))
    BY <1>1, <1>2, <1>3, <1>4, <1>6
  <2>1. CASE i <= Len(d)
    <3>1. a[i] = d[i] /\ i \in 1..(Len(s) - n)
      BY <1>1, <1>3, <1>4, <2>0, <2>1
    <3>2. u[n + i] = s[n + i]
      BY <1>1, <1>2, <1>3, <2>0, <2>1
    <3> QED
      BY <1>3, <2>0, <3>1, <3>2, Zenon
  <2>2. CASE ~(i <= Len(d))
    <3>1. a[i] = r[i - Len(d)]
      BY <1>4, <2>0, <2>2
    <3>2. u[n + i] = r[n + i - Len(s)]
      BY <1>1, <1>2, <1>3, <2>0, <2>2
    <3>3. n + i - Len(s) = i - Len(d)
      BY <1>1, <1>3
    <3> QED
      BY <2>0, <3>1, <3>2, <3>3, Zenon
  <2> QED
    BY <2>1, <2>2
<1>8. Len(a) = Len(b)
  BY <1>1, <1>2, <1>3, <1>4, <1>6
<1>9. a = b
  BY <1>4, <1>6, <1>7, <1>8, SeqEqual
<1> QED
  BY <1>5, <1>9 DEF a, b, d, u

\* A byte that is written goes from what is pending to what is under way.
LEMMA ByteMoves ==
  ASSUME NEW B, NEW s \in Seq(B), NEW r \in Seq(B), r # <<>>
  PROVE  Append(s, Head(r)) \o Tail(r) = s \o r
<1> DEFINE h == Append(s, Head(r))
           l == Tail(r)
           a == h \o l
           b == s \o r
<1>1. Len(s) \in Nat /\ Len(r) \in Nat \ {0}
  BY EmptySeq, LenProperties
<1>2. Head(r) \in B /\ Head(r) = r[1]
  BY <1>1, ElementOfSeq
<1>3. /\ h \in Seq(B) /\ Len(h) = Len(s) + 1
      /\ \A i \in 1..(Len(s) + 1) : h[i] = IF i <= Len(s) THEN s[i] ELSE r[1]
  BY <1>2, AppendProperties
<1>4. /\ l \in Seq(B) /\ Len(l) = Len(r) - 1
      /\ \A i \in 1..(Len(r) - 1) : l[i] = r[i + 1]
  BY <1>1
<1>5. /\ b \in Seq(B) /\ Len(b) = Len(s) + Len(r)
      /\ \A i \in 1..(Len(s) + Len(r)) : b[i] = IF i <= Len(s) THEN s[i] ELSE r[i - Len(s)]
  BY ConcatProperties
<1> HIDE DEF h, l, b
<1>6. /\ a \in Seq(B) /\ Len(a) = Len(h) + Len(l)
      /\ \A i \in 1..(Len(h) + Len(l)) : a[i] = IF i <= Len(h) THEN h[i] ELSE l[i - Len(h)]
  BY <1>3, <1>4, ConcatProperties, ZenonT(30)
<1> HIDE DEF a
<1> DEFINE x == Len(s)
           y == Len(r)
<1>7. ASSUME NEW i \in 1..(x + y) PROVE a[i] = b[i]
  <2>1. x \in Nat /\ y \in Nat \ {0} /\ Len(h) = x + 1 /\ Len(l) = y - 1
    BY <1>1, <1>3, <1>4
  <2>2. a[i] = IF i <= x + 1 THEN h[i] ELSE l[i - (x + 1)]
    <3>1. i \in 1..(Len(h) + Len(l))
      BY <2>1
    <3> QED
      BY <1>6, <2>1, <3>1
  <2>3. b[i] = IF i <= x THEN s[i] ELSE r[i - x]
    BY <1>5
  <2>4. /\ \A j \in 1..(x + 1) : h[j] = IF j <= x THEN s[j] ELSE r[1]
        /\ \A j \in 1..(y - 1) : l[j] = r[j + 1]
    BY <1>3, <1>4
  <2> HIDE DEF x, y
  <2>5. CASE i <= x
    <3>1. i \in 1..(x + 1) /\ i <= x + 1
      BY <2>1, <2>5
    <3> QED
      BY <2>2, <2>3, <2>4, <2>5, <3>1
  <2>6. CASE i = x + 1
    <3>1. i \in 1..(x + 1) /\ i <= x + 1 /\ ~(i <= x) /\ i - x = 1
      BY <2>1, <2>6
    <3> QED
      BY <2>2, <2>3, <2>4, <3>1
  <2>7. CASE i > x + 1
    <3> DEFINE j == i - (x + 1)
    <3>1. j \in 1..(y - 1) /\ j + 1 = i - x /\ ~(i <= x) /\ ~(i <= x + 1)
      BY <2>1, <2>7
    <3>2. a[i] = l[j] /\ b[i] = r[i - x]
      BY <2>2, <2>3, <3>1
    <3> HIDE DEF j
    <3> QED
      BY <2>4, <3>1, <3>2
  <2> QED
    BY <2>1, <2>5, <2>6, <2>7
<1>8. Len(a) = x + y /\ Len(b) = x + y
  BY <1>1, <1>3, <1>4, <1>5, <1>6
<1>9. a = b
  <2>1. Len(a) = Len(b) /\ \A i \in 1..Len(a) : a[i] = b[i]
    BY <1>7, <1>8
  <2> QED
    BY <1>5, <1>6, <2>1, SeqEqual
<1> QED
  BY <1>9 DEF a, b, h, l

\* Bytes are joined in any order.
LEMMA Joined ==
  ASSUME NEW B, NEW x \in Seq(B), NEW y \in Seq(B), NEW z \in Seq(B)
  PROVE  x \o (y \o z) = (x \o y) \o z
BY ConcatAssociative

\* So it is when more is pending behind it.
LEMMA ByteMovesFirst ==
  ASSUME NEW B, NEW s \in Seq(B), NEW r \in Seq(B), r # <<>>, NEW a \in Seq(B)
  PROVE  Append(s, Head(r)) \o (Tail(r) \o a) = s \o (r \o a)
<1> DEFINE h == Append(s, Head(r))
           l == Tail(r)
<1>1. Head(r) \in B /\ l \in Seq(B)
  OBVIOUS
<1>2. h \in Seq(B)
  BY <1>1, AppendProperties
<1>3. h \o l = s \o r
  BY ByteMoves
<1> HIDE DEF h, l
<1>4. h \o (l \o a) = (h \o l) \o a
  BY <1>1, <1>2, Joined
<1>5. s \o (r \o a) = (s \o r) \o a
  BY Joined
<1> QED
  BY <1>3, <1>4, <1>5, Zenon DEF h, l

---------------------------------------------------------------------------
(* Frames and their places.                                                *)

\* A frame is its header, and then its payload.
LEMMA FrameAt ==
  ASSUME NEW p \in Seq(Byte), Len(p) <= MaxSize
  PROVE  /\ PutUint32(Len(p)) \in Seq(Byte) /\ Len(PutUint32(Len(p))) = Header
         /\ Frame(p) \in Seq(Byte) /\ Len(Frame(p)) = Header + Len(p)
         /\ \A t \in 1..Header : Frame(p)[t] = PutUint32(Len(p))[t]
         /\ \A t \in 1..Len(p) : Frame(p)[Header + t] = p[t]
<1> DEFINE h == PutUint32(Len(p))
           f == h \o p
<1>1. Len(p) \in Nat /\ Header \in Nat /\ MaxSize \in Nat
  BY LenProperties, FrameAssumption
<1>2. h \in [1..Header -> Byte]
  BY <1>1, BinaryAssumption
<1> HIDE DEF h
<1>3. h \in Seq(Byte) /\ Len(h) = Header
  BY <1>1, <1>2, LenProperties
<1>4. /\ f \in Seq(Byte) /\ Len(f) = Len(h) + Len(p)
      /\ \A i \in 1..(Len(h) + Len(p)) : f[i] = IF i <= Len(h) THEN h[i] ELSE p[i - Len(h)]
  BY <1>3, ConcatProperties, Zenon
<1> HIDE DEF f
<1>5. \A t \in 1..Header : f[t] = h[t]
  BY <1>1, <1>3, <1>4
<1>6. \A t \in 1..Len(p) : f[Header + t] = p[t]
  <2> TAKE t \in 1..Len(p)
  <2> DEFINE x == Header + t
  <2>1. x \in 1..(Len(h) + Len(p)) /\ ~(x <= Len(h)) /\ x - Len(h) = t
    BY <1>1, <1>3
  <2> HIDE DEF x
  <2>2. f[x] = p[t]
    BY <1>4, <2>1
  <2> QED
    BY <2>2 DEF x
<1> QED
  BY <1>3, <1>4, <1>5, <1>6 DEF f, h, Frame

\* Reading n bytes moves every frame by n places.
LEMMA PlacedRead ==
  ASSUME NEW c, NEW q \in Seq(Seq(Byte)), NEW S \in Seq(Byte), NEW full \in BOOLEAN,
         NEW k \in Nat, NEW d \in Nat, Placed(c, q, S, full, k, d),
         NEW n \in 0..Len(S)
  PROVE  \E b : Placed(b, q, Drop(S, n), full, k, d + n)
<1> DEFINE m == Len(q)
           b == [i \in 1..(m + 1) |-> c[i] - n]
           R == Drop(S, n)
<1>1. m \in Nat /\ Len(S) \in Nat /\ n \in Nat /\ Header \in Nat
  BY LenProperties, FrameAssumption
<1>2. /\ R \in Seq(Byte) /\ Len(R) = Len(S) - n
      /\ \A t \in 1..(Len(S) - n) : R[t] = S[n + t]
  BY DropAt
<1>3. \A i \in 1..m : Len(q[i]) \in Nat
  BY LenProperties, ElementOfSeq
<1>4. /\ c \in [1..(m + 1) -> Int]
      /\ \A i \in 1..m : c[i + 1] = c[i] + Header + Len(q[i])
      /\ \A i, j \in 1..(m + 1) : i <= j => c[i] <= c[j]
      /\ k \in 1..(m + 1) /\ c[k] = 0 - d
      /\ Len(S) <= c[m + 1]
      /\ full => Len(S) = c[m + 1]
      /\ \A i \in k..m : \A t \in 1..(Header + Len(q[i])) :
           c[i] + t \in 1..Len(S) => S[c[i] + t] = Frame(q[i])[t]
  BY DEF Placed
<1> HIDE DEF m, R
<1>5. b \in [1..(m + 1) -> Int] /\ \A i \in 1..(m + 1) : b[i] = c[i] - n
  BY <1>1, <1>4
<1> HIDE DEF b
<1>6. \A i \in 1..m : b[i + 1] = b[i] + Header + Len(q[i])
  <2> TAKE i \in 1..m
  <2>1. i \in 1..(m + 1) /\ i + 1 \in 1..(m + 1)
    BY <1>1
  <2>2. c[i] \in Int /\ c[i + 1] = c[i] + Header + Len(q[i]) /\ Len(q[i]) \in Nat
    BY <1>3, <1>4, <2>1, Zenon
  <2>3. b[i] = c[i] - n /\ b[i + 1] = c[i + 1] - n
    BY <1>5, <2>1
  <2>4. \A x \in Int, l \in Nat : (x + Header + l) - n = (x - n) + Header + l
    BY <1>1
  <2>5. (c[i] + Header + Len(q[i])) - n = (c[i] - n) + Header + Len(q[i])
    BY <2>2, <2>4, Zenon
  <2> QED
    BY <2>2, <2>3, <2>5, Zenon
<1>7. \A i, j \in 1..(m + 1) : i <= j => b[i] <= b[j]
  <2> TAKE i, j \in 1..(m + 1)
  <2>1. c[i] \in Int /\ c[j] \in Int /\ b[i] = c[i] - n /\ b[j] = c[j] - n
    BY <1>4, <1>5, Zenon
  <2>2. i <= j => c[i] <= c[j]
    BY <1>4
  <2> QED
    BY <1>1, <2>1, <2>2
<1>8. b[k] = 0 - (d + n) /\ Len(R) <= b[m + 1] /\ (full => Len(R) = b[m + 1])
  <2>1. m + 1 \in 1..(m + 1) /\ c[m + 1] \in Int
    BY <1>1, <1>4
  <2>2. b[k] = c[k] - n /\ b[m + 1] = c[m + 1] - n
    BY <1>4, <1>5, <2>1
  <2>3. c[k] = 0 - d /\ Len(S) <= c[m + 1] /\ (full => Len(S) = c[m + 1])
    BY <1>4
  <2>4. b[k] = 0 - (d + n)
    BY <1>1, <2>2, <2>3
  <2>5. Len(R) <= b[m + 1]
    BY <1>1, <1>2, <2>1, <2>2, <2>3
  <2>6. ASSUME full PROVE Len(R) = b[m + 1]
    BY <1>1, <1>2, <2>1, <2>2, <2>3, <2>6, Zenon
  <2> QED
    BY <2>4, <2>5, <2>6
<1>9. ASSUME NEW i \in k..m, NEW t \in 1..(Header + Len(q[i])), b[i] + t \in 1..Len(R)
      PROVE  R[b[i] + t] = Frame(q[i])[t]
  <2>4. i \in 1..m /\ i \in 1..(m + 1)
    <3>1. k \in 1..(m + 1)
      BY <1>4
    <3> QED
      BY <1>1, <3>1
  <2>5. Len(q[i]) \in Nat
    BY <1>3, <2>4
  <2>6. c[i] \in Int /\ b[i] = c[i] - n
    BY <1>4, <1>5, <2>4, Zenon
  <2>1. i \in 1..m /\ t \in Nat /\ c[i] \in Int /\ b[i] = c[i] - n
    BY <1>1, <2>4, <2>5, <2>6
  <2>2. c[i] + t \in 1..Len(S) /\ n + (b[i] + t) = c[i] + t
    <3>1. b[i] + t \in 1..(Len(S) - n)
      BY <1>2, <1>9
    <3>2. c[i] - n + t \in 1..(Len(S) - n)
      BY <2>1, <3>1
    <3>3. \A x \in Int, l \in Nat : x - n + t \in 1..(l - n) => x + t \in 1..l
      BY <1>1, <2>1
    <3>5. c[i] + t \in 1..Len(S)
      BY <1>1, <2>1, <3>2, <3>3, Zenon
    <3>4. n + (b[i] + t) = c[i] + t
      BY <1>1, <2>1
    <3> QED
      BY <3>4, <3>5
  <2>3. R[b[i] + t] = S[c[i] + t]
    BY <1>2, <1>9, <2>2, Zenon
  <2> QED
    BY <1>4, <2>2, <2>3
<1>10. Placed(b, q, R, full, k, d + n)
  BY <1>4, <1>5, <1>6, <1>7, <1>8, <1>9 DEF Placed, m
<1> QED
  BY <1>10 DEF R

\* What can be read next belongs to the frame whose turn it is.
LEMMA PlacedNow ==
  ASSUME NEW c, NEW q \in Seq(Seq(Byte)), NEW S \in Seq(Byte), NEW full \in BOOLEAN,
         NEW k \in Nat, NEW d \in Nat, Placed(c, q, S, full, k, d), S # <<>>
  PROVE  /\ k \in 1..Len(q)
         /\ \A t \in 1..Len(S) :
              d + t <= Header + Len(q[k]) => S[t] = Frame(q[k])[d + t]
<1>1. Len(q) \in Nat /\ Len(S) \in Nat \ {0} /\ Header \in Nat
  BY EmptySeq, LenProperties, FrameAssumption
<1>2. k \in 1..(Len(q) + 1) /\ c[k] = 0 - d /\ Len(S) <= c[Len(q) + 1]
  BY DEF Placed
<1>3. k \in 1..Len(q)
  BY <1>1, <1>2
<1>4. Len(q[k]) \in Nat
  BY <1>3, LenProperties, ElementOfSeq
<1>5. ASSUME NEW t \in 1..Len(S), d + t <= Header + Len(q[k])
      PROVE  S[t] = Frame(q[k])[d + t]
  <2>1. d + t \in 1..(Header + Len(q[k])) /\ k \in k..Len(q)
    BY <1>1, <1>3, <1>4, <1>5
  <2>2. c[k] + (d + t) = t
    BY <1>1, <1>2
  <2> QED
    BY <2>1, <2>2, Zenon DEF Placed
<1> QED
  BY <1>3, <1>5

\* After a frame it is the turn of the next.
LEMMA PlacedNext ==
  ASSUME NEW c, NEW q \in Seq(Seq(Byte)), NEW S \in Seq(Byte), NEW full \in BOOLEAN,
         NEW k \in 1..Len(q), Placed(c, q, S, full, k, Header + Len(q[k]))
  PROVE  Placed(c, q, S, full, k + 1, 0)
<1>1. Len(q) \in Nat /\ Header \in Nat /\ Len(q[k]) \in Nat
  BY ElementOfSeq, LenProperties, FrameAssumption
<1>2. c[k + 1] = c[k] + Header + Len(q[k]) /\ c[k] = 0 - (Header + Len(q[k]))
  BY DEF Placed
<1>3. k + 1 \in 1..(Len(q) + 1) /\ c[k + 1] = 0 - 0
  BY <1>1, <1>2
<1>4. \A i \in (k + 1)..Len(q) : i \in k..Len(q)
  BY <1>1
<1> QED
  BY <1>3, <1>4, Zenon DEF Placed

\* What is cut off is missing at the end.
LEMMA PlacedCut ==
  ASSUME NEW c, NEW q \in Seq(Seq(Byte)), NEW S \in Seq(Byte), NEW r \in Seq(Byte),
         NEW full, NEW k, NEW d, Placed(c, q, S \o r, full, k, d)
  PROVE  Placed(c, q, S, FALSE, k, d)
<1> DEFINE u == S \o r
<1>1. Len(S) \in Nat /\ Len(r) \in Nat /\ Len(q) \in Nat
  BY LenProperties
<1>2. Len(u) = Len(S) + Len(r) /\ \A i \in 1..Len(S) : i \in 1..Len(u) /\ u[i] = S[i]
  BY <1>1, ConcatProperties
<1>3. Placed(c, q, u, full, k, d)
  OBVIOUS
<1> HIDE DEF u
<1>4. Len(S) <= c[Len(q) + 1]
  <2>1. Len(u) <= c[Len(q) + 1] /\ c \in [1..(Len(q) + 1) -> Int]
    BY <1>3 DEF Placed
  <2>2. Len(q) + 1 \in 1..(Len(q) + 1)
    BY <1>1
  <2>3. c[Len(q) + 1] \in Int
    BY <2>1, <2>2, Zenon
  <2> QED
    BY <1>1, <1>2, <2>1, <2>3
<1> QED
  BY <1>2, <1>3, <1>4, Zenon DEF Placed

\* A frame that is begun has its place after the others.
LEMMA PlacedMore ==
  ASSUME NEW c, NEW q \in Seq(Seq(Byte)), NEW S \in Seq(Byte), NEW full \in BOOLEAN,
         NEW k, NEW d, Placed(c, q, S, full, k, d),
         NEW p \in Seq(Byte), Len(p) <= MaxSize
  PROVE  \E b : Placed(b, Append(q, p), IF full THEN S \o Frame(p) ELSE S, full, k, d)
<1> DEFINE m == Len(q)
           e == c[m + 1] + Header + Len(p)
           b == [i \in 1..(m + 2) |-> IF i <= m + 1 THEN c[i] ELSE e]
           a == Append(q, p)
           f == Frame(p)
           u == S \o f
           R == IF full THEN u ELSE S
<1>1. m \in Nat /\ Len(S) \in Nat /\ Header \in Nat /\ Len(p) \in Nat
  BY LenProperties, FrameAssumption
<1>2. f \in Seq(Byte) /\ Len(f) = Header + Len(p)
  BY FrameAt
<1>3. \A i \in 1..m : Len(q[i]) \in Nat
  BY LenProperties, ElementOfSeq
<1>4. /\ c \in [1..(m + 1) -> Int]
      /\ \A i \in 1..m : c[i + 1] = c[i] + Header + Len(q[i])
      /\ \A i, j \in 1..(m + 1) : i <= j => c[i] <= c[j]
      /\ k \in 1..(m + 1) /\ c[k] = 0 - d
      /\ Len(S) <= c[m + 1]
      /\ full => Len(S) = c[m + 1]
      /\ \A i \in k..m : \A t \in 1..(Header + Len(q[i])) :
           c[i] + t \in 1..Len(S) => S[c[i] + t] = Frame(q[i])[t]
  BY DEF Placed
<1>5. /\ Len(a) = m + 1 /\ a[m + 1] = p
      /\ \A i \in 1..m : a[i] = q[i]
  BY <1>1, AppendProperties
<1> HIDE DEF f
<1>6. /\ Len(u) = Len(S) + Len(f)
      /\ \A i \in 1..(Len(S) + Len(f)) : u[i] = IF i <= Len(S) THEN S[i] ELSE f[i - Len(S)]
  BY <1>2, ConcatProperties
<1>7. c[m + 1] \in Int /\ e \in Int /\ c[m + 1] <= e
  BY <1>1, <1>4
<1>0. (full => R = u) /\ (~full => R = S)
  OBVIOUS
<1> HIDE DEF a, u, e, m, R
<1>8. /\ b \in [1..(m + 2) -> Int]
      /\ \A i \in 1..(m + 1) : b[i] = c[i]
      /\ b[m + 2] = e
  BY <1>1, <1>4, <1>7
<1> HIDE DEF b
<1>9. \A i \in 1..Len(a) : b[i + 1] = b[i] + Header + Len(a[i])
  <2> TAKE i \in 1..Len(a)
  <2>1. CASE i \in 1..m
    <3>1. i \in 1..(m + 1) /\ i + 1 \in 1..(m + 1)
      BY <1>1, <2>1
    <3> QED
      BY <1>4, <1>5, <1>8, <2>1, <3>1, Zenon
  <2>2. CASE i = m + 1
    <3>1. b[i] = c[m + 1] /\ a[i] = p
      BY <1>1, <1>5, <1>8, <2>2
    <3>2. i + 1 = m + 2
      BY <1>1, <2>2
    <3> QED
      BY <1>8, <3>1, <3>2 DEF e
  <2> QED
    BY <1>1, <1>5, <2>1, <2>2
<1>10. \A i, j \in 1..(Len(a) + 1) : i <= j => b[i] <= b[j]
  <2> SUFFICES ASSUME NEW i \in 1..(Len(a) + 1), NEW j \in 1..(Len(a) + 1), i <= j
               PROVE  b[i] <= b[j]
    OBVIOUS
  <2>1. CASE j \in 1..(m + 1)
    <3>1. i \in 1..(m + 1)
      BY <1>1, <1>5, <2>1
    <3>2. b[i] = c[i] /\ b[j] = c[j] /\ c[i] <= c[j]
      BY <1>4, <1>8, <2>1, <3>1
    <3> QED
      BY <3>2
  <2>2. CASE j = m + 2 /\ i = m + 2
    BY <1>7, <1>8, <2>2
  <2>3. CASE j = m + 2 /\ i \in 1..(m + 1)
    <3>1. m + 1 \in 1..(m + 1) /\ i <= m + 1
      BY <1>1, <2>3
    <3>2. b[i] = c[i] /\ c[i] \in Int /\ c[i] <= c[m + 1] /\ b[j] = e
      BY <1>4, <1>8, <2>3, <3>1, Zenon
    <3> QED
      BY <1>7, <3>2
  <2> QED
    BY <1>1, <1>5, <2>1, <2>2, <2>3
<1>11. Len(a) + 1 = m + 2 /\ k \in 1..(Len(a) + 1) /\ b[k] = 0 - d
  <2>1. Len(a) + 1 = m + 2 /\ k \in 1..(m + 2)
    BY <1>1, <1>4, <1>5
  <2>2. b[k] = c[k] /\ c[k] = 0 - d
    BY <1>4, <1>8
  <2> QED
    BY <2>1, <2>2, Zenon
<1>12. Len(R) <= e
  <2>1. CASE full
    BY <1>0, <1>1, <1>2, <1>4, <1>6, <1>7, <2>1 DEF e
  <2>2. CASE ~full
    BY <1>0, <1>1, <1>4, <1>7, <2>2
  <2> QED
    BY <2>1, <2>2
<1>13. ASSUME full PROVE Len(R) = e
  <2>1. Len(R) = Len(S) + (Header + Len(p)) /\ Len(S) = c[m + 1]
    BY <1>0, <1>2, <1>4, <1>6, <1>13
  <2> QED
    BY <1>1, <2>1 DEF e
<1>14. ASSUME NEW i \in k..m, NEW t \in 1..(Header + Len(q[i])), b[i] + t \in 1..Len(R)
       PROVE  R[b[i] + t] = Frame(q[i])[t]
  <2>1. i \in 1..m /\ i + 1 \in 1..(m + 1) /\ i + 1 <= m + 1 /\ m + 1 \in 1..(m + 1) /\ i \in 1..(m + 1)
    <3>1. k \in Nat \ {0}
      BY <1>1, <1>4
    <3> QED
      BY <1>1, <3>1
  <2>2. /\ b[i] = c[i] /\ c[i] \in Int /\ c[i + 1] \in Int
        /\ c[i + 1] = c[i] + Header + Len(q[i]) /\ c[i + 1] <= c[m + 1]
        /\ Len(q[i]) \in Nat
    BY <1>3, <1>4, <1>8, <2>1, Zenon
  <2>3. c[i] + t \in Int /\ c[i] + t <= c[m + 1] /\ c[i] + t \in 1..Len(R)
    <3>1. t \in Nat /\ t <= Header + Len(q[i])
      BY <1>1, <2>2
    <3>2. c[i] + t \in Int /\ c[i] + t <= c[i + 1]
      <4>1. \A x \in Int, l \in Nat : t <= Header + l => x + t \in Int /\ x + t <= x + Header + l
        BY <1>1, <3>1
      <4>2. c[i] + t \in Int /\ c[i] + t <= c[i] + Header + Len(q[i])
        BY <2>2, <3>1, <4>1, Zenon
      <4> QED
        BY <2>2, <4>2, Zenon
    <3>3. c[m + 1] \in Int
      BY <1>4, <2>1
    <3>4. c[i] + t <= c[m + 1]
      <4>1. \A x, y, z \in Int : x <= y /\ y <= z => x <= z
        OBVIOUS
      <4> QED
        BY <2>2, <3>2, <3>3, <4>1
    <3> QED
      BY <1>14, <2>2, <3>2, <3>4
  <2>4. c[i] + t \in 1..Len(S) /\ R[c[i] + t] = S[c[i] + t]
    <3>1. CASE full
      <4>1. c[i] + t \in 1..Len(S) /\ c[i] + t \in 1..(Len(S) + Len(f))
        <5>1. Len(S) = c[m + 1] /\ Len(f) \in Nat
          BY <1>1, <1>2, <1>4, <3>1
        <5>2. c[i] + t <= Len(S) /\ 1 <= c[i] + t
          BY <2>3, <5>1
        <5> QED
          BY <1>1, <2>3, <5>1, <5>2
      <4>2. R = u
        BY <1>0, <3>1
      <4> QED
        BY <1>6, <4>1, <4>2
    <3>2. CASE ~full
      BY <1>0, <2>3, <3>2
    <3> QED
      BY <3>1, <3>2
  <2> QED
    BY <1>4, <2>2, <2>4
<1>15. ASSUME NEW t \in 1..(Header + Len(p)), b[m + 1] + t \in 1..Len(R)
       PROVE  R[b[m + 1] + t] = f[t]
  <2>1. b[m + 1] = c[m + 1]
    BY <1>1, <1>8
  <2>2. CASE full
    <3> DEFINE x == Len(S) + t
    <3>1. x \in 1..(Len(S) + Len(f)) /\ ~(x <= Len(S)) /\ x - Len(S) = t
      BY <1>1, <1>2
    <3> HIDE DEF x
    <3>2. u[x] = f[t]
      BY <1>6, <3>1
    <3> QED
      BY <1>0, <1>4, <2>1, <2>2, <3>2, Zenon DEF x
  <2>3. CASE ~full
    <3>1. c[m + 1] + t \in 1..Len(S)
      BY <1>0, <1>15, <2>1, <2>3
    <3>2. t \in Nat \ {0}
      BY <1>1
    <3> QED
      BY <1>1, <1>4, <1>7, <3>1, <3>2
  <2> QED
    BY <2>2, <2>3
<1>16. \A i \in k..Len(a) : \A t \in 1..(Header + Len(a[i])) :
         b[i] + t \in 1..Len(R) => R[b[i] + t] = Frame(a[i])[t]
  <2> TAKE i \in k..Len(a)
  <2>1. CASE i = m + 1
    BY <1>5, <1>15, <2>1 DEF f
  <2>2. CASE i \in k..m
    <3>1. a[i] = q[i]
      BY <1>1, <1>4, <1>5, <2>2
    <3> QED
      BY <1>14, <2>2, <3>1
  <2> QED
    BY <1>1, <1>4, <1>5, <2>1, <2>2
<1>17. Placed(b, a, R, full, k, d)
  BY <1>8, <1>9, <1>10, <1>11, <1>12, <1>13, <1>16 DEF Placed
<1> QED
  BY <1>17 DEF a, R, u, f

---------------------------------------------------------------------------
(* What the steps have in common.                                          *)

\* What is pending and what is under way are bytes.
LEMMA StreamType ==
  ASSUME TypeOK
  PROVE  /\ Pending \in Seq(Byte) /\ Stream \in Seq(Byte)
         /\ Turn \in Nat \ {0} /\ Consumed \in Nat
<1>1. Pending \in Seq(Byte)
  <2>1. CASE lock = NoWriter
    BY <2>1 DEF Pending
  <2>2. CASE lock # NoWriter
    <3>1. lock \in Writer
      BY <2>2 DEF TypeOK
    <3>2. todo[lock] \in Seq(Byte) /\ payload[lock] \in Seq(Byte)
      BY <3>1 DEF TypeOK
    <3>3. todo[lock] \o payload[lock] \in Seq(Byte)
      BY <3>2, ConcatProperties
    <3> QED
      BY <2>2, <3>2, <3>3 DEF Pending
  <2> QED
    BY <2>1, <2>2
<1>2. pipe \in Seq(Byte) /\ pipe \o Pending \in Seq(Byte)
  BY <1>1, ConcatProperties DEF TypeOK
<1>3. Turn \in Nat \ {0}
  BY LenProperties DEF TypeOK, Turn
<1>4. Len(got) \in Nat /\ Header \in Nat /\ filled \in Nat
  BY LenProperties, FrameAssumption DEF TypeOK
<1>5. Consumed \in Nat
  BY <1>4 DEF Consumed
<1> QED
  BY <1>1, <1>2, <1>3, <1>5 DEF Stream

\* What a writer does before or after its turn does not touch the reader.
LEMMA ReaderKept ==
  ASSUME Inv, UNCHANGED <<sent, reader>>, open' => open
  PROVE  SentOK' /\ ReceivedOK' /\ RefusedOK' /\ PartOK' /\ BufferOK'
<1> USE DEF Inv, reader
<1>1. SentOK'
  BY DEF SentOK
<1>2. ReceivedOK'
  BY DEF ReceivedOK
<1>3. RefusedOK'
  BY DEF RefusedOK, Turn
<1>4. PartOK'
  BY DEF PartOK, Turn, Reading
<1>5. BufferOK'
  BY DEF BufferOK
<1> QED
  BY <1>1, <1>2, <1>3, <1>4, <1>5

\* As long as the stream is the same, the frames are where they were.
LEMMA StreamKept ==
  ASSUME Inv, UNCHANGED <<sent, open, reader>>, Stream' = Stream
  PROVE  StreamOK'
<1>1. /\ Turn' = Turn /\ Consumed' = Consumed /\ Reading' = Reading
      /\ sent' = sent /\ open' = open /\ whole' = whole
  BY DEF Turn, Consumed, Reading, reader
<1>2. StreamOK
  BY DEF Inv
<1> QED
  BY <1>1, <1>2 DEF StreamOK

\* What the reader does does not touch the writers.
LEMMA WritersKept ==
  ASSUME Inv, UNCHANGED writers
  PROVE  (\A w \in Writer : WriterOK(w))' /\ SentOK' /\ Pending' = Pending
<1>1. (\A w \in Writer : WriterOK(w))'
  BY DEF Inv, WriterOK, writers
<1>2. SentOK'
  BY DEF Inv, SentOK, writers
<1>3. Pending' = Pending
  BY DEF Pending, writers
<1> QED
  BY <1>1, <1>2, <1>3

\* Bytes read from the connection are read from the stream.
LEMMA BytesRead ==
  ASSUME Inv, NEW n \in 0..Len(pipe), pipe' = Drop(pipe, n), UNCHANGED <<writers, open>>
  PROVE  Stream' = Drop(Stream, n) /\ n \in 0..Len(Stream)
<1>1. pipe \in Seq(Byte) /\ Pending \in Seq(Byte) /\ Pending' = Pending
  BY StreamType, WritersKept DEF Inv, TypeOK
<1>2. Drop(pipe, n) \o Pending = Drop(pipe \o Pending, n) /\ n \in 0..Len(pipe \o Pending)
  BY <1>1, DropFront, Zenon
<1>3. CASE open
  BY <1>1, <1>2, <1>3 DEF Stream
<1>4. CASE ~open
  BY <1>4 DEF Stream
<1> QED
  BY <1>3, <1>4

\* What is read is a part of the frame whose turn it is.
LEMMA BytesNext ==
  ASSUME Inv, whole, Reading, pipe # <<>>
  PROVE  /\ Turn \in 1..Len(sent)
         /\ \A t \in 1..Len(pipe) :
              Consumed + t <= Header + Len(sent[Turn]) =>
                pipe[t] = Frame(sent[Turn])[Consumed + t]
<1>1. /\ pipe \in Seq(Byte) /\ Pending \in Seq(Byte) /\ Stream \in Seq(Byte)
      /\ Turn \in Nat /\ Consumed \in Nat /\ sent \in Seq(Seq(Byte)) /\ open \in BOOLEAN
  BY StreamType DEF Inv, TypeOK
<1>2. Len(pipe) \in Nat \ {0} /\ Len(Pending) \in Nat
  BY <1>1, EmptySeq, LenProperties
<1>3. Len(Stream) \in Nat /\ Len(pipe) <= Len(Stream) /\ \A t \in 1..Len(pipe) : Stream[t] = pipe[t]
  <2>1. CASE open
    <3> DEFINE u == pipe \o Pending
    <3>1. /\ Len(u) = Len(pipe) + Len(Pending)
          /\ \A i \in 1..(Len(pipe) + Len(Pending)) :
               u[i] = IF i <= Len(pipe) THEN pipe[i] ELSE Pending[i - Len(pipe)]
      BY <1>1, ConcatProperties
    <3>2. Stream = u
      BY <2>1 DEF Stream
    <3> HIDE DEF u
    <3> QED
      BY <1>2, <3>1, <3>2
  <2>2. CASE ~open
    BY <1>2, <2>2 DEF Stream
  <2> QED
    BY <2>1, <2>2
<1>4. Stream # <<>>
  BY <1>2, <1>3, EmptySeq
<1>5. PICK c : Placed(c, sent, Stream, open, Turn, Consumed)
  BY DEF Inv, StreamOK
<1>6. /\ Turn \in 1..Len(sent)
      /\ \A t \in 1..Len(Stream) :
           Consumed + t <= Header + Len(sent[Turn]) =>
             Stream[t] = Frame(sent[Turn])[Consumed + t]
  BY <1>1, <1>4, <1>5, PlacedNow
<1>7. \A t \in 1..Len(pipe) : t \in 1..Len(Stream)
  BY <1>2, <1>3
<1> QED
  BY <1>3, <1>6, <1>7

\* The reader has got n bytes further in its frame.
LEMMA StreamRead ==
  ASSUME Inv, whole, Reading, NEW n \in 0..Len(pipe), pipe' = Drop(pipe, n),
         UNCHANGED <<writers, open>>, Turn' = Turn, Consumed' = Consumed + n
  PROVE  StreamOK'
<1>1. /\ Stream \in Seq(Byte) /\ Turn \in Nat /\ Consumed \in Nat
      /\ sent \in Seq(Seq(Byte)) /\ open \in BOOLEAN
  BY StreamType DEF Inv, TypeOK
<1>2. Stream' = Drop(Stream, n) /\ n \in 0..Len(Stream) /\ sent' = sent /\ open' = open
  BY BytesRead DEF writers
<1>3. PICK c : Placed(c, sent, Stream, open, Turn, Consumed)
  BY DEF Inv, StreamOK
<1>4. \E b : Placed(b, sent, Drop(Stream, n), open, Turn, Consumed + n)
  BY <1>1, <1>2, <1>3, PlacedRead
<1> QED
  BY <1>2, <1>4 DEF StreamOK

---------------------------------------------------------------------------
(* The writers' steps.                                                     *)

\* WriteFrame's check: nothing is under way yet.
LEMMA WriteFrameKeeps ==
  ASSUME Inv, NEW w \in Writer, NEW p \in Payload, WriteFrame(w, p)
  PROVE  Inv'
<1> USE DEF WriteFrame
<1>1. p \in Seq(Byte) /\ Len(p) <= MaxSize
  <2>1. PICK m \in 0..(MaxSize + 1) : p \in [1..m -> Byte]
    BY DEF Payload
  <2>2. m \in Nat
    BY <2>1, FrameAssumption
  <2> QED
    BY <2>1, <2>2
<1>2. lock # w
  BY ZenonT(30) DEF Inv, TypeOK, WriterOK
<1>3. TypeOK'
  BY <1>1 DEF Inv, TypeOK, reader
<1>4. ASSUME NEW v \in Writer PROVE WriterOK(v)'
  <2>1. WriterOK(v)
    BY DEF Inv
  <2>2. CASE v = w
    <3>1. wpc'[v] = "lock" /\ payload'[v] = p
      BY <2>2 DEF Inv, TypeOK
    <3> QED
      BY <1>1, <1>2, <2>1, <2>2, <3>1 DEF WriterOK
  <2>3. CASE v # w
    <3>1. wpc'[v] = wpc[v] /\ payload'[v] = payload[v]
      BY <2>3 DEF Inv, TypeOK
    <3> QED
      BY <2>1, <3>1 DEF WriterOK
  <2> QED
    BY <2>2, <2>3
<1>5. Pending' = Pending
  <2>1. CASE lock = NoWriter
    BY <2>1 DEF Pending
  <2>2. CASE lock \in Writer
    <3>1. wpc'[lock] = wpc[lock] /\ payload'[lock] = payload[lock]
      BY <1>2, <2>2 DEF Inv, TypeOK
    <3> QED
      BY <3>1 DEF Pending
  <2> QED
    BY <2>1, <2>2 DEF Inv, TypeOK
<1>6. Stream' = Stream
  BY <1>5 DEF Stream
<1>7. StreamOK'
  BY <1>6, StreamKept
<1>8. SentOK' /\ ReceivedOK' /\ RefusedOK' /\ PartOK' /\ BufferOK'
  BY ReaderKept
<1> QED
  BY <1>3, <1>4, <1>7, <1>8 DEF Inv

\* The next frame is begun: its bytes come after those that are pending.
LEMMA LockKeeps ==
  ASSUME Inv, NEW w \in Writer, Lock(w)
  PROVE  Inv'
<1> USE DEF Lock
<1> DEFINE p == payload[w]
           h == PutUint32(Len(p))
<1>1. p \in Seq(Byte) /\ Len(p) <= MaxSize /\ sent \in Seq(Seq(Byte)) /\ Len(sent) \in Nat
  BY LenProperties DEF Inv, TypeOK, WriterOK
<1>2. h \in Seq(Byte) /\ Frame(p) = h \o p
  BY <1>1, FrameAt DEF Frame
<1>3. sent' = Append(sent, p) /\ lock = NoWriter /\ w # NoWriter
  BY FrameAssumption
<1>4. wpc'[w] = "header" /\ payload'[w] = p /\ todo'[w] = h /\ lock' = w
  BY DEF Inv, TypeOK
<1>5. TypeOK'
  <2>1. sent' \in Seq(Seq(Byte))
    BY <1>1, <1>3, AppendProperties
  <2>2. todo' \in [Writer -> Seq(Byte)]
    BY <1>2 DEF Inv, TypeOK
  <2> QED
    BY <2>1, <2>2 DEF Inv, TypeOK, reader
<1>6. ASSUME NEW v \in Writer PROVE WriterOK(v)'
  <2>1. WriterOK(v) /\ lock # v
    BY FrameAssumption DEF Inv
  <2>2. CASE v = w
    BY <1>1, <1>4, <2>2 DEF WriterOK
  <2>3. CASE v # w
    <3>1. wpc'[v] = wpc[v] /\ payload'[v] = payload[v] /\ todo'[v] = todo[v]
      BY <2>3 DEF Inv, TypeOK
    <3> QED
      BY <1>4, <2>1, <2>3, <3>1 DEF WriterOK
  <2> QED
    BY <2>2, <2>3
<1> HIDE DEF p, h, Lock
<1>7. /\ Len(sent') = Len(sent) + 1 /\ sent'[Len(sent) + 1] = p
      /\ \A i \in 1..Len(sent) : sent'[i] = sent[i]
  BY <1>1, <1>3, AppendProperties
<1>8. UNCHANGED <<pipe, open, reader, payload>>
  BY DEF Lock
<1>9. SentOK'
  BY <1>1, <1>7 DEF Inv, SentOK
<1>10. ReceivedOK'
  <2>1. Len(received) \in Nat
    BY LenProperties DEF Inv, TypeOK
  <2> QED
    BY <1>1, <1>7, <1>8, <2>1 DEF Inv, ReceivedOK, reader
<1>11. Turn' = Turn /\ (Turn <= Len(sent) => Turn <= Len(sent') /\ sent'[Turn] = sent[Turn])
  <2>1. Turn \in Nat \ {0} /\ Turn' = Turn
    BY <1>8, StreamType DEF Inv, Turn, reader
  <2> QED
    BY <1>1, <1>7, <2>1
<1>12. RefusedOK'
  BY <1>8, <1>11 DEF Inv, RefusedOK, reader
<1>13. PartOK'
  BY <1>8, <1>11 DEF Inv, PartOK, Reading, reader
<1>14. BufferOK'
  BY <1>8 DEF Inv, BufferOK, reader
<1>15. ASSUME whole, Reading PROVE \E b : Placed(b, sent', Stream', open', Turn', Consumed')
  <2>1. pipe \in Seq(Byte) /\ Stream \in Seq(Byte) /\ open \in BOOLEAN
    BY StreamType DEF Inv, TypeOK
  <2>2. Stream = pipe
    BY <1>3, <2>1, ConcatEmptySeq DEF Stream, Pending
  <2>3. Stream' = IF open THEN Stream \o Frame(p) ELSE Stream
    <3>1. Pending' = h \o p
      BY <1>3, <1>4, Zenon DEF Pending
    <3> QED
      BY <1>2, <1>8, <2>2, <3>1, Zenon DEF Stream
  <2>4. PICK c : Placed(c, sent, Stream, open, Turn, Consumed)
    BY <1>15 DEF Inv, StreamOK
  <2>5. \E b : Placed(b, Append(sent, p), IF open THEN Stream \o Frame(p) ELSE Stream, open,
                      Turn, Consumed)
    BY <1>1, <2>1, <2>4, PlacedMore, ZenonT(30)
  <2>6. Consumed' = Consumed
    BY <1>8 DEF Consumed, reader
  <2> QED
    BY <1>3, <1>8, <1>11, <2>3, <2>5, <2>6
<1>16. StreamOK'
  BY <1>8, <1>15 DEF StreamOK, Reading, reader
<1> QED
  BY <1>5, <1>6, <1>9, <1>10, <1>12, <1>13, <1>14, <1>16 DEF Inv

\* A writer with bytes to write holds the lock.
LEMMA WritesLocked ==
  ASSUME Inv, NEW w \in Writer, todo[w] # <<>> \/ wpc[w] \in {"header", "payload"}
  PROVE  lock = w /\ lock # NoWriter /\ todo[w] \in Seq(Byte) /\ payload[w] \in Seq(Byte)
BY FrameAssumption DEF Inv, TypeOK, WriterOK

\* A byte is written: it stays where it was in the stream.
LEMMA WriteKeeps ==
  ASSUME Inv, NEW w \in Writer, Write(w)
  PROVE  Inv'
<1> USE DEF Write
<1> DEFINE r == todo[w]
<1>1. lock = w /\ lock # NoWriter /\ r \in Seq(Byte) /\ payload[w] \in Seq(Byte) /\ r # <<>>
  BY WritesLocked
<1>2. pipe \in Seq(Byte) /\ Len(pipe) \in Nat /\ Capacity \in Nat
  BY LenProperties, FrameAssumption DEF Inv, TypeOK
<1>3. Head(r) \in Byte /\ Tail(r) \in Seq(Byte)
  BY <1>1
<1>4. pipe' \in Seq(Byte) /\ Len(pipe') <= Capacity
  <2>1. Append(pipe, Head(r)) \in Seq(Byte) /\ Len(Append(pipe, Head(r))) = Len(pipe) + 1
    BY <1>2, <1>3, AppendProperties
  <2> QED
    BY <1>2, <2>1
<1>5. todo'[w] = Tail(r) /\ \A v \in Writer \ {w} : todo'[v] = todo[v]
  BY DEF Inv, TypeOK
<1>6. TypeOK'
  <2>1. todo' \in [Writer -> Seq(Byte)]
    BY <1>3 DEF Inv, TypeOK
  <2> QED
    BY <1>4, <2>1 DEF Inv, TypeOK, reader
<1>7. ASSUME NEW v \in Writer PROVE WriterOK(v)'
  BY <1>1, <1>5 DEF Inv, WriterOK
<1>8. Stream' = Stream
  <2> DEFINE a == payload[w]
  <2>1. Append(pipe, Head(r)) \o Tail(r) = pipe \o r
    BY <1>1, <1>2, ByteMoves, Zenon
  <2>2. Append(pipe, Head(r)) \o (Tail(r) \o a) = pipe \o (r \o a)
    <3>1. a \in Seq(Byte)
      BY <1>1
    <3> HIDE DEF r, a, Write
    <3> QED
      BY <1>1, <1>2, <3>1, ByteMovesFirst
  <2>3. Stream = pipe \o IF wpc[w] = "header" THEN r \o a ELSE r
    BY <1>1, Zenon DEF Stream, Pending
  <2>4. Stream' = Append(pipe, Head(r)) \o IF wpc[w] = "header" THEN Tail(r) \o a ELSE Tail(r)
    <3>1. lock' = w /\ lock' # NoWriter /\ wpc'[w] = wpc[w] /\ payload'[w] = payload[w] /\ open'
      BY <1>1
    <3>2. Pending' = IF wpc[w] = "header" THEN todo'[w] \o a ELSE todo'[w]
      BY <3>1 DEF Pending
    <3>3. Stream' = pipe' \o Pending'
      BY <3>1 DEF Stream
    <3> QED
      BY <1>5, <3>2, <3>3
  <2> QED
    BY <2>1, <2>2, <2>3, <2>4, Zenon
<1>9. StreamOK'
  BY <1>8, StreamKept
<1>10. SentOK' /\ ReceivedOK' /\ RefusedOK' /\ PartOK' /\ BufferOK'
  BY ReaderKept
<1> QED
  BY <1>6, <1>7, <1>9, <1>10 DEF Inv

\* The header is written and the payload is next.
LEMMA HeaderWrittenKeeps ==
  ASSUME Inv, NEW w \in Writer, HeaderWritten(w)
  PROVE  Inv'
<1> USE DEF HeaderWritten
<1>1. lock = w /\ lock # NoWriter /\ payload[w] \in Seq(Byte)
  BY WritesLocked
<1>2. /\ wpc'[w] = "payload" /\ todo'[w] = payload[w]
      /\ \A v \in Writer \ {w} : wpc'[v] = wpc[v] /\ todo'[v] = todo[v]
  BY DEF Inv, TypeOK
<1>3. TypeOK'
  <2>1. /\ todo' \in [Writer -> Seq(Byte)]
        /\ wpc' \in [Writer -> {"idle", "lock", "header", "payload"}]
    BY <1>1 DEF Inv, TypeOK
  <2> QED
    BY <2>1 DEF Inv, TypeOK, reader
<1>4. ASSUME NEW v \in Writer PROVE WriterOK(v)'
  <2>1. WriterOK(v)
    BY DEF Inv
  <2>2. CASE v = w
    BY <1>1, <1>2, <2>1, <2>2 DEF WriterOK
  <2>3. CASE v # w
    BY <1>2, <2>1, <2>3 DEF WriterOK
  <2> QED
    BY <2>2, <2>3
<1>5. Pending' = Pending
  <2>1. Pending = <<>> \o payload[w]
    BY <1>1, ZenonT(30) DEF Pending
  <2>2. Pending = payload[w]
    BY <1>1, <2>1, ConcatEmptySeq
  <2> QED
    BY <1>1, <1>2, <2>2, Zenon DEF Pending
<1>6. Stream' = Stream
  BY <1>5 DEF Stream
<1>7. StreamOK'
  BY <1>6, StreamKept
<1>8. SentOK' /\ ReceivedOK' /\ RefusedOK' /\ PartOK' /\ BufferOK'
  BY ReaderKept
<1> QED
  BY <1>3, <1>4, <1>7, <1>8 DEF Inv

\* WriteFrame returns, and the lock is free: nothing is pending any more, or
\* the connection is closed.
LEMMA ReturnKeeps ==
  ASSUME Inv, NEW w \in Writer, lock = w, lock' = NoWriter, Return(w),
         open => Pending = <<>>
  PROVE  Inv'
<1> USE DEF Return
<1>1. /\ wpc'[w] = "idle" /\ todo'[w] = <<>> /\ payload'[w] = <<>>
      /\ \A v \in Writer \ {w} :
           wpc'[v] = wpc[v] /\ todo'[v] = todo[v] /\ payload'[v] = payload[v]
  BY DEF Inv, TypeOK
<1>2. TypeOK'
  <2>1. /\ todo' \in [Writer -> Seq(Byte)] /\ payload' \in [Writer -> Seq(Byte)]
        /\ wpc' \in [Writer -> {"idle", "lock", "header", "payload"}]
    BY EmptySeq DEF Inv, TypeOK
  <2> QED
    BY <2>1 DEF Inv, TypeOK, reader
<1>3. ASSUME NEW v \in Writer PROVE WriterOK(v)'
  <2>1. WriterOK(v) /\ lock' # v
    BY FrameAssumption DEF Inv
  <2>2. CASE v = w
    <3>1. Len(payload'[v]) <= MaxSize
      BY <1>1, <2>2, FrameAssumption, EmptySeq
    <3> QED
      BY <1>1, <2>1, <2>2, <3>1 DEF WriterOK
  <2>3. CASE v # w
    BY <1>1, <2>1, <2>3 DEF WriterOK
  <2> QED
    BY <2>2, <2>3
<1>4. Stream' = Stream
  <2>1. Pending' = <<>>
    BY DEF Pending
  <2> QED
    BY <2>1, ZenonT(30) DEF Stream
<1>5. StreamOK'
  BY <1>4, StreamKept
<1>6. SentOK' /\ ReceivedOK' /\ RefusedOK' /\ PartOK' /\ BufferOK'
  BY ReaderKept
<1> QED
  BY <1>2, <1>3, <1>5, <1>6 DEF Inv

\* The ends of WriteFrame.
LEMMA WriterEndKeeps ==
  ASSUME Inv, NEW w \in Writer, FrameWritten(w) \/ WriteFails(w)
  PROVE  Inv'
<1>1. CASE FrameWritten(w)
  <2>1. lock = w /\ lock # NoWriter
    BY <1>1, WritesLocked DEF FrameWritten
  <2>2. Pending = <<>>
    BY <1>1, <2>1 DEF Pending, FrameWritten
  <2> QED
    BY <1>1, <2>1, <2>2, ReturnKeeps DEF FrameWritten
<1>2. CASE WriteFails(w)
  <2>1. lock = w
    BY <1>2, WritesLocked DEF WriteFails
  <2> QED
    BY <1>2, <2>1, ReturnKeeps DEF WriteFails
<1> QED
  BY <1>1, <1>2

\* The connection is closed: what is pending will not arrive.
LEMMA CloseKeeps ==
  ASSUME Inv, Close
  PROVE  Inv'
<1> USE DEF Close
<1>1. TypeOK'
  BY Zenon DEF Inv, TypeOK, writers, reader
<1>2. (\A w \in Writer : WriterOK(w))'
  BY WritersKept
<1>3. SentOK' /\ ReceivedOK' /\ RefusedOK' /\ PartOK' /\ BufferOK'
  BY ReaderKept DEF writers
<1>4. ASSUME whole, Reading PROVE \E c : Placed(c, sent', Stream', open', Turn', Consumed')
  <2>1. pipe \in Seq(Byte) /\ Pending \in Seq(Byte) /\ sent \in Seq(Seq(Byte)) /\ open \in BOOLEAN
    BY StreamType DEF Inv, TypeOK
  <2>2. PICK c : Placed(c, sent, pipe \o Pending, open, Turn, Consumed)
    BY <1>4, Zenon DEF Inv, StreamOK, Stream
  <2>3. Placed(c, sent, pipe, FALSE, Turn, Consumed)
    BY <2>1, <2>2, PlacedCut, ZenonT(30)
  <2>4. Stream' = pipe /\ sent' = sent /\ Turn' = Turn /\ Consumed' = Consumed /\ open' = FALSE
    BY DEF Stream, Turn, Consumed, writers, reader
  <2> QED
    BY <2>3, <2>4, Zenon
<1>5. StreamOK'
  BY <1>4 DEF StreamOK, Reading, reader
<1> QED
  BY <1>1, <1>2, <1>3, <1>5 DEF Inv

---------------------------------------------------------------------------
(* The reader's steps.                                                     *)

\* One byte is read from the connection.
LEMMA ByteRead ==
  ASSUME Inv, pipe # <<>>
  PROVE  /\ Tail(pipe) = Drop(pipe, 1) /\ Head(pipe) = pipe[1] /\ Head(pipe) \in Byte
         /\ 1 \in 0..Len(pipe) /\ 1 \in 1..Len(pipe)
         /\ Tail(pipe) \in Seq(Byte) /\ Len(Tail(pipe)) <= Capacity
<1>1. pipe \in Seq(Byte) /\ Len(pipe) \in Nat \ {0} /\ Len(pipe) <= Capacity /\ Capacity \in Nat
  BY EmptySeq, LenProperties, FrameAssumption DEF Inv, TypeOK
<1>2. Tail(pipe) = Drop(pipe, 1) /\ Head(pipe) = pipe[1] /\ 1 \in 0..Len(pipe)
  BY <1>1, TailIsDrop
<1>3. Drop(pipe, 1) \in Seq(Byte) /\ Len(Drop(pipe, 1)) = Len(pipe) - 1
  BY <1>1, <1>2, DropAt
<1>4. 1 \in 1..Len(pipe) /\ pipe[1] \in Byte
  BY <1>1
<1> QED
  BY <1>1, <1>2, <1>3, <1>4

\* A byte of the header is read.
LEMMA ReadHeaderKeeps ==
  ASSUME Inv, ReadHeader
  PROVE  Inv'
<1> USE DEF ReadHeader
<1>1. /\ Tail(pipe) = Drop(pipe, 1) /\ Head(pipe) = pipe[1] /\ Head(pipe) \in Byte
      /\ 1 \in 0..Len(pipe) /\ 1 \in 1..Len(pipe)
      /\ Tail(pipe) \in Seq(Byte) /\ Len(Tail(pipe)) <= Capacity
  BY ByteRead
<1>2. got \in Seq(Byte) /\ Len(got) \in Nat /\ Header \in Nat
  BY LenProperties, FrameAssumption DEF Inv, TypeOK
<1>3. /\ got' \in Seq(Byte) /\ Len(got') = Len(got) + 1
      /\ \A t \in 1..Len(got) : got'[t] = got[t]
      /\ got'[Len(got) + 1] = pipe[1]
  BY <1>1, <1>2, AppendProperties
<1>4. TypeOK'
  <2>1. Len(got') <= Header
    BY <1>2, <1>3
  <2> QED
    BY <1>1, <1>3, <2>1 DEF Inv, TypeOK, writers
<1>5. (\A w \in Writer : WriterOK(w))' /\ SentOK'
  BY WritersKept
<1>6. whole /\ Reading
  BY DEF Inv, TypeOK, ReceivedOK, Reading
<1>7. ReceivedOK'
  BY DEF Inv, ReceivedOK, writers
<1>8. RefusedOK' /\ BufferOK'
  BY DEF RefusedOK, BufferOK
<1>9. Turn' = Turn /\ Consumed = Len(got) /\ Consumed' = Len(got') /\ sent' = sent
  BY DEF Turn, Consumed, writers
<1>10. /\ Turn \in 1..Len(sent)
       /\ \A t \in 1..Len(pipe) :
            Consumed + t <= Header + Len(sent[Turn]) =>
              pipe[t] = Frame(sent[Turn])[Consumed + t]
  BY <1>6, BytesNext
<1>11. ASSUME NEW t \in 1..Len(got')
       PROVE  Turn <= Len(sent) /\ got'[t] = Frame(sent[Turn])[t]
  <2>1. Turn <= Len(sent)
    BY <1>10
  <2>2. CASE t \in 1..Len(got)
    BY <1>3, <1>6, <2>1, <2>2 DEF Inv, PartOK
  <2>3. CASE t = Len(got) + 1
    <3>1. Len(sent[Turn]) \in Nat
      BY <1>10, LenProperties, ElementOfSeq DEF Inv, TypeOK
    <3>2. Consumed + 1 <= Header + Len(sent[Turn])
      BY <1>2, <1>9, <3>1
    <3>3. pipe[1] = Frame(sent[Turn])[Consumed + 1]
      BY <1>1, <1>10, <3>2
    <3> QED
      BY <1>3, <1>9, <2>1, <2>3, <3>3
  <2> QED
    BY <1>2, <1>3, <2>2, <2>3
<1>12. PartOK'
  BY <1>9, <1>11 DEF PartOK
<1>13. StreamOK'
  BY <1>1, <1>3, <1>6, <1>9, StreamRead, Zenon
<1> QED
  BY <1>4, <1>5, <1>7, <1>8, <1>12, <1>13 DEF Inv

\* The header that was read is that of the frame, and stands for its length.
LEMMA HeaderRead ==
  ASSUME Inv, NEW h \in Seq(Byte), Len(h) = Header, Turn \in 1..Len(sent),
         \A t \in 1..Header : h[t] = Frame(sent[Turn])[t]
  PROVE  Uint32(h) = Len(sent[Turn]) /\ Len(sent[Turn]) \in 0..MaxSize
<1> DEFINE p == sent[Turn]
           e == PutUint32(Len(p))
<1>1. p \in Seq(Byte) /\ Len(p) <= MaxSize /\ MaxSize \in Nat
  BY ElementOfSeq, FrameAssumption, Zenon DEF Inv, TypeOK, SentOK
<1>2. Len(p) \in 0..MaxSize
  BY <1>1, LenProperties
<1> HIDE DEF p
<1>3. e \in Seq(Byte) /\ Len(e) = Header /\ \A t \in 1..Header : Frame(p)[t] = e[t]
  BY <1>1, FrameAt
<1>4. Uint32(e) = Len(p)
  BY <1>2, BinaryAssumption
<1> HIDE DEF e
<1>5. \A t \in 1..Header : h[t] = e[t]
  BY <1>3 DEF p
<1>6. h = e
  BY <1>3, <1>5, SeqEqual
<1> QED
  BY <1>2, <1>4, <1>6 DEF p

\* The header is complete: a frame that is not empty is accepted.
LEMMA CheckLengthKeeps ==
  ASSUME Inv, CheckLength
  PROVE  Inv'
<1> USE DEF CheckLength
<1>1. whole /\ Reading /\ Len(got) = Header /\ got \in Seq(Byte) /\ Header \in Nat \ {0}
  BY FrameAssumption DEF Inv, TypeOK, ReceivedOK, Reading
<1>2. Turn \in Nat \ {0} /\ Len(sent) \in Nat
  BY StreamType, LenProperties DEF Inv, TypeOK
<1>3. \A t \in 1..Header : Turn <= Len(sent) /\ got[t] = Frame(sent[Turn])[t]
  BY <1>1 DEF Inv, PartOK
<1>4. Turn \in 1..Len(sent)
  BY <1>1, <1>2, <1>3
<1>5. length' = Len(sent[Turn]) /\ length' \in 0..MaxSize
  BY <1>1, <1>3, <1>4, HeaderRead
<1>6. length' \in Nat /\ sent[Turn] \in Seq(Byte)
  BY <1>4, <1>5, FrameAssumption, ElementOfSeq DEF Inv, TypeOK
<1>7. UNCHANGED <<writers, pipe, open, example, whole, got, filled, buf, pool, received>>
  OBVIOUS
<1>8. rpc' \in {"get", "failed"} /\ (rpc' = "failed" => ~(length' > 0 /\ length' <= MaxSize))
  BY DEF Accepts
<1>9. rpc = "header" /\ ~example
  OBVIOUS
<1> HIDE DEF CheckLength
<1>10. TypeOK'
  BY <1>6, <1>7, <1>8 DEF Inv, TypeOK, writers
<1>11. (\A w \in Writer : WriterOK(w))' /\ SentOK' /\ Pending' = Pending
  BY <1>7, WritersKept
<1>12. Turn' = Turn /\ sent' = sent
  BY <1>7 DEF Turn, writers
<1>13. ReceivedOK'
  BY <1>1, <1>7, <1>9, <1>12 DEF Inv, ReceivedOK
<1>14. RefusedOK'
  <2>1. ASSUME rpc' = "failed" PROVE sent[Turn] = <<>>
    <3>1. Len(sent[Turn]) = 0
      BY <1>5, <1>8, <2>1, FrameAssumption
    <3> QED
      BY <1>6, <3>1, EmptySeq
  <2> QED
    BY <1>4, <1>12, <2>1 DEF RefusedOK
<1>15. PartOK'
  BY <1>4, <1>5, <1>8, <1>12 DEF PartOK
<1>16. BufferOK'
  BY <1>8 DEF BufferOK
<1>17. StreamOK'
  <2>1. ASSUME Reading' PROVE Consumed' = Consumed
    BY <1>1, <1>8, <1>9, <2>1 DEF Consumed, Reading
  <2>2. Stream' = Stream /\ open' = open
    BY <1>7, <1>11 DEF Stream
  <2>3. \E c : Placed(c, sent, Stream, open, Turn, Consumed)
    BY <1>1 DEF Inv, StreamOK
  <2> QED
    BY <1>12, <2>1, <2>2, <2>3 DEF StreamOK
<1> QED
  BY <1>10, <1>11, <1>13, <1>14, <1>15, <1>16, <1>17 DEF Inv

\* A new buffer is all zeros.
LEMMA ZerosType ==
  ASSUME NEW n \in Nat
  PROVE  Zeros(n) \in Seq(Byte) /\ Len(Zeros(n)) = n
<1>1. Zeros(n) \in [1..n -> Byte]
  BY FrameAssumption DEF Zeros
<1> QED
  BY <1>1, LenProperties

\* The reader has a buffer that is large enough.
LEMMA GetBufferKeeps ==
  ASSUME Inv, GetBuffer
  PROVE  Inv'
<1> USE DEF GetBuffer
<1>1. ~example /\ whole /\ Reading /\ rpc = "get"
  BY DEF Inv, TypeOK, ReceivedOK, Reading
<1>2. PoolSize \in Nat /\ length \in Nat /\ pool \in Seq(Byte)
  BY FrameAssumption DEF Inv, TypeOK
<1>3. PICK b \in {pool, Zeros(PoolSize)} : buf' = IF Len(b) < length THEN Zeros(length) ELSE b
  OBVIOUS
<1>4. b \in Seq(Byte) /\ Len(b) \in Nat
  BY <1>2, <1>3, ZerosType, LenProperties
<1>5. buf' \in Seq(Byte) /\ Len(buf') \in Nat /\ length <= Len(buf')
  <2>1. CASE Len(b) < length
    BY <1>2, <1>3, <2>1, ZerosType
  <2>2. CASE ~(Len(b) < length)
    BY <1>2, <1>3, <1>4, <2>2
  <2> QED
    BY <2>1, <2>2
<1>6. /\ filled' = 0 /\ rpc' = "payload" /\ pool' = <<>>
      /\ UNCHANGED <<writers, pipe, open, example, whole, got, length, received>>
  OBVIOUS
<1> HIDE DEF GetBuffer
<1>7. TypeOK'
  <2>1. filled' \in 0..Len(buf') /\ pool' \in Seq(Byte)
    BY <1>5, <1>6, EmptySeq
  <2> QED
    BY <1>5, <1>6, <2>1 DEF Inv, TypeOK, writers
<1>8. (\A w \in Writer : WriterOK(w))' /\ SentOK' /\ Pending' = Pending
  BY <1>6, WritersKept
<1>9. Turn' = Turn /\ sent' = sent
  BY <1>6 DEF Turn, writers
<1>10. ReceivedOK' /\ RefusedOK'
  BY <1>1, <1>6, <1>9 DEF Inv, ReceivedOK, RefusedOK
<1>11. PartOK'
  <2>1. Turn <= Len(sent) /\ length = Len(sent[Turn])
    BY <1>1 DEF Inv, PartOK
  <2>2. 1..filled' = {}
    BY <1>6
  <2> QED
    BY <1>6, <1>9, <2>1, <2>2 DEF PartOK
<1>12. BufferOK'
  BY <1>1, <1>2, <1>5, <1>6 DEF BufferOK
<1>13. StreamOK'
  <2>1. Consumed' = Consumed
    BY <1>1, <1>6, FrameAssumption DEF Consumed
  <2>2. Stream' = Stream /\ open' = open
    BY <1>6, <1>8 DEF Stream
  <2>3. \E c : Placed(c, sent, Stream, open, Turn, Consumed)
    BY <1>1 DEF Inv, StreamOK
  <2> QED
    BY <1>9, <2>1, <2>2, <2>3 DEF StreamOK
<1> QED
  BY <1>7, <1>8, <1>10, <1>11, <1>12, <1>13 DEF Inv

\* A byte of the payload is read into the buffer.
LEMMA ReadPayloadKeeps ==
  ASSUME Inv, ReadPayload
  PROVE  Inv'
<1> USE DEF ReadPayload
<1>1. /\ Tail(pipe) = Drop(pipe, 1) /\ Head(pipe) = pipe[1] /\ Head(pipe) \in Byte
      /\ 1 \in 0..Len(pipe) /\ 1 \in 1..Len(pipe)
      /\ Tail(pipe) \in Seq(Byte) /\ Len(Tail(pipe)) <= Capacity
  BY ByteRead
<1>2. /\ buf \in Seq(Byte) /\ Len(buf) \in Nat /\ filled \in Nat /\ length \in Nat
      /\ filled < length /\ length <= Len(buf) /\ Header \in Nat
      /\ example => length = Len(buf)
  BY LenProperties, FrameAssumption DEF Inv, TypeOK, BufferOK
<1>3. filled + 1 \in 1..Len(buf)
  BY <1>2
<1>4. /\ buf' \in Seq(Byte) /\ Len(buf') = Len(buf) /\ buf'[filled + 1] = pipe[1]
      /\ \A t \in 1..Len(buf) : t # filled + 1 => buf'[t] = buf[t]
  BY <1>1, <1>2, <1>3, ExceptSeq
<1>5. /\ rpc = "payload" /\ rpc' = "payload" /\ filled' = filled + 1 /\ pipe' = Tail(pipe)
      /\ UNCHANGED <<writers, open, example, whole, got, length, pool, received>>
  OBVIOUS
<1> HIDE DEF ReadPayload
<1>6. TypeOK'
  <2>1. filled' \in 0..Len(buf')
    BY <1>2, <1>4, <1>5
  <2> QED
    BY <1>1, <1>4, <1>5, <2>1 DEF Inv, TypeOK, writers
<1>7. (\A w \in Writer : WriterOK(w))' /\ SentOK'
  BY <1>5, WritersKept
<1>8. Turn' = Turn /\ sent' = sent /\ Reading /\ Consumed = Header + filled /\ Consumed' = Header + filled'
  BY <1>5 DEF Turn, writers, Reading, Consumed
<1>9. ReceivedOK' /\ RefusedOK'
  BY <1>5, <1>8 DEF Inv, ReceivedOK, RefusedOK
<1>10. ASSUME whole
       PROVE  /\ Turn <= Len(sent) /\ length = Len(sent[Turn])
              /\ \A t \in 1..filled' : buf'[t] = sent[Turn][t]
  <2>1. /\ Turn \in 1..Len(sent)
        /\ \A t \in 1..Len(pipe) :
             Consumed + t <= Header + Len(sent[Turn]) =>
               pipe[t] = Frame(sent[Turn])[Consumed + t]
    BY <1>1, <1>8, <1>10, <1>5, BytesNext, EmptySeq DEF ReadPayload
  <2>2. length = Len(sent[Turn]) /\ \A t \in 1..filled : buf[t] = sent[Turn][t]
    BY <1>5, <1>8, <1>10 DEF Inv, PartOK
  <2>3. sent[Turn] \in Seq(Byte) /\ Len(sent[Turn]) <= MaxSize
    BY <2>1, ElementOfSeq DEF Inv, TypeOK, SentOK
  <2>4. Consumed + 1 <= Header + Len(sent[Turn]) /\ Consumed + 1 = Header + (filled + 1)
    BY <1>2, <1>8, <2>2
  <2>5. pipe[1] = Frame(sent[Turn])[Header + (filled + 1)]
    BY <1>1, <2>1, <2>4
  <2>6. filled + 1 \in 1..Len(sent[Turn])
    BY <1>2, <2>2
  <2>7. pipe[1] = sent[Turn][filled + 1]
    BY <2>3, <2>5, <2>6, FrameAt
  <2>8. ASSUME NEW t \in 1..filled' PROVE buf'[t] = sent[Turn][t]
    <3>1. CASE t = filled + 1
      BY <1>4, <2>7, <3>1
    <3>2. CASE t \in 1..filled
      <4>1. t \in 1..Len(buf) /\ t # filled + 1
        BY <1>2, <3>2
      <4> QED
        BY <1>4, <2>2, <3>2, <4>1
    <3> QED
      BY <1>2, <1>5, <3>1, <3>2
  <2> QED
    BY <2>1, <2>2, <2>8
<1>11. PartOK'
  BY <1>5, <1>8, <1>10 DEF PartOK
<1>12. BufferOK'
  BY <1>2, <1>4, <1>5 DEF BufferOK
<1>13. StreamOK'
  <2>1. CASE whole
    <3>1. Consumed' = Consumed + 1 /\ pipe' = Drop(pipe, 1)
      BY <1>1, <1>2, <1>5, <1>8
    <3> QED
      BY <1>1, <1>5, <1>8, <2>1, <3>1, StreamRead
  <2>2. CASE ~whole
    BY <1>5, <2>2 DEF StreamOK
  <2> QED
    BY <2>1, <2>2
<1> QED
  BY <1>6, <1>7, <1>9, <1>11, <1>12, <1>13 DEF Inv

\* What is returned is the payload of the frame whose turn it is.
LEMMA FrameReturned ==
  ASSUME Inv, whole, rpc = "payload", filled = length,
         NEW p \in Seq(Byte), Len(p) = length, \A t \in 1..length : p[t] = buf[t]
  PROVE  LET r == Append(received, p) IN
         /\ Turn \in 1..Len(sent) /\ Len(sent[Turn]) = length
         /\ Len(r) = Turn /\ \A i \in 1..Len(r) : r[i] = sent[i]
<1> DEFINE r == Append(received, p)
<1>1. /\ Turn <= Len(sent) /\ length = Len(sent[Turn])
      /\ \A t \in 1..filled : buf[t] = sent[Turn][t]
  BY DEF Inv, PartOK, Reading
<1>2. /\ received \in Seq(Seq(Byte)) /\ Len(received) \in Nat /\ Len(sent) \in Nat
      /\ sent \in Seq(Seq(Byte)) /\ Turn = Len(received) + 1
  BY LenProperties DEF Inv, TypeOK, Turn
<1>3. Turn \in 1..Len(sent)
  BY <1>1, <1>2
<1>4. sent[Turn] \in Seq(Byte)
  BY <1>2, <1>3, ElementOfSeq
<1>5. p = sent[Turn]
  <2>1. \A t \in 1..Len(p) : p[t] = sent[Turn][t]
    BY <1>1
  <2> QED
    BY <1>1, <1>4, <2>1, SeqEqual
<1>6. /\ Len(r) = Len(received) + 1 /\ r[Len(received) + 1] = p
      /\ \A i \in 1..Len(received) : r[i] = received[i]
  BY <1>2, AppendProperties
<1>7. \A i \in 1..Len(received) : received[i] = sent[i]
  BY DEF Inv, ReceivedOK
<1> HIDE DEF r
<1>8. ASSUME NEW i \in 1..Len(r) PROVE r[i] = sent[i]
  <2>1. CASE i \in 1..Len(received)
    BY <1>6, <1>7, <2>1
  <2>2. CASE i = Len(received) + 1
    BY <1>2, <1>5, <1>6, <2>2
  <2> QED
    BY <1>2, <1>6, <2>1, <2>2
<1> QED
  BY <1>1, <1>2, <1>3, <1>6, <1>8 DEF r

\* ReadFrame returns, and it is the turn of the next frame.
LEMMA CopyKeeps ==
  ASSUME Inv, Copy
  PROVE  Inv'
<1> USE DEF Copy
<1> DEFINE p == SubSeq(buf, 1, length)
<1>1. ~example /\ whole /\ rpc = "payload" /\ filled = length /\ Reading
  BY DEF Inv, TypeOK, ReceivedOK, Reading
<1>2. /\ buf \in Seq(Byte) /\ Len(buf) \in Nat /\ length \in Nat /\ length <= Len(buf)
      /\ received \in Seq(Seq(Byte)) /\ sent \in Seq(Seq(Byte)) /\ Header \in Nat
  BY LenProperties, FrameAssumption DEF Inv, TypeOK, BufferOK
<1>3. p \in Seq(Byte) /\ Len(p) = length /\ \A t \in 1..length : p[t] = buf[t]
  <2>1. CASE length = 0
    BY <1>2, <2>1, SubSeqEmpty
  <2>2. CASE length > 0
    BY <1>2, <2>2, SubSeqProperties
  <2> QED
    BY <1>2, <2>1, <2>2
<1>4. /\ received' = Append(received, p) /\ pool' = buf /\ got' = <<>> /\ rpc' = "header"
      /\ UNCHANGED <<writers, pipe, open, example, whole, length, filled, buf>>
  OBVIOUS
<1> HIDE DEF p, Copy
<1>5. /\ Turn \in 1..Len(sent) /\ Len(sent[Turn]) = length
      /\ Len(received') = Turn /\ \A i \in 1..Len(received') : received'[i] = sent[i]
  BY <1>1, <1>3, <1>4, FrameReturned
<1>6. TypeOK'
  <2>1. received' \in Seq(Seq(Byte))
    BY <1>2, <1>3, <1>4, AppendProperties
  <2>2. got' \in Seq(Byte) /\ Len(got') <= Header
    BY <1>2, <1>4, EmptySeq
  <2> QED
    BY <1>4, <2>1, <2>2 DEF Inv, TypeOK, writers
<1>7. (\A w \in Writer : WriterOK(w))' /\ SentOK' /\ Pending' = Pending /\ sent' = sent
  BY <1>4, WritersKept DEF writers
<1>8. ReceivedOK'
  <2>1. Len(received') <= Len(sent)
    BY <1>5
  <2> QED
    BY <1>1, <1>4, <1>5, <1>7, <2>1 DEF ReceivedOK
<1>9. RefusedOK' /\ BufferOK'
  BY <1>4 DEF RefusedOK, BufferOK
<1>10. 1..Len(got') = {} /\ Len(got') = 0
  BY <1>4, EmptySeq
<1>11. PartOK'
  BY <1>4, <1>10 DEF PartOK
<1>12. Turn' = Turn + 1 /\ Consumed' = 0 /\ Consumed = Header + Len(sent[Turn])
  BY <1>1, <1>4, <1>5, <1>10 DEF Turn, Consumed
<1>13. Stream' = Stream /\ open' = open /\ Stream \in Seq(Byte) /\ open \in BOOLEAN
  BY <1>4, <1>7, StreamType DEF Inv, TypeOK, Stream
<1>14. PICK c : Placed(c, sent, Stream, open, Turn, Consumed)
  BY <1>1 DEF Inv, StreamOK
<1>15. Placed(c, sent, Stream, open, Turn + 1, 0)
  BY <1>2, <1>5, <1>12, <1>13, <1>14, PlacedNext, ZenonT(30)
<1>16. StreamOK'
  BY <1>7, <1>12, <1>13, <1>15 DEF StreamOK
<1> QED
  BY <1>6, <1>7, <1>8, <1>9, <1>11, <1>16 DEF Inv

\* The example client's one Read: what it takes is the header, if it takes all
\* of it.
LEMMA ExampleHeaderKeeps ==
  ASSUME Inv, NEW n \in 1..Header, ExampleHeader(n)
  PROVE  Inv'
<1> USE DEF ExampleHeader
<1> DEFINE a == SubSeq(pipe, 1, n)
           z == Zeros(Header - n)
           h == a \o z
<1>1. example /\ whole /\ rpc = "header" /\ Reading /\ got = <<>> /\ filled = 0
  BY Zenon DEF Inv, TypeOK, ReceivedOK, Reading
<1>2. /\ pipe \in Seq(Byte) /\ Len(pipe) \in Nat /\ Len(pipe) <= Capacity /\ Capacity \in Nat
      /\ Header \in Nat /\ n \in Nat \ {0} /\ n <= Header /\ n <= Len(pipe)
  BY LenProperties, FrameAssumption DEF Inv, TypeOK
<1>3. a \in Seq(Byte) /\ Len(a) = n /\ \A t \in 1..n : a[t] = pipe[t]
  BY <1>2, SubSeqProperties
<1>4. z \in Seq(Byte) /\ Len(z) = Header - n
  <2> DEFINE k == Header - n
  <2>1. k \in Nat
    BY <1>2
  <2> HIDE DEF k
  <2>2. Zeros(k) \in Seq(Byte) /\ Len(Zeros(k)) = k
    BY <2>1, ZerosType
  <2> QED
    BY <2>2 DEF k
<1>5. /\ length' = Uint32(h) /\ whole' = (n = Header) /\ pipe' = Drop(pipe, n)
      /\ buf' = Zeros(length') /\ rpc' = "payload"
      /\ UNCHANGED <<writers, open, example, got, filled, pool, received>>
  BY DEF Drop
<1> HIDE DEF a, z, ExampleHeader
<1>6. h \in Seq(Byte) /\ Len(h) = Len(a) + Len(z) /\ \A i \in 1..Len(a) : h[i] = a[i]
  <2>1. /\ h \in Seq(Byte) /\ Len(h) = Len(a) + Len(z)
        /\ \A i \in 1..(Len(a) + Len(z)) : h[i] = IF i <= Len(a) THEN a[i] ELSE z[i - Len(a)]
    BY <1>3, <1>4, ConcatProperties, ZenonT(30)
  <2>2. \A i \in 1..Len(a) : i \in 1..(Len(a) + Len(z)) /\ i <= Len(a)
    BY <1>2, <1>3, <1>4
  <2> QED
    BY <2>1, <2>2
<1> HIDE DEF h
<1>7. Len(h) = Header /\ h \in [1..Header -> Byte]
  <2>1. Len(h) = Header
    BY <1>2, <1>3, <1>4, <1>6
  <2> QED
    BY <1>6, <2>1, LenProperties
<1>8. length' \in Nat
  BY <1>5, <1>7, BinaryAssumption
<1>9. buf' \in Seq(Byte) /\ Len(buf') = length'
  BY <1>5, <1>8, ZerosType
<1>10. n \in 0..Len(pipe) /\ pipe' \in Seq(Byte) /\ Len(pipe') <= Capacity
  <2>1. n \in 0..Len(pipe)
    BY <1>2
  <2>2. Drop(pipe, n) \in Seq(Byte) /\ Len(Drop(pipe, n)) = Len(pipe) - n
    BY <1>2, <2>1, DropAt
  <2> QED
    BY <1>2, <1>5, <2>1, <2>2
<1>11. TypeOK'
  <2>1. filled' \in 0..Len(buf') /\ whole' \in BOOLEAN
    BY <1>1, <1>5, <1>8, <1>9
  <2> QED
    BY <1>5, <1>8, <1>9, <1>10, <2>1 DEF Inv, TypeOK, writers
<1>12. (\A w \in Writer : WriterOK(w))' /\ SentOK' /\ sent' = sent
  BY <1>5, WritersKept DEF writers
<1>13. ReceivedOK'
  BY <1>1, <1>5, <1>12 DEF Inv, ReceivedOK
<1>14. RefusedOK'
  BY <1>5 DEF RefusedOK
<1>15. BufferOK'
  BY <1>1, <1>5, <1>8, <1>9 DEF BufferOK
<1>16. Turn' = Turn /\ Consumed = 0 /\ Consumed' = Header
  BY <1>1, <1>2, <1>5, EmptySeq DEF Turn, Consumed
<1>17. ASSUME n = Header PROVE Turn \in 1..Len(sent) /\ length' = Len(sent[Turn])
  <2>1. pipe # <<>>
    BY <1>2, EmptySeq
  <2>2. /\ Turn \in 1..Len(sent)
        /\ \A t \in 1..Len(pipe) :
             Consumed + t <= Header + Len(sent[Turn]) =>
               pipe[t] = Frame(sent[Turn])[Consumed + t]
    BY <1>1, <2>1, BytesNext
  <2>3. Len(sent[Turn]) \in Nat
    BY <2>2, ElementOfSeq, LenProperties DEF Inv, TypeOK
  <2>4. ASSUME NEW t \in 1..Header PROVE h[t] = Frame(sent[Turn])[t]
    <3>1. h[t] = pipe[t]
      BY <1>3, <1>6, <1>17
    <3>2. t \in 1..Len(pipe) /\ Consumed + t = t /\ Consumed + t <= Header + Len(sent[Turn])
      BY <1>2, <1>16, <1>17, <2>3
    <3> QED
      BY <2>2, <3>1, <3>2
  <2> QED
    BY <1>5, <1>6, <1>7, <2>2, <2>4, HeaderRead
<1>18. PartOK'
  <2>1. 1..filled' = {}
    BY <1>1, <1>5
  <2>2. ASSUME whole' PROVE Turn' <= Len(sent') /\ length' = Len(sent'[Turn'])
    <3>1. n = Header
      BY <1>5, <2>2, Zenon
    <3> QED
      BY <1>12, <1>16, <1>17, <3>1
  <2>3. rpc' = "payload"
    BY <1>5
  <2> QED
    BY <2>1, <2>2, <2>3 DEF PartOK
<1>19. StreamOK'
  <2>1. CASE n = Header
    <3>1. Consumed' = Consumed + n
      BY <1>2, <1>16, <2>1
    <3> QED
      BY <1>1, <1>5, <1>10, <1>16, <3>1, StreamRead
  <2>2. CASE n # Header
    BY <1>5, <2>2, Zenon DEF StreamOK
  <2> QED
    BY <2>1, <2>2
<1> QED
  BY <1>11, <1>12, <1>13, <1>14, <1>15, <1>18, <1>19 DEF Inv

\* The example client has what it wanted.
LEMMA ExampleReturnsKeeps ==
  ASSUME Inv, ExampleReturns
  PROVE  Inv'
<1>1. /\ example /\ rpc = "payload" /\ filled = length
      /\ received' = Append(received, buf) /\ rpc' = "done"
      /\ UNCHANGED <<writers, pipe, open, example, whole, got, length, filled, buf, pool>>
  BY DEF ExampleReturns
<1>2. /\ buf \in Seq(Byte) /\ Len(buf) = length
      /\ received \in Seq(Seq(Byte)) /\ Len(sent) \in Nat
  BY <1>1, LenProperties DEF Inv, TypeOK, BufferOK
<1>3. TypeOK'
  <2>1. received' \in Seq(Seq(Byte))
    BY <1>1, <1>2, AppendProperties
  <2> QED
    BY <1>1, <2>1 DEF Inv, TypeOK, writers
<1>4. (\A w \in Writer : WriterOK(w))' /\ SentOK' /\ sent' = sent
  BY <1>1, WritersKept DEF writers
<1>5. ASSUME whole
      PROVE  Len(received') <= Len(sent) /\ \A i \in 1..Len(received') : received'[i] = sent[i]
  <2>1. /\ Turn \in 1..Len(sent) /\ Len(received') = Turn
        /\ \A i \in 1..Len(received') : received'[i] = sent[i]
    BY <1>1, <1>2, <1>5, FrameReturned
  <2> QED
    BY <1>2, <2>1
<1>6. ReceivedOK'
  BY <1>1, <1>4, <1>5 DEF Inv, ReceivedOK
<1>7. RefusedOK' /\ PartOK' /\ BufferOK' /\ StreamOK'
  BY <1>1 DEF RefusedOK, PartOK, BufferOK, StreamOK, Reading
<1> QED
  BY <1>3, <1>4, <1>6, <1>7 DEF Inv

\* A read fails on a connection that is closed.
LEMMA ReadFailsKeeps ==
  ASSUME Inv, ReadFails
  PROVE  Inv'
<1>1. /\ ~open /\ rpc \in {"header", "payload"} /\ rpc' = "failed"
      /\ UNCHANGED <<writers, pipe, open, example, whole, got, length, filled, buf, pool, received>>
  BY DEF ReadFails
<1>2. TypeOK'
  BY <1>1 DEF Inv, TypeOK, writers
<1>3. (\A w \in Writer : WriterOK(w))' /\ SentOK' /\ sent' = sent
  BY <1>1, WritersKept DEF writers
<1>4. ReceivedOK'
  BY <1>1, <1>3 DEF Inv, ReceivedOK
<1>5. RefusedOK' /\ PartOK' /\ BufferOK' /\ StreamOK'
  BY <1>1 DEF RefusedOK, PartOK, BufferOK, StreamOK, Reading
<1> QED
  BY <1>2, <1>3, <1>4, <1>5 DEF Inv

---------------------------------------------------------------------------
(* The theorems.                                                           *)

\* Nothing has been written and nothing read.
LEMMA InitOK == ASSUME Init PROVE Inv
<1> USE DEF Init
<1>1. Len(<<>>) = 0 /\ <<>> \in Seq(Byte) /\ <<>> \in Seq(Seq(Byte)) /\ 1..0 = {}
  OBVIOUS
<1>2. TypeOK
  BY <1>1, FrameAssumption DEF TypeOK
<1>3. ASSUME NEW w \in Writer PROVE WriterOK(w)
  BY <1>1, FrameAssumption DEF WriterOK
<1>4. SentOK /\ ReceivedOK /\ RefusedOK /\ PartOK /\ BufferOK
  BY <1>1 DEF SentOK, ReceivedOK, RefusedOK, PartOK, BufferOK
<1>5. Stream = <<>> /\ Turn = 1 /\ Consumed = 0
  <2>1. Pending = <<>>
    BY DEF Pending
  <2> QED
    BY <1>1, <2>1, ConcatEmptySeq DEF Stream, Turn, Consumed
<1> DEFINE c == [i \in 1..1 |-> 0]
<1>6. Placed(c, <<>>, <<>>, TRUE, 1, 0)
  <2>1. c \in [1..1 -> Int] /\ c[1] = 0
    OBVIOUS
  <2>3. 1 \in 1..1 /\ (\A i \in 1..1 : i = 1) /\ 0 - 0 = 0 /\ 0 + 1 = 1
    OBVIOUS
  <2> HIDE DEF c
  <2>2. \A i \in 1..0 : FALSE
    OBVIOUS
  <2> QED
    BY <1>1, <2>1, <2>2, <2>3 DEF Placed
<1>7. StreamOK
  <2> HIDE DEF c
  <2>1. sent = <<>> /\ open = TRUE
    OBVIOUS
  <2> QED
    BY <1>5, <1>6, <2>1, Zenon DEF StreamOK
<1> QED
  BY <1>2, <1>3, <1>4, <1>7 DEF Inv

\* Every step keeps the invariant.
LEMMA NextKeeps == ASSUME Inv, [Next]_vars PROVE Inv'
<1>1. ASSUME NEW w \in Writer, WriterStep(w) PROVE Inv'
  BY <1>1, WriteKeeps, HeaderWrittenKeeps, WriterEndKeeps DEF WriterStep
<1>2. ASSUME NEW w \in Writer, Lock(w) PROVE Inv'
  BY <1>2, LockKeeps
<1>3. ASSUME NEW w \in Writer, NEW p \in Payload, WriteFrame(w, p) PROVE Inv'
  BY <1>3, WriteFrameKeeps
<1>4. ASSUME ReaderStep PROVE Inv'
  BY <1>4, ReadHeaderKeeps, CheckLengthKeeps, GetBufferKeeps, ReadPayloadKeeps, CopyKeeps,
     ExampleReturnsKeeps, ExampleHeaderKeeps, ReadFailsKeeps DEF ReaderStep
<1>5. ASSUME Close PROVE Inv'
  BY <1>5, CloseKeeps
<1>6. ASSUME UNCHANGED vars PROVE Inv'
  <2> USE <1>6 DEF vars
  <2>1. TypeOK'
    BY DEF Inv, TypeOK, writers, reader
  <2>2. (\A w \in Writer : WriterOK(w))'
    BY WritersKept
  <2>3. SentOK' /\ ReceivedOK' /\ RefusedOK' /\ PartOK' /\ BufferOK'
    BY ReaderKept DEF writers
  <2>4. Stream' = Stream
    BY DEF Stream, Pending, writers
  <2>5. StreamOK'
    BY <2>4, StreamKept DEF writers
  <2> QED
    BY <2>1, <2>2, <2>3, <2>5 DEF Inv
<1> QED
  BY <1>1, <1>2, <1>3, <1>4, <1>5, <1>6 DEF Next

\* The places of the frames are an invariant of the stream.
THEOREM Invariance == SafetySpec => []Inv
<1>1. Init => Inv
  BY InitOK
<1>2. Inv /\ [Next]_vars => Inv'
  BY NextKeeps
<1> QED
  BY <1>1, <1>2, PTL DEF SafetySpec

\* The buffers, the lock and the histories keep their types; what is under way
\* fits into the connection.
THEOREM TypeCorrect == SafetySpec => []TypeOK
<1>1. Inv => TypeOK
  BY DEF Inv
<1> QED
  BY <1>1, Invariance, PTL

\* WriteFrame's frames are ReadFrame's, whoever writes them and however the
\* bytes are cut up: whole, in order, and free of what a buffer of the pool held.
THEOREM FramesWhole == SafetySpec => []FramesIntact
<1>1. Inv => FramesIntact
  BY DEF Inv, ReceivedOK, FramesIntact
<1> QED
  BY <1>1, Invariance, PTL

\* ReadFrame refuses on an open connection only the frame without content.
THEOREM RefusesRight == SafetySpec => []RefusesOnlyEmpty
<1>1. Inv => RefusesOnlyEmpty
  BY DEF Inv, RefusedOK, RefusesOnlyEmpty, Turn
<1> QED
  BY <1>1, Invariance, PTL
============================================================================
