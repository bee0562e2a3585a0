---------------------------- MODULE HifFifoProofs ----------------------------
(***************************************************************************)
(* Lemmas about the ring of hif_fifo.c, for every ring size and every range *)
(* of the free-running indices.  Every proof about a component that owns a  *)
(* ring cites them instead of computing with remainders.  The last part is  *)
(* about the sequences of chunks such a ring holds.                         *)
(***************************************************************************)
EXTENDS HifFifoOps, ModArith, SequenceTheorems

\* The two indices of a ring agree with its fill count across the wrap of either.
Linked(f) == f.push = (f.pop + f.cnt) % IdxMod

\* hif_fifo.c:80-85 and 150-155: an address is one of the ring's, whatever the offset.
LEMMA AddrInRing ==
  ASSUME NEW s \in Nat \ {0}, NEW f \in FifoType(s), NEW k \in Int
  PROVE  PushAddr(f, k) \in 0..(s - 1) /\ PopAddr(f, k) \in 0..(s - 1)
<1>1. f.push \in Nat /\ f.pop \in Nat /\ f.size = s
  BY DEF FifoType
<1>2. f.push + k \in Int /\ f.pop + k \in Int
  BY <1>1
<1>3. ASSUME NEW a \in Int PROVE (a % IdxMod) % s \in 0..(s - 1)
  <2>1. a % IdxMod \in Nat
    BY IdxModAssumption, ModNat
  <2>2. a % IdxMod \in Int
    BY <2>1
  <2>3. QED
    BY <2>2, ModRange
<1>4. /\ ((f.push + k) % IdxMod) % s \in 0..(s - 1)
      /\ ((f.pop + k) % IdxMod) % s \in 0..(s - 1)
  BY <1>2, <1>3
<1>5. QED
  BY <1>1, <1>4 DEF PushAddr, PopAddr

\* hif_fifo.c:190-227: after n units are written, what lay k units behind push_idx lies
\* k + n units behind it, across the wrap of the index; what is to be read stays.
LEMMA FifoWriteShift ==
  ASSUME NEW s \in Nat \ {0}, NEW f \in FifoType(s), NEW n \in Nat, n <= FreeSize(f)
  PROVE  /\ FifoWrite(f, n) \in FifoType(s)
         /\ FifoWrite(f, n).cnt = f.cnt + n
         /\ \A k \in Int : PushAddr(FifoWrite(f, n), k) = PushAddr(f, k + n)
         /\ \A k \in Int : PopAddr(FifoWrite(f, n), k) = PopAddr(f, k)
         /\ Linked(f) => Linked(FifoWrite(f, n))
<1>1. f.push \in Nat /\ f.cnt \in Nat /\ f.pop \in Nat /\ f.size = s
  BY DEF FifoType
<1>2. WriteLen(f, n) = n
  BY <1>1 DEF WriteLen, Smaller, FreeSize
<1> DEFINE p == (f.push + n) % IdxMod
<1>3. f.push + n \in Int
  BY <1>1
<1>4. p \in Nat
  BY <1>3, IdxModAssumption, ModNat
<1>5. FifoWrite(f, n) = [size |-> s, cnt |-> f.cnt + n, push |-> p, pop |-> f.pop]
  BY <1>1, <1>2 DEF FifoWrite
<1>6. FifoWrite(f, n) \in FifoType(s)
  <2> HIDE DEF p
  <2>1. f.cnt + n \in Nat
    BY <1>1
  <2>2. QED
    BY <1>1, <1>4, <1>5, <2>1 DEF FifoType
<1>7. ASSUME NEW k \in Int
      PROVE  PushAddr(FifoWrite(f, n), k) = PushAddr(f, k + n)
  <2>1. (p + k) % IdxMod = ((f.push + n) + k) % IdxMod
    BY <1>3, IdxModAssumption, ModAdd
  <2>2. (f.push + n) + k = f.push + (k + n)
    BY <1>1
  <2> HIDE DEF p
  <2>3. PushAddr(FifoWrite(f, n), k) = ((p + k) % IdxMod) % s
    BY <1>5 DEF PushAddr
  <2>4. PushAddr(f, k + n) = ((f.push + (k + n)) % IdxMod) % s
    BY <1>1 DEF PushAddr
  <2>5. QED
    BY <2>1, <2>2, <2>3, <2>4
<1>8. ASSUME Linked(f) PROVE Linked(FifoWrite(f, n))
  <2>1. p = (((f.pop + f.cnt) % IdxMod) + n) % IdxMod
    BY <1>8 DEF Linked
  <2>2. f.pop + f.cnt \in Int
    BY <1>1
  <2>3. (((f.pop + f.cnt) % IdxMod) + n) % IdxMod = ((f.pop + f.cnt) + n) % IdxMod
    BY <2>2, IdxModAssumption, ModAdd
  <2>4. (f.pop + f.cnt) + n = f.pop + (f.cnt + n)
    BY <1>1
  <2> HIDE DEF p
  <2>5. QED
    BY <1>5, <2>1, <2>3, <2>4 DEF Linked
<1> HIDE DEF p
<1>9. ASSUME NEW k \in Int PROVE PopAddr(FifoWrite(f, n), k) = PopAddr(f, k)
  BY <1>1, <1>5 DEF PopAddr
<1>10. QED
  BY <1>5, <1>6, <1>7, <1>8, <1>9

\* hif_fifo.c:229-266: after n units are read, what lay k + n units behind pop_idx lies k
\* units behind it; where the next unit will be written stays.
LEMMA FifoReadShift ==
  ASSUME NEW s \in Nat \ {0}, NEW f \in FifoType(s), NEW n \in Nat, n <= f.cnt
  PROVE  /\ FifoRead(f, n) \in FifoType(s)
         /\ FifoRead(f, n).cnt = f.cnt - n
         /\ \A k \in Int : PushAddr(FifoRead(f, n), k) = PushAddr(f, k)
         /\ \A k \in Int : PopAddr(FifoRead(f, n), k) = PopAddr(f, k + n)
         /\ Linked(f) => Linked(FifoRead(f, n))
<1>1. f.push \in Nat /\ f.cnt \in Nat /\ f.pop \in Nat /\ f.size = s
  BY DEF FifoType
<1>2. ReadLen(f, n) = n
  BY <1>1 DEF ReadLen, Smaller, FillSize
<1> DEFINE q == (f.pop + n) % IdxMod
<1>3. f.pop + n \in Int /\ f.cnt - n \in Nat
  BY <1>1
<1>4. q \in Nat
  BY <1>3, IdxModAssumption, ModNat
<1>5. FifoRead(f, n) = [size |-> s, cnt |-> f.cnt - n, push |-> f.push, pop |-> q]
  BY <1>1, <1>2 DEF FifoRead
<1>6. FifoRead(f, n) \in FifoType(s)
  <2> HIDE DEF q
  <2>1. QED
    BY <1>1, <1>3, <1>4, <1>5 DEF FifoType
<1>7. ASSUME NEW k \in Int
      PROVE  PopAddr(FifoRead(f, n), k) = PopAddr(f, k + n)
  <2>1. (q + k) % IdxMod = ((f.pop + n) + k) % IdxMod
    BY <1>3, IdxModAssumption, ModAdd
  <2>2. (f.pop + n) + k = f.pop + (k + n)
    BY <1>1
  <2> HIDE DEF q
  <2>3. PopAddr(FifoRead(f, n), k) = ((q + k) % IdxMod) % s
    BY <1>5 DEF PopAddr
  <2>4. PopAddr(f, k + n) = ((f.pop + (k + n)) % IdxMod) % s
    BY <1>1 DEF PopAddr
  <2>5. QED
    BY <2>1, <2>2, <2>3, <2>4
<1>8. ASSUME Linked(f) PROVE Linked(FifoRead(f, n))
  <2>1. (q + (f.cnt - n)) % IdxMod = ((f.pop + n) + (f.cnt - n)) % IdxMod
    BY <1>3, IdxModAssumption, ModAdd
  <2>2. (f.pop + n) + (f.cnt - n) = f.pop + f.cnt
    BY <1>1
  <2> HIDE DEF q
  <2>3. QED
    BY <1>5, <1>8, <2>1, <2>2 DEF Linked
<1> HIDE DEF q
<1>9. ASSUME NEW k \in Int PROVE PushAddr(FifoRead(f, n), k) = PushAddr(f, k)
  BY <1>1, <1>5 DEF PushAddr
<1>10. QED
  BY <1>5, <1>6, <1>7, <1>8, <1>9

\* When the ring size divides the range of the indices, an address counted from push_idx
\* is one counted from pop_idx, behind the units to be read.
LEMMA PushIsPop ==
  ASSUME NEW s \in Nat \ {0}, IdxMod % s = 0, NEW f \in FifoType(s), Linked(f),
         NEW k \in Int
  PROVE  PushAddr(f, k) = PopAddr(f, f.cnt + k)
<1>1. f.push \in Nat /\ f.cnt \in Nat /\ f.pop \in Nat /\ f.size = s
  BY DEF FifoType
<1>2. f.pop + f.cnt \in Int
  BY <1>1
<1>3. (((f.pop + f.cnt) % IdxMod) + k) % IdxMod = ((f.pop + f.cnt) + k) % IdxMod
  BY <1>2, IdxModAssumption, ModAdd
<1>4. (f.pop + f.cnt) + k = f.pop + (f.cnt + k)
  BY <1>1
<1>5. QED
  BY <1>3, <1>4 DEF PushAddr, PopAddr, Linked

\* Two units less than one lap apart lie in different cells.
LEMMA PopDistinct ==
  ASSUME NEW s \in Nat \ {0}, IdxMod % s = 0, NEW f \in FifoType(s),
         NEW j \in Int, NEW k \in Int, j < k, k - j < s
  PROVE  PopAddr(f, j) # PopAddr(f, k)
<1>1. f.pop \in Nat /\ f.size = s
  BY DEF FifoType
<1> DEFINE a == f.pop + j
           d == k - j
<1>2. a \in Int /\ d \in Int /\ 0 < d /\ d < s /\ a + d = f.pop + k /\ a + d \in Int
  BY <1>1
<1>3. PopAddr(f, j) = (a % IdxMod) % s
  BY <1>1 DEF PopAddr
<1> HIDE DEF a, d
<1>4. PopAddr(f, k) = ((a + d) % IdxMod) % s
  BY <1>1, <1>2 DEF PopAddr
<1>5. (a % IdxMod) % s = a % s /\ ((a + d) % IdxMod) % s = (a + d) % s
  <2>1. ASSUME NEW x \in Int PROVE (x % IdxMod) % s = x % s
    BY IdxModAssumption, ModOfMod
  <2>2. QED
    BY <1>2, <2>1
<1>6. (a + d) % s # a % s
  BY <1>2, ModDistinct
<1>7. QED
  BY <1>3, <1>4, <1>5, <1>6

\* The same counted from push_idx: a slot being filled and those in front of it.
LEMMA PushDistinct ==
  ASSUME NEW s \in Nat \ {0}, IdxMod % s = 0, NEW f \in FifoType(s),
         NEW j \in Int, NEW k \in Int, j < k, k - j < s
  PROVE  PushAddr(f, j) # PushAddr(f, k)
<1>1. f.push \in Nat /\ f.size = s
  BY DEF FifoType
<1> DEFINE a == f.push + j
           d == k - j
<1>2. a \in Int /\ d \in Int /\ 0 < d /\ d < s /\ a + d = f.push + k /\ a + d \in Int
  BY <1>1
<1>3. PushAddr(f, j) = (a % IdxMod) % s
  BY <1>1 DEF PushAddr
<1> HIDE DEF a, d
<1>4. PushAddr(f, k) = ((a + d) % IdxMod) % s
  BY <1>1, <1>2 DEF PushAddr
<1>5. (a % IdxMod) % s = a % s /\ ((a + d) % IdxMod) % s = (a + d) % s
  <2>1. ASSUME NEW x \in Int PROVE (x % IdxMod) % s = x % s
    BY IdxModAssumption, ModOfMod
  <2>2. QED
    BY <1>2, <2>1
<1>6. (a + d) % s # a % s
  BY <1>2, ModDistinct
<1>7. QED
  BY <1>3, <1>4, <1>5, <1>6

-----------------------------------------------------------------------------
(* Sequences of chunks.                                                     *)

\* A list given element by element is a sequence of that length.
LEMMA FunIsSeq ==
  ASSUME NEW S, NEW n \in Nat, NEW f \in [1..n -> S]
  PROVE  f \in Seq(S) /\ Len(f) = n
<1>1. f \in Seq(S) /\ DOMAIN f = 1..n
  BY SeqDef
<1>2. Len(f) \in Nat /\ DOMAIN f = 1..Len(f)
  BY <1>1, LenProperties
<1>3. QED
  BY <1>1, <1>2

\* Taking the first part off a concatenation leaves the second (a receiver that is given
\* what was read before).
LEMMA SplitConcat ==
  ASSUME NEW S, NEW s \in Seq(S), NEW t \in Seq(S)
  PROVE  /\ SubSeq(s \o t, 1, Len(s)) = s
         /\ SubSeq(s \o t, Len(s) + 1, Len(s \o t)) = t
<1>1. /\ s \o t \in Seq(S) /\ Len(s \o t) = Len(s) + Len(t)
      /\ \A i \in 1..(Len(s) + Len(t)) :
           (s \o t)[i] = IF i <= Len(s) THEN s[i] ELSE t[i - Len(s)]
  BY ConcatProperties
<1>2. /\ Len(s) \in Nat /\ Len(t) \in Nat
      /\ \A i \in 1..Len(s) : s[i] \in S
      /\ \A i \in 1..Len(t) : t[i] \in S
  BY LenProperties, ElementOfSeq
<1> DEFINE u == s \o t
<1>3. \A i \in 1..(Len(s) + Len(t)) : u[i] \in S
  BY <1>1, ElementOfSeq
<1> HIDE DEF u
<1>4. SubSeq(u, 1, Len(s)) = s
  <2>1. /\ SubSeq(u, 1, Len(s)) \in Seq(S)
        /\ Len(SubSeq(u, 1, Len(s))) = IF 1 <= Len(s) THEN Len(s) - 1 + 1 ELSE 0
        /\ \A i \in 1..(Len(s) - 1 + 1) : SubSeq(u, 1, Len(s))[i] = u[1 + i - 1]
    <3>1. \A i \in 1..Len(s) : u[i] \in S
      BY <1>2, <1>3
    <3>2. 1 \in Int /\ Len(s) \in Int
      BY <1>2
    <3>3. QED
      BY <3>1, <3>2, SubSeqProperties
  <2>2. Len(SubSeq(u, 1, Len(s))) = Len(s)
    BY <1>2, <2>1
  <2>3. ASSUME NEW i \in 1..Len(s) PROVE SubSeq(u, 1, Len(s))[i] = s[i]
    <3>1. i \in 1..(Len(s) - 1 + 1) /\ 1 + i - 1 = i /\ i <= Len(s)
          /\ i \in 1..(Len(s) + Len(t))
      BY <1>2
    <3>2. u[i] = s[i]
      BY <1>1, <3>1 DEF u
    <3>3. QED
      BY <2>1, <3>1, <3>2
  <2>4. QED
    BY <2>1, <2>2, <2>3, SeqEqual
<1>5. SubSeq(u, Len(s) + 1, Len(u)) = t
  <2> DEFINE m == Len(s) + 1
             v == SubSeq(u, m, Len(u))
  <2>1. m \in Int /\ Len(u) \in Int /\ Len(u) = Len(s) + Len(t)
    BY <1>1, <1>2 DEF u
  <2>2. \A i \in m..Len(u) : u[i] \in S
    BY <1>2, <1>3, <2>1
  <2>3. /\ v \in Seq(S) /\ Len(v) = IF m <= Len(u) THEN Len(u) - m + 1 ELSE 0
        /\ \A i \in 1..(Len(u) - m + 1) : v[i] = u[m + i - 1]
    <3> HIDE DEF m
    <3>1. QED
      BY <2>1, <2>2, SubSeqProperties
  <2>4. Len(v) = Len(t)
    <3>1. Len(u) - m + 1 = Len(t) /\ (m <= Len(u) <=> 1 <= Len(t))
      BY <1>2, <2>1
    <3> HIDE DEF m, v
    <3>2. QED
      BY <1>2, <2>3, <3>1
  <2>5. ASSUME NEW i \in 1..Len(t) PROVE v[i] = t[i]
    <3>1. /\ i \in 1..(Len(u) - m + 1) /\ m + i - 1 = Len(s) + i
          /\ Len(s) + i \in 1..(Len(s) + Len(t))
          /\ ~(Len(s) + i <= Len(s)) /\ (Len(s) + i) - Len(s) = i
      BY <1>2, <2>1
    <3> HIDE DEF m, v
    <3>2. u[Len(s) + i] = t[i]
      BY <1>1, <3>1 DEF u
    <3>3. QED
      BY <2>3, <3>1, <3>2
  <2> HIDE DEF m, v
  <2>6. v = t
    BY <2>3, <2>4, <2>5, SeqEqual
  <2>7. QED
    BY <2>6 DEF v, m
<1>6. QED
  BY <1>4, <1>5 DEF u

\* Appending to the second part is appending to the whole.
LEMMA AppendConcat ==
  ASSUME NEW S, NEW s \in Seq(S), NEW t \in Seq(S), NEW e \in S
  PROVE  s \o Append(t, e) = Append(s \o t, e)
<1>1. <<e>> \in Seq(S) /\ s \o t \in Seq(S)
  BY ConcatProperties
<1>2. Append(t, e) = t \o <<e>> /\ Append(s \o t, e) = (s \o t) \o <<e>>
  BY <1>1, AppendIsConcat
<1>3. (s \o t) \o <<e>> = s \o (t \o <<e>>)
  BY <1>1, ConcatAssociative
<1>4. QED
  BY <1>2, <1>3

\* Moving the first element of the second part to the end of the first changes nothing.
LEMMA HeadMoves ==
  ASSUME NEW S, NEW s \in Seq(S), NEW t \in Seq(S), t # <<>>
  PROVE  /\ Append(s, Head(t)) \o Tail(t) = s \o t
         /\ Append(s, Head(t)) \in Seq(S) /\ Tail(t) \in Seq(S)
         /\ Len(Append(s, Head(t))) = Len(s) + 1
<1>1. Head(t) \in S /\ Tail(t) \in Seq(S)
  BY HeadTailProperties
<1>2. Append(s, Head(t)) \in Seq(S) /\ Len(Append(s, Head(t))) = Len(s) + 1
  BY <1>1, AppendProperties
<1>3. Append(s, Head(t)) = s \o <<Head(t)>> /\ <<Head(t)>> \in Seq(S)
  BY <1>1, AppendIsConcat
<1>4. <<Head(t)>> \o Tail(t) = t
  BY <1>1, SMT
<1>5. (s \o <<Head(t)>>) \o Tail(t) = s \o (<<Head(t)>> \o Tail(t))
  <2>1. \A a, b, c \in Seq(S) : (a \o b) \o c = a \o (b \o c)
    BY SMT
  <2>2. QED
    BY <1>1, <1>3, <2>1, Zenon
<1>6. QED
  BY <1>1, <1>2, <1>3, <1>4, <1>5
=============================================================================
