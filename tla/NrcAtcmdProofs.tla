--------------------------- MODULE NrcAtcmdProofs ---------------------------
(***************************************************************************)
(* Proofs about the commands and their results on the host, for every       *)
(* number of commands, restarts, spurious wake-ups and RXD payloads.        *)
(*                                                                          *)
(* A result names no command, so that it is the right one rests on order:   *)
(* the replies returned, the one held in g_atcmd_info.ret, those on the way *)
(* up, the commands on the way down and the one not yet written are in the  *)
(* order of their numbers (NumInv, UpNums, DownNums).  That payload is not  *)
(* read as a reply rests on PayloadInv, which a restart breaks.  As long as *)
(* nothing is upset, all of them are the current command's (CurrentInv):    *)
(* a command whose write failed leaves nothing that may be answered.        *)
(***************************************************************************)
EXTENDS NrcAtcmd, Integers, TLAPS, SequenceTheorems

UpKinds == {"reply", "boot", "wakeup", "rxd", "data", "cut"}
UpUnits == [kind : UpKinds, n : Nat]
DownUnits == [no : 1..MaxCmds, kind : Kinds]

\* What the types do not say of the units on the way up.
UpType ==
  /\ up \in Seq(UpUnits)
  /\ \A i \in 1..Len(up) :
       /\ up[i].kind = "reply" => up[i].n \in 1..MaxCmds
       /\ up[i].kind = "rxd" => up[i].n \in 0..MaxPayload
       /\ up[i].kind = "data" => up[i].n = 0

\* Until a restart cuts something, payload is what a header announces, and all of it.
PayloadInv ==
  ~cut => /\ \A i \in 1..Len(up) : up[i].kind # "cut"
          /\ rem <= Len(up) /\ \A i \in 1..rem : up[i].kind = "data"
          /\ \A j \in 1..Len(up) : up[j].kind = "rxd" =>
               /\ j + up[j].n <= Len(up)
               /\ \A i \in (j + 1)..(j + up[j].n) : up[i].kind = "data"
          /\ \A i \in 1..Len(up) : up[i].kind = "data" =>
               \/ i <= rem
               \/ \E j \in 1..(i - 1) : up[j].kind = "rxd" /\ i <= j + up[j].n

\* Commands written, and the number of the reply held.
Issued == IF spc \in {"idle", "send"} THEN Len(results) ELSE Len(results) + 1
Held == IF spc # "idle" /\ val.ret = "reply" THEN val.no ELSE 0

\* A number later than those of the replies in r.
Later(r, x) == \A m \in 1..Len(r) : r[m].ret = "reply" => r[m].no < x

NumInv ==
  /\ ReplyOnce
  /\ cmd.no = IF spc = "idle" THEN 0 ELSE Len(results) + 1
  /\ Held <= Issued
  /\ Held # 0 => Later(results, Held)
  /\ spc # "idle" /\ val.ret = "reply" /\ val.no = 0 => cut
  /\ Len(results) <= MaxCmds
  /\ spc # "idle" => Len(results) < MaxCmds

UpNums ==
  /\ \A i \in 1..Len(up) : up[i].kind = "reply" =>
       up[i].n <= Issued /\ Held < up[i].n /\ Later(results, up[i].n)
  /\ \A i, j \in 1..Len(up) : i < j /\ up[i].kind = "reply" /\ up[j].kind = "reply" =>
       up[i].n < up[j].n

DownNums ==
  /\ \A k \in 1..Len(down) :
       down[k].no <= Issued /\ Held < down[k].no /\ Later(results, down[k].no)
  /\ \A k, l \in 1..Len(down) : k < l => down[k].no < down[l].no
  /\ \A k \in 1..Len(down), i \in 1..Len(up) :
       up[i].kind = "reply" => up[i].n < down[k].no

\* While nothing but replies ends a wait.
OwnInv ==
  /\ woken => spc \in {"wait", "return"}
  /\ ~upset => /\ ~cut
               /\ \A i \in 1..Len(up) : up[i].kind \in {"reply", "rxd", "data"}
               /\ spc # "timeout"
               /\ OwnReply
               /\ spc # "idle" => val = None \/ val.ret = "reply"
               /\ woken \/ spc = "return" => val.ret = "reply"

\* As long as nothing is upset, all that is on the way is the current command's.
CurrentInv ==
  ~upset => /\ \A i \in 1..Len(up) : up[i].kind = "reply" => up[i].n = cmd.no
            /\ \A k \in 1..Len(down) : down[k].no = cmd.no
            /\ spc # "idle" /\ val.ret = "reply" => val.no = cmd.no

IInv ==
  TypeOK /\ UpType /\ PayloadInv /\ NumInv /\ UpNums /\ DownNums /\ OwnInv /\ CurrentInv

-----------------------------------------------------------------------------
(* Results and units.                                                       *)

\* What ATCMD_RET values there are.
LEMMA ResultType ==
  /\ None \in Results /\ TimeOut \in Results /\ Failed \in Results
  /\ \A n \in 0..MaxCmds : Reply(n) \in Results /\ Reply(n).ret = "reply" /\ Reply(n).no = n
  /\ None.ret # "reply" /\ TimeOut.ret # "reply" /\ Failed.ret # "reply"
  /\ \A r \in Results : r.no \in 0..MaxCmds /\ (r.ret = "reply" => r = Reply(r.no))
<1>1. MaxCmds \in Nat
  BY NrcAssumption
<1>2. ASSUME NEW r \in Results
      PROVE  r.no \in 0..MaxCmds /\ (r.ret = "reply" => r = Reply(r.no))
  <2>1. CASE r = None \/ r = TimeOut \/ r = Failed
    BY <1>1, <2>1 DEF None, TimeOut, Failed
  <2>2. CASE \E n \in 0..MaxCmds : r = Reply(n)
    BY <2>2 DEF Reply
  <2>3. QED
    BY <2>1, <2>2 DEF Results
<1>3. None \in Results /\ TimeOut \in Results /\ Failed \in Results
  BY DEF Results
<1>4. \A n \in 0..MaxCmds : Reply(n) \in Results /\ Reply(n).ret = "reply" /\ Reply(n).no = n
  BY DEF Results, Reply
<1>5. None.ret # "reply" /\ TimeOut.ret # "reply" /\ Failed.ret # "reply"
  BY DEF None, TimeOut, Failed
<1>6. QED
  BY <1>2, <1>3, <1>4, <1>5

\* Taking a unit or a command from the front.
LEMMA TailFacts ==
  ASSUME NEW S, NEW s \in Seq(S), s # <<>>
  PROVE  /\ Len(s) \in Nat /\ 1 <= Len(s) /\ 1 \in 1..Len(s) /\ Head(s) = s[1] /\ Head(s) \in S
         /\ Tail(s) \in Seq(S) /\ Len(Tail(s)) = Len(s) - 1
         /\ \A i \in 1..Len(Tail(s)) : Tail(s)[i] = s[i + 1] /\ i + 1 \in 1..Len(s)
  BY SMT

\* Adding one at the end.
LEMMA AppendFacts ==
  ASSUME NEW S, NEW s \in Seq(S), NEW e \in S
  PROVE  /\ Len(s) \in Nat
         /\ Append(s, e) \in Seq(S) /\ Len(Append(s, e)) = Len(s) + 1
         /\ \A i \in 1..Len(s) : Append(s, e)[i] = s[i]
         /\ Append(s, e)[Len(s) + 1] = e
  BY SMT

\* The first n units on the way to the host are left by a restart.
Kept(n) ==
  /\ n \in 0..Len(up) /\ n <= Len(up')
  /\ \A i \in 1..n : up'[i] = up[i]
  /\ \A i \in (n + 1)..Len(up') : up'[i].kind \in {"cut", "boot", "wakeup"}
  /\ n = Len(up) => \A i \in (n + 1)..Len(up') : up'[i].kind # "cut"
  /\ cut' = (cut \/ n < Len(up))

\* What a restart leaves on the way to the host, and what it adds.
LEMMA RestartKeeps ==
  ASSUME up \in Seq(UpUnits), NEW events \in Seq(UpUnits), Restart(events),
         \A i \in 1..Len(events) : events[i].kind \in {"boot", "wakeup"}
  PROVE  up' \in Seq(UpUnits) /\ \E n \in 0..Len(up) : Kept(n)
<1> DEFINE Rest(n) == IF n < Len(up) /\ up[n + 1].kind # "data"
                      THEN {<<>>, <<Unit("cut", 0)>>} ELSE {<<>>}
<1>1. PICK n \in 0..Len(up) : \E rest \in Rest(n) :
        /\ up' = SubSeq(up, 1, n) \o rest \o events
        /\ cut' = (cut \/ n < Len(up))
  BY DEF Restart
<1>2. PICK rest \in Rest(n) :
        /\ up' = SubSeq(up, 1, n) \o rest \o events
        /\ cut' = (cut \/ n < Len(up))
  BY <1>1
<1>3. rest \in Seq(UpUnits) /\ \A i \in 1..Len(rest) : rest[i].kind = "cut"
  <2>1. CASE rest = <<>>
    BY <2>1
  <2>2. CASE rest = <<Unit("cut", 0)>>
    <3>1. Unit("cut", 0) \in UpUnits /\ Unit("cut", 0).kind = "cut"
      BY DEF Unit, UpUnits, UpKinds
    <3>2. QED
      BY <2>2, <3>1
  <2>3. QED
    BY <1>2, <2>1, <2>2
<1>0. n = Len(up) => rest = <<>>
  <2>1. n = Len(up) => ~(n < Len(up))
    BY <1>1, LenProperties
  <2>2. QED
    BY <1>2, <2>1
<1> HIDE DEF Rest
<1>4. n \in Nat /\ Len(up) \in Nat /\ n <= Len(up)
  BY <1>1, LenProperties
<1> DEFINE p == SubSeq(up, 1, n)
<1>5. p \in Seq(UpUnits) /\ Len(p) = n /\ \A i \in 1..n : p[i] = up[i]
  BY <1>4
<1> HIDE DEF p
<1>6. /\ p \o rest \in Seq(UpUnits) /\ Len(p \o rest) = n + Len(rest) /\ Len(rest) \in Nat
      /\ \A i \in 1..(n + Len(rest)) :
           (p \o rest)[i] = IF i <= n THEN p[i] ELSE rest[i - n]
  <2>1. rest \in Seq(UpUnits) /\ Len(rest) \in Nat
    BY <1>3, LenProperties
  <2>2. /\ p \o rest \in Seq(UpUnits) /\ Len(p \o rest) = Len(p) + Len(rest)
        /\ \A i \in 1..(Len(p) + Len(rest)) :
             (p \o rest)[i] = IF i <= Len(p) THEN p[i] ELSE rest[i - Len(p)]
    BY <1>5, <2>1, ConcatProperties
  <2>3. QED
    BY <1>5, <2>1, <2>2
<1> DEFINE q == p \o rest
<1>7. /\ q \o events \in Seq(UpUnits) /\ Len(q \o events) = Len(q) + Len(events)
      /\ Len(events) \in Nat
      /\ \A i \in 1..(Len(q) + Len(events)) :
           (q \o events)[i] = IF i <= Len(q) THEN q[i] ELSE events[i - Len(q)]
  BY <1>6, ConcatProperties, LenProperties
<1>8. Len(q) = n + Len(rest) /\ \A i \in 1..(n + Len(rest)) :
           q[i] = IF i <= n THEN p[i] ELSE rest[i - n]
  BY <1>6
<1>9. up' = q \o events
  BY <1>2 DEF p
<1> HIDE DEF q
<1>10. Len(up') = n + Len(rest) + Len(events)
  BY <1>6, <1>7, <1>8, <1>9
<1>11. \A i \in 1..n : up'[i] = up[i]
  BY <1>4, <1>5, <1>6, <1>7, <1>8, <1>9
<1>12. ASSUME NEW i \in (n + 1)..Len(up') PROVE up'[i].kind \in {"cut", "boot", "wakeup"}
  <2>1. i \in 1..(Len(q) + Len(events)) /\ ~(i <= n)
    BY <1>4, <1>6, <1>7, <1>8, <1>10
  <2>2. CASE i <= Len(q)
    <3>1. i - n \in 1..Len(rest) /\ i \in 1..(n + Len(rest))
      BY <1>4, <1>6, <1>8, <2>1, <2>2
    <3>2. up'[i] = rest[i - n]
      BY <1>7, <1>8, <1>9, <2>1, <2>2, <3>1
    <3>3. QED
      BY <1>3, <3>1, <3>2
  <2>3. CASE ~(i <= Len(q))
    <3>1. i - Len(q) \in 1..Len(events)
      BY <1>4, <1>6, <1>7, <1>8, <2>1, <2>3
    <3>2. up'[i] = events[i - Len(q)]
      BY <1>7, <1>9, <2>1, <2>3
    <3>3. QED
      BY <3>1, <3>2
  <2>4. QED
    BY <2>2, <2>3
<1>13. ASSUME n = Len(up), NEW i \in (n + 1)..Len(up') PROVE up'[i].kind # "cut"
  <2>1. Len(rest) = 0
    BY <1>0, <1>13
  <2>2. /\ i \in 1..(Len(q) + Len(events)) /\ ~(i <= Len(q))
        /\ i - Len(q) \in 1..Len(events)
    BY <1>4, <1>7, <1>8, <1>10, <2>1
  <2>3. up'[i] = events[i - Len(q)]
    BY <1>7, <1>9, <2>2
  <2>4. QED
    BY <2>2, <2>3
<1>14. n <= Len(up')
  BY <1>4, <1>6, <1>7, <1>10
<1>15. Kept(n)
  BY <1>1, <1>2, <1>11, <1>12, <1>13, <1>14 DEF Kept
<1>16. QED
  BY <1>1, <1>7, <1>9, <1>15

-----------------------------------------------------------------------------
(* Types.                                                                   *)

FlagType ==
  /\ woken \in BOOLEAN /\ missed \in BOOLEAN /\ upset \in BOOLEAN /\ cut \in BOOLEAN
  /\ asleep \in BOOLEAN /\ part \in BOOLEAN

StateType ==
  /\ spc \in {"idle", "send", "sent", "wait", "timeout", "return"}
  /\ cmd \in [no : 0..MaxCmds, kind : Kinds]
  /\ val \in Results /\ results \in Seq(Results)
  /\ rem \in 0..MaxPayload
  /\ down \in Seq(DownUnits)

\* TypeOK in its parts.
LEMMA TypeParts == TypeOK /\ UpType <=> FlagType /\ StateType /\ UpType
<1>1. UpType => \A i \in DOMAIN up : up[i].kind \in UpKinds
  <2>1. ASSUME NEW t \in Seq(UpUnits), NEW i \in DOMAIN t PROVE t[i].kind \in UpKinds
    <3>1. DOMAIN t = 1..Len(t)
      BY LenProperties
    <3>2. t[i] \in UpUnits
      BY <3>1, ElementOfSeq
    <3>3. QED
      BY <3>2 DEF UpUnits
  <2>2. QED
    BY <2>1 DEF UpType
<1>2. UpType => (TypeOK <=> FlagType /\ StateType)
  BY <1>1, Zenon DEF TypeOK, FlagType, StateType, UpKinds, DownUnits
<1>3. QED
  BY <1>2

\* The same of the state after a step.
LEMMA TypePartsNext == (TypeOK /\ UpType)' <=> FlagType' /\ StateType' /\ UpType'
  BY TypeParts, PTL

\* The units of the way up, as types and lengths.
LEMMA UpIs ==
  ASSUME UpType
  PROVE  /\ Len(up) \in Nat
         /\ \A i \in 1..Len(up) : up[i] \in UpUnits /\ up[i].n \in Nat /\ up[i].kind \in UpKinds
<1>1. up \in Seq(UpUnits) /\ Len(up) \in Nat
  BY LenProperties DEF UpType
<1>2. ASSUME NEW i \in 1..Len(up) PROVE up[i] \in UpUnits
  BY <1>1, ElementOfSeq
<1>3. \A u \in UpUnits : u.n \in Nat /\ u.kind \in UpKinds
  BY DEF UpUnits
<1>4. QED
  BY <1>1, <1>2, <1>3

\* Taking one unit keeps the types of the others.
LEMMA UpTaken ==
  ASSUME UpType, up # <<>>, up' = Tail(up)
  PROVE  /\ UpType' /\ Len(up) \in Nat /\ 1 \in 1..Len(up) /\ Head(up) = up[1]
         /\ Len(up') = Len(up) - 1 /\ Len(up') \in Nat
         /\ \A i \in 1..Len(up') : up'[i] = up[i + 1] /\ i + 1 \in 1..Len(up)
<1>1. /\ Len(up) \in Nat /\ 1 <= Len(up) /\ 1 \in 1..Len(up) /\ Head(up) = up[1]
      /\ up' \in Seq(UpUnits) /\ Len(up') = Len(up) - 1
      /\ \A i \in 1..Len(up') : up'[i] = up[i + 1] /\ i + 1 \in 1..Len(up)
  BY TailFacts DEF UpType
<1>2. UpType'
  BY <1>1 DEF UpType
<1>3. Len(up') \in Nat
  BY <1>1, LenProperties
<1>4. QED
  BY <1>1, <1>2, <1>3

\* Adding a unit of its own type.
LEMMA UpAdded ==
  ASSUME UpType, NEW u \in UpUnits, up' = Append(up, u),
         u.kind = "reply" => u.n \in 1..MaxCmds, u.kind = "rxd" => u.n \in 0..MaxPayload,
         u.kind = "data" => u.n = 0
  PROVE  UpType'
<1>1. /\ Len(up) \in Nat /\ up' \in Seq(UpUnits) /\ Len(up') = Len(up) + 1
      /\ \A i \in 1..Len(up) : up'[i] = up[i]
      /\ up'[Len(up) + 1] = u
  BY AppendFacts DEF UpType
<1>2. \A i \in 1..Len(up') : i \in 1..Len(up) \/ i = Len(up) + 1
  BY <1>1
<1>3. QED
  BY <1>1, <1>2 DEF UpType

\* A restart.
LEMMA UpRestarted ==
  ASSUME UpType, NEW events \in Seq(UpUnits), Restart(events),
         \A i \in 1..Len(events) : events[i].kind \in {"boot", "wakeup"}
  PROVE  UpType' /\ \E n \in 0..Len(up) : Kept(n)
<1>1. up' \in Seq(UpUnits) /\ \E n \in 0..Len(up) : Kept(n)
  BY RestartKeeps DEF UpType
<1>2. PICK n \in 0..Len(up) : Kept(n)
  BY <1>1
<1>3. n \in Nat /\ Len(up) \in Nat
  BY <1>2, UpIs
<1>4. \A i \in 1..Len(up') : i \in 1..n \/ i \in (n + 1)..Len(up')
  BY <1>1, <1>3, LenProperties
<1>5. \A i \in 1..n : i \in 1..Len(up)
  BY <1>2, <1>3
<1>6. UpType'
  BY <1>1, <1>2, <1>4, <1>5 DEF Kept, UpType
<1>7. QED
  BY <1>1, <1>6

\* RXD data: the header and its payload, in one piece.
LEMMA RxdAdded ==
  ASSUME UpType, NEW n \in 0..MaxPayload, SendRxd(n)
  PROVE  /\ up' \in Seq(UpUnits) /\ Len(up') = Len(up) + 1 + n /\ UpType'
         /\ \A i \in 1..Len(up) : up'[i] = up[i]
         /\ up'[Len(up) + 1] = Unit("rxd", n)
         /\ \A i \in 1..n : up'[Len(up) + 1 + i] = Unit("data", 0)
<1> DEFINE h == Append(up, Unit("rxd", n))
           d == [i \in 1..n |-> Unit("data", 0)]
<1>1. n \in Nat /\ n \in 0..MaxPayload
  BY NrcAssumption
<1>2. /\ Unit("rxd", n) \in UpUnits /\ Unit("data", 0) \in UpUnits
      /\ Unit("rxd", n).kind = "rxd" /\ Unit("data", 0).kind = "data"
      /\ Unit("rxd", n).n = n /\ Unit("data", 0).n = 0
  BY <1>1 DEF Unit, UpUnits, UpKinds
<1>3. /\ Len(up) \in Nat /\ h \in Seq(UpUnits) /\ Len(h) = Len(up) + 1
      /\ \A i \in 1..Len(up) : h[i] = up[i]
      /\ h[Len(up) + 1] = Unit("rxd", n)
  BY <1>2, AppendFacts DEF UpType
<1>4. d \in Seq(UpUnits) /\ Len(d) = n /\ \A i \in 1..n : d[i] = Unit("data", 0)
  <2>1. d \in [1..n -> UpUnits]
    BY <1>2
  <2>2. d \in Seq(UpUnits) /\ Len(d) = n
    BY <1>1, <2>1
  <2>3. QED
    BY <2>2
<1>5. up' = h \o d
  BY DEF SendRxd
<1> HIDE DEF h, d
<1>6. /\ h \o d \in Seq(UpUnits) /\ Len(h \o d) = Len(h) + Len(d)
      /\ \A i \in 1..(Len(h) + Len(d)) :
           (h \o d)[i] = IF i <= Len(h) THEN h[i] ELSE d[i - Len(h)]
  BY <1>3, <1>4, ConcatProperties
<1>7. up' \in Seq(UpUnits) /\ Len(up') = Len(up) + 1 + n
  BY <1>1, <1>3, <1>4, <1>5, <1>6
<1>8. \A i \in 1..(Len(up) + 1) : up'[i] = h[i]
  BY <1>1, <1>3, <1>4, <1>5, <1>6
<1>9. ASSUME NEW i \in 1..n PROVE up'[Len(up) + 1 + i] = Unit("data", 0)
  <2>1. /\ Len(up) + 1 + i \in 1..(Len(h) + Len(d)) /\ ~(Len(up) + 1 + i <= Len(h))
        /\ (Len(up) + 1 + i) - Len(h) = i
    BY <1>1, <1>3, <1>4
  <2>2. up'[Len(up) + 1 + i] = d[(Len(up) + 1 + i) - Len(h)]
    BY <1>5, <1>6, <2>1
  <2>3. QED
    BY <1>4, <2>1, <2>2
<1>10. /\ \A i \in 1..Len(up) : up'[i] = up[i]
       /\ up'[Len(up) + 1] = Unit("rxd", n)
  BY <1>3, <1>8
<1>11. UpType'
  <2>1. ASSUME NEW i \in 1..Len(up')
        PROVE  i \in 1..Len(up) \/ i = Len(up) + 1 \/ \E k \in 1..n : i = Len(up) + 1 + k
    <3>1. CASE i <= Len(up) + 1
      BY <1>3, <1>7, <3>1
    <3>2. CASE ~(i <= Len(up) + 1)
      <4>1. i - (Len(up) + 1) \in 1..n /\ i = Len(up) + 1 + (i - (Len(up) + 1))
        BY <1>1, <1>3, <1>7, <3>2
      <4>2. QED
        BY <4>1
    <3>3. QED
      BY <3>1, <3>2
  <2>2. QED
    BY <1>2, <1>7, <1>9, <1>10, <2>1 DEF UpType
<1>12. QED
  BY <1>7, <1>9, <1>10, <1>11

\* What a restart tells the host.
LEMMA RestartEvents ==
  ASSUME ExecuteReset \/ Wakeup \/ Watchdog
  PROVE  \E events \in Seq(UpUnits) :
           Restart(events) /\ \A i \in 1..Len(events) : events[i].kind \in {"boot", "wakeup"}
<1> DEFINE b == Unit("boot", 0)
           w == Unit("wakeup", 0)
<1>1. b \in UpUnits /\ w \in UpUnits /\ b.kind = "boot" /\ w.kind = "wakeup"
  BY DEF Unit, UpUnits, UpKinds
<1>2. Restart(<<b>>) \/ Restart(<<b, w>>)
  BY DEF ExecuteReset, Wakeup, Watchdog
<1> HIDE DEF b, w
<1>3. <<b>> \in Seq(UpUnits) /\ \A i \in 1..Len(<<b>>) : <<b>>[i].kind \in {"boot", "wakeup"}
  BY <1>1
<1>4. /\ <<b, w>> \in Seq(UpUnits)
      /\ \A i \in 1..Len(<<b, w>>) : <<b, w>>[i].kind \in {"boot", "wakeup"}
  BY <1>1
<1>5. CASE Restart(<<b>>)
  BY <1>3, <1>5
<1>6. CASE Restart(<<b, w>>)
  BY <1>4, <1>6
<1>7. QED
  BY <1>2, <1>5, <1>6

\* What the target reads of a command has its number (nrc-atcmd.c:318-322).
LEMMA LineIs ==
  ASSUME IInv, spc = "send"
  PROVE  Line \in DownUnits /\ Line.no = Len(results) + 1 /\ Line.no = cmd.no
<1>1. /\ cmd.no = Len(results) + 1 /\ Len(results) < MaxCmds /\ MaxCmds \in Nat
      /\ Len(results) \in Nat /\ cmd \in [no : 0..MaxCmds, kind : Kinds]
  BY NrcAssumption, LenProperties DEF IInv, NumInv, TypeOK
<1>2. cmd.no \in 1..MaxCmds
  BY <1>1
<1>3. cmd \in DownUnits
  BY <1>1, <1>2 DEF DownUnits
<1>4. [cmd EXCEPT !.kind = "at"] \in DownUnits /\ [cmd EXCEPT !.kind = "at"].no = cmd.no
  BY <1>3 DEF DownUnits, Kinds
<1>5. QED
  BY <1>1, <1>3, <1>4 DEF Line

\* Whether or not a line arrives, the commands on the way down keep their type.
LEMMA DownWritten ==
  ASSUME IInv, spc = "send", NEW dropped \in BOOLEAN, Arrive(dropped)
  PROVE  down' \in Seq(DownUnits) /\ part' = FALSE
<1>1. down \in Seq(DownUnits)
  BY DEF IInv, TypeOK, DownUnits
<1>2. Append(down, Line) \in Seq(DownUnits)
  BY <1>1, LineIs, AppendFacts
<1>3. QED
  BY <1>1, <1>2 DEF Arrive

\* Every step of the sender, the receiver and the target keeps the types.
LEMMA TypeStep == ASSUME IInv, [Next]_vars PROVE (TypeOK /\ UpType)'
<1>1. FlagType /\ StateType /\ UpType /\ MaxCmds \in Nat /\ MaxPayload \in Nat \ {0}
  BY TypeParts, NrcAssumption DEF IInv
<1>2. ASSUME NEW k \in Kinds, Begin(k) PROVE (TypeOK /\ UpType)'
  <2>1. FlagType'
    BY <1>1, <1>2 DEF Begin, FlagType, targetVars, histVars
  <2>2. cmd' \in [no : 0..MaxCmds, kind : Kinds]
    <3>1. Len(results) + 1 \in 0..MaxCmds
      BY <1>1, <1>2, LenProperties DEF Begin, StateType
    <3>2. QED
      BY <1>2, <3>1 DEF Begin
  <2>3. StateType'
    BY <1>1, <1>2, <2>2, ResultType DEF Begin, Initial, StateType, targetVars, histVars
  <2>4. UpType'
    BY <1>1, <1>2 DEF Begin, UpType, targetVars
  <2>5. QED
    BY <2>1, <2>3, <2>4, TypePartsNext
<1>3. CASE Write
  <2>1. PICK dropped \in BOOLEAN : Arrive(dropped) /\ missed' = (missed \/ dropped)
    BY <1>3 DEF Write
  <2>2. spc = "send" /\ spc' = "sent"
        /\ UNCHANGED <<cmd, val, woken, rem, up, asleep, results, upset, cut>>
    BY <1>3 DEF Write
  <2>3. down' \in Seq(DownUnits) /\ part' = FALSE
    BY <2>1, <2>2, DownWritten
  <2>4. FlagType'
    BY <1>1, <2>1, <2>2, <2>3 DEF FlagType
  <2>5. StateType' /\ UpType'
    BY <1>1, <2>2, <2>3 DEF StateType, UpType
  <2>6. QED
    BY <2>4, <2>5, TypePartsNext
<1>14. CASE WriteFails
  <2>1. /\ spc = "send" /\ spc' = "idle" /\ cmd' = NoCmd /\ missed' = FALSE
        /\ results' = Append(results, Failed)
        /\ UNCHANGED <<val, woken, rem, up, asleep, cut>>
    BY <1>14 DEF WriteFails
  <2>2. /\ down' \in Seq(DownUnits) /\ part' \in BOOLEAN /\ upset' \in BOOLEAN
    <3>1. CASE \E dropped \in BOOLEAN : Arrive(dropped) /\ upset' = TRUE
      BY <2>1, <3>1, DownWritten
    <3>2. CASE part' \in {part, TRUE} /\ UNCHANGED <<down, upset>>
      BY <1>1, <3>2 DEF FlagType, StateType
    <3>3. QED
      BY <1>14, <3>1, <3>2 DEF WriteFails
  <2>3. results' \in Seq(Results)
    BY <1>1, <2>1, ResultType DEF StateType
  <2>4. cmd' \in [no : 0..MaxCmds, kind : Kinds]
    BY <1>1, <2>1 DEF NoCmd, Kinds
  <2>5. FlagType'
    BY <1>1, <2>1, <2>2 DEF FlagType
  <2>6. StateType' /\ UpType'
    BY <1>1, <2>1, <2>2, <2>3, <2>4 DEF StateType, UpType
  <2>7. QED
    BY <2>5, <2>6, TypePartsNext
<1>4. CASE Wait \/ Wake \/ WakeSpurious \/ WaitTimeout
  <2>1. FlagType'
    BY <1>1, <1>4 DEF Wait, Wake, WakeSpurious, WaitTimeout, FlagType, targetVars, histVars
  <2>2. /\ spc' \in {"wait", "return", "timeout"}
        /\ UNCHANGED <<cmd, val, rem, results, targetVars>>
    BY <1>4 DEF Wait, Wake, WakeSpurious, WaitTimeout, targetVars, histVars
  <2>3. StateType' /\ UpType'
    BY <1>1, <2>2 DEF StateType, UpType, targetVars
  <2>4. QED
    BY <2>1, <2>3, TypePartsNext
<1>5. CASE SetTimeout
  <2>1. FlagType'
    BY <1>1, <1>5 DEF SetTimeout, FlagType, targetVars, histVars
  <2>2. StateType' /\ UpType'
    BY <1>1, <1>5, ResultType DEF SetTimeout, StateType, UpType, targetVars, histVars
  <2>3. QED
    BY <2>1, <2>2, TypePartsNext
<1>6. CASE Return
  <2>1. FlagType'
    BY <1>1, <1>6 DEF Return, FlagType, targetVars
  <2>2. results' \in Seq(Results)
    BY <1>1, <1>6 DEF Return, StateType
  <2>3. cmd' \in [no : 0..MaxCmds, kind : Kinds]
    BY <1>1, <1>6 DEF Return, NoCmd, Kinds
  <2>4. StateType' /\ UpType'
    BY <1>1, <1>6, <2>2, <2>3 DEF Return, StateType, UpType, targetVars
  <2>5. QED
    BY <2>1, <2>4, TypePartsNext
<1>7. CASE Receive
  <2>1. up # <<>> /\ up' = Tail(up) /\ UNCHANGED <<spc, cmd, down, asleep, part, results, upset, cut>>
    BY <1>7 DEF Receive, ReceivePayload, ReceiveRxd, ReceiveCut, ReceiveReply, ReceiveBoot,
       Take, senderVars, targetVars, histVars
  <2>2. UpType' /\ 1 \in 1..Len(up) /\ Head(up) = up[1]
    BY <1>1, <2>1, UpTaken
  <2>3. FlagType'
    <3>1. woken' \in BOOLEAN
      BY <1>1, <1>7 DEF Receive, ReceivePayload, ReceiveRxd, ReceiveCut, ReceiveReply,
         ReceiveBoot, SetReturn, BootReturn, senderVars, FlagType
    <3>2. missed' \in BOOLEAN
      BY <1>1, <1>7 DEF Receive, ReceivePayload, ReceiveRxd, ReceiveCut, ReceiveReply,
         ReceiveBoot, SetReturn, BootReturn, histVars, FlagType
    <3>3. QED
      BY <1>1, <2>1, <3>1, <3>2 DEF FlagType
  <2>4. /\ up[1].n \in Nat /\ up[1] \in UpUnits
        /\ up[1].kind = "reply" => up[1].n \in 1..MaxCmds
        /\ up[1].kind = "rxd" => up[1].n \in 0..MaxPayload
        /\ up[1].kind = "data" => up[1].n = 0
    BY <1>1, <2>2, UpIs DEF UpType
  <2>5. rem' \in 0..MaxPayload
    <3>1. rem \in 0..MaxPayload
      BY <1>1 DEF StateType
    <3>2. CASE ReceivePayload
      BY <1>1, <3>1, <3>2 DEF ReceivePayload, Looks
    <3>3. CASE ReceiveRxd
      BY <2>2, <2>4, <3>3 DEF ReceiveRxd, Payload
    <3>4. CASE ReceiveCut
      BY <1>1, <3>4 DEF ReceiveCut
    <3>5. CASE ReceiveReply \/ ReceiveBoot
      BY <3>1, <3>5 DEF ReceiveReply, ReceiveBoot
    <3>6. QED
      BY <1>7, <3>2, <3>3, <3>4, <3>5 DEF Receive
  <2>6. val' \in Results
    <3>1. val \in Results
      BY <1>1 DEF StateType
    <3>2. CASE ReceivePayload \/ ReceiveRxd \/ ReceiveCut
      BY <3>1, <3>2 DEF ReceivePayload, ReceiveRxd, ReceiveCut, senderVars
    <3>3. CASE ReceiveReply
      <4>1. Head(up).n \in 0..MaxCmds
        BY <1>1, <2>2, <2>4, <3>3 DEF ReceiveReply
      <4>2. QED
        BY <3>3, <4>1, ResultType DEF ReceiveReply, SetReturn
    <3>4. CASE ReceiveBoot
      BY <3>4, ResultType DEF ReceiveBoot, BootReturn, SetReturn
    <3>5. QED
      BY <1>7, <3>2, <3>3, <3>4 DEF Receive
  <2>7. StateType'
    BY <1>1, <2>1, <2>5, <2>6 DEF StateType
  <2>8. QED
    BY <2>2, <2>3, <2>7, TypePartsNext
<1>8. ASSUME ExecuteReset \/ Wakeup \/ Watchdog PROVE (TypeOK /\ UpType)'
  <2>1. PICK events \in Seq(UpUnits) :
          Restart(events) /\ \A i \in 1..Len(events) : events[i].kind \in {"boot", "wakeup"}
    BY <1>8, RestartEvents
  <2>2. UpType'
    BY <1>1, <2>1, UpRestarted
  <2>3. /\ asleep' \in {asleep, FALSE} /\ part' = FALSE /\ upset' = TRUE /\ cut' \in BOOLEAN
        /\ UNCHANGED <<woken, missed>>
    BY <1>8 DEF ExecuteReset, Wakeup, Watchdog, Restart, senderVars
  <2>4. down' = <<>> /\ UNCHANGED <<senderVars, rem, results>>
    BY <1>8 DEF ExecuteReset, Wakeup, Watchdog, Restart
  <2>5. FlagType'
    BY <1>1, <2>3 DEF FlagType
  <2>6. StateType'
    BY <1>1, <2>4 DEF StateType, senderVars
  <2>7. QED
    BY <2>2, <2>5, <2>6, TypePartsNext
<1>9. CASE Answer
  <2>1. /\ down # <<>> /\ down' = Tail(down) /\ UNCHANGED <<senderVars, rem, asleep, part, histVars>>
        /\ up' = up \/ up' = Append(up, Unit("reply", Head(down).no))
    BY <1>9 DEF Answer
  <2>2. Head(down).no \in 1..MaxCmds /\ down' \in Seq(DownUnits)
    <3>1. Head(down) \in DownUnits /\ down' \in Seq(DownUnits)
      BY <1>1, <2>1, TailFacts DEF StateType
    <3>2. QED
      BY <3>1 DEF DownUnits
  <2>3. UpType'
    <3>1. CASE up' = up
      BY <1>1, <3>1 DEF UpType
    <3>2. CASE up' = Append(up, Unit("reply", Head(down).no))
      <4>1. /\ Unit("reply", Head(down).no) \in UpUnits
            /\ Unit("reply", Head(down).no).kind = "reply"
            /\ Unit("reply", Head(down).no).n \in 1..MaxCmds
        BY <2>2 DEF Unit, UpUnits, UpKinds
      <4>2. QED
        BY <1>1, <3>2, <4>1, UpAdded
    <3>3. QED
      BY <2>1, <3>1, <3>2
  <2>4. FlagType' /\ StateType'
    BY <1>1, <2>1, <2>2 DEF FlagType, StateType, senderVars, histVars
  <2>5. QED
    BY <2>3, <2>4, TypePartsNext
<1>10. CASE Sleep
  <2>1. down' \in Seq(DownUnits)
    BY <1>1, <1>10, TailFacts DEF Sleep, StateType
  <2>2. FlagType' /\ StateType' /\ UpType'
    BY <1>1, <1>10, <2>1 DEF Sleep, FlagType, StateType, UpType, senderVars, histVars
  <2>3. QED
    BY <2>2, TypePartsNext
<1>11. ASSUME NEW n \in 0..MaxPayload, SendRxd(n) PROVE (TypeOK /\ UpType)'
  <2>1. UpType'
    BY <1>1, <1>11, RxdAdded
  <2>2. FlagType' /\ StateType'
    BY <1>1, <1>11 DEF SendRxd, FlagType, StateType, senderVars
  <2>3. QED
    BY <2>1, <2>2, TypePartsNext
<1>12. CASE UNCHANGED vars
  <2>1. FlagType' /\ StateType' /\ UpType'
    BY <1>1, <1>12 DEF vars, FlagType, StateType, UpType, senderVars, targetVars, histVars
  <2>2. QED
    BY <2>1, TypePartsNext
<1>13. QED
  BY <1>2, <1>3, <1>4, <1>5, <1>6, <1>7, <1>8, <1>9, <1>10, <1>11, <1>12, <1>14
     DEF Next, SenderStep, TargetStep

-----------------------------------------------------------------------------
(* Payload.                                                                 *)

\* nrc_atcmd_recv takes a unit: of a payload, a header, or a line.
LEMMA PayloadTaken ==
  ASSUME IInv, Receive PROVE PayloadInv'
<1> SUFFICES ASSUME ~cut' PROVE PayloadInv'
  BY DEF PayloadInv
<1>1. up # <<>> /\ up' = Tail(up) /\ ~cut
  BY DEF Receive, ReceivePayload, ReceiveRxd, ReceiveCut, ReceiveReply, ReceiveBoot, Take,
     senderVars, targetVars, histVars
<1> DEFINE n == Len(up)
           m == Len(up')
<1>2. /\ n \in Nat /\ 1 \in 1..n /\ Head(up) = up[1] /\ m = n - 1
      /\ \A i \in 1..m : up'[i] = up[i + 1] /\ i + 1 \in 1..n
      /\ rem \in Nat
  BY <1>1, UpTaken, NrcAssumption DEF IInv, TypeOK
<1>3. /\ \A i \in 1..n : up[i].kind # "cut"
      /\ rem <= n /\ \A i \in 1..rem : up[i].kind = "data"
      /\ \A j \in 1..n : up[j].kind = "rxd" =>
           j + up[j].n <= n /\ \A i \in (j + 1)..(j + up[j].n) : up[i].kind = "data"
      /\ \A i \in 1..n : up[i].kind = "data" =>
           i <= rem \/ \E j \in 1..(i - 1) : up[j].kind = "rxd" /\ i <= j + up[j].n
  BY <1>1 DEF IInv, PayloadInv
<1>4. \A j \in 1..n : up[j].n \in Nat
  BY UpIs DEF IInv
<1>5. rem' = IF rem # 0 THEN rem - 1 ELSE IF up[1].kind = "rxd" THEN up[1].n ELSE 0
  <2>1. CASE ReceivePayload
    BY <2>1 DEF ReceivePayload, Looks
  <2>2. CASE ReceiveRxd
    BY <1>2, <2>2 DEF ReceiveRxd, Looks, Payload
  <2>3. CASE ReceiveCut
    BY <1>2, <1>3, <2>3 DEF ReceiveCut
  <2>4. CASE ReceiveReply
    BY <1>2, <2>4 DEF ReceiveReply, Looks
  <2>5. CASE ReceiveBoot
    BY <1>2, <2>5 DEF ReceiveBoot, Looks
  <2>6. QED
    BY <2>1, <2>2, <2>3, <2>4, <2>5 DEF Receive
<1> HIDE DEF n, m
<1>6. \A i \in 1..m : up'[i].kind # "cut"
  BY <1>2, <1>3
<1>7. rem' \in Nat /\ rem' <= m /\ \A i \in 1..rem' : up'[i].kind = "data"
  <2>1. CASE rem # 0
    <3>1. rem' = rem - 1
      BY <1>5, <2>1
    <3>2. rem - 1 \in Nat /\ rem - 1 <= m /\ \A i \in 1..(rem - 1) : up'[i].kind = "data"
      <4>1. rem - 1 \in Nat /\ rem - 1 <= m
        BY <1>2, <1>3, <2>1
      <4>2. \A i \in 1..(rem - 1) : i \in 1..m /\ i + 1 \in 1..rem
        BY <1>2, <1>3, <2>1
      <4>3. QED
        BY <1>2, <1>3, <4>1, <4>2
    <3>3. QED
      BY <3>1, <3>2, Zenon
  <2>2. CASE rem = 0 /\ up[1].kind = "rxd"
    <3>1. rem' = up[1].n
      BY <1>5, <2>2
    <3>2. /\ up[1].n \in Nat /\ 1 + up[1].n <= n
          /\ \A i \in 2..(1 + up[1].n) : up[i].kind = "data"
      BY <1>2, <1>3, <1>4, <2>2
    <3> DEFINE l == up[1].n
    <3>3. l \in Nat /\ 1 + l <= n /\ \A i \in 2..(1 + l) : up[i].kind = "data"
      BY <3>2
    <3> HIDE DEF l
    <3>4. l <= m /\ \A i \in 1..l : i \in 1..m /\ i + 1 \in 2..(1 + l)
      BY <1>2, <3>3
    <3>5. \A i \in 1..l : up'[i].kind = "data"
      BY <1>2, <3>3, <3>4
    <3>6. rem' = l
      BY <3>1 DEF l
    <3>7. QED
      BY <3>3, <3>4, <3>5, <3>6, Zenon
  <2>3. CASE rem = 0 /\ up[1].kind # "rxd"
    <3>1. rem' = 0
      BY <1>5, <2>3
    <3>2. QED
      BY <1>2, <3>1
  <2>4. QED
    BY <2>1, <2>2, <2>3
<1>8. ASSUME NEW j \in 1..m, up'[j].kind = "rxd"
      PROVE  j + up'[j].n <= m /\ \A i \in (j + 1)..(j + up'[j].n) : up'[i].kind = "data"
  <2> DEFINE l == up'[j].n
  <2>1. j + 1 \in 1..n /\ up[j + 1].kind = "rxd" /\ l = up[j + 1].n
    BY <1>2, <1>8
  <2>2. /\ l \in Nat /\ (j + 1) + l <= n
        /\ \A i \in ((j + 1) + 1)..((j + 1) + l) : up[i].kind = "data"
    BY <1>3, <1>4, <2>1
  <2> HIDE DEF l
  <2>3. j + l <= m
    BY <1>2, <2>2
  <2>4. ASSUME NEW i \in (j + 1)..(j + l) PROVE up'[i].kind = "data"
    <3>1. i \in 1..m /\ i + 1 \in ((j + 1) + 1)..((j + 1) + l)
      BY <1>2, <2>2, <2>3
    <3>2. QED
      BY <1>2, <2>2, <3>1
  <2>5. QED
    BY <2>3, <2>4 DEF l
<1>9. ASSUME NEW i \in 1..m, up'[i].kind = "data"
      PROVE  i <= rem' \/ \E j \in 1..(i - 1) : up'[j].kind = "rxd" /\ i <= j + up'[j].n
  <2>1. i + 1 \in 1..n /\ up[i + 1].kind = "data"
    BY <1>2, <1>9
  <2>2. CASE i + 1 <= rem
    <3>1. i <= rem - 1 /\ rem # 0
      BY <1>2, <2>2
    <3>2. QED
      BY <1>5, <3>1
  <2>3. CASE \E j \in 1..((i + 1) - 1) : up[j].kind = "rxd" /\ i + 1 <= j + up[j].n
    <3>1. PICK j \in 1..((i + 1) - 1) : up[j].kind = "rxd" /\ i + 1 <= j + up[j].n
      BY <2>3
    <3>2. CASE j = 1
      <4>1. rem = 0
        BY <1>2, <1>3, <3>1, <3>2
      <4>2. rem' = up[1].n
        BY <1>5, <3>1, <3>2, <4>1
      <4>3. i <= up[1].n
        BY <1>2, <1>4, <3>1, <3>2
      <4>4. QED
        BY <4>2, <4>3
    <3>3. CASE j # 1
      <4>1. j - 1 \in 1..(i - 1) /\ j - 1 \in 1..m /\ (j - 1) + 1 = j
        BY <1>2, <3>1, <3>3
      <4>2. up'[j - 1] = up[j]
        BY <1>2, <4>1
      <4>3. j \in 1..n
        BY <1>2, <3>1
      <4>4. i <= (j - 1) + up[j].n
        BY <1>2, <1>4, <3>1, <4>3
      <4>5. QED
        BY <3>1, <4>1, <4>2, <4>4
    <3>4. QED
      BY <3>2, <3>3
  <2>4. QED
    BY <1>3, <2>1, <2>2, <2>3
<1>10. QED
  BY <1>6, <1>7, <1>8, <1>9 DEF PayloadInv, m

\* Whole units and payloads are added behind what is on the way.
LEMMA PayloadGrown ==
  ASSUME IInv, cut' = cut, rem' = rem, Len(up') \in Nat, Len(up) <= Len(up'),
         \A i \in 1..Len(up) : up'[i] = up[i],
         \A i \in (Len(up) + 1)..Len(up') :
           /\ up'[i].kind # "cut"
           /\ up'[i].kind = "rxd" => /\ i + up'[i].n <= Len(up')
                                     /\ \A k \in (i + 1)..(i + up'[i].n) : up'[k].kind = "data"
           /\ up'[i].kind = "data" =>
                \E j \in 1..(i - 1) : up'[j].kind = "rxd" /\ i <= j + up'[j].n
  PROVE  PayloadInv'
<1> SUFFICES ASSUME ~cut' PROVE PayloadInv'
  BY DEF PayloadInv
<1> DEFINE n == Len(up)
           m == Len(up')
<1>1. n \in Nat /\ m \in Nat /\ n <= m /\ rem \in Nat /\ \A i \in 1..n : up'[i] = up[i]
  BY UpIs, NrcAssumption DEF IInv, TypeOK
<1>2. /\ \A i \in 1..n : up[i].kind # "cut"
      /\ rem <= n /\ \A i \in 1..rem : up[i].kind = "data"
      /\ \A j \in 1..n : up[j].kind = "rxd" =>
           j + up[j].n <= n /\ \A i \in (j + 1)..(j + up[j].n) : up[i].kind = "data"
      /\ \A i \in 1..n : up[i].kind = "data" =>
           i <= rem \/ \E j \in 1..(i - 1) : up[j].kind = "rxd" /\ i <= j + up[j].n
  BY DEF IInv, PayloadInv
<1>3. \A j \in 1..n : up[j].n \in Nat
  BY UpIs DEF IInv
<1>4. \A i \in (n + 1)..m :
           /\ up'[i].kind # "cut"
           /\ up'[i].kind = "rxd" => /\ i + up'[i].n <= m
                                     /\ \A k \in (i + 1)..(i + up'[i].n) : up'[k].kind = "data"
           /\ up'[i].kind = "data" =>
                \E j \in 1..(i - 1) : up'[j].kind = "rxd" /\ i <= j + up'[j].n
  OBVIOUS
<1> HIDE DEF n, m
<1>5. \A i \in 1..m : i \in 1..n \/ i \in (n + 1)..m
  BY <1>1
<1>6. \A i \in 1..m : up'[i].kind # "cut"
  BY <1>1, <1>2, <1>4, <1>5
<1>7. rem <= m /\ \A i \in 1..rem : up'[i].kind = "data"
  BY <1>1, <1>2
<1>8. ASSUME NEW j \in 1..m, up'[j].kind = "rxd"
      PROVE  j + up'[j].n <= m /\ \A i \in (j + 1)..(j + up'[j].n) : up'[i].kind = "data"
  <2>1. CASE j \in 1..n
    <3> DEFINE l == up[j].n
    <3>1. l \in Nat /\ j + l <= n /\ \A i \in (j + 1)..(j + l) : up[i].kind = "data"
      BY <1>1, <1>2, <1>3, <1>8, <2>1
    <3>2. up'[j].n = l
      BY <1>1, <2>1
    <3> HIDE DEF l
    <3>3. j + l <= m /\ \A i \in (j + 1)..(j + l) : i \in 1..n
      BY <1>1, <2>1, <3>1
    <3>4. \A i \in (j + 1)..(j + l) : up'[i].kind = "data"
      BY <1>1, <3>1, <3>3
    <3>5. QED
      BY <3>2, <3>3, <3>4
  <2>2. CASE j \in (n + 1)..m
    BY <1>4, <1>8, <2>2
  <2>3. QED
    BY <1>5, <2>1, <2>2
<1>9. ASSUME NEW i \in 1..m, up'[i].kind = "data"
      PROVE  i <= rem \/ \E j \in 1..(i - 1) : up'[j].kind = "rxd" /\ i <= j + up'[j].n
  <2>1. CASE i \in 1..n
    <3>1. CASE \E j \in 1..(i - 1) : up[j].kind = "rxd" /\ i <= j + up[j].n
      <4>1. PICK j \in 1..(i - 1) : up[j].kind = "rxd" /\ i <= j + up[j].n
        BY <3>1
      <4>2. j \in 1..n
        BY <1>1, <2>1
      <4>3. up'[j] = up[j]
        BY <1>1, <4>2
      <4>4. QED
        BY <4>1, <4>3
    <3>2. QED
      BY <1>1, <1>2, <1>9, <2>1, <3>1
  <2>2. CASE i \in (n + 1)..m
    BY <1>4, <1>9, <2>2
  <2>3. QED
    BY <1>5, <2>1, <2>2
<1>10. QED
  BY <1>6, <1>7, <1>8, <1>9 DEF PayloadInv, m

\* A header is followed by its payload until a restart cuts it off.
LEMMA PayloadStep == ASSUME IInv, [Next]_vars PROVE PayloadInv'
<1>1. Len(up) \in Nat /\ Len(up') \in Nat /\ UpType
  <2>1. UpType'
    BY TypeStep
  <2>2. Len(up') \in Nat
    BY <2>1, LenProperties DEF UpType
  <2>3. QED
    BY <2>2, UpIs DEF IInv
<1>2. ASSUME UNCHANGED <<up, rem, cut>> PROVE PayloadInv'
  BY <1>2 DEF IInv, PayloadInv
<1>3. ASSUME NEW k \in Kinds, Begin(k) PROVE PayloadInv'
  BY <1>2, <1>3 DEF Begin, targetVars, histVars
<1>4. CASE SenderStep \/ WriteFails \/ WakeSpurious \/ Sleep \/ UNCHANGED vars
  BY <1>2, <1>4 DEF SenderStep, WriteFails, WakeSpurious, Write, Wait, Wake, WaitTimeout, SetTimeout,
     Return, Sleep, vars, targetVars, histVars
<1>5. CASE Receive
  BY <1>5, PayloadTaken
<1>6. CASE ExecuteReset \/ Wakeup \/ Watchdog
  <2>1. PICK events \in Seq(UpUnits) :
          Restart(events) /\ \A i \in 1..Len(events) : events[i].kind \in {"boot", "wakeup"}
    BY <1>6, RestartEvents
  <2>2. PICK n \in 0..Len(up) : Kept(n)
    BY <1>1, <2>1, UpRestarted
  <2>3. rem' = rem
    BY <1>6 DEF ExecuteReset, Wakeup, Watchdog
  <2>4. CASE cut'
    BY <2>4 DEF PayloadInv
  <2>5. CASE ~cut'
    <3>1. n = Len(up) /\ cut' = cut
      <4>1. cut' = (cut \/ n < Len(up)) /\ n \in 0..Len(up)
        BY <2>2 DEF Kept
      <4>2. ~cut /\ ~(n < Len(up))
        BY <2>5, <4>1
      <4>3. n = Len(up)
        BY <1>1, <4>1, <4>2
      <4>4. cut \in BOOLEAN
        BY DEF IInv, TypeOK
      <4>5. cut = FALSE /\ cut' = FALSE
        BY <4>1, <4>2, <4>4
      <4>6. QED
        BY <4>3, <4>5
    <3>2. \A i \in (Len(up) + 1)..Len(up') :
            up'[i].kind \in {"cut", "boot", "wakeup"} /\ up'[i].kind # "cut"
      BY <2>2, <3>1 DEF Kept
    <3>3. Len(up) <= Len(up') /\ \A i \in 1..Len(up) : up'[i] = up[i]
      BY <2>2, <3>1 DEF Kept
    <3>4. QED
      BY <1>1, <2>3, <3>1, <3>2, <3>3, PayloadGrown
  <2>6. QED
    BY <2>4, <2>5
<1>7. CASE Answer
  <2>1. UNCHANGED <<rem, cut>>
    BY <1>7 DEF Answer, histVars
  <2>2. CASE up' = up
    BY <1>2, <2>1, <2>2
  <2>3. CASE up' = Append(up, Unit("reply", Head(down).no))
    <3> DEFINE u == Unit("reply", Head(down).no)
    <3>1. u.kind = "reply"
      BY DEF Unit
    <3>2. Len(up') = Len(up) + 1 /\ (\A i \in 1..Len(up) : up'[i] = up[i])
          /\ up'[Len(up) + 1] = u
      <4>1. up \in Seq(UpUnits)
        BY <1>1 DEF UpType
      <4>2. \A s \in Seq(UpUnits) : /\ Len(Append(s, u)) = Len(s) + 1
                                    /\ \A i \in 1..Len(s) : Append(s, u)[i] = s[i]
                                    /\ Append(s, u)[Len(s) + 1] = u
        BY SMT
      <4>3. QED
        BY <2>3, <4>1, <4>2
    <3> HIDE DEF u
    <3>3. \A i \in (Len(up) + 1)..Len(up') : i = Len(up) + 1 /\ up'[i].kind = "reply"
      BY <1>1, <3>1, <3>2
    <3>4. Len(up) <= Len(up')
      BY <1>1, <3>2
    <3>5. QED
      BY <1>1, <2>1, <3>2, <3>3, <3>4, PayloadGrown
  <2>4. QED
    BY <1>7, <2>2, <2>3 DEF Answer
<1>8. ASSUME NEW n \in 0..MaxPayload, SendRxd(n) PROVE PayloadInv'
  <2>1. UNCHANGED <<rem, cut>>
    BY <1>8 DEF SendRxd
  <2>2. /\ Len(up') = Len(up) + 1 + n
        /\ \A i \in 1..Len(up) : up'[i] = up[i]
        /\ up'[Len(up) + 1] = Unit("rxd", n)
        /\ \A i \in 1..n : up'[Len(up) + 1 + i] = Unit("data", 0)
    BY <1>1, <1>8, RxdAdded
  <2>3. n \in Nat /\ Unit("rxd", n).kind = "rxd" /\ Unit("rxd", n).n = n
        /\ Unit("data", 0).kind = "data"
    BY NrcAssumption DEF Unit
  <2> DEFINE h == Len(up) + 1
  <2>4. h \in Nat /\ h = Len(up) + 1 /\ Len(up') = h + n
        /\ up'[h].kind = "rxd" /\ up'[h].n = n
    BY <1>1, <2>2, <2>3
  <2>5. \A i \in 1..n : up'[h + i].kind = "data"
    BY <2>2, <2>3
  <2> HIDE DEF h
  <2>6. \A k \in (h + 1)..(h + n) : up'[k].kind = "data"
    <3>1. \A k \in (h + 1)..(h + n) : k - h \in 1..n /\ h + (k - h) = k
      BY <2>3, <2>4
    <3>2. QED
      BY <2>5, <3>1
  <2>7. ASSUME NEW i \in (Len(up) + 1)..Len(up')
        PROVE /\ up'[i].kind # "cut"
              /\ up'[i].kind = "rxd" =>
                   /\ i + up'[i].n <= Len(up')
                   /\ \A k \in (i + 1)..(i + up'[i].n) : up'[k].kind = "data"
              /\ up'[i].kind = "data" =>
                   \E j \in 1..(i - 1) : up'[j].kind = "rxd" /\ i <= j + up'[j].n
    <3>1. CASE i = h
      <4>1. h + n <= h + n
        BY <2>3, <2>4
      <4>2. QED
        BY <2>4, <2>6, <3>1, <4>1
    <3>2. CASE i # h
      <4>1. i \in (h + 1)..(h + n) /\ h \in 1..(i - 1) /\ i <= h + n
        BY <1>1, <2>3, <2>4, <3>2
      <4>2. QED
        BY <2>4, <2>6, <4>1
    <3>3. QED
      BY <3>1, <3>2
  <2>8. Len(up) <= Len(up')
    BY <1>1, <2>3, <2>4
  <2>9. QED
    BY <1>1, <2>1, <2>2, <2>7, <2>8, PayloadGrown
<1>9. QED
  BY <1>3, <1>4, <1>5, <1>6, <1>7, <1>8 DEF Next, TargetStep

-----------------------------------------------------------------------------
(* Numbers.                                                                 *)

\* The types behind the numbers.
LEMMA NumFacts ==
  ASSUME IInv
  PROVE  /\ Len(results) \in Nat /\ Issued \in Nat /\ Held \in Nat
         /\ Len(results) <= Issued /\ Issued <= Len(results) + 1
         /\ val \in Results /\ val.no \in Nat
         /\ \A m \in 1..Len(results) : results[m] \in Results /\ results[m].no \in Nat
         /\ \A i \in 1..Len(up) : up[i].kind = "reply" => up[i].n \in Nat /\ up[i].n >= 1
         /\ \A k \in 1..Len(down) : down[k].no \in Nat /\ down[k].no >= 1
         /\ Len(up) \in Nat /\ Len(down) \in Nat
<1>1. results \in Seq(Results) /\ val \in Results /\ down \in Seq(DownUnits) /\ MaxCmds \in Nat
  BY NrcAssumption DEF IInv, TypeOK, DownUnits
<1>2. Len(results) \in Nat /\ Len(down) \in Nat /\ Len(up) \in Nat
  BY <1>1, LenProperties, UpIs DEF IInv
<1>3. Issued \in Nat /\ Len(results) <= Issued /\ Issued <= Len(results) + 1
  BY <1>2 DEF Issued
<1>4. val.no \in Nat /\ Held \in Nat
  BY <1>1, ResultType DEF Held
<1>5. \A m \in 1..Len(results) : results[m] \in Results /\ results[m].no \in Nat
  <2>1. \A m \in 1..Len(results) : results[m] \in Results
    BY <1>1, ElementOfSeq
  <2>2. QED
    BY <1>1, <2>1, ResultType
<1>6. \A i \in 1..Len(up) : up[i].kind = "reply" => up[i].n \in Nat /\ up[i].n >= 1
  BY <1>1 DEF IInv, UpType
<1>7. \A k \in 1..Len(down) : down[k].no \in Nat /\ down[k].no >= 1
  <2>1. \A k \in 1..Len(down) : down[k] \in DownUnits
    BY <1>1, ElementOfSeq
  <2>2. QED
    BY <1>1, <2>1 DEF DownUnits
<1>8. QED
  BY <1>1, <1>2, <1>3, <1>4, <1>5, <1>6, <1>7

NumTypes ==
  /\ Len(up) \in Nat /\ Len(down) \in Nat /\ Len(results) \in Nat

\* What is on the way, and the results, are sequences after a step too.
LEMMA NextTypes == ASSUME IInv, [Next]_vars PROVE NumTypes'
<1>1. (TypeOK /\ UpType)'
  BY TypeStep
<1>2. up' \in Seq(UpUnits) /\ down' \in Seq(DownUnits) /\ results' \in Seq(Results)
  BY <1>1 DEF UpType, TypeOK, DownUnits
<1>3. QED
  BY <1>2, LenProperties DEF NumTypes

\* Of the units and commands on the way, none but the first k and l are gone; what is left
\* stays in order, and behind what has been taken.
LEMMA OrderKept ==
  ASSUME IInv, NumTypes', NEW k \in Nat, NEW l \in Nat,
         \A i \in 1..Len(up') : up'[i].kind = "reply" =>
           i + k \in 1..Len(up) /\ up'[i] = up[i + k],
         \A i \in 1..Len(down') : i + l \in 1..Len(down) /\ down'[i] = down[i + l],
         Issued' \in Nat, Issued <= Issued',
         \A i \in 1..Len(up) : up[i].kind = "reply" /\ i > k =>
           Held' < up[i].n /\ Later(results', up[i].n),
         \A i \in 1..Len(down) : i > l => Held' < down[i].no /\ Later(results', down[i].no)
  PROVE  UpNums' /\ DownNums'
<1>1. /\ Len(up') \in Nat /\ Len(down') \in Nat /\ Issued \in Nat
      /\ Len(up) \in Nat /\ Len(down) \in Nat
  BY NumFacts DEF NumTypes
<1>2. ASSUME NEW i \in 1..Len(up'), up'[i].kind = "reply"
      PROVE  /\ i + k \in 1..Len(up) /\ up'[i] = up[i + k] /\ up[i + k].kind = "reply"
             /\ i + k > k /\ up[i + k].n \in Nat /\ up[i + k].n <= Issued
  <2>1. i + k \in 1..Len(up) /\ up'[i] = up[i + k] /\ up[i + k].kind = "reply"
    BY <1>2
  <2>2. i + k > k
    BY <1>1
  <2>3. up[i + k].n \in Nat
    BY <2>1, NumFacts
  <2>4. up[i + k].n <= Issued
    BY <2>1 DEF IInv, UpNums
  <2>5. QED
    BY <2>1, <2>2, <2>3, <2>4
<1>3. ASSUME NEW i \in 1..Len(down')
      PROVE  /\ i + l \in 1..Len(down) /\ down'[i] = down[i + l] /\ i + l > l
             /\ down[i + l].no \in Nat /\ down[i + l].no <= Issued
  <2>1. i + l \in 1..Len(down) /\ down'[i] = down[i + l]
    BY <1>3
  <2>2. i + l > l
    BY <1>1
  <2>3. down[i + l].no \in Nat
    BY <2>1, NumFacts
  <2>4. down[i + l].no <= Issued
    BY <2>1 DEF IInv, DownNums
  <2>5. QED
    BY <2>1, <2>2, <2>3, <2>4
<1>5. ASSUME NEW i \in 1..Len(up'), up'[i].kind = "reply"
      PROVE  up'[i].n <= Issued' /\ Held' < up'[i].n /\ Later(results', up'[i].n)
  <2>1. up'[i].n = up[i + k].n
    BY <1>2, <1>5
  <2>2. up[i + k].n <= Issued'
    BY <1>1, <1>2, <1>5
  <2>3. Held' < up[i + k].n /\ Later(results', up[i + k].n)
    BY <1>2, <1>5
  <2>4. QED
    BY <2>1, <2>2, <2>3
<1>6. ASSUME NEW i \in 1..Len(up'), NEW j \in 1..Len(up'), i < j,
             up'[i].kind = "reply", up'[j].kind = "reply"
      PROVE  up'[i].n < up'[j].n
  <2>1. /\ i + k \in 1..Len(up) /\ up'[i] = up[i + k] /\ up[i + k].kind = "reply"
        /\ j + k \in 1..Len(up) /\ up'[j] = up[j + k] /\ up[j + k].kind = "reply"
    BY <1>2, <1>6
  <2>2. i + k < j + k
    BY <1>1, <1>6
  <2>3. up[i + k].n < up[j + k].n
    BY <2>1, <2>2 DEF IInv, UpNums
  <2>4. QED
    BY <2>1, <2>3
<1>7. ASSUME NEW i \in 1..Len(down')
      PROVE  down'[i].no <= Issued' /\ Held' < down'[i].no /\ Later(results', down'[i].no)
  <2>1. down'[i].no = down[i + l].no
    BY <1>3
  <2>2. down[i + l].no <= Issued'
    BY <1>1, <1>3
  <2>3. Held' < down[i + l].no /\ Later(results', down[i + l].no)
    BY <1>3
  <2>4. QED
    BY <2>1, <2>2, <2>3
<1>8. ASSUME NEW i \in 1..Len(down'), NEW j \in 1..Len(down'), i < j
      PROVE  down'[i].no < down'[j].no
  <2>1. /\ i + l \in 1..Len(down) /\ down'[i] = down[i + l]
        /\ j + l \in 1..Len(down) /\ down'[j] = down[j + l]
    BY <1>3
  <2>2. i + l < j + l
    BY <1>1, <1>8
  <2>3. down[i + l].no < down[j + l].no
    BY <2>1, <2>2 DEF IInv, DownNums
  <2>4. QED
    BY <2>1, <2>3
<1>9. ASSUME NEW i \in 1..Len(down'), NEW j \in 1..Len(up'), up'[j].kind = "reply"
      PROVE  up'[j].n < down'[i].no
  BY <1>2, <1>3, <1>9 DEF IInv, DownNums
<1>10. UpNums'
  BY <1>5, <1>6 DEF UpNums
<1>11. DownNums'
  BY <1>7, <1>8, <1>9 DEF DownNums
<1>12. QED
  BY <1>10, <1>11

\* A step that returns no result and holds no new reply.
LEMMA QuietOrder ==
  ASSUME IInv, NumTypes', NEW k \in Nat, NEW l \in Nat,
         \A i \in 1..Len(up') : up'[i].kind = "reply" =>
           i + k \in 1..Len(up) /\ up'[i] = up[i + k],
         \A i \in 1..Len(down') : i + l \in 1..Len(down) /\ down'[i] = down[i + l],
         results' = results, Issued' \in Nat, Issued <= Issued', Held' = Held \/ Held' = 0
  PROVE  UpNums' /\ DownNums'
<1>1. \A i \in 1..Len(up) : up[i].kind = "reply" =>
        Held' < up[i].n /\ Later(results', up[i].n)
  <2>1. ASSUME NEW i \in 1..Len(up), up[i].kind = "reply"
        PROVE  Held' < up[i].n /\ Later(results', up[i].n)
    <3>1. Held < up[i].n /\ Later(results, up[i].n)
      BY <2>1 DEF IInv, UpNums
    <3>2. 0 < up[i].n
      BY <2>1, NumFacts
    <3>3. QED
      BY <3>1, <3>2
  <2>2. QED
    BY <2>1
<1>2. \A i \in 1..Len(down) : Held' < down[i].no /\ Later(results', down[i].no)
  <2>1. ASSUME NEW i \in 1..Len(down)
        PROVE  Held' < down[i].no /\ Later(results', down[i].no)
    <3>1. Held < down[i].no /\ Later(results, down[i].no)
      BY DEF IInv, DownNums
    <3>2. 0 < down[i].no
      BY NumFacts
    <3>3. QED
      BY <3>1, <3>2
  <2>2. QED
    BY <2>1
<1>3. QED
  BY <1>1, <1>2, OrderKept

\* The sender's side of such a step.
LEMMA QuietNums ==
  ASSUME IInv, results' = results, cmd' = cmd, spc' = "idle" <=> spc = "idle", cut => cut',
         Issued' \in Nat, Issued <= Issued', Held' = Held \/ Held' = 0,
         spc' # "idle" /\ val'.ret = "reply" => val' = val
  PROVE  NumInv'
<1>1. NumInv
  BY DEF IInv
<1>2. ReplyOnce'
  BY <1>1 DEF NumInv, ReplyOnce
<1>3. Held' <= Issued' /\ (Held' # 0 => Later(results', Held'))
  <2>1. Held \in Nat /\ Issued \in Nat
    BY NumFacts
  <2>2. CASE Held' = Held
    <3>1. Held' <= Issued'
      BY <1>1, <2>1, <2>2 DEF NumInv
    <3>2. Held # 0 => Later(results, Held)
      BY <1>1 DEF NumInv
    <3>3. Held # 0 => Later(results', Held)
      BY <3>2
    <3>4. QED
      BY <2>2, <3>1, <3>3
  <2>3. CASE Held' = 0
    BY <2>1, <2>3
  <2>4. QED
    BY <2>2, <2>3
<1>4. QED
  BY <1>1, <1>2, <1>3 DEF NumInv
Numbered == NumInv /\ UpNums /\ DownNums

\* A step that moves the wait on, or not the sender at all.
LEMMA QuietStep ==
  ASSUME IInv, NumTypes', NEW k \in Nat, NEW l \in Nat,
         \A i \in 1..Len(up') : up'[i].kind = "reply" =>
           i + k \in 1..Len(up) /\ up'[i] = up[i + k],
         \A i \in 1..Len(down') : i + l \in 1..Len(down) /\ down'[i] = down[i + l],
         results' = results, cmd' = cmd, cut => cut',
         spc' = spc \/ {spc, spc'} \subseteq {"sent", "wait", "timeout", "return"},
         val' = val \/ val'.ret # "reply"
  PROVE  Numbered'
<1>1. Issued' = Issued
  BY DEF Issued
<1>2. Held' = Held \/ Held' = 0
  BY DEF Held
<1>3. Issued' \in Nat /\ Issued <= Issued'
  BY <1>1, NumFacts
<1>4. UpNums' /\ DownNums'
  BY <1>2, <1>3, QuietOrder
<1>5. NumInv'
  <2>1. spc' = "idle" <=> spc = "idle"
    OBVIOUS
  <2>2. spc' # "idle" /\ val'.ret = "reply" => val' = val
    OBVIOUS
  <2>3. QED
    BY <1>2, <1>3, <2>1, <2>2, QuietNums
<1>6. QED
  BY <1>4, <1>5 DEF Numbered

\* The wait goes on, ends, or ends late; nothing on the way changes.
LEMMA WaitNums ==
  ASSUME IInv, NumTypes',
         Wait \/ Wake \/ WakeSpurious \/ WaitTimeout \/ SetTimeout \/ UNCHANGED vars
  PROVE  Numbered'
<1>1. /\ up' = up /\ down' = down /\ results' = results /\ cmd' = cmd /\ cut' = cut
      /\ spc' = spc \/ {spc, spc'} \subseteq {"sent", "wait", "timeout", "return"}
      /\ val' = val \/ val' = TimeOut
  BY DEF Wait, Wake, WakeSpurious, WaitTimeout, SetTimeout, vars, senderVars, targetVars,
     histVars
<1>2. val' = val \/ val'.ret # "reply"
  BY <1>1, ResultType
<1>3. \A i \in 1..Len(up') : i + 0 \in 1..Len(up) /\ up'[i] = up[i + 0]
  <2>1. Len(up') = Len(up) /\ Len(up) \in Nat
    BY <1>1, NumFacts
  <2>2. \A i \in 1..Len(up) : i + 0 = i
    BY <2>1
  <2>3. QED
    BY <1>1, <2>1, <2>2, Zenon
<1>4. \A i \in 1..Len(down') : i + 0 \in 1..Len(down) /\ down'[i] = down[i + 0]
  <2>1. Len(down') = Len(down) /\ Len(down) \in Nat
    BY <1>1, NumFacts
  <2>2. \A i \in 1..Len(down) : i + 0 = i
    BY <2>1
  <2>3. QED
    BY <1>1, <2>1, <2>2, Zenon
<1>5. QED
  BY <1>1, <1>2, <1>3, <1>4, QuietStep

\* A new command is numbered behind everything, and its result is not there yet.
LEMMA BeginNums ==
  ASSUME IInv, NumTypes', NEW c \in Kinds, Begin(c)
  PROVE  Numbered'
<1>1. /\ spc = "idle" /\ spc' = "send" /\ val' = None /\ cmd'.no = Len(results) + 1
      /\ up' = up /\ down' = down /\ results' = results /\ cut' = cut
      /\ Len(results) < MaxCmds
  BY DEF Begin, Initial, targetVars, histVars
<1>2. Issued' = Issued /\ Held' = 0
  BY <1>1, ResultType DEF Issued, Held
<1>3. Issued \in Nat
  BY NumFacts
<1>4. \A i \in 1..Len(up') : i + 0 \in 1..Len(up) /\ up'[i] = up[i + 0]
  <2>1. Len(up') = Len(up) /\ Len(up) \in Nat
    BY <1>1, NumFacts
  <2>2. \A i \in 1..Len(up) : i + 0 = i
    BY <2>1
  <2>3. QED
    BY <1>1, <2>1, <2>2, Zenon
<1>5. \A i \in 1..Len(down') : i + 0 \in 1..Len(down) /\ down'[i] = down[i + 0]
  <2>1. Len(down') = Len(down) /\ Len(down) \in Nat
    BY <1>1, NumFacts
  <2>2. \A i \in 1..Len(down) : i + 0 = i
    BY <2>1
  <2>3. QED
    BY <1>1, <2>1, <2>2, Zenon
<1>6. UpNums' /\ DownNums'
  BY <1>1, <1>2, <1>3, <1>4, <1>5, QuietOrder
<1>7. NumInv'
  <2>1. ReplyOnce'
    BY <1>1 DEF IInv, NumInv, ReplyOnce
  <2>2. /\ Held' <= Issued' /\ Held' = 0
        /\ Len(results') <= MaxCmds /\ Len(results') < MaxCmds
    BY <1>1, <1>2, <1>3 DEF IInv, NumInv
  <2>3. val'.ret # "reply" /\ spc' # "idle" /\ cmd'.no = Len(results') + 1
    BY <1>1, ResultType
  <2>4. QED
    BY <2>1, <2>2, <2>3 DEF NumInv
<1>8. QED
  BY <1>6, <1>7 DEF Numbered

\* Every reply returned so far is earlier than the command that is next.
LEMMA LaterThanAll == ASSUME IInv PROVE Later(results, Len(results) + 1)
<1>1. ASSUME NEW m \in 1..Len(results), results[m].ret = "reply"
      PROVE  results[m].no < Len(results) + 1
  <2>1. DOMAIN results = 1..Len(results) /\ Len(results) \in Nat
    BY LenProperties DEF IInv, TypeOK
  <2>2. results[m].no <= m
    BY <1>1, <2>1 DEF IInv, NumInv, ReplyOnce
  <2>3. results[m].no \in Nat
    BY NumFacts
  <2>4. QED
    BY <2>1, <2>2, <2>3
<1>2. QED
  BY <1>1 DEF Later

\* A command arrives behind those before it, and behind every reply.
LEMMA ArrivedOrder ==
  ASSUME IInv, NumTypes', NEW c \in DownUnits, c.no = Len(results) + 1, Issued = Len(results),
         up' = up, down' = Append(down, c), Issued' = Len(results) + 1,
         Held' = Held \/ Held' = 0, \A x \in Nat : Later(results, x) => Later(results', x)
  PROVE  UpNums' /\ DownNums'
<1> DEFINE L == Len(results)
<1>1. L \in Nat /\ Held \in Nat /\ Held' \in Nat /\ Held' <= Held /\ Held <= L
      /\ Issued = L /\ Issued' = L + 1
  BY NumFacts DEF IInv, NumInv
<1>2. /\ Len(down) \in Nat /\ Len(down') = Len(down) + 1
      /\ \A i \in 1..Len(down) : down'[i] = down[i]
      /\ down'[Len(down) + 1].no = L + 1
  BY AppendFacts DEF IInv, TypeOK, DownUnits
<1>3. Later(results', L + 1)
  BY <1>1, LaterThanAll
<1>4. \A i \in 1..Len(up) : up[i].kind = "reply" =>
        /\ up[i].n \in Nat /\ up[i].n <= L /\ Held' < up[i].n /\ Later(results', up[i].n)
  <2>1. ASSUME NEW i \in 1..Len(up), up[i].kind = "reply"
        PROVE  /\ up[i].n \in Nat /\ up[i].n <= L /\ Held' < up[i].n
               /\ Later(results', up[i].n)
    <3>1. up[i].n \in Nat /\ up[i].n <= L /\ Held < up[i].n /\ Later(results, up[i].n)
      BY <1>1, <2>1, NumFacts DEF IInv, UpNums
    <3>2. QED
      BY <1>1, <3>1
  <2>2. QED
    BY <2>1
<1>5. ASSUME NEW i \in 1..Len(down)
      PROVE  /\ down[i].no \in Nat /\ down[i].no <= L /\ Held' < down[i].no
             /\ Later(results', down[i].no)
  <2>1. down[i].no \in Nat /\ down[i].no <= L /\ Held < down[i].no /\ Later(results, down[i].no)
    BY <1>1, NumFacts DEF IInv, DownNums
  <2>2. QED
    BY <1>1, <2>1
<1> HIDE DEF L
<1>6. UpNums'
  <2>1. ASSUME NEW i \in 1..Len(up'), up'[i].kind = "reply"
        PROVE  up'[i].n <= Issued' /\ Held' < up'[i].n /\ Later(results', up'[i].n)
    <3>1. up'[i] = up[i] /\ i \in 1..Len(up)
      OBVIOUS
    <3>2. up[i].n <= L + 1
      BY <1>1, <1>4, <2>1, <3>1
    <3>3. QED
      BY <1>1, <1>4, <2>1, <3>1, <3>2
  <2>2. \A i, j \in 1..Len(up') : i < j /\ up'[i].kind = "reply" /\ up'[j].kind = "reply" =>
          up'[i].n < up'[j].n
    BY DEF IInv, UpNums
  <2>3. QED
    BY <2>1, <2>2 DEF UpNums
<1>7. DownNums'
  <2>1. \A i \in 1..Len(down') : i \in 1..Len(down) \/ i = Len(down) + 1
    BY <1>2
  <2>2. ASSUME NEW i \in 1..Len(down')
        PROVE  /\ down'[i].no <= Issued' /\ Held' < down'[i].no /\ Later(results', down'[i].no)
    <3>1. CASE i \in 1..Len(down)
      <4>1. down[i].no <= L + 1
        BY <1>1, <1>5, <3>1
      <4>2. QED
        BY <1>1, <1>2, <1>5, <3>1, <4>1
    <3>2. CASE i = Len(down) + 1
      <4>1. L + 1 <= L + 1 /\ Held' < L + 1
        BY <1>1
      <4>2. QED
        BY <1>1, <1>2, <1>3, <3>2, <4>1
    <3>3. QED
      BY <2>1, <3>1, <3>2
  <2>3. ASSUME NEW i \in 1..Len(down'), NEW j \in 1..Len(down'), i < j
        PROVE  down'[i].no < down'[j].no
    <3>1. i \in 1..Len(down) /\ down'[i] = down[i]
      BY <1>2, <2>3
    <3>2. CASE j \in 1..Len(down)
      BY <1>2, <2>3, <3>1, <3>2 DEF IInv, DownNums
    <3>3. CASE j = Len(down) + 1
      <4>1. down[i].no < L + 1
        BY <1>1, <1>5, <3>1
      <4>2. QED
        BY <1>2, <3>1, <3>3, <4>1
    <3>4. QED
      BY <2>1, <3>2, <3>3
  <2>4. ASSUME NEW i \in 1..Len(down'), NEW j \in 1..Len(up'), up'[j].kind = "reply"
        PROVE  up'[j].n < down'[i].no
    <3>1. j \in 1..Len(up) /\ up'[j] = up[j]
      OBVIOUS
    <3>2. CASE i \in 1..Len(down)
      BY <1>2, <2>4, <3>1, <3>2 DEF IInv, DownNums
    <3>3. CASE i = Len(down) + 1
      <4>1. up[j].n < L + 1
        BY <1>1, <1>4, <2>4, <3>1
      <4>2. QED
        BY <1>2, <3>1, <3>3, <4>1
    <3>4. QED
      BY <2>1, <3>2, <3>3
  <2>5. QED
    BY <2>2, <2>3, <2>4 DEF DownNums
<1>8. QED
  BY <1>6, <1>7

\* Nothing arrives, and nothing else changes on the way.
LEMMA UnwrittenOrder ==
  ASSUME IInv, NumTypes', up' = up, down' = down, Issued' \in Nat, Issued <= Issued',
         Held' = Held \/ Held' = 0, \A x \in Nat : Later(results, x) => Later(results', x)
  PROVE  UpNums' /\ DownNums'
<1>1. \A i \in 1..Len(up) : up[i].kind = "reply" =>
        Held' < up[i].n /\ Later(results', up[i].n)
  <2>1. ASSUME NEW i \in 1..Len(up), up[i].kind = "reply"
        PROVE  Held' < up[i].n /\ Later(results', up[i].n)
    <3>1. Held < up[i].n /\ Later(results, up[i].n) /\ up[i].n \in Nat /\ up[i].n >= 1
      BY <2>1, NumFacts DEF IInv, UpNums
    <3>2. QED
      BY <3>1
  <2>2. QED
    BY <2>1
<1>2. \A i \in 1..Len(down) : Held' < down[i].no /\ Later(results', down[i].no)
  <2>1. ASSUME NEW i \in 1..Len(down)
        PROVE  Held' < down[i].no /\ Later(results', down[i].no)
    <3>1. /\ Held < down[i].no /\ Later(results, down[i].no)
          /\ down[i].no \in Nat /\ down[i].no >= 1
      BY NumFacts DEF IInv, DownNums
    <3>2. QED
      BY <3>1
  <2>2. QED
    BY <2>1
<1>3. \A i \in 1..Len(up') : i + 0 \in 1..Len(up) /\ up'[i] = up[i + 0]
  <2>1. \A i \in 1..Len(up) : i + 0 = i
    BY NumFacts
  <2>2. QED
    BY <2>1, Zenon
<1>4. \A i \in 1..Len(down') : i + 0 \in 1..Len(down) /\ down'[i] = down[i + 0]
  <2>1. \A i \in 1..Len(down) : i + 0 = i
    BY NumFacts
  <2>2. QED
    BY <2>1, Zenon
<1>5. QED
  BY <1>1, <1>2, <1>3, <1>4, OrderKept

\* A command is written, or dropped behind the part of another.
LEMMA WriteNums ==
  ASSUME IInv, NumTypes', Write
  PROVE  Numbered'
<1> DEFINE L == Len(results)
<1>1. /\ spc = "send" /\ spc' = "sent" /\ val' = val /\ cmd' = cmd
      /\ up' = up /\ results' = results /\ cut' = cut
      /\ down' = down \/ down' = Append(down, Line)
  BY DEF Write, Arrive
<1>2. L \in Nat /\ Issued = L /\ Issued' = L + 1 /\ Held' = Held
  BY <1>1, NumFacts DEF Issued, Held
<1>3. NumInv'
  <2>1. Issued' \in Nat /\ Issued <= Issued' /\ (cut => cut')
        /\ (spc' = "idle" <=> spc = "idle")
        /\ (spc' # "idle" /\ val'.ret = "reply" => val' = val)
    BY <1>1, <1>2
  <2>2. QED
    BY <1>1, <1>2, <2>1, QuietNums
<1>4. \A x \in Nat : Later(results, x) => Later(results', x)
  BY <1>1
<1>5. CASE down' = down
  BY <1>1, <1>2, <1>4, <1>5, UnwrittenOrder, <1>3 DEF Numbered
<1>6. CASE down' = Append(down, Line)
  <2>1. Line \in DownUnits /\ Line.no = L + 1
    BY <1>1, LineIs
  <2>2. UpNums' /\ DownNums'
    BY <1>1, <1>2, <1>4, <1>6, <2>1, ArrivedOrder
  <2>3. QED
    BY <1>3, <2>2 DEF Numbered
<1>7. QED
  BY <1>1, <1>5, <1>6

\* A command is given up.  It keeps its number, which no reply returned has.
LEMMA WriteFailsNums ==
  ASSUME IInv, NumTypes', WriteFails
  PROVE  Numbered'
<1> DEFINE L == Len(results)
<1>1. /\ spc = "send" /\ spc' = "idle" /\ cmd'.no = 0
      /\ up' = up /\ results' = Append(results, Failed) /\ cut' = cut
      /\ down' = down \/ down' = Append(down, Line)
  BY DEF WriteFails, Arrive, NoCmd
<1>2. /\ L \in Nat /\ L < MaxCmds /\ MaxCmds \in Nat /\ results \in Seq(Results)
      /\ Failed \in Results /\ Failed.ret # "reply"
  BY <1>1, NumFacts, NrcAssumption, ResultType DEF IInv, NumInv, TypeOK
<1>3. /\ Len(results') = L + 1 /\ results'[L + 1] = Failed /\ results' \in Seq(Results)
      /\ \A m \in 1..L : results'[m] = results[m]
  BY <1>1, <1>2, AppendFacts
<1>4. Issued = L /\ Issued' = L + 1 /\ Held' = 0
  BY <1>1, <1>3 DEF Issued, Held
<1>5. DOMAIN results = 1..L /\ DOMAIN results' = 1..(L + 1)
  BY <1>2, <1>3, LenProperties
<1>6. \A i \in 1..(L + 1) : i \in 1..L \/ i = L + 1
  BY <1>2
<1>7. \A x \in Nat : Later(results, x) => Later(results', x)
  BY <1>2, <1>3, <1>6 DEF Later
<1>8. ReplyOnce'
  <2>1. ASSUME NEW n \in 1..(L + 1), results'[n].ret = "reply"
        PROVE  /\ results'[n].no <= n
               /\ results'[n].no = 0 => cut'
               /\ \A m \in 1..(n - 1) :
                    results'[m].ret = "reply" /\ results'[n].no # 0 =>
                      results'[m].no < results'[n].no
    <3>1. n \in 1..L
      BY <1>2, <1>3, <1>6, <2>1
    <3>2. \A m \in 1..(n - 1) : m \in 1..L
      BY <1>2, <3>1
    <3>3. results'[n] = results[n] /\ \A m \in 1..(n - 1) : results'[m] = results[m]
      BY <1>3, <3>1, <3>2
    <3>4. QED
      BY <1>1, <1>5, <2>1, <3>1, <3>3 DEF IInv, NumInv, ReplyOnce
  <2>2. QED
    BY <1>5, <2>1 DEF ReplyOnce
<1>9. NumInv'
  <2>1. Held' <= Issued' /\ Len(results') <= MaxCmds
    BY <1>2, <1>3, <1>4
  <2>2. QED
    BY <1>1, <1>4, <1>8, <2>1 DEF NumInv
<1>10. UpNums' /\ DownNums'
  <2>1. CASE down' = down
    <3>1. Issued' \in Nat /\ Issued <= Issued'
      BY <1>2, <1>4
    <3>2. QED
      BY <1>1, <1>4, <1>7, <2>1, <3>1, UnwrittenOrder
  <2>2. CASE down' = Append(down, Line)
    <3>1. Line \in DownUnits /\ Line.no = L + 1
      BY <1>1, LineIs
    <3>2. QED
      BY <1>1, <1>4, <1>7, <2>2, <3>1, ArrivedOrder
  <2>3. QED
    BY <1>1, <2>1, <2>2
<1>11. QED
  BY <1>9, <1>10 DEF Numbered

\* The result is returned: it is later than those before, and earlier than what comes.
LEMMA ReturnNums ==
  ASSUME IInv, NumTypes', Return
  PROVE  Numbered'
<1> DEFINE L == Len(results)
<1>1. /\ spc = "return" /\ spc' = "idle" /\ cmd'.no = 0
      /\ up' = up /\ down' = down /\ results' = Append(results, val) /\ cut' = cut
  BY DEF Return, NoCmd, targetVars
<1>2. /\ L \in Nat /\ L < MaxCmds /\ val \in Results /\ results \in Seq(Results)
      /\ MaxCmds \in Nat
  BY <1>1, NumFacts, NrcAssumption DEF IInv, NumInv, TypeOK
<1>3. /\ Len(results') = L + 1 /\ results'[L + 1] = val
      /\ \A m \in 1..L : results'[m] = results[m]
  BY <1>1, <1>2, AppendFacts
<1>4. Issued = L + 1 /\ Issued' = L + 1 /\ Held' = 0 /\ Held \in Nat /\ Held <= L + 1
  BY <1>1, <1>2, <1>3, NumFacts DEF Issued, Held, IInv, NumInv
<1>5. val.ret = "reply" => val.no = Held /\ (Held = 0 => cut)
  BY <1>1 DEF Held, IInv, NumInv
<1>6. L \in Nat
  BY <1>2
<1>7. DOMAIN results = 1..L /\ DOMAIN results' = 1..(L + 1)
  <2>1. results' \in Seq(Results)
    BY <1>1, <1>2, AppendProperties
  <2>2. QED
    BY <1>2, <1>3, <2>1, LenProperties
<1>8. \A i \in 1..(L + 1) : i \in 1..L \/ i = L + 1
  BY <1>2
<1>9. ASSUME NEW x \in Nat, Held < x, Later(results, x) PROVE Later(results', x)
  BY <1>3, <1>5, <1>8, <1>9 DEF Later
<1>10. ReplyOnce'
  <2>1. ASSUME NEW n \in 1..(L + 1), results'[n].ret = "reply"
        PROVE  /\ results'[n].no <= n
               /\ results'[n].no = 0 => cut'
               /\ \A m \in 1..(n - 1) :
                    results'[m].ret = "reply" /\ results'[n].no # 0 =>
                      results'[m].no < results'[n].no
    <3>1. CASE n \in 1..L
      <4>1. \A m \in 1..(n - 1) : m \in 1..L
        BY <1>2, <3>1
      <4>2. results'[n] = results[n] /\ \A m \in 1..(n - 1) : results'[m] = results[m]
        BY <1>3, <3>1, <4>1
      <4>3. QED
        BY <1>1, <1>7, <2>1, <3>1, <4>2 DEF IInv, NumInv, ReplyOnce
    <3>2. CASE n = L + 1
      <4>1. n - 1 = L
        BY <1>6, <3>2
      <4>2. results'[n].no = Held /\ (Held = 0 => cut)
        BY <1>3, <1>5, <2>1, <3>2
      <4>3. ASSUME NEW m \in 1..L, results[m].ret = "reply", Held # 0
            PROVE  results[m].no < Held
        BY <4>3 DEF IInv, NumInv, Later
      <4>4. QED
        BY <1>1, <1>3, <1>4, <3>2, <4>1, <4>2, <4>3
    <3>3. QED
      BY <1>8, <3>1, <3>2
  <2>2. QED
    BY <1>7, <2>1 DEF ReplyOnce
<1>11. NumInv'
  <2>1. Held' <= Issued' /\ Len(results') <= MaxCmds
    BY <1>2, <1>3, <1>4
  <2>2. QED
    BY <1>1, <1>4, <1>10, <2>1 DEF NumInv
<1>12. UpNums' /\ DownNums'
  <2>1. \A i \in 1..Len(up) : up[i].kind = "reply" =>
          Held' < up[i].n /\ Later(results', up[i].n)
    <3>1. ASSUME NEW i \in 1..Len(up), up[i].kind = "reply"
          PROVE  Held' < up[i].n /\ Later(results', up[i].n)
      <4>1. Held < up[i].n /\ Later(results, up[i].n) /\ up[i].n \in Nat
        BY <3>1, NumFacts DEF IInv, UpNums
      <4>2. 0 < up[i].n
        BY <1>4, <4>1
      <4>3. QED
        BY <1>4, <1>9, <4>1, <4>2
    <3>2. QED
      BY <3>1
  <2>2. \A i \in 1..Len(down) : Held' < down[i].no /\ Later(results', down[i].no)
    <3>1. ASSUME NEW i \in 1..Len(down)
          PROVE  Held' < down[i].no /\ Later(results', down[i].no)
      <4>1. Held < down[i].no /\ Later(results, down[i].no) /\ down[i].no \in Nat
        BY NumFacts DEF IInv, DownNums
      <4>2. 0 < down[i].no
        BY <1>4, <4>1
      <4>3. QED
        BY <1>4, <1>9, <4>1, <4>2
    <3>2. QED
      BY <3>1
  <2>3. \A i \in 1..Len(up') : i + 0 \in 1..Len(up) /\ up'[i] = up[i + 0]
    <3>1. Len(up') = Len(up) /\ Len(up) \in Nat
      BY <1>1, NumFacts
    <3>2. \A i \in 1..Len(up) : i + 0 = i
      BY <3>1
    <3>3. QED
      BY <1>1, <3>1, <3>2, Zenon
  <2>4. \A i \in 1..Len(down') : i + 0 \in 1..Len(down) /\ down'[i] = down[i + 0]
    <3>1. Len(down') = Len(down) /\ Len(down) \in Nat
      BY <1>1, NumFacts
    <3>2. \A i \in 1..Len(down) : i + 0 = i
      BY <3>1
    <3>3. QED
      BY <1>1, <3>1, <3>2, Zenon
  <2>5. Issued' \in Nat /\ Issued <= Issued'
    BY <1>4, <1>6
  <2>6. QED
    BY <2>1, <2>2, <2>3, <2>4, <2>5, OrderKept
<1>13. QED
  BY <1>11, <1>12 DEF Numbered

\* What follows the first unit on the way up.
LEMMA FirstTaken ==
  ASSUME IInv, up # <<>>, Take, down' = down
  PROVE  /\ 1 \in 1..Len(up) /\ Head(up) = up[1]
         /\ \A i \in 1..Len(up') : i + 1 \in 1..Len(up) /\ up'[i] = up[i + 1]
         /\ \A i \in 1..Len(down') : i + 0 \in 1..Len(down) /\ down'[i] = down[i + 0]
<1>1. /\ 1 \in 1..Len(up) /\ Head(up) = up[1]
      /\ \A i \in 1..Len(up') : i + 1 \in 1..Len(up) /\ up'[i] = up[i + 1]
  BY UpTaken DEF IInv, Take
<1>2. Len(down') = Len(down) /\ Len(down) \in Nat
  BY NumFacts
<1>3. \A i \in 1..Len(down) : i + 0 = i
  BY <1>2
<1>4. \A i \in 1..Len(down') : i + 0 \in 1..Len(down) /\ down'[i] = down[i + 0]
  BY <1>2, <1>3, Zenon
<1>5. QED
  BY <1>1, <1>4

\* A reply is taken: it is the first of those on the way, and later than any before it.
LEMMA ReplyNums ==
  ASSUME IInv, NumTypes', ReceiveReply
  PROVE  Numbered'
<1>1. /\ spc' = spc /\ cmd' = cmd /\ val' = Reply(up[1].n)
      /\ down' = down /\ results' = results /\ cut' = cut
      /\ 1 \in 1..Len(up) /\ up[1].kind \in {"reply", "data"} /\ rem = 0
      /\ \A i \in 1..Len(up') : i + 1 \in 1..Len(up) /\ up'[i] = up[i + 1]
      /\ \A i \in 1..Len(down') : i + 0 \in 1..Len(down) /\ down'[i] = down[i + 0]
  BY FirstTaken DEF ReceiveReply, SetReturn, Looks
<1> DEFINE x == up[1].n
<1>2. val'.ret = "reply" /\ val'.no = x
  BY <1>1 DEF Reply
<1>3. x \in Nat
  BY <1>1, UpIs DEF IInv
<1>4. Held' = 0 \/ (Held' = x /\ up[1].kind = "reply")
  <2>1. CASE up[1].kind = "data"
    <3>1. x = 0
      BY <1>1, <2>1 DEF IInv, UpType
    <3>2. QED
      BY <1>2, <3>1 DEF Held
  <2>2. CASE up[1].kind = "reply"
    BY <1>2, <2>2 DEF Held
  <2>3. QED
    BY <1>1, <2>1, <2>2
<1>5. up[1].kind = "data" => cut
  <2>1. ASSUME up[1].kind = "data", ~cut PROVE FALSE
    <3>1. 1 <= rem \/ \E j \in 1..(1 - 1) : TRUE
      BY <1>1, <2>1 DEF IInv, PayloadInv
    <3>2. QED
      BY <1>1, <3>1
  <2>2. QED
    BY <2>1
<1>6. up[1].kind = "reply" => x >= 1 /\ x <= Issued /\ Later(results, x)
  BY <1>1, NumFacts DEF IInv, UpNums
<1>7. Issued' = Issued /\ Issued \in Nat
  BY <1>1, NumFacts DEF Issued
<1>8. \A i \in 1..Len(up) : up[i].kind = "reply" /\ i > 1 =>
        Held' < up[i].n /\ Later(results', up[i].n)
  <2>1. ASSUME NEW i \in 1..Len(up), up[i].kind = "reply", i > 1
        PROVE  Held' < up[i].n /\ Later(results', up[i].n)
    <3>1. up[i].n >= 1 /\ up[i].n \in Nat
      BY <2>1, NumFacts
    <3>2. Later(results, up[i].n)
      BY <2>1 DEF IInv, UpNums
    <3>3. up[1].kind = "reply" => x < up[i].n
      BY <1>1, <2>1 DEF IInv, UpNums
    <3>4. QED
      BY <1>1, <1>3, <1>4, <3>1, <3>2, <3>3
  <2>2. QED
    BY <2>1
<1>9. \A i \in 1..Len(down) : Held' < down[i].no /\ Later(results', down[i].no)
  <2>1. ASSUME NEW i \in 1..Len(down)
        PROVE  Held' < down[i].no /\ Later(results', down[i].no)
    <3>1. down[i].no >= 1 /\ down[i].no \in Nat
      BY NumFacts
    <3>2. Later(results, down[i].no)
      BY DEF IInv, DownNums
    <3>3. up[1].kind = "reply" => x < down[i].no
      BY <1>1 DEF IInv, DownNums
    <3>4. QED
      BY <1>1, <1>3, <1>4, <3>1, <3>2, <3>3
  <2>2. QED
    BY <2>1
<1> HIDE DEF x
<1>10. UpNums' /\ DownNums'
  <2>1. Issued' \in Nat /\ Issued <= Issued'
    BY <1>7
  <2>2. 1 \in Nat /\ 0 \in Nat
    OBVIOUS
  <2>3. QED
    BY <1>1, <1>8, <1>9, <2>1, <2>2, OrderKept
<1>11. NumInv'
  <2>1. ReplyOnce'
    BY <1>1 DEF IInv, NumInv, ReplyOnce
  <2>2. Held' <= Issued' /\ (Held' # 0 => Later(results', Held'))
    BY <1>1, <1>4, <1>6, <1>7
  <2>3. val'.no = 0 => cut'
    BY <1>1, <1>2, <1>5, <1>6
  <2>4. QED
    BY <1>1, <2>1, <2>2, <2>3 DEF NumInv, IInv
<1>12. QED
  BY <1>10, <1>11 DEF Numbered

\* Everything else that is taken holds no reply.
LEMMA ReceiveNums ==
  ASSUME IInv, NumTypes', Receive
  PROVE  Numbered'
<1>1. CASE ReceiveReply
  BY <1>1, ReplyNums
<1>2. CASE ReceivePayload \/ ReceiveRxd \/ ReceiveCut \/ ReceiveBoot
  <2>1. /\ up # <<>> /\ Take /\ down' = down /\ results' = results /\ cmd' = cmd
        /\ cut' = cut /\ spc' = spc /\ (val' = val \/ val' = None)
    BY <1>2 DEF ReceivePayload, ReceiveRxd, ReceiveCut, ReceiveBoot, BootReturn, SetReturn,
       senderVars, histVars
  <2>2. val' = val \/ val'.ret # "reply"
    BY <2>1, ResultType
  <2>3. /\ \A i \in 1..Len(up') : i + 1 \in 1..Len(up) /\ up'[i] = up[i + 1]
        /\ \A i \in 1..Len(down') : i + 0 \in 1..Len(down) /\ down'[i] = down[i + 0]
    BY <2>1, FirstTaken
  <2>4. 1 \in Nat /\ 0 \in Nat
    OBVIOUS
  <2>5. QED
    BY <2>1, <2>2, <2>3, <2>4, QuietStep
<1>3. QED
  BY <1>1, <1>2 DEF Receive
\* What follows the first command on the way down.
LEMMA CommandTaken ==
  ASSUME IInv, down # <<>>, down' = Tail(down)
  PROVE  /\ 1 \in 1..Len(down) /\ Head(down) = down[1] /\ Head(down) \in DownUnits
         /\ Len(down') \in Nat
         /\ \A i \in 1..Len(down') : i + 1 \in 1..Len(down) /\ down'[i] = down[i + 1]
<1>1. down \in Seq(DownUnits)
  BY DEF IInv, TypeOK, DownUnits
<1>2. down' \in Seq(DownUnits)
  BY <1>1, TailFacts
<1>3. QED
  BY <1>1, <1>2, TailFacts, LenProperties

\* A command that is not answered leaves a gap in the numbers.
LEMMA UnansweredNums ==
  ASSUME IInv, NumTypes', down # <<>>, down' = Tail(down), up' = up,
         UNCHANGED <<senderVars, histVars>>
  PROVE  Numbered'
<1>1. \A i \in 1..Len(down') : i + 1 \in 1..Len(down) /\ down'[i] = down[i + 1]
  BY CommandTaken
<1>2. \A i \in 1..Len(up') : i + 0 \in 1..Len(up) /\ up'[i] = up[i + 0]
  <2>1. Len(up') = Len(up) /\ Len(up) \in Nat
    BY NumFacts
  <2>2. \A i \in 1..Len(up) : i + 0 = i
    BY <2>1
  <2>3. QED
    BY <2>1, <2>2, Zenon
<1>3. /\ results' = results /\ cmd' = cmd /\ cut' = cut /\ spc' = spc /\ val' = val
      /\ 0 \in Nat /\ 1 \in Nat
  BY DEF senderVars, histVars
<1>4. QED
  BY <1>1, <1>2, <1>3, QuietStep

\* An answer: the number leaves the way down and joins the way up at its end.
LEMMA AnsweredNums ==
  ASSUME IInv, NumTypes', down # <<>>, down' = Tail(down),
         up' = Append(up, Unit("reply", Head(down).no)),
         UNCHANGED <<senderVars, histVars>>
  PROVE  Numbered'
<1> DEFINE x == Head(down).no
<1>1. /\ 1 \in 1..Len(down) /\ x = down[1].no /\ Len(down') \in Nat
      /\ \A i \in 1..Len(down') : i + 1 \in 1..Len(down) /\ down'[i] = down[i + 1]
  BY CommandTaken
<1>2. Unit("reply", x) \in UpUnits /\ Unit("reply", x).kind = "reply" /\ Unit("reply", x).n = x
  <2>1. x \in Nat
    BY <1>1, NumFacts
  <2>2. QED
    BY <2>1 DEF Unit, UpUnits, UpKinds
<1>3. /\ Len(up) \in Nat /\ Len(up') = Len(up) + 1
      /\ \A i \in 1..Len(up) : up'[i] = up[i]
      /\ up'[Len(up) + 1] = Unit("reply", x)
  BY <1>2, AppendFacts DEF IInv, UpType
<1>4. up'[Len(up) + 1].kind = "reply" /\ up'[Len(up) + 1].n = x
  BY <1>2, <1>3
<1>5. x \in Nat /\ x <= Issued /\ Held < x /\ Later(results, x)
  BY <1>1, NumFacts DEF IInv, DownNums
<1>6. \A i \in 1..Len(up) : up[i].kind = "reply" => up[i].n < x
  BY <1>1 DEF IInv, DownNums
<1> HIDE DEF x
<1>7. \A i \in 1..Len(up') : i \in 1..Len(up) \/ i = Len(up) + 1
  BY <1>3
<1>8. Issued' = Issued /\ Held' = Held /\ results' = results
  BY DEF Issued, Held, senderVars, histVars
<1>9. NumInv'
  BY <1>8 DEF IInv, NumInv, ReplyOnce, senderVars, histVars
<1>10. UpNums'
  <2>1. ASSUME NEW i \in 1..Len(up'), up'[i].kind = "reply"
        PROVE  up'[i].n <= Issued' /\ Held' < up'[i].n /\ Later(results', up'[i].n)
    <3>1. CASE i \in 1..Len(up)
      BY <1>3, <1>8, <2>1, <3>1 DEF IInv, UpNums
    <3>2. CASE i = Len(up) + 1
      BY <1>4, <1>5, <1>8, <3>2
    <3>3. QED
      BY <1>7, <3>1, <3>2
  <2>2. ASSUME NEW i \in 1..Len(up'), NEW j \in 1..Len(up'), i < j,
               up'[i].kind = "reply", up'[j].kind = "reply"
        PROVE  up'[i].n < up'[j].n
    <3>1. i \in 1..Len(up) /\ up'[i] = up[i]
      BY <1>3, <2>2
    <3>2. CASE j \in 1..Len(up)
      BY <1>3, <2>2, <3>1, <3>2 DEF IInv, UpNums
    <3>3. CASE j = Len(up) + 1
      BY <1>4, <1>6, <2>2, <3>1, <3>3
    <3>4. QED
      BY <1>7, <3>2, <3>3
  <2>3. QED
    BY <2>1, <2>2 DEF UpNums
<1>11. DownNums'
  <2>1. ASSUME NEW i \in 1..Len(down')
        PROVE  /\ i + 1 \in 1..Len(down) /\ down'[i] = down[i + 1] /\ x < down[i + 1].no
    <3>1. i + 1 \in 1..Len(down) /\ down'[i] = down[i + 1] /\ 1 < i + 1
      BY <1>1
    <3>2. down[1].no < down[i + 1].no
      BY <1>1, <3>1 DEF IInv, DownNums
    <3>3. QED
      BY <1>1, <3>1, <3>2
  <2>2. ASSUME NEW i \in 1..Len(down')
        PROVE  down'[i].no <= Issued' /\ Held' < down'[i].no /\ Later(results', down'[i].no)
    BY <1>8, <2>1 DEF IInv, DownNums
  <2>3. ASSUME NEW i \in 1..Len(down'), NEW j \in 1..Len(down'), i < j
        PROVE  down'[i].no < down'[j].no
    <3>1. i + 1 < j + 1
      BY <1>1, <2>3
    <3>2. QED
      BY <2>1, <3>1 DEF IInv, DownNums
  <2>4. ASSUME NEW i \in 1..Len(down'), NEW j \in 1..Len(up'), up'[j].kind = "reply"
        PROVE  up'[j].n < down'[i].no
    <3>1. CASE j \in 1..Len(up)
      BY <1>3, <2>1, <2>4, <3>1 DEF IInv, DownNums
    <3>2. CASE j = Len(up) + 1
      BY <1>4, <2>1, <3>2
    <3>3. QED
      BY <1>7, <3>1, <3>2
  <2>5. QED
    BY <2>2, <2>3, <2>4 DEF DownNums
<1>12. QED
  BY <1>9, <1>10, <1>11 DEF Numbered

\* A restart loses the end of what was on the way up, and every command.
LEMMA RestartNums ==
  ASSUME IInv, NumTypes', ExecuteReset \/ Wakeup \/ Watchdog
  PROVE  Numbered'
<1>1. PICK events \in Seq(UpUnits) :
        Restart(events) /\ \A i \in 1..Len(events) : events[i].kind \in {"boot", "wakeup"}
  BY RestartEvents
<1>2. PICK n \in 0..Len(up) : Kept(n)
  BY <1>1, UpRestarted DEF IInv
<1>3. n \in Nat /\ Len(up) \in Nat /\ n <= Len(up) /\ Len(up') \in Nat
  BY <1>2, NumFacts DEF NumTypes
<1>4. ASSUME NEW i \in 1..Len(up'), up'[i].kind = "reply"
      PROVE  i + 0 \in 1..Len(up) /\ up'[i] = up[i + 0]
  <2>1. ~(i \in (n + 1)..Len(up'))
    BY <1>2, <1>4 DEF Kept
  <2>2. i \in 1..n /\ i + 0 = i /\ i \in 1..Len(up)
    BY <1>3, <2>1
  <2>3. up'[i] = up[i]
    BY <1>2, <2>2 DEF Kept
  <2>4. QED
    BY <2>2, <2>3
<1>5. \A i \in 1..Len(down') : i + 0 \in 1..Len(down) /\ down'[i] = down[i + 0]
  <2>1. down' = <<>>
    BY <1>1 DEF Restart
  <2>2. QED
    BY <2>1
<1>6. cut => cut'
  BY <1>2 DEF Kept
<1>7. results' = results /\ cmd' = cmd /\ spc' = spc /\ val' = val /\ 0 \in Nat
  BY DEF ExecuteReset, Wakeup, Watchdog, senderVars
<1>8. QED
  BY <1>4, <1>5, <1>6, <1>7, QuietStep

\* RXD data holds no reply.
LEMMA RxdNums ==
  ASSUME IInv, NumTypes', NEW n \in 0..MaxPayload, SendRxd(n)
  PROVE  Numbered'
<1>1. /\ Len(up') = Len(up) + 1 + n /\ n \in Nat /\ Len(up) \in Nat
      /\ \A i \in 1..Len(up) : up'[i] = up[i]
      /\ up'[Len(up) + 1] = Unit("rxd", n)
      /\ \A i \in 1..n : up'[Len(up) + 1 + i] = Unit("data", 0)
  <2>1. n \in Nat /\ Len(up) \in Nat
    BY NumFacts, NrcAssumption
  <2>2. UpType
    BY DEF IInv
  <2>3. QED
    BY <2>1, <2>2, RxdAdded
<1>2. ASSUME NEW i \in 1..Len(up'), up'[i].kind = "reply"
      PROVE  i + 0 \in 1..Len(up) /\ up'[i] = up[i + 0]
  <2>1. CASE i <= Len(up)
    <3>1. i \in 1..Len(up) /\ i + 0 = i
      BY <1>1, <2>1
    <3>2. QED
      BY <1>1, <3>1
  <2>2. CASE i = Len(up) + 1
    BY <1>1, <1>2, <2>2 DEF Unit
  <2>3. CASE i > Len(up) + 1
    <3>1. i - (Len(up) + 1) \in 1..n /\ Len(up) + 1 + (i - (Len(up) + 1)) = i
      BY <1>1, <2>3
    <3>2. up'[i] = Unit("data", 0)
      BY <1>1, <3>1
    <3>3. QED
      BY <1>2, <3>2 DEF Unit
  <2>4. QED
    BY <1>1, <2>1, <2>2, <2>3
<1>3. \A i \in 1..Len(down') : i + 0 \in 1..Len(down) /\ down'[i] = down[i + 0]
  <2>1. down' = down /\ Len(down') = Len(down) /\ Len(down) \in Nat
    BY NumFacts DEF SendRxd
  <2>2. \A i \in 1..Len(down) : i + 0 = i
    BY <2>1
  <2>3. QED
    BY <2>1, <2>2, Zenon
<1>4. results' = results /\ cmd' = cmd /\ cut' = cut /\ spc' = spc /\ val' = val /\ 0 \in Nat
  BY DEF SendRxd, senderVars
<1>5. QED
  BY <1>2, <1>3, <1>4, QuietStep

\* The numbers stay in order, whatever happens.
LEMMA NumStep == ASSUME IInv, [Next]_vars PROVE Numbered'
<1>1. NumTypes'
  BY NextTypes
<1>2. ASSUME NEW k \in Kinds, Begin(k) PROVE Numbered'
  BY <1>1, <1>2, BeginNums
<1>3. CASE Write \/ WriteFails
  BY <1>1, <1>3, WriteNums, WriteFailsNums
<1>4. CASE Wait \/ Wake \/ WakeSpurious \/ WaitTimeout \/ SetTimeout \/ UNCHANGED vars
  BY <1>1, <1>4, WaitNums
<1>5. CASE Return
  BY <1>1, <1>5, ReturnNums
<1>6. CASE Receive
  BY <1>1, <1>6, ReceiveNums
<1>7. CASE Answer
  <2>1. CASE up' = up
    BY <1>1, <1>7, <2>1, UnansweredNums DEF Answer
  <2>2. CASE up' = Append(up, Unit("reply", Head(down).no))
    BY <1>1, <1>7, <2>2, AnsweredNums DEF Answer
  <2>3. QED
    BY <1>7, <2>1, <2>2 DEF Answer
<1>8. CASE Sleep
  BY <1>1, <1>8, UnansweredNums DEF Sleep
<1>9. CASE ExecuteReset \/ Wakeup \/ Watchdog
  BY <1>1, <1>9, RestartNums
<1>10. ASSUME NEW n \in 0..MaxPayload, SendRxd(n) PROVE Numbered'
  BY <1>1, <1>10, RxdNums
<1>11. QED
  BY <1>2, <1>3, <1>4, <1>5, <1>6, <1>7, <1>8, <1>9, <1>10 DEF Next, SenderStep, TargetStep
-----------------------------------------------------------------------------
(* Whose reply it is.                                                       *)

ReplyKinds == {"reply", "rxd", "data"}

\* Only a restart adds anything else than replies and RXD data to the way up.
LEMMA KindsKept ==
  ASSUME IInv, [Next]_vars, ~(ExecuteReset \/ Wakeup \/ Watchdog),
         \A i \in 1..Len(up) : up[i].kind \in ReplyKinds
  PROVE  \A i \in 1..Len(up') : up'[i].kind \in ReplyKinds
<1>1. Len(up) \in Nat /\ UpType
  BY UpIs DEF IInv
<1>2. CASE Receive
  <2>1. up # <<>> /\ up' = Tail(up)
    BY <1>2 DEF Receive, ReceivePayload, ReceiveRxd, ReceiveCut, ReceiveReply, ReceiveBoot,
       Take
  <2>2. QED
    BY <1>1, <2>1, UpTaken
<1>3. CASE up' = up
  BY <1>3
<1>4. CASE Answer
  <2>1. CASE up' = Append(up, Unit("reply", Head(down).no))
    <3> DEFINE u == Unit("reply", Head(down).no)
    <3>1. u.kind \in ReplyKinds
      BY DEF Unit, ReplyKinds
    <3>2. \A s \in Seq(UpUnits) : /\ Len(Append(s, u)) = Len(s) + 1
                                  /\ \A i \in 1..Len(s) : Append(s, u)[i] = s[i]
                                  /\ Append(s, u)[Len(s) + 1] = u
      BY SMT
    <3>3. /\ Len(up') = Len(up) + 1 /\ up'[Len(up) + 1] = u
          /\ \A i \in 1..Len(up) : up'[i] = up[i]
      BY <1>1, <2>1, <3>2 DEF UpType
    <3> HIDE DEF u
    <3>4. \A i \in 1..Len(up') : i \in 1..Len(up) \/ i = Len(up) + 1
      BY <1>1, <3>3
    <3>5. QED
      BY <3>1, <3>3, <3>4
  <2>2. QED
    BY <1>3, <1>4, <2>1 DEF Answer
<1>5. ASSUME NEW n \in 0..MaxPayload, SendRxd(n)
      PROVE  \A i \in 1..Len(up') : up'[i].kind \in ReplyKinds
  <2>1. /\ Len(up') = Len(up) + 1 + n
        /\ \A i \in 1..Len(up) : up'[i] = up[i]
        /\ up'[Len(up) + 1] = Unit("rxd", n)
        /\ \A i \in 1..n : up'[Len(up) + 1 + i] = Unit("data", 0)
    BY <1>1, <1>5, RxdAdded
  <2>2. n \in Nat
    BY NrcAssumption
  <2>3. ASSUME NEW i \in 1..Len(up') PROVE up'[i].kind \in ReplyKinds
    <3>1. CASE i <= Len(up)
      <4>1. i \in 1..Len(up)
        BY <1>1, <3>1
      <4>2. QED
        BY <2>1, <4>1
    <3>2. CASE i = Len(up) + 1
      BY <2>1, <3>2 DEF Unit, ReplyKinds
    <3>3. CASE i > Len(up) + 1
      <4>1. i - (Len(up) + 1) \in 1..n /\ Len(up) + 1 + (i - (Len(up) + 1)) = i
        BY <1>1, <2>1, <2>2, <3>3
      <4>2. up'[i] = Unit("data", 0)
        BY <2>1, <4>1
      <4>3. QED
        BY <4>2 DEF Unit, ReplyKinds
    <3>4. QED
      BY <1>1, <2>1, <2>2, <3>1, <3>2, <3>3
  <2>4. QED
    BY <2>3
<1>6. ASSUME NEW k \in Kinds, Begin(k) PROVE up' = up
  BY <1>6 DEF Begin, targetVars
<1>7. CASE SenderStep \/ WriteFails \/ WakeSpurious \/ Sleep \/ UNCHANGED vars
  <2>1. up' = up
    BY <1>7 DEF SenderStep, WriteFails, WakeSpurious, Write, Wait, Wake, WaitTimeout, SetTimeout, Return,
       Sleep, vars, targetVars
  <2>2. QED
    BY <1>3, <2>1
<1>8. QED
  BY <1>2, <1>3, <1>4, <1>5, <1>6, <1>7 DEF Next, TargetStep

\* The reply held when a wait ends is the current command's.
LEMMA HeldIsOwn ==
  ASSUME IInv, ~upset, spc = "return"
  PROVE  val = Reply(Len(results) + 1)
<1>1. val.ret = "reply" /\ val.no = cmd.no /\ cmd.no = Len(results) + 1
  BY DEF IInv, OwnInv, CurrentInv, NumInv
<1>2. val = Reply(val.no)
  BY <1>1, NumFacts, ResultType
<1>3. QED
  BY <1>1, <1>2

\* Nothing but a signal ends a wait as long as nothing upsets it.
LEMMA OwnStep == ASSUME IInv, [Next]_vars PROVE OwnInv'
<1>1. OwnInv /\ upset \in BOOLEAN /\ cut \in BOOLEAN /\ woken \in BOOLEAN /\ NumTypes'
  BY NextTypes DEF IInv, TypeOK
<1>2. CASE WakeSpurious
  BY <1>1, <1>2 DEF WakeSpurious, OwnInv
<1>3. CASE WaitTimeout
  BY <1>1, <1>3 DEF WaitTimeout, OwnInv
<1>4. CASE ExecuteReset \/ Wakeup \/ Watchdog
  BY <1>1, <1>4 DEF ExecuteReset, Wakeup, Watchdog, Restart, OwnInv, senderVars
<1>7. CASE WriteFails
  <2>1. UNCHANGED <<up, val, woken, cut>> /\ spc = "send" /\ spc' = "idle"
        /\ results' = Append(results, Failed)
    BY <1>7 DEF WriteFails
  <2>2. ~woken
    BY <1>1, <2>1 DEF OwnInv
  <2>3. ~upset' => ~upset
    BY <1>1, <1>7 DEF WriteFails
  <2>4. ASSUME ~upset PROVE OwnReply'
    <3> DEFINE L == Len(results)
    <3>1. results \in Seq(Results) /\ Failed \in Results
      BY ResultType DEF IInv, TypeOK
    <3>2. /\ L \in Nat /\ Len(results') = L + 1 /\ results'[L + 1] = Failed
          /\ \A i \in 1..L : results'[i] = results[i]
      BY <2>1, <3>1, AppendFacts
    <3>3. results' \in Seq(Results)
      BY <2>1, <3>1, AppendProperties
    <3>4. DOMAIN results = 1..L /\ DOMAIN results' = 1..(L + 1)
      BY <3>1, <3>2, <3>3, LenProperties
    <3> HIDE DEF L
    <3>5. \A n \in 1..(L + 1) : n \in 1..L \/ n = L + 1
      BY <3>2
    <3>6. OwnReply
      BY <1>1, <2>4 DEF OwnInv
    <3>7. \A n \in 1..L : results'[n] \in {Reply(n), Failed}
      BY <2>4, <3>2, <3>4, <3>6 DEF OwnReply
    <3>8. QED
      BY <3>2, <3>4, <3>5, <3>7 DEF OwnReply
  <2>5. QED
    BY <1>1, <2>1, <2>2, <2>3, <2>4 DEF OwnInv
<1>5. CASE ~(WriteFails \/ WakeSpurious \/ WaitTimeout \/ ExecuteReset \/ Wakeup \/ Watchdog)
  <2>1. upset' = upset /\ cut' = cut
    BY <1>5 DEF Next, SenderStep, TargetStep, Begin, Write, Wait, Wake, SetTimeout, Return,
       Receive, ReceivePayload, ReceiveRxd, ReceiveCut, ReceiveReply, ReceiveBoot, Answer,
       Sleep, SendRxd, vars, histVars
  <2>2. woken' => spc' \in {"wait", "return"}
    BY <1>1, <1>5 DEF OwnInv, Next, SenderStep, TargetStep, Begin, Write, Wait, Wake,
       SetTimeout, Return, Receive, ReceivePayload, ReceiveRxd, ReceiveCut, ReceiveReply,
       ReceiveBoot, SetReturn, BootReturn, Answer, Sleep, SendRxd, vars, senderVars
  <2>3. ASSUME ~upset
        PROVE  /\ ~cut'
               /\ \A i \in 1..Len(up') : up'[i].kind \in ReplyKinds
               /\ spc' # "timeout"
               /\ OwnReply'
               /\ spc' # "idle" => val' = None \/ val'.ret = "reply"
               /\ woken' \/ spc' = "return" => val'.ret = "reply"
    <3>1. /\ ~cut /\ (\A i \in 1..Len(up) : up[i].kind \in ReplyKinds)
          /\ spc # "timeout" /\ OwnReply
          /\ spc # "idle" => val = None \/ val.ret = "reply"
          /\ woken \/ spc = "return" => val.ret = "reply"
          /\ woken => spc \in {"wait", "return"}
      BY <1>1, <2>3 DEF OwnInv, ReplyKinds
    <3>2. \A i \in 1..Len(up') : up'[i].kind \in ReplyKinds
      BY <1>5, <3>1, KindsKept
    <3>3. ASSUME up # <<>> PROVE Head(up).kind \in ReplyKinds
      <4>1. \A s \in Seq(UpUnits) : s # <<>> => 1 \in 1..Len(s) /\ Head(s) = s[1]
        BY SMT
      <4>2. 1 \in 1..Len(up) /\ Head(up) = up[1]
        BY <3>3, <4>1 DEF IInv, UpType
      <4>3. QED
        BY <3>1, <4>2
    <3>4. ~SetTimeout /\ ~ReceiveCut /\ ~ReceiveBoot
      BY <3>1, <3>3 DEF SetTimeout, ReceiveCut, ReceiveBoot, ReplyKinds
    <3>5. /\ spc' # "timeout"
          /\ spc' # "idle" => val' = None \/ val'.ret = "reply"
          /\ woken' \/ spc' = "return" => val'.ret = "reply"
      <4>1. CASE Return
        BY <4>1 DEF Return
      <4>2. ASSUME NEW k \in Kinds, Begin(k)
            PROVE  spc' = "send" /\ val' = None /\ ~woken'
        BY <3>1, <4>2 DEF Begin, Initial
      <4>3. CASE ReceiveReply
        <5>1. spc' = spc /\ val'.ret = "reply"
          BY <4>3 DEF ReceiveReply, SetReturn, Reply
        <5>2. QED
          BY <3>1, <5>1
      <4>4. CASE Write \/ Wait \/ Wake
        BY <3>1, <4>4 DEF Write, Wait, Wake
      <4>5. CASE UNCHANGED senderVars
        BY <3>1, <4>5 DEF senderVars
      <4>6. \/ \E k \in Kinds : Begin(k)
            \/ Return \/ ReceiveReply \/ Write \/ Wait \/ Wake \/ UNCHANGED senderVars
        BY <1>5, <3>4 DEF Next, SenderStep, TargetStep, Receive, ReceivePayload, ReceiveRxd,
           Answer, Sleep, SendRxd, vars
      <4>7. CASE \E k \in Kinds : Begin(k)
        BY <4>2, <4>7
      <4>8. QED
        BY <4>1, <4>3, <4>4, <4>5, <4>6, <4>7
    <3>6. OwnReply'
      <4>1. CASE Return
        <5> DEFINE L == Len(results)
        <5>1. results' = Append(results, val) /\ val = Reply(L + 1)
          BY <2>3, <4>1, HeldIsOwn DEF Return
        <5>2. /\ results \in Seq(Results) /\ val \in Results
          BY DEF IInv, TypeOK
        <5>3. /\ L \in Nat /\ Len(results') = L + 1 /\ results'[L + 1] = val
              /\ \A i \in 1..L : results'[i] = results[i]
          BY <5>1, <5>2, AppendFacts
        <5>4. results' \in Seq(Results)
          BY <5>1, <5>2, AppendProperties
        <5>5. DOMAIN results = 1..L /\ DOMAIN results' = 1..(L + 1)
          BY <5>2, <5>3, <5>4, LenProperties
        <5> HIDE DEF L
        <5>6. \A n \in 1..(L + 1) : n \in 1..L \/ n = L + 1
          BY <5>3
        <5>7. \A n \in 1..(L + 1) : results'[n] \in {Reply(n), Failed}
          BY <2>3, <3>1, <5>1, <5>3, <5>5, <5>6 DEF OwnReply
        <5>8. QED
          BY <5>5, <5>7 DEF OwnReply
      <4>2. CASE results' = results
        BY <2>1, <3>1, <4>2 DEF OwnReply
      <4>3. Return \/ results' = results
        BY <1>5 DEF Next, SenderStep, TargetStep, Begin, Write, Wait, Wake, SetTimeout,
           Receive, ReceivePayload, ReceiveRxd, ReceiveCut, ReceiveReply, ReceiveBoot, Answer,
           Sleep, SendRxd, vars, histVars
      <4>4. QED
        BY <4>1, <4>2, <4>3
    <3>7. QED
      BY <2>1, <3>1, <3>2, <3>5, <3>6
  <2>4. QED
    BY <2>1, <2>2, <2>3 DEF OwnInv, ReplyKinds
<1>6. QED
  BY <1>2, <1>3, <1>4, <1>5, <1>7

\* A command that ends leaves nothing of its own on the way.
LEMMA NothingLeft ==
  ASSUME IInv, ~upset, spc \in {"idle", "send"} \/ Held = Len(results) + 1
  PROVE  (\A i \in 1..Len(up) : up[i].kind # "reply") /\ Len(down) = 0
<1>1. CASE spc = "idle"
  <2>1. cmd.no = 0
    BY <1>1 DEF IInv, NumInv
  <2>2. \A i \in 1..Len(up) : up[i].kind # "reply"
    BY <2>1, NumFacts DEF IInv, CurrentInv
  <2>3. Len(down) # 0 => 1 \in 1..Len(down)
    BY NumFacts
  <2>4. QED
    BY <2>1, <2>2, <2>3, NumFacts DEF IInv, CurrentInv
<1>2. CASE spc # "idle" /\ (spc = "send" \/ Held = Len(results) + 1)
  <2>1. cmd.no = Len(results) + 1 /\ Len(results) \in Nat /\ Held \in Nat
    BY <1>2, NumFacts DEF IInv, NumInv
  <2>2. Issued = Len(results) \/ Held = Len(results) + 1
    BY <1>2 DEF Issued
  <2>3. \A i \in 1..Len(up) : up[i].kind # "reply"
    BY <2>1, <2>2 DEF IInv, CurrentInv, UpNums
  <2>4. \A k \in 1..Len(down) : FALSE
    BY <2>1, <2>2 DEF IInv, CurrentInv, DownNums
  <2>5. Len(down) # 0 => 1 \in 1..Len(down)
    BY NumFacts
  <2>6. QED
    BY <2>3, <2>4, <2>5
<1>3. QED
  BY <1>1, <1>2

\* Until something upsets it, only the current command is on its way, and its reply.
LEMMA CurrentStep == ASSUME IInv, [Next]_vars PROVE CurrentInv'
<1> SUFFICES ASSUME ~upset' PROVE CurrentInv'
  BY DEF CurrentInv
<1>1. NumTypes' /\ Len(up) \in Nat /\ Len(down) \in Nat /\ UpType /\ up \in Seq(UpUnits)
      /\ down \in Seq(DownUnits) /\ upset \in BOOLEAN
  BY NextTypes, NumFacts DEF IInv, UpType, TypeOK, DownUnits
<1>2. ASSUME UNCHANGED <<up, down>>, UNCHANGED upset,
             ~upset => (\A i \in 1..Len(up) : up[i].kind # "reply") /\ Len(down) = 0,
             spc' = "idle" \/ val'.ret # "reply" \/ (val' = val /\ cmd' = cmd /\ spc # "idle")
      PROVE  CurrentInv'
  BY <1>2 DEF IInv, CurrentInv
<1>3. ASSUME NEW c \in Kinds, Begin(c) PROVE CurrentInv'
  <2>1. /\ spc = "idle" /\ val' = None /\ UNCHANGED <<up, down, upset>>
    BY <1>3 DEF Begin, Initial, targetVars, histVars
  <2>2. QED
    BY <1>2, <2>1, NothingLeft, ResultType
<1>4. CASE Write
  <2>1. /\ spc = "send" /\ UNCHANGED <<up, val, cmd, upset>>
        /\ down' = down \/ down' = Append(down, Line)
    BY <1>4 DEF Write, Arrive
  <2>2. (\A i \in 1..Len(up) : up[i].kind # "reply") /\ Len(down) = 0
    BY <2>1, NothingLeft
  <2>3. \A k \in 1..Len(down') : down'[k].no = cmd.no
    <3>1. CASE down' = down
      BY <2>2, <3>1
    <3>2. CASE down' = Append(down, Line)
      <4>1. Line \in DownUnits /\ Line.no = cmd.no
        BY <2>1, LineIs
      <4>2. Len(down') = Len(down) + 1 /\ down'[Len(down) + 1] = Line
        BY <1>1, <3>2, <4>1, AppendFacts
      <4>3. QED
        BY <2>2, <4>1, <4>2
    <3>3. QED
      BY <2>1, <3>1, <3>2
  <2>4. val.ret = "reply" => val.no = cmd.no
    BY <2>1 DEF IInv, CurrentInv
  <2>5. QED
    BY <2>1, <2>2, <2>3, <2>4 DEF CurrentInv
<1>5. CASE WriteFails
  <2>1. /\ spc = "send" /\ spc' = "idle" /\ UNCHANGED <<up, down, upset>>
    BY <1>5 DEF WriteFails
  <2>2. QED
    BY <1>2, <2>1, NothingLeft
<1>6. CASE Return
  <2>1. /\ spc = "return" /\ spc' = "idle" /\ UNCHANGED <<up, down, upset>>
    BY <1>6 DEF Return, targetVars
  <2>2. val.ret = "reply" /\ val.no = Len(results) + 1
    BY <2>1, HeldIsOwn DEF Reply
  <2>3. Held = Len(results) + 1
    BY <2>1, <2>2 DEF Held
  <2>4. QED
    BY <1>2, <2>1, <2>3, NothingLeft
<1>7. CASE Wait \/ Wake \/ SetTimeout \/ UNCHANGED vars
  <2>1. /\ UNCHANGED <<up, down, upset, cmd>>
        /\ spc' = spc \/ {spc, spc'} \subseteq {"sent", "wait", "timeout", "return"}
        /\ val' = val \/ val' = TimeOut
    BY <1>7 DEF Wait, Wake, SetTimeout, vars, senderVars, targetVars, histVars
  <2>2. QED
    BY <2>1, ResultType DEF IInv, CurrentInv
<1>8. CASE Receive
  <2>1. /\ up # <<>> /\ up' = Tail(up) /\ UNCHANGED <<spc, cmd, down, upset, cut>>
        /\ val' = val \/ val' = None \/ (ReceiveReply /\ val' = Reply(Head(up).n))
    BY <1>8 DEF Receive, ReceivePayload, ReceiveRxd, ReceiveCut, ReceiveReply, ReceiveBoot,
       Take, SetReturn, BootReturn, senderVars, histVars
  <2>2. /\ 1 \in 1..Len(up) /\ Head(up) = up[1]
        /\ \A i \in 1..Len(up') : up'[i] = up[i + 1] /\ i + 1 \in 1..Len(up)
    BY <1>1, <2>1, UpTaken
  <2>3. /\ \A i \in 1..Len(up') : up'[i].kind = "reply" => up'[i].n = cmd'.no
        /\ \A k \in 1..Len(down') : down'[k].no = cmd'.no
    BY <2>1, <2>2 DEF IInv, CurrentInv
  <2>4. spc' # "idle" /\ val'.ret = "reply" => val'.no = cmd'.no
    <3>1. CASE val' = val \/ val' = None
      BY <2>1, <3>1, ResultType DEF IInv, CurrentInv
    <3>2. CASE ReceiveReply /\ val' = Reply(Head(up).n)
      <4>1. rem = 0 /\ up[1].kind \in {"reply", "data"}
        BY <2>2, <3>2 DEF ReceiveReply, Looks
      <4>2. up[1].kind # "data"
        BY <2>1, <2>2, <4>1 DEF IInv, OwnInv, PayloadInv
      <4>3. up[1].n = cmd.no
        BY <2>1, <2>2, <4>1, <4>2 DEF IInv, CurrentInv
      <4>4. QED
        BY <2>1, <2>2, <3>2, <4>3 DEF Reply
    <3>3. QED
      BY <2>1, <3>1, <3>2
  <2>5. QED
    BY <2>3, <2>4 DEF CurrentInv
<1>9. CASE Answer \/ Sleep
  <2>1. /\ down # <<>> /\ down' = Tail(down) /\ UNCHANGED <<spc, cmd, val, upset>>
        /\ up' = up \/ up' = Append(up, Unit("reply", Head(down).no))
    BY <1>9 DEF Answer, Sleep, senderVars, histVars
  <2>2. /\ 1 \in 1..Len(down) /\ Head(down) = down[1] /\ Head(down) \in DownUnits
        /\ \A k \in 1..Len(down') : down'[k] = down[k + 1] /\ k + 1 \in 1..Len(down)
    BY <1>1, <2>1, TailFacts
  <2>3. /\ \A k \in 1..Len(down') : down'[k].no = cmd'.no
        /\ spc' # "idle" /\ val'.ret = "reply" => val'.no = cmd'.no
        /\ down[1].no = cmd.no
        /\ \A i \in 1..Len(up) : up[i].kind = "reply" => up[i].n = cmd.no
    BY <2>1, <2>2 DEF IInv, CurrentInv
  <2>4. CASE up' = up
    BY <2>1, <2>3, <2>4 DEF CurrentInv
  <2>5. CASE up' = Append(up, Unit("reply", Head(down).no))
    <3>1. /\ Unit("reply", Head(down).no) \in UpUnits
          /\ Unit("reply", Head(down).no).n = cmd.no
      BY <2>2, <2>3 DEF Unit, UpUnits, UpKinds, DownUnits
    <3>2. /\ Len(up') = Len(up) + 1 /\ \A i \in 1..Len(up) : up'[i] = up[i]
          /\ up'[Len(up) + 1] = Unit("reply", Head(down).no)
      BY <1>1, <2>5, <3>1, AppendFacts
    <3>3. \A i \in 1..Len(up') : i \in 1..Len(up) \/ i = Len(up) + 1
      BY <1>1, <3>2
    <3>4. \A i \in 1..Len(up') : up'[i].kind = "reply" => up'[i].n = cmd.no
      BY <2>3, <3>1, <3>2, <3>3
    <3>5. QED
      BY <2>1, <2>3, <3>4 DEF CurrentInv
  <2>6. QED
    BY <2>1, <2>4, <2>5
<1>10. ASSUME NEW n \in 0..MaxPayload, SendRxd(n) PROVE CurrentInv'
  <2>1. UNCHANGED <<spc, cmd, val, down, upset>>
    BY <1>10 DEF SendRxd, senderVars
  <2>2. /\ Len(up') = Len(up) + 1 + n
        /\ \A i \in 1..Len(up) : up'[i] = up[i]
        /\ up'[Len(up) + 1] = Unit("rxd", n)
        /\ \A i \in 1..n : up'[Len(up) + 1 + i] = Unit("data", 0)
    BY <1>1, <1>10, RxdAdded
  <2>5. n \in Nat
    BY NrcAssumption
  <2>3. ASSUME NEW i \in 1..Len(up'), up'[i].kind = "reply" PROVE i \in 1..Len(up)
    <3>1. i # Len(up) + 1
      BY <2>2, <2>3 DEF Unit
    <3>2. CASE i > Len(up) + 1
      <4>1. i - (Len(up) + 1) \in 1..n /\ Len(up) + 1 + (i - (Len(up) + 1)) = i
        BY <1>1, <2>2, <2>5, <3>2
      <4>2. up'[i] = Unit("data", 0)
        BY <2>2, <4>1
      <4>3. QED
        BY <2>3, <4>2 DEF Unit
    <3>3. QED
      BY <1>1, <2>2, <2>5, <3>1, <3>2
  <2>4. QED
    BY <2>1, <2>2, <2>3 DEF IInv, CurrentInv
<1>11. CASE WakeSpurious \/ WaitTimeout \/ ExecuteReset \/ Wakeup \/ Watchdog
  BY <1>11 DEF WakeSpurious, WaitTimeout, ExecuteReset, Wakeup, Watchdog, Restart
<1>12. QED
  BY <1>3, <1>4, <1>5, <1>6, <1>7, <1>8, <1>9, <1>10, <1>11 DEF Next, SenderStep, TargetStep

-----------------------------------------------------------------------------
\* The host begins with nothing sent, and every step keeps the invariant.
LEMMA Invariant == Spec => []IInv
<1>1. Init => IInv
  <2> SUFFICES ASSUME Init PROVE IInv
    OBVIOUS
  <2>1. up = <<>> /\ down = <<>> /\ results = <<>> /\ Len(up) = 0 /\ Len(down) = 0
        /\ Len(results) = 0
    BY DEF Init
  <2>2. FlagType
    BY DEF Init, FlagType
  <2>3. StateType
    <3>1. cmd \in [no : 0..MaxCmds, kind : Kinds]
      BY NrcAssumption DEF Init, NoCmd, Kinds
    <3>2. QED
      BY <2>1, <3>1, ResultType, NrcAssumption DEF Init, StateType
  <2>4. UpType
    BY <2>1 DEF UpType
  <2>5. PayloadInv
    BY <2>1 DEF Init, PayloadInv
  <2>6. NumInv
    <3>1. ReplyOnce
      BY <2>1 DEF ReplyOnce
    <3>2. Held = 0 /\ Issued = 0
      BY <2>1 DEF Init, Held, Issued
    <3>3. QED
      BY <2>1, <3>1, <3>2, NrcAssumption DEF Init, NumInv, NoCmd
  <2>7. UpNums /\ DownNums
    BY <2>1 DEF UpNums, DownNums
  <2>8. OwnInv
    BY <2>1 DEF Init, OwnInv, OwnReply
  <2>9. CurrentInv
    BY <2>1 DEF Init, CurrentInv
  <2>10. QED
    BY <2>2, <2>3, <2>4, <2>5, <2>6, <2>7, <2>8, <2>9, TypeParts DEF IInv
<1>2. IInv /\ [Next]_vars => IInv'
  BY TypeStep, PayloadStep, NumStep, OwnStep, CurrentStep DEF IInv, Numbered
<1>3. QED
  BY <1>1, <1>2, PTL DEF Spec

\* Every variable of the sender, the receiver and the target keeps its type, and payload
\* still to be taken is never more than a header may announce (nrc-atcmd.c:794-997).
THEOREM TypeCorrect == Spec => []TypeOK
<1>1. IInv => TypeOK
  BY DEF IInv
<1>2. QED
  BY <1>1, Invariant, PTL

\* nrc_atcmd_set_return and nrc_atcmd_get_return never give two commands one reply, nor a
\* command one of a later command (nrc-atcmd.c:161-191).
THEOREM RepliesOnce == Spec => []ReplyOnce
<1>1. IInv => ReplyOnce
  BY DEF IInv, NumInv
<1>2. QED
  BY <1>1, Invariant, PTL

\* Until something else than a reply ends a wait, or a command whose write failed is executed,
\* nrc_atcmd_send_cmd returns every command it wrote its own reply (nrc-atcmd.c:229-271),
\* whatever RXD data comes in between and whatever the target read of a command given up.
THEOREM OwnReplies == Spec => []OwnReply
<1>1. IInv => OwnReply
  BY DEF IInv, OwnInv, OwnReply
<1>2. QED
  BY <1>1, Invariant, PTL
=============================================================================
