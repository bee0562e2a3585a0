------------------------ MODULE AtcmdDataModeProofs ------------------------
(***************************************************************************)
(* Proofs about the data mode of the AT firmware, for every buffer size,    *)
(* number of modes and way the host's stream is cut into buffers.           *)
(*                                                                          *)
(* What the receive task's counters are worth at each of its steps is       *)
(* ModeInv and CountInv; where a mode ends in the host's stream follows     *)
(* from the order of what the host still has on the way (StreamInv) and     *)
(* from how much of it the mode will take (DataLeft, HostInv).              *)
(***************************************************************************)
EXTENDS AtcmdDataMode, Integers, TLAPS, SequenceTheorems

Units == Data \cup {"cmd", "exit1", "exit2"}

\* What the host has sent and the receive task has not looked at.
Stream == rbuf \o link

\* Where a whole send, or the last one of a mode, is on its way to the socket.
Taken == rpc \in {"send", "count", "event"}
Leaving == rpc \in {"exitsend", "exit"}

\* _buf, the length and the counts, at each step of the receive task.
ModeInv ==
  /\ rpc # "recv" => enable
  /\ ~enable => ~pass /\ len = 0 /\ cnt = 0 /\ done = 0 /\ drop = 0
  /\ cntExit > 0 => enable /\ idle /\ rpc = "recv"
  /\ cnt <= len
  /\ rpc \in {"recv", "data", "continue"} => cnt < len \/ cnt = 0
  /\ Taken /\ ~pass => cnt = len /\ rn = len
  /\ rpc = "event" /\ pass => cnt = 0
  /\ rpc \in {"count", "event", "exit"} => rret <= rn
  /\ Leaving => rn = IF pass THEN cnt ELSE 0

\* What the socket took and the counts do not say yet.
Settled == IF rpc \in {"count", "exit"} \/ (rpc = "event" /\ ~pass) THEN rret ELSE 0

\* What was taken as data and neither sent nor dropped yet.
Pending == IF rpc \in {"send", "count"} THEN rn ELSE cnt

CountInv ==
  /\ enable => sock = done + Settled /\ took = done + drop + Pending
  /\ ~pass => done = 0 /\ drop = 0
  /\ ReportExact

\* The host's order: data, exit commands, AT+SSEND.
StreamInv ==
  /\ \A i, j \in 1..Len(Stream) : i < j /\ Stream[j] \in Data => Stream[i] \in Data
  /\ \A i \in 1..Len(Stream) : Stream[i] = "exit2" => i = 1 \/ Stream[i - 1] = "exit1"
  /\ \A i \in 1..Len(Stream) : Stream[i] = "cmd" => i = Len(Stream) /\ hpc = "ok"

\* Data is on the way to a mode that takes all of it.
DataLeft ==
  /\ ~enable \/ Leaving => hpc # "data" /\ \A i \in 1..Len(Stream) : Stream[i] \notin Data
  /\ enable /\ ~pass => \A i \in 1..Len(Stream) : Stream[i] \in Data => i <= len - cnt

\* A host that sends data is in the mode it asked for, and a mode of fixed length has room
\* for all the host owes it.
HostInv ==
  /\ hpc = "ok" /\ hlen = 0 => hpass
  /\ hpc = "data" => pass = hpass /\ \A i \in 1..Len(Stream) : Stream[i] \in Data
  /\ hpc = "data" /\ ~hpass => hleft >= 1 /\ Len(Stream) + hleft <= len - cnt
  /\ DataNotParsed

IInv == TypeOK /\ ModeInv /\ CountInv /\ StreamInv /\ DataLeft /\ HostInv

-----------------------------------------------------------------------------
(* The stream.                                                              *)

\* The two parts of the stream have its units.
LEMMA StreamType ==
  ASSUME NEW r \in Seq(Units), NEW l \in Seq(Units)
  PROVE  /\ r \o l \in Seq(Units) /\ Len(r \o l) = Len(r) + Len(l)
         /\ Len(r) \in Nat /\ Len(l) \in Nat
         /\ \A i \in 1..(Len(r) + Len(l)) :
              (r \o l)[i] = IF i <= Len(r) THEN r[i] ELSE l[i - Len(r)]
  BY ConcatProperties, LenProperties

\* k units have left the front of what is on the way.
TakenOff(k) ==
  /\ Len(Stream') = Len(Stream) - k
  /\ \A i \in 1..Len(Stream') : Stream'[i] = Stream[i + k]

\* The receive task takes k units from the front of its buffer.
LEMMA TakeOff ==
  ASSUME TypeOK, NEW k \in Nat, k <= Len(rbuf),
         rbuf' = SubSeq(rbuf, k + 1, Len(rbuf)), link' = link
  PROVE  TakenOff(k)
<1> DEFINE r == rbuf
           t == SubSeq(rbuf, k + 1, Len(rbuf))
           l == link
<1>1. r \in Seq(Units) /\ l \in Seq(Units) /\ Len(r) \in Nat /\ Len(l) \in Nat
  BY LenProperties DEF TypeOK, Units
<1>2. t \in Seq(Units) /\ Len(t) = Len(r) - k /\ \A i \in 1..Len(t) : t[i] = r[i + k]
  BY <1>1
<1>3. Stream = r \o l /\ Stream' = t \o l /\ k <= Len(r)
  BY DEF Stream
<1> HIDE DEF r, t, l
<1>4. /\ Len(r \o l) = Len(r) + Len(l)
      /\ \A i \in 1..(Len(r) + Len(l)) :
           (r \o l)[i] = IF i <= Len(r) THEN r[i] ELSE l[i - Len(r)]
  BY <1>1, StreamType
<1>5. /\ Len(t \o l) = Len(t) + Len(l)
      /\ \A i \in 1..(Len(t) + Len(l)) :
           (t \o l)[i] = IF i <= Len(t) THEN t[i] ELSE l[i - Len(t)]
  BY <1>1, <1>2, StreamType
<1>6. Len(t \o l) = Len(r \o l) - k
  BY <1>1, <1>2, <1>4, <1>5
<1>7. ASSUME NEW i \in 1..Len(t \o l) PROVE (t \o l)[i] = (r \o l)[i + k]
  <2>1. i \in 1..(Len(t) + Len(l)) /\ i + k \in 1..(Len(r) + Len(l))
    BY <1>1, <1>2, <1>5
  <2>2. CASE i <= Len(t)
    BY <1>1, <1>2, <1>4, <1>5, <2>1, <2>2
  <2>3. CASE ~(i <= Len(t))
    <3>1. i - Len(t) = (i + k) - Len(r) /\ ~(i + k <= Len(r))
      BY <1>1, <1>2, <2>1, <2>3
    <3>2. QED
      BY <1>4, <1>5, <2>1, <2>3, <3>1
  <2>4. QED
    BY <2>2, <2>3
<1>8. QED
  BY <1>3, <1>6, <1>7 DEF TakenOff

\* The rest of a stream is in the same order (_hif_rx_task gives buffers in order).
LEMMA RestOrdered ==
  ASSUME TypeOK, StreamInv, NEW k \in Nat, k <= Len(Stream), TakenOff(k),
         hpc' = hpc \/ \A i \in 1..Len(Stream') : Stream'[i] # "cmd"
  PROVE  StreamInv'
<1> DEFINE n == Len(Stream)
           m == Len(Stream')
<1>1. n \in Nat
  BY StreamType DEF TypeOK, Units, Stream
<1>2. m = n - k /\ \A i \in 1..m : Stream'[i] = Stream[i + k]
  BY DEF TakenOff
<1> HIDE DEF n, m
<1>3. \A i \in 1..m : i + k \in 1..n
  BY <1>1, <1>2
<1>4. ASSUME NEW i \in 1..m, NEW j \in 1..m, i < j, Stream'[j] \in Data
      PROVE  Stream'[i] \in Data
  BY <1>2, <1>3, <1>4 DEF StreamInv, n
<1>5. ASSUME NEW i \in 1..m, Stream'[i] = "exit2"
      PROVE  i = 1 \/ Stream'[i - 1] = "exit1"
  <2>1. Stream[i + k] = "exit2" /\ i + k \in 1..n
    BY <1>2, <1>3, <1>5
  <2>2. i + k = 1 \/ Stream[(i + k) - 1] = "exit1"
    BY <2>1 DEF StreamInv, n
  <2>3. CASE i # 1
    <3>1. i - 1 \in 1..m /\ (i - 1) + k = (i + k) - 1 /\ i + k # 1
      BY <2>3, <1>1, <1>2
    <3>2. QED
      BY <1>2, <2>2, <3>1
  <2>4. QED
    BY <2>3
<1>6. ASSUME NEW i \in 1..m, Stream'[i] = "cmd" PROVE i = m /\ hpc' = "ok"
  <2>1. i + k = n /\ hpc = "ok"
    BY <1>2, <1>3, <1>6 DEF StreamInv, n
  <2>2. i = m
    BY <1>1, <1>2, <2>1
  <2>3. QED
    BY <1>6, <2>1, <2>2 DEF m
<1>7. QED
  BY <1>4, <1>5, <1>6 DEF StreamInv, m

\* What the receive task sees in its buffer is the front of the stream.
LEMMA Front ==
  ASSUME TypeOK
  PROVE  /\ Stream \in Seq(Units) /\ Len(Stream) \in Nat /\ Len(rbuf) \in Nat
         /\ Len(rbuf) <= Len(Stream)
         /\ \A i \in 1..Len(rbuf) : i \in 1..Len(Stream) /\ Stream[i] = rbuf[i]
<1> DEFINE r == rbuf
           l == link
<1>1. r \in Seq(Units) /\ l \in Seq(Units) /\ Len(r) \in Nat /\ Len(l) \in Nat
  BY LenProperties DEF TypeOK, Units
<1>2. Stream = r \o l
  BY DEF Stream
<1> HIDE DEF r, l
<1>3. /\ r \o l \in Seq(Units) /\ Len(r \o l) = Len(r) + Len(l)
      /\ \A i \in 1..(Len(r) + Len(l)) :
           (r \o l)[i] = IF i <= Len(r) THEN r[i] ELSE l[i - Len(r)]
  BY <1>1, StreamType
<1>4. \A i \in 1..Len(r) : i \in 1..Len(r \o l) /\ (r \o l)[i] = r[i]
  BY <1>1, <1>3
<1>5. QED
  BY <1>1, <1>2, <1>3, <1>4 DEF r

\* The host adds at the end of the stream.
LEMMA AddOn ==
  ASSUME TypeOK, NEW new \in Seq(Units), link' = link \o new, rbuf' = rbuf
  PROVE  /\ Len(Stream') = Len(Stream) + Len(new)
         /\ \A i \in 1..Len(Stream) : Stream'[i] = Stream[i]
         /\ \A i \in 1..Len(new) : Stream'[Len(Stream) + i] = new[i]
<1>1. rbuf \in Seq(Units) /\ link \in Seq(Units) /\ Stream \in Seq(Units)
  BY Front DEF TypeOK, Units
<1>2. Stream' = Stream \o new
  <2>1. \A r, l, n \in Seq(Units) : (r \o l) \o n = r \o (l \o n)
    BY SMT
  <2>2. Stream' = rbuf \o (link \o new)
    BY DEF Stream
  <2>3. QED
    BY <1>1, <2>1, <2>2, Zenon DEF Stream
<1> DEFINE st == Stream
<1>3. st \in Seq(Units)
  BY <1>1
<1> HIDE DEF st
<1>4. /\ Len(st \o new) = Len(st) + Len(new) /\ Len(st) \in Nat /\ Len(new) \in Nat
      /\ \A i \in 1..(Len(st) + Len(new)) :
           (st \o new)[i] = IF i <= Len(st) THEN st[i] ELSE new[i - Len(st)]
  BY <1>3, StreamType
<1>5. \A i \in 1..Len(st) : (st \o new)[i] = st[i]
  BY <1>4
<1>6. \A i \in 1..Len(new) : (st \o new)[Len(st) + i] = new[i]
  <2>1. \A i \in 1..Len(new) : /\ Len(st) + i \in 1..(Len(st) + Len(new))
                               /\ ~(Len(st) + i <= Len(st)) /\ (Len(st) + i) - Len(st) = i
    BY <1>4
  <2>2. QED
    BY <1>4, <2>1
<1>7. QED
  BY <1>2, <1>4, <1>5, <1>6 DEF st

\* One unit more.
LEMMA AddOne ==
  ASSUME TypeOK, NEW u \in Units, link' = Append(link, u), rbuf' = rbuf
  PROVE  /\ Len(Stream') = Len(Stream) + 1
         /\ \A i \in 1..Len(Stream) : Stream'[i] = Stream[i]
         /\ Stream'[Len(Stream) + 1] = u
<1>1. <<u>> \in Seq(Units) /\ Len(<<u>>) = 1 /\ <<u>>[1] = u
  OBVIOUS
<1>2. link' = link \o <<u>>
  <2>1. link \in Seq(Units)
    BY DEF TypeOK, Units
  <2>2. \A l \in Seq(Units) : Append(l, u) = l \o <<u>>
    BY SMT
  <2>3. QED
    BY <2>1, <2>2
<1> DEFINE new == <<u>>
<1>3. new \in Seq(Units) /\ Len(new) = 1 /\ new[1] = u /\ link' = link \o new
  BY <1>1, <1>2
<1> HIDE DEF new
<1>4. /\ Len(Stream') = Len(Stream) + Len(new)
      /\ \A i \in 1..Len(Stream) : Stream'[i] = Stream[i]
      /\ \A i \in 1..Len(new) : Stream'[Len(Stream) + i] = new[i]
  BY <1>3, AddOn
<1>5. 1 \in 1..Len(new)
  BY <1>3
<1>6. QED
  BY <1>3, <1>4, <1>5

\* What the receive task is given leaves the link: _hif_rx_task takes a buffer.
LEMMA GivenSame ==
  ASSUME TypeOK, Receive PROVE Stream' = Stream
<1>1. PICK n \in 1..Len(link) :
        rbuf' = SubSeq(link, 1, n) /\ link' = SubSeq(link, n + 1, Len(link))
  BY DEF Receive
<1>2. rbuf = <<>> /\ link \in Seq(Units)
  BY DEF Receive, TypeOK, Units
<1>3. Stream' = link
  <2>1. ASSUME NEW l \in Seq(Units), NEW k \in 1..Len(l)
        PROVE  SubSeq(l, 1, k) \o SubSeq(l, k + 1, Len(l)) = l
    BY SMT
  <2>2. QED
    BY <1>1, <1>2, <2>1 DEF Stream
<1>4. Stream = link
  <2>1. \A l \in Seq(Units) : <<>> \o l = l
    BY SMT
  <2>2. QED
    BY <1>2, <2>1 DEF Stream
<1>5. QED
  BY <1>3, <1>4

-----------------------------------------------------------------------------
(* Types.                                                                   *)

\* No more than the mode's length is taken (atcmd_core.c:1849-1862).
LEMMA TakeLenRange ==
  ASSUME IInv, rpc = "data"
  PROVE  /\ TakeLen \in Nat /\ TakeLen <= Len(rbuf)
         /\ ~(pass /\ len = 0) => cnt + TakeLen <= len
         /\ pass /\ len = 0 => cnt = 0
<1>1. cnt \in Nat /\ len \in Nat /\ Len(rbuf) \in Nat /\ cnt <= len
  BY LenProperties, DataModeAssumption DEF IInv, TypeOK, ModeInv
<1>2. QED
  BY <1>1 DEF TakeLen

\* A buffer that is swallowed as the start of the exit command is one unit.
LEMMA PartIsOne ==
  ASSUME IInv, TestPart PROVE cntExit = 0 /\ Len(rbuf) = 1
<1> DEFINE m == Len(rbuf)
<1>1. cntExit \in 0..1 /\ rbuf \in Seq(Units) /\ m \in Nat
  BY LenProperties DEF IInv, TypeOK, Units
<1>2. m < 2 - cntExit
  BY DEF TestPart, ExitPart
<1>3. m # 0
  BY <1>1, EmptySeq DEF TestPart
<1> HIDE DEF m
<1>4. cntExit = 0 /\ m = 1
  BY <1>1, <1>2, <1>3
<1>5. QED
  BY <1>4 DEF m

\* The flags, and everything else.
FlagType ==
  /\ hpass \in BOOLEAN /\ told \in BOOLEAN /\ enable \in BOOLEAN /\ idle \in BOOLEAN
  /\ pass \in BOOLEAN /\ at \in BOOLEAN /\ notified \in BOOLEAN /\ parsed \in BOOLEAN

CountType ==
  /\ hpc \in {"command", "ok", "data", "exit"}
  /\ hlen \in 0..BufMax /\ hleft \in 0..BufMax
  /\ link \in Seq(Units)
  /\ used \in [data : Nat, modes : Nat, exits : Nat]
  /\ len \in 0..BufMax /\ cnt \in 0..BufMax /\ done \in Nat /\ drop \in Nat
  /\ timer \in {"off", "running", "over"}
  /\ rpc \in {"recv", "data", "send", "count", "event", "continue", "exitsend", "exit"}
  /\ rbuf \in Seq(Units)
  /\ cntExit \in 0..1 /\ rn \in Nat /\ rret \in Nat
  /\ dpc \in {"wait", "timed", "run", "tell"}
  /\ took \in Nat /\ sock \in Nat
  /\ report \in [done : Nat, drop : Nat, left : Nat, took : Nat, sock : Nat]

\* TypeOK in its two parts.
LEMMA TypeParts == TypeOK <=> FlagType /\ CountType
  BY Zenon DEF TypeOK, FlagType, CountType, Units

\* The same of the state after a step.
LEMMA TypePartsNext == TypeOK' <=> FlagType' /\ CountType'
  BY TypeParts, PTL

\* Counting what the host has sent.
LEMMA UsedType ==
  \A r \in [data : Nat, modes : Nat, exits : Nat] :
    /\ [r EXCEPT !.data = @ + 1] \in [data : Nat, modes : Nat, exits : Nat]
    /\ [r EXCEPT !.modes = @ + 1] \in [data : Nat, modes : Nat, exits : Nat]
    /\ [r EXCEPT !.exits = @ + 1] \in [data : Nat, modes : Nat, exits : Nat]
  OBVIOUS

\* Every step of the two tasks and of the host keeps the types.
LEMMA TypeStep == ASSUME IInv, [Next]_vars PROVE TypeOK'
<1>1. FlagType /\ CountType
  BY TypeParts DEF IInv
<1>2. BufMax \in Nat \ {0}
  BY DataModeAssumption
<1>3. CASE HostCommand
  <2>1. PICK l \in 0..BufMax, p \in BOOLEAN : hlen' = l /\ hpass' = p
    BY <1>3 DEF HostCommand
  <2>2. FlagType'
    BY <1>1, <2>1, <1>3 DEF HostCommand, FlagType, modeVars, recvVars, taskVars, histVars
  <2>3. CountType'
    <3>1. hlen' \in 0..BufMax /\ hpc' = "ok" /\ hleft' = hleft
      BY <2>1, <1>3 DEF HostCommand
    <3>2. link' \in Seq(Units)
      BY <1>1, <1>3 DEF HostCommand, CountType, Units
    <3>3. used' \in [data : Nat, modes : Nat, exits : Nat]
      BY <1>1, <1>3, UsedType DEF HostCommand, CountType
    <3>4. UNCHANGED <<modeVars, recvVars, taskVars, histVars>>
      BY <1>3 DEF HostCommand
    <3>5. QED
      BY <1>1, <3>1, <3>2, <3>3, <3>4 DEF CountType, modeVars, recvVars, taskVars, histVars
  <2>4. QED
    BY <2>2, <2>3, TypePartsNext
<1>4. CASE HostData
  <2>1. FlagType'
    BY <1>1, <1>4 DEF HostData, FlagType, modeVars, recvVars, taskVars, histVars
  <2>2. CountType'
    <3>1. hleft' \in 0..BufMax
      <4>1. hleft \in 0..BufMax
        BY <1>1 DEF CountType
      <4>2. CASE hpass
        BY <1>4, <4>1, <4>2 DEF HostData
      <4>3. CASE ~hpass
        <5>1. hleft >= 1 /\ hleft' = hleft - 1
          BY <1>4, <4>3 DEF IInv, HostInv, HostData
        <5>2. QED
          BY <1>2, <4>1, <5>1
      <4>4. QED
        BY <4>2, <4>3
    <3>2. hpc' \in {"command", "data"} /\ hlen' = hlen
      BY <1>4 DEF HostData
    <3>3. PICK u \in Data : link' = Append(link, u)
      BY <1>4 DEF HostData
    <3>4. link' \in Seq(Units)
      BY <1>1, <3>3 DEF CountType, Units
    <3>5. used' \in [data : Nat, modes : Nat, exits : Nat]
      BY <1>1, <1>4, UsedType DEF HostData, CountType
    <3>6. UNCHANGED <<modeVars, recvVars, taskVars, histVars>>
      BY <1>4 DEF HostData
    <3>7. QED
      BY <1>1, <3>1, <3>2, <3>4, <3>5, <3>6
         DEF CountType, modeVars, recvVars, taskVars, histVars
  <2>3. QED
    BY <2>1, <2>2, TypePartsNext
<1>5. CASE HostExit
  <2>1. FlagType'
    BY <1>1, <1>5 DEF HostExit, FlagType, modeVars, recvVars, taskVars, histVars
  <2>2. CountType'
    <3>1. \A l \in Seq(Units) : l \o <<"exit1", "exit2">> \in Seq(Units)
      BY ConcatProperties DEF Units
    <3>2. link' \in Seq(Units)
      BY <1>1, <1>5, <3>1 DEF HostExit, CountType
    <3>3. used' \in [data : Nat, modes : Nat, exits : Nat]
      BY <1>1, <1>5, UsedType DEF HostExit, CountType
    <3>4. hpc' = "exit" /\ UNCHANGED <<hlen, hleft, modeVars, recvVars, taskVars, histVars>>
      BY <1>5 DEF HostExit
    <3>5. QED
      BY <1>1, <3>2, <3>3, <3>4 DEF CountType, modeVars, recvVars, taskVars, histVars
  <2>3. QED
    BY <2>1, <2>2, TypePartsNext
<1>6. CASE Receive
  <2>1. FlagType'
    BY <1>1, <1>6 DEF Receive, FlagType, hostVars, modeVars, taskVars, histVars
  <2>2. CountType'
    <3>1. \A l \in Seq(Units) : \A n \in 1..Len(l) :
            SubSeq(l, 1, n) \in Seq(Units) /\ SubSeq(l, n + 1, Len(l)) \in Seq(Units)
      BY SMT
    <3>2. rbuf' \in Seq(Units) /\ link' \in Seq(Units)
      BY <1>1, <1>6, <3>1 DEF Receive, CountType
    <3>3. UNCHANGED <<hostVars, modeVars, rpc, cntExit, rn, rret, taskVars, histVars>>
      BY <1>6 DEF Receive
    <3>4. QED
      BY <1>1, <3>2, <3>3 DEF CountType, hostVars, modeVars, taskVars, histVars
  <2>3. QED
    BY <2>1, <2>2, TypePartsNext
<1>7. CASE ParseSend
  <2>1. FlagType'
    BY <1>1, <1>7 DEF ParseSend, Continue, ContinuedIdle, FlagType
  <2>2. CountType'
    <3>1. rbuf' \in Seq(Units)
      BY <1>1, <1>7 DEF ParseSend, CountType
    <3>2. /\ len' = hlen /\ hleft' = hlen /\ hpc' = "data" /\ timer' = "running"
          /\ cnt' = 0 /\ done' = 0 /\ drop' = 0 /\ took' = 0 /\ sock' = 0
          /\ UNCHANGED <<hlen, used, link, rpc, cntExit, rn, rret, dpc, report>>
      BY <1>7 DEF ParseSend, Continue
    <3>3. QED
      BY <1>1, <1>2, <3>1, <3>2 DEF CountType
  <2>3. QED
    BY <2>1, <2>2, TypePartsNext
<1>8. CASE ParseOther
  <2>1. FlagType'
    BY <1>1, <1>8 DEF ParseOther, FlagType, modeVars, taskVars
  <2>2. CountType'
    <3>1. hpc' \in {hpc, "command"}
      BY <1>8 DEF ParseOther
    <3>2. rbuf' \in Seq(Units)
      BY <1>1, <1>8 DEF ParseOther, CountType
    <3>3. UNCHANGED <<hlen, hleft, used, link, modeVars, rpc, cntExit, rn, rret, taskVars,
                      took, sock, report>>
      BY <1>8 DEF ParseOther
    <3>4. QED
      BY <1>1, <3>1, <3>2, <3>3 DEF CountType, modeVars, taskVars
  <2>3. QED
    BY <2>1, <2>2, TypePartsNext
<1>9. CASE TestData
  <2>1. FlagType'
    BY <1>1, <1>9 DEF TestData, FlagType, hostVars, modeVars, taskVars, histVars
  <2>2. CountType'
    BY <1>1, <1>9 DEF TestData, MismatchCount, CountType, hostVars, modeVars, taskVars, histVars
  <2>3. QED
    BY <2>1, <2>2, TypePartsNext
<1>10. CASE TestPart
  <2>1. FlagType'
    BY <1>1, <1>10 DEF TestPart, FlagType, hostVars, modeVars, taskVars, histVars
  <2>2. CountType'
    <3>1. cntExit' = cntExit + Len(rbuf) /\ rbuf' = <<>>
      BY <1>10 DEF TestPart
    <3>2. cntExit = 0 /\ Len(rbuf) = 1
      BY <1>10, PartIsOne
    <3>3. cntExit' = 1 /\ rbuf' \in Seq(Units)
      BY <3>1, <3>2
    <3>4. UNCHANGED <<hostVars, link, modeVars, rpc, rn, rret, taskVars, histVars>>
      BY <1>10 DEF TestPart
    <3>5. QED
      BY <1>1, <3>3, <3>4 DEF CountType, hostVars, modeVars, taskVars, histVars
  <2>3. QED
    BY <2>1, <2>2, TypePartsNext
<1>11. CASE TestExit
  <2>1. FlagType'
    BY <1>1, <1>11 DEF TestExit, Continue, ContinuedIdle, FlagType, histVars
  <2>2. CountType'
    <3>1. rbuf' \in Seq(Units)
      <4>1. \A r \in Seq(Units), c \in 0..1 : SubSeq(r, 2 - c, Len(r)) \in Seq(Units)
        BY SMT
      <4>2. QED
        BY <1>1, <1>11, <4>1 DEF TestExit, CountType
    <3>2. rn' \in {cnt, 0} /\ hpc' \in {hpc, "command"}
      BY <1>11 DEF TestExit
    <3>3. /\ timer' = "running" /\ cntExit' = 0 /\ rpc' = "exitsend"
          /\ UNCHANGED <<hlen, hleft, used, link, len, cnt, done, drop, rret, dpc, histVars>>
      BY <1>11 DEF TestExit, Continue
    <3>4. QED
      BY <1>1, <3>1, <3>2, <3>3 DEF CountType, histVars
  <2>3. QED
    BY <2>1, <2>2, TypePartsNext
<1>12. CASE DataTake
  <2>1. FlagType'
    BY <1>1, <1>12 DEF DataTake, FlagType, hostVars, taskVars
  <2>2. CountType'
    <3>1. /\ TakeLen \in Nat /\ TakeLen <= Len(rbuf)
          /\ ~(pass /\ len = 0) => cnt + TakeLen <= len
      BY <1>12, TakeLenRange DEF DataTake
    <3>2. rbuf' \in Seq(Units)
      <4>1. \A r \in Seq(Units), k \in Nat : k <= Len(r) => SubSeq(r, k + 1, Len(r)) \in Seq(Units)
        BY SMT
      <4>2. QED
        BY <1>1, <1>12, <3>1, <4>1 DEF DataTake, CountType
    <3>3. took' \in Nat
      BY <1>1, <1>12, <3>1 DEF DataTake, CountType
    <3>4. cnt' \in 0..BufMax /\ rn' \in Nat /\ rpc' \in {"send", "continue"}
      <4>1. cnt \in 0..BufMax /\ len \in 0..BufMax
        BY <1>1 DEF CountType
      <4>2. CASE pass /\ len = 0
        BY <1>12, <4>1, <4>2, <3>1 DEF DataTake
      <4>3. CASE ~(pass /\ len = 0)
        <5>1. cnt' = cnt + TakeLen /\ rn' \in {0, len} /\ rpc' \in {"send", "continue"}
          BY <1>12, <4>3 DEF DataTake
        <5>2. QED
          BY <1>2, <4>1, <4>3, <3>1, <5>1
      <4>4. QED
        BY <4>2, <4>3
    <3>5. UNCHANGED <<hostVars, link, len, done, drop, timer, cntExit, rret, taskVars, sock,
                      report>>
      BY <1>12 DEF DataTake
    <3>6. QED
      BY <1>1, <3>2, <3>3, <3>4, <3>5 DEF CountType, hostVars, taskVars
  <2>3. QED
    BY <2>1, <2>2, TypePartsNext
<1>13. CASE SendReturn
  <2>1. FlagType'
    BY <1>1, <1>13 DEF SendReturn, FlagType, hostVars, modeVars, taskVars
  <2>2. CountType'
    <3>1. rret' \in Nat
      BY <1>1, <1>13 DEF SendReturn, CountType
    <3>2. sock' \in Nat
      <4>1. sock' = sock + rret' /\ sock \in Nat
        BY <1>1, <1>13 DEF SendReturn, CountType
      <4>2. \A x, y \in Nat : x + y \in Nat
        OBVIOUS
      <4>3. QED
        BY <3>1, <4>1, <4>2, Zenon
    <3>3. /\ rpc' \in {"count", "exit"}
          /\ UNCHANGED <<hostVars, link, modeVars, rbuf, cntExit, rn, taskVars, took, report>>
      BY <1>13 DEF SendReturn
    <3>4. QED
      BY <1>1, <3>1, <3>2, <3>3 DEF CountType, hostVars, modeVars, taskVars
  <2>3. QED
    BY <2>1, <2>2, TypePartsNext
<1>14. CASE SendCount
  <2>1. FlagType'
    BY <1>1, <1>14 DEF SendCount, FlagType, hostVars, taskVars, histVars
  <2>2. CountType'
    <3>1. rret <= rn
      BY <1>14 DEF IInv, ModeInv, SendCount
    <3>2. done' \in Nat /\ drop' \in Nat /\ cnt' \in 0..BufMax
      <4>1. CASE pass
        BY <1>1, <1>2, <1>14, <3>1, <4>1 DEF SendCount, DropCount, CountType
      <4>2. CASE ~pass
        BY <1>1, <1>14, <4>2 DEF SendCount, CountType
      <4>3. QED
        BY <4>1, <4>2
    <3>3. /\ rpc' = "event"
          /\ UNCHANGED <<hostVars, link, len, timer, rbuf, cntExit, rn, rret, taskVars, histVars>>
      BY <1>14 DEF SendCount
    <3>4. QED
      BY <1>1, <3>2, <3>3 DEF CountType, hostVars, taskVars, histVars
  <2>3. QED
    BY <2>1, <2>2, TypePartsNext
<1>15. CASE SendEvent
  <2>1. FlagType'
    BY <1>1, <1>15 DEF SendEvent, Disable, FlagType, hostVars, modeVars, taskVars
  <2>2. CountType'
    <3>1. rret <= rn
      BY <1>15 DEF IInv, ModeInv, SendEvent
    <3>2. report' \in [done : Nat, drop : Nat, left : Nat, took : Nat, sock : Nat]
      <4>1. report' \in {report, Reported(rret, rn - rret, 0)}
        BY <1>15 DEF SendEvent
      <4>2. /\ rret \in Nat /\ rn \in Nat /\ took \in Nat /\ sock \in Nat
            /\ report \in [done : Nat, drop : Nat, left : Nat, took : Nat, sock : Nat]
        BY <1>1 DEF CountType
      <4>3. rn - rret \in Nat
        BY <3>1, <4>2
      <4>4. QED
        BY <4>1, <4>2, <4>3 DEF Reported
    <3>3. /\ len' \in {len, 0} /\ cnt' \in {cnt, 0} /\ done' \in {done, 0}
          /\ drop' \in {drop, 0} /\ timer' = timer
      BY <1>15 DEF SendEvent, Disable, modeVars
    <3>4. /\ rpc' \in {"continue", "recv"}
          /\ UNCHANGED <<hostVars, link, rbuf, cntExit, rn, rret, taskVars, took, sock>>
      BY <1>15 DEF SendEvent
    <3>5. /\ len' \in 0..BufMax /\ cnt' \in 0..BufMax /\ done' \in Nat /\ drop' \in Nat
          /\ timer' \in {"off", "running", "over"}
          /\ rpc' \in {"recv", "data", "send", "count", "event", "continue", "exitsend", "exit"}
      BY <1>1, <1>2, <3>3, <3>4 DEF CountType
    <3>6. QED
      BY <1>1, <3>2, <3>4, <3>5 DEF CountType, hostVars, taskVars
  <2>3. QED
    BY <2>1, <2>2, TypePartsNext
<1>16. CASE DataContinue
  <2>1. FlagType'
    BY <1>1, <1>16 DEF DataContinue, Continue, ContinuedIdle, FlagType, hostVars, histVars
  <2>2. CountType'
    BY <1>1, <1>16 DEF DataContinue, Continue, CountType, hostVars, histVars
  <2>3. QED
    BY <2>1, <2>2, TypePartsNext
<1>17. CASE ExitEvent
  <2>1. FlagType'
    BY <1>1, <1>17 DEF ExitEvent, Disable, FlagType, hostVars, taskVars
  <2>2. CountType'
    <3>1. rret <= rn
      BY <1>17 DEF IInv, ModeInv, ExitEvent
    <3>2. report' \in [done : Nat, drop : Nat, left : Nat, took : Nat, sock : Nat]
      BY <1>1, <1>17, <3>1 DEF ExitEvent, Reported, DropCount, CountType
    <3>3. /\ len' = 0 /\ cnt' = 0 /\ done' = 0 /\ drop' = 0 /\ timer' = timer /\ rpc' = "recv"
          /\ UNCHANGED <<hostVars, link, rbuf, cntExit, rn, rret, taskVars, took, sock>>
      BY <1>17 DEF ExitEvent, Disable
    <3>4. QED
      BY <1>1, <1>2, <3>2, <3>3 DEF CountType, hostVars, taskVars
  <2>3. QED
    BY <2>1, <2>2, TypePartsNext
<1>18. CASE Expire
  <2>1. FlagType'
    BY <1>1, <1>18 DEF Expire, FlagType, hostVars, recvVars, taskVars, histVars
  <2>2. CountType'
    BY <1>1, <1>18 DEF Expire, CountType, hostVars, recvVars, taskVars, histVars
  <2>3. QED
    BY <2>1, <2>2, TypePartsNext
<1>19. CASE TaskWake
  <2>1. FlagType'
    BY <1>1, <1>19 DEF TaskWake, FlagType, hostVars, modeVars, recvVars, histVars
  <2>2. CountType'
    BY <1>1, <1>19 DEF TaskWake, CountType, hostVars, modeVars, recvVars, histVars
  <2>3. QED
    BY <2>1, <2>2, TypePartsNext
<1>20. CASE TaskRun
  <2>1. FlagType'
    BY <1>1, <1>20 DEF TaskRun, FlagType, hostVars, recvVars, histVars
  <2>2. CountType'
    <3>1. dpc' \in {"wait", "timed", "tell"}
      BY <1>20 DEF TaskRun, TaskNext
    <3>2. UNCHANGED <<hostVars, link, len, cnt, done, drop, timer, recvVars, histVars>>
      BY <1>20 DEF TaskRun
    <3>3. QED
      BY <1>1, <3>1, <3>2 DEF CountType, hostVars, recvVars, histVars
  <2>3. QED
    BY <2>1, <2>2, TypePartsNext
<1>21. CASE TaskTell
  <2>1. FlagType'
    BY <1>1, <1>21 DEF TaskTell, FlagType, recvVars, histVars
  <2>2. CountType'
    BY <1>1, <1>21 DEF TaskTell, CountType, recvVars, histVars
  <2>3. QED
    BY <2>1, <2>2, TypePartsNext
<1>22. CASE UNCHANGED vars
  <2>1. FlagType'
    BY <1>1, <1>22 DEF vars, FlagType, hostVars, modeVars, recvVars, taskVars, histVars
  <2>2. CountType'
    BY <1>1, <1>22 DEF vars, CountType, hostVars, modeVars, recvVars, taskVars, histVars
  <2>3. QED
    BY <2>1, <2>2, TypePartsNext
<1>23. QED
  BY <1>3, <1>4, <1>5, <1>6, <1>7, <1>8, <1>9, <1>10, <1>11, <1>12, <1>13, <1>14, <1>15,
     <1>16, <1>17, <1>18, <1>19, <1>20, <1>21, <1>22
     DEF Next, ReceiveStep, TaskStep

-----------------------------------------------------------------------------
(* The counts.                                                              *)

\* No mode is on at first, and the host has sent nothing.
LEMMA InitIInv == Init => IInv
<1> SUFFICES ASSUME Init PROVE IInv
  OBVIOUS
<1>1. TypeOK
  <2>1. FlagType
    BY DEF Init, FlagType
  <2>2. CountType
    BY DataModeAssumption DEF Init, CountType
  <2>3. QED
    BY <2>1, <2>2, TypeParts
<1>2. ModeInv /\ CountInv
  BY DEF Init, ModeInv, CountInv, ReportExact, Settled, Pending, Taken, Leaving
<1>3. Stream \in Seq(Units) /\ Len(Stream) = 0
  <2>1. <<>> \o <<>> = <<>>
    BY EmptySeq, ConcatEmptySeq
  <2>2. QED
    BY <2>1, EmptySeq DEF Init, Stream
<1>4. \A i \in 1..Len(Stream) : FALSE
  BY <1>3
<1>5. StreamInv
  BY <1>4 DEF StreamInv
<1>6. DataLeft /\ HostInv
  BY <1>4 DEF Init, DataLeft, HostInv, DataNotParsed
<1>7. QED
  BY <1>1, <1>2, <1>5, <1>6 DEF IInv

\* What is in _buf, and what the receive task is to do with it, at each of its steps.
LEMMA ModeStep == ASSUME IInv, [Next]_vars PROVE ModeInv'
<1>1. /\ cnt \in Nat /\ len \in Nat /\ rn \in Nat /\ rret \in Nat /\ cntExit \in 0..1
      /\ Len(rbuf) \in Nat
  BY LenProperties, DataModeAssumption DEF IInv, TypeOK
<1>2. ModeInv
  BY DEF IInv
<1>3. CASE HostCommand \/ HostData \/ HostExit
  BY <1>2, <1>3 DEF HostCommand, HostData, HostExit, ModeInv, Taken, Leaving,
     modeVars, recvVars
<1>4. CASE Receive \/ ParseOther \/ Expire \/ TaskWake
  BY <1>2, <1>4 DEF Receive, ParseOther, Expire, TaskWake, ModeInv, Taken, Leaving,
     modeVars, recvVars
<1>5. CASE ParseSend
  BY <1>1, <1>2, <1>5, DataModeAssumption
     DEF ParseSend, IInv, TypeOK, ModeInv, Taken, Leaving
<1>6. CASE TestData
  BY <1>1, <1>2, <1>6 DEF TestData, MismatchCount, ModeInv, Taken, Leaving, modeVars
<1>7. CASE TestPart
  BY <1>1, <1>2, <1>7 DEF TestPart, ModeInv, Taken, Leaving, modeVars
<1>8. CASE TestExit
  BY <1>1, <1>2, <1>8 DEF TestExit, ModeInv, Taken, Leaving
<1>9. CASE DataTake
  <2>1. /\ TakeLen \in Nat
        /\ ~(pass /\ len = 0) => cnt + TakeLen <= len
        /\ pass /\ len = 0 => cnt = 0
    BY <1>9, TakeLenRange DEF DataTake
  <2>2. cntExit = 0 /\ enable
    BY <1>1, <1>2, <1>9 DEF DataTake, ModeInv
  <2>3. CASE pass /\ len = 0
    BY <1>2, <1>9, <2>1, <2>2, <2>3 DEF DataTake, ModeInv, Taken, Leaving
  <2>4. CASE ~(pass /\ len = 0)
    <3>1. /\ cnt' = cnt + TakeLen /\ rpc' = (IF cnt' < len THEN "continue" ELSE "send")
          /\ rn' = (IF cnt' < len THEN 0 ELSE len)
          /\ UNCHANGED <<enable, pass, len, done, drop, cntExit, rret>>
      BY <1>9, <2>4 DEF DataTake
    <3>2. cnt' \in Nat /\ cnt' <= len
      <4>1. cnt + TakeLen \in Nat /\ cnt + TakeLen <= len
        BY <1>1, <2>1, <2>4
      <4>2. QED
        BY <3>1, <4>1, Zenon
    <3>3. CASE cnt' < len
      BY <1>1, <2>2, <3>1, <3>2, <3>3 DEF ModeInv, Taken, Leaving
    <3>4. CASE cnt' = len
      BY <1>1, <2>2, <3>1, <3>2, <3>4 DEF ModeInv, Taken, Leaving
    <3>5. QED
      BY <1>1, <3>2, <3>3, <3>4
  <2>5. QED
    BY <2>3, <2>4
<1>10. CASE SendReturn
  BY <1>1, <1>2, <1>10 DEF SendReturn, ModeInv, Taken, Leaving, modeVars
<1>11. CASE SendCount
  BY <1>1, <1>2, <1>11 DEF SendCount, ModeInv, Taken, Leaving, histVars
<1>12. CASE SendEvent
  <2>1. rpc = "event" /\ enable /\ cntExit = 0 /\ UNCHANGED <<cntExit, rn, rret>>
    BY <1>1, <1>2, <1>12 DEF SendEvent, ModeInv
  <2>2. CASE pass
    BY <1>1, <1>2, <1>12, <2>1, <2>2 DEF SendEvent, ModeInv, Taken, Leaving, modeVars
  <2>3. CASE ~pass
    BY <1>1, <1>12, <2>1, <2>3 DEF SendEvent, Disable, ModeInv, Taken, Leaving
  <2>4. QED
    BY <2>2, <2>3
<1>13. CASE DataContinue
  BY <1>1, <1>2, <1>13 DEF DataContinue, ModeInv, Taken, Leaving
<1>14. CASE ExitEvent
  BY <1>1, <1>2, <1>14 DEF ExitEvent, Disable, ModeInv, Taken, Leaving
<1>15. CASE TaskRun \/ TaskTell
  <2>1. UNCHANGED <<enable, pass, len, cnt, done, drop, rpc, cntExit, rn, rret>>
    BY <1>15 DEF TaskRun, TaskTell, recvVars
  <2>2. idle => idle'
    BY <1>15 DEF TaskRun, TaskTell
  <2>3. QED
    BY <1>2, <2>1, <2>2 DEF ModeInv, Taken, Leaving
<1>16. CASE UNCHANGED vars
  BY <1>2, <1>16 DEF vars, ModeInv, Taken, Leaving, modeVars, recvVars
<1>17. QED
  BY <1>3, <1>4, <1>5, <1>6, <1>7, <1>8, <1>9, <1>10, <1>11, <1>12, <1>13, <1>14, <1>15,
     <1>16
     DEF Next, ReceiveStep, TaskStep

\* What the socket took, and what was taken as data, is in the counts or still to be counted.
LEMMA CountStep == ASSUME IInv, [Next]_vars PROVE CountInv'
<1>1. /\ cnt \in Nat /\ len \in Nat /\ rn \in Nat /\ rret \in Nat
      /\ done \in Nat /\ drop \in Nat /\ took \in Nat /\ sock \in Nat
  BY DataModeAssumption DEF IInv, TypeOK
<1>2. CountInv /\ ModeInv
  BY DEF IInv
<1>3. ASSUME UNCHANGED <<enable, pass, done, drop, cnt, rn, rret, took, sock, report, rpc>>
      PROVE  CountInv'
  BY <1>2, <1>3 DEF CountInv, Settled, Pending, ReportExact
<1>4. CASE HostCommand \/ HostData \/ HostExit
  BY <1>3, <1>4 DEF HostCommand, HostData, HostExit, modeVars, recvVars, histVars
<1>5. CASE Receive \/ ParseOther \/ TestPart
  BY <1>3, <1>5 DEF Receive, ParseOther, TestPart, modeVars, histVars
<1>6. CASE Expire \/ TaskWake \/ TaskRun \/ TaskTell
  BY <1>3, <1>6 DEF Expire, TaskWake, TaskRun, TaskTell, modeVars, recvVars, histVars
<1>7. CASE UNCHANGED vars
  BY <1>3, <1>7 DEF vars, modeVars, recvVars, histVars
<1>8. CASE ParseSend
  <2>1. /\ done' = 0 /\ drop' = 0 /\ cnt' = 0 /\ took' = 0 /\ sock' = 0
        /\ rpc = "recv" /\ rpc' = rpc /\ report' = report
    BY <1>8 DEF ParseSend
  <2>2. QED
    BY <1>2, <2>1 DEF CountInv, Settled, Pending, ReportExact
<1>9. CASE TestData
  <2>1. /\ rpc = "recv" /\ rpc' = "data"
        /\ UNCHANGED <<enable, pass, done, drop, cnt, took, sock, report>>
    BY <1>9 DEF TestData, modeVars, histVars
  <2>2. QED
    BY <1>2, <2>1 DEF CountInv, Settled, Pending, ReportExact
<1>10. CASE TestExit
  <2>1. /\ rpc = "recv" /\ rpc' = "exitsend"
        /\ UNCHANGED <<enable, pass, done, drop, cnt, took, sock, report>>
    BY <1>10 DEF TestExit, histVars
  <2>2. QED
    BY <1>2, <2>1 DEF CountInv, Settled, Pending, ReportExact
<1>11. CASE DataTake
  <2>1. /\ TakeLen \in Nat
        /\ ~(pass /\ len = 0) => cnt + TakeLen <= len
        /\ pass /\ len = 0 => cnt = 0
    BY <1>11, TakeLenRange DEF DataTake
  <2>2. /\ rpc = "data" /\ rpc' \in {"send", "continue"} /\ took' = took + TakeLen
        /\ UNCHANGED <<enable, pass, done, drop, sock, report>>
    BY <1>11 DEF DataTake
  <2>3. Pending' = Pending + TakeLen
    <3>1. Pending = cnt
      BY <2>2 DEF Pending
    <3>2. CASE pass /\ len = 0
      BY <1>1, <1>11, <2>1, <3>1, <3>2 DEF DataTake, Pending
    <3>3. CASE ~(pass /\ len = 0)
      <4>1. /\ cnt' = cnt + TakeLen
            /\ \/ cnt' < len /\ rpc' = "continue"
               \/ ~(cnt' < len) /\ rpc' = "send" /\ rn' = len
        BY <1>11, <3>3 DEF DataTake
      <4>2. CASE cnt' < len /\ rpc' = "continue"
        BY <3>1, <4>1, <4>2 DEF Pending
      <4>3. CASE ~(cnt' < len) /\ rpc' = "send" /\ rn' = len
        <5>1. ~(cnt + TakeLen < len)
          BY <4>1, <4>3, Zenon
        <5>2. cnt + TakeLen = len
          BY <1>1, <2>1, <3>3, <5>1
        <5>3. QED
          BY <3>1, <4>3, <5>2 DEF Pending
      <4>4. QED
        BY <4>1, <4>2, <4>3
    <3>4. QED
      BY <3>2, <3>3
  <2>4. Settled = 0 /\ Settled' = 0
    BY <2>2 DEF Settled
  <2>5. enable' => sock' = done' + Settled'
    BY <1>2, <2>2, <2>4 DEF CountInv
  <2>6. enable' => took' = done' + drop' + Pending'
    <3>1. Pending \in Nat
      BY <1>1 DEF Pending
    <3>2. (done + drop + Pending) + TakeLen = done + drop + (Pending + TakeLen)
      BY <1>1, <2>1, <3>1
    <3>3. QED
      BY <1>2, <2>2, <2>3, <3>2 DEF CountInv
  <2>7. QED
    BY <1>2, <2>2, <2>5, <2>6 DEF CountInv, ReportExact
<1>12. CASE SendReturn
  <2>1. /\ UNCHANGED <<enable, pass, done, drop, cnt, rn, took, report>>
        /\ sock' = sock + rret'
    BY <1>12 DEF SendReturn, modeVars
  <2>2. \/ rpc = "send" /\ rpc' = "count"
        \/ rpc = "exitsend" /\ rpc' = "exit"
    BY <1>12 DEF SendReturn
  <2>3. Settled = 0 /\ Settled' = rret' /\ Pending' = Pending
    BY <2>1, <2>2 DEF Settled, Pending
  <2>4. enable' => sock' = done' + Settled'
    <3>1. enable => sock = done
      BY <1>1, <1>2, <2>3 DEF CountInv
    <3>2. QED
      BY <2>1, <2>3, <3>1
  <2>5. QED
    BY <1>2, <2>1, <2>3, <2>4 DEF CountInv, ReportExact
<1>13. CASE SendCount
  <2>1. /\ rpc = "count" /\ rpc' = "event"
        /\ UNCHANGED <<enable, pass, rn, rret, took, sock, report>>
    BY <1>13 DEF SendCount, histVars
  <2>2. rret <= rn
    BY <1>2, <2>1 DEF ModeInv
  <2>3. enable => sock = done + rret /\ took = done + drop + rn
    BY <1>2, <2>1 DEF CountInv, Settled, Pending
  <2>4. CASE pass
    <3>1. cnt' = 0 /\ done' = done + rret /\ drop' = drop + (rn - rret)
      BY <1>13, <2>4 DEF SendCount, DropCount
    <3>2. Settled' = 0 /\ Pending' = 0
      BY <2>1, <2>4, <3>1 DEF Settled, Pending
    <3>3. /\ done + rret = (done + rret) + 0
          /\ done + drop + rn = (done + rret) + (drop + (rn - rret)) + 0
      BY <1>1, <2>2
    <3>4. enable' => sock' = done' + Settled' /\ took' = done' + drop' + Pending'
      BY <2>1, <2>3, <3>1, <3>2, <3>3
    <3>5. QED
      BY <1>2, <2>1, <2>4, <3>4 DEF CountInv, ReportExact
  <2>5. CASE ~pass
    <3>1. UNCHANGED <<cnt, done, drop>>
      BY <1>13, <2>5 DEF SendCount
    <3>2. cnt = len /\ rn = len
      BY <1>2, <2>1, <2>5 DEF ModeInv, Taken
    <3>3. Settled' = rret /\ Pending' = rn
      BY <2>1, <2>5, <3>1, <3>2 DEF Settled, Pending
    <3>4. QED
      BY <1>2, <2>1, <2>3, <3>1, <3>3 DEF CountInv, ReportExact
  <2>6. QED
    BY <2>4, <2>5
<1>14. CASE SendEvent
  <2>1. rpc = "event" /\ enable /\ rret <= rn /\ UNCHANGED <<rn, rret, took, sock>>
    BY <1>2, <1>14 DEF SendEvent, ModeInv
  <2>2. CASE pass
    <3>1. /\ rpc' = "continue" /\ report' = report
          /\ UNCHANGED <<enable, pass, done, drop, cnt>>
      BY <1>14, <2>2 DEF SendEvent, modeVars
    <3>2. Settled' = Settled /\ Pending' = Pending
      BY <2>1, <2>2, <3>1 DEF Settled, Pending
    <3>3. QED
      BY <1>2, <2>1, <3>1, <3>2 DEF CountInv, ReportExact
  <2>3. CASE ~pass
    <3>1. /\ enable' = FALSE /\ done' = 0 /\ drop' = 0
          /\ report' = [done |-> rret, drop |-> rn - rret, left |-> 0,
                       took |-> took, sock |-> sock]
      BY <1>14, <2>3 DEF SendEvent, Disable, Reported
    <3>2. sock = 0 + rret /\ took = 0 + 0 + cnt /\ cnt = rn
      BY <1>2, <2>1, <2>3 DEF CountInv, Settled, Pending, ModeInv, Taken
    <3>3. sock = rret /\ took = rret + (rn - rret) + 0
      BY <1>1, <3>2
    <3>4. ReportExact'
      BY <3>1, <3>3 DEF ReportExact
    <3>5. QED
      BY <3>1, <3>4 DEF CountInv
  <2>4. QED
    BY <2>2, <2>3
<1>15. CASE DataContinue
  <2>1. /\ rpc = "continue" /\ rpc' = "recv"
        /\ UNCHANGED <<enable, pass, done, drop, cnt, took, sock, report>>
    BY <1>15 DEF DataContinue, histVars
  <2>2. QED
    BY <1>2, <2>1 DEF CountInv, Settled, Pending, ReportExact
<1>16. CASE ExitEvent
  <2>1. /\ rpc = "exit" /\ enable /\ rret <= rn /\ rn = IF pass THEN cnt ELSE 0
        /\ enable' = FALSE /\ done' = 0 /\ drop' = 0
    BY <1>2, <1>16 DEF ExitEvent, Disable, ModeInv, Leaving
  <2>2. CASE pass
    <3>1. report' = [done |-> done + rret, drop |-> drop + (rn - rret), left |-> 0,
                     took |-> took, sock |-> sock]
      BY <1>16, <2>2 DEF ExitEvent, Reported, DropCount
    <3>2. sock = done + rret /\ took = done + drop + cnt /\ cnt = rn
      BY <1>2, <2>1, <2>2 DEF CountInv, Settled, Pending
    <3>3. took = (done + rret) + (drop + (rn - rret)) + 0
      BY <1>1, <2>1, <3>2
    <3>4. ReportExact'
      BY <3>1, <3>2, <3>3 DEF ReportExact
    <3>5. QED
      BY <2>1, <3>4 DEF CountInv
  <2>3. CASE ~pass
    <3>1. report' = [done |-> done, drop |-> drop, left |-> cnt, took |-> took, sock |-> sock]
      BY <1>16, <2>3 DEF ExitEvent, Reported
    <3>2. done = 0 /\ drop = 0 /\ sock = 0 + rret /\ took = 0 + 0 + cnt
      BY <1>2, <2>1, <2>3 DEF CountInv, Settled, Pending
    <3>3. sock = 0 /\ took = 0 + 0 + cnt
      BY <1>1, <2>1, <2>3, <3>2
    <3>4. ReportExact'
      BY <1>1, <3>1, <3>2, <3>3 DEF ReportExact
    <3>5. QED
      BY <2>1, <3>4 DEF CountInv
  <2>4. QED
    BY <2>2, <2>3
<1>17. QED
  BY <1>4, <1>5, <1>6, <1>7, <1>8, <1>9, <1>10, <1>11, <1>12, <1>13, <1>14, <1>15, <1>16
     DEF Next, ReceiveStep, TaskStep

-----------------------------------------------------------------------------
(* Where data goes.                                                         *)

Delivery == StreamInv /\ DataLeft /\ HostInv

\* A step that takes nothing from the stream.
LEMMA TakeNone == ASSUME IInv, Stream' = Stream PROVE TakenOff(0)
<1>1. Len(Stream) \in Nat
  BY Front DEF IInv
<1>2. \A n \in Nat : n - 0 = n /\ \A i \in 1..n : i + 0 = i
  OBVIOUS
<1>3. Len(Stream') = Len(Stream) - 0
  BY <1>1, <1>2, Zenon
<1>4. \A i \in 1..Len(Stream') : Stream'[i] = Stream[i + 0]
  BY <1>1, <1>2, Zenon
<1>5. QED
  BY <1>3, <1>4 DEF TakenOff

\* A step of the target that takes k units, no fewer than it adds to _buf, ends no mode
\* and starts none.
LEMMA TakeStep ==
  ASSUME IInv, NEW k \in Nat, k <= Len(rbuf), TakenOff(k),
         UNCHANGED <<hpc, hpass, hlen, hleft, enable, pass, len, parsed>>,
         ~pass => cnt' \in Nat /\ cnt' <= cnt + k,
         Leaving' => Leaving
  PROVE  Delivery'
<1> DEFINE n == Len(Stream)
           m == Len(Stream')
           room == len - cnt'
<1>1. n \in Nat /\ k <= n /\ len \in Nat /\ cnt \in Nat /\ hleft \in Nat
  BY Front, DataModeAssumption DEF IInv, TypeOK
<1>2. m = n - k /\ \A i \in 1..m : Stream'[i] = Stream[i + k]
  BY DEF TakenOff
<1>3. StreamInv'
  BY <1>1, RestOrdered DEF IInv
<1>4. ~pass => room \in Int /\ len - cnt <= room + k
  BY <1>1
<1>5. /\ enable /\ ~pass => \A i \in 1..n : Stream[i] \in Data => i <= len - cnt
      /\ hpc = "data" /\ ~hpass => hleft >= 1 /\ n + hleft <= len - cnt
  BY DEF IInv, DataLeft, HostInv
<1> HIDE DEF n, m, room
<1>6. \A i \in 1..m : i + k \in 1..n
  BY <1>1, <1>2
<1>7. ASSUME enable, ~pass, NEW i \in 1..m, Stream'[i] \in Data PROVE i <= room
  <2>1. i + k <= len - cnt
    BY <1>2, <1>5, <1>6, <1>7
  <2>2. QED
    BY <1>1, <1>4, <1>7, <1>2, <2>1
<1>8. ASSUME ~enable \/ Leaving, NEW i \in 1..m PROVE Stream'[i] \notin Data
  BY <1>2, <1>6, <1>8 DEF IInv, DataLeft, n
<1>9. DataLeft'
  <2>1. ~enable' \/ Leaving' => ~enable \/ Leaving
    OBVIOUS
  <2>2. ~enable' \/ Leaving' => hpc' # "data"
    BY <2>1 DEF IInv, DataLeft
  <2>3. ~enable' \/ Leaving' => \A i \in 1..m : Stream'[i] \notin Data
    BY <1>8, <2>1
  <2>4. enable' /\ ~pass' => \A i \in 1..m : Stream'[i] \in Data => i <= room
    BY <1>7
  <2>5. room = len' - cnt'
    BY DEF room
  <2>6. QED
    BY <2>2, <2>3, <2>4, <2>5 DEF DataLeft, m
<1>10. ASSUME hpc = "data", ~hpass PROVE hleft >= 1 /\ m + hleft <= room
  <2>1. ~pass
    BY <1>10 DEF IInv, HostInv
  <2>2. QED
    BY <1>1, <1>2, <1>4, <1>5, <1>10, <2>1
<1>11. ASSUME hpc = "data", NEW i \in 1..m PROVE Stream'[i] \in Data
  BY <1>2, <1>6, <1>11 DEF IInv, HostInv, n
<1>12. HostInv'
  <2>1. hpc' = "ok" /\ hlen' = 0 => hpass'
    BY DEF IInv, HostInv
  <2>2. hpc' = "data" => pass' = hpass' /\ \A i \in 1..m : Stream'[i] \in Data
    BY <1>11 DEF IInv, HostInv
  <2>3. hpc' = "data" /\ ~hpass' => hleft' >= 1 /\ m + hleft' <= room
    BY <1>10
  <2>4. DataNotParsed'
    BY DEF IInv, HostInv, DataNotParsed
  <2>5. room = len' - cnt'
    BY DEF room
  <2>6. QED
    BY <2>1, <2>2, <2>3, <2>4, <2>5 DEF HostInv, m
<1>13. QED
  BY <1>3, <1>9, <1>12 DEF Delivery

\* At the end of a mode, and while none is on, there is no data on the way.
LEMMA NoDataStep ==
  ASSUME IInv, NEW k \in Nat, k <= Len(rbuf), TakenOff(k),
         \A i \in 1..Len(Stream) : Stream[i] \notin Data,
         hpc # "data", hpc' = hpc \/ (hpc = "exit" /\ hpc' = "command"),
         UNCHANGED <<hpass, hlen, parsed>>
  PROVE  Delivery'
<1> DEFINE n == Len(Stream)
           m == Len(Stream')
<1>1. n \in Nat /\ k <= n
  BY Front DEF IInv
<1>2. m = n - k /\ \A i \in 1..m : Stream'[i] = Stream[i + k]
  BY DEF TakenOff
<1>3. \A i \in 1..n : Stream[i] = "cmd" => hpc = "ok"
  BY DEF IInv, StreamInv
<1> HIDE DEF n, m
<1>4. \A i \in 1..m : i + k \in 1..n
  BY <1>1, <1>2
<1>5. \A i \in 1..m : Stream'[i] \notin Data
  BY <1>2, <1>4 DEF n
<1>6. hpc' = hpc \/ \A i \in 1..m : Stream'[i] # "cmd"
  BY <1>2, <1>3, <1>4
<1>7. StreamInv'
  BY <1>1, <1>6, RestOrdered DEF IInv, n, m
<1>8. DataLeft'
  BY <1>5 DEF DataLeft, m
<1>9. HostInv'
  <2>1. hpc' # "data" /\ (hpc' = "ok" => hpc = "ok")
    OBVIOUS
  <2>2. QED
    BY <2>1 DEF IInv, HostInv, DataNotParsed
<1>10. QED
  BY <1>7, <1>8, <1>9 DEF Delivery

\* AT+SSEND is the last unit on the way until it is answered.
LEMMA HostCommandDelivery == ASSUME IInv, HostCommand PROVE Delivery'
<1> DEFINE n == Len(Stream)
           m == Len(Stream')
<1>1. /\ hpc = "command" /\ hpc' = "ok" /\ (hlen' = 0 => hpass')
      /\ link' = Append(link, "cmd") /\ rbuf' = rbuf
      /\ UNCHANGED <<enable, pass, len, cnt, rpc, parsed>>
  BY DEF HostCommand, modeVars, recvVars, histVars
<1>2. m = n + 1 /\ (\A i \in 1..n : Stream'[i] = Stream[i]) /\ Stream'[n + 1] = "cmd"
  BY <1>1, AddOne DEF IInv, Units
<1>3. n \in Nat /\ "cmd" \notin Data
  BY Front DEF IInv, Data
<1>4. /\ \A i, j \in 1..n : i < j /\ Stream[j] \in Data => Stream[i] \in Data
      /\ \A i \in 1..n : Stream[i] = "exit2" => i = 1 \/ Stream[i - 1] = "exit1"
      /\ \A i \in 1..n : Stream[i] # "cmd"
      /\ ~enable \/ Leaving => \A i \in 1..n : Stream[i] \notin Data
      /\ enable /\ ~pass => \A i \in 1..n : Stream[i] \in Data => i <= len - cnt
  BY <1>1 DEF IInv, StreamInv, DataLeft
<1> HIDE DEF n, m
<1>5. \A i \in 1..m : i \in 1..n \/ i = n + 1
  BY <1>2, <1>3
<1>6. \A i, j \in 1..m : i < j /\ Stream'[j] \in Data => Stream'[i] \in Data
  <2>1. ASSUME NEW i \in 1..m, NEW j \in 1..m, i < j, Stream'[j] \in Data
        PROVE  Stream'[i] \in Data
    <3>1. j \in 1..n
      BY <1>2, <1>3, <1>5, <2>1
    <3>2. i \in 1..n
      BY <1>2, <1>3, <2>1, <3>1
    <3>3. QED
      BY <1>2, <1>4, <2>1, <3>1, <3>2
  <2>2. QED
    BY <2>1
<1>7. ASSUME NEW i \in 1..m, Stream'[i] = "exit2" PROVE i = 1 \/ Stream'[i - 1] = "exit1"
  <2>1. i \in 1..n
    BY <1>2, <1>5, <1>7
  <2>2. i # 1 => i - 1 \in 1..n
    BY <1>3, <2>1
  <2>3. QED
    BY <1>2, <1>4, <1>7, <2>1, <2>2
<1>8. ASSUME NEW i \in 1..m, Stream'[i] = "cmd" PROVE i = m
  BY <1>2, <1>4, <1>5, <1>8
<1>9. StreamInv'
  BY <1>1, <1>6, <1>7, <1>8 DEF StreamInv, m
<1>10. DataLeft'
  <2>1. ASSUME ~enable \/ Leaving, NEW i \in 1..m PROVE Stream'[i] \notin Data
    BY <1>2, <1>3, <1>4, <1>5, <2>1
  <2>2. ASSUME enable, ~pass, NEW i \in 1..m, Stream'[i] \in Data PROVE i <= len - cnt
    BY <1>2, <1>3, <1>4, <1>5, <2>2
  <2>3. Leaving' => Leaving
    BY <1>1 DEF Leaving
  <2>4. QED
    BY <1>1, <2>1, <2>2, <2>3 DEF DataLeft, m
<1>11. HostInv'
  BY <1>1 DEF IInv, HostInv, DataNotParsed
<1>12. QED
  BY <1>9, <1>10, <1>11 DEF Delivery

\* Data is added only in a mode that takes it.
LEMMA HostDataDelivery == ASSUME IInv, HostData PROVE Delivery'
<1> DEFINE n == Len(Stream)
           m == Len(Stream')
<1>1. /\ hpc = "data" /\ rbuf' = rbuf
      /\ hleft' = IF hpass THEN hleft ELSE hleft - 1
      /\ hpc' = IF ~hpass /\ hleft = 1 THEN "command" ELSE "data"
      /\ UNCHANGED <<hpass, hlen, enable, pass, len, cnt, rpc, parsed>>
  BY DEF HostData, modeVars, recvVars, histVars
<1>2. PICK u \in Data : link' = Append(link, u)
  BY DEF HostData
<1>3. m = n + 1 /\ (\A i \in 1..n : Stream'[i] = Stream[i]) /\ Stream'[n + 1] = u
  BY <1>1, <1>2, AddOne DEF IInv, Units
<1>4. /\ n \in Nat /\ len \in Nat /\ cnt \in Nat /\ hleft \in Nat
      /\ "exit2" \notin Data /\ "cmd" \notin Data
  BY Front, DataModeAssumption DEF IInv, TypeOK, Data
<1>5. /\ enable /\ ~Leaving /\ pass = hpass
      /\ \A i \in 1..n : Stream[i] \in Data
      /\ ~hpass => hleft >= 1 /\ n + hleft <= len - cnt
  BY <1>1 DEF IInv, DataLeft, HostInv
<1> HIDE DEF n, m
<1>6. \A i \in 1..m : Stream'[i] \in Data
  <2>1. \A i \in 1..m : i \in 1..n \/ i = n + 1
    BY <1>3, <1>4
  <2>2. QED
    BY <1>2, <1>3, <1>5, <2>1
<1>7. StreamInv'
  BY <1>4, <1>6 DEF StreamInv, m
<1>8. ~hpass => m <= len - cnt /\ m + (hleft - 1) <= len - cnt
  BY <1>3, <1>4, <1>5
<1>9. DataLeft'
  <2>1. enable' /\ ~Leaving'
    BY <1>1, <1>5 DEF Leaving
  <2>2. enable' /\ ~pass' => \A i \in 1..m : i <= len - cnt
    BY <1>1, <1>3, <1>4, <1>5, <1>8
  <2>3. QED
    BY <1>1, <2>1, <2>2 DEF DataLeft, m
<1>10. HostInv'
  <2>1. hpc' = "data" /\ ~hpass => hleft' = hleft - 1 /\ hleft # 1
    BY <1>1
  <2>2. hpc' = "data" /\ ~hpass => hleft - 1 >= 1
    BY <1>4, <1>5, <2>1
  <2>3. hpc' = "data" /\ ~hpass' => hleft' >= 1 /\ m + hleft' <= len' - cnt'
    BY <1>1, <1>8, <2>1, <2>2
  <2>4. hpc' = "data" => pass' = hpass' /\ \A i \in 1..m : Stream'[i] \in Data
    BY <1>1, <1>5, <1>6
  <2>5. hpc' # "ok" /\ DataNotParsed'
    BY <1>1 DEF IInv, HostInv, DataNotParsed
  <2>6. QED
    BY <2>3, <2>4, <2>5 DEF HostInv, m
<1>11. QED
  BY <1>7, <1>9, <1>10 DEF Delivery

\* The exit command is added whole, after all data.
LEMMA HostExitDelivery == ASSUME IInv, HostExit PROVE Delivery'
<1> DEFINE n == Len(Stream)
           m == Len(Stream')
           new == <<"exit1", "exit2">>
<1>1. /\ hpc # "ok" /\ hpc' = "exit" /\ link' = link \o new /\ rbuf' = rbuf
      /\ UNCHANGED <<enable, pass, len, cnt, rpc, parsed>>
  BY DEF HostExit, modeVars, recvVars, histVars
<1>2. new \in Seq(Units) /\ Len(new) = 2 /\ new[1] = "exit1" /\ new[2] = "exit2"
  BY DEF Units
<1> HIDE DEF new
<1>3. /\ m = n + Len(new)
      /\ \A i \in 1..n : Stream'[i] = Stream[i]
      /\ \A i \in 1..Len(new) : Stream'[n + i] = new[i]
  BY <1>1, <1>2, AddOn DEF IInv
<1>4. m = n + 2 /\ Stream'[n + 1] = "exit1" /\ Stream'[n + 2] = "exit2"
  <2>1. 1 \in 1..Len(new) /\ 2 \in 1..Len(new)
    BY <1>2
  <2>2. QED
    BY <1>2, <1>3, <2>1
<1>5. n \in Nat /\ "exit1" \notin Data /\ "exit2" \notin Data
  BY Front DEF IInv, Data
<1>6. /\ \A i, j \in 1..n : i < j /\ Stream[j] \in Data => Stream[i] \in Data
      /\ \A i \in 1..n : Stream[i] = "exit2" => i = 1 \/ Stream[i - 1] = "exit1"
      /\ \A i \in 1..n : Stream[i] # "cmd"
      /\ ~enable \/ Leaving => \A i \in 1..n : Stream[i] \notin Data
      /\ enable /\ ~pass => \A i \in 1..n : Stream[i] \in Data => i <= len - cnt
  BY <1>1 DEF IInv, StreamInv, DataLeft
<1> HIDE DEF n, m
<1>7. \A i \in 1..m : i \in 1..n \/ i = n + 1 \/ i = n + 2
  BY <1>4, <1>5
<1>8. \A i, j \in 1..m : i < j /\ Stream'[j] \in Data => Stream'[i] \in Data
  <2>1. ASSUME NEW i \in 1..m, NEW j \in 1..m, i < j, Stream'[j] \in Data
        PROVE  Stream'[i] \in Data
    <3>1. j \in 1..n
      BY <1>4, <1>5, <1>7, <2>1
    <3>2. i \in 1..n
      BY <1>5, <2>1, <3>1
    <3>3. QED
      BY <1>3, <1>6, <2>1, <3>1, <3>2
  <2>2. QED
    BY <2>1
<1>9. ASSUME NEW i \in 1..m, Stream'[i] = "exit2" PROVE i = 1 \/ Stream'[i - 1] = "exit1"
  <2>1. CASE i \in 1..n
    <3>1. i # 1 => i - 1 \in 1..n
      BY <1>5, <2>1
    <3>2. QED
      BY <1>3, <1>6, <1>9, <2>1, <3>1
  <2>2. CASE i = n + 1
    BY <1>4, <1>9, <2>2
  <2>3. CASE i = n + 2
    <3>1. i - 1 = n + 1
      BY <1>5, <2>3
    <3>2. QED
      BY <1>4, <3>1
  <2>4. QED
    BY <1>7, <2>1, <2>2, <2>3
<1>10. ASSUME NEW i \in 1..m PROVE Stream'[i] # "cmd"
  BY <1>3, <1>4, <1>6, <1>7
<1>11. StreamInv'
  BY <1>8, <1>9, <1>10 DEF StreamInv, m
<1>12. DataLeft'
  <2>1. ASSUME ~enable \/ Leaving, NEW i \in 1..m PROVE Stream'[i] \notin Data
    BY <1>3, <1>4, <1>5, <1>6, <1>7, <2>1
  <2>2. ASSUME enable, ~pass, NEW i \in 1..m, Stream'[i] \in Data PROVE i <= len - cnt
    BY <1>3, <1>4, <1>5, <1>6, <1>7, <2>2
  <2>3. Leaving' => Leaving
    BY <1>1 DEF Leaving
  <2>4. QED
    BY <1>1, <2>1, <2>2, <2>3 DEF DataLeft, m
<1>13. HostInv'
  BY <1>1 DEF IInv, HostInv, DataNotParsed
<1>14. QED
  BY <1>11, <1>12, <1>13 DEF Delivery

\* What is taken off the front of the buffer, one unit at a time or none.
LEMMA TakeHead ==
  ASSUME IInv, rbuf # <<>>, rbuf' = Tail(rbuf), link' = link
  PROVE  /\ TakenOff(1) /\ 1 <= Len(rbuf) /\ Len(Stream) \in Nat
         /\ 1 \in 1..Len(Stream) /\ Stream[1] = Head(rbuf)
<1>1. rbuf \in Seq(Units) /\ TypeOK
  BY DEF IInv, TypeOK, Units
<1>2. 1 <= Len(rbuf) /\ Head(rbuf) = rbuf[1] /\ 1 \in 1..Len(rbuf)
  BY <1>1
<1>3. rbuf' = SubSeq(rbuf, 1 + 1, Len(rbuf))
  <2>1. \A r \in Seq(Units) : r # <<>> => Tail(r) = SubSeq(r, 1 + 1, Len(r))
    BY SMT
  <2>2. QED
    BY <1>1, <2>1
<1>4. TakenOff(1)
  BY <1>1, <1>2, <1>3, TakeOff
<1>5. QED
  BY <1>1, <1>2, <1>4, Front

\* Every step of the receive task's parser.
LEMMA ParseSendDelivery == ASSUME IInv, ParseSend PROVE Delivery'
<1>1. /\ ~enable /\ Head(rbuf) = "cmd" /\ rbuf # <<>> /\ rbuf' = Tail(rbuf) /\ link' = link
      /\ enable' /\ pass' = hpass /\ len' = hlen /\ cnt' = 0 /\ hleft' = hlen
      /\ UNCHANGED <<hpass, hlen, rpc, parsed>>
      /\ rpc = "recv"
  BY DEF ParseSend
<1>2. /\ TakenOff(1) /\ Len(Stream) \in Nat /\ 1 \in 1..Len(Stream) /\ Stream[1] = "cmd"
  BY <1>1, TakeHead
<1>3. Len(Stream) = 1 /\ hpc = "ok"
  BY <1>2 DEF IInv, StreamInv
<1>4. Len(Stream') = 0
  BY <1>2, <1>3 DEF TakenOff
<1>5. \A i \in 1..Len(Stream') : FALSE
  BY <1>4
<1>6. StreamInv' /\ DataLeft'
  <2>1. ~Leaving'
    BY <1>1 DEF Leaving
  <2>2. QED
    BY <1>1, <1>5, <2>1 DEF StreamInv, DataLeft
<1>7. hlen \in Nat /\ (hlen = 0 => hpass)
  BY <1>3, DataModeAssumption DEF IInv, TypeOK, HostInv
<1>8. ~hpass => hlen >= 1 /\ 0 + hlen <= hlen - 0
  BY <1>7
<1>9. ~hpass => hleft' >= 1 /\ Len(Stream') + hleft' <= len' - cnt'
  BY <1>1, <1>4, <1>8
<1>10. HostInv'
  <2>1. DataNotParsed' /\ (hlen' = 0 => hpass')
    BY <1>1, <1>7 DEF IInv, HostInv, DataNotParsed
  <2>2. QED
    BY <1>1, <1>5, <1>9, <2>1 DEF HostInv
<1>11. QED
  BY <1>6, <1>10 DEF Delivery

\* What is read while no mode is on is never data.
LEMMA ParseOtherDelivery == ASSUME IInv, ParseOther PROVE Delivery'
<1>1. /\ ~enable /\ rbuf # <<>> /\ rbuf' = Tail(rbuf) /\ link' = link
      /\ parsed' = (parsed \/ Head(rbuf) \in Data)
      /\ hpc' = hpc \/ (hpc = "exit" /\ hpc' = "command")
      /\ UNCHANGED <<hpass, hlen>>
  <2>1. hpc' \in {hpc, IF hpc = "exit" THEN "command" ELSE hpc}
    BY DEF ParseOther
  <2>2. QED
    BY <2>1 DEF ParseOther
<1>2. /\ TakenOff(1) /\ 1 <= Len(rbuf) /\ 1 \in 1..Len(Stream) /\ Stream[1] = Head(rbuf)
  BY <1>1, TakeHead
<1>3. hpc # "data" /\ \A i \in 1..Len(Stream) : Stream[i] \notin Data
  BY <1>1 DEF IInv, DataLeft
<1>4. Head(rbuf) \notin Data
  BY <1>2, <1>3
<1>5. parsed' = parsed
  <2>1. parsed \in BOOLEAN /\ ~parsed
    BY DEF IInv, TypeOK, HostInv, DataNotParsed
  <2>2. parsed' = FALSE /\ parsed = FALSE
    BY <1>1, <1>4, <2>1
  <2>3. QED
    BY <2>2
<1>6. QED
  BY <1>1, <1>2, <1>3, <1>5, NoDataStep

\* The exit command is no part of the data: what looks like its start is followed by data or
\* by a whole exit command.
LEMMA ExitNoData ==
  ASSUME IInv, TestExit
  PROVE  /\ hpc # "data" /\ \A i \in 1..Len(Stream) : Stream[i] \notin Data
<1> DEFINE n == Len(Stream)
<1>1. /\ cntExit \in 0..1 /\ Len(rbuf) \in Nat /\ n \in Nat
      /\ \A i \in 1..Len(rbuf) : i \in 1..n /\ Stream[i] = rbuf[i]
  BY Front DEF IInv, TypeOK
<1>2. /\ 2 - cntExit <= Len(rbuf)
      /\ \A i \in 1..(2 - cntExit) : Looks(rbuf[i], cntExit + i - 1)
  BY DEF TestExit, ExitMatch, Matches
<1>3. StreamInv
  BY DEF IInv
<1> HIDE DEF n
<1>4. 1 \in 1..n /\ Stream[1] \notin Data
  <2>1. CASE cntExit = 1
    <3>1. 1 \in 1..Len(rbuf) /\ 1 \in 1..(2 - cntExit) /\ cntExit + 1 - 1 = 1
      BY <1>1, <1>2, <2>1
    <3>2. Looks(rbuf[1], 1)
      BY <1>2, <3>1
    <3>3. Stream[1] = "exit2"
      BY <1>1, <3>1, <3>2 DEF Looks
    <3>4. QED
      BY <1>1, <3>1, <3>3 DEF Data
  <2>2. CASE cntExit = 0
    <3>1. /\ 1 \in 1..Len(rbuf) /\ 1 \in 1..(2 - cntExit) /\ cntExit + 1 - 1 = 0
          /\ 2 \in 1..Len(rbuf) /\ 2 \in 1..(2 - cntExit) /\ cntExit + 2 - 1 = 1
      BY <1>1, <1>2, <2>2
    <3>2. Looks(rbuf[1], 0) /\ Looks(rbuf[2], 1)
      BY <1>2, <3>1
    <3>3. Stream[2] = "exit2" /\ 2 \in 1..n
      BY <1>1, <3>1, <3>2 DEF Looks
    <3>4. Stream[2 - 1] = "exit1"
      BY <1>3, <3>3 DEF StreamInv, n
    <3>5. Stream[1] = "exit1"
      BY <3>4
    <3>6. QED
      BY <1>1, <3>1, <3>5 DEF Data
  <2>3. QED
    BY <1>1, <2>1, <2>2
<1>5. \A i \in 1..n : Stream[i] \notin Data
  <2>1. ASSUME NEW i \in 1..n, Stream[i] \in Data PROVE FALSE
    <3>1. i # 1
      BY <1>4, <2>1
    <3>2. 1 < i
      BY <1>1, <3>1
    <3>3. Stream[1] \in Data
      BY <1>3, <1>4, <2>1, <3>2 DEF StreamInv, n
    <3>4. QED
      BY <1>4, <3>3
  <2>2. QED
    BY <2>1
<1>6. hpc # "data"
  BY <1>4 DEF IInv, HostInv, n
<1>7. QED
  BY <1>5, <1>6 DEF n

\* The exit command ends the mode after its data.
LEMMA TestExitDelivery == ASSUME IInv, TestExit PROVE Delivery'
<1> DEFINE k == 1 - cntExit
<1>1. cntExit \in 0..1 /\ Len(rbuf) \in Nat /\ TypeOK
  BY Front DEF IInv, TypeOK
<1>2. 2 - cntExit <= Len(rbuf)
  BY DEF TestExit, ExitMatch, Matches
<1>3. k \in Nat /\ k <= Len(rbuf) /\ k + 1 = 2 - cntExit
  BY <1>1, <1>2
<1>4. rbuf' = SubSeq(rbuf, k + 1, Len(rbuf)) /\ link' = link
  BY <1>3 DEF TestExit
<1>5. /\ hpc' = hpc \/ (hpc = "exit" /\ hpc' = "command")
      /\ UNCHANGED <<hpass, hlen, parsed>>
  <2>1. hpc' = IF hpc = "exit" THEN "command" ELSE hpc
    BY DEF TestExit
  <2>2. UNCHANGED <<hpass, hlen, parsed>>
    BY DEF TestExit, histVars
  <2>3. QED
    BY <2>1, <2>2
<1> HIDE DEF k
<1>6. TakenOff(k)
  BY <1>1, <1>3, <1>4, TakeOff
<1>7. QED
  BY <1>3, <1>5, <1>6, ExitNoData, NoDataStep

\* A buffer that is too short to be the exit command, and its start, is taken whole.
LEMMA TestPartDelivery == ASSUME IInv, TestPart PROVE Delivery'
<1> DEFINE k == Len(rbuf)
<1>1. k \in Nat /\ TypeOK /\ rbuf \in Seq(Units)
  BY Front DEF IInv, TypeOK, Units
<1>2. rbuf' = SubSeq(rbuf, k + 1, Len(rbuf)) /\ link' = link
  <2>1. \A r \in Seq(Units) : SubSeq(r, Len(r) + 1, Len(r)) = <<>>
    BY SMT
  <2>2. QED
    BY <1>1, <2>1 DEF TestPart
<1>3. /\ UNCHANGED <<hpc, hpass, hlen, hleft, enable, pass, len, cnt, parsed, rpc>>
  BY DEF TestPart, hostVars, modeVars, histVars
<1>4. cnt \in Nat /\ cnt <= cnt + k
  BY <1>1 DEF IInv, TypeOK
<1> HIDE DEF k
<1>5. TakenOff(k) /\ k <= Len(rbuf)
  <2>1. k <= Len(rbuf)
    BY <1>1 DEF k
  <2>2. QED
    BY <1>1, <1>2, <2>1, TakeOff
<1>6. Leaving' => Leaving
  BY <1>3 DEF Leaving
<1>7. cnt' \in Nat /\ cnt' <= cnt + k
  BY <1>3, <1>4, Zenon
<1>8. QED
  BY <1>1, <1>3, <1>5, <1>6, <1>7, TakeStep

\* No more is taken than the mode still takes.
LEMMA DataTakeDelivery == ASSUME IInv, DataTake PROVE Delivery'
<1> DEFINE k == TakeLen
<1>1. /\ k \in Nat /\ k <= Len(rbuf)
      /\ ~(pass /\ len = 0) => cnt + k <= len
  BY TakeLenRange DEF DataTake
<1>2. TypeOK /\ rbuf' = SubSeq(rbuf, k + 1, Len(rbuf)) /\ link' = link
  BY DEF IInv, DataTake
<1>3. /\ UNCHANGED <<hpc, hpass, hlen, hleft, enable, pass, len, parsed>>
      /\ rpc' \in {"send", "continue"}
      /\ ~(pass /\ len = 0) => cnt' = cnt + k
  BY DEF DataTake, hostVars
<1> HIDE DEF k
<1>4. TakenOff(k)
  BY <1>1, <1>2, TakeOff
<1>5. ~Leaving'
  BY <1>3 DEF Leaving
<1>6. ~pass => cnt' \in Nat /\ cnt' <= cnt + k
  <2>1. cnt + k \in Nat /\ cnt + k <= cnt + k
    BY <1>1 DEF IInv, TypeOK
  <2>2. QED
    BY <1>3, <2>1
<1>7. QED
  BY <1>1, <1>3, <1>4, <1>5, <1>6, TakeStep

\* A mode ends without data left: the host owed the mode no more than it took.
LEMMA SendEventDelivery == ASSUME IInv, SendEvent PROVE Delivery'
<1>1. /\ rpc = "event" /\ rbuf' = rbuf /\ link' = link
      /\ UNCHANGED <<hpc, hpass, hlen, hleft, parsed>>
  BY DEF SendEvent, hostVars
<1>2. TakenOff(0) /\ 0 \in Nat /\ 0 <= Len(rbuf)
  <2>1. Stream' = Stream
    BY <1>1 DEF Stream
  <2>2. QED
    BY <2>1, TakeNone, Front DEF IInv
<1>3. CASE pass
  <2>1. /\ UNCHANGED <<enable, pass, len>> /\ rpc' = "continue"
    BY <1>3 DEF SendEvent, modeVars
  <2>2. ~Leaving'
    BY <2>1 DEF Leaving
  <2>3. QED
    BY <1>1, <1>2, <1>3, <2>1, <2>2, TakeStep
<1>4. CASE ~pass
  <2>1. cnt = len /\ enable /\ len \in Nat
    BY <1>1, <1>4, DataModeAssumption DEF IInv, TypeOK, ModeInv, Taken
  <2>2. \A i \in 1..Len(Stream) : Stream[i] \notin Data
    <3>1. \A i \in 1..Len(Stream) : Stream[i] \in Data => i <= len - cnt
      BY <1>4, <2>1 DEF IInv, DataLeft
    <3>2. Len(Stream) \in Nat
      BY Front DEF IInv
    <3>3. QED
      BY <2>1, <3>1, <3>2
  <2>3. hpc # "data"
    <3>1. hpc = "data" => hleft >= 1 /\ Len(Stream) + hleft <= len - cnt
      BY <1>4 DEF IInv, HostInv
    <3>2. Len(Stream) \in Nat /\ hleft \in Nat
      BY Front, DataModeAssumption DEF IInv, TypeOK
    <3>3. QED
      BY <2>1, <3>1, <3>2
  <2>4. QED
    BY <1>1, <1>2, <2>2, <2>3, NoDataStep
<1>5. QED
  BY <1>3, <1>4

\* The mode is left with SEND_EXIT.
LEMMA ExitEventDelivery == ASSUME IInv, ExitEvent PROVE Delivery'
<1>1. /\ rpc = "exit" /\ rbuf' = rbuf /\ link' = link
      /\ UNCHANGED <<hpc, hpass, hlen, hleft, parsed>>
  BY DEF ExitEvent, hostVars
<1>2. TakenOff(0) /\ 0 \in Nat /\ 0 <= Len(rbuf)
  <2>1. Stream' = Stream
    BY <1>1 DEF Stream
  <2>2. QED
    BY <2>1, TakeNone, Front DEF IInv
<1>3. hpc # "data" /\ \A i \in 1..Len(Stream) : Stream[i] \notin Data
  BY <1>1 DEF IInv, DataLeft, Leaving
<1>4. QED
  BY <1>1, <1>2, <1>3, NoDataStep

\* Every other step leaves the stream and the mode as they are.
LEMMA QuietDelivery ==
  ASSUME IInv, Stream' = Stream,
         UNCHANGED <<hpc, hpass, hlen, hleft, enable, pass, len, parsed>>,
         ~pass => cnt' = cnt, Leaving' => Leaving
  PROVE  Delivery'
<1>1. TakenOff(0) /\ 0 \in Nat /\ 0 <= Len(rbuf)
  BY TakeNone, Front DEF IInv
<1>2. ~pass => cnt' \in Nat /\ cnt' <= cnt + 0
  <2>1. cnt \in Nat /\ cnt <= cnt + 0
    BY DEF IInv, TypeOK
  <2>2. QED
    BY <2>1, Zenon
<1>3. QED
  BY <1>1, <1>2, TakeStep

\* Wherever the stream is cut, and whatever the data-mode task does meanwhile, data goes to
\* the mode it was sent to.
LEMMA DeliveryStep == ASSUME IInv, [Next]_vars PROVE Delivery'
<1>1. CASE Receive
  <2>1. Stream' = Stream
    BY <1>1, GivenSame DEF IInv
  <2>2. UNCHANGED <<hpc, hpass, hlen, hleft, enable, pass, len, cnt, parsed, rpc>>
    BY <1>1 DEF Receive, hostVars, modeVars, histVars
  <2>3. QED
    BY <2>1, <2>2, QuietDelivery DEF Leaving
<1>2. CASE TestData \/ SendReturn \/ SendCount \/ DataContinue
  <2>1. /\ UNCHANGED <<rbuf, link, hpc, hpass, hlen, hleft, enable, pass, len, parsed>>
        /\ ~pass => cnt' = cnt
    BY <1>2 DEF TestData, SendReturn, SendCount, DataContinue, hostVars, modeVars, histVars
  <2>2. Leaving' => Leaving
    BY <1>2 DEF TestData, SendReturn, SendCount, DataContinue, Leaving
  <2>3. Stream' = Stream
    BY <2>1 DEF Stream
  <2>4. QED
    BY <2>1, <2>2, <2>3, QuietDelivery
<1>3. CASE Expire \/ TaskWake \/ TaskRun \/ TaskTell \/ UNCHANGED vars
  <2>1. UNCHANGED <<rbuf, link, hpc, hpass, hlen, hleft, enable, pass, len, cnt, parsed, rpc>>
    BY <1>3 DEF Expire, TaskWake, TaskRun, TaskTell, vars, hostVars, modeVars, recvVars,
       histVars
  <2>2. Stream' = Stream
    BY <2>1 DEF Stream
  <2>3. QED
    BY <2>1, <2>2, QuietDelivery DEF Leaving
<1>4. QED
  BY <1>1, <1>2, <1>3, HostCommandDelivery, HostDataDelivery, HostExitDelivery,
     ParseSendDelivery, ParseOtherDelivery, TestPartDelivery, TestExitDelivery,
     DataTakeDelivery, SendEventDelivery, ExitEventDelivery
     DEF Next, ReceiveStep, TaskStep

-----------------------------------------------------------------------------
(* The theorems.                                                            *)

\* The invariant the properties follow from.
LEMMA SpecIInv == Spec => []IInv
<1>1. IInv /\ [Next]_vars => IInv'
  BY TypeStep, ModeStep, CountStep, DeliveryStep DEF IInv, Delivery
<1>2. QED
  BY <1>1, InitIInv, PTL DEF Spec

\* The variables of the data mode, the two tasks and the host keep their types, the static
\* counters of atcmd_receive_data among them.
THEOREM TypeCorrect == Spec => []TypeOK
<1>1. IInv => TypeOK
  BY DEF IInv
<1>2. QED
  BY <1>1, SpecIInv, PTL

\* atcmd_core.c:1790: the count of exit command bytes never outlives the idle period it
\* belongs to, and _buf never holds a whole send between two buffers.
THEOREM ExitPrefixCorrect == Spec => []ExitPrefixIdle
<1>1. IInv => ExitPrefixIdle
  BY DEF IInv, ModeInv, ExitPrefixIdle
<1>2. QED
  BY <1>1, SpecIInv, PTL

\* atcmd_core.c:1814-1835, 1876-1889: the counts a mode reports at its end are what the socket
\* took and what of the data taken it did not; only a fixed length left by the exit command
\* leaves units out, those in _buf, and then it reports no other.
THEOREM ReportCorrect == Spec => []ReportExact
<1>1. IInv => ReportExact
  BY DEF IInv, CountInv
<1>2. QED
  BY <1>1, SpecIInv, PTL

\* atcmd_core.c:1849-1862: no data is ever read as a command, however the host's stream is cut
\* and whenever SEND_IDLE comes.
THEOREM DataStaysData == Spec => []DataNotParsed
<1>1. IInv => DataNotParsed
  BY DEF IInv, HostInv
<1>2. QED
  BY <1>1, SpecIInv, PTL
=============================================================================
