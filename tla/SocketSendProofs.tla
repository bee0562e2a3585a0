-------------------------- MODULE SocketSendProofs --------------------------
(***************************************************************************)
(* Whatever is configured and whatever peers do: types, and nothing is       *)
(* reported that lwIP did not take (TotalInv).                               *)
(*                                                                          *)
(* Without an SSEND time-out, whatever peers and sockets do: no done bit is  *)
(* left behind, and the socket task touches the requester's buffer only      *)
(* while the requester is in the call for it (IInv).  The argument: a socket  *)
(* is in fds.write, or has its bit set, only while the requester waits for    *)
(* it, and never both.  Once the bit is set the request can still be found    *)
(* by its socket only if the socket task is just closing that entry, or will  *)
(* not serve it again before its next select.  That one entry is closed and   *)
(* not another needs an id to be in one entry only, which holds as long as    *)
(* the socket task has not closed an fd opened anew (crossed).                *)
(*                                                                          *)
(* As long as the peers stay, too: a socket is served only for its own        *)
(* request, and its caller is told of that request's bytes (CalmInv).        *)
(***************************************************************************)
EXTENDS SocketSend, TLAPS

\* No SSEND time-out is configured.
NoTimeout == Timeouts = FALSE

Closing == tpc \in {"close", "fdsclear", "closefd", "resetid"}
Answering == tpc \in {"send", "broken", "answer", "clear", "fill", "tell"}

\* Entry and number of the outstanding request.
RequestInv ==
  /\ rpc = "idle" => req.socket = NoSlot
  /\ rpc # "idle" => req.socket \in {rslot, NoSlot} /\ rslot \in Slots /\ rno \in 1..MaxReq
  /\ req.socket # NoSlot => req.no = rno
  /\ rpc # "unset"

\* fds.write and the done bits belong to the waiting requester.
WaitInv ==
  /\ rpc # "wait" => fdsWrite = {} /\ bits = {}
  /\ rpc = "wait" => /\ fdsWrite \subseteq {rfd} /\ bits \subseteq {rfd}
                     /\ fdsWrite = {} \/ bits = {}
  /\ rpc \in {"call", "wait", "collect"} => entry[rslot] \in {rfd, NoSocket}

\* An id is in one entry, and open; but for the entry that is about to be reset.
EntryInv ==
  /\ \A s \in Slots : entry[s] # NoSocket =>
       entry[s] \in alive \/ (tpc = "resetid" /\ s = tslot)
  /\ \A s, t \in Slots : s # t /\ entry[s] = entry[t] /\ entry[s] # NoSocket =>
       tpc = "resetid" /\ tslot \in {s, t}

\* The requester has been told, or is about to leave.
Told == rpc = "collect" \/ (rpc = "wait" /\ bits # {})

\* What is told is not served again.
ToldInv ==
  Told /\ req.socket # NoSlot /\ entry[req.socket] # NoSocket =>
    \/ tpc \in {"fdsclear", "closefd", "resetid"} /\ tslot = req.socket
    \/ /\ entry[req.socket] \notin rdyWrite
       /\ tpc = "select" => entry[req.socket] \notin snapWrite

\* A socket whose request is served is off the list of ready ones, and its entry stays.
ServedInv ==
  /\ Answering \/ (Closing /\ tback = "answer") => tid \notin rdyWrite
  /\ tpc = "broken" => ti < treq.len
  /\ tpc \in {"send", "broken"} /\ ti < treq.len =>
       rpc \in {"request", "call", "wait"} /\ rno = treq.no /\ bits = {}

IInv ==
  /\ NoTimeout /\ TypeOK /\ RequestInv /\ WaitInv
  /\ ~crossed => EntryInv /\ ToldInv /\ ServedInv

-----------------------------------------------------------------------------
(* Types, whatever the constants are.                                       *)

\* The indices of the loop over the entries.
LEMMA SlotFacts ==
  /\ 1 \in Slots /\ NoSlot \notin Slots
  /\ Slots \subseteq 1..(SlotNum + 1)
  /\ \A s \in Slots : s + 1 \in 1..(SlotNum + 1)
  BY BoundsAssumption DEF Slots, NoSlot

\* TypeOK in parts.
SharedType ==
  /\ entry \in [Slots -> Ids \cup {NoSocket}]
  /\ fdsRead \subseteq Ids /\ fdsWrite \subseteq Ids
  /\ bits \subseteq Ids /\ alive \subseteq Ids /\ dgram \subseteq Ids
  /\ req \in [socket : Slots \cup {NoSlot}, len : Nat, done : Nat, no : 0..MaxReq]
RequesterType ==
  /\ rpc \in {"idle", "request", "call", "wait", "collect", "unset"}
  /\ rslot \in Slots \cup {NoSlot} /\ (rpc # "idle" => rslot \in Slots)
  /\ rfd \in Ids \cup {NoSocket} /\ rno \in 0..MaxReq
TaskType ==
  /\ tpc \in {"get", "select", "scan", "send", "broken", "answer", "clear", "fill", "tell",
              "close", "fdsclear", "closefd", "resetid"}
  /\ snapRead \subseteq Ids /\ snapWrite \subseteq Ids
  /\ rdyRead \subseteq Ids /\ rdyWrite \subseteq Ids
  /\ tid \in Ids \cup {NoSocket} /\ treq \in [no : 0..MaxReq, len : Nat]
  /\ ti \in Nat /\ tretry \in Nat
  /\ tslot \in 1..(SlotNum + 1) /\ (tpc # "close" => tslot \in Slots)
  /\ tclose \in Ids \cup {NoSocket} /\ tfd \in Ids \cup {NoSocket}
  /\ tback \in {"scan", "answer"}
CountType ==
  /\ handed \in [1..MaxReq -> Nat]
  /\ reported \in [1..MaxReq -> Nat \cup {-1}]
  /\ took \in Nat /\ told \in Nat /\ streams \subseteq 1..MaxReq /\ crossed \in BOOLEAN

\* Together they are TypeOK.
LEMMA TypeParts ==
  SharedType' /\ RequesterType' /\ TaskType' /\ CountType' => TypeOK'
  BY DEF TypeOK, SharedType, RequesterType, TaskType, CountType

\* A caller's answer is a count in the slot of its request.
LEMMA ReturnType ==
  ASSUME TypeOK, NEW done \in Nat, Return(done)
  PROVE  /\ req' \in [socket : Slots \cup {NoSlot}, len : Nat, done : Nat, no : 0..MaxReq]
         /\ rpc' = "idle" /\ rfd' = NoSocket /\ rslot' = NoSlot
         /\ reported' \in [1..MaxReq -> Nat \cup {-1}]
         /\ told' \in Nat
<1>1. reported' = [reported EXCEPT ![rno] = done]
  BY DEF Return
<1>2. reported \in [1..MaxReq -> Nat \cup {-1}]
  BY DEF TypeOK
<1>3. reported' \in [1..MaxReq -> Nat \cup {-1}]
  <2>1. CASE rno \in 1..MaxReq
    BY <1>1, <1>2, <2>1
  <2>2. CASE rno \notin 1..MaxReq
    <3>1. reported' = reported
      BY <1>1, <1>2, <2>2
    <3> QED
      BY <1>2, <3>1
  <2> QED
    BY <2>1, <2>2
<1>4. 0 \in 0..MaxReq
  BY BoundsAssumption
<1>5. told' \in Nat
  <2>1. told \in Nat /\ told' = told + done
    BY DEF Return, TypeOK
  <2> QED
    BY <2>1
<1> QED
  BY <1>3, <1>4, <1>5 DEF Return, NoRequest

\* What lwIP takes is a count of the request in hand.
LEMMA TakeType ==
  ASSUME TypeOK, NEW k \in Nat, Take(k)
  PROVE  handed' \in [1..MaxReq -> Nat] /\ took' \in Nat
<1>1. /\ handed' = [handed EXCEPT ![treq.no] = @ + k] /\ took' = took + k
      /\ handed \in [1..MaxReq -> Nat] /\ took \in Nat
  BY DEF Take, TypeOK
<1>2. handed' \in [1..MaxReq -> Nat]
  <2>1. CASE treq.no \in 1..MaxReq
    BY <1>1, <2>1
  <2>2. CASE treq.no \notin 1..MaxReq
    <3>1. handed' = handed
      BY <1>1, <2>2
    <3> QED
      BY <1>1, <3>1
  <2> QED
    BY <2>1, <2>2
<1> QED
  BY <1>1, <1>2

\* A call that fails takes no negative number of bytes.
LEMMA UncountedNat == ASSUME TypeOK PROVE Uncounted \subseteq Nat
  BY DEF Uncounted, TypeOK

\* Every step keeps the types.
LEMMA TypeNext == TypeOK /\ [Next]_vars => TypeOK'
<1> SUFFICES ASSUME TypeOK, [Next]_vars PROVE TypeOK'
  OBVIOUS
<1>1. ASSUME NEW id \in Ids, NEW udp \in BOOLEAN, Open(id, udp) PROVE TypeOK'
  <2>1. SharedType'
    BY <1>1, SlotFacts DEF Open, First, reqVars, selVars, sendVars, closeVars,
       countVars, NoSocket, NoSlot, TypeOK, SharedType
  <2>2. RequesterType'
    BY <1>1, SlotFacts DEF Open, First, reqVars, selVars, sendVars, closeVars,
       countVars, NoSocket, NoSlot, TypeOK, RequesterType
  <2>3. TaskType'
    BY <1>1, SlotFacts DEF Open, First, reqVars, selVars, sendVars, closeVars,
       countVars, NoSocket, NoSlot, TypeOK, TaskType
  <2>4. CountType'
    BY <1>1, SlotFacts DEF Open, First, reqVars, selVars, sendVars, closeVars,
       countVars, NoSocket, NoSlot, TypeOK, CountType
  <2> QED
    BY <2>1, <2>2, <2>3, <2>4, TypeParts
<1>2. ASSUME NEW id \in Ids, Close(id) PROVE TypeOK'
  <2>1. SharedType'
    BY <1>2, SlotFacts DEF Close, Answered, list, reqVars, selVars, sendVars, closeVars,
       countVars, NoSocket, NoSlot, TypeOK, SharedType
  <2>2. RequesterType'
    BY <1>2, SlotFacts DEF Close, Answered, list, reqVars, selVars, sendVars, closeVars,
       countVars, NoSocket, NoSlot, TypeOK, RequesterType
  <2>3. TaskType'
    BY <1>2, SlotFacts DEF Close, Answered, list, reqVars, selVars, sendVars, closeVars,
       countVars, NoSocket, NoSlot, TypeOK, TaskType
  <2>4. CountType'
    BY <1>2, SlotFacts DEF Close, Answered, list, reqVars, selVars, sendVars, closeVars,
       countVars, NoSocket, NoSlot, TypeOK, CountType
  <2> QED
    BY <2>1, <2>2, <2>3, <2>4, TypeParts
<1>3. ASSUME NEW id \in Ids, NEW n \in 1..MaxLen, Request(id, n) PROVE TypeOK'
  <2>0. n \in Nat /\ rno + 1 \in 1..MaxReq
    BY <1>3, BoundsAssumption DEF Request, TypeOK
  <2>1. SharedType'
    BY <1>3, <2>0, SlotFacts DEF Request, First, selVars, sendVars, closeVars, NoSlot,
       NoSocket, TypeOK, SharedType
  <2>2. RequesterType'
    BY <1>3, <2>0, SlotFacts DEF Request, First, selVars, sendVars, closeVars, NoSlot,
       NoSocket, TypeOK, RequesterType
  <2>3. TaskType'
    BY <1>3, <2>0, SlotFacts DEF Request, First, selVars, sendVars, closeVars, NoSlot,
       NoSocket, TypeOK, TaskType
  <2>4. CountType'
    BY <1>3, <2>0, SlotFacts DEF Request, First, selVars, sendVars, closeVars, NoSlot,
       NoSocket, TypeOK, CountType
  <2> QED
    BY <2>1, <2>2, <2>3, <2>4, TypeParts
<1>4. CASE Call
  <2>1. SharedType'
    BY <1>4, SlotFacts DEF Call, sharedVars, selVars, sendVars, closeVars, countVars,
       NoSocket, NoSlot, TypeOK, SharedType
  <2>2. RequesterType'
    BY <1>4, SlotFacts DEF Call, sharedVars, selVars, sendVars, closeVars, countVars,
       NoSocket, NoSlot, TypeOK, RequesterType
  <2>3. TaskType'
    BY <1>4, SlotFacts DEF Call, sharedVars, selVars, sendVars, closeVars, countVars,
       NoSocket, NoSlot, TypeOK, TaskType
  <2>4. CountType'
    BY <1>4, SlotFacts DEF Call, sharedVars, selVars, sendVars, closeVars, countVars,
       NoSocket, NoSlot, TypeOK, CountType
  <2> QED
    BY <2>1, <2>2, <2>3, <2>4, TypeParts
<1>5. CASE SetWrite
  <2>0. \/ Return(0) /\ UNCHANGED fdsWrite
        \/ fdsWrite' = fdsWrite \cup ({rfd} \ {NoSocket}) /\ UNCHANGED req
    BY <1>5 DEF SetWrite
  <2>01. req' \in [socket : Slots \cup {NoSlot}, len : Nat, done : Nat, no : 0..MaxReq]
    BY <2>0, ReturnType DEF TypeOK
  <2>02. fdsWrite' \subseteq Ids
    BY <2>0 DEF TypeOK
  <2>1. SharedType'
    BY <1>5, <2>01, <2>02, SlotFacts DEF SetWrite, selVars, sendVars, closeVars,
       NoSocket, NoSlot, TypeOK, SharedType
  <2>2. RequesterType'
    BY <1>5, ReturnType, SlotFacts DEF SetWrite, selVars, sendVars, closeVars, NoSocket,
       NoSlot, TypeOK, RequesterType
  <2>3. TaskType'
    BY <1>5, ReturnType, SlotFacts DEF SetWrite, selVars, sendVars, closeVars, NoSocket,
       NoSlot, TypeOK, TaskType
  <2>4. CountType'
    BY <1>5, ReturnType, SlotFacts DEF SetWrite, selVars, sendVars, closeVars, NoSocket,
       NoSlot, TypeOK, CountType
  <2> QED
    BY <2>1, <2>2, <2>3, <2>4, TypeParts
<1>6. CASE WakeDone
  <2>1. SharedType'
    BY <1>6, SlotFacts DEF WakeDone, selVars, sendVars, closeVars, countVars, NoSocket,
       NoSlot, TypeOK, SharedType
  <2>2. RequesterType'
    BY <1>6, SlotFacts DEF WakeDone, selVars, sendVars, closeVars, countVars, NoSocket,
       NoSlot, TypeOK, RequesterType
  <2>3. TaskType'
    BY <1>6, SlotFacts DEF WakeDone, selVars, sendVars, closeVars, countVars, NoSocket,
       NoSlot, TypeOK, TaskType
  <2>4. CountType'
    BY <1>6, SlotFacts DEF WakeDone, selVars, sendVars, closeVars, countVars, NoSocket,
       NoSlot, TypeOK, CountType
  <2> QED
    BY <2>1, <2>2, <2>3, <2>4, TypeParts
<1>7. CASE Collect
  <2>0. Return(req.done) /\ req.done \in Nat
    BY <1>7 DEF Collect, TypeOK
  <2>1. SharedType'
    BY <1>7, <2>0, ReturnType, SlotFacts DEF Collect, selVars, sendVars, closeVars,
       NoSocket, NoSlot, TypeOK, SharedType
  <2>2. RequesterType'
    BY <1>7, <2>0, ReturnType, SlotFacts DEF Collect, selVars, sendVars, closeVars,
       NoSocket, NoSlot, TypeOK, RequesterType
  <2>3. TaskType'
    BY <1>7, <2>0, ReturnType, SlotFacts DEF Collect, selVars, sendVars, closeVars,
       NoSocket, NoSlot, TypeOK, TaskType
  <2>4. CountType'
    BY <1>7, <2>0, ReturnType, SlotFacts DEF Collect, selVars, sendVars, closeVars,
       NoSocket, NoSlot, TypeOK, CountType
  <2> QED
    BY <2>1, <2>2, <2>3, <2>4, TypeParts
<1>8. CASE UnsetWrite
  <2>0. Return(0) /\ 0 \in Nat
    BY <1>8 DEF UnsetWrite
  <2>1. SharedType'
    BY <1>8, <2>0, ReturnType, SlotFacts DEF UnsetWrite, selVars, sendVars, closeVars,
       NoSocket, NoSlot, TypeOK, SharedType
  <2>2. RequesterType'
    BY <1>8, <2>0, ReturnType, SlotFacts DEF UnsetWrite, selVars, sendVars, closeVars,
       NoSocket, NoSlot, TypeOK, RequesterType
  <2>3. TaskType'
    BY <1>8, <2>0, ReturnType, SlotFacts DEF UnsetWrite, selVars, sendVars, closeVars,
       NoSocket, NoSlot, TypeOK, TaskType
  <2>4. CountType'
    BY <1>8, <2>0, ReturnType, SlotFacts DEF UnsetWrite, selVars, sendVars, closeVars,
       NoSocket, NoSlot, TypeOK, CountType
  <2> QED
    BY <2>1, <2>2, <2>3, <2>4, TypeParts
<1>9. CASE WakeTimeout
  <2>1. SharedType'
    BY <1>9, SlotFacts DEF WakeTimeout, sharedVars, selVars, sendVars, closeVars,
       countVars, NoSocket, NoSlot, TypeOK, SharedType
  <2>2. RequesterType'
    BY <1>9, SlotFacts DEF WakeTimeout, sharedVars, selVars, sendVars, closeVars,
       countVars, NoSocket, NoSlot, TypeOK, RequesterType
  <2>3. TaskType'
    BY <1>9, SlotFacts DEF WakeTimeout, sharedVars, selVars, sendVars, closeVars,
       countVars, NoSocket, NoSlot, TypeOK, TaskType
  <2>4. CountType'
    BY <1>9, SlotFacts DEF WakeTimeout, sharedVars, selVars, sendVars, closeVars,
       countVars, NoSocket, NoSlot, TypeOK, CountType
  <2> QED
    BY <2>1, <2>2, <2>3, <2>4, TypeParts
<1>10. CASE FdsGet
  <2>0. NoData \in [no : 0..MaxReq, len : Nat]
    BY BoundsAssumption DEF NoData
  <2>1. SharedType'
    BY <1>10, SlotFacts DEF FdsGet, NoData, sharedVars, reqVars, countVars, NoSocket,
       NoSlot, TypeOK, SharedType
  <2>2. RequesterType'
    BY <1>10, SlotFacts DEF FdsGet, NoData, sharedVars, reqVars, countVars, NoSocket,
       NoSlot, TypeOK, RequesterType
  <2>3. TaskType'
    BY <1>10, <2>0, SlotFacts DEF FdsGet, NoData, sharedVars, reqVars, countVars,
       NoSocket, NoSlot, TypeOK, TaskType
  <2>4. CountType'
    BY <1>10, SlotFacts DEF FdsGet, NoData, sharedVars, reqVars, countVars, NoSocket,
       NoSlot, TypeOK, CountType
  <2> QED
    BY <2>1, <2>2, <2>3, <2>4, TypeParts
<1>11. CASE Select
  <2>1. SharedType'
    BY <1>11, SlotFacts DEF Select, sharedVars, reqVars, sendVars, closeVars, countVars,
       NoSocket, NoSlot, TypeOK, SharedType
  <2>2. RequesterType'
    BY <1>11, SlotFacts DEF Select, sharedVars, reqVars, sendVars, closeVars, countVars,
       NoSocket, NoSlot, TypeOK, RequesterType
  <2>3. TaskType'
    BY <1>11, SlotFacts DEF Select, sharedVars, reqVars, sendVars, closeVars, countVars,
       NoSocket, NoSlot, TypeOK, TaskType
  <2>4. CountType'
    BY <1>11, SlotFacts DEF Select, sharedVars, reqVars, sendVars, closeVars, countVars,
       NoSocket, NoSlot, TypeOK, CountType
  <2> QED
    BY <2>1, <2>2, <2>3, <2>4, TypeParts
<1>12. CASE ScanEnd
  <2>1. SharedType'
    BY <1>12, SlotFacts DEF ScanEnd, sharedVars, reqVars, selVars, sendVars, closeVars,
       countVars, NoSocket, NoSlot, TypeOK, SharedType
  <2>2. RequesterType'
    BY <1>12, SlotFacts DEF ScanEnd, sharedVars, reqVars, selVars, sendVars, closeVars,
       countVars, NoSocket, NoSlot, TypeOK, RequesterType
  <2>3. TaskType'
    BY <1>12, SlotFacts DEF ScanEnd, sharedVars, reqVars, selVars, sendVars, closeVars,
       countVars, NoSocket, NoSlot, TypeOK, TaskType
  <2>4. CountType'
    BY <1>12, SlotFacts DEF ScanEnd, sharedVars, reqVars, selVars, sendVars, closeVars,
       countVars, NoSocket, NoSlot, TypeOK, CountType
  <2> QED
    BY <2>1, <2>2, <2>3, <2>4, TypeParts
<1>13. ASSUME NEW id \in Ids, RecvGone(id) PROVE TypeOK'
  <2>1. SharedType'
    BY <1>13, SlotFacts DEF RecvGone, Serving, list, sharedVars, reqVars, sendVars,
       countVars, NoSocket, NoSlot, TypeOK, SharedType
  <2>2. RequesterType'
    BY <1>13, SlotFacts DEF RecvGone, Serving, list, sharedVars, reqVars, sendVars,
       countVars, NoSocket, NoSlot, TypeOK, RequesterType
  <2>3. TaskType'
    BY <1>13, SlotFacts DEF RecvGone, Serving, list, sharedVars, reqVars, sendVars,
       countVars, NoSocket, NoSlot, TypeOK, TaskType
  <2>4. CountType'
    BY <1>13, SlotFacts DEF RecvGone, Serving, list, sharedVars, reqVars, sendVars,
       countVars, NoSocket, NoSlot, TypeOK, CountType
  <2> QED
    BY <2>1, <2>2, <2>3, <2>4, TypeParts
<1>14. ASSUME NEW id \in Ids, SendReadyNone(id) PROVE TypeOK'
  <2>1. SharedType'
    BY <1>14, SlotFacts DEF SendReadyNone, ServingWrite, sharedVars, reqVars, sendVars,
       closeVars, countVars, NoSlot, Serving, NoSocket, TypeOK, SharedType
  <2>2. RequesterType'
    BY <1>14, SlotFacts DEF SendReadyNone, ServingWrite, sharedVars, reqVars, sendVars,
       closeVars, countVars, NoSlot, Serving, NoSocket, TypeOK, RequesterType
  <2>3. TaskType'
    BY <1>14, SlotFacts DEF SendReadyNone, ServingWrite, sharedVars, reqVars, sendVars,
       closeVars, countVars, NoSlot, Serving, NoSocket, TypeOK, TaskType
  <2>4. CountType'
    BY <1>14, SlotFacts DEF SendReadyNone, ServingWrite, sharedVars, reqVars, sendVars,
       closeVars, countVars, NoSlot, Serving, NoSocket, TypeOK, CountType
  <2> QED
    BY <2>1, <2>2, <2>3, <2>4, TypeParts
<1>15. ASSUME NEW id \in Ids, SendReadyOther(id) PROVE TypeOK'
  <2>1. SharedType'
    BY <1>15, SlotFacts DEF SendReadyOther, SendDone, ServingWrite, reqVars, sendVars,
       closeVars, countVars, NoSlot, Answered, Serving, NoSocket, TypeOK, SharedType
  <2>2. RequesterType'
    BY <1>15, SlotFacts DEF SendReadyOther, SendDone, ServingWrite, reqVars, sendVars,
       closeVars, countVars, NoSlot, Answered, Serving, NoSocket, TypeOK, RequesterType
  <2>3. TaskType'
    BY <1>15, SlotFacts DEF SendReadyOther, SendDone, ServingWrite, reqVars, sendVars,
       closeVars, countVars, NoSlot, Answered, Serving, NoSocket, TypeOK, TaskType
  <2>4. CountType'
    BY <1>15, SlotFacts DEF SendReadyOther, SendDone, ServingWrite, reqVars, sendVars,
       closeVars, countVars, NoSlot, Answered, Serving, NoSocket, TypeOK, CountType
  <2> QED
    BY <2>1, <2>2, <2>3, <2>4, TypeParts
<1>16. ASSUME NEW id \in Ids, SendReady(id) PROVE TypeOK'
  <2>1. SharedType'
    BY <1>16, SlotFacts DEF SendReady, ServingWrite, sharedVars, reqVars, countVars,
       NoSlot, Serving, NoSocket, TypeOK, SharedType
  <2>2. RequesterType'
    BY <1>16, SlotFacts DEF SendReady, ServingWrite, sharedVars, reqVars, countVars,
       NoSlot, Serving, NoSocket, TypeOK, RequesterType
  <2>3. TaskType'
    BY <1>16, SlotFacts DEF SendReady, ServingWrite, sharedVars, reqVars, countVars,
       NoSlot, Serving, NoSocket, TypeOK, TaskType
  <2>4. CountType'
    BY <1>16, SlotFacts DEF SendReady, ServingWrite, sharedVars, reqVars, countVars,
       NoSlot, Serving, NoSocket, TypeOK, CountType
  <2> QED
    BY <2>1, <2>2, <2>3, <2>4, TypeParts
<1>17. CASE SendSome
  <2>0. PICK k \in 1..(treq.len - ti) : ti' = ti + k /\ Take(k)
    BY <1>17 DEF SendSome
  <2>01. k \in Nat /\ ti' \in Nat
    BY <2>0 DEF TypeOK
  <2>1. SharedType'
    BY <1>17, SlotFacts DEF SendSome, Take, Fd, sharedVars, reqVars, selVars, closeVars,
       NoSocket, NoSlot, TypeOK, SharedType
  <2>2. RequesterType'
    BY <1>17, SlotFacts DEF SendSome, Take, Fd, sharedVars, reqVars, selVars, closeVars,
       NoSocket, NoSlot, TypeOK, RequesterType
  <2>3. TaskType'
    BY <1>17, <2>01, SlotFacts DEF SendSome, Take, Fd, sharedVars, reqVars, selVars,
       closeVars, NoSocket, NoSlot, TypeOK, TaskType
  <2>4. CountType'
    BY <1>17, <2>0, <2>01, TakeType, SlotFacts DEF SendSome, Fd, sharedVars, reqVars,
       selVars, closeVars, NoSocket, NoSlot, TypeOK, CountType
  <2> QED
    BY <2>1, <2>2, <2>3, <2>4, TypeParts
<1>18. CASE SendFull
  <2>0. PICK k \in Uncounted : Take(k)
    BY <1>18 DEF SendFull
  <2>1. SharedType'
    BY <1>18, SlotFacts DEF SendFull, Fd, sharedVars, reqVars, selVars, closeVars,
       NoSocket, NoSlot, TypeOK, SharedType
  <2>2. RequesterType'
    BY <1>18, SlotFacts DEF SendFull, Fd, sharedVars, reqVars, selVars, closeVars,
       NoSocket, NoSlot, TypeOK, RequesterType
  <2>3. TaskType'
    BY <1>18, SlotFacts DEF SendFull, Fd, sharedVars, reqVars, selVars, closeVars,
       NoSocket, NoSlot, TypeOK, TaskType
  <2>4. CountType'
    BY <1>18, <2>0, TakeType, UncountedNat, SlotFacts DEF SendFull, Fd, sharedVars,
       reqVars, selVars, closeVars, NoSocket, NoSlot, TypeOK, CountType
  <2> QED
    BY <2>1, <2>2, <2>3, <2>4, TypeParts
<1>19. CASE SendRefused
  <2>0. PICK k \in Uncounted : Take(k)
    BY <1>19 DEF SendRefused
  <2>1. SharedType'
    BY <1>19, SlotFacts DEF SendRefused, Fd, sharedVars, reqVars, selVars, closeVars,
       NoSocket, NoSlot, TypeOK, SharedType
  <2>2. RequesterType'
    BY <1>19, SlotFacts DEF SendRefused, Fd, sharedVars, reqVars, selVars, closeVars,
       NoSocket, NoSlot, TypeOK, RequesterType
  <2>3. TaskType'
    BY <1>19, SlotFacts DEF SendRefused, Fd, sharedVars, reqVars, selVars, closeVars,
       NoSocket, NoSlot, TypeOK, TaskType
  <2>4. CountType'
    BY <1>19, <2>0, TakeType, UncountedNat, SlotFacts DEF SendRefused, Fd, sharedVars,
       reqVars, selVars, closeVars, NoSocket, NoSlot, TypeOK, CountType
  <2> QED
    BY <2>1, <2>2, <2>3, <2>4, TypeParts
<1>20. CASE SendBroken
  <2>0. PICK k \in Uncounted : Take(k)
    BY <1>20 DEF SendBroken
  <2>1. SharedType'
    BY <1>20, SlotFacts DEF SendBroken, Fd, sharedVars, reqVars, selVars, closeVars,
       NoSocket, NoSlot, TypeOK, SharedType
  <2>2. RequesterType'
    BY <1>20, SlotFacts DEF SendBroken, Fd, sharedVars, reqVars, selVars, closeVars,
       NoSocket, NoSlot, TypeOK, RequesterType
  <2>3. TaskType'
    BY <1>20, SlotFacts DEF SendBroken, Fd, sharedVars, reqVars, selVars, closeVars,
       NoSocket, NoSlot, TypeOK, TaskType
  <2>4. CountType'
    BY <1>20, <2>0, TakeType, UncountedNat, SlotFacts DEF SendBroken, Fd, sharedVars,
       reqVars, selVars, closeVars, NoSocket, NoSlot, TypeOK, CountType
  <2> QED
    BY <2>1, <2>2, <2>3, <2>4, TypeParts
<1>21. CASE BrokenClose
  <2>1. SharedType'
    BY <1>21, SlotFacts DEF BrokenClose, Fd, sharedVars, reqVars, selVars, sendVars,
       countVars, NoSocket, NoSlot, TypeOK, SharedType
  <2>2. RequesterType'
    BY <1>21, SlotFacts DEF BrokenClose, Fd, sharedVars, reqVars, selVars, sendVars,
       countVars, NoSocket, NoSlot, TypeOK, RequesterType
  <2>3. TaskType'
    BY <1>21, SlotFacts DEF BrokenClose, Fd, sharedVars, reqVars, selVars, sendVars,
       countVars, NoSocket, NoSlot, TypeOK, TaskType
  <2>4. CountType'
    BY <1>21, SlotFacts DEF BrokenClose, Fd, sharedVars, reqVars, selVars, sendVars,
       countVars, NoSocket, NoSlot, TypeOK, CountType
  <2> QED
    BY <2>1, <2>2, <2>3, <2>4, TypeParts
<1>22. CASE SendAll
  <2>1. SharedType'
    BY <1>22, SlotFacts DEF SendAll, sharedVars, reqVars, selVars, sendVars, closeVars,
       countVars, NoSocket, NoSlot, TypeOK, SharedType
  <2>2. RequesterType'
    BY <1>22, SlotFacts DEF SendAll, sharedVars, reqVars, selVars, sendVars, closeVars,
       countVars, NoSocket, NoSlot, TypeOK, RequesterType
  <2>3. TaskType'
    BY <1>22, SlotFacts DEF SendAll, sharedVars, reqVars, selVars, sendVars, closeVars,
       countVars, NoSocket, NoSlot, TypeOK, TaskType
  <2>4. CountType'
    BY <1>22, SlotFacts DEF SendAll, sharedVars, reqVars, selVars, sendVars, closeVars,
       countVars, NoSocket, NoSlot, TypeOK, CountType
  <2> QED
    BY <2>1, <2>2, <2>3, <2>4, TypeParts
<1>23. CASE AnswerStart
  <2>1. SharedType'
    BY <1>23, SlotFacts DEF AnswerStart, AnswerSteps, sharedVars, reqVars, selVars,
       sendVars, closeVars, countVars, NoSocket, NoSlot, TypeOK, SharedType
  <2>2. RequesterType'
    BY <1>23, SlotFacts DEF AnswerStart, AnswerSteps, sharedVars, reqVars, selVars,
       sendVars, closeVars, countVars, NoSocket, NoSlot, TypeOK, RequesterType
  <2>3. TaskType'
    BY <1>23, SlotFacts DEF AnswerStart, AnswerSteps, sharedVars, reqVars, selVars,
       sendVars, closeVars, countVars, NoSocket, NoSlot, TypeOK, TaskType
  <2>4. CountType'
    BY <1>23, SlotFacts DEF AnswerStart, AnswerSteps, sharedVars, reqVars, selVars,
       sendVars, closeVars, countVars, NoSocket, NoSlot, TypeOK, CountType
  <2> QED
    BY <2>1, <2>2, <2>3, <2>4, TypeParts
<1>24. CASE AnswerClear
  <2>1. SharedType'
    BY <1>24, SlotFacts DEF AnswerClear, AnswerSteps, reqVars, selVars, sendVars,
       closeVars, countVars, NoSlot, NoSocket, TypeOK, SharedType
  <2>2. RequesterType'
    BY <1>24, SlotFacts DEF AnswerClear, AnswerSteps, reqVars, selVars, sendVars,
       closeVars, countVars, NoSlot, NoSocket, TypeOK, RequesterType
  <2>3. TaskType'
    BY <1>24, SlotFacts DEF AnswerClear, AnswerSteps, reqVars, selVars, sendVars,
       closeVars, countVars, NoSlot, NoSocket, TypeOK, TaskType
  <2>4. CountType'
    BY <1>24, SlotFacts DEF AnswerClear, AnswerSteps, reqVars, selVars, sendVars,
       closeVars, countVars, NoSlot, NoSocket, TypeOK, CountType
  <2> QED
    BY <2>1, <2>2, <2>3, <2>4, TypeParts
<1>25. CASE AnswerFill
  <2>1. SharedType'
    BY <1>25, SlotFacts DEF AnswerFill, AnswerSteps, DoneCount, reqVars, selVars,
       sendVars, closeVars, countVars, NoSocket, NoSlot, TypeOK, SharedType
  <2>2. RequesterType'
    BY <1>25, SlotFacts DEF AnswerFill, AnswerSteps, DoneCount, reqVars, selVars,
       sendVars, closeVars, countVars, NoSocket, NoSlot, TypeOK, RequesterType
  <2>3. TaskType'
    BY <1>25, SlotFacts DEF AnswerFill, AnswerSteps, DoneCount, reqVars, selVars,
       sendVars, closeVars, countVars, NoSocket, NoSlot, TypeOK, TaskType
  <2>4. CountType'
    BY <1>25, SlotFacts DEF AnswerFill, AnswerSteps, DoneCount, reqVars, selVars,
       sendVars, closeVars, countVars, NoSocket, NoSlot, TypeOK, CountType
  <2> QED
    BY <2>1, <2>2, <2>3, <2>4, TypeParts
<1>26. CASE AnswerTell
  <2>1. SharedType'
    BY <1>26, SlotFacts DEF AnswerTell, SendDone, AnswerSteps, reqVars, selVars,
       sendVars, closeVars, countVars, Answered, NoSocket, NoSlot, TypeOK, SharedType
  <2>2. RequesterType'
    BY <1>26, SlotFacts DEF AnswerTell, SendDone, AnswerSteps, reqVars, selVars,
       sendVars, closeVars, countVars, Answered, NoSocket, NoSlot, TypeOK, RequesterType
  <2>3. TaskType'
    BY <1>26, SlotFacts DEF AnswerTell, SendDone, AnswerSteps, reqVars, selVars,
       sendVars, closeVars, countVars, Answered, NoSocket, NoSlot, TypeOK, TaskType
  <2>4. CountType'
    BY <1>26, SlotFacts DEF AnswerTell, SendDone, AnswerSteps, reqVars, selVars,
       sendVars, closeVars, countVars, Answered, NoSocket, NoSlot, TypeOK, CountType
  <2> QED
    BY <2>1, <2>2, <2>3, <2>4, TypeParts
<1>27. CASE CloseTell
  <2>1. SharedType'
    BY <1>27, SlotFacts DEF CloseTell, SendDone, ToClose, reqVars, selVars, sendVars,
       countVars, Answered, NoSocket, NoSlot, TypeOK, SharedType
  <2>2. RequesterType'
    BY <1>27, SlotFacts DEF CloseTell, SendDone, ToClose, reqVars, selVars, sendVars,
       countVars, Answered, NoSocket, NoSlot, TypeOK, RequesterType
  <2>3. TaskType'
    BY <1>27, SlotFacts DEF CloseTell, SendDone, ToClose, reqVars, selVars, sendVars,
       countVars, Answered, NoSocket, NoSlot, TypeOK, TaskType
  <2>4. CountType'
    BY <1>27, SlotFacts DEF CloseTell, SendDone, ToClose, reqVars, selVars, sendVars,
       countVars, Answered, NoSocket, NoSlot, TypeOK, CountType
  <2> QED
    BY <2>1, <2>2, <2>3, <2>4, TypeParts
<1>28. CASE CloseFdsClear
  <2>1. SharedType'
    BY <1>28, SlotFacts DEF CloseFdsClear, Fd, reqVars, selVars, sendVars, countVars,
       NoSocket, NoSlot, TypeOK, SharedType
  <2>2. RequesterType'
    BY <1>28, SlotFacts DEF CloseFdsClear, Fd, reqVars, selVars, sendVars, countVars,
       NoSocket, NoSlot, TypeOK, RequesterType
  <2>3. TaskType'
    BY <1>28, SlotFacts DEF CloseFdsClear, Fd, reqVars, selVars, sendVars, countVars,
       NoSocket, NoSlot, TypeOK, TaskType
  <2>4. CountType'
    BY <1>28, SlotFacts DEF CloseFdsClear, Fd, reqVars, selVars, sendVars, countVars,
       NoSocket, NoSlot, TypeOK, CountType
  <2> QED
    BY <2>1, <2>2, <2>3, <2>4, TypeParts
<1>29. CASE CloseFd
  <2>1. SharedType'
    BY <1>29, SlotFacts DEF CloseFd, Fd, list, reqVars, selVars, sendVars, countVars,
       NoSocket, NoSlot, TypeOK, SharedType
  <2>2. RequesterType'
    BY <1>29, SlotFacts DEF CloseFd, Fd, list, reqVars, selVars, sendVars, countVars,
       NoSocket, NoSlot, TypeOK, RequesterType
  <2>3. TaskType'
    BY <1>29, SlotFacts DEF CloseFd, Fd, list, reqVars, selVars, sendVars, countVars,
       NoSocket, NoSlot, TypeOK, TaskType
  <2>4. CountType'
    BY <1>29, SlotFacts DEF CloseFd, Fd, list, reqVars, selVars, sendVars, countVars,
       NoSocket, NoSlot, TypeOK, CountType
  <2> QED
    BY <2>1, <2>2, <2>3, <2>4, TypeParts
<1>30. CASE CloseReset
  <2>1. SharedType'
    BY <1>30, SlotFacts DEF CloseReset, reqVars, selVars, sendVars, countVars, NoSocket,
       NoSlot, TypeOK, SharedType
  <2>2. RequesterType'
    BY <1>30, SlotFacts DEF CloseReset, reqVars, selVars, sendVars, countVars, NoSocket,
       NoSlot, TypeOK, RequesterType
  <2>3. TaskType'
    BY <1>30, SlotFacts DEF CloseReset, reqVars, selVars, sendVars, countVars, NoSocket,
       NoSlot, TypeOK, TaskType
  <2>4. CountType'
    BY <1>30, SlotFacts DEF CloseReset, reqVars, selVars, sendVars, countVars, NoSocket,
       NoSlot, TypeOK, CountType
  <2> QED
    BY <2>1, <2>2, <2>3, <2>4, TypeParts
<1>31. CASE CloseEnd
  <2>1. SharedType'
    BY <1>31, SlotFacts DEF CloseEnd, ToClose, sharedVars, reqVars, selVars, sendVars,
       countVars, NoSocket, NoSlot, TypeOK, SharedType
  <2>2. RequesterType'
    BY <1>31, SlotFacts DEF CloseEnd, ToClose, sharedVars, reqVars, selVars, sendVars,
       countVars, NoSocket, NoSlot, TypeOK, RequesterType
  <2>3. TaskType'
    BY <1>31, SlotFacts DEF CloseEnd, ToClose, sharedVars, reqVars, selVars, sendVars,
       countVars, NoSocket, NoSlot, TypeOK, TaskType
  <2>4. CountType'
    BY <1>31, SlotFacts DEF CloseEnd, ToClose, sharedVars, reqVars, selVars, sendVars,
       countVars, NoSocket, NoSlot, TypeOK, CountType
  <2> QED
    BY <2>1, <2>2, <2>3, <2>4, TypeParts
<1>32. CASE UNCHANGED vars
  BY <1>32 DEF vars, sharedVars, reqVars, selVars, sendVars, closeVars, countVars, TypeOK
<1> QED
  BY <1>1, <1>2, <1>3, <1>4, <1>5, <1>6, <1>7, <1>8, <1>9, <1>10, <1>11, <1>12, <1>13,
     <1>14, <1>15, <1>16, <1>17, <1>18, <1>19, <1>20, <1>21, <1>22, <1>23, <1>24, <1>25,
     <1>26, <1>27, <1>28, <1>29, <1>30, <1>31, <1>32
  DEF Next, RequesterStep, SocketTask, ScanStep, SendStep, AnswerStep, CloseStep

\* The types hold initially.
LEMMA TypeInit == Init => TypeOK
<1> SUFFICES ASSUME Init PROVE TypeOK
  OBVIOUS
<1>1. /\ NoRequest \in [socket : Slots \cup {NoSlot}, len : Nat, done : Nat, no : 0..MaxReq]
      /\ NoData \in [no : 0..MaxReq, len : Nat] /\ 0 \in 0..MaxReq
  BY BoundsAssumption DEF NoRequest, NoData
<1> QED
  BY <1>1, SlotFacts DEF Init, TypeOK

\* Every reachable state is well typed, with and without a time-out and lost peers: the
\* struct, table, fd sets and event bits shared by the two tasks (atcmd_socket.c:330-350,
\* lwip_socket.c).
THEOREM TypeCorrect == Spec => []TypeOK
<1>1. Init => TypeOK
  BY TypeInit
<1>2. TypeOK /\ [Next]_vars => TypeOK'
  BY TypeNext
<1> QED
  BY <1>1, <1>2, PTL DEF Spec

-----------------------------------------------------------------------------
(* The requester's steps.                                                   *)

\* Opening a socket sets no bit and no write request.
LEMMA OpenInv == ASSUME IInv, TypeOK', NEW id \in Ids, NEW udp \in BOOLEAN, Open(id, udp) PROVE IInv'
<1>0. ~crossed' => ~crossed
  BY DEF Open, First, reqVars, selVars, sendVars, closeVars, countVars, NoSocket, NoSlot
<1>1. RequestInv'
  BY IdsAssumption, BoundsAssumption DEF Open, First, reqVars, selVars, sendVars,
     closeVars, countVars, NoSocket, NoSlot, Slots, IInv, TypeOK, RequestInv
<1>2. WaitInv'
  BY IdsAssumption, BoundsAssumption DEF Open, First, reqVars, selVars, sendVars,
     closeVars, countVars, NoSocket, NoSlot, Slots, IInv, TypeOK, WaitInv, RequestInv
<1>3. ASSUME ~crossed' PROVE EntryInv'
  <2>1. PICK s \in Slots : First(s, NoSocket) /\ entry' = [entry EXCEPT ![s] = id]
    BY DEF Open
  <2>2. /\ EntryInv /\ id \notin alive /\ id # NoSocket /\ alive' = alive \cup {id}
        /\ entry \in [Slots -> Ids \cup {NoSocket}] /\ entry[s] = NoSocket
        /\ UNCHANGED <<tpc, tslot, tback, tfd>>
    BY <1>0, <1>3, <2>1, IdsAssumption
    DEF Open, First, NoSocket, IInv, TypeOK, selVars, sendVars, closeVars
  <2>3. entry'[s] = id /\ \A other \in Slots \ {s} : entry'[other] = entry[other]
    BY <2>1, <2>2
  <2> QED
    BY <2>2, <2>3 DEF EntryInv
<1>4. ASSUME ~crossed' PROVE ToldInv'
  BY <1>0, <1>4, IdsAssumption, BoundsAssumption DEF Open, First, reqVars, selVars,
     sendVars, closeVars, countVars, NoSocket, NoSlot, Slots, IInv, TypeOK, ToldInv,
     RequestInv, WaitInv, EntryInv, ServedInv, Told, Closing, Answering
<1>5. ASSUME ~crossed' PROVE ServedInv'
  <2>1. ServedInv /\ rpc = "idle"
    BY <1>0, <1>5 DEF IInv, Open
  <2>2. UNCHANGED <<tpc, tback, tid, rdyWrite, ti, treq, rpc, rno, bits>>
    BY DEF Open, reqVars, selVars, sendVars, closeVars
  <2> QED
    BY <2>1, <2>2 DEF ServedInv, Answering, Closing
<1> QED
  BY <1>1, <1>2, <1>3, <1>4, <1>5 DEF IInv, NoTimeout

\* A close by the requester finds nothing waiting.
LEMMA CloseInv == ASSUME IInv, TypeOK', NEW id \in Ids, Close(id) PROVE IInv'
<1>0. ~crossed' => ~crossed
  BY DEF Close, Answered, list, reqVars, selVars, sendVars, closeVars, countVars,
     NoSocket, NoSlot
<1>1. RequestInv'
  BY IdsAssumption, BoundsAssumption DEF Close, Answered, list, reqVars, selVars,
     sendVars, closeVars, countVars, NoSocket, NoSlot, Slots, IInv, TypeOK, RequestInv
<1>2. WaitInv'
  BY IdsAssumption, BoundsAssumption DEF Close, Answered, list, reqVars, selVars,
     sendVars, closeVars, countVars, NoSocket, NoSlot, Slots, IInv, TypeOK, WaitInv,
     RequestInv
<1>3. ASSUME ~crossed' PROVE EntryInv'
  BY <1>0, <1>3, IdsAssumption, BoundsAssumption DEF Close, Answered, list, reqVars,
     selVars, sendVars, closeVars, countVars, NoSocket, NoSlot, Slots, IInv, TypeOK,
     EntryInv
<1>4. ASSUME ~crossed' PROVE ToldInv'
  BY <1>0, <1>4, IdsAssumption, BoundsAssumption DEF Close, Answered, list, reqVars,
     selVars, sendVars, closeVars, countVars, NoSocket, NoSlot, Slots, IInv, TypeOK,
     ToldInv, RequestInv, WaitInv, EntryInv, ServedInv, Told, Closing, Answering
<1>5. ASSUME ~crossed' PROVE ServedInv'
  BY <1>0, <1>5, IdsAssumption, BoundsAssumption DEF Close, Answered, list, reqVars,
     selVars, sendVars, closeVars, countVars, NoSocket, NoSlot, Slots, IInv, TypeOK,
     ServedInv, RequestInv, WaitInv, ToldInv, Told, Closing, Answering
<1> QED
  BY <1>1, <1>2, <1>3, <1>4, <1>5 DEF IInv, NoTimeout

\* A request starts without bits.
LEMMA RequestKeepsInv == ASSUME IInv, TypeOK', NEW id \in Ids, NEW n \in 1..MaxLen, Request(id, n) PROVE IInv'
<1>0. ~crossed' => ~crossed
  BY DEF Request, First, selVars, sendVars, closeVars, NoSlot, NoSocket
<1>1. RequestInv'
  BY IdsAssumption, BoundsAssumption DEF Request, First, selVars, sendVars, closeVars,
     NoSlot, NoSocket, Slots, IInv, TypeOK, RequestInv
<1>2. WaitInv'
  BY IdsAssumption, BoundsAssumption DEF Request, First, selVars, sendVars, closeVars,
     NoSlot, NoSocket, Slots, IInv, TypeOK, WaitInv, RequestInv
<1>3. ASSUME ~crossed' PROVE EntryInv'
  BY <1>0, <1>3, IdsAssumption, BoundsAssumption DEF Request, First, selVars, sendVars,
     closeVars, NoSlot, NoSocket, Slots, IInv, TypeOK, EntryInv
<1>4. ASSUME ~crossed' PROVE ToldInv'
  BY <1>0, <1>4, IdsAssumption, BoundsAssumption DEF Request, First, selVars, sendVars,
     closeVars, NoSlot, NoSocket, Slots, IInv, TypeOK, ToldInv, RequestInv, WaitInv,
     EntryInv, ServedInv, Told, Closing, Answering
<1>5. ASSUME ~crossed' PROVE ServedInv'
  BY <1>0, <1>5, IdsAssumption, BoundsAssumption DEF Request, First, selVars, sendVars,
     closeVars, NoSlot, NoSocket, Slots, IInv, TypeOK, ServedInv, RequestInv, WaitInv,
     ToldInv, Told, Closing, Answering
<1> QED
  BY <1>1, <1>2, <1>3, <1>4, <1>5 DEF IInv, NoTimeout

\* The id is read for the call.
LEMMA CallInv == ASSUME IInv, TypeOK', Call PROVE IInv'
<1>0. ~crossed' => ~crossed
  BY DEF Call, sharedVars, selVars, sendVars, closeVars, countVars, NoSocket, NoSlot
<1>1. RequestInv'
  BY IdsAssumption, BoundsAssumption DEF Call, sharedVars, selVars, sendVars, closeVars,
     countVars, NoSocket, NoSlot, Slots, IInv, TypeOK, RequestInv
<1>2. WaitInv'
  BY IdsAssumption, BoundsAssumption DEF Call, sharedVars, selVars, sendVars, closeVars,
     countVars, NoSocket, NoSlot, Slots, IInv, TypeOK, WaitInv, RequestInv
<1>3. ASSUME ~crossed' PROVE EntryInv'
  BY <1>0, <1>3, IdsAssumption, BoundsAssumption DEF Call, sharedVars, selVars,
     sendVars, closeVars, countVars, NoSocket, NoSlot, Slots, IInv, TypeOK, EntryInv
<1>4. ASSUME ~crossed' PROVE ToldInv'
  BY <1>0, <1>4, IdsAssumption, BoundsAssumption DEF Call, sharedVars, selVars,
     sendVars, closeVars, countVars, NoSocket, NoSlot, Slots, IInv, TypeOK, ToldInv,
     RequestInv, WaitInv, EntryInv, ServedInv, Told, Closing, Answering
<1>5. ASSUME ~crossed' PROVE ServedInv'
  BY <1>0, <1>5, IdsAssumption, BoundsAssumption DEF Call, sharedVars, selVars,
     sendVars, closeVars, countVars, NoSocket, NoSlot, Slots, IInv, TypeOK, ServedInv,
     RequestInv, WaitInv, ToldInv, Told, Closing, Answering
<1> QED
  BY <1>1, <1>2, <1>3, <1>4, <1>5 DEF IInv, NoTimeout

\* The socket is set in fds.write.
LEMMA SetWriteInv == ASSUME IInv, TypeOK', SetWrite PROVE IInv'
<1>0. ~crossed' => ~crossed
  BY DEF SetWrite, Return, selVars, sendVars, closeVars, NoSocket, NoRequest, NoSlot
<1>1. RequestInv'
  BY IdsAssumption, BoundsAssumption DEF SetWrite, Return, selVars, sendVars, closeVars,
     NoSocket, NoRequest, NoSlot, Slots, IInv, TypeOK, RequestInv
<1>2. WaitInv'
  BY IdsAssumption, BoundsAssumption DEF SetWrite, Return, selVars, sendVars, closeVars,
     NoSocket, NoRequest, NoSlot, Slots, IInv, TypeOK, WaitInv, RequestInv
<1>3. ASSUME ~crossed' PROVE EntryInv'
  BY <1>0, <1>3, IdsAssumption, BoundsAssumption DEF SetWrite, Return, selVars,
     sendVars, closeVars, NoSocket, NoRequest, NoSlot, Slots, IInv, TypeOK, EntryInv
<1>4. ASSUME ~crossed' PROVE ToldInv'
  BY <1>0, <1>4, IdsAssumption, BoundsAssumption DEF SetWrite, Return, selVars,
     sendVars, closeVars, NoSocket, NoRequest, NoSlot, Slots, IInv, TypeOK, ToldInv,
     RequestInv, WaitInv, EntryInv, ServedInv, Told, Closing, Answering
<1>5. ASSUME ~crossed' PROVE ServedInv'
  BY <1>0, <1>5, IdsAssumption, BoundsAssumption DEF SetWrite, Return, selVars,
     sendVars, closeVars, NoSocket, NoRequest, NoSlot, Slots, IInv, TypeOK, ServedInv,
     RequestInv, WaitInv, ToldInv, Told, Closing, Answering
<1> QED
  BY <1>1, <1>2, <1>3, <1>4, <1>5 DEF IInv, NoTimeout

\* The requester takes its bit.
LEMMA WakeDoneInv == ASSUME IInv, TypeOK', WakeDone PROVE IInv'
<1>0. ~crossed' => ~crossed
  BY DEF WakeDone, selVars, sendVars, closeVars, countVars, NoSocket, NoSlot
<1>1. RequestInv'
  BY IdsAssumption, BoundsAssumption DEF WakeDone, selVars, sendVars, closeVars,
     countVars, NoSocket, NoSlot, Slots, IInv, TypeOK, RequestInv
<1>2. WaitInv'
  BY IdsAssumption, BoundsAssumption DEF WakeDone, selVars, sendVars, closeVars,
     countVars, NoSocket, NoSlot, Slots, IInv, TypeOK, WaitInv, RequestInv
<1>3. ASSUME ~crossed' PROVE EntryInv'
  BY <1>0, <1>3, IdsAssumption, BoundsAssumption DEF WakeDone, selVars, sendVars,
     closeVars, countVars, NoSocket, NoSlot, Slots, IInv, TypeOK, EntryInv
<1>4. ASSUME ~crossed' PROVE ToldInv'
  BY <1>0, <1>4, IdsAssumption, BoundsAssumption DEF WakeDone, selVars, sendVars,
     closeVars, countVars, NoSocket, NoSlot, Slots, IInv, TypeOK, ToldInv, RequestInv,
     WaitInv, EntryInv, ServedInv, Told, Closing, Answering
<1>5. ASSUME ~crossed' PROVE ServedInv'
  BY <1>0, <1>5, IdsAssumption, BoundsAssumption DEF WakeDone, selVars, sendVars,
     closeVars, countVars, NoSocket, NoSlot, Slots, IInv, TypeOK, ServedInv, RequestInv,
     WaitInv, ToldInv, Told, Closing, Answering
<1> QED
  BY <1>1, <1>2, <1>3, <1>4, <1>5 DEF IInv, NoTimeout

\* The requester leaves and wipes the request.
LEMMA CollectInv == ASSUME IInv, TypeOK', Collect PROVE IInv'
<1>0. ~crossed' => ~crossed
  BY DEF Collect, Return, selVars, sendVars, closeVars, NoRequest, NoSocket, NoSlot
<1>1. RequestInv'
  BY IdsAssumption, BoundsAssumption DEF Collect, Return, selVars, sendVars, closeVars,
     NoRequest, NoSocket, NoSlot, Slots, IInv, TypeOK, RequestInv
<1>2. WaitInv'
  BY IdsAssumption, BoundsAssumption DEF Collect, Return, selVars, sendVars, closeVars,
     NoRequest, NoSocket, NoSlot, Slots, IInv, TypeOK, WaitInv, RequestInv
<1>3. ASSUME ~crossed' PROVE EntryInv'
  BY <1>0, <1>3, IdsAssumption, BoundsAssumption DEF Collect, Return, selVars, sendVars,
     closeVars, NoRequest, NoSocket, NoSlot, Slots, IInv, TypeOK, EntryInv
<1>4. ASSUME ~crossed' PROVE ToldInv'
  BY <1>0, <1>4, IdsAssumption, BoundsAssumption DEF Collect, Return, selVars, sendVars,
     closeVars, NoRequest, NoSocket, NoSlot, Slots, IInv, TypeOK, ToldInv, RequestInv,
     WaitInv, EntryInv, ServedInv, Told, Closing, Answering
<1>5. ASSUME ~crossed' PROVE ServedInv'
  BY <1>0, <1>5, IdsAssumption, BoundsAssumption DEF Collect, Return, selVars, sendVars,
     closeVars, NoRequest, NoSocket, NoSlot, Slots, IInv, TypeOK, ServedInv, RequestInv,
     WaitInv, ToldInv, Told, Closing, Answering
<1> QED
  BY <1>1, <1>2, <1>3, <1>4, <1>5 DEF IInv, NoTimeout

-----------------------------------------------------------------------------
(* The socket task's steps.                                                 *)

\* What is told has left fds.write before the next snapshot.
LEMMA FdsGetInv == ASSUME IInv, TypeOK', FdsGet PROVE IInv'
<1>0. ~crossed' => ~crossed
  BY DEF FdsGet, NoData, sharedVars, reqVars, countVars, NoSocket, NoSlot
<1>1. RequestInv'
  BY IdsAssumption, BoundsAssumption DEF FdsGet, NoData, sharedVars, reqVars, countVars,
     NoSocket, NoSlot, Slots, IInv, TypeOK, RequestInv
<1>2. WaitInv'
  BY IdsAssumption, BoundsAssumption DEF FdsGet, NoData, sharedVars, reqVars, countVars,
     NoSocket, NoSlot, Slots, IInv, TypeOK, WaitInv, RequestInv
<1>3. ASSUME ~crossed' PROVE EntryInv'
  BY <1>0, <1>3, IdsAssumption, BoundsAssumption DEF FdsGet, NoData, sharedVars,
     reqVars, countVars, NoSocket, NoSlot, Slots, IInv, TypeOK, EntryInv
<1>4. ASSUME ~crossed' PROVE ToldInv'
  BY <1>0, <1>4, IdsAssumption, BoundsAssumption DEF FdsGet, NoData, sharedVars,
     reqVars, countVars, NoSocket, NoSlot, Slots, IInv, TypeOK, ToldInv, RequestInv,
     WaitInv, EntryInv, ServedInv, Told, Closing, Answering
<1>5. ASSUME ~crossed' PROVE ServedInv'
  BY <1>0, <1>5, IdsAssumption, BoundsAssumption DEF FdsGet, NoData, sharedVars,
     reqVars, countVars, NoSocket, NoSlot, Slots, IInv, TypeOK, ServedInv, RequestInv,
     WaitInv, ToldInv, Told, Closing, Answering
<1> QED
  BY <1>1, <1>2, <1>3, <1>4, <1>5 DEF IInv, NoTimeout

\* select() only narrows the snapshot.
LEMMA SelectInv == ASSUME IInv, TypeOK', Select PROVE IInv'
<1>0. ~crossed' => ~crossed
  BY DEF Select, sharedVars, reqVars, sendVars, closeVars, countVars, NoSocket, NoSlot
<1>1. RequestInv'
  BY IdsAssumption, BoundsAssumption DEF Select, sharedVars, reqVars, sendVars,
     closeVars, countVars, NoSocket, NoSlot, Slots, IInv, TypeOK, RequestInv
<1>2. WaitInv'
  BY IdsAssumption, BoundsAssumption DEF Select, sharedVars, reqVars, sendVars,
     closeVars, countVars, NoSocket, NoSlot, Slots, IInv, TypeOK, WaitInv, RequestInv
<1>3. ASSUME ~crossed' PROVE EntryInv'
  BY <1>0, <1>3, IdsAssumption, BoundsAssumption DEF Select, sharedVars, reqVars,
     sendVars, closeVars, countVars, NoSocket, NoSlot, Slots, IInv, TypeOK, EntryInv
<1>4. ASSUME ~crossed' PROVE ToldInv'
  BY <1>0, <1>4, IdsAssumption, BoundsAssumption DEF Select, sharedVars, reqVars,
     sendVars, closeVars, countVars, NoSocket, NoSlot, Slots, IInv, TypeOK, ToldInv,
     RequestInv, WaitInv, EntryInv, ServedInv, Told, Closing, Answering
<1>5. ASSUME ~crossed' PROVE ServedInv'
  BY <1>0, <1>5, IdsAssumption, BoundsAssumption DEF Select, sharedVars, reqVars,
     sendVars, closeVars, countVars, NoSocket, NoSlot, Slots, IInv, TypeOK, ServedInv,
     RequestInv, WaitInv, ToldInv, Told, Closing, Answering
<1> QED
  BY <1>1, <1>2, <1>3, <1>4, <1>5 DEF IInv, NoTimeout

\* The end of a scan.
LEMMA ScanEndInv == ASSUME IInv, TypeOK', ScanEnd PROVE IInv'
<1>0. ~crossed' => ~crossed
  BY DEF ScanEnd, sharedVars, reqVars, selVars, sendVars, closeVars, countVars,
     NoSocket, NoSlot
<1>1. RequestInv'
  BY IdsAssumption, BoundsAssumption DEF ScanEnd, sharedVars, reqVars, selVars,
     sendVars, closeVars, countVars, NoSocket, NoSlot, Slots, IInv, TypeOK, RequestInv
<1>2. WaitInv'
  BY IdsAssumption, BoundsAssumption DEF ScanEnd, sharedVars, reqVars, selVars,
     sendVars, closeVars, countVars, NoSocket, NoSlot, Slots, IInv, TypeOK, WaitInv,
     RequestInv
<1>3. ASSUME ~crossed' PROVE EntryInv'
  BY <1>0, <1>3, IdsAssumption, BoundsAssumption DEF ScanEnd, sharedVars, reqVars,
     selVars, sendVars, closeVars, countVars, NoSocket, NoSlot, Slots, IInv, TypeOK,
     EntryInv
<1>4. ASSUME ~crossed' PROVE ToldInv'
  BY <1>0, <1>4, IdsAssumption, BoundsAssumption DEF ScanEnd, sharedVars, reqVars,
     selVars, sendVars, closeVars, countVars, NoSocket, NoSlot, Slots, IInv, TypeOK,
     ToldInv, RequestInv, WaitInv, EntryInv, ServedInv, Told, Closing, Answering
<1>5. ASSUME ~crossed' PROVE ServedInv'
  BY <1>0, <1>5, IdsAssumption, BoundsAssumption DEF ScanEnd, sharedVars, reqVars,
     selVars, sendVars, closeVars, countVars, NoSocket, NoSlot, Slots, IInv, TypeOK,
     ServedInv, RequestInv, WaitInv, ToldInv, Told, Closing, Answering
<1> QED
  BY <1>1, <1>2, <1>3, <1>4, <1>5 DEF IInv, NoTimeout

\* A lost connection is found while receiving.
LEMMA RecvGoneInv == ASSUME IInv, TypeOK', NEW id \in Ids, RecvGone(id) PROVE IInv'
<1>0. ~crossed' => ~crossed
  BY DEF RecvGone, Serving, list, sharedVars, reqVars, sendVars, countVars, NoSocket,
     NoSlot
<1>1. RequestInv'
  BY IdsAssumption, BoundsAssumption DEF RecvGone, Serving, list, sharedVars, reqVars,
     sendVars, countVars, NoSocket, NoSlot, Slots, IInv, TypeOK, RequestInv
<1>2. WaitInv'
  BY IdsAssumption, BoundsAssumption DEF RecvGone, Serving, list, sharedVars, reqVars,
     sendVars, countVars, NoSocket, NoSlot, Slots, IInv, TypeOK, WaitInv, RequestInv
<1>3. ASSUME ~crossed' PROVE EntryInv'
  BY <1>0, <1>3, IdsAssumption, BoundsAssumption DEF RecvGone, Serving, list,
     sharedVars, reqVars, sendVars, countVars, NoSocket, NoSlot, Slots, IInv, TypeOK,
     EntryInv
<1>4. ASSUME ~crossed' PROVE ToldInv'
  BY <1>0, <1>4, IdsAssumption, BoundsAssumption DEF RecvGone, Serving, list,
     sharedVars, reqVars, sendVars, countVars, NoSocket, NoSlot, Slots, IInv, TypeOK,
     ToldInv, RequestInv, WaitInv, EntryInv, ServedInv, Told, Closing, Answering
<1>5. ASSUME ~crossed' PROVE ServedInv'
  BY <1>0, <1>5, IdsAssumption, BoundsAssumption DEF RecvGone, Serving, list,
     sharedVars, reqVars, sendVars, countVars, NoSocket, NoSlot, Slots, IInv, TypeOK,
     ServedInv, RequestInv, WaitInv, ToldInv, Told, Closing, Answering
<1> QED
  BY <1>1, <1>2, <1>3, <1>4, <1>5 DEF IInv, NoTimeout

\* A socket without a request is skipped.
LEMMA SendReadyNoneInv == ASSUME IInv, TypeOK', NEW id \in Ids, SendReadyNone(id) PROVE IInv'
<1>0. ~crossed' => ~crossed
  BY DEF SendReadyNone, ServingWrite, sharedVars, reqVars, sendVars, closeVars,
     countVars, NoSlot, Serving, NoSocket
<1>1. RequestInv'
  BY IdsAssumption, BoundsAssumption DEF SendReadyNone, ServingWrite, sharedVars,
     reqVars, sendVars, closeVars, countVars, NoSlot, Serving, NoSocket, Slots, IInv,
     TypeOK, RequestInv
<1>2. WaitInv'
  BY IdsAssumption, BoundsAssumption DEF SendReadyNone, ServingWrite, sharedVars,
     reqVars, sendVars, closeVars, countVars, NoSlot, Serving, NoSocket, Slots, IInv,
     TypeOK, WaitInv, RequestInv
<1>3. ASSUME ~crossed' PROVE EntryInv'
  BY <1>0, <1>3, IdsAssumption, BoundsAssumption DEF SendReadyNone, ServingWrite,
     sharedVars, reqVars, sendVars, closeVars, countVars, NoSlot, Serving, NoSocket,
     Slots, IInv, TypeOK, EntryInv
<1>4. ASSUME ~crossed' PROVE ToldInv'
  BY <1>0, <1>4, IdsAssumption, BoundsAssumption DEF SendReadyNone, ServingWrite,
     sharedVars, reqVars, sendVars, closeVars, countVars, NoSlot, Serving, NoSocket,
     Slots, IInv, TypeOK, ToldInv, RequestInv, WaitInv, EntryInv, ServedInv, Told,
     Closing, Answering
<1>5. ASSUME ~crossed' PROVE ServedInv'
  BY <1>0, <1>5, IdsAssumption, BoundsAssumption DEF SendReadyNone, ServingWrite,
     sharedVars, reqVars, sendVars, closeVars, countVars, NoSlot, Serving, NoSocket,
     Slots, IInv, TypeOK, ServedInv, RequestInv, WaitInv, ToldInv, Told, Closing,
     Answering
<1> QED
  BY <1>1, <1>2, <1>3, <1>4, <1>5 DEF IInv, NoTimeout

\* A request for another socket is answered unsent.
LEMMA SendReadyOtherInv == ASSUME IInv, TypeOK', NEW id \in Ids, SendReadyOther(id) PROVE IInv'
<1>0. ~crossed' => ~crossed
  BY DEF SendReadyOther, SendDone, ServingWrite, reqVars, sendVars, closeVars,
     countVars, NoSlot, Answered, Serving, NoSocket
<1>1. RequestInv'
  BY IdsAssumption, BoundsAssumption DEF SendReadyOther, SendDone, ServingWrite,
     reqVars, sendVars, closeVars, countVars, NoSlot, Answered, Serving, NoSocket,
     Slots, IInv, TypeOK, RequestInv
<1>2. WaitInv'
  BY IdsAssumption, BoundsAssumption DEF SendReadyOther, SendDone, ServingWrite,
     reqVars, sendVars, closeVars, countVars, NoSlot, Answered, Serving, NoSocket,
     Slots, IInv, TypeOK, WaitInv, RequestInv
<1>3. ASSUME ~crossed' PROVE EntryInv'
  BY <1>0, <1>3, IdsAssumption, BoundsAssumption DEF SendReadyOther, SendDone,
     ServingWrite, reqVars, sendVars, closeVars, countVars, NoSlot, Answered, Serving,
     NoSocket, Slots, IInv, TypeOK, EntryInv
<1>4. ASSUME ~crossed' PROVE ToldInv'
  BY <1>0, <1>4, IdsAssumption, BoundsAssumption DEF SendReadyOther, SendDone,
     ServingWrite, reqVars, sendVars, closeVars, countVars, NoSlot, Answered, Serving,
     NoSocket, Slots, IInv, TypeOK, ToldInv, RequestInv, WaitInv, EntryInv, ServedInv,
     Told, Closing, Answering
<1>5. ASSUME ~crossed' PROVE ServedInv'
  BY <1>0, <1>5, IdsAssumption, BoundsAssumption DEF SendReadyOther, SendDone,
     ServingWrite, reqVars, sendVars, closeVars, countVars, NoSlot, Answered, Serving,
     NoSocket, Slots, IInv, TypeOK, ServedInv, RequestInv, WaitInv, ToldInv, Told,
     Closing, Answering
<1> QED
  BY <1>1, <1>2, <1>3, <1>4, <1>5 DEF IInv, NoTimeout

\* A request is taken.
LEMMA SendReadyInv == ASSUME IInv, TypeOK', NEW id \in Ids, SendReady(id) PROVE IInv'
<1>0. ~crossed' => ~crossed
  BY DEF SendReady, ServingWrite, sharedVars, reqVars, countVars, NoSlot, Serving,
     NoSocket
<1>1. RequestInv'
  BY IdsAssumption, BoundsAssumption DEF SendReady, ServingWrite, sharedVars, reqVars,
     countVars, NoSlot, Serving, NoSocket, Slots, IInv, TypeOK, RequestInv
<1>2. WaitInv'
  BY IdsAssumption, BoundsAssumption DEF SendReady, ServingWrite, sharedVars, reqVars,
     countVars, NoSlot, Serving, NoSocket, Slots, IInv, TypeOK, WaitInv, RequestInv
<1>3. ASSUME ~crossed' PROVE EntryInv'
  BY <1>0, <1>3, IdsAssumption, BoundsAssumption DEF SendReady, ServingWrite,
     sharedVars, reqVars, countVars, NoSlot, Serving, NoSocket, Slots, IInv, TypeOK,
     EntryInv
<1>4. ASSUME ~crossed' PROVE ToldInv'
  BY <1>0, <1>4, IdsAssumption, BoundsAssumption DEF SendReady, ServingWrite,
     sharedVars, reqVars, countVars, NoSlot, Serving, NoSocket, Slots, IInv, TypeOK,
     ToldInv, RequestInv, WaitInv, EntryInv, ServedInv, Told, Closing, Answering
<1>5. ASSUME ~crossed' PROVE ServedInv'
  BY <1>0, <1>5, IdsAssumption, BoundsAssumption DEF SendReady, ServingWrite,
     sharedVars, reqVars, countVars, NoSlot, Serving, NoSocket, Slots, IInv, TypeOK,
     ServedInv, RequestInv, WaitInv, ToldInv, Told, Closing, Answering
<1> QED
  BY <1>1, <1>2, <1>3, <1>4, <1>5 DEF IInv, NoTimeout

\* lwIP takes some bytes.
LEMMA SendSomeInv == ASSUME IInv, TypeOK', SendSome PROVE IInv'
<1>0. ~crossed' => ~crossed
  BY DEF SendSome, Take, Fd, sharedVars, reqVars, selVars, closeVars, NoSocket, NoSlot
<1>1. RequestInv'
  BY IdsAssumption, BoundsAssumption DEF SendSome, Take, Fd, sharedVars, reqVars,
     selVars, closeVars, NoSocket, NoSlot, Slots, IInv, TypeOK, RequestInv
<1>2. WaitInv'
  BY IdsAssumption, BoundsAssumption DEF SendSome, Take, Fd, sharedVars, reqVars,
     selVars, closeVars, NoSocket, NoSlot, Slots, IInv, TypeOK, WaitInv, RequestInv
<1>3. ASSUME ~crossed' PROVE EntryInv'
  BY <1>0, <1>3, IdsAssumption, BoundsAssumption DEF SendSome, Take, Fd, sharedVars,
     reqVars, selVars, closeVars, NoSocket, NoSlot, Slots, IInv, TypeOK, EntryInv
<1>4. ASSUME ~crossed' PROVE ToldInv'
  BY <1>0, <1>4, IdsAssumption, BoundsAssumption DEF SendSome, Take, Fd, sharedVars,
     reqVars, selVars, closeVars, NoSocket, NoSlot, Slots, IInv, TypeOK, ToldInv,
     RequestInv, WaitInv, EntryInv, ServedInv, Told, Closing, Answering
<1>5. ASSUME ~crossed' PROVE ServedInv'
  BY <1>0, <1>5, IdsAssumption, BoundsAssumption DEF SendSome, Take, Fd, sharedVars,
     reqVars, selVars, closeVars, NoSocket, NoSlot, Slots, IInv, TypeOK, ServedInv,
     RequestInv, WaitInv, ToldInv, Told, Closing, Answering
<1> QED
  BY <1>1, <1>2, <1>3, <1>4, <1>5 DEF IInv, NoTimeout

\* lwIP is full.
LEMMA SendFullInv == ASSUME IInv, TypeOK', SendFull PROVE IInv'
<1>0. ~crossed' => ~crossed
  BY DEF SendFull, Take, Uncounted, Fd, sharedVars, reqVars, selVars, closeVars,
     NoSocket, NoSlot
<1>1. RequestInv'
  BY IdsAssumption, BoundsAssumption DEF SendFull, Take, Uncounted, Fd, sharedVars,
     reqVars, selVars, closeVars, NoSocket, NoSlot, Slots, IInv, TypeOK, RequestInv
<1>2. WaitInv'
  BY IdsAssumption, BoundsAssumption DEF SendFull, Take, Uncounted, Fd, sharedVars,
     reqVars, selVars, closeVars, NoSocket, NoSlot, Slots, IInv, TypeOK, WaitInv,
     RequestInv
<1>3. ASSUME ~crossed' PROVE EntryInv'
  BY <1>0, <1>3, IdsAssumption, BoundsAssumption DEF SendFull, Take, Uncounted, Fd,
     sharedVars, reqVars, selVars, closeVars, NoSocket, NoSlot, Slots, IInv, TypeOK,
     EntryInv
<1>4. ASSUME ~crossed' PROVE ToldInv'
  BY <1>0, <1>4, IdsAssumption, BoundsAssumption DEF SendFull, Take, Uncounted, Fd,
     sharedVars, reqVars, selVars, closeVars, NoSocket, NoSlot, Slots, IInv, TypeOK,
     ToldInv, RequestInv, WaitInv, EntryInv, ServedInv, Told, Closing, Answering
<1>5. ASSUME ~crossed' PROVE ServedInv'
  BY <1>0, <1>5, IdsAssumption, BoundsAssumption DEF SendFull, Take, Uncounted, Fd,
     sharedVars, reqVars, selVars, closeVars, NoSocket, NoSlot, Slots, IInv, TypeOK,
     ServedInv, RequestInv, WaitInv, ToldInv, Told, Closing, Answering
<1> QED
  BY <1>1, <1>2, <1>3, <1>4, <1>5 DEF IInv, NoTimeout

\* lwIP refuses to send.
LEMMA SendRefusedInv == ASSUME IInv, TypeOK', SendRefused PROVE IInv'
<1>0. ~crossed' => ~crossed
  BY DEF SendRefused, Take, Uncounted, Fd, sharedVars, reqVars, selVars, closeVars,
     NoSocket, NoSlot
<1>1. RequestInv'
  BY IdsAssumption, BoundsAssumption DEF SendRefused, Take, Uncounted, Fd, sharedVars,
     reqVars, selVars, closeVars, NoSocket, NoSlot, Slots, IInv, TypeOK, RequestInv
<1>2. WaitInv'
  BY IdsAssumption, BoundsAssumption DEF SendRefused, Take, Uncounted, Fd, sharedVars,
     reqVars, selVars, closeVars, NoSocket, NoSlot, Slots, IInv, TypeOK, WaitInv,
     RequestInv
<1>3. ASSUME ~crossed' PROVE EntryInv'
  BY <1>0, <1>3, IdsAssumption, BoundsAssumption DEF SendRefused, Take, Uncounted, Fd,
     sharedVars, reqVars, selVars, closeVars, NoSocket, NoSlot, Slots, IInv, TypeOK,
     EntryInv
<1>4. ASSUME ~crossed' PROVE ToldInv'
  BY <1>0, <1>4, IdsAssumption, BoundsAssumption DEF SendRefused, Take, Uncounted, Fd,
     sharedVars, reqVars, selVars, closeVars, NoSocket, NoSlot, Slots, IInv, TypeOK,
     ToldInv, RequestInv, WaitInv, EntryInv, ServedInv, Told, Closing, Answering
<1>5. ASSUME ~crossed' PROVE ServedInv'
  BY <1>0, <1>5, IdsAssumption, BoundsAssumption DEF SendRefused, Take, Uncounted, Fd,
     sharedVars, reqVars, selVars, closeVars, NoSocket, NoSlot, Slots, IInv, TypeOK,
     ServedInv, RequestInv, WaitInv, ToldInv, Told, Closing, Answering
<1> QED
  BY <1>1, <1>2, <1>3, <1>4, <1>5 DEF IInv, NoTimeout

\* The connection breaks while sending.
LEMMA SendBrokenInv == ASSUME IInv, TypeOK', SendBroken PROVE IInv'
<1>0. ~crossed' => ~crossed
  BY DEF SendBroken, Take, Uncounted, Fd, sharedVars, reqVars, selVars, closeVars,
     NoSocket, NoSlot
<1>1. RequestInv'
  BY IdsAssumption, BoundsAssumption DEF SendBroken, Take, Uncounted, Fd, sharedVars,
     reqVars, selVars, closeVars, NoSocket, NoSlot, Slots, IInv, TypeOK, RequestInv
<1>2. WaitInv'
  BY IdsAssumption, BoundsAssumption DEF SendBroken, Take, Uncounted, Fd, sharedVars,
     reqVars, selVars, closeVars, NoSocket, NoSlot, Slots, IInv, TypeOK, WaitInv,
     RequestInv
<1>3. ASSUME ~crossed' PROVE EntryInv'
  BY <1>0, <1>3, IdsAssumption, BoundsAssumption DEF SendBroken, Take, Uncounted, Fd,
     sharedVars, reqVars, selVars, closeVars, NoSocket, NoSlot, Slots, IInv, TypeOK,
     EntryInv
<1>4. ASSUME ~crossed' PROVE ToldInv'
  BY <1>0, <1>4, IdsAssumption, BoundsAssumption DEF SendBroken, Take, Uncounted, Fd,
     sharedVars, reqVars, selVars, closeVars, NoSocket, NoSlot, Slots, IInv, TypeOK,
     ToldInv, RequestInv, WaitInv, EntryInv, ServedInv, Told, Closing, Answering
<1>5. ASSUME ~crossed' PROVE ServedInv'
  BY <1>0, <1>5, IdsAssumption, BoundsAssumption DEF SendBroken, Take, Uncounted, Fd,
     sharedVars, reqVars, selVars, closeVars, NoSocket, NoSlot, Slots, IInv, TypeOK,
     ServedInv, RequestInv, WaitInv, ToldInv, Told, Closing, Answering
<1> QED
  BY <1>1, <1>2, <1>3, <1>4, <1>5 DEF IInv, NoTimeout

\* The close on the spot begins.
LEMMA BrokenCloseInv == ASSUME IInv, TypeOK', BrokenClose PROVE IInv'
<1>0. ~crossed' => ~crossed
  BY DEF BrokenClose, Fd, sharedVars, reqVars, selVars, sendVars, countVars, NoSocket,
     NoSlot
<1>1. RequestInv'
  BY IdsAssumption, BoundsAssumption DEF BrokenClose, Fd, sharedVars, reqVars, selVars,
     sendVars, countVars, NoSocket, NoSlot, Slots, IInv, TypeOK, RequestInv
<1>2. WaitInv'
  BY IdsAssumption, BoundsAssumption DEF BrokenClose, Fd, sharedVars, reqVars, selVars,
     sendVars, countVars, NoSocket, NoSlot, Slots, IInv, TypeOK, WaitInv, RequestInv
<1>3. ASSUME ~crossed' PROVE EntryInv'
  BY <1>0, <1>3, IdsAssumption, BoundsAssumption DEF BrokenClose, Fd, sharedVars,
     reqVars, selVars, sendVars, countVars, NoSocket, NoSlot, Slots, IInv, TypeOK,
     EntryInv
<1>4. ASSUME ~crossed' PROVE ToldInv'
  BY <1>0, <1>4, IdsAssumption, BoundsAssumption DEF BrokenClose, Fd, sharedVars,
     reqVars, selVars, sendVars, countVars, NoSocket, NoSlot, Slots, IInv, TypeOK,
     ToldInv, RequestInv, WaitInv, EntryInv, ServedInv, Told, Closing, Answering
<1>5. ASSUME ~crossed' PROVE ServedInv'
  BY <1>0, <1>5, IdsAssumption, BoundsAssumption DEF BrokenClose, Fd, sharedVars,
     reqVars, selVars, sendVars, countVars, NoSocket, NoSlot, Slots, IInv, TypeOK,
     ServedInv, RequestInv, WaitInv, ToldInv, Told, Closing, Answering
<1> QED
  BY <1>1, <1>2, <1>3, <1>4, <1>5 DEF IInv, NoTimeout

\* All bytes are taken.
LEMMA SendAllInv == ASSUME IInv, TypeOK', SendAll PROVE IInv'
<1>0. ~crossed' => ~crossed
  BY DEF SendAll, sharedVars, reqVars, selVars, sendVars, closeVars, countVars,
     NoSocket, NoSlot
<1>1. RequestInv'
  BY IdsAssumption, BoundsAssumption DEF SendAll, sharedVars, reqVars, selVars,
     sendVars, closeVars, countVars, NoSocket, NoSlot, Slots, IInv, TypeOK, RequestInv
<1>2. WaitInv'
  BY IdsAssumption, BoundsAssumption DEF SendAll, sharedVars, reqVars, selVars,
     sendVars, closeVars, countVars, NoSocket, NoSlot, Slots, IInv, TypeOK, WaitInv,
     RequestInv
<1>3. ASSUME ~crossed' PROVE EntryInv'
  BY <1>0, <1>3, IdsAssumption, BoundsAssumption DEF SendAll, sharedVars, reqVars,
     selVars, sendVars, closeVars, countVars, NoSocket, NoSlot, Slots, IInv, TypeOK,
     EntryInv
<1>4. ASSUME ~crossed' PROVE ToldInv'
  BY <1>0, <1>4, IdsAssumption, BoundsAssumption DEF SendAll, sharedVars, reqVars,
     selVars, sendVars, closeVars, countVars, NoSocket, NoSlot, Slots, IInv, TypeOK,
     ToldInv, RequestInv, WaitInv, EntryInv, ServedInv, Told, Closing, Answering
<1>5. ASSUME ~crossed' PROVE ServedInv'
  BY <1>0, <1>5, IdsAssumption, BoundsAssumption DEF SendAll, sharedVars, reqVars,
     selVars, sendVars, closeVars, countVars, NoSocket, NoSlot, Slots, IInv, TypeOK,
     ServedInv, RequestInv, WaitInv, ToldInv, Told, Closing, Answering
<1> QED
  BY <1>1, <1>2, <1>3, <1>4, <1>5 DEF IInv, NoTimeout

\* The answer begins.
LEMMA AnswerStartInv == ASSUME IInv, TypeOK', AnswerStart PROVE IInv'
<1>0. ~crossed' => ~crossed
  BY DEF AnswerStart, AnswerSteps, sharedVars, reqVars, selVars, sendVars, closeVars,
     countVars, NoSocket, NoSlot
<1>1. RequestInv'
  BY IdsAssumption, BoundsAssumption DEF AnswerStart, AnswerSteps, sharedVars, reqVars,
     selVars, sendVars, closeVars, countVars, NoSocket, NoSlot, Slots, IInv, TypeOK,
     RequestInv
<1>2. WaitInv'
  BY IdsAssumption, BoundsAssumption DEF AnswerStart, AnswerSteps, sharedVars, reqVars,
     selVars, sendVars, closeVars, countVars, NoSocket, NoSlot, Slots, IInv, TypeOK,
     WaitInv, RequestInv
<1>3. ASSUME ~crossed' PROVE EntryInv'
  BY <1>0, <1>3, IdsAssumption, BoundsAssumption DEF AnswerStart, AnswerSteps,
     sharedVars, reqVars, selVars, sendVars, closeVars, countVars, NoSocket, NoSlot,
     Slots, IInv, TypeOK, EntryInv
<1>4. ASSUME ~crossed' PROVE ToldInv'
  BY <1>0, <1>4, IdsAssumption, BoundsAssumption DEF AnswerStart, AnswerSteps,
     sharedVars, reqVars, selVars, sendVars, closeVars, countVars, NoSocket, NoSlot,
     Slots, IInv, TypeOK, ToldInv, RequestInv, WaitInv, EntryInv, ServedInv, Told,
     Closing, Answering
<1>5. ASSUME ~crossed' PROVE ServedInv'
  BY <1>0, <1>5, IdsAssumption, BoundsAssumption DEF AnswerStart, AnswerSteps,
     sharedVars, reqVars, selVars, sendVars, closeVars, countVars, NoSocket, NoSlot,
     Slots, IInv, TypeOK, ServedInv, RequestInv, WaitInv, ToldInv, Told, Closing,
     Answering
<1> QED
  BY <1>1, <1>2, <1>3, <1>4, <1>5 DEF IInv, NoTimeout

\* The request is cleared.
LEMMA AnswerClearInv == ASSUME IInv, TypeOK', AnswerClear PROVE IInv'
<1>0. ~crossed' => ~crossed
  BY DEF AnswerClear, AnswerSteps, reqVars, selVars, sendVars, closeVars, countVars,
     NoSlot, NoSocket
<1>1. RequestInv'
  BY IdsAssumption, BoundsAssumption DEF AnswerClear, AnswerSteps, reqVars, selVars,
     sendVars, closeVars, countVars, NoSlot, NoSocket, Slots, IInv, TypeOK, RequestInv
<1>2. WaitInv'
  BY IdsAssumption, BoundsAssumption DEF AnswerClear, AnswerSteps, reqVars, selVars,
     sendVars, closeVars, countVars, NoSlot, NoSocket, Slots, IInv, TypeOK, WaitInv,
     RequestInv
<1>3. ASSUME ~crossed' PROVE EntryInv'
  BY <1>0, <1>3, IdsAssumption, BoundsAssumption DEF AnswerClear, AnswerSteps, reqVars,
     selVars, sendVars, closeVars, countVars, NoSlot, NoSocket, Slots, IInv, TypeOK,
     EntryInv
<1>4. ASSUME ~crossed' PROVE ToldInv'
  BY <1>0, <1>4, IdsAssumption, BoundsAssumption DEF AnswerClear, AnswerSteps, reqVars,
     selVars, sendVars, closeVars, countVars, NoSlot, NoSocket, Slots, IInv, TypeOK,
     ToldInv, RequestInv, WaitInv, EntryInv, ServedInv, Told, Closing, Answering
<1>5. ASSUME ~crossed' PROVE ServedInv'
  BY <1>0, <1>5, IdsAssumption, BoundsAssumption DEF AnswerClear, AnswerSteps, reqVars,
     selVars, sendVars, closeVars, countVars, NoSlot, NoSocket, Slots, IInv, TypeOK,
     ServedInv, RequestInv, WaitInv, ToldInv, Told, Closing, Answering
<1> QED
  BY <1>1, <1>2, <1>3, <1>4, <1>5 DEF IInv, NoTimeout

\* The result is filled in.
LEMMA AnswerFillInv == ASSUME IInv, TypeOK', AnswerFill PROVE IInv'
<1>0. ~crossed' => ~crossed
  BY DEF AnswerFill, AnswerSteps, DoneCount, reqVars, selVars, sendVars, closeVars,
     countVars, NoSocket, NoSlot
<1>1. RequestInv'
  BY IdsAssumption, BoundsAssumption DEF AnswerFill, AnswerSteps, DoneCount, reqVars,
     selVars, sendVars, closeVars, countVars, NoSocket, NoSlot, Slots, IInv, TypeOK,
     RequestInv
<1>2. WaitInv'
  BY IdsAssumption, BoundsAssumption DEF AnswerFill, AnswerSteps, DoneCount, reqVars,
     selVars, sendVars, closeVars, countVars, NoSocket, NoSlot, Slots, IInv, TypeOK,
     WaitInv, RequestInv
<1>3. ASSUME ~crossed' PROVE EntryInv'
  BY <1>0, <1>3, IdsAssumption, BoundsAssumption DEF AnswerFill, AnswerSteps, DoneCount,
     reqVars, selVars, sendVars, closeVars, countVars, NoSocket, NoSlot, Slots, IInv,
     TypeOK, EntryInv
<1>4. ASSUME ~crossed' PROVE ToldInv'
  BY <1>0, <1>4, IdsAssumption, BoundsAssumption DEF AnswerFill, AnswerSteps, DoneCount,
     reqVars, selVars, sendVars, closeVars, countVars, NoSocket, NoSlot, Slots, IInv,
     TypeOK, ToldInv, RequestInv, WaitInv, EntryInv, ServedInv, Told, Closing, Answering
<1>5. ASSUME ~crossed' PROVE ServedInv'
  BY <1>0, <1>5, IdsAssumption, BoundsAssumption DEF AnswerFill, AnswerSteps, DoneCount,
     reqVars, selVars, sendVars, closeVars, countVars, NoSocket, NoSlot, Slots, IInv,
     TypeOK, ServedInv, RequestInv, WaitInv, ToldInv, Told, Closing, Answering
<1> QED
  BY <1>1, <1>2, <1>3, <1>4, <1>5 DEF IInv, NoTimeout

\* The requester is told.
LEMMA AnswerTellInv == ASSUME IInv, TypeOK', AnswerTell PROVE IInv'
<1>0. ~crossed' => ~crossed
  BY DEF AnswerTell, SendDone, AnswerSteps, reqVars, selVars, sendVars, closeVars,
     countVars, Answered, NoSocket, NoSlot
<1>1. RequestInv'
  BY IdsAssumption, BoundsAssumption DEF AnswerTell, SendDone, AnswerSteps, reqVars,
     selVars, sendVars, closeVars, countVars, Answered, NoSocket, NoSlot, Slots, IInv,
     TypeOK, RequestInv
<1>2. WaitInv'
  BY IdsAssumption, BoundsAssumption DEF AnswerTell, SendDone, AnswerSteps, reqVars,
     selVars, sendVars, closeVars, countVars, Answered, NoSocket, NoSlot, Slots, IInv,
     TypeOK, WaitInv, RequestInv
<1>3. ASSUME ~crossed' PROVE EntryInv'
  BY <1>0, <1>3, IdsAssumption, BoundsAssumption DEF AnswerTell, SendDone, AnswerSteps,
     reqVars, selVars, sendVars, closeVars, countVars, Answered, NoSocket, NoSlot,
     Slots, IInv, TypeOK, EntryInv
<1>4. ASSUME ~crossed' PROVE ToldInv'
  BY <1>0, <1>4, IdsAssumption, BoundsAssumption DEF AnswerTell, SendDone, AnswerSteps,
     reqVars, selVars, sendVars, closeVars, countVars, Answered, NoSocket, NoSlot,
     Slots, IInv, TypeOK, ToldInv, RequestInv, WaitInv, EntryInv, ServedInv, Told,
     Closing, Answering
<1>5. ASSUME ~crossed' PROVE ServedInv'
  BY <1>0, <1>5, IdsAssumption, BoundsAssumption DEF AnswerTell, SendDone, AnswerSteps,
     reqVars, selVars, sendVars, closeVars, countVars, Answered, NoSocket, NoSlot,
     Slots, IInv, TypeOK, ServedInv, RequestInv, WaitInv, ToldInv, Told, Closing,
     Answering
<1> QED
  BY <1>1, <1>2, <1>3, <1>4, <1>5 DEF IInv, NoTimeout

\* A close tells the requester first.
LEMMA CloseTellInv == ASSUME IInv, TypeOK', CloseTell PROVE IInv'
<1>0. ~crossed' => ~crossed
  BY DEF CloseTell, SendDone, ToClose, reqVars, selVars, sendVars, countVars, Answered,
     NoSocket, NoSlot
<1>1. RequestInv'
  BY IdsAssumption, BoundsAssumption DEF CloseTell, SendDone, ToClose, reqVars, selVars,
     sendVars, countVars, Answered, NoSocket, NoSlot, Slots, IInv, TypeOK, RequestInv
<1>2. WaitInv'
  BY IdsAssumption, BoundsAssumption DEF CloseTell, SendDone, ToClose, reqVars, selVars,
     sendVars, countVars, Answered, NoSocket, NoSlot, Slots, IInv, TypeOK, WaitInv,
     RequestInv
<1>3. ASSUME ~crossed' PROVE EntryInv'
  BY <1>0, <1>3, IdsAssumption, BoundsAssumption DEF CloseTell, SendDone, ToClose,
     reqVars, selVars, sendVars, countVars, Answered, NoSocket, NoSlot, Slots, IInv,
     TypeOK, EntryInv
<1>4. ASSUME ~crossed' PROVE ToldInv'
  BY <1>0, <1>4, IdsAssumption, BoundsAssumption DEF CloseTell, SendDone, ToClose,
     reqVars, selVars, sendVars, countVars, Answered, NoSocket, NoSlot, Slots, IInv,
     TypeOK, ToldInv, RequestInv, WaitInv, EntryInv, ServedInv, Told, Closing, Answering
<1>5. ASSUME ~crossed' PROVE ServedInv'
  BY <1>0, <1>5, IdsAssumption, BoundsAssumption DEF CloseTell, SendDone, ToClose,
     reqVars, selVars, sendVars, countVars, Answered, NoSocket, NoSlot, Slots, IInv,
     TypeOK, ServedInv, RequestInv, WaitInv, ToldInv, Told, Closing, Answering
<1> QED
  BY <1>1, <1>2, <1>3, <1>4, <1>5 DEF IInv, NoTimeout

\* A close leaves the fd sets.
LEMMA CloseFdsClearInv == ASSUME IInv, TypeOK', CloseFdsClear PROVE IInv'
<1>0. ~crossed' => ~crossed
  BY DEF CloseFdsClear, Fd, reqVars, selVars, sendVars, countVars, NoSocket, NoSlot
<1>1. RequestInv'
  BY IdsAssumption, BoundsAssumption DEF CloseFdsClear, Fd, reqVars, selVars, sendVars,
     countVars, NoSocket, NoSlot, Slots, IInv, TypeOK, RequestInv
<1>2. WaitInv'
  BY IdsAssumption, BoundsAssumption DEF CloseFdsClear, Fd, reqVars, selVars, sendVars,
     countVars, NoSocket, NoSlot, Slots, IInv, TypeOK, WaitInv, RequestInv
<1>3. ASSUME ~crossed' PROVE EntryInv'
  BY <1>0, <1>3, IdsAssumption, BoundsAssumption DEF CloseFdsClear, Fd, reqVars,
     selVars, sendVars, countVars, NoSocket, NoSlot, Slots, IInv, TypeOK, EntryInv
<1>4. ASSUME ~crossed' PROVE ToldInv'
  BY <1>0, <1>4, IdsAssumption, BoundsAssumption DEF CloseFdsClear, Fd, reqVars,
     selVars, sendVars, countVars, NoSocket, NoSlot, Slots, IInv, TypeOK, ToldInv,
     RequestInv, WaitInv, EntryInv, ServedInv, Told, Closing, Answering
<1>5. ASSUME ~crossed' PROVE ServedInv'
  BY <1>0, <1>5, IdsAssumption, BoundsAssumption DEF CloseFdsClear, Fd, reqVars,
     selVars, sendVars, countVars, NoSocket, NoSlot, Slots, IInv, TypeOK, ServedInv,
     RequestInv, WaitInv, ToldInv, Told, Closing, Answering
<1> QED
  BY <1>1, <1>2, <1>3, <1>4, <1>5 DEF IInv, NoTimeout

\* lwIP closes the fd.
LEMMA CloseFdInv == ASSUME IInv, TypeOK', CloseFd PROVE IInv'
<1>0. ~crossed' => ~crossed
  BY DEF CloseFd, Fd, list, reqVars, selVars, sendVars, countVars, NoSocket, NoSlot
<1>1. RequestInv'
  BY IdsAssumption, BoundsAssumption DEF CloseFd, Fd, list, reqVars, selVars, sendVars,
     countVars, NoSocket, NoSlot, Slots, IInv, TypeOK, RequestInv
<1>2. WaitInv'
  BY IdsAssumption, BoundsAssumption DEF CloseFd, Fd, list, reqVars, selVars, sendVars,
     countVars, NoSocket, NoSlot, Slots, IInv, TypeOK, WaitInv, RequestInv
<1>3. ASSUME ~crossed' PROVE EntryInv'
  BY <1>0, <1>3, IdsAssumption, BoundsAssumption DEF CloseFd, Fd, list, reqVars,
     selVars, sendVars, countVars, NoSocket, NoSlot, Slots, IInv, TypeOK, EntryInv
<1>4. ASSUME ~crossed' PROVE ToldInv'
  BY <1>0, <1>4, IdsAssumption, BoundsAssumption DEF CloseFd, Fd, list, reqVars,
     selVars, sendVars, countVars, NoSocket, NoSlot, Slots, IInv, TypeOK, ToldInv,
     RequestInv, WaitInv, EntryInv, ServedInv, Told, Closing, Answering
<1>5. ASSUME ~crossed' PROVE ServedInv'
  BY <1>0, <1>5, IdsAssumption, BoundsAssumption DEF CloseFd, Fd, list, reqVars,
     selVars, sendVars, countVars, NoSocket, NoSlot, Slots, IInv, TypeOK, ServedInv,
     RequestInv, WaitInv, ToldInv, Told, Closing, Answering
<1> QED
  BY <1>1, <1>2, <1>3, <1>4, <1>5 DEF IInv, NoTimeout

\* The entry is reset.
LEMMA CloseResetInv == ASSUME IInv, TypeOK', CloseReset PROVE IInv'
<1>0. ~crossed' => ~crossed
  BY DEF CloseReset, reqVars, selVars, sendVars, countVars, NoSocket, NoSlot
<1>1. RequestInv'
  BY IdsAssumption, BoundsAssumption DEF CloseReset, reqVars, selVars, sendVars,
     countVars, NoSocket, NoSlot, Slots, IInv, TypeOK, RequestInv
<1>2. WaitInv'
  BY IdsAssumption, BoundsAssumption DEF CloseReset, reqVars, selVars, sendVars,
     countVars, NoSocket, NoSlot, Slots, IInv, TypeOK, WaitInv, RequestInv
<1>3. ASSUME ~crossed' PROVE EntryInv'
  BY <1>0, <1>3, IdsAssumption, BoundsAssumption DEF CloseReset, reqVars, selVars,
     sendVars, countVars, NoSocket, NoSlot, Slots, IInv, TypeOK, EntryInv
<1>4. ASSUME ~crossed' PROVE ToldInv'
  BY <1>0, <1>4, IdsAssumption, BoundsAssumption DEF CloseReset, reqVars, selVars,
     sendVars, countVars, NoSocket, NoSlot, Slots, IInv, TypeOK, ToldInv, RequestInv,
     WaitInv, EntryInv, ServedInv, Told, Closing, Answering
<1>5. ASSUME ~crossed' PROVE ServedInv'
  BY <1>0, <1>5, IdsAssumption, BoundsAssumption DEF CloseReset, reqVars, selVars,
     sendVars, countVars, NoSocket, NoSlot, Slots, IInv, TypeOK, ServedInv, RequestInv,
     WaitInv, ToldInv, Told, Closing, Answering
<1> QED
  BY <1>1, <1>2, <1>3, <1>4, <1>5 DEF IInv, NoTimeout

\* The loop over the entries is through.
LEMMA CloseEndInv == ASSUME IInv, TypeOK', CloseEnd PROVE IInv'
<1>0. ~crossed' => ~crossed
  BY DEF CloseEnd, ToClose, sharedVars, reqVars, selVars, sendVars, countVars, NoSocket,
     NoSlot
<1>1. RequestInv'
  BY IdsAssumption, BoundsAssumption DEF CloseEnd, ToClose, sharedVars, reqVars,
     selVars, sendVars, countVars, NoSocket, NoSlot, Slots, IInv, TypeOK, RequestInv
<1>2. WaitInv'
  BY IdsAssumption, BoundsAssumption DEF CloseEnd, ToClose, sharedVars, reqVars,
     selVars, sendVars, countVars, NoSocket, NoSlot, Slots, IInv, TypeOK, WaitInv,
     RequestInv
<1>3. ASSUME ~crossed' PROVE EntryInv'
  BY <1>0, <1>3, IdsAssumption, BoundsAssumption DEF CloseEnd, ToClose, sharedVars,
     reqVars, selVars, sendVars, countVars, NoSocket, NoSlot, Slots, IInv, TypeOK,
     EntryInv
<1>4. ASSUME ~crossed' PROVE ToldInv'
  BY <1>0, <1>4, IdsAssumption, BoundsAssumption DEF CloseEnd, ToClose, sharedVars,
     reqVars, selVars, sendVars, countVars, NoSocket, NoSlot, Slots, IInv, TypeOK,
     ToldInv, RequestInv, WaitInv, EntryInv, ServedInv, Told, Closing, Answering
<1>5. ASSUME ~crossed' PROVE ServedInv'
  BY <1>0, <1>5, IdsAssumption, BoundsAssumption DEF CloseEnd, ToClose, sharedVars,
     reqVars, selVars, sendVars, countVars, NoSocket, NoSlot, Slots, IInv, TypeOK,
     ServedInv, RequestInv, WaitInv, ToldInv, Told, Closing, Answering
<1> QED
  BY <1>1, <1>2, <1>3, <1>4, <1>5 DEF IInv, NoTimeout

-----------------------------------------------------------------------------
\* The invariant holds initially.
LEMMA InitInv == NoTimeout /\ Init => IInv
<1> SUFFICES ASSUME NoTimeout, Init PROVE IInv
  OBVIOUS
<1>1. TypeOK
  BY TypeInit
<1>2. RequestInv /\ WaitInv
  BY DEF Init, NoRequest, RequestInv, WaitInv
<1>3. EntryInv /\ ToldInv /\ ServedInv
  BY DEF Init, NoRequest, EntryInv, ToldInv, ServedInv, Told, Closing, Answering
<1> QED
  BY <1>1, <1>2, <1>3 DEF IInv

\* Every step keeps the invariant.
LEMMA NextInv == IInv /\ [Next]_vars => IInv'
<1> SUFFICES ASSUME IInv, [Next]_vars PROVE IInv'
  OBVIOUS
<1>0. TypeOK'
  BY TypeNext DEF IInv
<1>1. CASE \E id \in Ids, udp \in BOOLEAN : Open(id, udp)
  BY <1>0, <1>1, OpenInv
<1>2. CASE \E id \in Ids : Close(id)
  BY <1>0, <1>2, CloseInv
<1>3. CASE \E id \in Ids, n \in 1..MaxLen : Request(id, n)
  BY <1>0, <1>3, RequestKeepsInv
<1>4. CASE RequesterStep
  <2>1. ~UnsetWrite
    BY DEF UnsetWrite, IInv, RequestInv
  <2> QED
    BY <1>0, <1>4, <2>1, CallInv, SetWriteInv, WakeDoneInv, CollectInv DEF RequesterStep
<1>5. CASE WakeTimeout
  BY <1>5 DEF WakeTimeout, IInv, NoTimeout
<1>6. CASE FdsGet \/ Select
  BY <1>0, <1>6, FdsGetInv, SelectInv
<1>7. CASE ScanStep
  BY <1>0, <1>7, ScanEndInv, RecvGoneInv, SendReadyNoneInv, SendReadyOtherInv, SendReadyInv
  DEF ScanStep
<1>8. CASE SendStep
  BY <1>0, <1>8, SendSomeInv, SendFullInv, SendRefusedInv, SendBrokenInv, BrokenCloseInv,
     SendAllInv DEF SendStep
<1>9. CASE AnswerStep
  BY <1>0, <1>9, AnswerStartInv, AnswerClearInv, AnswerFillInv, AnswerTellInv DEF AnswerStep
<1>10. CASE CloseStep
  BY <1>0, <1>10, CloseTellInv, CloseFdsClearInv, CloseFdInv, CloseResetInv, CloseEndInv
  DEF CloseStep
<1>11. CASE UNCHANGED vars
  BY <1>0, <1>11
  DEF NoTimeout, vars, sharedVars, reqVars, selVars, sendVars, closeVars, countVars, IInv,
      RequestInv, WaitInv, EntryInv, ToldInv, ServedInv, Told, Closing, Answering
<1> QED
  BY <1>1, <1>2, <1>3, <1>4, <1>5, <1>6, <1>7, <1>8, <1>9, <1>10, <1>11 DEF Next, SocketTask

\* The invariant holds in every reachable state.
THEOREM Invariance == NoTimeout /\ Spec => []IInv
  BY InitInv, NextInv, PTL DEF Spec

\* No send_done bit outlives the request it answers, for any number of sockets and
\* requests (_lwip_socket_send_request, _lwip_socket_send_done).
THEOREM NoBitLeft == NoTimeout /\ Spec => []NoStaleBit
<1>1. IInv => NoStaleBit
  BY DEF IInv, WaitInv, NoStaleBit
<1> QED
  BY <1>1, Invariance, PTL

\* __atcmd_socket_send_data reads the buffer only during the call that passed it, as long
\* as the socket task's close() has hit no socket opened anew.
THEOREM BufferOwned == NoTimeout /\ Spec => []BufferStable
<1>1. IInv => BufferStable
  BY DEF IInv, ServedInv, BufferStable
<1> QED
  BY <1>1, Invariance, PTL

-----------------------------------------------------------------------------
(* As long as the peers stay, too, the answer is the request's own.           *)

\* No peer goes away.
Calm == Errors = FALSE

\* The requester waits for its socket, not told yet.
Waiting == rpc = "wait" /\ bits = {} /\ fdsWrite = {rfd}

\* An entry's socket is open, and only the requester closes sockets.
ListInv ==
  /\ \A s \in Slots : entry[s] # NoSocket => entry[s] \in alive
  /\ rpc # "idle" => entry[rslot] # NoSocket
  /\ ~Closing /\ tpc # "broken" /\ rdyRead = {}

\* What select has been asked for, found or served is the request waited for.
TurnInv ==
  /\ tpc = "select" /\ snapWrite # {} => Waiting /\ req.socket = rslot /\ snapWrite = {rfd}
  /\ tpc = "scan" /\ rdyWrite # {} => Waiting /\ req.socket = rslot /\ rdyWrite = {rfd}
  /\ Answering => /\ Waiting /\ tid = rfd /\ tslot = rslot
                  /\ treq.no = rno /\ rdyWrite = {}
  /\ tpc \in {"fill", "tell"} <=> rpc = "wait" /\ bits = {} /\ req.socket = NoSlot
  /\ rpc \in {"request", "call"} => req.socket = rslot
  /\ rpc \in {"call", "wait", "collect"} => rfd = entry[rslot]
  /\ rpc = "wait" /\ bits = {} => fdsWrite = {rfd}

\* k bytes may be reported of request n.
Counts(k, n) == k <= handed[n] /\ (n \in streams => k = handed[n])

\* The bytes of the outstanding request, from the first one to the caller's answer.
CountInv ==
  /\ \A n \in 1..MaxReq : n > rno => reported[n] = -1 /\ handed[n] = 0 /\ n \notin streams
  /\ \A n \in 1..MaxReq : n < rno => Counts(reported[n], n)
  /\ rpc = "idle" /\ rno # 0 => Counts(reported[rno], rno)
  /\ rpc # "idle" => reported[rno] = -1 /\ (rno \in streams <=> entry[rslot] \notin dgram)
  /\ rpc \in {"request", "call"} => handed[rno] = 0
  /\ rpc = "wait" /\ bits = {} /\ ~Answering => handed[rno] = 0
  /\ Answering => Counts(ti, rno)
  /\ tpc = "tell" => req.done = ti
  /\ Told => Counts(req.done, rno)

CalmInv == IInv /\ Calm /\ ListInv /\ TurnInv /\ CountInv

\* Bytes taken while sending are the outstanding request's, and nobody was told of it yet.
LEMMA TakeCalm ==
  ASSUME CalmInv, tpc = "send", NEW k \in Nat, Take(k),
         UNCHANGED <<entry, dgram, rslot, rpc, rno, bits, req, reported, streams>>,
         tpc' \in {"send", "answer"}
  PROVE  /\ handed[rno] \in Nat /\ handed'[rno] = handed[rno] + k
         /\ ~Told' /\ rpc' = "wait" /\ tpc' # "tell"
         /\ \A n \in 1..MaxReq : n > rno =>
              reported'[n] = -1 /\ handed'[n] = 0 /\ n \notin streams'
         /\ \A n \in 1..MaxReq : n < rno => Counts(reported[n], n)'
         /\ reported'[rno] = -1 /\ (rno \in streams' <=> entry'[rslot'] \notin dgram')
<1>1. /\ rpc = "wait" /\ bits = {} /\ treq.no = rno /\ rno \in 1..MaxReq
      /\ handed \in [1..MaxReq -> Nat]
  BY DEF CalmInv, TurnInv, Waiting, Answering, IInv, RequestInv, TypeOK
<1>2. /\ handed'[rno] = handed[rno] + k
      /\ \A n \in 1..MaxReq : n # rno => handed'[n] = handed[n]
  BY <1>1 DEF Take
<1>3. \A n \in 1..MaxReq : n < rno \/ n > rno => n # rno
  BY <1>1
<1>4. ASSUME NEW n \in 1..MaxReq, n < rno PROVE Counts(reported[n], n)'
  BY <1>2, <1>3, <1>4 DEF Counts, CalmInv, CountInv
<1>5. ASSUME NEW n \in 1..MaxReq, n > rno
      PROVE  reported'[n] = -1 /\ handed'[n] = 0 /\ n \notin streams'
  BY <1>2, <1>3, <1>5 DEF CalmInv, CountInv
<1> QED
  BY <1>1, <1>2, <1>4, <1>5 DEF CalmInv, CountInv, Told

\* Opening a socket adds it to the entries and to lwIP.
LEMMA OpenCalm ==
  ASSUME CalmInv, IInv', NEW id \in Ids, NEW udp \in BOOLEAN, Open(id, udp)
  PROVE  CalmInv'
<1>1. ListInv'
  BY IdsAssumption, BoundsAssumption DEF Open, First, reqVars, selVars, sendVars,
     closeVars, countVars, NoSocket, NoSlot, Slots, CalmInv, ListInv, Calm, Closing,
     Answering, TurnInv, IInv, RequestInv, TypeOK
<1>2. TurnInv'
  BY IdsAssumption, BoundsAssumption DEF Open, First, reqVars, selVars, sendVars,
     closeVars, countVars, NoSocket, NoSlot, Slots, CalmInv, ListInv, TurnInv, Waiting,
     Answering, Closing, IInv, RequestInv, WaitInv, TypeOK, Calm
<1>3. CountInv'
  BY IdsAssumption, BoundsAssumption DEF Open, First, reqVars, selVars, sendVars,
     closeVars, countVars, NoSocket, NoSlot, Slots, CalmInv, ListInv, TurnInv, CountInv,
     Counts, Waiting, Told, Answering, IInv, RequestInv, WaitInv, TypeOK
<1> QED
  BY <1>1, <1>2, <1>3 DEF CalmInv, Calm

\* The requester closes a socket between its requests.
LEMMA CloseCalm ==
  ASSUME CalmInv, IInv', NEW id \in Ids, Close(id)
  PROVE  CalmInv'
<1>1. ListInv'
  BY IdsAssumption, BoundsAssumption DEF Close, Answered, list, reqVars, selVars,
     sendVars, closeVars, countVars, NoSocket, NoSlot, Slots, CalmInv, ListInv, Calm,
     Closing, Answering, TurnInv, IInv, RequestInv, TypeOK
<1>2. TurnInv'
  BY IdsAssumption, BoundsAssumption DEF Close, Answered, list, reqVars, selVars,
     sendVars, closeVars, countVars, NoSocket, NoSlot, Slots, CalmInv, ListInv, TurnInv,
     Waiting, Answering, Closing, IInv, RequestInv, WaitInv, TypeOK, Calm
<1>3. CountInv'
  BY IdsAssumption, BoundsAssumption DEF Close, Answered, list, reqVars, selVars,
     sendVars, closeVars, countVars, NoSocket, NoSlot, Slots, CalmInv, ListInv, TurnInv,
     CountInv, Counts, Waiting, Told, Answering, IInv, RequestInv, WaitInv, TypeOK
<1> QED
  BY <1>1, <1>2, <1>3 DEF CalmInv, Calm

\* A new request has no bytes yet.
LEMMA RequestCalm ==
  ASSUME CalmInv, IInv', NEW id \in Ids, NEW n \in 1..MaxLen, Request(id, n)
  PROVE  CalmInv'
<1>1. ListInv'
  BY IdsAssumption, BoundsAssumption DEF Request, First, selVars, sendVars, closeVars,
     NoSlot, NoSocket, Slots, CalmInv, ListInv, Calm, Closing, Answering, TurnInv, IInv,
     RequestInv, TypeOK
<1>2. TurnInv'
  BY IdsAssumption, BoundsAssumption DEF Request, First, selVars, sendVars, closeVars,
     NoSlot, NoSocket, Slots, CalmInv, ListInv, TurnInv, Waiting, Answering, Closing,
     IInv, RequestInv, WaitInv, TypeOK, Calm
<1>3. CountInv'
  <2>0. rno \in Nat
    BY DEF CalmInv, IInv, TypeOK
  <2>1. PICK s \in Slots : entry[s] = id /\ rslot' = s
    BY DEF Request, First
  <2>2. /\ rpc = "idle" /\ rpc' = "request" /\ rno' = rno + 1 /\ rno + 1 \in 1..MaxReq
        /\ streams' = IF id \in dgram THEN streams ELSE streams \cup {rno + 1}
        /\ UNCHANGED <<entry, bits, dgram, tpc, sendVars, handed, reported>>
    BY BoundsAssumption DEF Request, CalmInv, IInv, TypeOK
  <2>3. ~Answering /\ ~Answering' /\ ~Told' /\ tpc' # "tell"
    BY <2>2 DEF CalmInv, TurnInv, Waiting, Answering, Told
  <2>4. \A m \in 1..MaxReq : m # rno + 1 => (m \in streams' <=> m \in streams)
    BY <2>2
  <2>5. /\ reported'[rno'] = -1 /\ handed'[rno'] = 0
        /\ rno' \in streams' <=> entry'[rslot'] \notin dgram'
    <3>1. rno + 1 > rno
      BY DEF CalmInv, IInv, TypeOK
    <3>2. reported[rno + 1] = -1 /\ handed[rno + 1] = 0 /\ rno + 1 \notin streams
      BY <2>2, <3>1 DEF CalmInv, CountInv
    <3> QED
      BY <2>1, <2>2, <3>2
  <2>6. \A m \in 1..MaxReq :
          m > rno' => reported'[m] = -1 /\ handed'[m] = 0 /\ m \notin streams'
    <3> SUFFICES ASSUME NEW m \in 1..MaxReq, m > rno'
                 PROVE  reported'[m] = -1 /\ handed'[m] = 0 /\ m \notin streams'
      OBVIOUS
    <3>0. rno \in Nat /\ m \in Nat /\ m > rno + 1
      BY <2>0, <2>2
    <3>1. m > rno /\ m # rno + 1
      BY <3>0
    <3> QED
      BY <2>2, <2>4, <3>1 DEF CalmInv, CountInv
  <2>7. \A m \in 1..MaxReq : m < rno' => Counts(reported[m], m)'
    <3> SUFFICES ASSUME NEW m \in 1..MaxReq, m < rno'
                 PROVE  Counts(reported[m], m)'
      OBVIOUS
    <3>0. rno \in Nat /\ m \in Nat /\ m >= 1 /\ m < rno + 1
      BY <2>0, <2>2
    <3>1. (m < rno \/ (m = rno /\ rno # 0)) /\ m # rno + 1
      BY <3>0
    <3>2. Counts(reported[m], m)
      BY <2>2, <3>1 DEF CalmInv, CountInv
    <3> QED
      BY <2>2, <2>4, <3>1, <3>2 DEF Counts
  <2> QED
    BY <2>2, <2>3, <2>5, <2>6, <2>7 DEF CountInv
<1> QED
  BY <1>1, <1>2, <1>3 DEF CalmInv, Calm

\* The id read is the entry's.
LEMMA CallCalm ==
  ASSUME CalmInv, IInv', Call
  PROVE  CalmInv'
<1>1. ListInv'
  BY IdsAssumption, BoundsAssumption DEF Call, sharedVars, selVars, sendVars, closeVars,
     countVars, NoSocket, NoSlot, Slots, CalmInv, ListInv, Calm, Closing, Answering,
     TurnInv, IInv, RequestInv, TypeOK
<1>2. TurnInv'
  BY IdsAssumption, BoundsAssumption DEF Call, sharedVars, selVars, sendVars, closeVars,
     countVars, NoSocket, NoSlot, Slots, CalmInv, ListInv, TurnInv, Waiting, Answering,
     Closing, IInv, RequestInv, WaitInv, TypeOK, Calm
<1>3. CountInv'
  BY IdsAssumption, BoundsAssumption DEF Call, sharedVars, selVars, sendVars, closeVars,
     countVars, NoSocket, NoSlot, Slots, CalmInv, ListInv, TurnInv, CountInv, Counts,
     Waiting, Told, Answering, IInv, RequestInv, WaitInv, TypeOK
<1> QED
  BY <1>1, <1>2, <1>3 DEF CalmInv, Calm

\* The requester waits for its own socket.
LEMMA SetWriteCalm ==
  ASSUME CalmInv, IInv', SetWrite
  PROVE  CalmInv'
<1>1. ListInv'
  BY IdsAssumption, BoundsAssumption DEF SetWrite, Return, selVars, sendVars, closeVars,
     NoSocket, NoRequest, NoSlot, Slots, CalmInv, ListInv, Calm, Closing, Answering,
     TurnInv, IInv, RequestInv, TypeOK
<1>2. TurnInv'
  <2>1. /\ rpc = "call" /\ fdsWrite = {} /\ bits = {} /\ rfd # NoSocket
        /\ rfd = entry[rslot] /\ req.socket = rslot /\ rslot # NoSlot
        /\ ~Answering /\ tpc \notin {"fill", "tell"}
    BY DEF SetWrite, CalmInv, ListInv, TurnInv, IInv, RequestInv, WaitInv, Waiting, Answering,
       Slots, NoSlot
  <2>2. /\ rpc' = "wait" /\ fdsWrite' = {rfd}
        /\ UNCHANGED <<entry, req, bits, rslot, rno, rfd, tpc, selVars, sendVars, closeVars>>
    BY <2>1 DEF SetWrite
  <2>3. /\ tpc = "select" => snapWrite = {}
        /\ tpc = "scan" => rdyWrite = {}
    BY <2>1 DEF CalmInv, TurnInv, Waiting
  <2> QED
    BY <2>1, <2>2, <2>3 DEF TurnInv, Waiting, Answering, selVars, sendVars
<1>3. CountInv'
  BY IdsAssumption, BoundsAssumption DEF SetWrite, Return, selVars, sendVars, closeVars,
     NoSocket, NoRequest, NoSlot, Slots, CalmInv, ListInv, TurnInv, CountInv, Counts,
     Waiting, Told, Answering, IInv, RequestInv, WaitInv, TypeOK
<1> QED
  BY <1>1, <1>2, <1>3 DEF CalmInv, Calm

\* Told, the requester wakes.
LEMMA WakeDoneCalm ==
  ASSUME CalmInv, IInv', WakeDone
  PROVE  CalmInv'
<1>1. ListInv'
  BY IdsAssumption, BoundsAssumption DEF WakeDone, selVars, sendVars, closeVars,
     countVars, NoSocket, NoSlot, Slots, CalmInv, ListInv, Calm, Closing, Answering,
     TurnInv, IInv, RequestInv, TypeOK
<1>2. TurnInv'
  BY IdsAssumption, BoundsAssumption DEF WakeDone, selVars, sendVars, closeVars,
     countVars, NoSocket, NoSlot, Slots, CalmInv, ListInv, TurnInv, Waiting, Answering,
     Closing, IInv, RequestInv, WaitInv, TypeOK, Calm
<1>3. CountInv'
  BY IdsAssumption, BoundsAssumption DEF WakeDone, selVars, sendVars, closeVars,
     countVars, NoSocket, NoSlot, Slots, CalmInv, ListInv, TurnInv, CountInv, Counts,
     Waiting, Told, Answering, IInv, RequestInv, WaitInv, TypeOK
<1> QED
  BY <1>1, <1>2, <1>3 DEF CalmInv, Calm

\* The caller is given the bytes of its request.
LEMMA CollectCalm ==
  ASSUME CalmInv, IInv', Collect
  PROVE  CalmInv'
<1>1. ListInv'
  BY IdsAssumption, BoundsAssumption DEF Collect, Return, selVars, sendVars, closeVars,
     NoRequest, NoSocket, NoSlot, Slots, CalmInv, ListInv, Calm, Closing, Answering,
     TurnInv, IInv, RequestInv, TypeOK
<1>2. TurnInv'
  BY IdsAssumption, BoundsAssumption DEF Collect, Return, selVars, sendVars, closeVars,
     NoRequest, NoSocket, NoSlot, Slots, CalmInv, ListInv, TurnInv, Waiting, Answering,
     Closing, IInv, RequestInv, WaitInv, TypeOK, Calm
<1>3. CountInv'
  <2>1. /\ rpc = "collect" /\ rpc' = "idle" /\ rno \in 1..MaxReq
        /\ reported' = [reported EXCEPT ![rno] = req.done]
        /\ UNCHANGED <<rno, bits, tpc, ti, handed, streams>>
    BY DEF Collect, Return, CalmInv, IInv, RequestInv, sendVars
  <2>2. ~Answering /\ tpc # "tell" /\ ~Answering' /\ ~Told' /\ tpc' # "tell"
    BY <2>1 DEF CalmInv, TurnInv, Waiting, Answering, Told
  <2>3. Counts(req.done, rno)
    BY <2>1 DEF CalmInv, CountInv, Told
  <2>4. /\ reported'[rno] = req.done
        /\ \A n \in 1..MaxReq : n # rno => reported'[n] = reported[n]
    BY <2>1 DEF CalmInv, IInv, TypeOK
  <2>5. \A n \in 1..MaxReq : n < rno \/ n > rno => n # rno
    BY <2>1
  <2> QED
    BY <2>1, <2>2, <2>3, <2>4, <2>5 DEF CalmInv, CountInv, Counts
<1> QED
  BY <1>1, <1>2, <1>3 DEF CalmInv, Calm

\* The snapshot holds the socket waited for.
LEMMA FdsGetCalm ==
  ASSUME CalmInv, IInv', FdsGet
  PROVE  CalmInv'
<1>1. ListInv'
  BY IdsAssumption, BoundsAssumption DEF FdsGet, NoData, sharedVars, reqVars, countVars,
     NoSocket, NoSlot, Slots, CalmInv, ListInv, Calm, Closing, Answering, TurnInv, IInv,
     RequestInv, TypeOK
<1>2. TurnInv'
  BY IdsAssumption, BoundsAssumption DEF FdsGet, NoData, sharedVars, reqVars, countVars,
     NoSocket, NoSlot, Slots, CalmInv, ListInv, TurnInv, Waiting, Answering, Closing,
     IInv, RequestInv, WaitInv, TypeOK, Calm
<1>3. CountInv'
  BY IdsAssumption, BoundsAssumption DEF FdsGet, NoData, sharedVars, reqVars, countVars,
     NoSocket, NoSlot, Slots, CalmInv, ListInv, TurnInv, CountInv, Counts, Waiting,
     Told, Answering, IInv, RequestInv, WaitInv, TypeOK
<1> QED
  BY <1>1, <1>2, <1>3 DEF CalmInv, Calm

\* select() finds no lost connection.
LEMMA SelectCalm ==
  ASSUME CalmInv, IInv', Select
  PROVE  CalmInv'
<1>1. ListInv'
  BY IdsAssumption, BoundsAssumption DEF Select, sharedVars, reqVars, sendVars,
     closeVars, countVars, NoSocket, NoSlot, Slots, CalmInv, ListInv, Calm, Closing,
     Answering, TurnInv, IInv, RequestInv, TypeOK
<1>2. TurnInv'
  <2>1. /\ rdyWrite' \subseteq snapWrite /\ tpc = "select" /\ tpc' \in {"get", "scan"}
        /\ UNCHANGED <<sharedVars, reqVars, sendVars, closeVars>>
    BY DEF Select
  <2>2. rdyWrite' # {} => Waiting /\ req.socket = rslot /\ rdyWrite' = {rfd}
    BY <2>1 DEF CalmInv, TurnInv
  <2> QED
    BY <2>1, <2>2
    DEF CalmInv, TurnInv, Waiting, Answering, sharedVars, reqVars, sendVars, closeVars
<1>3. CountInv'
  BY IdsAssumption, BoundsAssumption DEF Select, sharedVars, reqVars, sendVars,
     closeVars, countVars, NoSocket, NoSlot, Slots, CalmInv, ListInv, TurnInv, CountInv,
     Counts, Waiting, Told, Answering, IInv, RequestInv, WaitInv, TypeOK
<1> QED
  BY <1>1, <1>2, <1>3 DEF CalmInv, Calm

\* The end of a scan.
LEMMA ScanEndCalm ==
  ASSUME CalmInv, IInv', ScanEnd
  PROVE  CalmInv'
<1>1. ListInv'
  BY IdsAssumption, BoundsAssumption DEF ScanEnd, sharedVars, reqVars, selVars,
     sendVars, closeVars, countVars, NoSocket, NoSlot, Slots, CalmInv, ListInv, Calm,
     Closing, Answering, TurnInv, IInv, RequestInv, TypeOK
<1>2. TurnInv'
  BY IdsAssumption, BoundsAssumption DEF ScanEnd, sharedVars, reqVars, selVars,
     sendVars, closeVars, countVars, NoSocket, NoSlot, Slots, CalmInv, ListInv, TurnInv,
     Waiting, Answering, Closing, IInv, RequestInv, WaitInv, TypeOK, Calm
<1>3. CountInv'
  BY IdsAssumption, BoundsAssumption DEF ScanEnd, sharedVars, reqVars, selVars,
     sendVars, closeVars, countVars, NoSocket, NoSlot, Slots, CalmInv, ListInv, TurnInv,
     CountInv, Counts, Waiting, Told, Answering, IInv, RequestInv, WaitInv, TypeOK
<1> QED
  BY <1>1, <1>2, <1>3 DEF CalmInv, Calm

\* The socket task takes the request it is called for.
LEMMA SendReadyCalm ==
  ASSUME CalmInv, IInv', NEW id \in Ids, SendReady(id)
  PROVE  CalmInv'
<1>1. ListInv'
  BY IdsAssumption, BoundsAssumption DEF SendReady, ServingWrite, sharedVars, reqVars,
     countVars, NoSlot, Serving, NoSocket, Slots, CalmInv, ListInv, Calm, Closing,
     Answering, TurnInv, IInv, RequestInv, TypeOK
<1>2. TurnInv'
  <2>1. tpc = "scan" /\ id \in rdyWrite
    BY DEF SendReady, ServingWrite, Serving
  <2>2. Waiting /\ req.socket = rslot /\ rdyWrite = {rfd} /\ id = rfd /\ req.no = rno
    BY <2>1 DEF CalmInv, TurnInv, IInv, RequestInv, Waiting
  <2>3. /\ tpc' = "send" /\ rdyWrite' = {} /\ tid' = rfd /\ tslot' = rslot /\ treq'.no = rno
        /\ UNCHANGED <<entry, req, fdsWrite, bits, rpc, rslot, rno, rfd>>
    BY <2>2 DEF SendReady, ServingWrite, sharedVars, reqVars
  <2>4. Waiting' /\ rpc' = rpc
    BY <2>2, <2>3 DEF Waiting
  <2> QED
    BY <2>2, <2>3, <2>4 DEF CalmInv, TurnInv, Answering, Waiting
<1>3. CountInv'
  BY IdsAssumption, BoundsAssumption DEF SendReady, ServingWrite, sharedVars, reqVars,
     countVars, NoSlot, Serving, NoSocket, Slots, CalmInv, ListInv, TurnInv, CountInv,
     Counts, Waiting, Told, Answering, IInv, RequestInv, WaitInv, TypeOK
<1> QED
  BY <1>1, <1>2, <1>3 DEF CalmInv, Calm

\* Bytes handed to lwIP are counted.
LEMMA SendSomeCalm ==
  ASSUME CalmInv, IInv', SendSome
  PROVE  CalmInv'
<1>1. ListInv'
  BY IdsAssumption, BoundsAssumption DEF SendSome, Take, Fd, sharedVars, reqVars,
     selVars, closeVars, NoSocket, NoSlot, Slots, CalmInv, ListInv, Calm, Closing,
     Answering, TurnInv, IInv, RequestInv, TypeOK
<1>2. TurnInv'
  BY IdsAssumption, BoundsAssumption DEF SendSome, Take, Fd, sharedVars, reqVars,
     selVars, closeVars, NoSocket, NoSlot, Slots, CalmInv, ListInv, TurnInv, Waiting,
     Answering, Closing, IInv, RequestInv, WaitInv, TypeOK, Calm
<1>3. CountInv'
  <2>1. PICK k \in 1..(treq.len - ti) : ti' = ti + k /\ Take(k)
    BY DEF SendSome
  <2>2. UNCHANGED <<entry, dgram, rslot, tpc, rpc, rno, bits, req, reported, streams>>
    BY DEF SendSome, sharedVars, reqVars
  <2>3. tpc = "send" /\ Counts(ti, rno)
    BY DEF SendSome, CalmInv, CountInv, Answering
  <2>4. k \in Nat /\ ti \in Nat
    BY <2>1 DEF CalmInv, IInv, TypeOK
  <2>5. handed[rno] \in Nat /\ handed'[rno] = handed[rno] + k
    BY <2>1, <2>2, <2>3, <2>4, TakeCalm
  <2>6. Counts(ti, rno)'
    BY <2>1, <2>2, <2>3, <2>4, <2>5 DEF Counts
  <2> QED
    BY <2>1, <2>2, <2>3, <2>4, <2>6, TakeCalm DEF CountInv, Answering
<1> QED
  BY <1>1, <1>2, <1>3 DEF CalmInv, Calm

\* A full lwIP takes nothing of a stream.
LEMMA SendFullCalm ==
  ASSUME CalmInv, IInv', SendFull
  PROVE  CalmInv'
<1>1. ListInv'
  BY IdsAssumption, BoundsAssumption DEF SendFull, Take, Uncounted, Fd, sharedVars,
     reqVars, selVars, closeVars, NoSocket, NoSlot, Slots, CalmInv, ListInv, Calm,
     Closing, Answering, TurnInv, IInv, RequestInv, TypeOK
<1>2. TurnInv'
  BY IdsAssumption, BoundsAssumption DEF SendFull, Take, Uncounted, Fd, sharedVars,
     reqVars, selVars, closeVars, NoSocket, NoSlot, Slots, CalmInv, ListInv, TurnInv,
     Waiting, Answering, Closing, IInv, RequestInv, WaitInv, TypeOK, Calm
<1>3. CountInv'
  <2>1. PICK k \in Uncounted : Take(k)
    BY DEF SendFull
  <2>2. UNCHANGED <<entry, dgram, rslot, ti, rpc, rno, bits, req, reported, streams>>
    BY DEF SendFull, sharedVars, reqVars
  <2>3. /\ tpc = "send" /\ tpc' \in {"send", "answer"} /\ Counts(ti, rno)
        /\ tslot = rslot /\ rpc = "wait"
    BY DEF SendFull, CalmInv, TurnInv, CountInv, Waiting, Answering
  <2>4. /\ k \in Nat /\ ti \in Nat /\ handed[rno] \in Nat
        /\ handed'[rno] = handed[rno] + k
    BY <2>1, <2>2, <2>3, TakeCalm, UncountedNat DEF CalmInv, IInv, TypeOK
  <2>5. rno \in streams => k = 0
    BY <2>1, <2>3 DEF Uncounted, Fd, CalmInv, CountInv
  <2>6. Counts(ti, rno)'
    BY <2>2, <2>3, <2>4, <2>5 DEF Counts
  <2> QED
    BY <2>1, <2>2, <2>3, <2>4, <2>6, TakeCalm DEF CountInv, Answering
<1> QED
  BY <1>1, <1>2, <1>3 DEF CalmInv, Calm

\* A refused send takes nothing of a stream.
LEMMA SendRefusedCalm ==
  ASSUME CalmInv, IInv', SendRefused
  PROVE  CalmInv'
<1>1. ListInv'
  BY IdsAssumption, BoundsAssumption DEF SendRefused, Take, Uncounted, Fd, sharedVars,
     reqVars, selVars, closeVars, NoSocket, NoSlot, Slots, CalmInv, ListInv, Calm,
     Closing, Answering, TurnInv, IInv, RequestInv, TypeOK
<1>2. TurnInv'
  BY IdsAssumption, BoundsAssumption DEF SendRefused, Take, Uncounted, Fd, sharedVars,
     reqVars, selVars, closeVars, NoSocket, NoSlot, Slots, CalmInv, ListInv, TurnInv,
     Waiting, Answering, Closing, IInv, RequestInv, WaitInv, TypeOK, Calm
<1>3. CountInv'
  <2>1. PICK k \in Uncounted : Take(k)
    BY DEF SendRefused
  <2>2. UNCHANGED <<entry, dgram, rslot, ti, rpc, rno, bits, req, reported, streams>>
    BY DEF SendRefused, sharedVars, reqVars
  <2>3. /\ tpc = "send" /\ tpc' \in {"send", "answer"} /\ Counts(ti, rno)
        /\ tslot = rslot /\ rpc = "wait"
    BY DEF SendRefused, CalmInv, TurnInv, CountInv, Waiting, Answering
  <2>4. /\ k \in Nat /\ ti \in Nat /\ handed[rno] \in Nat
        /\ handed'[rno] = handed[rno] + k
    BY <2>1, <2>2, <2>3, TakeCalm, UncountedNat DEF CalmInv, IInv, TypeOK
  <2>5. rno \in streams => k = 0
    BY <2>1, <2>3 DEF Uncounted, Fd, CalmInv, CountInv
  <2>6. Counts(ti, rno)'
    BY <2>2, <2>3, <2>4, <2>5 DEF Counts
  <2> QED
    BY <2>1, <2>2, <2>3, <2>4, <2>6, TakeCalm DEF CountInv, Answering
<1> QED
  BY <1>1, <1>2, <1>3 DEF CalmInv, Calm

\* All bytes are taken.
LEMMA SendAllCalm ==
  ASSUME CalmInv, IInv', SendAll
  PROVE  CalmInv'
<1>1. ListInv'
  BY IdsAssumption, BoundsAssumption DEF SendAll, sharedVars, reqVars, selVars,
     sendVars, closeVars, countVars, NoSocket, NoSlot, Slots, CalmInv, ListInv, Calm,
     Closing, Answering, TurnInv, IInv, RequestInv, TypeOK
<1>2. TurnInv'
  BY IdsAssumption, BoundsAssumption DEF SendAll, sharedVars, reqVars, selVars,
     sendVars, closeVars, countVars, NoSocket, NoSlot, Slots, CalmInv, ListInv, TurnInv,
     Waiting, Answering, Closing, IInv, RequestInv, WaitInv, TypeOK, Calm
<1>3. CountInv'
  BY IdsAssumption, BoundsAssumption DEF SendAll, sharedVars, reqVars, selVars,
     sendVars, closeVars, countVars, NoSocket, NoSlot, Slots, CalmInv, ListInv, TurnInv,
     CountInv, Counts, Waiting, Told, Answering, IInv, RequestInv, WaitInv, TypeOK
<1> QED
  BY <1>1, <1>2, <1>3 DEF CalmInv, Calm

\* The answer begins.
LEMMA AnswerStartCalm ==
  ASSUME CalmInv, IInv', AnswerStart
  PROVE  CalmInv'
<1>1. ListInv'
  BY IdsAssumption, BoundsAssumption DEF AnswerStart, AnswerSteps, sharedVars, reqVars,
     selVars, sendVars, closeVars, countVars, NoSocket, NoSlot, Slots, CalmInv, ListInv,
     Calm, Closing, Answering, TurnInv, IInv, RequestInv, TypeOK
<1>2. TurnInv'
  BY IdsAssumption, BoundsAssumption DEF AnswerStart, AnswerSteps, sharedVars, reqVars,
     selVars, sendVars, closeVars, countVars, NoSocket, NoSlot, Slots, CalmInv, ListInv,
     TurnInv, Waiting, Answering, Closing, IInv, RequestInv, WaitInv, TypeOK, Calm
<1>3. CountInv'
  BY IdsAssumption, BoundsAssumption DEF AnswerStart, AnswerSteps, sharedVars, reqVars,
     selVars, sendVars, closeVars, countVars, NoSocket, NoSlot, Slots, CalmInv, ListInv,
     TurnInv, CountInv, Counts, Waiting, Told, Answering, IInv, RequestInv, WaitInv,
     TypeOK
<1> QED
  BY <1>1, <1>2, <1>3 DEF CalmInv, Calm

\* The request is cleared, its number stays.
LEMMA AnswerClearCalm ==
  ASSUME CalmInv, IInv', AnswerClear
  PROVE  CalmInv'
<1>1. ListInv'
  BY IdsAssumption, BoundsAssumption DEF AnswerClear, AnswerSteps, reqVars, selVars,
     sendVars, closeVars, countVars, NoSlot, NoSocket, Slots, CalmInv, ListInv, Calm,
     Closing, Answering, TurnInv, IInv, RequestInv, TypeOK
<1>2. TurnInv'
  BY IdsAssumption, BoundsAssumption DEF AnswerClear, AnswerSteps, reqVars, selVars,
     sendVars, closeVars, countVars, NoSlot, NoSocket, Slots, CalmInv, ListInv, TurnInv,
     Waiting, Answering, Closing, IInv, RequestInv, WaitInv, TypeOK, Calm
<1>3. CountInv'
  BY IdsAssumption, BoundsAssumption DEF AnswerClear, AnswerSteps, reqVars, selVars,
     sendVars, closeVars, countVars, NoSlot, NoSocket, Slots, CalmInv, ListInv, TurnInv,
     CountInv, Counts, Waiting, Told, Answering, IInv, RequestInv, WaitInv, TypeOK
<1> QED
  BY <1>1, <1>2, <1>3 DEF CalmInv, Calm

\* The count is filled in before the requester is told.
LEMMA AnswerFillCalm ==
  ASSUME CalmInv, IInv', AnswerFill
  PROVE  CalmInv'
<1>1. ListInv'
  BY IdsAssumption, BoundsAssumption DEF AnswerFill, AnswerSteps, DoneCount, reqVars,
     selVars, sendVars, closeVars, countVars, NoSocket, NoSlot, Slots, CalmInv, ListInv,
     Calm, Closing, Answering, TurnInv, IInv, RequestInv, TypeOK
<1>2. TurnInv'
  BY IdsAssumption, BoundsAssumption DEF AnswerFill, AnswerSteps, DoneCount, reqVars,
     selVars, sendVars, closeVars, countVars, NoSocket, NoSlot, Slots, CalmInv, ListInv,
     TurnInv, Waiting, Answering, Closing, IInv, RequestInv, WaitInv, TypeOK, Calm
<1>3. CountInv'
  BY IdsAssumption, BoundsAssumption DEF AnswerFill, AnswerSteps, DoneCount, reqVars,
     selVars, sendVars, closeVars, countVars, NoSocket, NoSlot, Slots, CalmInv, ListInv,
     TurnInv, CountInv, Counts, Waiting, Told, Answering, IInv, RequestInv, WaitInv,
     TypeOK
<1> QED
  BY <1>1, <1>2, <1>3 DEF CalmInv, Calm

\* The requester is told once the count is there.
LEMMA AnswerTellCalm ==
  ASSUME CalmInv, IInv', AnswerTell
  PROVE  CalmInv'
<1>1. ListInv'
  BY IdsAssumption, BoundsAssumption DEF AnswerTell, SendDone, AnswerSteps, reqVars,
     selVars, sendVars, closeVars, countVars, Answered, NoSocket, NoSlot, Slots,
     CalmInv, ListInv, Calm, Closing, Answering, TurnInv, IInv, RequestInv, TypeOK
<1>2. TurnInv'
  BY IdsAssumption, BoundsAssumption DEF AnswerTell, SendDone, AnswerSteps, reqVars,
     selVars, sendVars, closeVars, countVars, Answered, NoSocket, NoSlot, Slots,
     CalmInv, ListInv, TurnInv, Waiting, Answering, Closing, IInv, RequestInv, WaitInv,
     TypeOK, Calm
<1>3. CountInv'
  BY IdsAssumption, BoundsAssumption DEF AnswerTell, SendDone, AnswerSteps, reqVars,
     selVars, sendVars, closeVars, countVars, Answered, NoSocket, NoSlot, Slots,
     CalmInv, ListInv, TurnInv, CountInv, Counts, Waiting, Told, Answering, IInv,
     RequestInv, WaitInv, TypeOK
<1> QED
  BY <1>1, <1>2, <1>3 DEF CalmInv, Calm

\* A writable socket is the one the outstanding request waits for.
LEMMA ServingCalm ==
  ASSUME CalmInv, NEW id \in Ids, ServingWrite(id)
  PROVE  req.socket # NoSlot /\ entry[req.socket] = id
<1>1. tpc = "scan" /\ id \in rdyWrite
  BY DEF ServingWrite, Serving, CalmInv, ListInv
<1>2. rpc = "wait" /\ req.socket = rslot /\ id = rfd
  BY <1>1 DEF CalmInv, TurnInv, Waiting
<1>3. rslot \in Slots /\ rfd = entry[rslot]
  BY <1>2 DEF CalmInv, TurnInv, IInv, RequestInv
<1> QED
  BY <1>2, <1>3 DEF Slots, NoSlot

\* The socket task never finds a connection gone, an fd closed or a socket without its
\* request, and the requester never finds its socket in fds.write.
LEMMA CalmSkips ==
  ASSUME CalmInv
  PROVE  /\ ~SendBroken /\ ~BrokenClose /\ ~CloseStep /\ ~UnsetWrite /\ ~WakeTimeout
         /\ \A id \in Ids : ~RecvGone(id) /\ ~SendReadyNone(id) /\ ~SendReadyOther(id)
<1>1. ~SendBroken
  <2> SUFFICES ASSUME SendBroken PROVE FALSE
    OBVIOUS
  <2>1. tslot = rslot /\ rpc = "wait" /\ Fd \notin alive
    BY DEF SendBroken, CalmInv, Calm, TurnInv, Waiting, Answering
  <2>2. Fd # NoSocket /\ rslot \in Slots
    BY <2>1 DEF Fd, CalmInv, ListInv, IInv, RequestInv
  <2> QED
    BY <2>1, <2>2 DEF Fd, CalmInv, ListInv
<1>2. ~CloseStep /\ ~BrokenClose
  BY DEF CloseStep, CloseTell, CloseFdsClear, CloseFd, CloseReset, CloseEnd, BrokenClose,
     CalmInv, ListInv, Closing
<1>3. ~UnsetWrite /\ ~WakeTimeout
  BY DEF UnsetWrite, WakeTimeout, CalmInv, IInv, NoTimeout, RequestInv
<1>4. ASSUME NEW id \in Ids
      PROVE  ~RecvGone(id) /\ ~SendReadyNone(id) /\ ~SendReadyOther(id)
  <2>1. ~RecvGone(id)
    BY DEF RecvGone, CalmInv, ListInv
  <2>2. ASSUME ServingWrite(id)
        PROVE  req.socket # NoSlot /\ entry[req.socket] = id
    BY <2>2, ServingCalm
  <2> QED
    BY <2>1, <2>2 DEF SendReadyNone, SendReadyOther
<1> QED
  BY <1>1, <1>2, <1>3, <1>4

\* The invariant holds initially.
LEMMA InitCalm == NoTimeout /\ Calm /\ Init => CalmInv
<1> SUFFICES ASSUME NoTimeout, Calm, Init PROVE CalmInv
  OBVIOUS
<1>1. IInv
  BY InitInv
<1>2. ListInv
  BY DEF Init, ListInv, Closing
<1>3. TurnInv
  BY DEF Init, TurnInv, Answering
<1>4. CountInv
  BY BoundsAssumption DEF Init, CountInv, Answering, Told
<1> QED
  BY <1>1, <1>2, <1>3, <1>4 DEF CalmInv

\* Every step keeps the invariant.
LEMMA NextCalm == CalmInv /\ [Next]_vars => CalmInv'
<1> SUFFICES ASSUME CalmInv, [Next]_vars PROVE CalmInv'
  OBVIOUS
<1>1. IInv'
  BY NextInv DEF CalmInv
<1>2. CASE \E id \in Ids, udp \in BOOLEAN : Open(id, udp)
  BY <1>1, <1>2, OpenCalm
<1>3. CASE \E id \in Ids : Close(id)
  BY <1>1, <1>3, CloseCalm
<1>4. CASE \E id \in Ids, n \in 1..MaxLen : Request(id, n)
  BY <1>1, <1>4, RequestCalm
<1>5. CASE RequesterStep \/ WakeTimeout
  BY <1>1, <1>5, CalmSkips, CallCalm, SetWriteCalm, WakeDoneCalm, CollectCalm
  DEF RequesterStep
<1>6. CASE FdsGet \/ Select
  BY <1>1, <1>6, FdsGetCalm, SelectCalm
<1>7. CASE ScanStep
  BY <1>1, <1>7, CalmSkips, ScanEndCalm, SendReadyCalm DEF ScanStep
<1>8. CASE SendStep
  BY <1>1, <1>8, CalmSkips, SendSomeCalm, SendFullCalm, SendRefusedCalm, SendAllCalm
  DEF SendStep
<1>9. CASE AnswerStep
  BY <1>1, <1>9, AnswerStartCalm, AnswerClearCalm, AnswerFillCalm, AnswerTellCalm
  DEF AnswerStep
<1>10. CASE CloseStep
  BY <1>10, CalmSkips
<1>11. CASE UNCHANGED vars
  <2>1. UNCHANGED <<sharedVars, reqVars, tpc, selVars, sendVars, closeVars, countVars>>
    BY <1>11 DEF vars
  <2>2. ListInv'
    BY <2>1 DEF CalmInv, ListInv, Closing, sharedVars, reqVars, selVars
  <2>3. TurnInv'
    BY <2>1
    DEF CalmInv, TurnInv, Waiting, Answering, sharedVars, reqVars, selVars, sendVars,
        closeVars
  <2>4. CountInv'
    BY <2>1
    DEF CalmInv, CountInv, Counts, Told, Answering, sharedVars, reqVars, sendVars, countVars
  <2> QED
    BY <1>1, <2>2, <2>3, <2>4 DEF CalmInv, Calm
<1> QED
  BY <1>2, <1>3, <1>4, <1>5, <1>6, <1>7, <1>8, <1>9, <1>10, <1>11 DEF Next, SocketTask

\* The invariant of the calm system holds in every reachable state.
LEMMA CalmInvariance == NoTimeout /\ Calm /\ Spec => []CalmInv
<1>1. NoTimeout /\ Calm /\ Init => CalmInv
  BY InitCalm
<1>2. CalmInv /\ [Next]_vars => CalmInv'
  BY NextCalm
<1> QED
  BY <1>1, <1>2, PTL DEF Spec

\* The send_ready handler always finds the request it is called for, for any sockets,
\* lengths and number of requests (atcmd_socket.c:601-629).
THEOREM RequestFound == NoTimeout /\ Calm /\ Spec => []RequestPresent
<1>1. CalmInv => RequestPresent
  BY ServingCalm DEF RequestPresent
<1> QED
  BY <1>1, CalmInvariance, PTL

\* Each caller is told no more bytes than lwIP took of its own request, and exactly those
\* on a TCP socket, and lwIP takes none of it afterwards: request, answer and bit are
\* handed over without a lock (atcmd_socket.c:354-394, 601-629).
THEOREM ResultIsOwn == NoTimeout /\ Calm /\ Spec => []OwnResult
<1>1. CalmInv => OwnResult
  <2> SUFFICES ASSUME CalmInv, NEW n \in 1..MaxReq, reported[n] # -1
               PROVE  Counts(reported[n], n)
    BY DEF OwnResult, Counts
  <2>1. n \in Int /\ rno \in Int
    BY DEF CalmInv, IInv, TypeOK
  <2>2. n < rno \/ n = rno \/ n > rno
    BY <2>1
  <2>3. n # 0
    OBVIOUS
  <2> QED
    BY <2>2, <2>3 DEF CalmInv, CountInv
<1> QED
  BY <1>1, CalmInvariance, PTL

-----------------------------------------------------------------------------
(* Whatever goes wrong, nothing is reported that lwIP did not take.  A byte   *)
(* taken is counted in ti until the answer is filled in, in the request's     *)
(* done until its caller collects it, and in told after that, or never; it is *)
(* never in two of them.  A late answer moves it to another caller, or drops  *)
(* it.                                                                       *)

\* Bytes taken of the request in hand, not in its answer yet.
Unfilled ==
  IF tpc \in {"send", "broken", "answer", "clear", "fill"} \/ (Closing /\ tback = "answer")
  THEN ti ELSE 0

TotalInv == told + req.done + Unfilled <= took

\* The counts are naturals.
LEMMA Totals ==
  ASSUME TypeOK
  PROVE  told \in Nat /\ took \in Nat /\ req.done \in Nat /\ ti \in Nat /\ Unfilled \in Nat
  BY DEF TypeOK, Unfilled

\* A caller takes the bytes out of the answer, or leaves them.
LEMMA ReturnTotal ==
  ASSUME TypeOK, TotalInv, NEW done \in 0..req.done, Return(done), Unfilled' = Unfilled,
         took' = took
  PROVE  TotalInv'
<1>1. told' = told + done /\ req'.done = 0
  BY DEF Return, NoRequest
<1>2. told \in Nat /\ took \in Nat /\ req.done \in Nat /\ Unfilled \in Nat
  BY Totals
<1>3. (told + done) + 0 + Unfilled <= told + req.done + Unfilled
  BY <1>2
<1>4. told + req.done + Unfilled <= took
  BY DEF TotalInv
<1>5. (told + done) + 0 + Unfilled <= took
  BY <1>2, <1>3, <1>4
<1> QED
  BY <1>1, <1>5 DEF TotalInv

\* Every step keeps the count.
LEMMA NextTotal == TypeOK /\ TotalInv /\ [Next]_vars => TotalInv'
<1> SUFFICES ASSUME TypeOK, TotalInv, [Next]_vars PROVE TotalInv'
  OBVIOUS
<1>1. /\ told \in Nat /\ took \in Nat /\ req.done \in Nat /\ ti \in Nat /\ Unfilled \in Nat
      /\ told + req.done + Unfilled <= took
  BY Totals DEF TotalInv
<1>2. ASSUME UNCHANGED <<told, took, tpc, ti, tback>>, req'.done = req.done PROVE TotalInv'
  BY <1>2 DEF TotalInv, Unfilled, Closing
<1>3. ASSUME UNCHANGED <<told, took, req>>, Unfilled' = Unfilled \/ Unfilled' = 0
      PROVE  TotalInv'
  <2>1. told + req.done + 0 <= took
    BY <1>1
  <2> QED
    BY <1>1, <1>3, <2>1 DEF TotalInv
<1>4. CASE \E id \in Ids : Close(id) \/ \E udp \in BOOLEAN : Open(id, udp)
  BY <1>2, <1>4 DEF Open, Close, sendVars, closeVars, countVars
<1>5. ASSUME NEW id \in Ids, NEW n \in 1..MaxLen, Request(id, n) PROVE TotalInv'
  <2>1. req'.done = 0 /\ told' = told /\ took' = took /\ Unfilled' = Unfilled
    BY <1>5 DEF Request, Unfilled, Closing, sendVars, closeVars
  <2>2. told + 0 + Unfilled <= took
    BY <1>1
  <2> QED
    BY <2>1, <2>2 DEF TotalInv
<1>6. CASE SetWrite
  <2>1. CASE rfd \in fdsWrite
    <3>1. Return(0) /\ took' = took /\ Unfilled' = Unfilled
      BY <1>6, <2>1 DEF SetWrite, Unfilled, Closing, sendVars, closeVars
    <3>2. 0 \in 0..req.done
      BY <1>1
    <3> QED
      BY <3>1, <3>2, ReturnTotal
  <2>2. CASE rfd \notin fdsWrite
    BY <1>2, <1>6, <2>2 DEF SetWrite, sendVars, closeVars
  <2> QED
    BY <2>1, <2>2
<1>7. CASE Call \/ WakeDone \/ WakeTimeout
  BY <1>2, <1>7 DEF Call, WakeDone, WakeTimeout, sharedVars, sendVars, closeVars, countVars
<1>8. CASE Collect
  <2>1. Return(req.done) /\ took' = took /\ Unfilled' = Unfilled
    BY <1>8 DEF Collect, Unfilled, Closing, sendVars, closeVars
  <2>2. req.done \in 0..req.done
    BY <1>1
  <2> QED
    BY <2>1, <2>2, ReturnTotal
<1>9. CASE UnsetWrite
  <2>1. Return(0) /\ took' = took /\ Unfilled' = Unfilled
    BY <1>9 DEF UnsetWrite, Unfilled, Closing, sendVars, closeVars
  <2>2. 0 \in 0..req.done
    BY <1>1
  <2> QED
    BY <2>1, <2>2, ReturnTotal
<1>10. CASE FdsGet \/ Select \/ ScanEnd
  <2>1. UNCHANGED <<told, took, req>> /\ Unfilled' = 0
    BY <1>10 DEF FdsGet, Select, ScanEnd, Unfilled, Closing, sharedVars, countVars
  <2> QED
    BY <1>3, <2>1
<1>11. ASSUME NEW id \in Ids, RecvGone(id) PROVE TotalInv'
  <2>1. UNCHANGED <<told, took, req>> /\ Unfilled' = 0
    BY <1>11 DEF RecvGone, Unfilled, Closing, sharedVars, countVars
  <2> QED
    BY <1>3, <2>1
<1>12. ASSUME NEW id \in Ids, SendReadyNone(id) \/ SendReadyOther(id) PROVE TotalInv'
  BY <1>2, <1>12
  DEF SendReadyNone, SendReadyOther, sharedVars, sendVars, closeVars, countVars
<1>13. ASSUME NEW id \in Ids, SendReady(id) PROVE TotalInv'
  <2>1. UNCHANGED <<told, took, req>> /\ Unfilled' = 0
    BY <1>13 DEF SendReady, Unfilled, Closing, sharedVars, countVars
  <2> QED
    BY <1>3, <2>1
<1>14. CASE SendSome
  <2>1. PICK k \in 1..(treq.len - ti) : ti' = ti + k /\ took' = took + k
    BY <1>14 DEF SendSome, Take
  <2>2. Unfilled = ti /\ Unfilled' = ti + k /\ told' = told /\ req' = req
    BY <1>14, <2>1 DEF SendSome, Unfilled, sharedVars
  <2>3. k \in Int
    BY <2>1
  <2>4. told + req.done + (ti + k) <= took + k
    BY <1>1, <2>2, <2>3
  <2> QED
    BY <2>1, <2>2, <2>4 DEF TotalInv
<1>15. CASE SendFull \/ SendRefused \/ SendBroken
  <2>1. PICK k \in Uncounted : took' = took + k
    BY <1>15 DEF SendFull, SendRefused, SendBroken, Take
  <2>2. told' = told /\ req' = req /\ Unfilled' = Unfilled
    BY <1>15 DEF SendFull, SendRefused, SendBroken, Unfilled, sharedVars
  <2>3. k \in Nat
    BY <2>1, UncountedNat
  <2>4. told + req.done + Unfilled <= took + k
    BY <1>1, <2>3
  <2> QED
    BY <2>1, <2>2, <2>4 DEF TotalInv
<1>22. CASE BrokenClose \/ SendAll \/ AnswerStart
  <2>1. UNCHANGED <<told, took, req>> /\ Unfilled' = Unfilled
    BY <1>22
    DEF BrokenClose, SendAll, AnswerStart, AnswerSteps, Unfilled, Closing, sharedVars,
        sendVars, countVars
  <2> QED
    BY <1>3, <2>1
<1>16. CASE AnswerClear
  <2>1. told' = told /\ took' = took /\ req'.done = req.done /\ Unfilled' = Unfilled
    BY <1>16 DEF AnswerClear, AnswerSteps, Unfilled, sendVars, countVars, TypeOK
  <2> QED
    BY <1>1, <2>1 DEF TotalInv
<1>17. CASE AnswerFill
  <2>1. /\ told' = told /\ took' = took /\ req'.done = ti
        /\ Unfilled = ti /\ Unfilled' = 0
    BY <1>17
    DEF AnswerFill, AnswerSteps, DoneCount, Unfilled, Closing, sendVars, countVars, TypeOK
  <2>2. told + ti + 0 <= took
    BY <1>1, <2>1
  <2> QED
    BY <2>1, <2>2 DEF TotalInv
<1>18. CASE AnswerTell
  <2>1. UNCHANGED <<told, took, req>> /\ Unfilled' = 0
    BY <1>18 DEF AnswerTell, AnswerSteps, Unfilled, Closing, countVars
  <2> QED
    BY <1>3, <2>1
<1>19. CASE CloseTell \/ CloseFdsClear \/ CloseFd
  <2>1. UNCHANGED <<told, took, req>> /\ Unfilled' = Unfilled
    BY <1>19
    DEF CloseTell, CloseFdsClear, CloseFd, Unfilled, Closing, sendVars, countVars
  <2> QED
    BY <1>3, <2>1
<1>20. CASE CloseReset \/ CloseEnd
  <2>1. UNCHANGED <<told, took, req>> /\ Unfilled' = Unfilled
    BY <1>20
    DEF CloseReset, CloseEnd, Unfilled, Closing, sharedVars, sendVars, countVars, TypeOK
  <2> QED
    BY <1>3, <2>1
<1>21. CASE UNCHANGED vars
  BY <1>2, <1>21 DEF vars, sharedVars, sendVars, closeVars, countVars
<1> QED
  BY <1>4, <1>5, <1>6, <1>7, <1>8, <1>9, <1>10, <1>11, <1>12, <1>13, <1>14, <1>15, <1>16,
     <1>17, <1>18, <1>19, <1>20, <1>21, <1>22
  DEF Next, RequesterStep, SocketTask, ScanStep, SendStep, AnswerStep, CloseStep

\* With time-outs and lost peers, for any sockets, lengths and numbers of requests and
\* retries: the bytes reported to callers never exceed the bytes lwIP took
\* (atcmd_socket.c:367-390, 615-627).
THEOREM NeverOverstated == Spec => []NotOverstated
<1>1. Init => TotalInv
  BY DEF Init, TotalInv, Unfilled, Closing, NoRequest
<1>2. TypeOK /\ TotalInv => NotOverstated
  <2> SUFFICES ASSUME TypeOK, TotalInv PROVE told <= took
    BY DEF NotOverstated
  <2>1. /\ told \in Nat /\ took \in Nat /\ req.done \in Nat /\ Unfilled \in Nat
        /\ told + req.done + Unfilled <= took
    BY Totals DEF TotalInv
  <2> QED
    BY <2>1
<1>3. TypeOK /\ TotalInv /\ [Next]_vars => TotalInv'
  BY NextTotal
<1> QED
  BY <1>1, <1>2, <1>3, TypeCorrect, PTL DEF Spec
==============================================================================
