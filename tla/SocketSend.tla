----------------------------- MODULE SocketSend -----------------------------
(***************************************************************************)
(* How socket data leaves the AT firmware (CONFIG: event_send = 1).          *)
(*                                                                          *)
(*   requester: the HIF receive task, in atcmd_socket_send_data: it leaves a *)
(*              request in g_atcmd_socket_event_send, sets the socket in     *)
(*              fds.write and waits for the socket's send_done bit;          *)
(*   socket task: _lwip_socket_task: select(), then the handler, which sends *)
(*              the request's data and answers it.                           *)
(*                                                                          *)
(* Both tasks have the same priority and are preempted at any point; the     *)
(* request has no lock.  The request points to an entry of g_atcmd_socket,    *)
(* whose id (lwIP's fd) both tasks read again and again while the other may   *)
(* reset the entry, or fill it anew.  Received data changes nothing here and  *)
(* is left out: reading matters only where it finds the connection gone.      *)
(***************************************************************************)
EXTENDS Integers, FiniteSets

CONSTANTS
  Ids,       \* lwIP's fds
  Timeouts,  \* TRUE: AT+TIMEOUT gave SSEND a time-out, else the wait has no end
  Errors,    \* TRUE: peers go away
  SlotNum,   \* ATCMD_SOCKET_NUM_MAX
  ChunkMax,  \* bytes of one datagram, 1470 in the code
  \* Bounds of the model
  MaxLen,    \* bytes of one request
  MaxReq,    \* requests altogether
  RetryMax   \* retry_max, 6000 in the code

ASSUME IdsAssumption == Ids \subseteq Nat /\ IsFiniteSet(Ids)
ASSUME BoundsAssumption ==
  /\ Timeouts \in BOOLEAN /\ Errors \in BOOLEAN
  /\ SlotNum \in Nat \ {0} /\ ChunkMax \in Nat \ {0}
  /\ MaxLen \in Nat \ {0} /\ MaxReq \in Nat /\ RetryMax \in Nat \ {0}

NoSocket == -1
NoSlot == 0
Slots == 1..SlotNum

VARIABLES
  \* shared
  entry,    \* g_atcmd_socket: the id in each entry, or NoSocket
  req,      \* g_atcmd_socket_event_send; "no" numbers the requests
  fdsRead,  \* info->fds.read
  fdsWrite, \* info->fds.write
  bits,     \* send_done_event
  \* lwIP
  alive,    \* open fds
  dgram,    \* those of UDP sockets
  \* requester
  rpc,
  rslot,    \* entry of its request
  rno,      \* number of its request, and of requests so far
  rfd,      \* fd whose bit it waits for
  \* socket task
  tpc,
  snapRead, snapWrite, \* fds_read, fds_write before select
  rdyRead, rdyWrite,   \* what select left in them, not yet served
  tid,      \* fd whose send_ready is handled
  tslot,    \* entry it sends on, or the close loop has come to
  treq,     \* its view of the request: number and length
  ti,       \* bytes of it sent
  tretry,
  tclose,   \* id to close, NoSocket: all of them
  tfd,      \* fd on its way to close()
  tback,    \* where _atcmd_socket_close returns to
  \* history
  handed,   \* [request -> bytes given to lwIP]
  reported, \* [request -> done reported to its caller, or -1]
  took,     \* bytes lwIP took, of all requests
  told,     \* bytes reported, of all requests
  streams,  \* requests for TCP sockets
  crossed   \* the socket task closed an fd opened anew for another entry meanwhile

sharedVars == <<entry, req, fdsRead, fdsWrite, bits, alive, dgram>>
reqVars    == <<rpc, rslot, rno, rfd>>
selVars    == <<snapRead, snapWrite, rdyRead, rdyWrite>>
sendVars   == <<tid, treq, ti, tretry>>
closeVars  == <<tslot, tclose, tfd, tback>>
countVars  == <<handed, reported, took, told, streams>>
vars == <<sharedVars, reqVars, tpc, selVars, sendVars, closeVars, countVars, crossed>>

NoRequest == [socket |-> NoSlot, len |-> 0, done |-> 0, no |-> 0]
NoData == [no |-> 0, len |-> 0]

\* _atcmd_socket_search_id(id) finds something; what it finds; the first free entry.
list == {entry[s] : s \in Slots} \ {NoSocket}
First(s, id) == entry[s] = id /\ \A other \in Slots : entry[other] = id => s <= other

-----------------------------------------------------------------------------
(* _lwip_socket_send_done: tell the requester, if the socket is asked for.  *)

\* Variant: the bit is set whether or not somebody waits.
AnsweredAlways(id) == id \in Ids
Answered(id) == id \in fdsWrite

SendDone(id) ==
  /\ fdsWrite' = fdsWrite \ {id}
  /\ bits' = IF Answered(id) THEN bits \cup {id} ELSE bits

-----------------------------------------------------------------------------
(* Requester: AT+SOPEN, AT+SCLOSE, and a send request.                      *)

Open(id, udp) ==
  /\ rpc = "idle"
  /\ id \notin alive
  /\ \E s \in Slots : First(s, NoSocket) /\ entry' = [entry EXCEPT ![s] = id]
  /\ alive' = alive \cup {id}
  /\ dgram' = IF udp THEN dgram \cup {id} ELSE dgram
  /\ fdsRead' = fdsRead \cup {id}
  /\ fdsWrite' = fdsWrite \ {id}
  /\ UNCHANGED <<req, bits, reqVars, tpc, selVars, sendVars, closeVars, countVars, crossed>>

\* _atcmd_socket_close on the requester's task; AT+SCLOSE without an id is one after the
\* other.
Close(id) ==
  /\ rpc = "idle"
  /\ id \in list
  /\ bits' = IF Answered(id) THEN bits \cup {id} ELSE bits
  /\ fdsRead' = fdsRead \ {id}
  /\ fdsWrite' = fdsWrite \ {id}
  /\ alive' = alive \ {id} /\ dgram' = dgram \ {id}
  /\ entry' = [s \in Slots |-> IF entry[s] = id THEN NoSocket ELSE entry[s]]
  /\ UNCHANGED <<req, reqVars, tpc, selVars, sendVars, closeVars, countVars, crossed>>

\* _atcmd_socket_send_request up to the call of _lwip_socket_send_request.  Its -EBUSY
\* for a request still there needs a second requester: the only one wipes its own.
Request(id, n) ==
  /\ rpc = "idle"
  /\ rno < MaxReq
  /\ req.socket = NoSlot
  /\ \E s \in Slots :
       /\ First(s, id)
       /\ req' = [socket |-> s, len |-> n, done |-> 0, no |-> rno + 1]
       /\ rslot' = s
  /\ rno' = rno + 1
  /\ streams' = IF id \in dgram THEN streams ELSE streams \cup {rno + 1}
  /\ rpc' = "request"
  /\ UNCHANGED <<entry, fdsRead, fdsWrite, bits, alive, dgram, rfd, tpc, selVars,
                 sendVars, closeVars, handed, reported, took, told, crossed>>

\* The id is read from the entry, for the call of _lwip_socket_send_request.
Call ==
  /\ rpc = "request"
  /\ rfd' = entry[rslot]
  /\ rpc' = "call"
  /\ UNCHANGED <<sharedVars, rslot, rno, tpc, selVars, sendVars, closeVars, countVars,
                 crossed>>

\* The caller gets its answer, and the request is wiped.
Return(done) ==
  /\ reported' = [reported EXCEPT ![rno] = done]
  /\ told' = told + done
  /\ req' = NoRequest
  /\ rfd' = NoSocket /\ rslot' = NoSlot
  /\ rpc' = "idle"

\* _lwip_socket_send_request: the socket is set in fds.write.  If the socket task had
\* reset the socket's entry before Call, the id is -1: no fd is set, and no bit.
SetWrite ==
  /\ rpc = "call"
  /\ IF rfd \in fdsWrite
     THEN /\ Return(0)
          /\ UNCHANGED fdsWrite
     ELSE /\ rpc' = "wait"
          /\ fdsWrite' = fdsWrite \cup ({rfd} \ {NoSocket})
          /\ UNCHANGED <<req, rslot, rfd, reported, told>>
  /\ UNCHANGED <<entry, fdsRead, bits, alive, dgram, rno, tpc, selVars, sendVars,
                 closeVars, handed, took, streams, crossed>>

\* xEventGroupWaitBits returns with the bit, and takes it.
WakeDone ==
  /\ rpc = "wait"
  /\ rfd \in bits
  /\ bits' = bits \ {rfd}
  /\ rpc' = "collect"
  /\ UNCHANGED <<entry, req, fdsRead, fdsWrite, alive, dgram, rslot, rno, rfd, tpc,
                 selVars, sendVars, closeVars, countVars, crossed>>

\* ... or without it: _lwip_socket_send_request returns -EBUSY.
WakeTimeout ==
  /\ Timeouts
  /\ rpc = "wait"
  /\ rfd \notin bits
  /\ rpc' = "unset"
  /\ UNCHANGED <<sharedVars, rslot, rno, rfd, tpc, selVars, sendVars, closeVars,
                 countVars, crossed>>

Collect ==
  /\ rpc = "collect"
  /\ Return(req.done)
  /\ UNCHANGED <<entry, fdsRead, fdsWrite, bits, alive, dgram, rno, tpc, selVars,
                 sendVars, closeVars, handed, took, streams, crossed>>

UnsetWrite ==
  /\ rpc = "unset"
  /\ fdsWrite' = fdsWrite \ {rfd}
  /\ Return(0)
  /\ UNCHANGED <<entry, fdsRead, bits, alive, dgram, rno, tpc, selVars, sendVars,
                 closeVars, handed, took, streams, crossed>>

-----------------------------------------------------------------------------
(* Socket task: the loop of _lwip_socket_task.                              *)

\* Another round: the locals of the handlers are gone.
FdsGet ==
  /\ tpc = "get"
  /\ snapRead' = fdsRead /\ snapWrite' = fdsWrite
  /\ tpc' = IF fdsRead \cup fdsWrite = {} THEN "get" ELSE "select"
  /\ tid' = NoSocket /\ treq' = NoData /\ ti' = 0 /\ tretry' = 0
  /\ tslot' = 1 /\ tback' = "scan"
  /\ UNCHANGED <<sharedVars, reqVars, rdyRead, rdyWrite, tclose, tfd, countVars, crossed>>

\* select(): nothing for a time-out or a closed fd; readable matters where the
\* connection is gone.
Select ==
  /\ tpc = "select"
  /\ \E gone \in SUBSET snapRead, writable \in SUBSET snapWrite :
       /\ Errors \/ gone = {}
       /\ snapRead \cup snapWrite \subseteq alive \/ gone \cup writable = {}
       /\ rdyRead' = gone /\ rdyWrite' = writable
       /\ tpc' = IF gone \cup writable = {} THEN "get" ELSE "scan"
  /\ snapRead' = {} /\ snapWrite' = {}
  /\ UNCHANGED <<sharedVars, reqVars, sendVars, closeVars, countVars, crossed>>

ScanEnd ==
  /\ tpc = "scan"
  /\ rdyRead \cup rdyWrite = {}
  /\ tpc' = "get"
  /\ UNCHANGED <<sharedVars, reqVars, selVars, sendVars, closeVars, countVars, crossed>>

\* The loop goes through the fds in ascending order.
Serving(id) ==
  /\ id \in rdyRead \cup rdyWrite
  /\ \A other \in rdyRead \cup rdyWrite : id <= other

\* recv_ready with an error: the socket is closed, if it is still in the list.
RecvGone(id) ==
  /\ tpc = "scan"
  /\ Serving(id) /\ id \in rdyRead
  /\ rdyRead' = rdyRead \ {id}
  /\ IF id \in list
     THEN tclose' = id /\ tslot' = 1 /\ tback' = "scan" /\ tpc' = "close"
     ELSE UNCHANGED <<tclose, tslot, tback, tpc>>
  /\ UNCHANGED <<sharedVars, reqVars, snapRead, snapWrite, rdyWrite, sendVars, tfd,
                 countVars, crossed>>

ServingWrite(id) == tpc = "scan" /\ Serving(id) /\ id \notin rdyRead

\* _atcmd_socket_send_handler: "no request".
SendReadyNone(id) ==
  /\ ServingWrite(id)
  /\ req.socket = NoSlot
  /\ rdyWrite' = rdyWrite \ {id}
  /\ UNCHANGED <<sharedVars, reqVars, tpc, snapRead, snapWrite, rdyRead, sendVars,
                 closeVars, countVars, crossed>>

\* "mismatch id": the request is for another socket, or its socket's entry was reset.
SendReadyOther(id) ==
  /\ ServingWrite(id)
  /\ req.socket # NoSlot
  /\ id # entry[req.socket]
  /\ SendDone(id)
  /\ rdyWrite' = rdyWrite \ {id}
  /\ UNCHANGED <<entry, req, fdsRead, alive, dgram, reqVars, tpc, snapRead, snapWrite,
                 rdyRead, sendVars, closeVars, countVars, crossed>>

\* The request is this socket's.
SendReady(id) ==
  /\ ServingWrite(id)
  /\ req.socket # NoSlot
  /\ id = entry[req.socket]
  /\ rdyWrite' = rdyWrite \ {id}
  /\ tid' = id /\ tslot' = req.socket
  /\ treq' = [no |-> req.no, len |-> req.len]
  /\ ti' = 0 /\ tretry' = 0
  /\ tpc' = "send"
  /\ UNCHANGED <<sharedVars, reqVars, snapRead, snapWrite, rdyRead, tclose, tfd, tback,
                 countVars, crossed>>

-----------------------------------------------------------------------------
(* Socket task: __atcmd_socket_send_data and the answer.  Each call reads the *)
(* id from the entry anew.                                                   *)

Fd == entry[tslot]

Take(k) ==
  /\ handed' = [handed EXCEPT ![treq.no] = @ + k]
  /\ took' = took + k

\* What lwIP takes in a call that fails: a UDP send hands over datagram by datagram, and
\* returns nothing but the error of the one that failed.
Uncounted ==
  IF Fd \in dgram THEN {k \in 0..(treq.len - ti - 1) : k % ChunkMax = 0} ELSE {0}

\* A TCP send takes a part, a UDP send goes on to the end.
SendSome ==
  /\ tpc = "send"
  /\ Fd \in alive
  /\ ti < treq.len
  /\ \E k \in 1..(treq.len - ti) :
       /\ Fd \in dgram => k = treq.len - ti
       /\ ti' = ti + k
       /\ Take(k)
  /\ UNCHANGED <<sharedVars, reqVars, tpc, selVars, tid, treq, tretry, closeVars, reported,
                 told, streams, crossed>>

\* -ENOMEM, -ENOBUFS, -EWOULDBLOCK: tried again after a while, retry_max times.
SendFull ==
  /\ tpc = "send"
  /\ Fd \in alive
  /\ ti < treq.len
  /\ \E k \in Uncounted : Take(k)
  /\ tretry' = tretry + 1
  /\ tpc' = IF tretry + 1 < RetryMax THEN "send" ELSE "answer"
  /\ UNCHANGED <<sharedVars, reqVars, selVars, tid, treq, ti, closeVars, reported, told,
                 streams, crossed>>

\* Any other error, such as no remote port to send to: given up.
SendRefused ==
  /\ tpc = "send"
  /\ Fd \in alive
  /\ ti < treq.len
  /\ \E k \in Uncounted : Take(k)
  /\ tpc' = "answer"
  /\ UNCHANGED <<sharedVars, reqVars, selVars, tid, treq, ti, tretry, closeVars, reported,
                 told, streams, crossed>>

\* The connection is gone, or the fd.
SendBroken ==
  /\ tpc = "send"
  /\ Errors \/ Fd \notin alive
  /\ ti < treq.len
  /\ \E k \in Uncounted : Take(k)
  /\ tpc' = "broken"
  /\ UNCHANGED <<sharedVars, reqVars, selVars, tid, treq, ti, tretry, closeVars, reported,
                 told, streams, crossed>>

\* The socket is closed on the spot: all sockets, if its entry was reset meanwhile.
BrokenClose ==
  /\ tpc = "broken"
  /\ tclose' = Fd /\ tslot' = 1 /\ tback' = "answer"
  /\ tpc' = "close"
  /\ UNCHANGED <<sharedVars, reqVars, selVars, sendVars, tfd, countVars, crossed>>

SendAll ==
  /\ tpc = "send"
  /\ ti = treq.len
  /\ tpc' = "answer"
  /\ UNCHANGED <<sharedVars, reqVars, selVars, sendVars, closeVars, countVars, crossed>>

\* The order in which the answer is given.  Variant: the requester is told before the
\* answer is there.
AnswerStepsSwapped == [answer |-> "tell", tell |-> "clear", clear |-> "fill", fill |-> "scan"]
AnswerSteps == [answer |-> "clear", clear |-> "fill", fill |-> "tell", tell |-> "scan"]

AnswerStart ==
  /\ tpc = "answer"
  /\ tpc' = AnswerSteps.answer
  /\ UNCHANGED <<sharedVars, reqVars, selVars, sendVars, closeVars, countVars, crossed>>

AnswerClear ==
  /\ tpc = "clear"
  /\ req' = [req EXCEPT !.socket = NoSlot, !.len = 0]
  /\ tpc' = AnswerSteps.clear
  /\ UNCHANGED <<entry, fdsRead, fdsWrite, bits, alive, dgram, reqVars, selVars, sendVars,
                 closeVars, countVars, crossed>>

\* *done of __atcmd_socket_send_data.  Variants: the whole length, also after a failure;
\* the index of the last byte.
DoneCountAll == treq.len
DoneCountLast == ti - 1
DoneCount == ti

AnswerFill ==
  /\ tpc = "fill"
  /\ req' = [req EXCEPT !.done = DoneCount]
  /\ tpc' = AnswerSteps.fill
  /\ UNCHANGED <<entry, fdsRead, fdsWrite, bits, alive, dgram, reqVars, selVars, sendVars,
                 closeVars, countVars, crossed>>

AnswerTell ==
  /\ tpc = "tell"
  /\ SendDone(tid)
  /\ tpc' = AnswerSteps.tell
  /\ UNCHANGED <<entry, req, fdsRead, alive, dgram, reqVars, selVars, sendVars, closeVars,
                 countVars, crossed>>

-----------------------------------------------------------------------------
(* Socket task: _atcmd_socket_close, a loop over the entries.               *)

\* The next entry to close, at or after tslot.
ToClose(s) ==
  /\ s >= tslot
  /\ entry[s] # NoSocket
  /\ tclose \in {NoSocket, entry[s]}

CloseTell ==
  /\ tpc = "close"
  /\ \E s \in Slots :
       /\ ToClose(s) /\ \A other \in Slots : ToClose(other) => s <= other
       /\ SendDone(entry[s])
       /\ tslot' = s
  /\ tpc' = "fdsclear"
  /\ UNCHANGED <<entry, req, fdsRead, alive, dgram, reqVars, selVars, sendVars, tclose, tfd,
                 tback, countVars, crossed>>

CloseFdsClear ==
  /\ tpc = "fdsclear"
  /\ tfd' = Fd
  /\ fdsRead' = fdsRead \ {Fd}
  /\ fdsWrite' = fdsWrite \ {Fd}
  /\ tpc' = "closefd"
  /\ UNCHANGED <<entry, req, bits, alive, dgram, reqVars, selVars, sendVars, tslot, tclose,
                 tback, countVars, crossed>>

CloseFd ==
  /\ tpc = "closefd"
  /\ alive' = alive \ {tfd} /\ dgram' = dgram \ {tfd}
  /\ crossed' = (crossed \/ (tfd \in list /\ Fd # tfd))
  /\ tfd' = NoSocket
  /\ tpc' = "resetid"
  /\ UNCHANGED <<entry, req, fdsRead, fdsWrite, bits, reqVars, selVars, sendVars, tslot,
                 tclose, tback, countVars>>

\* The CLOSE event is transmitted, then the entry is reset.
CloseReset ==
  /\ tpc = "resetid"
  /\ entry' = [entry EXCEPT ![tslot] = NoSocket]
  /\ tslot' = tslot + 1
  /\ tpc' = "close"
  /\ UNCHANGED <<req, fdsRead, fdsWrite, bits, alive, dgram, reqVars, selVars, sendVars,
                 tclose, tfd, tback, countVars, crossed>>

CloseEnd ==
  /\ tpc = "close"
  /\ \A s \in Slots : ~ToClose(s)
  /\ tclose' = NoSocket /\ tslot' = 1
  /\ tpc' = tback
  /\ UNCHANGED <<sharedVars, reqVars, selVars, sendVars, tfd, tback, countVars, crossed>>

-----------------------------------------------------------------------------
Init ==
  /\ entry = [s \in Slots |-> NoSocket] /\ req = NoRequest
  /\ fdsRead = {} /\ fdsWrite = {} /\ bits = {}
  /\ alive = {} /\ dgram = {}
  /\ rpc = "idle" /\ rslot = NoSlot /\ rno = 0 /\ rfd = NoSocket
  /\ tpc = "get"
  /\ snapRead = {} /\ snapWrite = {} /\ rdyRead = {} /\ rdyWrite = {}
  /\ tid = NoSocket /\ treq = NoData /\ ti = 0 /\ tretry = 0
  /\ tslot = 1 /\ tclose = NoSocket /\ tfd = NoSocket /\ tback = "scan"
  /\ handed = [n \in 1..MaxReq |-> 0]
  /\ reported = [n \in 1..MaxReq |-> -1]
  /\ took = 0 /\ told = 0 /\ streams = {} /\ crossed = FALSE

RequesterStep == Call \/ SetWrite \/ WakeDone \/ Collect \/ UnsetWrite

SendStep == SendSome \/ SendFull \/ SendRefused \/ SendBroken \/ BrokenClose \/ SendAll
AnswerStep == AnswerStart \/ AnswerClear \/ AnswerFill \/ AnswerTell
CloseStep == CloseTell \/ CloseFdsClear \/ CloseFd \/ CloseReset \/ CloseEnd
ScanStep ==
  \/ ScanEnd
  \/ \E id \in Ids : RecvGone(id) \/ SendReadyNone(id) \/ SendReadyOther(id) \/ SendReady(id)

SocketTask == FdsGet \/ Select \/ ScanStep \/ SendStep \/ AnswerStep \/ CloseStep

Next ==
  \/ \E id \in Ids, udp \in BOOLEAN : Open(id, udp)
  \/ \E id \in Ids : Close(id)
  \/ \E id \in Ids, n \in 1..MaxLen : Request(id, n)
  \/ RequesterStep \/ WakeTimeout
  \/ SocketTask

Spec == Init /\ [][Next]_vars

\* Both tasks run, and a socket that is asked for again and again is writable at last.
FairSpec ==
  /\ Spec
  /\ WF_vars(RequesterStep) /\ WF_vars(SocketTask)
  /\ \A id \in Ids : SF_vars(Select /\ id \in rdyWrite')

-----------------------------------------------------------------------------
TypeOK ==
  /\ entry \in [Slots -> Ids \cup {NoSocket}]
  /\ fdsRead \subseteq Ids /\ fdsWrite \subseteq Ids
  /\ bits \subseteq Ids /\ alive \subseteq Ids /\ dgram \subseteq Ids
  /\ req \in [socket : Slots \cup {NoSlot}, len : Nat, done : Nat, no : 0..MaxReq]
  /\ rpc \in {"idle", "request", "call", "wait", "collect", "unset"}
  /\ rslot \in Slots \cup {NoSlot} /\ (rpc # "idle" => rslot \in Slots)
  /\ rfd \in Ids \cup {NoSocket} /\ rno \in 0..MaxReq
  /\ tpc \in {"get", "select", "scan", "send", "broken", "answer", "clear", "fill", "tell",
              "close", "fdsclear", "closefd", "resetid"}
  /\ snapRead \subseteq Ids /\ snapWrite \subseteq Ids
  /\ rdyRead \subseteq Ids /\ rdyWrite \subseteq Ids
  /\ tid \in Ids \cup {NoSocket} /\ treq \in [no : 0..MaxReq, len : Nat]
  /\ ti \in Nat /\ tretry \in Nat
  /\ tslot \in 1..(SlotNum + 1) /\ (tpc # "close" => tslot \in Slots)
  /\ tclose \in Ids \cup {NoSocket} /\ tfd \in Ids \cup {NoSocket}
  /\ tback \in {"scan", "answer"}
  /\ handed \in [1..MaxReq -> Nat]
  /\ reported \in [1..MaxReq -> Nat \cup {-1}]
  /\ took \in Nat /\ told \in Nat /\ streams \subseteq 1..MaxReq /\ crossed \in BOOLEAN

\* The send_ready handler finds the request it is called for: a socket stays in fds.write
\* only while its own request is outstanding (atcmd_socket.c:601-629).
RequestPresent ==
  \A id \in Ids : ServingWrite(id) => req.socket # NoSlot /\ entry[req.socket] = id

\* Who asked for a send is told no more than lwIP took of that very request, and on a TCP
\* socket exactly that: the request, its answer and the done bit are handed over in the
\* right order without a lock (atcmd_socket.c:354-394, 601-629), and lwIP takes no more
\* of it afterwards.  On a UDP socket the count may be short: the datagrams of a call that
\* failed at a later one are not counted, and are sent again by the retry
\* (lwip_socket.c:1218-1237, atcmd_socket.c:463-470).
OwnResult ==
  \A n \in 1..MaxReq : reported[n] # -1 =>
    /\ reported[n] <= handed[n]
    /\ n \in streams => reported[n] = handed[n]

\* The socket task reads the requester's buffer only while the requester is in the call
\* for this request, so never while the next bytes are received into it, even when peers
\* close connections (atcmd_socket.c:438-482).  One interleaving is excepted: the socket
\* task's close() has hit a socket that was opened with the same fd, in another entry,
\* after it cleared the fd sets (lwip_socket.c:1061-1072); two entries may have the same
\* id then.
BufferStable ==
  tpc = "send" /\ ti < treq.len /\ ~crossed =>
    rpc \in {"request", "call", "wait"} /\ rno = treq.no

\* No done bit is left over for a later request, although the call that would clear them
\* is commented out (lwip_socket.c:1104).
NoStaleBit == rpc \in {"idle", "request", "call"} => bits = {}

\* Whatever goes wrong, the bytes reported as sent never exceed the bytes lwIP took, all
\* requests together: a late answer counts once, for one caller
\* (atcmd_socket.c:367-390, 2723-2733).
NotOverstated == told <= took

\* A send request comes to its end: the done bit is neither lost nor given to another
\* socket (lwip_socket.c:1079-1156).
RequestEnds == rpc = "wait" ~> rpc = "idle"
=============================================================================
