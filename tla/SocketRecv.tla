----------------------------- MODULE SocketRecv -----------------------------
(***************************************************************************)
(* How socket data reaches the host (AT+SRECVMODE, AT+SRECV).               *)
(*                                                                          *)
(*   receive task: runs the host's commands; in the passive mode AT+SRECV   *)
(*                 reads a socket and sends its data as an RXD message;     *)
(*   socket task:  _lwip_socket_task -> _atcmd_socket_recv_handler, which   *)
(*                 announces data in the passive mode and sends it in the   *)
(*                 active one, and finds out when a peer has closed.        *)
(*                                                                          *)
(* Both go through __atcmd_socket_recv_handler, and there is one             *)
(* g_atcmd_socket_rxd for both, without a lock; the tasks have the same      *)
(* priority and wait for the transmit mutex and for room on the host's link. *)
(***************************************************************************)
EXTENDS Integers, Sequences

CONSTANTS
  Ids,      \* open sockets, a finite set of naturals
  DataLen,  \* ATCMD_DATA_LEN_MAX, in units
  \* Bounds of the model
  MaxData,  \* units that arrive for one socket
  MaxModes  \* AT+SRECVMODE commands

VARIABLES
  \* lwIP
  queue,    \* [socket -> units received and not read]
  peer,     \* [socket -> "open", "fin" (closed, not yet told), "gone"]
  arrived,  \* [socket -> units that have arrived]
  \* shared by the tasks
  list,     \* ids in g_atcmd_socket
  fdsRead,  \* info->fds.read
  passive, ready, \* g_atcmd_socket_recv_config
  rxd,      \* g_atcmd_socket_rxd: rxd->socket.id, and whose data rxd->buf holds
  \* the tasks: where each is, the socket it serves and, for a change of "ready" that is
  \* under way, the value it has read
  pc, sid, load,
  todo,     \* socket task: fds_read after select, not served yet
  left,     \* socket task: units of the len of its loop still to be read
  \* history
  modes,    \* AT+SRECVMODE commands so far
  host      \* messages sent to the host

lwipVars == <<queue, peer, arrived>>
sharedVars == <<list, fdsRead, passive, ready>>
taskVars == <<pc, sid, load, todo, left>>
vars == <<lwipVars, sharedVars, rxd, taskVars, modes, host>>

Tasks == {"receive", "socket"}
NoSocket == -1

Go(t, place) == pc' = [pc EXCEPT ![t] = place]

-----------------------------------------------------------------------------
(* lwIP.                                                                    *)

DataArrives(id) ==
  /\ peer[id] = "open" /\ arrived[id] < MaxData
  /\ queue' = [queue EXCEPT ![id] = @ + 1]
  /\ arrived' = [arrived EXCEPT ![id] = @ + 1]
  /\ UNCHANGED <<peer, sharedVars, rxd, taskVars, modes, host>>

PeerCloses(id) ==
  /\ peer[id] = "open"
  /\ peer' = [peer EXCEPT ![id] = "fin"]
  /\ UNCHANGED <<queue, arrived, sharedVars, rxd, taskVars, modes, host>>

Readable(id) == queue[id] > 0 \/ peer[id] # "open"

-----------------------------------------------------------------------------
(* __atcmd_socket_recv_handler, by either task.                             *)

\* The socket is copied to rxd->socket, if it is there.
Copy(t) ==
  /\ pc[t] = "copy"
  /\ IF sid[t] \in list
     THEN /\ rxd' = [rxd EXCEPT !.id = sid[t]]
          /\ Go(t, "recv")
     ELSE /\ Go(t, IF t = "socket" THEN "scan" ELSE "check")
          /\ UNCHANGED rxd
  /\ UNCHANGED <<lwipVars, sharedVars, sid, load, todo, left, modes, host>>

\* How much a task asks for: AT+SRECV without a length; the rest of its loop's len, and
\* nothing where FIONREAD gave nothing.
Asked(t) == IF t = "receive" \/ left > DataLen THEN DataLen ELSE left

\* recv() into rxd->buf.data.
RecvSome(t) ==
  /\ pc[t] = "recv"
  /\ queue[sid[t]] > 0 /\ Asked(t) > 0
  /\ LET n == IF queue[sid[t]] < Asked(t) THEN queue[sid[t]] ELSE Asked(t)
     IN /\ queue' = [queue EXCEPT ![sid[t]] = @ - n]
        /\ left' = IF t = "socket" THEN left - n ELSE left
  /\ rxd' = [rxd EXCEPT !.data = sid[t]]
  /\ Go(t, IF t = "receive" THEN "ok" ELSE "rxd")
  /\ UNCHANGED <<peer, arrived, sharedVars, sid, load, todo, modes, host>>

\* recv() gives nothing: -EAGAIN, or the end of the stream, which is told once.  A loop
\* that has more to read goes round again.
RecvNone(t) ==
  /\ pc[t] = "recv"
  /\ queue[sid[t]] = 0 \/ Asked(t) = 0
  /\ queue[sid[t]] > 0 \/ peer[sid[t]] # "gone"
  /\ peer' = IF queue[sid[t]] = 0 /\ peer[sid[t]] = "fin"
             THEN [peer EXCEPT ![sid[t]] = "gone"] ELSE peer
  /\ Go(t, IF t = "receive" THEN "check" ELSE IF left > 0 THEN "copy" ELSE "scan")
  /\ UNCHANGED <<queue, arrived, sharedVars, rxd, sid, load, todo, left, modes, host>>

\* -ENOTCONN: the socket is closed and its entry reset; the host is told.
RecvGone(t) ==
  /\ pc[t] = "recv"
  /\ queue[sid[t]] = 0 /\ peer[sid[t]] = "gone"
  /\ list' = list \ {sid[t]}
  /\ fdsRead' = fdsRead \ {sid[t]}
  /\ ready' = IF passive THEN ready \ {sid[t]} ELSE ready
  /\ host' = Append(host, [msg |-> "close", id |-> sid[t], data |-> NoSocket])
  /\ Go(t, IF t = "receive" THEN "check" ELSE "scan")
  /\ UNCHANGED <<lwipVars, passive, rxd, sid, load, todo, left, modes>>

\* _atcmd_socket_recv_data: the RXD message is made of rxd as it is now.
SendRxd(t) ==
  /\ pc[t] = "rxd"
  /\ host' = Append(host, [msg |-> "rxd", id |-> rxd.id, data |-> rxd.data])
  /\ Go(t, IF t = "receive" THEN "check" ELSE IF left > 0 THEN "copy" ELSE "scan")
  /\ UNCHANGED <<lwipVars, sharedVars, rxd, sid, load, todo, left, modes>>

-----------------------------------------------------------------------------
(* Receive task.                                                            *)

\* AT+SRECVMODE: sockets announced and not read stay out of fds.read.
RecvMode(mode) ==
  /\ pc["receive"] = "idle"
  /\ modes < MaxModes
  /\ modes' = modes + 1
  /\ passive' = mode
  /\ ready' = {}
  /\ UNCHANGED <<lwipVars, list, fdsRead, rxd, taskVars, host>>

\* AT+SRECV=<socket_ID>.  Without data it waits, or fails after a time-out.
Srecv(id) ==
  /\ pc["receive"] = "idle"
  /\ passive
  /\ queue[id] > 0
  /\ sid' = [sid EXCEPT !["receive"] = id]
  /\ Go("receive", "copy")
  /\ UNCHANGED <<lwipVars, sharedVars, rxd, load, todo, left, modes, host>>

\* "OK" goes before the data, and waits for its turn to transmit.
SrecvOk ==
  /\ pc["receive"] = "ok"
  /\ Go("receive", "rxd")
  /\ UNCHANGED <<lwipVars, sharedVars, rxd, sid, load, todo, left, modes, host>>

\* If the socket was announced it may be again: "ready &= ~(1 << id)" is a load ...
SrecvCheck ==
  /\ pc["receive"] = "check"
  /\ load' = [load EXCEPT !["receive"] = ready]
  /\ Go("receive", IF sid["receive"] \in ready THEN "store" ELSE "idle")
  /\ UNCHANGED <<lwipVars, sharedVars, rxd, sid, todo, left, modes, host>>

\* ... and a store; _lwip_socket_recv_request.
SrecvStore ==
  /\ pc["receive"] = "store"
  /\ ready' = load["receive"] \ {sid["receive"]}
  /\ fdsRead' = fdsRead \cup {sid["receive"]}
  /\ Go("receive", "idle")
  /\ UNCHANGED <<lwipVars, list, passive, rxd, sid, load, todo, left, modes, host>>

-----------------------------------------------------------------------------
(* Socket task.                                                             *)

Select ==
  /\ pc["socket"] = "select"
  /\ todo' = {id \in fdsRead : Readable(id)}
  /\ Go("socket", IF todo' = {} THEN "select" ELSE "scan")
  /\ UNCHANGED <<lwipVars, sharedVars, rxd, sid, load, left, modes, host>>

ScanEnd ==
  /\ pc["socket"] = "scan" /\ todo = {}
  /\ Go("socket", "select")
  /\ UNCHANGED <<lwipVars, sharedVars, rxd, sid, load, todo, left, modes, host>>

\* _atcmd_socket_recv_handler: by what FIONREAD says, and by the mode.
Serve(id) ==
  /\ pc["socket"] = "scan"
  /\ id \in todo /\ \A other \in todo : id <= other
  /\ todo' = todo \ {id}
  /\ sid' = [sid EXCEPT !["socket"] = id]
  /\ left' = queue[id]
  /\ Go("socket", IF queue[id] > 0 /\ passive THEN "done" ELSE "copy")
  /\ UNCHANGED <<lwipVars, sharedVars, rxd, load, modes, host>>

\* _lwip_socket_recv_done, and the load of "ready |= 1 << id", if the bit is not set.
AnnounceDone ==
  /\ pc["socket"] = "done"
  /\ fdsRead' = fdsRead \ {sid["socket"]}
  /\ load' = [load EXCEPT !["socket"] = ready]
  /\ Go("socket", IF sid["socket"] \in ready THEN "scan" ELSE "mark")
  /\ UNCHANGED <<lwipVars, list, passive, ready, rxd, sid, todo, left, modes, host>>

\* The store, and the RECV_READY event.
AnnounceMark ==
  /\ pc["socket"] = "mark"
  /\ ready' = load["socket"] \cup {sid["socket"]}
  /\ host' = Append(host, [msg |-> "ready", id |-> sid["socket"], data |-> NoSocket])
  /\ Go("socket", "scan")
  /\ UNCHANGED <<lwipVars, list, fdsRead, passive, rxd, sid, load, todo, left, modes>>

-----------------------------------------------------------------------------
\* Sockets are open and connected, the mode is what AT+SRECVMODE made it.
Init ==
  /\ queue = [id \in Ids |-> 0] /\ peer = [id \in Ids |-> "open"]
  /\ arrived = [id \in Ids |-> 0]
  /\ list = Ids /\ fdsRead = Ids /\ passive \in BOOLEAN /\ ready = {}
  /\ rxd = [id |-> NoSocket, data |-> NoSocket]
  /\ pc = [t \in Tasks |-> IF t = "receive" THEN "idle" ELSE "select"]
  /\ sid = [t \in Tasks |-> NoSocket] /\ load = [t \in Tasks |-> {}]
  /\ todo = {} /\ left = 0
  /\ modes = 0 /\ host = <<>>

Handler(t) == Copy(t) \/ RecvSome(t) \/ RecvNone(t) \/ RecvGone(t) \/ SendRxd(t)

ReceiveTask ==
  \/ \E mode \in BOOLEAN : RecvMode(mode)
  \/ \E id \in list : Srecv(id)
  \/ SrecvOk \/ SrecvCheck \/ SrecvStore
  \/ Handler("receive")

SocketTask ==
  \/ Select \/ ScanEnd
  \/ \E id \in Ids : Serve(id)
  \/ AnnounceDone \/ AnnounceMark
  \/ Handler("socket")

Next ==
  \/ \E id \in Ids : DataArrives(id) \/ PeerCloses(id)
  \/ ReceiveTask \/ SocketTask

Spec == Init /\ [][Next]_vars

-----------------------------------------------------------------------------
\* An RXD message names the socket its data was read from: "AT+SRECV=<socket_ID>"
\* (atcmd_socket.c:1732) is answered with data of that socket, and the host sorts it by
\* the id (atcmd_socket.c:633-666).
RxdOwn ==
  \A i \in DOMAIN host : host[i].msg = "rxd" => host[i].id = host[i].data
=============================================================================
