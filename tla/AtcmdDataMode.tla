---------------------------- MODULE AtcmdDataMode ----------------------------
(***************************************************************************)
(* The data mode of the AT firmware (atcmd_core.c), entered by AT+SSEND.    *)
(*                                                                          *)
(*   host:      AT+SSEND, then data; after a SEND_IDLE event it may send    *)
(*              the exit command, which is an AT command too ("AT\r\n");    *)
(*   R:         the receive task: atcmd_receive -> atcmd_receive_data, or   *)
(*              atcmd_receive_command while no data mode is on;             *)
(*   D:         atcmd_data_mode_task, of a higher priority, which tells the *)
(*              host when no data came for a while.                         *)
(*                                                                          *)
(* The stream from the host is a sequence of units.  "data" is a piece of   *)
(* data that does not start like the exit command, "like" one that does;    *)
(* "exit1" and "exit2" make up the exit command; "cmd" is AT+SSEND.         *)
(***************************************************************************)
EXTENDS Naturals, Sequences

CONSTANTS
  BufMax,    \* ATCMD_DATA_LEN_MAX, in units: the size of the static _buf
  DoneEvent, \* whether the host asked for SEND_DONE events
  \* Bounds of the model
  MaxData,   \* units of data sent altogether
  MaxModes,  \* AT+SSEND commands
  MaxExits   \* exit commands

ASSUME DataModeAssumption ==
  /\ BufMax \in Nat \ {0} /\ DoneEvent \in BOOLEAN
  /\ MaxData \in Nat /\ MaxModes \in Nat /\ MaxExits \in Nat

VARIABLES
  \* host
  hpc,       \* what it waits for
  hpass,     \* passthrough of its last AT+SSEND: <length> not positive
  hlen,      \* abs(<length>) of it
  hleft,     \* units of data it still owes a mode of fixed length
  told,      \* a SEND_IDLE event came after everything it sent
  link,      \* units on the way to the target
  used,      \* what it has sent so far of each bounded kind
  \* g_atcmd_data_mode
  enable, idle,
  pass,      \* params.ssend.passthrough
  len,       \* send_len
  cnt,       \* units in _buf
  done, drop,
  timer,     \* "off", or whether send_timeout has passed since last_send_time
  \* receive task
  rpc, rbuf,
  cntExit,   \* static cnt_exit_cmd
  rn,        \* units handed to _atcmd_receive_data
  rret,      \* what it returned
  at,        \* the command line read so far is that of the exit command
  \* data-mode task
  dpc, notified,
  \* history
  took,      \* units taken as data since the mode was enabled
  sock,      \* units of them the socket took
  report,    \* the counts last reported to the host, with took, sock and the units still
             \* in _buf then (left)
  parsed     \* data ever given to atcmd_receive_command

hostVars == <<hpc, hpass, hlen, hleft, told, used>>
modeVars == <<enable, idle, pass, len, cnt, done, drop, timer>>
recvVars == <<rpc, rbuf, cntExit, rn, rret, at>>
taskVars == <<dpc, notified>>
histVars == <<took, sock, report, parsed>>
vars == <<hostVars, link, modeVars, recvVars, taskVars, histVars>>

Data == {"data", "like"}

-----------------------------------------------------------------------------
(* Host.                                                                    *)

\* AT+SSEND=<id>,<length>.
HostCommand ==
  /\ hpc = "command"
  /\ used.modes < MaxModes
  /\ used' = [used EXCEPT !.modes = @ + 1]
  /\ \E l \in 0..BufMax, p \in BOOLEAN : (l = 0 => p) /\ hlen' = l /\ hpass' = p
  /\ link' = Append(link, "cmd")
  /\ hpc' = "ok"
  /\ UNCHANGED <<hleft, told, modeVars, recvVars, taskVars, histVars>>

\* Data; after the last unit of a fixed length the host goes on with its next command.
HostData ==
  /\ hpc = "data"
  /\ used.data < MaxData
  /\ used' = [used EXCEPT !.data = @ + 1]
  /\ \E u \in Data : link' = Append(link, u)
  /\ hleft' = IF hpass THEN hleft ELSE hleft - 1
  /\ hpc' = IF ~hpass /\ hleft = 1 THEN "command" ELSE "data"
  /\ told' = FALSE
  /\ UNCHANGED <<hpass, hlen, modeVars, recvVars, taskVars, histVars>>

\* The exit command, before or after the last unit of a fixed length, and again when SEND_IDLE
\* comes instead of its answer.  The host's program sends it 3 s after its last data, when the
\* target's 1.1 s are over and the event is out.
HostExit ==
  /\ hpc # "ok"
  /\ told
  /\ used.exits < MaxExits
  /\ used' = [used EXCEPT !.exits = @ + 1]
  /\ link' = link \o <<"exit1", "exit2">>
  /\ hpc' = "exit"
  /\ told' = FALSE
  /\ UNCHANGED <<hpass, hlen, hleft, modeVars, recvVars, taskVars, histVars>>

-----------------------------------------------------------------------------
(* Receive task.                                                            *)

\* D waits for the transmit mutex, which is handed to it first.
TxFree == dpc # "tell"

\* _hif_rx_task: whatever has arrived.
Receive ==
  /\ rpc = "recv" /\ rbuf = <<>>
  /\ \E n \in 1..Len(link) :
       /\ rbuf' = SubSeq(link, 1, n)
       /\ link' = SubSeq(link, n + 1, Len(link))
  /\ UNCHANGED <<hostVars, modeVars, rpc, cntExit, rn, rret, at, taskVars, histVars>>

\* atcmd_data_mode_continue.  Variant: idle is left as it is.
ContinuedIdleKept == idle
ContinuedIdle == FALSE

Continue ==
  /\ idle' = ContinuedIdle
  /\ timer' = "running"
  /\ notified' = TRUE

\* atcmd_receive_command executes AT+SSEND: atcmd_data_mode_enable, then OK.
ParseSend ==
  /\ rpc = "recv" /\ ~enable
  /\ rbuf # <<>> /\ Head(rbuf) = "cmd"
  /\ TxFree
  /\ rbuf' = Tail(rbuf)
  /\ enable' = TRUE /\ pass' = hpass /\ len' = hlen
  /\ cnt' = 0 /\ done' = 0 /\ drop' = 0
  /\ Continue
  /\ hpc' = "data" /\ hleft' = hlen /\ told' = FALSE
  /\ took' = 0 /\ sock' = 0
  /\ UNCHANGED <<hpass, hlen, used, link, rpc, cntExit, rn, rret, at, dpc, report, parsed>>

\* Any other unit: the exit command is the command AT, answered with OK.
ParseOther ==
  /\ rpc = "recv" /\ ~enable
  /\ rbuf # <<>> /\ Head(rbuf) # "cmd"
  /\ rbuf' = Tail(rbuf)
  /\ at' = (Head(rbuf) = "exit1")
  /\ parsed' = (parsed \/ Head(rbuf) \in Data)
  /\ IF at /\ Head(rbuf) = "exit2"
       THEN /\ TxFree
            /\ hpc' = IF hpc = "exit" THEN "command" ELSE hpc
       ELSE UNCHANGED hpc
  /\ UNCHANGED <<hpass, hlen, hleft, told, used, link, modeVars, rpc, cntExit, rn, rret,
                 taskVars, took, sock, report>>

\* The exit command is compared from where the previous buffer ended.  Variant: its
\* first unit is enough.
Looks(u, i) == u \in IF i = 0 THEN {"like", "exit1"} ELSE {"exit2"}
Matches(n) == n <= Len(rbuf) /\ \A i \in 1..n : Looks(rbuf[i], cntExit + i - 1)
ExitMatchAny == Matches(1)
ExitMatch == Matches(2 - cntExit)
ExitPart == Len(rbuf) < 2 - cntExit /\ Matches(Len(rbuf))

\* Variant: a mismatch leaves the count.
MismatchCountKept == cntExit
MismatchCount == 0

\* Idle, and the buffer is not the exit command; or not idle.
TestData ==
  /\ rpc = "recv" /\ enable /\ rbuf # <<>>
  /\ idle => ~ExitMatch /\ ~ExitPart
  /\ cntExit' = IF idle THEN MismatchCount ELSE cntExit
  /\ rpc' = "data"
  /\ UNCHANGED <<hostVars, link, modeVars, rbuf, rn, rret, at, taskVars, histVars>>

\* The start of the exit command at the end of a buffer is swallowed.
TestPart ==
  /\ rpc = "recv" /\ enable /\ rbuf # <<>>
  /\ idle /\ ExitPart
  /\ cntExit' = cntExit + Len(rbuf)
  /\ rbuf' = <<>>
  /\ UNCHANGED <<hostVars, link, modeVars, rpc, rn, rret, at, taskVars, histVars>>

\* The exit command: OK, and the units in _buf are sent if the mode passes data through.
\* atcmd_receive_data returns i: the command's last unit is read as a command.
TestExit ==
  /\ rpc = "recv" /\ enable /\ rbuf # <<>>
  /\ idle /\ ExitMatch
  /\ TxFree
  /\ cntExit' = 0
  /\ rbuf' = SubSeq(rbuf, 2 - cntExit, Len(rbuf))
  /\ Continue
  /\ hpc' = IF hpc = "exit" THEN "command" ELSE hpc
  /\ rn' = IF pass THEN cnt ELSE 0
  /\ rpc' = "exitsend"
  /\ UNCHANGED <<hpass, hlen, hleft, told, used, link, enable, pass, len, cnt, done, drop,
                 rret, at, dpc, histVars>>

\* Units taken from the buffer: no more than the length, or everything when passing through
\* without a length.  Variant: everything, always.
TakeLenAll == Len(rbuf)
TakeLen == IF (pass /\ len = 0) \/ cnt + Len(rbuf) <= len THEN Len(rbuf) ELSE len - cnt

\* The units are added to _buf until the length is reached; then they are sent.
DataTake ==
  /\ rpc = "data"
  /\ rbuf' = SubSeq(rbuf, TakeLen + 1, Len(rbuf))
  /\ took' = took + TakeLen
  /\ IF pass /\ len = 0
       THEN rn' = TakeLen /\ rpc' = "send" /\ UNCHANGED cnt
       ELSE /\ cnt' = cnt + TakeLen
            /\ rn' = IF cnt' < len THEN 0 ELSE len
            /\ rpc' = IF cnt' < len THEN "continue" ELSE "send"
  /\ UNCHANGED <<hostVars, link, enable, idle, pass, len, done, drop, timer, cntExit, rret,
                 at, taskVars, sock, report, parsed>>

\* atcmd_socket_send_data returns, however long it took, with what the socket took.
SendReturn ==
  /\ rpc \in {"send", "exitsend"}
  /\ rret' \in 0..rn
  /\ sock' = sock + rret'
  /\ rpc' = IF rpc = "send" THEN "count" ELSE "exit"
  /\ UNCHANGED <<hostVars, link, modeVars, rbuf, cntExit, rn, at, taskVars, took, report, parsed>>

\* The counts of a mode that passes data through are kept.  Variant: the dropped ones are
\* counted as one.
DropCountOne == IF rret < rn THEN drop + 1 ELSE drop
DropCount == drop + (rn - rret)

SendCount ==
  /\ rpc = "count"
  /\ IF pass
       THEN cnt' = 0 /\ done' = done + rret /\ drop' = DropCount
       ELSE UNCHANGED <<cnt, done, drop>>
  /\ rpc' = "event"
  /\ UNCHANGED <<hostVars, link, enable, idle, pass, len, timer, rbuf, cntExit, rn, rret, at,
                 taskVars, histVars>>

\* atcmd_data_mode_disable.
Disable ==
  /\ enable' = FALSE /\ idle' = FALSE /\ pass' = FALSE
  /\ len' = 0 /\ cnt' = 0 /\ done' = 0 /\ drop' = 0
  /\ UNCHANGED timer

Reported(sent, lost, left) ==
  [done |-> sent, drop |-> lost, left |-> left, took |-> took, sock |-> sock]

\* SEND_DROP and SEND_DONE; a mode of fixed length is over.
SendEvent ==
  /\ rpc = "event"
  /\ DoneEvent \/ rret < rn => TxFree
  /\ IF pass
       THEN rpc' = "continue" /\ UNCHANGED <<modeVars, report>>
       ELSE rpc' = "recv" /\ Disable /\ report' = Reported(rret, rn - rret, 0)
  /\ UNCHANGED <<hostVars, link, rbuf, cntExit, rn, rret, at, taskVars, took, sock, parsed>>

DataContinue ==
  /\ rpc = "continue"
  /\ Continue
  /\ rpc' = "recv"
  /\ UNCHANGED <<hostVars, link, enable, pass, len, cnt, done, drop, rbuf, cntExit, rn, rret,
                 at, dpc, histVars>>

\* SEND_EXIT with the counts of the whole mode.  A fixed length reports the zeros it started
\* with, and what is in _buf goes with the mode.
ExitEvent ==
  /\ rpc = "exit"
  /\ TxFree
  /\ report' = IF pass THEN Reported(done + rret, DropCount, 0) ELSE Reported(done, drop, cnt)
  /\ Disable
  /\ rpc' = "recv"
  /\ UNCHANGED <<hostVars, link, rbuf, cntExit, rn, rret, at, taskVars, took, sock, parsed>>

-----------------------------------------------------------------------------
(* Data-mode task.                                                          *)

\* send_timeout has passed.
Expire ==
  /\ timer = "running"
  /\ timer' = "over"
  /\ UNCHANGED <<hostVars, link, enable, idle, pass, len, cnt, done, drop, recvVars, taskVars,
                 histVars>>

\* ulTaskNotifyTake returns.
TaskWake ==
  /\ \/ dpc = "wait" /\ notified
     \/ dpc = "timed" /\ (notified \/ timer = "over")
  /\ notified' = FALSE
  /\ dpc' = "run"
  /\ UNCHANGED <<hostVars, link, modeVars, recvVars, histVars>>

\* g_atcmd_socket_sending.
Sending == rpc \in {"send", "exitsend"} /\ rn > 0

\* What the task does next.
TaskNext ==
  CASE ~enable -> "wait"
    [] enable /\ timer = "running" -> "timed"
    [] enable /\ timer = "over" /\ ~idle /\ ~Sending -> "tell"
    [] OTHER -> "wait"

\* While the socket sends, the task is idle without an event.
TaskRun ==
  /\ dpc = "run"
  /\ dpc' = TaskNext
  /\ idle' = (idle \/ (enable /\ timer = "over" /\ Sending))
  /\ UNCHANGED <<hostVars, link, enable, pass, len, cnt, done, drop, timer, recvVars, notified,
                 histVars>>

\* SEND_IDLE, once the transmit mutex is free; only then idle.
TaskTell ==
  /\ dpc = "tell"
  /\ told' = TRUE
  /\ idle' = TRUE
  /\ dpc' = "wait"
  /\ UNCHANGED <<hpc, hpass, hlen, hleft, used, link, enable, pass, len, cnt, done, drop,
                 timer, recvVars, notified, histVars>>

-----------------------------------------------------------------------------
Init ==
  /\ hpc = "command" /\ hpass = FALSE /\ hlen = 0 /\ hleft = 0 /\ told = FALSE
  /\ link = <<>> /\ used = [data |-> 0, modes |-> 0, exits |-> 0]
  /\ enable = FALSE /\ idle = FALSE /\ pass = FALSE /\ len = 0 /\ cnt = 0
  /\ done = 0 /\ drop = 0 /\ timer = "off"
  /\ rpc = "recv" /\ rbuf = <<>> /\ cntExit = 0 /\ rn = 0 /\ rret = 0 /\ at = FALSE
  /\ dpc = "wait" /\ notified = FALSE
  /\ took = 0 /\ sock = 0 /\ parsed = FALSE
  /\ report = [done |-> 0, drop |-> 0, left |-> 0, took |-> 0, sock |-> 0]

ReceiveStep ==
  \/ Receive \/ ParseSend \/ ParseOther
  \/ TestData \/ TestPart \/ TestExit
  \/ DataTake \/ SendReturn \/ SendCount \/ SendEvent \/ DataContinue \/ ExitEvent

TaskStep == TaskWake \/ TaskRun \/ TaskTell

Next == HostCommand \/ HostData \/ HostExit \/ ReceiveStep \/ Expire \/ TaskStep

Spec == Init /\ [][Next]_vars

\* Both tasks run, sends end and time passes.  Nothing is asked of the host.
FairSpec == Spec /\ WF_vars(ReceiveStep) /\ WF_vars(TaskStep) /\ WF_vars(Expire)

-----------------------------------------------------------------------------
TypeOK ==
  /\ hpc \in {"command", "ok", "data", "exit"}
  /\ hpass \in BOOLEAN /\ hlen \in 0..BufMax /\ hleft \in 0..BufMax /\ told \in BOOLEAN
  /\ link \in Seq(Data \cup {"cmd", "exit1", "exit2"})
  /\ used \in [data : Nat, modes : Nat, exits : Nat]
  /\ enable \in BOOLEAN /\ idle \in BOOLEAN /\ pass \in BOOLEAN
  /\ len \in 0..BufMax /\ cnt \in 0..BufMax /\ done \in Nat /\ drop \in Nat
  /\ timer \in {"off", "running", "over"}
  /\ rpc \in {"recv", "data", "send", "count", "event", "continue", "exitsend", "exit"}
  /\ rbuf \in Seq(Data \cup {"cmd", "exit1", "exit2"})
  /\ cntExit \in 0..1 /\ rn \in Nat /\ rret \in Nat /\ at \in BOOLEAN
  /\ dpc \in {"wait", "timed", "run", "tell"} /\ notified \in BOOLEAN
  /\ took \in Nat /\ sock \in Nat /\ parsed \in BOOLEAN
  /\ report \in [done : Nat, drop : Nat, left : Nat, took : Nat, sock : Nat]

\* The count of exit command bytes seen, which outlives the call (atcmd_core.c:1790), never
\* outlives the idle period it belongs to, and _buf holds less than a whole send.
ExitPrefixIdle ==
  /\ cntExit > 0 => enable /\ idle /\ rpc = "recv"
  /\ rpc = "recv" /\ enable => cnt < len \/ cnt = 0

\* What a mode reports at its end (SEND_EXIT, or SEND_DONE and SEND_DROP) is what the socket
\* really took, and with the drops accounts for each unit taken as data (atcmd_core.c:1814-1828,
\* 1876-1889).  The one exception: a fixed length left by the exit command reports nothing sent
\* and nothing dropped, and the units it had in _buf are in neither count (1822-1832).
ReportExact ==
  /\ report.done = report.sock
  /\ report.done + report.drop + report.left = report.took
  /\ report.left > 0 => report.done = 0 /\ report.drop = 0

\* Data never reaches the command parser: a mode ends exactly where its data ends, however
\* the host's stream is cut into buffers (atcmd_core.c:1849-1862) and whatever the idle
\* event races with.
DataNotParsed == ~parsed

\* A host that stops sending is told SEND_IDLE, after all it sent, and can leave the mode:
\* atcmd_core.c:782-801 against 704-715, with events suppressed while the socket sends.  Not
\* so after data that looks like the start of the exit command.
IdleIsTold ==
  (enable /\ cntExit = 0 /\ ~told) ~> (told \/ ~enable \/ cntExit > 0)
=============================================================================
