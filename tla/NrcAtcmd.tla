------------------------------ MODULE NrcAtcmd ------------------------------
(***************************************************************************)
(* Commands and their results on the host (nrc-atcmd.c).                    *)
(*                                                                          *)
(*   sender:    nrc_atcmd_send_cmd, one command at a time;                  *)
(*   receiver:  raspi_cli_recv_thread -> nrc_atcmd_recv, which sets the     *)
(*              result, g_atcmd_info.ret, and signals the condition;        *)
(*   target:    takes one command after the other, answers, sends RXD data  *)
(*              of its own accord, sleeps, restarts.                        *)
(*                                                                          *)
(* A result carries no command's name: a reply is whoever's waits.  Here it  *)
(* is numbered, to tell.  "OK" and "ERROR" are the same to every property.   *)
(* A unit of the link is a line, or a piece of payload that looks like one.  *)
(***************************************************************************)
EXTENDS Naturals, Sequences

CONSTANTS
  MaxPayload,  \* units of the longest RXD payload
  \* Bounds of the model
  MaxCmds, MaxRxd, MaxResets,
  MaxFaults    \* spurious wake-ups and failing writes together

ASSUME NrcAssumption ==
  /\ MaxPayload \in Nat \ {0}
  /\ MaxCmds \in Nat /\ MaxRxd \in Nat /\ MaxResets \in Nat /\ MaxFaults \in Nat

VARIABLES
  \* sender
  spc,
  cmd,      \* the command being sent, [no, kind]
  val,      \* g_atcmd_info.ret.val
  woken,    \* the condition was signalled while the sender waited for it
  \* receiver
  rem,      \* units of payload nrc_atcmd_recv still takes without looking at them
  \* the two directions of the link, and the target
  down, up,
  asleep,
  part,     \* its line begins with what arrived of a command that could not be written whole
  \* history
  results,  \* what nrc_atcmd_send_cmd returned, command by command
  missed,   \* the current command's answer is not to be waited for any more
  upset,    \* something else than a reply has ended a wait, or may yet
  cut,      \* a restart cut a line or a payload short
  used      \* how often each bounded thing has happened

senderVars == <<spc, cmd, val, woken>>
targetVars == <<down, up, asleep, part>>
histVars   == <<results, missed, upset, cut, used>>
vars == <<senderVars, rem, targetVars, histVars>>

Kinds == {"at", "uart", "reset", "sleep"}   \* ATZ is "reset"
Timed == {"reset", "uart"}                  \* waited for 5 s and 1 s

None    == [ret |-> "none", no |-> 0]       \* ATCMD_RET_NONE
TimeOut == [ret |-> "timeout", no |-> 0]    \* ATCMD_RET_TIMEOUT
Failed  == [ret |-> "failed", no |-> 0]     \* -1, before any wait
Reply(n) == [ret |-> "reply", no |-> n]

NoCmd == [no |-> 0, kind |-> "at"]

Unit(kind, n) == [kind |-> kind, n |-> n]

-----------------------------------------------------------------------------
(* Sender.                                                                  *)

\* nrc_atcmd_init_return.  Variant: left as it is.
InitialKept == val
Initial == None

Begin(k) ==
  /\ spc = "idle"
  /\ Len(results) < MaxCmds
  /\ cmd' = [no |-> Len(results) + 1, kind |-> k]
  /\ val' = Initial
  /\ spc' = "send"
  /\ UNCHANGED <<woken, rem, targetVars, histVars>>

\* What the target reads: behind the part of another command it is a command nobody has.
Line == IF part THEN [cmd EXCEPT !.kind = "at"] ELSE cmd

\* The line is complete.  Behind a single character it is dropped unread: it does not start
\* with AT.
Arrive(dropped) ==
  /\ dropped => part
  /\ down' = IF dropped THEN down ELSE Append(down, Line)
  /\ part' = FALSE

\* nrc_atcmd_send.
Write ==
  /\ spc = "send"
  /\ \E dropped \in BOOLEAN : Arrive(dropped) /\ missed' = (missed \/ dropped)
  /\ spc' = "sent"
  /\ UNCHANGED <<cmd, val, woken, rem, up, asleep, results, upset, cut, used>>

\* raspi_hif_write fails: nothing has arrived, or the beginning, or all but the line feed,
\* which is enough to execute it.  nrc_atcmd_send_cmd returns at once.
WriteFails ==
  /\ spc = "send"
  /\ used.faults < MaxFaults
  /\ used' = [used EXCEPT !.faults = @ + 1]
  /\ \/ part' \in {part, TRUE} /\ UNCHANGED <<down, upset>>
     \/ \E dropped \in BOOLEAN : Arrive(dropped) /\ upset' = TRUE
  /\ results' = Append(results, Failed)
  /\ spc' = "idle" /\ cmd' = NoCmd /\ missed' = FALSE
  /\ UNCHANGED <<val, woken, rem, up, asleep, cut>>

\* nrc_atcmd_wait_return: the wait begins, whether or not the result is there already.
Wait ==
  /\ spc = "sent"
  /\ spc' = "wait"
  /\ UNCHANGED <<cmd, val, woken, rem, targetVars, histVars>>

Wake ==
  /\ spc = "wait"
  /\ woken
  /\ spc' = "return"
  /\ UNCHANGED <<cmd, val, woken, rem, targetVars, histVars>>

\* pthread_cond_wait may return without a signal; the code does not ask why it did.
WakeSpurious ==
  /\ spc = "wait"
  /\ used.faults < MaxFaults
  /\ spc' = "return"
  /\ upset' = TRUE
  /\ used' = [used EXCEPT !.faults = @ + 1]
  /\ UNCHANGED <<cmd, val, woken, rem, targetVars, results, missed, cut>>

WaitTimeout ==
  /\ spc = "wait"
  /\ ~woken
  /\ cmd.kind \in Timed
  /\ spc' = "timeout"
  /\ upset' = TRUE
  /\ UNCHANGED <<cmd, val, woken, rem, targetVars, results, missed, cut, used>>

\* ETIMEDOUT is handled once the mutex is free again: a result set meanwhile is overwritten.
SetTimeout ==
  /\ spc = "timeout"
  /\ val' = TimeOut
  /\ spc' = "return"
  /\ UNCHANGED <<cmd, woken, rem, targetVars, histVars>>

\* nrc_atcmd_get_return.
Return ==
  /\ spc = "return"
  /\ results' = Append(results, val)
  /\ spc' = "idle" /\ cmd' = NoCmd /\ woken' = FALSE
  /\ missed' = FALSE
  /\ UNCHANGED <<val, rem, targetVars, upset, cut, used>>

-----------------------------------------------------------------------------
(* Receiver: nrc_atcmd_recv, one unit.                                      *)

\* nrc_atcmd_set_return.  A signal nobody waits for yet is lost.
SetReturn(v) ==
  /\ val' = v
  /\ woken' = (woken \/ spc = "wait")
  /\ missed' = (missed \/ spc \in {"send", "sent"})

Take == up' = Tail(up)

\* Units of a payload to be taken as they come.  Variant: one too many.
PayloadOneMore(n) == n + 1
Payload(n) == n

\* Whether a unit is looked at.  Variant: payload that looks like a line is.
LooksAlways == TRUE
Looks == rem = 0

ReceivePayload ==
  /\ up # <<>> /\ ~Looks
  /\ Take
  /\ rem' = rem - 1
  \* After a restart what is taken may be a line.
  /\ missed' = (missed \/ (spc # "idle" /\ Head(up).kind # "data"))
  /\ UNCHANGED <<senderVars, down, asleep, part, results, upset, cut, used>>

ReceiveRxd ==
  /\ up # <<>> /\ Looks
  /\ Head(up).kind = "rxd"
  /\ Take
  /\ rem' = Payload(Head(up).n)
  /\ UNCHANGED <<senderVars, down, asleep, part, histVars>>

\* A line without its end: what follows is read as the rest of it.
ReceiveCut ==
  /\ up # <<>> /\ Looks
  /\ Head(up).kind = "cut"
  /\ Take
  /\ rem' = 1
  /\ UNCHANGED <<senderVars, down, asleep, part, histVars>>

ReceiveReply ==
  /\ up # <<>> /\ Looks
  /\ Head(up).kind \in {"reply", "data"}
  /\ Take
  /\ SetReturn(Reply(Head(up).n))
  /\ UNCHANGED <<spc, cmd, rem, down, asleep, part, results, upset, cut, used>>

\* nrc_atcmd_recv_boot, and nrc_atcmd_recv_event of DEEPSLEEP_WAKEUP.  Variant: the result
\* is not set, and nobody is woken.
BootReturnNone == UNCHANGED <<val, woken, missed>>
BootReturn == SetReturn(None)

ReceiveBoot ==
  /\ up # <<>> /\ Looks
  /\ Head(up).kind \in {"boot", "wakeup"}
  /\ Take
  /\ BootReturn
  /\ UNCHANGED <<spc, cmd, rem, down, asleep, part, results, upset, cut, used>>

Receive == ReceivePayload \/ ReceiveRxd \/ ReceiveCut \/ ReceiveReply \/ ReceiveBoot

-----------------------------------------------------------------------------
(* Target.                                                                  *)

\* A restart: commands not taken yet are gone, and so is what the link has not carried; a
\* line or a payload may have been carried in part.
Restart(events) ==
  /\ \E n \in 0..Len(up) :
       \E rest \in IF n < Len(up) /\ up[n + 1].kind # "data"
                   THEN {<<>>, <<Unit("cut", 0)>>} ELSE {<<>>} :
         /\ up' = SubSeq(up, 1, n) \o rest \o events
         /\ cut' = (cut \/ n < Len(up))
  /\ down' = <<>> /\ part' = FALSE
  /\ upset' = TRUE

\* A command that answers.  AT+UART changes the rate of the line and then answers: the host
\* may not be able to read it.
Answer ==
  /\ down # <<>> /\ ~asleep
  /\ Head(down).kind \in {"at", "uart", "sleep"}   \* AT+WDEEPSLEEP refused
  /\ \E answers \in IF Head(down).kind = "uart" THEN BOOLEAN ELSE {TRUE} :
       up' = IF answers THEN Append(up, Unit("reply", Head(down).no)) ELSE up
  /\ down' = Tail(down)
  /\ UNCHANGED <<senderVars, rem, asleep, part, histVars>>

\* ATZ resets before it answers.
ExecuteReset ==
  /\ down # <<>> /\ ~asleep
  /\ Head(down).kind = "reset"
  /\ Restart(<<Unit("boot", 0)>>)
  /\ UNCHANGED <<senderVars, rem, asleep, results, missed, used>>

\* AT+WDEEPSLEEP: ATCMD_NO_RETURN, and the modem goes to sleep.
Sleep ==
  /\ down # <<>> /\ ~asleep
  /\ Head(down).kind = "sleep"
  /\ asleep' = TRUE
  /\ down' = Tail(down)
  /\ UNCHANGED <<senderVars, rem, up, part, histVars>>

\* A wake-up is a restart that tells the host twice: BOOT, and then the event.
Wakeup ==
  /\ asleep
  /\ asleep' = FALSE
  /\ Restart(<<Unit("boot", 0), Unit("wakeup", 0)>>)
  /\ UNCHANGED <<senderVars, rem, results, missed, used>>

Watchdog ==
  /\ ~asleep
  /\ used.resets < MaxResets
  /\ used' = [used EXCEPT !.resets = @ + 1]
  /\ Restart(<<Unit("boot", 0)>>)
  /\ UNCHANGED <<senderVars, rem, asleep, results, missed>>

\* Socket data for the host.
SendRxd(n) ==
  /\ ~asleep
  /\ used.rxd < MaxRxd
  /\ used' = [used EXCEPT !.rxd = @ + 1]
  /\ up' = Append(up, Unit("rxd", n)) \o [i \in 1..n |-> Unit("data", 0)]
  /\ UNCHANGED <<senderVars, rem, down, asleep, part, results, missed, upset, cut>>

-----------------------------------------------------------------------------
\* The host's program starts with a target that has booted.
Init ==
  /\ spc = "idle" /\ cmd = NoCmd /\ val = None /\ woken = FALSE
  /\ rem = 0
  /\ down = <<>> /\ up = <<>> /\ asleep = FALSE /\ part = FALSE
  /\ results = <<>> /\ missed = FALSE /\ upset = FALSE /\ cut = FALSE
  /\ used = [rxd |-> 0, resets |-> 0, faults |-> 0]

SenderStep == Write \/ Wait \/ Wake \/ WaitTimeout \/ SetTimeout \/ Return
TargetStep == Answer \/ ExecuteReset \/ Sleep \/ Wakeup

Next ==
  \/ \E k \in Kinds : Begin(k)
  \/ SenderStep \/ WriteFails \/ WakeSpurious
  \/ Receive
  \/ TargetStep \/ Watchdog
  \/ \E n \in 0..MaxPayload : SendRxd(n)

Spec == Init /\ [][Next]_vars

\* The two threads run, time passes, the target takes its commands and wakes up.  Commands,
\* data, failing writes, restarts and spurious wake-ups may never come.
FairSpec == Spec /\ WF_vars(SenderStep) /\ WF_vars(Receive) /\ WF_vars(TargetStep)

-----------------------------------------------------------------------------
Results == {None, TimeOut, Failed} \cup {Reply(n) : n \in 0..MaxCmds}

TypeOK ==
  /\ spc \in {"idle", "send", "sent", "wait", "timeout", "return"}
  /\ cmd \in [no : 0..MaxCmds, kind : Kinds]
  /\ val \in Results /\ results \in Seq(Results)
  /\ woken \in BOOLEAN /\ missed \in BOOLEAN /\ upset \in BOOLEAN /\ cut \in BOOLEAN
  /\ rem \in 0..MaxPayload
  /\ down \in Seq([no : 1..MaxCmds, kind : Kinds])
  /\ \A i \in DOMAIN up : up[i].kind \in {"reply", "boot", "wakeup", "rxd", "data", "cut"}
  /\ asleep \in BOOLEAN /\ part \in BOOLEAN

\* No reply is returned for two commands (nrc-atcmd.c:161-168): of the replies
\* returned, a later command has a later one, and no command a reply to a command after it.
\* A late reply may be returned for the command after its own.
ReplyOnce ==
  \A n \in DOMAIN results :
    results[n].ret = "reply" =>
      /\ results[n].no <= n
      /\ results[n].no = 0 => cut
      /\ \A m \in 1..(n - 1) :
           results[m].ret = "reply" /\ results[n].no # 0 => results[m].no < results[n].no

\* As long as the target has not restarted, nothing but a signal has ended a wait and no command
\* whose write failed has been executed, every command written is returned its own reply,
\* whatever data comes in between and whatever part of another command the target has read
\* before it (nrc-atcmd.c:247-271, 794-997).
OwnReply ==
  ~upset => \A n \in DOMAIN results : results[n] \in {Reply(n), Failed}

\* A command ends, with its reply, by a time-out, or because the target has restarted
\* (nrc-atcmd.c:193-245) - unless what would have ended it came before the wait began
\* (nrc-atcmd.c:211), was taken for the rest of something a restart had cut, or will never come
\* as the target dropped the command behind the part of another.
CommandEnds == spc # "idle" ~> (spc = "idle" \/ missed)
=============================================================================
