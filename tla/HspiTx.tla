------------------------------- MODULE HspiTx -------------------------------
(***************************************************************************)
(* The target-to-host half of the HSPI link.                                *)
(*                                                                          *)
(*   target: atcmd_transmit -> _hif_hspi_write (sdk/apps/atcmd), one writer *)
(*           at a time under the transmit mutex, a ring of SlotNum slots;   *)
(*   HSPI hardware: the TX queue of posted slot addresses, the EIRQ flags   *)
(*           the device raises, and the EIRQ pin;                           *)
(*   host:   raspi_cli_recv_thread -> raspi_hif_* -> nrc-hspi.c, and the    *)
(*           other thread, whose hspi_write refreshes the same status.      *)
(*                                                                          *)
(* The unit is the 512-byte slot; what a slot carries is the number of the  *)
(* chunk of payload written to it.  Slot headers, the logged-only sequence  *)
(* number and padding are left out.                                         *)
(***************************************************************************)
EXTENDS HifFifoOps, FiniteSets, Sequences

CONSTANTS
  SlotNum,      \* CONFIG_HIF_HSPI_SLOT_NUM
  SlotCntMax,   \* _HSPI_SLOT_CNT_MAX, what a 6-bit queue counter holds
  Faults,       \* TRUE: an SPI transfer of the receive thread may fail
  \* Bounds of the model
  MaxMsg,       \* slots of one atcmd_transmit call
  MaxChunks,    \* chunks written altogether
  MaxEdges,     \* pin events the kernel keeps for the receive thread
  MaxResets     \* restarts of the target

ASSUME SlotAssumption ==
  /\ SlotNum \in Nat \ {0}
  /\ SlotCntMax \in Nat \ {0}
  /\ Faults \in BOOLEAN
  /\ MaxMsg \in Nat /\ MaxChunks \in Nat /\ MaxEdges \in Nat /\ MaxResets \in Nat

\* hif.h makes the ring a power of two: its size divides 2^32.
ASSUME RingAssumption == IdxMod % SlotNum = 0

VARIABLES
  \* target
  txFifo,    \* g_hif_hspi_tx_fifo
  txTotal,   \* static txq_total_cnt: slots posted and not yet seen released
  slots,     \* the ring's memory: chunk in each slot, 0 before the first
  wpc,       \* where the writer (or the target as a whole) is
  wleft,     \* slots atcmd_transmit has still to get accepted
  wupd,      \* txq_update_cnt of the running _hif_hspi_write
  wi,        \* loop index of the running _hif_hspi_write
  booting,   \* the message being written is the boot event
  \* HSPI hardware
  txq,       \* slot addresses posted and not yet read by the host
  eirq,      \* latched flags: "ready", "sleep"
  eirqOn,    \* the host has the READY and SLEEP interrupts enabled
  edges,     \* pin events not yet taken by raspi_eirq_poll
  \* host
  rpc,       \* where the receive thread is
  cached,    \* status.txq.slot_cnt
  want,      \* slot_num of the running hspi_read
  taken,     \* slots of it transferred so far
  got,       \* payload of the running hspi_read
  ready,     \* g_nrc_atcmd's ready flag
  \* history
  sent,      \* chunks written to slots
  delivered, \* chunks given to nrc_atcmd_recv
  resets

targetVars == <<txFifo, txTotal, slots, wpc, wleft, wupd, wi, booting>>
pinVars    == <<eirq, eirqOn, edges>>
hostVars   == <<rpc, cached, want, taken, got, ready>>
vars == <<targetVars, txq, pinVars, hostVars, sent, delivered, resets>>

Addrs == 0..(SlotNum - 1)

-----------------------------------------------------------------------------
(* The EIRQ pin is high while an enabled flag is latched; the host's gpio   *)
(* event queue records its rising edges and drops them when it is full.     *)

AddEdges(e, k) == Smaller(e + k, MaxEdges)

RaiseEirq(flag) ==
  /\ eirq' = IF eirqOn THEN eirq \cup {flag} ELSE eirq
  /\ edges' = IF eirqOn /\ eirq = {} THEN AddEdges(edges, 1) ELSE edges
  /\ UNCHANGED eirqOn

-----------------------------------------------------------------------------
(* Target: the writer.                                                      *)

\* atcmd_transmit takes the mutex with a message of k slots.
TransmitStart ==
  /\ wpc = "idle"
  /\ \E k \in 1..MaxMsg :
       /\ sent + k <= MaxChunks
       /\ wleft' = k
  /\ wpc' = "write"
  /\ UNCHANGED <<txFifo, txTotal, slots, wupd, wi, booting, txq, pinVars, hostVars,
                 sent, delivered, resets>>

\* Slots the hardware has released since the count was last read.
\* Variant: every slot posted so far counts as released.
TxDoneAll == txTotal
TxDone == txTotal - Len(txq)

\* txq_update_cnt after the two clamps.  Variants: one clamp is missing.
TxUpdateNoRing(total, request) == Smaller(request, SlotCntMax - total)
TxUpdateNoMax(total, request) == Smaller(request, SlotNum - total)
TxUpdate(total, request) ==
  Smaller(Smaller(request, SlotNum - total), SlotCntMax - total)

\* The address of the i-th slot to post: they lie behind push_idx by now.
\* Variant: counted from push_idx on.
PostAddrAhead(i) == PushAddr(txFifo, i)
PostAddr(i) == PushAddr(txFifo, i - wupd)

\* _hif_hspi_write, up to the decision how many slots fit.  None: it returns 0
\* and atcmd_transmit calls it again.
WriteReclaim ==
  /\ wpc = "write"
  /\ LET done  == IF TxDone > 0 THEN TxDone ELSE 0
         total == txTotal - done
         upd   == TxUpdate(total, wleft)
     IN /\ txTotal' = total
        /\ txFifo' = FifoRead(txFifo, done)
        /\ wupd' = upd
        /\ wi' = 0
        /\ wpc' = IF upd > 0 THEN "fill" ELSE "write"
  /\ UNCHANGED <<slots, wleft, booting, txq, pinVars, hostVars, sent, delivered, resets>>

\* __hif_hspi_write: header, payload and padding of one slot go into the ring.
WriteFill ==
  /\ wpc = "fill"
  /\ txFifo' = FifoWrite(txFifo, 1)
  /\ slots' = IF FreeSize(txFifo) > 0
              THEN [slots EXCEPT ![PushAddr(txFifo, 0)] = sent + 1]
              ELSE slots
  /\ sent' = sent + 1
  /\ IF wi + 1 < wupd THEN wi' = wi + 1 /\ wpc' = "fill"
                      ELSE wi' = 0 /\ wpc' = "post"
  /\ UNCHANGED <<txTotal, wleft, wupd, booting, txq, pinVars, hostVars, delivered, resets>>

\* _hif_hspi_queue_update: the next of the slots just filled is posted.
WritePost ==
  /\ wpc = "post"
  /\ wi < wupd
  /\ txq' = Append(txq, PostAddr(wi))
  /\ wi' = wi + 1
  /\ UNCHANGED <<txFifo, txTotal, slots, wpc, wleft, wupd, booting, pinVars, hostVars,
                 sent, delivered, resets>>

\* The rest of _hif_hspi_write: the READY event; then atcmd_transmit's loop test.
WriteEvent ==
  /\ wpc = "post"
  /\ wi = wupd
  /\ txTotal' = txTotal + wupd
  /\ RaiseEirq("ready")
  /\ wleft' = wleft - wupd
  /\ wupd' = 0
  /\ wi' = 0
  /\ wpc' = IF wleft > wupd THEN "write" ELSE IF booting THEN "pulse" ELSE "idle"
  /\ UNCHANGED <<txFifo, slots, booting, txq, hostVars, sent, delivered, resets>>

-----------------------------------------------------------------------------
(* Target: deep sleep, restart, boot.                                       *)

\* _hif_hspi_enter_sleep, called by the modem library: it waits for the queue to
\* drain, or until its timeout, and raises SLEEP.
EnterSleep ==
  /\ wpc = "idle"
  /\ RaiseEirq("sleep")
  /\ wpc' = "asleep"
  /\ UNCHANGED <<txFifo, txTotal, slots, wleft, wupd, wi, booting, txq, hostVars,
                 sent, delivered, resets>>

\* Wake-up from deep sleep, watchdog, or the reset command: RAM and registers
\* start from zero.
TargetReset ==
  /\ resets < MaxResets
  /\ resets' = resets + 1
  /\ txFifo' = NewFifo(SlotNum)
  /\ txTotal' = 0
  /\ slots' = [a \in Addrs |-> 0]
  /\ wpc' = "reset" /\ wleft' = 0 /\ wupd' = 0 /\ wi' = 0 /\ booting' = FALSE
  /\ txq' = <<>>
  /\ eirq' = {} /\ eirqOn' = FALSE
  /\ UNCHANGED <<edges, hostVars, sent, delivered>>

\* atcmd_enable opens the link and _atcmd_boot_done transmits the BOOT event, one
\* slot.  A boot takes longer than the receive thread's current pass: "poll".
BootEvent ==
  /\ wpc = "reset"
  /\ rpc = "poll"
  /\ sent < MaxChunks
  /\ wleft' = 1
  /\ booting' = TRUE
  /\ wpc' = "write"
  /\ UNCHANGED <<txFifo, txTotal, slots, wupd, wi, txq, pinVars, hostVars,
                 sent, delivered, resets>>

\* _hfi_hspi_eirq_boot_done: the pin is pulsed as a plain output and given back,
\* which makes one more edge if a flag is latched by then.  Variant: the pin is left
\* to the HSPI block, whose interrupts the restart disabled.
BootEdgesNoPulse == IF eirqOn /\ eirq # {} THEN 1 ELSE 0
BootEdges == IF eirqOn /\ eirq # {} THEN 2 ELSE 1

BootPulse ==
  /\ wpc = "pulse"
  /\ edges' = AddEdges(edges, BootEdges)
  /\ booting' = FALSE
  /\ wpc' = "idle"
  /\ UNCHANGED <<txFifo, txTotal, slots, wleft, wupd, wi, txq, eirq, eirqOn, hostVars,
                 sent, delivered, resets>>

-----------------------------------------------------------------------------
(* Host: the status block, read by both threads under the raspi_hif mutex.  *)

\* hspi_status_update's new cached count: a zero count is not copied.
FreshCount ==
  IF Len(txq) > 0 /\ Len(txq) <= SlotNum THEN Len(txq) ELSE cached

\* Reading the block takes the interrupt's latch with it.
StatusUpdate == cached' = FreshCount /\ eirq' = {}

\* hspi_eirq_status and nrc_hspi_eirq_status on the flags just read: "boot" is told
\* by data with no flag.  Variant: no flag means no event.
EirqStatusFlagsOnly(flags, cnt) ==
  CASE flags = {"ready"} -> "READ_READY"
    [] flags = {"sleep"} -> "DEEP_SLEEP"
    [] OTHER             -> "NONE"
EirqStatus(flags, cnt) ==
  CASE flags = {"ready", "sleep"} -> "NONE"
    [] flags = {} /\ cnt > 0      -> "BOOT_DONE"
    [] flags = {"ready"}          -> "READ_READY"
    [] flags = {"sleep"}          -> "DEEP_SLEEP"
    [] OTHER                      -> "NONE"

\* The receive thread holds the mutex across bus transfers.
RecvHoldsMutex == rpc \in {"enable", "slots"}

\* raspi_eirq_poll(-1) returns 1.
RecvPoll ==
  /\ rpc = "poll"
  /\ edges > 0
  /\ edges' = edges - 1
  /\ rpc' = "status"
  /\ UNCHANGED <<targetVars, txq, eirq, eirqOn, cached, want, taken, got, ready,
                 sent, delivered, resets>>

\* raspi_hif_hspi_eirq_status and the switch on its result.  Deep sleep disables the
\* interrupts, if the bus lets it.
RecvEirqStatus ==
  /\ rpc = "status"
  /\ StatusUpdate
  /\ LET st == EirqStatus(eirq, FreshCount)
     IN /\ rpc' = CASE st = "BOOT_DONE"  -> "reopen"
                    [] st = "READ_READY" -> "read"
                    [] OTHER             -> "poll"
        /\ ready' = CASE st = "READ_READY" -> TRUE
                      [] st = "DEEP_SLEEP" -> FALSE
                      [] OTHER             -> ready
        /\ eirqOn' \in IF st # "DEEP_SLEEP" THEN {eirqOn}
                      ELSE IF Faults THEN {eirqOn, FALSE} ELSE {FALSE}
  /\ UNCHANGED <<targetVars, txq, edges, want, taken, got, sent, delivered, resets>>

\* hspi_reopen, first half: the status refresh.
RecvReopen ==
  /\ rpc = "reopen"
  /\ StatusUpdate
  /\ rpc' = "enable"
  /\ UNCHANGED <<targetVars, txq, eirqOn, edges, want, taken, got, ready,
                 sent, delivered, resets>>

\* hspi_reopen, second half: hspi_eirq_enable; the switch falls through to
\* READ_READY's case.
RecvEnable ==
  /\ rpc = "enable"
  /\ eirqOn' = TRUE
  /\ ready' = TRUE
  /\ rpc' = "read"
  /\ UNCHANGED <<targetVars, txq, eirq, edges, cached, want, taken, got,
                 sent, delivered, resets>>

\* hspi_read up to the number of slots to transfer.  The 128 KB buffer holds more
\* than SlotNum slots, so slot_num starts at SlotNum.
RecvCount ==
  /\ rpc = "read"
  /\ IF SlotNum > cached THEN StatusUpdate ELSE UNCHANGED <<cached, eirq>>
  /\ want' = Smaller(SlotNum, cached')
  /\ taken' = 0
  /\ rpc' = IF want' = 0 THEN "poll" ELSE "slots"
  /\ UNCHANGED <<targetVars, txq, eirqOn, edges, got, ready, sent, delivered, resets>>

\* One slot through the TXQ window.  An empty queue gives no valid header: the slot
\* is skipped.
RecvSlot ==
  /\ rpc = "slots"
  /\ taken < want
  /\ IF txq = <<>>
     THEN UNCHANGED <<got, txq>>
     ELSE got' = Append(got, slots[Head(txq)]) /\ txq' = Tail(txq)
  /\ taken' = taken + 1
  /\ UNCHANGED <<targetVars, pinVars, rpc, cached, want, ready, sent, delivered, resets>>

\* slot_cnt after hspi_read.  Variants: left alone; lowered by the slots asked for.
CountKept == cached
CountLessAll == cached - SlotNum
CountLessRead == cached - want

\* hspi_read returns; the mutex is released and nrc_atcmd_recv gets the bytes.
RecvDeliver ==
  /\ rpc = "slots"
  /\ taken = want
  /\ cached' = CountLessRead
  /\ delivered' = delivered \o got
  /\ got' = <<>>
  /\ rpc' = "poll"
  /\ UNCHANGED <<targetVars, txq, pinVars, want, taken, ready, sent, resets>>

\* A slot transfer fails before or after the hardware let go of the slot: hspi_read
\* returns -1 and what it had already read is lost.
RecvSlotFail ==
  /\ Faults
  /\ rpc = "slots"
  /\ taken < want
  /\ \/ UNCHANGED txq
     \/ txq # <<>> /\ txq' = Tail(txq)
  /\ cached' = 0
  /\ got' = <<>>
  /\ rpc' = "poll"
  /\ UNCHANGED <<targetVars, pinVars, want, taken, ready, sent, delivered, resets>>

\* A register access fails.  Without the status block no event is reported, the reopen
\* stops, or nothing is read; the latch may be gone all the same.
RecvStatusFail ==
  /\ Faults
  /\ \/ rpc = "status"
     \/ rpc = "reopen"
     \/ rpc = "read" /\ SlotNum > cached
  /\ rpc' = IF rpc = "reopen" THEN "read" ELSE "poll"
  /\ ready' = IF rpc = "reopen" THEN TRUE ELSE ready
  /\ eirq' \in {eirq, {}}
  /\ UNCHANGED <<targetVars, txq, eirqOn, edges, cached, want, taken, got,
                 sent, delivered, resets>>

\* The interrupts cannot be enabled; the receive thread goes on as if they were.
RecvEnableFail ==
  /\ Faults
  /\ rpc = "enable"
  /\ ready' = TRUE
  /\ rpc' = "read"
  /\ UNCHANGED <<targetVars, txq, pinVars, cached, want, taken, got,
                 sent, delivered, resets>>

\* Main thread: hspi_write refreshes the status when it lacks receive slots.
MainStatusUpdate ==
  /\ ~RecvHoldsMutex
  /\ StatusUpdate
  /\ UNCHANGED <<targetVars, txq, eirqOn, edges, rpc, want, taken, got, ready,
                 sent, delivered, resets>>

-----------------------------------------------------------------------------
Init ==
  /\ txFifo = NewFifo(SlotNum) /\ txTotal = 0
  /\ slots = [a \in Addrs |-> 0]
  /\ wpc = "idle" /\ wleft = 0 /\ wupd = 0 /\ wi = 0 /\ booting = FALSE
  /\ txq = <<>> /\ eirq = {} /\ eirqOn = TRUE /\ edges = 0
  /\ rpc = "poll" /\ cached = 0 /\ want = 0 /\ taken = 0 /\ got = <<>> /\ ready = TRUE
  /\ sent = 0 /\ delivered = <<>> /\ resets = 0

WriterStep == WriteReclaim \/ WriteFill \/ WritePost \/ WriteEvent
BootStep   == BootEvent \/ BootPulse
RecvStep   == RecvPoll \/ RecvEirqStatus \/ RecvReopen \/ RecvEnable \/ RecvCount
              \/ RecvSlot \/ RecvDeliver

Next ==
  \/ TransmitStart
  \/ WriterStep
  \/ EnterSleep \/ TargetReset \/ BootStep
  \/ RecvStep
  \/ RecvSlotFail \/ RecvStatusFail \/ RecvEnableFail
  \/ MainStatusUpdate

Spec == Init /\ [][Next]_vars

\* The target's tasks and the host's receive thread run; the bus does not fail.
FairSpec == Spec /\ WF_vars(WriterStep) /\ WF_vars(BootStep) /\ WF_vars(RecvStep)

-----------------------------------------------------------------------------
TypeOK ==
  /\ txFifo \in FifoType(SlotNum) /\ txTotal \in Nat
  /\ slots \in [Addrs -> Nat]
  /\ wpc \in {"idle", "write", "fill", "post", "pulse", "asleep", "reset"}
  /\ wleft \in Nat /\ wupd \in Int /\ wi \in Nat /\ booting \in BOOLEAN
  /\ txq \in Seq(Addrs) /\ eirq \in SUBSET {"ready", "sleep"}
  /\ eirqOn \in BOOLEAN /\ edges \in Nat
  /\ rpc \in {"poll", "status", "reopen", "enable", "read", "slots"}
  /\ cached \in Nat /\ want \in Nat /\ taken \in Nat
  /\ got \in Seq(Nat) /\ ready \in BOOLEAN
  /\ sent \in Nat /\ delivered \in Seq(Nat) /\ resets \in Nat

\* Slots of the running _hif_hspi_write that are in the ring but not posted.
Unposted == IF wpc = "fill" THEN wi ELSE IF wpc = "post" THEN wupd - wi ELSE 0

\* Slots of the running _hif_hspi_write that are posted but not yet in txTotal.
PostedNow == IF wpc = "post" THEN wi ELSE 0

\* The ring's fill count, the software's count of posted slots and the hardware's
\* count agree at every step of _hif_hspi_write (sdk/apps/atcmd/hif_hspi.c:593): the
\* ring never overfills (the ASSERT of hif_fifo.c:106), no more than SlotCntMax
\* slots are out, and the number of slots to reclaim is never negative.
SlotAccounting ==
  /\ txFifo.cnt = txTotal + PostedNow + Unposted
  /\ txFifo.cnt <= SlotNum
  /\ txFifo.cnt <= SlotCntMax
  /\ Len(txq) <= txTotal + PostedNow

\* The slots the host has yet to read are the newest of the ring, in ring order, so
\* no slot is posted twice and none is filled while it is posted
\* (hif_hspi.c:566-591 writes at push_idx, hif_hspi.c:629 posts behind it).
PostedInRingOrder ==
  \A i \in 1..Len(txq) :
    txq[i] = PushAddr(txFifo, i - 1 - Len(txq) - Unposted)

\* The slot about to be filled is not one the host has still to read: the payload of a
\* posted slot is never overwritten.  It takes the hardware's count, the software's
\* count and the index arithmetic together (hif_hspi.c:606-611, hif_fifo.c:190-227).
NoFillOverPosted ==
  wpc = "fill" => \A i \in 1..Len(txq) : txq[i] # PushAddr(txFifo, 0)

\* As long as the target has not restarted, the host's cached count
\* (nrc-hspi.c:662-719) never exceeds what it can really read, so hspi_read meets no
\* empty slot: counts only grow behind its back.
CachedWithinPosted ==
  resets = 0 => cached <= Len(txq) + (IF rpc = "slots" THEN taken ELSE 0)

\* The payloads the slots of the queue hold.
PostedChunks == [i \in 1..Len(txq) |-> slots[txq[i]]]

UnpostedChunks == [i \in 1..Unposted |-> slots[PushAddr(txFifo, i - 1 - Unposted)]]

Channel ==
  INSTANCE ChunkChannel WITH
    Lossy <- Faults, LossyOnceRestarted <- FALSE, Repeats <- FALSE,
    written <- sent, epoch <- resets,
    inflight <- got \o PostedChunks \o UnpostedChunks

\* The link delivers the chunks in the order they were written, each at most once,
\* and loses some only to a restart or, with Faults, to a failed transfer: whatever
\* the interleaving of _hif_hspi_write, hspi_read and the reuse of slots.
ImplementsChannel == Channel!ChanSpec

\* Data the target posts and announces is read: no READY edge is lost for good although
\* both host threads clear the latch and only the receive thread looks at the flags
\* (main.c:291-347 of raspi-atcmd-cli, nrc-hspi.c:580-611).
PostedIsRead == (txq # <<>>) ~> (txq = <<>> \/ wpc = "asleep")

\* After a boot pulse the host has its interrupts enabled and takes commands again.
HostFollowsReboot == (wpc = "pulse") ~> (eirqOn /\ ready)
=============================================================================
