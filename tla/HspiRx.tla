------------------------------- MODULE HspiRx -------------------------------
(***************************************************************************)
(* The host-to-target half of the HSPI link.                                *)
(*                                                                          *)
(*   host:   nrc_atcmd_send -> raspi_hif_write -> hspi_write, and the       *)
(*           receive thread, which refreshes the same cached status;        *)
(*   HSPI hardware: the RX queue of empty slots posted by the target, each  *)
(*           consumed by one slot the host writes, with an interrupt;       *)
(*   target: _hif_rx_task -> _hif_hspi_read -> atcmd_receive.               *)
(*                                                                          *)
(* The unit is the 512-byte slot, as in HspiTx.                             *)
(***************************************************************************)
EXTENDS HifFifoOps, Sequences

CONSTANTS
  SlotNum,      \* CONFIG_HIF_HSPI_SLOT_NUM
  SlotCntMax,   \* _HSPI_SLOT_CNT_MAX
  RxBufSlots,   \* full slots that fit the receive buffer: ATCMD_RXBUF_SIZE / 508
  \* Bounds of the model
  MaxMsg,       \* slots of one nrc_atcmd_send call
  MaxChunks,    \* chunks sent altogether
  MaxFails,     \* failing SPI transfers of the writing thread
  MaxResets     \* restarts of the target

ASSUME SlotAssumption ==
  /\ SlotNum \in Nat \ {0}
  /\ SlotCntMax \in Nat \ {0}
  /\ RxBufSlots \in Nat \ {0}
  /\ MaxMsg \in Nat /\ MaxChunks \in Nat /\ MaxFails \in Nat /\ MaxResets \in Nat

\* hif.h makes the ring a power of two: its size divides 2^32.
ASSUME RingAssumption == IdxMod % SlotNum = 0

VARIABLES
  \* host, writing thread
  mpc,       \* where it is in nrc_atcmd_send
  left,      \* slots of the message not yet taken by hspi_write
  want,      \* slot_num of the running hspi_write
  put,       \* slots of it transferred so far
  cur,       \* chunk the next slot carries
  cached,    \* status.rxq.slot_cnt
  \* HSPI hardware
  rxq,       \* addresses of posted slots the host has not written yet
  slots,     \* the ring's memory: chunk in each slot, 0 before the first
  \* target, receive task
  rxFifo,    \* g_hif_hspi_rx_fifo
  rxTotal,   \* static rxq_total_cnt: slots posted and not yet seen written
  tpc,       \* where the task is in _hif_hspi_read
  tupd,      \* rxq_update_cnt
  ti,        \* loop index of the posts
  rbuf,      \* chunks of the running _hif_hspi_read
  notified,  \* the task's notification, given by _hif_hspi_rxq_isr
  \* history
  stored,    \* newest chunk that was put into a slot or lost with it
  lost,      \* slots written while none was posted
  delivered, \* chunks given to atcmd_receive
  fails, resets

hostVars   == <<mpc, left, want, put, cur, cached>>
targetVars == <<rxFifo, rxTotal, tpc, tupd, ti, rbuf>>
histVars   == <<stored, lost, delivered, fails, resets>>
vars == <<hostVars, rxq, slots, targetVars, notified, histVars>>

Addrs == 0..(SlotNum - 1)

-----------------------------------------------------------------------------
(* Host.                                                                    *)

\* hspi_status_update: a zero count is not copied.  Variant: any count is.
FreshCountAny == Len(rxq)
FreshCount == IF Len(rxq) > 0 /\ Len(rxq) <= SlotNum THEN Len(rxq) ELSE cached

\* An SPI transfer of this thread goes wrong.
BusFails == fails < MaxFails /\ fails' = fails + 1

\* nrc_atcmd_send is called with a message of k slots.
SendStart ==
  /\ mpc = "idle"
  /\ \E k \in 1..MaxMsg : stored + k <= MaxChunks /\ left' = k
  /\ cur' = stored + 1
  /\ mpc' = "send"
  /\ UNCHANGED <<want, put, cached, rxq, slots, targetVars, notified, histVars>>

\* hspi_write up to the number of slots to transfer; with none free it returns 0 and
\* nrc_atcmd_send tries again a millisecond later.
WriteCount ==
  /\ mpc = "send"
  /\ cached' = IF left > cached THEN FreshCount ELSE cached
  /\ want' = Smaller(left, cached')
  /\ put' = 0
  /\ mpc' = IF want' = 0 THEN "send" ELSE "slots"
  /\ UNCHANGED <<left, cur, rxq, slots, targetVars, notified, histVars>>

\* The status cannot be read: hspi_write and nrc_atcmd_send give the message up.
WriteStatusFail ==
  /\ BusFails
  /\ mpc = "send"
  /\ left > cached
  /\ mpc' = "idle" /\ left' = 0
  /\ UNCHANGED <<want, put, cur, cached, rxq, slots, targetVars, notified,
                 stored, lost, delivered, resets>>

\* The hardware stores the slot in the oldest posted one and interrupts the target.
StoreSlot ==
  /\ slots' = [slots EXCEPT ![Head(rxq)] = cur]
  /\ rxq' = Tail(rxq)
  /\ stored' = cur
  /\ notified' = TRUE
  /\ UNCHANGED lost

\* No slot is posted: the bytes go nowhere.
LoseSlot ==
  /\ rxq = <<>>
  /\ stored' = cur
  /\ lost' = lost + 1
  /\ UNCHANGED <<slots, rxq, notified>>

WriteSlot ==
  /\ mpc = "slots"
  /\ put < want
  /\ IF rxq = <<>> THEN LoseSlot ELSE StoreSlot
  /\ put' = put + 1
  /\ cur' = cur + 1
  /\ UNCHANGED <<mpc, left, want, cached, targetVars, delivered, fails, resets>>

\* A slot's transfer fails, with an empty queue or on a bad bus, before or after the
\* slot got there; hspi_write forgets its count and reports the slots before it.
WriteSlotFail ==
  /\ mpc = "slots"
  /\ put < want
  /\ \/ rxq = <<>> /\ UNCHANGED <<slots, rxq, notified, stored, lost, fails>>
     \/ BusFails /\ UNCHANGED <<slots, rxq, notified, stored, lost>>
     \/ BusFails /\ rxq # <<>> /\ StoreSlot
  /\ cached' = 0
  /\ left' = left - put
  /\ mpc' = "send"
  /\ UNCHANGED <<want, put, cur, targetVars, delivered, resets>>

\* slot_cnt after hspi_write.  Variants: left alone; lowered by the slots left to send.
CountKept == cached
CountLessLeft == cached - left - 1
CountLessWritten == cached - want

\* hspi_write returns; nrc_atcmd_send's loop goes on or ends.
WriteReturn ==
  /\ mpc = "slots"
  /\ put = want
  /\ cached' = CountLessWritten
  /\ left' = left - want
  /\ mpc' = IF left > want THEN "send" ELSE "idle"
  /\ UNCHANGED <<want, put, cur, rxq, slots, targetVars, notified, histVars>>

\* The receive thread refreshes the status under the same mutex.
RecvStatusUpdate ==
  /\ mpc # "slots"
  /\ cached' = FreshCount
  /\ UNCHANGED <<mpc, left, want, put, cur, rxq, slots, targetVars, notified, histVars>>

-----------------------------------------------------------------------------
(* Target.                                                                  *)

\* Slots written since the count was last read.  Variants: every posted slot was; the
\* difference is taken the wrong way round.
RxDoneAll == rxTotal
RxDoneSwapped == Len(rxq) - rxTotal
RxDone == rxTotal - Len(rxq)

\* _hif_hspi_read: written slots become the ring's content.
ReadReclaim ==
  /\ tpc = "reclaim"
  /\ LET done == IF RxDone > 0 THEN RxDone ELSE 0
     IN /\ rxTotal' = rxTotal - done
        /\ rxFifo' = FifoWrite(rxFifo, done)
  /\ tpc' = "read"
  /\ UNCHANGED <<hostVars, rxq, slots, tupd, ti, rbuf, notified, histVars>>

\* rxq_update_cnt: free slots not posted yet, less what the 6-bit counter cannot hold.
\* Variants: the slots out already are forgotten; so is the counter's limit.
RxUpdateAllFree(f) == FreeSize(f) - (IF SlotNum > SlotCntMax THEN SlotNum - SlotCntMax ELSE 0)
RxUpdateNoMax(f) == FreeSize(f) - rxTotal
RxUpdate(f) ==
  FreeSize(f) - rxTotal - (IF SlotNum > SlotCntMax THEN SlotNum - SlotCntMax ELSE 0)

\* __hif_hspi_read until the ring is empty or a full slot would not fit any more; short
\* slots leave room for more than RxBufSlots of them.
ReadSlots ==
  /\ tpc = "read"
  /\ \E n \in Smaller(FillSize(rxFifo), RxBufSlots)..FillSize(rxFifo) :
       /\ rbuf' = [i \in 1..n |-> slots[PopAddr(rxFifo, i - 1)]]
       /\ rxFifo' = FifoRead(rxFifo, n)
  /\ tupd' = RxUpdate(rxFifo')
  /\ ti' = 0
  /\ tpc' = "post"
  /\ UNCHANGED <<hostVars, rxq, slots, rxTotal, notified, histVars>>

\* One free slot is posted to the hardware.
ReadPost ==
  /\ tpc = "post"
  /\ ti < tupd
  /\ rxq' = Append(rxq, PushAddr(rxFifo, rxTotal + ti))
  /\ ti' = ti + 1
  /\ UNCHANGED <<hostVars, slots, rxFifo, rxTotal, tpc, tupd, rbuf, notified, histVars>>

\* _hif_hspi_read returns; _hif_rx_task calls atcmd_receive, or suspends when there was
\* nothing.
ReadReturn ==
  /\ tpc = "post"
  /\ ti >= tupd
  /\ rxTotal' = rxTotal + tupd
  /\ delivered' = delivered \o rbuf
  /\ tpc' = IF rbuf = <<>> THEN "suspend" ELSE "reclaim"
  /\ rbuf' = <<>> /\ tupd' = 0 /\ ti' = 0
  /\ UNCHANGED <<hostVars, rxq, slots, rxFifo, notified, stored, lost, fails, resets>>

\* ulTaskNotifyTake returns: notified, or after 100 ms.
ReadResume ==
  /\ tpc = "suspend"
  /\ notified' = FALSE
  /\ tpc' = "reclaim"
  /\ UNCHANGED <<hostVars, rxq, slots, rxFifo, rxTotal, tupd, ti, rbuf, histVars>>

\* RAM and registers start from zero; the receive task posts again on its first read.
TargetReset ==
  /\ resets < MaxResets
  /\ resets' = resets + 1
  /\ rxq' = <<>>
  /\ slots' = [a \in Addrs |-> 0]
  /\ rxFifo' = NewFifo(SlotNum) /\ rxTotal' = 0 /\ tpc' = "suspend" /\ tupd' = 0 /\ ti' = 0
  /\ rbuf' = <<>> /\ notified' = FALSE
  /\ UNCHANGED <<hostVars, stored, lost, delivered, fails>>

-----------------------------------------------------------------------------
\* The target is up and its receive task, created before the link's type is set, is
\* suspended; the host has opened the link and found no slot posted.
Init ==
  /\ mpc = "idle" /\ left = 0 /\ want = 0 /\ put = 0 /\ cur = 1 /\ cached = 0
  /\ rxq = <<>> /\ slots = [a \in Addrs |-> 0]
  /\ rxFifo = NewFifo(SlotNum) /\ rxTotal = 0 /\ tpc = "suspend" /\ tupd = 0 /\ ti = 0
  /\ rbuf = <<>> /\ notified = FALSE
  /\ stored = 0 /\ lost = 0 /\ delivered = <<>> /\ fails = 0 /\ resets = 0

SendStep == WriteCount \/ WriteSlot \/ WriteReturn
ReadStep == ReadReclaim \/ ReadSlots \/ ReadPost \/ ReadReturn \/ ReadResume

Next ==
  \/ SendStart
  \/ SendStep
  \/ WriteStatusFail \/ WriteSlotFail
  \/ RecvStatusUpdate
  \/ ReadStep
  \/ TargetReset

Spec == Init /\ [][Next]_vars

\* Both ends run.
FairSpec == Spec /\ WF_vars(SendStep) /\ WF_vars(ReadStep)

-----------------------------------------------------------------------------
TypeOK ==
  /\ mpc \in {"idle", "send", "slots"}
  /\ left \in Nat /\ want \in Nat /\ put \in Nat /\ cur \in Nat /\ cached \in Nat
  /\ rxq \in Seq(Addrs) /\ slots \in [Addrs -> Nat]
  /\ rxFifo \in FifoType(SlotNum) /\ rxTotal \in Nat
  /\ tpc \in {"suspend", "reclaim", "read", "post"}
  /\ tupd \in Nat /\ ti \in Nat /\ rbuf \in Seq(Nat) /\ notified \in BOOLEAN
  /\ stored \in Nat /\ lost \in Nat /\ delivered \in Seq(Nat)
  /\ fails \in Nat /\ resets \in Nat

\* Slots the target has handed to the hardware, written or not.
Out == rxTotal + ti

\* Between its parts _hif_hspi_read (hif_hspi.c:515-560) never has more slots out than
\* are free, nor more than the queue's counter holds, and after each call every free slot
\* is out that may be: the host can always send once the ring drains.
RxAccounting ==
  /\ Out + rxFifo.cnt <= SlotNum
  /\ Out <= SlotCntMax
  /\ Len(rxq) <= Out
  /\ tpc = "suspend" /\ rxTotal > 0 => Out + rxFifo.cnt = Smaller(SlotNum, SlotCntMax)

\* The slots the host may still write are the last of those out, in ring order.
RxPostedInRingOrder ==
  \A i \in 1..Len(rxq) : rxq[i] = PushAddr(rxFifo, Out - Len(rxq) + i - 1)

\* The host never gets a slot whose content the target has yet to read
\* (hif_hspi.c:541-548 posts at push_idx + rxq_total_cnt).
NoPostOverUnread ==
  \A i \in 1..Len(rxq) : \A j \in 0..(rxFifo.cnt - 1) : rxq[i] # PopAddr(rxFifo, j)

\* Without a restart the cached count of free slots is never too high, so hspi_write
\* (nrc-hspi.c:762-823) loses nothing; a restart of the target can cost the host no more
\* than one cached count of slots.
LossBounded ==
  /\ lost <= resets * SlotNum
  /\ resets = 0 => cached <= Len(rxq) + (IF mpc = "slots" THEN put ELSE 0)

\* What the slots out and already written hold, oldest first.
WrittenChunks ==
  [i \in 1..(Out - Len(rxq)) |-> slots[PushAddr(rxFifo, i - 1)]]

UnreadChunks == [i \in 1..rxFifo.cnt |-> slots[PopAddr(rxFifo, i - 1)]]

Channel ==
  INSTANCE ChunkChannel WITH
    Lossy <- FALSE, LossyOnceRestarted <- TRUE, Repeats <- MaxFails > 0,
    written <- stored, epoch <- resets,
    inflight <- rbuf \o UnreadChunks \o WrittenChunks

\* The chunks reach atcmd_receive in the order they were sent and none is skipped; only a
\* transfer reported as failed although it arrived repeats one, and only a restart loses
\* some.
ImplementsChannel == Channel!ChanSpec

\* What was sent reaches atcmd_receive, and nrc_atcmd_send always ends: the ring's free
\* slots come back however the status refreshes, the posts and the 100 ms suspensions of
\* the receive task interleave.
SendEnds == (mpc # "idle") ~> (mpc = "idle")

SentIsReceived ==
  (Len(rxq) < Out \/ rxFifo.cnt > 0) ~> (Len(rxq) = Out /\ rxFifo.cnt = 0 /\ rbuf = <<>>)
=============================================================================
