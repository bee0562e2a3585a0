---------------------------- MODULE HspiTxProofs ----------------------------
(***************************************************************************)
(* Proofs about HspiTx for every ring size, counter width, message length   *)
(* and number of restarts, with and without transfer failures.              *)
(*                                                                          *)
(* The inductive invariant adds to SlotAccounting what the writer knows     *)
(* between its clamps and its posts, and what the reader knows while it     *)
(* holds the mutex.                                                         *)
(***************************************************************************)
EXTENDS HspiTx, HifFifoProofs

\* What holds between the two clamps of _hif_hspi_write and its return.
WriterInv ==
  /\ wpc \in {"fill", "post"} =>
       /\ wupd \in 1..wleft
       /\ txTotal + wupd <= SlotNum
       /\ txTotal + wupd <= SlotCntMax
       /\ wi <= wupd
  /\ wpc = "fill" => wi < wupd

\* What holds while hspi_read transfers its slots.
ReaderInv == rpc = "slots" => taken <= want /\ want <= cached

IInv ==
  /\ TypeOK
  /\ WriterInv
  /\ ReaderInv
  /\ SlotAccounting
  /\ PostedInRingOrder
  /\ CachedWithinPosted

-----------------------------------------------------------------------------
(* The initial states.                                                      *)

\* A freshly booted target with an idle host satisfies the inductive invariant.
LEMMA InitIInv == Init => IInv
<1> SUFFICES ASSUME Init PROVE IInv
  OBVIOUS
<1> USE DEF Init
<1>1. TypeOK
  BY SlotAssumption DEF TypeOK, NewFifo, FifoType, Addrs
<1>2. WriterInv /\ ReaderInv
  BY DEF WriterInv, ReaderInv
<1>3. SlotAccounting
  BY SlotAssumption DEF SlotAccounting, NewFifo, Unposted, PostedNow
<1>4. PostedInRingOrder
  BY DEF PostedInRingOrder
<1>5. CachedWithinPosted
  BY DEF CachedWithinPosted
<1>6. QED
  BY <1>1, <1>2, <1>3, <1>4, <1>5 DEF IInv

-----------------------------------------------------------------------------
(* Steps that leave the target and the queue alone: the receive thread's    *)
(* bookkeeping and the other thread's status refresh.                       *)

\* Such a step keeps what the writer and the queue rely on.
LEMMA TargetQuiet ==
  ASSUME IInv, UNCHANGED <<targetVars, txq>>
  PROVE  WriterInv' /\ SlotAccounting' /\ PostedInRingOrder'
<1> USE DEF IInv, targetVars
<1>1. WriterInv'
  BY DEF WriterInv
<1>2. SlotAccounting'
  BY DEF SlotAccounting, Unposted, PostedNow
<1>3. PostedInRingOrder'
  BY DEF PostedInRingOrder, Unposted
<1>4. QED
  BY <1>1, <1>2, <1>3

\* hspi_status_update (nrc-hspi.c:496-522) caches a count the queue really has, or keeps
\* the old one.
LEMMA FreshCountInv ==
  ASSUME IInv, rpc # "slots"
  PROVE  FreshCount \in Nat /\ (resets = 0 => FreshCount <= Len(txq))
<1>1. cached \in Nat /\ txq \in Seq(Addrs) /\ Len(txq) \in Nat
  BY DEF IInv, TypeOK
<1>2. QED
  BY <1>1 DEF FreshCount, IInv, CachedWithinPosted

\* raspi_eirq_poll takes one pin event and touches neither ring nor count.
LEMMA RecvPollInv == ASSUME IInv, RecvPoll PROVE IInv'
<1>1. WriterInv' /\ SlotAccounting' /\ PostedInRingOrder'
  BY TargetQuiet DEF RecvPoll
<1>2. TypeOK'
  BY DEF IInv, TypeOK, RecvPoll, targetVars
<1>3. ReaderInv' /\ CachedWithinPosted'
  BY DEF IInv, ReaderInv, CachedWithinPosted, RecvPoll, targetVars
<1>4. QED
  BY <1>1, <1>2, <1>3 DEF IInv

\* raspi_hif_hspi_eirq_status changes the cached count only to one the queue has.
LEMMA RecvEirqStatusInv == ASSUME IInv, RecvEirqStatus PROVE IInv'
<1>1. WriterInv' /\ SlotAccounting' /\ PostedInRingOrder'
  BY TargetQuiet DEF RecvEirqStatus
<1>2. rpc # "slots" /\ cached' = FreshCount /\ eirq' = {}
  BY DEF RecvEirqStatus, StatusUpdate
<1>3. FreshCount \in Nat /\ (resets = 0 => FreshCount <= Len(txq))
  BY <1>2, FreshCountInv
<1>4. /\ rpc' \in {"reopen", "read", "poll"}
      /\ ready' \in {TRUE, FALSE, ready}
      /\ eirqOn' \in {FALSE, eirqOn}
  BY DEF RecvEirqStatus
<1>5. TypeOK'
  BY <1>2, <1>3, <1>4 DEF IInv, TypeOK, RecvEirqStatus, targetVars
<1>6. ReaderInv' /\ CachedWithinPosted'
  BY <1>2, <1>3, <1>4 DEF IInv, ReaderInv, CachedWithinPosted, RecvEirqStatus
<1>7. QED
  BY <1>1, <1>5, <1>6 DEF IInv

\* The status refresh of hspi_reopen keeps the cached count within the queue.
LEMMA RecvReopenInv == ASSUME IInv, RecvReopen PROVE IInv'
<1>1. WriterInv' /\ SlotAccounting' /\ PostedInRingOrder'
  BY TargetQuiet DEF RecvReopen
<1>2. rpc # "slots" /\ cached' = FreshCount /\ eirq' = {} /\ rpc' = "enable"
  BY DEF RecvReopen, StatusUpdate
<1>3. FreshCount \in Nat /\ (resets = 0 => FreshCount <= Len(txq))
  BY <1>2, FreshCountInv
<1>4. TypeOK'
  BY <1>2, <1>3 DEF IInv, TypeOK, RecvReopen, targetVars
<1>5. ReaderInv' /\ CachedWithinPosted'
  BY <1>2, <1>3 DEF IInv, ReaderInv, CachedWithinPosted, RecvReopen
<1>6. QED
  BY <1>1, <1>4, <1>5 DEF IInv

\* hspi_eirq_enable, done or failed, leaves queue and count alone.
LEMMA RecvEnableInv == ASSUME IInv, RecvEnable \/ RecvEnableFail PROVE IInv'
<1>1. WriterInv' /\ SlotAccounting' /\ PostedInRingOrder'
  BY TargetQuiet DEF RecvEnable, RecvEnableFail
<1>2. TypeOK'
  BY DEF IInv, TypeOK, RecvEnable, RecvEnableFail, targetVars, pinVars
<1>3. ReaderInv' /\ CachedWithinPosted'
  BY DEF IInv, ReaderInv, CachedWithinPosted, RecvEnable, RecvEnableFail
<1>4. QED
  BY <1>1, <1>2, <1>3 DEF IInv

\* hspi_read asks for no more slots than the cached count, which the queue holds.
LEMMA RecvCountInv == ASSUME IInv, RecvCount PROVE IInv'
<1>1. WriterInv' /\ SlotAccounting' /\ PostedInRingOrder'
  BY TargetQuiet DEF RecvCount
<1>2. rpc # "slots" /\ cached \in Nat /\ eirq \in SUBSET {"ready", "sleep"}
  BY DEF RecvCount, IInv, TypeOK
<1>3. FreshCount \in Nat /\ (resets = 0 => FreshCount <= Len(txq))
  BY <1>2, FreshCountInv
<1>4. /\ cached' \in {cached, FreshCount}
      /\ eirq' \in {eirq, {}}
      /\ want' = Smaller(SlotNum, cached') /\ taken' = 0
      /\ rpc' \in {"poll", "slots"}
  BY DEF RecvCount, StatusUpdate
<1>5. cached' \in Nat /\ (resets = 0 => cached' <= Len(txq))
  BY <1>2, <1>3, <1>4 DEF IInv, CachedWithinPosted
<1>6. want' \in Nat /\ want' <= cached'
  BY <1>4, <1>5, SlotAssumption DEF Smaller
<1>7. TypeOK'
  BY <1>2, <1>4, <1>5, <1>6 DEF IInv, TypeOK, RecvCount, targetVars
<1>8. ReaderInv'
  BY <1>4, <1>6 DEF ReaderInv
<1>9. CachedWithinPosted'
  <2>1. Len(txq') \in Nat /\ txq' = txq /\ resets' = resets
    BY DEF RecvCount, IInv, TypeOK
  <2>2. QED
    BY <1>4, <1>5, <2>1 DEF CachedWithinPosted
<1>10. QED
  BY <1>1, <1>7, <1>8, <1>9 DEF IInv

\* A failed register access changes at most the latch and the thread's place.
LEMMA RecvStatusFailInv == ASSUME IInv, RecvStatusFail PROVE IInv'
<1>1. WriterInv' /\ SlotAccounting' /\ PostedInRingOrder'
  BY TargetQuiet DEF RecvStatusFail
<1>2. /\ rpc # "slots" /\ rpc' \in {"read", "poll"}
      /\ ready' \in {TRUE, ready} /\ eirq' \in {eirq, {}}
  BY DEF RecvStatusFail
<1>3. TypeOK'
  BY <1>2 DEF IInv, TypeOK, RecvStatusFail, targetVars
<1>4. ReaderInv' /\ CachedWithinPosted'
  BY <1>2 DEF IInv, ReaderInv, CachedWithinPosted, RecvStatusFail
<1>5. QED
  BY <1>1, <1>3, <1>4 DEF IInv

\* The main thread's refresh finds the receive thread between two bus transfers.
LEMMA MainStatusUpdateInv == ASSUME IInv, MainStatusUpdate PROVE IInv'
<1>1. WriterInv' /\ SlotAccounting' /\ PostedInRingOrder'
  BY TargetQuiet DEF MainStatusUpdate
<1>2. rpc # "slots" /\ rpc' = rpc /\ cached' = FreshCount /\ eirq' = {}
  BY DEF MainStatusUpdate, StatusUpdate, RecvHoldsMutex
<1>3. FreshCount \in Nat /\ (resets = 0 => FreshCount <= Len(txq))
  BY <1>2, FreshCountInv
<1>4. TypeOK'
  BY <1>2, <1>3 DEF IInv, TypeOK, MainStatusUpdate, targetVars
<1>5. ReaderInv' /\ CachedWithinPosted'
  BY <1>2, <1>3 DEF IInv, ReaderInv, CachedWithinPosted, MainStatusUpdate
<1>6. QED
  BY <1>1, <1>4, <1>5 DEF IInv

-----------------------------------------------------------------------------
(* The receive thread's slot transfers.                                     *)

\* Reading the oldest posted slot leaves the others in ring order.
LEMMA QueueTail ==
  ASSUME IInv, txq # <<>>, txq' = Tail(txq), UNCHANGED targetVars
  PROVE  /\ txq' \in Seq(Addrs) /\ Len(txq') = Len(txq) - 1 /\ Len(txq) >= 1
         /\ WriterInv' /\ SlotAccounting' /\ PostedInRingOrder'
<1>1. txq \in Seq(Addrs) /\ Len(txq) \in Nat /\ Len(txq) >= 1
  BY DEF IInv, TypeOK
<1>2. /\ txq' \in Seq(Addrs) /\ Len(txq') = Len(txq) - 1
      /\ \A i \in 1..Len(txq') : txq'[i] = txq[i + 1]
  BY <1>1
<1>3. WriterInv'
  BY DEF IInv, WriterInv, targetVars
<1>4. SlotAccounting'
  <2>1. Unposted' = Unposted /\ PostedNow' = PostedNow
    BY DEF targetVars, Unposted, PostedNow
  <2>2. txTotal \in Nat /\ PostedNow \in Nat
    BY DEF IInv, TypeOK, PostedNow
  <2>3. QED
    BY <1>1, <1>2, <2>1, <2>2 DEF IInv, SlotAccounting, targetVars
<1>5. PostedInRingOrder'
  <2>1. Unposted' = Unposted /\ txFifo' = txFifo
    BY DEF targetVars, Unposted
  <2>2. Unposted \in Int
    BY DEF IInv, TypeOK, Unposted
  <2>3. SUFFICES ASSUME NEW i \in 1..Len(txq')
                 PROVE  txq'[i] = PushAddr(txFifo, i - 1 - Len(txq') - Unposted)
    BY <2>1 DEF PostedInRingOrder
  <2>4. i + 1 \in 1..Len(txq) /\ txq'[i] = txq[i + 1]
    BY <1>1, <1>2
  <2>5. txq[i + 1] = PushAddr(txFifo, (i + 1) - 1 - Len(txq) - Unposted)
    BY <2>4 DEF IInv, PostedInRingOrder
  <2>6. (i + 1) - 1 - Len(txq) - Unposted = i - 1 - Len(txq') - Unposted
    BY <1>1, <1>2, <2>2
  <2>7. QED
    BY <2>4, <2>5, <2>6
<1>6. QED
  BY <1>1, <1>2, <1>3, <1>4, <1>5

\* The slot hspi_read_slot takes is the oldest one posted: those left keep their
\* order and their distance to push_idx.
LEMMA RecvSlotInv == ASSUME IInv, RecvSlot PROVE IInv'
<1>1. /\ rpc = "slots" /\ rpc' = rpc /\ taken < want /\ taken' = taken + 1
      /\ UNCHANGED <<targetVars, pinVars, cached, want, ready, sent, delivered, resets>>
  BY DEF RecvSlot
<1>2. taken \in Nat /\ want \in Nat /\ cached \in Nat /\ txq \in Seq(Addrs)
  BY DEF IInv, TypeOK
<1>3. ReaderInv'
  BY <1>1, <1>2 DEF IInv, ReaderInv
<1>4. CASE txq = <<>>
  <2>1. txq' = txq /\ got' = got
    BY <1>4 DEF RecvSlot
  <2>2. WriterInv' /\ SlotAccounting' /\ PostedInRingOrder'
    BY <1>1, <2>1, TargetQuiet
  <2>3. TypeOK'
    BY <1>1, <1>2, <2>1 DEF IInv, TypeOK, targetVars, pinVars
  <2>4. CachedWithinPosted'
    BY <1>1, <1>2, <2>1 DEF IInv, CachedWithinPosted
  <2>5. QED
    BY <1>3, <2>2, <2>3, <2>4 DEF IInv
<1>5. CASE txq # <<>>
  <2>1. txq' = Tail(txq) /\ got' = Append(got, slots[Head(txq)])
    BY <1>5 DEF RecvSlot
  <2>2. /\ txq' \in Seq(Addrs) /\ Len(txq') = Len(txq) - 1 /\ Len(txq) >= 1
        /\ WriterInv' /\ SlotAccounting' /\ PostedInRingOrder'
    BY <1>1, <1>5, <2>1, QueueTail
  <2>3. got' \in Seq(Nat)
    <3>1. Head(txq) \in Addrs
      BY <1>2, <1>5
    <3>2. slots[Head(txq)] \in Nat /\ got \in Seq(Nat)
      BY <3>1 DEF IInv, TypeOK
    <3>3. QED
      BY <2>1, <3>2
  <2>4. TypeOK'
    BY <1>1, <1>2, <2>2, <2>3 DEF IInv, TypeOK, targetVars, pinVars
  <2>5. CachedWithinPosted'
    BY <1>1, <1>2, <2>2 DEF IInv, CachedWithinPosted
  <2>6. QED
    BY <1>3, <2>2, <2>4, <2>5 DEF IInv
<1>6. QED
  BY <1>4, <1>5

\* hspi_read lowers the cached count by the slots it took.
LEMMA RecvDeliverInv == ASSUME IInv, RecvDeliver PROVE IInv'
<1>1. WriterInv' /\ SlotAccounting' /\ PostedInRingOrder'
  BY TargetQuiet DEF RecvDeliver
<1>2. /\ cached \in Nat /\ want \in Nat /\ taken = want /\ want <= cached
      /\ rpc = "slots" /\ rpc' = "poll" /\ cached' = cached - want
      /\ txq' = txq /\ resets' = resets /\ Len(txq) \in Nat
  BY DEF RecvDeliver, CountLessRead, IInv, TypeOK, ReaderInv
<1>3. delivered' \in Seq(Nat) /\ got' \in Seq(Nat)
  BY DEF RecvDeliver, IInv, TypeOK
<1>4. TypeOK'
  BY <1>2, <1>3 DEF IInv, TypeOK, RecvDeliver, targetVars, pinVars
<1>5. ReaderInv' /\ CachedWithinPosted'
  BY <1>2 DEF IInv, ReaderInv, CachedWithinPosted
<1>6. QED
  BY <1>1, <1>4, <1>5 DEF IInv

\* A failed slot transfer empties the cached count, and takes one slot or none.
LEMMA RecvSlotFailInv == ASSUME IInv, RecvSlotFail PROVE IInv'
<1>1. /\ UNCHANGED <<targetVars, pinVars, want, taken, ready, sent, delivered, resets>>
      /\ rpc' = "poll" /\ cached' = 0 /\ got' = <<>>
  BY DEF RecvSlotFail
<1>2. /\ txq' \in Seq(Addrs) /\ Len(txq') \in Nat
      /\ WriterInv' /\ SlotAccounting' /\ PostedInRingOrder'
  <2>1. CASE txq' = txq
    BY <1>1, <2>1, TargetQuiet DEF IInv, TypeOK
  <2>2. CASE txq # <<>> /\ txq' = Tail(txq)
    BY <1>1, <2>2, QueueTail
  <2>3. QED
    BY <2>1, <2>2 DEF RecvSlotFail
<1>3. TypeOK'
  BY <1>1, <1>2 DEF IInv, TypeOK, targetVars, pinVars
<1>4. ReaderInv' /\ CachedWithinPosted'
  BY <1>1, <1>2 DEF ReaderInv, CachedWithinPosted
<1>5. QED
  BY <1>2, <1>3, <1>4 DEF IInv

-----------------------------------------------------------------------------
(* The writer's steps.                                                      *)

\* The reader's part is untouched by a step of the target.
LEMMA HostQuiet ==
  ASSUME IInv, UNCHANGED hostVars
  PROVE  ReaderInv'
  BY DEF IInv, ReaderInv, hostVars

\* Steps of the target outside _hif_hspi_write that keep the ring and the queue.
LEMMA OutsideWrite ==
  ASSUME IInv, UNCHANGED <<txFifo, txTotal, txq, hostVars, resets>>,
         wpc \notin {"fill", "post"}, wpc' \notin {"fill", "post"}
  PROVE  WriterInv' /\ ReaderInv' /\ SlotAccounting' /\ PostedInRingOrder' /\ CachedWithinPosted'
<1>1. WriterInv' /\ ReaderInv'
  BY HostQuiet DEF WriterInv
<1>2. SlotAccounting'
  BY DEF IInv, SlotAccounting, Unposted, PostedNow
<1>3. PostedInRingOrder'
  BY DEF IInv, PostedInRingOrder, Unposted
<1>4. CachedWithinPosted'
  BY DEF IInv, CachedWithinPosted, hostVars
<1>5. QED
  BY <1>1, <1>2, <1>3, <1>4

\* atcmd_transmit starts with no slot of its own in the ring.
LEMMA TransmitStartInv == ASSUME IInv, TransmitStart PROVE IInv'
<1>1. TypeOK'
  BY DEF IInv, TypeOK, TransmitStart, pinVars, hostVars
<1>2. QED
  BY <1>1, OutsideWrite DEF IInv, TransmitStart

\* _hif_hspi_enter_sleep changes the latch and the pin only.
LEMMA EnterSleepInv == ASSUME IInv, EnterSleep PROVE IInv'
<1>1. /\ eirq' \in SUBSET {"ready", "sleep"} /\ edges' \in Nat /\ eirqOn' = eirqOn
  BY SlotAssumption DEF EnterSleep, RaiseEirq, AddEdges, Smaller, IInv, TypeOK
<1>2. TypeOK'
  BY <1>1 DEF IInv, TypeOK, EnterSleep, hostVars
<1>3. QED
  BY <1>2, OutsideWrite DEF IInv, EnterSleep

\* The BOOT event starts with an empty ring.
LEMMA BootEventInv == ASSUME IInv, BootEvent PROVE IInv'
<1>1. TypeOK'
  BY DEF IInv, TypeOK, BootEvent, pinVars, hostVars
<1>2. QED
  BY <1>1, OutsideWrite DEF IInv, BootEvent

\* The boot pulse changes the pin only.
LEMMA BootPulseInv == ASSUME IInv, BootPulse PROVE IInv'
<1>1. edges' \in Nat
  BY SlotAssumption DEF BootPulse, BootEdges, AddEdges, Smaller, IInv, TypeOK
<1>2. TypeOK'
  BY <1>1 DEF IInv, TypeOK, BootPulse, hostVars
<1>3. QED
  BY <1>2, OutsideWrite DEF IInv, BootPulse

\* After a restart ring, count and queue are all empty.
LEMMA TargetResetInv == ASSUME IInv, TargetReset PROVE IInv'
<1>1. /\ txFifo' = NewFifo(SlotNum) /\ txTotal' = 0 /\ wpc' = "reset" /\ wleft' = 0
      /\ wupd' = 0 /\ wi' = 0 /\ booting' = FALSE /\ txq' = <<>> /\ eirq' = {}
      /\ eirqOn' = FALSE /\ resets' = resets + 1 /\ slots' = [a \in Addrs |-> 0]
      /\ UNCHANGED <<edges, hostVars, sent, delivered>>
  BY DEF TargetReset
<1>2. NewFifo(SlotNum) \in FifoType(SlotNum)
  BY DEF NewFifo, FifoType
<1>3. TypeOK'
  <2>1. slots' \in [Addrs -> Nat] /\ txq' \in Seq(Addrs) /\ resets' \in Nat
    BY <1>1 DEF IInv, TypeOK
  <2>2. /\ txFifo' \in FifoType(SlotNum) /\ txTotal' \in Nat /\ wleft' \in Nat
        /\ wupd' \in Int /\ wi' \in Nat
    BY <1>1, <1>2
  <2>3. QED
    BY <1>1, <2>1, <2>2 DEF IInv, TypeOK, hostVars
<1>4. WriterInv' /\ ReaderInv'
  BY <1>1, HostQuiet DEF WriterInv
<1>5. SlotAccounting' /\ PostedInRingOrder'
  BY <1>1, SlotAssumption
  DEF SlotAccounting, PostedInRingOrder, NewFifo, Unposted, PostedNow
<1>6. CachedWithinPosted'
  BY <1>1 DEF IInv, TypeOK, CachedWithinPosted
<1>7. QED
  BY <1>3, <1>4, <1>5, <1>6 DEF IInv

\* _hif_hspi_write takes from ring and count what the queue released, and accepts
\* no more slots than both limits leave.
LEMMA WriteReclaimInv == ASSUME IInv, WriteReclaim PROVE IInv'
<1> DEFINE done  == IF TxDone > 0 THEN TxDone ELSE 0
           total == txTotal - done
           upd   == TxUpdate(total, wleft)
<1>1. /\ wpc = "write" /\ txTotal' = total /\ txFifo' = FifoRead(txFifo, done)
      /\ wupd' = upd /\ wi' = 0 /\ wpc' = IF upd > 0 THEN "fill" ELSE "write"
      /\ UNCHANGED <<slots, wleft, booting, txq, pinVars, hostVars, sent, delivered, resets>>
  BY DEF WriteReclaim
<1>2. /\ txFifo \in FifoType(SlotNum) /\ txTotal \in Nat /\ wleft \in Nat
      /\ Len(txq) \in Nat /\ txFifo.cnt = txTotal /\ Len(txq) <= txTotal
      /\ txTotal <= SlotNum /\ txTotal <= SlotCntMax
  BY <1>1 DEF IInv, TypeOK, SlotAccounting, Unposted, PostedNow, FifoType
<1>3. done \in Nat /\ done <= txFifo.cnt /\ total = Len(txq)
  BY <1>2 DEF TxDone
<1> HIDE DEF done
<1>4. /\ txFifo' \in FifoType(SlotNum) /\ txFifo'.cnt = total
      /\ \A k \in Int : PushAddr(txFifo', k) = PushAddr(txFifo, k)
  <2>1. SlotNum \in Nat \ {0} /\ txFifo.cnt - done = total
    BY <1>2, SlotAssumption
  <2>2. /\ FifoRead(txFifo, done) \in FifoType(SlotNum)
        /\ FifoRead(txFifo, done).cnt = txFifo.cnt - done
        /\ \A k \in Int : PushAddr(FifoRead(txFifo, done), k) = PushAddr(txFifo, k)
    BY <1>2, <1>3, <2>1, FifoReadShift
  <2>3. QED
    BY <1>1, <2>1, <2>2
<1>5. /\ upd \in Int /\ upd <= wleft /\ total + upd <= SlotNum /\ total + upd <= SlotCntMax
  BY <1>2, <1>3, SlotAssumption DEF TxUpdate, Smaller
<1> HIDE DEF total, upd
<1>6. TypeOK'
  BY <1>1, <1>2, <1>3, <1>4, <1>5 DEF IInv, TypeOK, pinVars, hostVars
<1>7. WriterInv' /\ ReaderInv'
  BY <1>1, <1>2, <1>5, HostQuiet DEF WriterInv
<1>8. SlotAccounting'
  <2>1. Unposted' = 0 /\ PostedNow' = 0
    BY <1>1 DEF Unposted, PostedNow
  <2>2. txq' = txq /\ txFifo'.cnt = Len(txq) /\ txTotal' = Len(txq)
    BY <1>1, <1>3, <1>4
  <2>3. QED
    BY <1>2, <2>1, <2>2, SlotAssumption DEF SlotAccounting
<1>9. PostedInRingOrder'
  <2>1. Unposted = 0 /\ Unposted' = 0
    BY <1>1 DEF Unposted
  <2>2. SUFFICES ASSUME NEW i \in 1..Len(txq)
                 PROVE  txq[i] = PushAddr(txFifo', i - 1 - Len(txq) - 0)
    BY <1>1, <2>1 DEF PostedInRingOrder
  <2>3. txq[i] = PushAddr(txFifo, i - 1 - Len(txq) - 0)
    BY <2>1 DEF IInv, PostedInRingOrder
  <2>4. QED
    BY <1>2, <1>4, <2>3
<1>10. CachedWithinPosted'
  BY <1>1 DEF IInv, CachedWithinPosted, hostVars
<1>11. QED
  BY <1>6, <1>7, <1>8, <1>9, <1>10 DEF IInv

\* __hif_hspi_write fills the slot at push_idx, which is none of those posted.
LEMMA WriteFillInv == ASSUME IInv, WriteFill PROVE IInv'
<1>1. /\ wpc = "fill" /\ wi < wupd /\ wupd \in 1..wleft /\ txTotal + wupd <= SlotNum
      /\ txTotal + wupd <= SlotCntMax
      /\ wi \in Nat /\ txTotal \in Nat /\ wleft \in Nat /\ Len(txq) \in Nat
      /\ txFifo \in FifoType(SlotNum) /\ txFifo.cnt = txTotal + wi /\ Len(txq) <= txTotal
  BY DEF WriteFill, IInv, TypeOK, WriterInv, SlotAccounting, Unposted, PostedNow
<1>2. FreeSize(txFifo) >= 1
  BY <1>1, SlotAssumption DEF FreeSize, FifoType
<1>3. /\ txFifo' = FifoWrite(txFifo, 1) /\ txFifo' \in FifoType(SlotNum)
      /\ txFifo'.cnt = txFifo.cnt + 1
      /\ \A k \in Int : PushAddr(txFifo', k) = PushAddr(txFifo, k + 1)
  <2>1. txFifo' = FifoWrite(txFifo, 1)
    BY DEF WriteFill
  <2>2. /\ FifoWrite(txFifo, 1) \in FifoType(SlotNum)
        /\ FifoWrite(txFifo, 1).cnt = txFifo.cnt + 1
        /\ \A k \in Int : PushAddr(FifoWrite(txFifo, 1), k) = PushAddr(txFifo, k + 1)
    <3>1. 1 \in Nat /\ 1 <= FreeSize(txFifo) /\ SlotNum \in Nat \ {0}
      BY <1>1, <1>2, SlotAssumption DEF FreeSize, FifoType
    <3>2. QED
      BY <1>1, <3>1, FifoWriteShift
  <2>3. QED
    BY <2>1, <2>2
<1>4. /\ UNCHANGED <<txTotal, wleft, wupd, booting, txq, pinVars, hostVars, delivered, resets>>
      /\ sent' = sent + 1
      /\ \/ wi + 1 < wupd /\ wi' = wi + 1 /\ wpc' = "fill"
         \/ wi + 1 = wupd /\ wi' = 0 /\ wpc' = "post"
  BY <1>1 DEF WriteFill
<1>5. slots' \in [Addrs -> Nat]
  <2>1. FreeSize(txFifo) > 0
    BY <1>1, <1>2, SlotAssumption DEF FreeSize, FifoType
  <2>2. slots' = [slots EXCEPT ![PushAddr(txFifo, 0)] = sent + 1]
    BY <2>1 DEF WriteFill
  <2>3. slots \in [Addrs -> Nat] /\ sent + 1 \in Nat
    BY DEF IInv, TypeOK
  <2>4. QED
    BY <2>2, <2>3
<1>6. TypeOK'
  <2>1. wi' \in Nat /\ wpc' \in {"fill", "post"} /\ sent' \in Nat
    BY <1>1, <1>4 DEF IInv, TypeOK
  <2>2. QED
    BY <1>3, <1>4, <1>5, <2>1 DEF IInv, TypeOK, pinVars, hostVars
<1>7. WriterInv' /\ ReaderInv'
  BY <1>1, <1>4, HostQuiet DEF WriterInv
<1>8. /\ Unposted' = Unposted + 1 /\ Unposted = wi /\ PostedNow' = 0
  <2>1. wupd' = wupd /\ wpc # "post" /\ wupd \in Nat
    BY <1>1, <1>4
  <2>2. CASE wi + 1 < wupd /\ wi' = wi + 1 /\ wpc' = "fill"
    BY <1>1, <2>1, <2>2 DEF Unposted, PostedNow
  <2>3. CASE wi + 1 = wupd /\ wi' = 0 /\ wpc' = "post"
    BY <1>1, <2>1, <2>3 DEF Unposted, PostedNow
  <2>4. QED
    BY <1>4, <2>2, <2>3
<1>9. SlotAccounting'
  <2>1. /\ txq' = txq /\ txTotal' = txTotal
        /\ txFifo'.cnt = txTotal + (wi + 1) /\ wi + 1 <= wupd /\ wupd \in Nat
    BY <1>1, <1>3, <1>4
  <2>2. QED
    BY <1>1, <1>8, <2>1, SlotAssumption DEF SlotAccounting
<1>10. PostedInRingOrder'
  <2>1. SUFFICES ASSUME NEW i \in 1..Len(txq)
                 PROVE  txq[i] = PushAddr(txFifo', i - 1 - Len(txq) - Unposted')
    BY <1>4 DEF PostedInRingOrder
  <2>2. txq[i] = PushAddr(txFifo, i - 1 - Len(txq) - Unposted)
    BY DEF IInv, PostedInRingOrder
  <2>3. /\ i - 1 - Len(txq) - Unposted' \in Int
        /\ (i - 1 - Len(txq) - Unposted') + 1 = i - 1 - Len(txq) - Unposted
    BY <1>1, <1>8
  <2>4. QED
    BY <1>3, <2>2, <2>3
<1>11. CachedWithinPosted'
  BY <1>4 DEF IInv, CachedWithinPosted, hostVars
<1>12. QED
  BY <1>6, <1>7, <1>9, <1>10, <1>11 DEF IInv

\* The slot posted next follows the newest posted one in the ring.
LEMMA WritePostInv == ASSUME IInv, WritePost PROVE IInv'
<1>1. /\ wpc = "post" /\ wi < wupd /\ wupd \in 1..wleft /\ wi' = wi + 1
      /\ wi \in Nat /\ txTotal \in Nat /\ wleft \in Nat
      /\ txq \in Seq(Addrs) /\ Len(txq) \in Nat /\ txFifo \in FifoType(SlotNum)
      /\ txq' = Append(txq, PushAddr(txFifo, wi - wupd))
      /\ UNCHANGED <<txFifo, txTotal, slots, wpc, wleft, wupd, booting, pinVars, hostVars,
                     sent, delivered, resets>>
  BY DEF WritePost, PostAddr, IInv, TypeOK, WriterInv
<1>2. PushAddr(txFifo, wi - wupd) \in Addrs
  <2>1. wi - wupd \in Int
    BY <1>1
  <2>2. QED
    BY <1>1, <2>1, AddrInRing, SlotAssumption DEF Addrs
<1>3. /\ txq' \in Seq(Addrs) /\ Len(txq') = Len(txq) + 1
      /\ txq'[Len(txq) + 1] = PushAddr(txFifo, wi - wupd)
      /\ \A i \in 1..Len(txq) : txq'[i] = txq[i]
  BY <1>1, <1>2
<1>4. TypeOK'
  BY <1>1, <1>3 DEF IInv, TypeOK, pinVars, hostVars
<1>5. WriterInv' /\ ReaderInv'
  BY <1>1, HostQuiet DEF IInv, WriterInv
<1>6. /\ Unposted = wupd - wi /\ Unposted' = wupd - wi - 1
      /\ PostedNow = wi /\ PostedNow' = wi + 1
  BY <1>1 DEF Unposted, PostedNow
<1>7. SlotAccounting'
  BY <1>1, <1>3, <1>6 DEF IInv, SlotAccounting
<1>8. PostedInRingOrder'
  <2>1. SUFFICES ASSUME NEW i \in 1..(Len(txq) + 1)
                 PROVE  txq'[i] = PushAddr(txFifo, i - 1 - Len(txq') - Unposted')
    BY <1>1, <1>3 DEF PostedInRingOrder
  <2>2. CASE i \in 1..Len(txq)
    <3>1. txq[i] = PushAddr(txFifo, i - 1 - Len(txq) - Unposted)
      BY <2>2 DEF IInv, PostedInRingOrder
    <3>2. i - 1 - Len(txq) - Unposted = i - 1 - Len(txq') - Unposted'
      BY <1>1, <1>3, <1>6
    <3>3. QED
      BY <1>3, <2>2, <3>1, <3>2
  <2>3. CASE i = Len(txq) + 1
    <3>1. i - 1 - Len(txq') - Unposted' = wi - wupd
      BY <1>1, <1>3, <1>6, <2>3
    <3>2. QED
      BY <1>3, <2>3, <3>1
  <2>4. QED
    BY <1>1, <2>2, <2>3
<1>9. CachedWithinPosted'
  <2>1. cached \in Nat /\ taken \in Nat
    BY DEF IInv, TypeOK
  <2>2. QED
    BY <1>1, <1>3, <2>1 DEF IInv, CachedWithinPosted, hostVars
<1>10. QED
  BY <1>4, <1>5, <1>7, <1>8, <1>9 DEF IInv

\* The slots posted by the call are added to txq_total_cnt.
LEMMA WriteEventInv == ASSUME IInv, WriteEvent PROVE IInv'
<1>1. /\ wpc = "post" /\ wi = wupd /\ wupd \in 1..wleft /\ txTotal \in Nat /\ wleft \in Nat
      /\ txTotal + wupd <= SlotNum /\ txTotal + wupd <= SlotCntMax
      /\ txTotal' = txTotal + wupd /\ wleft' = wleft - wupd /\ wupd' = 0 /\ wi' = 0
      /\ wpc' \in {"write", "pulse", "idle"}
      /\ UNCHANGED <<txFifo, slots, booting, txq, hostVars, sent, delivered, resets>>
  BY DEF WriteEvent, IInv, TypeOK, WriterInv
<1>2. eirq' \in SUBSET {"ready", "sleep"} /\ edges' \in Nat /\ eirqOn' = eirqOn
  BY SlotAssumption DEF WriteEvent, RaiseEirq, AddEdges, Smaller, IInv, TypeOK
<1>3. TypeOK'
  BY <1>1, <1>2 DEF IInv, TypeOK, hostVars
<1>4. WriterInv' /\ ReaderInv'
  BY <1>1, HostQuiet DEF WriterInv
<1>5. Unposted = 0 /\ Unposted' = 0 /\ PostedNow = wupd /\ PostedNow' = 0
  BY <1>1 DEF Unposted, PostedNow
<1>6. SlotAccounting'
  BY <1>1, <1>5 DEF IInv, SlotAccounting
<1>7. PostedInRingOrder'
  BY <1>1, <1>5 DEF IInv, PostedInRingOrder
<1>8. CachedWithinPosted'
  BY <1>1 DEF IInv, CachedWithinPosted, hostVars
<1>9. QED
  BY <1>3, <1>4, <1>6, <1>7, <1>8 DEF IInv

-----------------------------------------------------------------------------
(* The theorems.                                                            *)

\* A step that changes nothing keeps the inductive invariant.
LEMMA StutterIInv == ASSUME IInv, UNCHANGED vars PROVE IInv'
<1>1. UNCHANGED <<targetVars, pinVars, hostVars, txq, sent, delivered, resets>>
  BY DEF vars
<1>2. WriterInv' /\ SlotAccounting' /\ PostedInRingOrder'
  BY <1>1, TargetQuiet
<1>3. TypeOK' /\ ReaderInv' /\ CachedWithinPosted'
  BY <1>1
  DEF IInv, TypeOK, ReaderInv, CachedWithinPosted, targetVars, pinVars, hostVars
<1>4. QED
  BY <1>2, <1>3 DEF IInv

\* Every step of the target, of either host thread, of the bus and of the reset keeps
\* the inductive invariant.
LEMMA NextIInv == IInv /\ [Next]_vars => IInv'
<1> SUFFICES ASSUME IInv, [Next]_vars PROVE IInv'
  OBVIOUS
<1>1. CASE TransmitStart  BY <1>1, TransmitStartInv
<1>2. CASE WriterStep
  BY <1>2, WriteReclaimInv, WriteFillInv, WritePostInv, WriteEventInv DEF WriterStep
<1>3. CASE EnterSleep  BY <1>3, EnterSleepInv
<1>4. CASE TargetReset  BY <1>4, TargetResetInv
<1>5. CASE BootStep  BY <1>5, BootEventInv, BootPulseInv DEF BootStep
<1>6. CASE RecvStep
  BY <1>6, RecvPollInv, RecvEirqStatusInv, RecvReopenInv, RecvEnableInv, RecvCountInv,
     RecvSlotInv, RecvDeliverInv DEF RecvStep
<1>7. CASE RecvSlotFail \/ RecvStatusFail \/ RecvEnableFail
  BY <1>7, RecvSlotFailInv, RecvStatusFailInv, RecvEnableInv
<1>8. CASE MainStatusUpdate  BY <1>8, MainStatusUpdateInv
<1>9. CASE UNCHANGED vars  BY <1>9, StutterIInv
<1>10. QED
  BY <1>1, <1>2, <1>3, <1>4, <1>5, <1>6, <1>7, <1>8, <1>9 DEF Next

\* The inductive invariant holds in every state of the link.
LEMMA SpecIInv == Spec => []IInv
  BY InitIInv, NextIInv, PTL DEF Spec

\* Every variable keeps its type: no counter of hif_hspi.c or nrc-hspi.c goes negative
\* and every posted address is one of the ring's.
THEOREM TypeCorrect == Spec => []TypeOK
<1>1. IInv => TypeOK
  BY DEF IInv
<1>2. QED
  BY <1>1, SpecIInv, PTL

\* The accounting of _hif_hspi_write (hif_hspi.c:593-646): fill count, software count and
\* hardware count agree, and the ring and the 6-bit counter are never exceeded.
THEOREM AccountingCorrect == Spec => []SlotAccounting
<1>1. IInv => SlotAccounting
  BY DEF IInv
<1>2. QED
  BY <1>1, SpecIInv, PTL

\* The queue holds the newest slots of the ring in ring order (hif_hspi.c:625-633).
THEOREM RingOrder == Spec => []PostedInRingOrder
<1>1. IInv => PostedInRingOrder
  BY DEF IInv
<1>2. QED
  BY <1>1, SpecIInv, PTL

\* The host's cached count never promises slots that are not there (nrc-hspi.c:662-719),
\* until the target restarts.
THEOREM CacheSafe == Spec => []CachedWithinPosted
<1>1. IInv => CachedWithinPosted
  BY DEF IInv
<1>2. QED
  BY <1>1, SpecIInv, PTL

\* The payload of a posted slot is never overwritten (hif_hspi.c:606-633).  This is where
\* the ring size has to divide the range of the 32-bit index (RingAssumption).
THEOREM PostedIntact == Spec => []NoFillOverPosted
<1>1. IInv => NoFillOverPosted
  <2> SUFFICES ASSUME IInv, wpc = "fill", NEW i \in 1..Len(txq)
               PROVE  txq[i] # PushAddr(txFifo, 0)
    BY DEF NoFillOverPosted
  <2>1. /\ txFifo \in FifoType(SlotNum) /\ wi \in Nat /\ txTotal \in Nat /\ Len(txq) \in Nat
        /\ wi < wupd /\ wupd \in Int /\ txTotal + wupd <= SlotNum /\ Len(txq) <= txTotal
    BY DEF IInv, TypeOK, WriterInv, SlotAccounting, PostedNow
  <2> DEFINE d == Len(txq) + wi + 1 - i
             p == txFifo.push
  <2>2. p \in Int /\ txFifo.size = SlotNum /\ SlotNum \in Nat \ {0}
    BY <2>1, SlotAssumption DEF FifoType
  <2>3. d \in Int /\ 0 < d /\ d < SlotNum /\ p - d \in Int /\ p + 0 \in Int
    BY <2>1, <2>2
  <2>4. /\ txq[i] = PushAddr(txFifo, i - 1 - Len(txq) - Unposted) /\ Unposted = wi
    BY DEF IInv, PostedInRingOrder, Unposted
  <2>5. p + (i - 1 - Len(txq) - wi) = p - d
    BY <2>1, <2>2
  <2> HIDE DEF d, p
  <2>6. txq[i] = ((p - d) % IdxMod) % SlotNum
    BY <2>2, <2>4, <2>5 DEF PushAddr, p
  <2>7. PushAddr(txFifo, 0) = ((p + 0) % IdxMod) % SlotNum
    BY <2>2 DEF PushAddr, p
  <2>8. /\ ((p - d) % IdxMod) % SlotNum = (p - d) % SlotNum
        /\ ((p + 0) % IdxMod) % SlotNum = (p + 0) % SlotNum
    <3>1. SlotNum \in Nat \ {0} /\ IdxMod \in Nat \ {0} /\ IdxMod % SlotNum = 0
      BY SlotAssumption, IdxModAssumption, RingAssumption
    <3>2. ASSUME NEW a \in Int PROVE (a % IdxMod) % SlotNum = a % SlotNum
      BY <3>1, ModOfMod
    <3>3. QED
      BY <2>3, <3>2
  <2>9. ((p - d) + d) % SlotNum # (p - d) % SlotNum
    BY <2>2, <2>3, ModDistinct
  <2>10. (p - d) + d = p + 0
    BY <2>2, <2>3
  <2>11. QED
    BY <2>6, <2>7, <2>8, <2>9, <2>10
<1>2. QED
  BY <1>1, SpecIInv, PTL

-----------------------------------------------------------------------------
(* The channel: what the ring, the queue and hspi_read hold, as one         *)
(* sequence.                                                                *)

\* Slots filled and not yet read by the host, posted or not.
WaitingCount == Len(txq) + Unposted

Waiting == [i \in 1..WaitingCount |-> slots[PushAddr(txFifo, (i - 1) - WaitingCount)]]

Inflight == got \o PostedChunks \o UnpostedChunks

\* What is in flight is the host's buffer and the newest slots of the ring.
InflightForm ==
  /\ WaitingCount \in Nat /\ WaitingCount <= txFifo.cnt
  /\ Waiting \in Seq(Nat) /\ Len(Waiting) = WaitingCount
  /\ got \in Seq(Nat)
  /\ Inflight = got \o Waiting /\ Inflight \in Seq(Nat)

\* That it is follows from the ring order of the posts.
LEMMA InflightIs == IInv => InflightForm
<1> SUFFICES ASSUME IInv PROVE InflightForm
  OBVIOUS
<1>1. /\ txFifo \in FifoType(SlotNum) /\ SlotNum \in Nat \ {0}
      /\ slots \in [Addrs -> Nat] /\ got \in Seq(Nat)
      /\ txq \in Seq(Addrs) /\ Len(txq) \in Nat
  BY SlotAssumption DEF IInv, TypeOK
<1>2. Unposted \in Nat /\ PostedNow \in Nat
  <2>1. CASE wpc = "post"
    BY <2>1 DEF IInv, TypeOK, WriterInv, Unposted, PostedNow
  <2>2. CASE wpc # "post"
    BY <2>2 DEF IInv, TypeOK, Unposted, PostedNow
  <2>3. QED
    BY <2>1, <2>2
<1>3. WaitingCount \in Nat /\ WaitingCount <= txFifo.cnt
  <2>1. /\ txTotal \in Nat /\ txFifo.cnt \in Nat /\ Len(txq) <= txTotal + PostedNow
        /\ txFifo.cnt = (txTotal + PostedNow) + Unposted
    BY DEF IInv, TypeOK, SlotAccounting, FifoType
  <2>2. QED
    BY <1>1, <1>2, <2>1 DEF WaitingCount
<1>4. \A k \in Int : slots[PushAddr(txFifo, k)] \in Nat
  BY <1>1, AddrInRing DEF Addrs
<1>5. Waiting \in Seq(Nat) /\ Len(Waiting) = WaitingCount
  <2>1. \A i \in 1..WaitingCount : (i - 1) - WaitingCount \in Int
    BY <1>3
  <2>2. Waiting \in [1..WaitingCount -> Nat]
    BY <1>4, <2>1 DEF Waiting
  <2>3. QED
    BY <1>3, <2>2, FunIsSeq
<1>6. PostedChunks \in Seq(Nat) /\ Len(PostedChunks) = Len(txq)
  <2>1. \A i \in 1..Len(txq) : txq[i] \in Addrs
    BY <1>1, ElementOfSeq
  <2>2. PostedChunks \in [1..Len(txq) -> Nat]
    BY <1>1, <2>1 DEF PostedChunks
  <2>3. QED
    BY <1>1, <2>2, FunIsSeq
<1>7. UnpostedChunks \in Seq(Nat) /\ Len(UnpostedChunks) = Unposted
  <2>1. \A i \in 1..Unposted : i - 1 - Unposted \in Int
    BY <1>2
  <2>2. UnpostedChunks \in [1..Unposted -> Nat]
    BY <1>4, <2>1 DEF UnpostedChunks
  <2>3. QED
    BY <1>2, <2>2, FunIsSeq
<1>8. PostedChunks \o UnpostedChunks = Waiting
  <2>1. /\ PostedChunks \o UnpostedChunks \in Seq(Nat)
        /\ Len(PostedChunks \o UnpostedChunks) = Len(txq) + Unposted
        /\ \A i \in 1..(Len(txq) + Unposted) : (PostedChunks \o UnpostedChunks)[i] =
             IF i <= Len(txq) THEN PostedChunks[i] ELSE UnpostedChunks[i - Len(txq)]
    <3> DEFINE a == PostedChunks
               b == UnpostedChunks
    <3>1. a \in Seq(Nat) /\ b \in Seq(Nat)
      BY <1>6, <1>7
    <3>2. Len(a) = Len(txq) /\ Len(b) = Unposted
      BY <1>6, <1>7
    <3> HIDE DEF a, b
    <3>3. /\ a \o b \in Seq(Nat) /\ Len(a \o b) = Len(a) + Len(b)
          /\ \A i \in 1..(Len(a) + Len(b)) :
               (a \o b)[i] = IF i <= Len(a) THEN a[i] ELSE b[i - Len(a)]
      BY <3>1, ConcatProperties
    <3>4. /\ a \o b \in Seq(Nat) /\ Len(a \o b) = Len(txq) + Unposted
          /\ \A i \in 1..(Len(txq) + Unposted) :
               (a \o b)[i] = IF i <= Len(txq) THEN a[i] ELSE b[i - Len(txq)]
      BY <3>2, <3>3
    <3>5. QED
      BY <3>4 DEF a, b
  <2>2. ASSUME NEW i \in 1..WaitingCount
        PROVE  (PostedChunks \o UnpostedChunks)[i] = Waiting[i]
    <3>1. Waiting[i] = slots[PushAddr(txFifo, (i - 1) - WaitingCount)]
      BY DEF Waiting
    <3>2. WaitingCount = Len(txq) + Unposted
      BY DEF WaitingCount
    <3>3. CASE i <= Len(txq)
      <4>1. i \in 1..Len(txq)
        BY <1>1, <1>3, <3>3
      <4>2. txq[i] = PushAddr(txFifo, i - 1 - Len(txq) - Unposted)
        BY <4>1 DEF IInv, PostedInRingOrder
      <4>3. i - 1 - Len(txq) - Unposted = (i - 1) - WaitingCount
        BY <1>1, <1>2, <3>2
      <4>4. PostedChunks[i] = slots[txq[i]]
        BY <4>1 DEF PostedChunks
      <4>5. QED
        BY <2>1, <3>1, <3>2, <3>3, <4>2, <4>3, <4>4
    <3>4. CASE ~(i <= Len(txq))
      <4>1. /\ i - Len(txq) \in 1..Unposted
            /\ (i - Len(txq)) - 1 - Unposted = (i - 1) - WaitingCount
        BY <1>1, <1>2, <3>2, <3>4
      <4>2. UnpostedChunks[i - Len(txq)]
              = slots[PushAddr(txFifo, (i - Len(txq)) - 1 - Unposted)]
        BY <4>1 DEF UnpostedChunks
      <4>3. QED
        BY <2>1, <3>1, <3>2, <3>4, <4>1, <4>2
    <3>5. QED
      BY <3>3, <3>4
  <2>3. QED
    BY <1>5, <2>1, <2>2, SeqEqual DEF WaitingCount
<1>9. Inflight = got \o Waiting /\ Inflight \in Seq(Nat)
  <2>1. (got \o PostedChunks) \o UnpostedChunks = got \o (PostedChunks \o UnpostedChunks)
    <3>1. \A r, s, t \in Seq(Nat) : (r \o s) \o t = r \o (s \o t)
      BY SMT
    <3>2. QED
      BY <1>1, <1>6, <1>7, <3>1, Zenon
  <2>2. Inflight = got \o Waiting
    BY <1>8, <2>1, Zenon DEF Inflight
  <2>3. QED
    BY <1>1, <1>5, <2>2, ConcatProperties
<1>10. QED
  BY <1>1, <1>3, <1>5, <1>9 DEF InflightForm

\* The same after a step.
LEMMA InflightNext == IInv' => InflightForm'
  BY InflightIs, PTL

\* A step that moves no chunk and fills no slot keeps what waits in the ring.
LEMMA SameWaiting ==
  ASSUME IInv, UNCHANGED slots, WaitingCount' = WaitingCount,
         \A k \in Int : PushAddr(txFifo', k) = PushAddr(txFifo, k)
  PROVE  Waiting' = Waiting
<1>1. WaitingCount \in Nat
  BY InflightIs DEF InflightForm
<1>2. Waiting' = [i \in 1..WaitingCount |->
                    slots[PushAddr(txFifo', (i - 1) - WaitingCount)]]
  BY DEF Waiting
<1>3. \A i \in 1..WaitingCount : (i - 1) - WaitingCount \in Int
  BY <1>1
<1>4. QED
  BY <1>2, <1>3 DEF Waiting

\* Then the host's buffer decides what is in flight.
LEMMA SameInflight ==
  ASSUME IInv, IInv', UNCHANGED <<slots, got>>, WaitingCount' = WaitingCount,
         \A k \in Int : PushAddr(txFifo', k) = PushAddr(txFifo, k)
  PROVE  Inflight' = Inflight
<1>1. Waiting' = Waiting
  BY SameWaiting
<1>2. Inflight = got \o Waiting /\ Inflight' = got' \o Waiting'
  BY InflightIs, InflightNext DEF InflightForm
<1>3. QED
  BY <1>1, <1>2

\* A slot filled adds the next chunk behind all that wait: it lies behind each of them by
\* less than a lap, so none is overwritten.
LEMMA FillAppends == ASSUME IInv, IInv', WriteFill PROVE Inflight' = Append(Inflight, sent + 1)
<1>1. /\ wpc = "fill" /\ wi < wupd /\ wupd \in Nat /\ txTotal + wupd <= SlotNum
      /\ wi \in Nat /\ txTotal \in Nat /\ sent \in Nat
      /\ txFifo \in FifoType(SlotNum) /\ txFifo.cnt = txTotal + wi
      /\ SlotNum \in Nat \ {0} /\ slots \in [Addrs -> Nat]
  BY SlotAssumption
  DEF WriteFill, IInv, TypeOK, WriterInv, SlotAccounting, Unposted, PostedNow
<1>2. txFifo.cnt \in Nat /\ txFifo.cnt < SlotNum /\ txFifo.size = SlotNum
  BY <1>1 DEF FifoType
<1>3. FreeSize(txFifo) > 0
  BY <1>1, <1>2 DEF FreeSize
<1>4. /\ txFifo' = FifoWrite(txFifo, 1) /\ got' = got
      /\ slots' = [slots EXCEPT ![PushAddr(txFifo, 0)] = sent + 1]
  BY <1>3 DEF WriteFill, hostVars
<1>5. \A k \in Int : PushAddr(txFifo', k) = PushAddr(txFifo, k + 1)
  <2>1. 1 \in Nat /\ 1 <= FreeSize(txFifo)
    BY <1>1, <1>2 DEF FreeSize
  <2>2. QED
    BY <1>1, <1>4, <2>1, FifoWriteShift
<1>6. /\ WaitingCount \in Nat /\ WaitingCount <= txFifo.cnt
      /\ Waiting \in Seq(Nat) /\ Len(Waiting) = WaitingCount /\ got \in Seq(Nat)
      /\ Inflight = got \o Waiting
  BY InflightIs DEF InflightForm
<1>7. /\ Waiting' \in Seq(Nat) /\ Len(Waiting') = WaitingCount'
      /\ Inflight' = got' \o Waiting'
  BY InflightNext DEF InflightForm
<1> DEFINE c == WaitingCount
           a == PushAddr(txFifo, 0)
<1>8. WaitingCount' = c + 1
  <2>1. txq' = txq /\ wupd' = wupd /\ Len(txq) \in Nat
    BY DEF WriteFill, IInv, TypeOK
  <2>2. Unposted = wi
    BY <1>1 DEF Unposted
  <2>3. Unposted' = wi + 1
    <3>1. CASE wi + 1 < wupd
      BY <1>1, <3>1 DEF WriteFill, Unposted
    <3>2. CASE ~(wi + 1 < wupd)
      <4>1. wi' = 0 /\ wpc' = "post"
        BY <3>2 DEF WriteFill
      <4>2. Unposted' = wupd - wi'
        BY <2>1, <4>1 DEF Unposted
      <4>3. \A x \in Nat : x - 0 = x
        OBVIOUS
      <4>4. wupd - wi' = wupd
        BY <1>1, <4>1, <4>3
      <4>5. QED
        BY <1>1, <3>2, <4>2, <4>4
    <3>3. QED
      BY <3>1, <3>2
  <2>4. QED
    BY <1>1, <2>1, <2>2, <2>3 DEF WaitingCount
<1>9. /\ Append(Waiting, sent + 1) \in Seq(Nat)
      /\ Len(Append(Waiting, sent + 1)) = c + 1
      /\ \A i \in 1..c : Append(Waiting, sent + 1)[i] = Waiting[i]
      /\ Append(Waiting, sent + 1)[c + 1] = sent + 1
  <2>1. sent + 1 \in Nat
    BY <1>1
  <2>2. QED
    BY <1>6, <2>1, AppendProperties
<1>10. a \in Addrs
  BY <1>1, AddrInRing DEF Addrs
<1>11. ASSUME NEW i \in 1..(c + 1) PROVE Waiting'[i] = Append(Waiting, sent + 1)[i]
  <2>1. Waiting'[i] = slots'[PushAddr(txFifo', (i - 1) - (c + 1))]
    BY <1>8 DEF Waiting
  <2>2. /\ (i - 1) - (c + 1) \in Int /\ ((i - 1) - (c + 1)) + 1 = (i - 1) - c
        /\ (i - 1) - c \in Int /\ 0 \in Int
    BY <1>6
  <2>3. PushAddr(txFifo', (i - 1) - (c + 1)) = PushAddr(txFifo, (i - 1) - c)
    BY <1>5, <2>2
  <2>4. CASE i = c + 1
    <3>1. (i - 1) - c = 0
      BY <1>6, <2>4
    <3>2. slots'[a] = sent + 1
      BY <1>1, <1>4, <1>10
    <3>3. QED
      BY <1>9, <2>1, <2>3, <2>4, <3>1, <3>2
  <2>5. CASE i \in 1..c
    <3>1. (i - 1) - c < 0 /\ 0 - ((i - 1) - c) < SlotNum
      BY <1>1, <1>2, <1>6, <2>5
    <3>2. PushAddr(txFifo, (i - 1) - c) # a
      BY <1>1, <2>2, <3>1, PushDistinct, RingAssumption
    <3>3. PushAddr(txFifo, (i - 1) - c) \in Addrs
      BY <1>1, <2>2, AddrInRing DEF Addrs
    <3>4. slots'[PushAddr(txFifo, (i - 1) - c)] = slots[PushAddr(txFifo, (i - 1) - c)]
      BY <1>1, <1>4, <3>2, <3>3
    <3>5. Waiting[i] = slots[PushAddr(txFifo, (i - 1) - c)]
      BY <2>5 DEF Waiting
    <3>6. QED
      BY <1>9, <2>1, <2>3, <2>5, <3>4, <3>5
  <2>6. QED
    BY <1>6, <2>4, <2>5
<1>12. Waiting' = Append(Waiting, sent + 1)
  BY <1>7, <1>8, <1>9, <1>11, SeqEqual
<1>13. got \o Append(Waiting, sent + 1) = Append(got \o Waiting, sent + 1)
  <2>1. sent + 1 \in Nat
    BY <1>1
  <2>2. QED
    BY <1>6, <2>1, AppendConcat
<1>14. QED
  BY <1>4, <1>6, <1>7, <1>12, <1>13

\* Posting moves a slot from the filled to the posted ones.
LEMMA PostInflight == ASSUME IInv, IInv', WritePost PROVE Inflight' = Inflight
<1>1. /\ wpc = "post" /\ wpc' = wpc /\ wi' = wi + 1 /\ wupd' = wupd /\ wi < wupd
      /\ txq' = Append(txq, PostAddr(wi))
      /\ UNCHANGED <<txFifo, slots, got>>
  BY DEF WritePost, hostVars
<1>2. txq \in Seq(Addrs) /\ Len(txq) \in Nat /\ wi \in Nat /\ wupd \in Int
  BY DEF IInv, TypeOK
<1>3. Len(txq') = Len(txq) + 1
  BY <1>1, <1>2
<1>4. WaitingCount' = WaitingCount
  <2>1. WaitingCount' = (Len(txq) + 1) + (wupd - (wi + 1))
    BY <1>1, <1>3 DEF WaitingCount, Unposted
  <2>2. WaitingCount = Len(txq) + (wupd - wi)
    BY <1>1 DEF WaitingCount, Unposted
  <2>3. QED
    BY <1>2, <2>1, <2>2
<1>5. QED
  BY <1>1, <1>4, SameInflight

\* Reclaiming frees slots the host has read.
LEMMA ReclaimInflight == ASSUME IInv, IInv', WriteReclaim PROVE Inflight' = Inflight
<1> DEFINE done == IF TxDone > 0 THEN TxDone ELSE 0
<1>1. /\ wpc = "write" /\ wpc' \in {"fill", "write"} /\ wi' = 0
      /\ txFifo' = FifoRead(txFifo, done)
      /\ UNCHANGED <<slots, got, txq>>
  BY DEF WriteReclaim, hostVars
<1>2. /\ txFifo \in FifoType(SlotNum) /\ txTotal \in Nat /\ Len(txq) \in Nat
      /\ txFifo.cnt = txTotal /\ Len(txq) <= txTotal /\ SlotNum \in Nat \ {0}
  <2>1. /\ txFifo \in FifoType(SlotNum) /\ txFifo.cnt \in Nat /\ txTotal \in Nat
        /\ Len(txq) \in Nat /\ SlotNum \in Nat \ {0}
    BY SlotAssumption DEF IInv, TypeOK, FifoType
  <2>2. Unposted = 0 /\ PostedNow = 0
    BY <1>1 DEF Unposted, PostedNow
  <2>3. txFifo.cnt = txTotal + PostedNow + Unposted /\ Len(txq) <= txTotal + PostedNow
    BY DEF IInv, SlotAccounting
  <2>4. QED
    BY <2>1, <2>2, <2>3
<1>3. done \in Nat /\ done <= txFifo.cnt
  BY <1>2 DEF TxDone
<1> HIDE DEF done
<1>4. \A k \in Int : PushAddr(txFifo', k) = PushAddr(txFifo, k)
  BY <1>1, <1>2, <1>3, FifoReadShift
<1>5. WaitingCount' = WaitingCount
  BY <1>1 DEF WaitingCount, Unposted
<1>6. QED
  BY <1>1, <1>4, <1>5, SameInflight

\* Outside the fill and post loops of _hif_hspi_write nothing waits unposted.
LEMMA QuietInflight ==
  ASSUME IInv, IInv', UNCHANGED <<txFifo, slots, txq, got>>,
         \/ UNCHANGED <<wpc, wi, wupd>>
         \/ wpc \notin {"fill", "post"} /\ wpc' \notin {"fill", "post"}
         \/ wpc = "post" /\ wi = wupd /\ wpc' \notin {"fill", "post"}
  PROVE  Inflight' = Inflight
<1>1. Unposted' = Unposted
  <2>1. CASE UNCHANGED <<wpc, wi, wupd>>
    BY <2>1 DEF Unposted
  <2>2. CASE wpc \notin {"fill", "post"} /\ wpc' \notin {"fill", "post"}
    BY <2>2 DEF Unposted
  <2>3. CASE wpc = "post" /\ wi = wupd /\ wpc' \notin {"fill", "post"}
    <3>1. wupd \in Int
      BY DEF IInv, TypeOK
    <3>2. Unposted = wupd - wupd /\ Unposted' = 0
      BY <2>3 DEF Unposted
    <3>3. QED
      BY <3>1, <3>2
  <2>4. QED
    BY <2>1, <2>2, <2>3
<1>2. WaitingCount' = WaitingCount
  BY <1>1 DEF WaitingCount
<1>3. QED
  BY <1>2, SameInflight

\* The oldest posted slot leaves the ring: what waits is the rest.
LEMMA TakeHead ==
  ASSUME IInv, IInv', txq # <<>>, txq' = Tail(txq), UNCHANGED targetVars
  PROVE  /\ Waiting # <<>> /\ slots[Head(txq)] = Head(Waiting)
         /\ Waiting' = Tail(Waiting)
<1>1. txq \in Seq(Addrs) /\ txFifo' = txFifo /\ slots' = slots
  BY DEF IInv, TypeOK, targetVars
<1>2. Len(txq) \in Nat /\ Len(txq) >= 1 /\ Len(txq') = Len(txq) - 1 /\ Head(txq) = txq[1]
  BY <1>1
<1>3. Unposted' = Unposted
  BY DEF Unposted, targetVars
<1>4. /\ WaitingCount \in Nat /\ Waiting \in Seq(Nat) /\ Len(Waiting) = WaitingCount
      /\ WaitingCount' \in Nat /\ Waiting' \in Seq(Nat) /\ Len(Waiting') = WaitingCount'
  BY InflightIs, InflightNext DEF InflightForm
<1>5. Unposted \in Int /\ Unposted >= 0
  <2>1. CASE wpc = "post"
    BY <2>1 DEF IInv, TypeOK, WriterInv, Unposted
  <2>2. CASE wpc # "post"
    BY <2>2 DEF IInv, TypeOK, Unposted
  <2>3. QED
    BY <2>1, <2>2
<1>6. WaitingCount' = WaitingCount - 1 /\ WaitingCount >= 1
  <2>1. WaitingCount' = (Len(txq) - 1) + Unposted
    BY <1>2, <1>3 DEF WaitingCount
  <2>2. QED
    BY <1>2, <1>5, <2>1 DEF WaitingCount
<1>7. Waiting # <<>>
  BY <1>4, <1>6, EmptySeq
<1>8. Head(Waiting) = Waiting[1]
  BY <1>4, <1>7
<1>9. slots[Head(txq)] = Waiting[1]
  <2>1. txq[1] = PushAddr(txFifo, 1 - 1 - Len(txq) - Unposted)
    BY <1>2 DEF IInv, PostedInRingOrder
  <2>2. Waiting[1] = slots[PushAddr(txFifo, (1 - 1) - WaitingCount)]
    BY <1>4, <1>6 DEF Waiting
  <2>3. 1 - 1 - Len(txq) - Unposted = (1 - 1) - WaitingCount
    BY <1>2, <1>5 DEF WaitingCount
  <2>4. QED
    BY <1>2, <2>1, <2>2, <2>3
<1>10. /\ Tail(Waiting) \in Seq(Nat) /\ Len(Tail(Waiting)) = WaitingCount - 1
       /\ \A i \in 1..(WaitingCount - 1) : Tail(Waiting)[i] = Waiting[i + 1]
  BY <1>4, <1>7, HeadTailProperties
<1>11. ASSUME NEW i \in 1..(WaitingCount - 1) PROVE Waiting'[i] = Tail(Waiting)[i]
  <2>1. Waiting'[i] = slots[PushAddr(txFifo, (i - 1) - (WaitingCount - 1))]
    BY <1>1, <1>6 DEF Waiting
  <2>2. i + 1 \in 1..WaitingCount
    BY <1>4
  <2>3. Waiting[i + 1] = slots[PushAddr(txFifo, ((i + 1) - 1) - WaitingCount)]
    BY <2>2 DEF Waiting
  <2>4. (i - 1) - (WaitingCount - 1) = ((i + 1) - 1) - WaitingCount
    BY <1>4
  <2>5. QED
    BY <1>10, <2>1, <2>3, <2>4
<1>12. Waiting' = Tail(Waiting)
  BY <1>4, <1>6, <1>10, <1>11, SeqEqual
<1>13. QED
  BY <1>7, <1>8, <1>9, <1>12

\* hspi_read_slot moves the oldest waiting chunk into the host's buffer.
LEMMA SlotInflight == ASSUME IInv, IInv', RecvSlot PROVE Inflight' = Inflight
<1>1. UNCHANGED targetVars
  BY DEF RecvSlot
<1>2. CASE txq = <<>>
  <2>1. UNCHANGED <<txFifo, slots, txq, got, wpc, wi, wupd>>
    BY <1>2 DEF RecvSlot, targetVars
  <2>2. QED
    BY <2>1, QuietInflight
<1>3. CASE txq # <<>>
  <2>1. txq' = Tail(txq) /\ got' = Append(got, slots[Head(txq)])
    BY <1>3 DEF RecvSlot
  <2>2. /\ Waiting # <<>> /\ slots[Head(txq)] = Head(Waiting)
        /\ Waiting' = Tail(Waiting)
    BY <1>1, <1>3, <2>1, TakeHead
  <2>3. Waiting \in Seq(Nat) /\ got \in Seq(Nat) /\ Inflight = got \o Waiting
    BY InflightIs DEF InflightForm
  <2>4. Inflight' = got' \o Waiting'
    BY InflightNext DEF InflightForm
  <2>5. Append(got, Head(Waiting)) \o Tail(Waiting) = got \o Waiting
    BY <2>2, <2>3, HeadMoves
  <2>6. QED
    BY <2>1, <2>2, <2>3, <2>4, <2>5
<1>4. QED
  BY <1>2, <1>3

-----------------------------------------------------------------------------
(* The refinement: each step is one of the channel's, or none.              *)

\* Nothing is in flight at first.
LEMMA InitChannel == Init => Channel!ChanInit
<1> SUFFICES ASSUME Init PROVE Channel!ChanInit
  OBVIOUS
<1>1. IInv
  BY InitIInv
<1>2. Waiting \in Seq(Nat) /\ Len(Waiting) = WaitingCount /\ Inflight = got \o Waiting
  BY <1>1, InflightIs DEF InflightForm
<1>3. WaitingCount = 0
  BY DEF Init, WaitingCount, Unposted
<1>4. Waiting = <<>> /\ got = <<>>
  BY <1>2, <1>3, EmptySeq DEF Init
<1>5. <<>> \o <<>> = <<>>
  BY EmptySeq, ConcatEmptySeq
<1>6. Inflight = <<>>
  BY <1>2, <1>4, <1>5
<1>7. QED
  BY <1>6 DEF Channel!ChanInit, Inflight, Init

\* nrc_atcmd_recv is given what hspi_read has read.
LEMMA DeliverStep ==
  ASSUME IInv, IInv', RecvDeliver
  PROVE  Channel!ChanNext \/ UNCHANGED Channel!chanVars
<1>1. /\ UNCHANGED targetVars /\ txq' = txq /\ got' = <<>>
      /\ delivered' = delivered \o got /\ sent' = sent /\ resets' = resets
  BY DEF RecvDeliver
<1>2. /\ Waiting \in Seq(Nat) /\ got \in Seq(Nat) /\ Inflight = got \o Waiting
      /\ delivered \in Seq(Nat)
  BY InflightIs DEF InflightForm, IInv, TypeOK
<1>3. Waiting' = Waiting
  <2>1. WaitingCount' = WaitingCount /\ slots' = slots /\ txFifo' = txFifo
    BY <1>1 DEF WaitingCount, Unposted, targetVars
  <2>2. QED
    BY <2>1, SameWaiting
<1>4. Inflight' = Waiting
  <2>1. Inflight' = <<>> \o Waiting
    BY <1>1, <1>3, InflightNext DEF InflightForm
  <2>2. QED
    BY <1>2, <2>1, ConcatEmptySeq
<1>5. CASE got = <<>>
  <2>1. Inflight' = Inflight /\ delivered' = delivered
    BY <1>1, <1>2, <1>4, <1>5, ConcatEmptySeq
  <2>2. QED
    BY <1>1, <2>1 DEF Channel!chanVars, Inflight
<1>6. CASE got # <<>>
  <2> DEFINE k == Len(got)
  <2>1. Len(Inflight) = k + Len(Waiting) /\ Len(Waiting) \in Nat /\ k \in Nat
    BY <1>2, ConcatProperties, LenProperties
  <2>2. k # 0
    BY <1>2, <1>6, EmptySeq
  <2>3. k \in 1..Len(Inflight)
    BY <2>1, <2>2
  <2>4. /\ SubSeq(got \o Waiting, 1, k) = got
        /\ SubSeq(got \o Waiting, k + 1, Len(got \o Waiting)) = Waiting
    BY <1>2, SplitConcat
  <2> HIDE DEF k
  <2>5. /\ delivered' = delivered \o SubSeq(Inflight, 1, k)
        /\ Inflight' = SubSeq(Inflight, k + 1, Len(Inflight))
    BY <1>1, <1>2, <1>4, <2>4
  <2>6. Channel!DeliverChunks
    BY <1>1, <2>3, <2>5 DEF Channel!DeliverChunks, Inflight
  <2>7. QED
    BY <2>6 DEF Channel!ChanNext
<1>7. QED
  BY <1>5, <1>6

\* A suffix of what is in flight is what a drop of the first chunks leaves.
LEMMA DropFirst ==
  ASSUME NEW s \in Seq(Nat), NEW t \in Seq(Nat), Inflight = s \o t, Inflight' = t
  PROVE  Channel!Drop
<1> DEFINE j == Len(s)
<1>1. Len(Inflight) = j + Len(t) /\ Len(t) \in Nat /\ j \in Nat
  BY ConcatProperties, LenProperties
<1>2. SubSeq(Inflight, j + 1, Len(Inflight)) = t
  BY SplitConcat
<1>3. SubSeq(Inflight, 1, 0) = <<>>
  BY SubSeqEmpty
<1>4. <<>> \o t = t
  BY ConcatEmptySeq
<1> HIDE DEF j
<1>5. 0 \in 0..Len(Inflight) /\ j \in 0..Len(Inflight)
  <2> DEFINE n == Len(Inflight)
  <2> SUFFICES 0 \in 0..n /\ j \in 0..n
    OBVIOUS
  <2>1. n = j + Len(t)
    BY <1>1
  <2> HIDE DEF n
  <2>2. QED
    BY <1>1, <2>1
<1>6. Inflight' = SubSeq(Inflight, 1, 0) \o SubSeq(Inflight, j + 1, Len(Inflight))
  BY <1>2, <1>3, <1>4, Zenon
<1>7. QED
  BY <1>5, <1>6, Zenon DEF Channel!Drop, Inflight

\* A failed transfer loses what hspi_read had read, and at most the slot it was at.
LEMMA SlotFailStep == ASSUME IInv, IInv', RecvSlotFail PROVE Channel!ChanNext
<1>1. /\ Faults /\ UNCHANGED targetVars /\ got' = <<>>
      /\ UNCHANGED <<sent, delivered, resets>>
  BY DEF RecvSlotFail
<1>2. Waiting \in Seq(Nat) /\ got \in Seq(Nat) /\ Inflight = got \o Waiting
  BY InflightIs DEF InflightForm
<1>3. Inflight' = Waiting' /\ Waiting' \in Seq(Nat)
  <2>1. Inflight' = <<>> \o Waiting' /\ Waiting' \in Seq(Nat)
    BY <1>1, InflightNext DEF InflightForm
  <2>2. QED
    BY <2>1, ConcatEmptySeq
<1>4. Channel!Drop
  <2>1. CASE txq' = txq
    <3>1. WaitingCount' = WaitingCount /\ slots' = slots /\ txFifo' = txFifo
      BY <1>1, <2>1 DEF WaitingCount, Unposted, targetVars
    <3>2. Waiting' = Waiting
      BY <3>1, SameWaiting
    <3>3. QED
      BY <1>2, <1>3, <3>2, DropFirst
  <2>2. CASE txq # <<>> /\ txq' = Tail(txq)
    <3>1. Waiting # <<>> /\ Waiting' = Tail(Waiting)
      BY <1>1, <2>2, TakeHead
    <3>2. /\ Append(got, Head(Waiting)) \o Tail(Waiting) = got \o Waiting
          /\ Append(got, Head(Waiting)) \in Seq(Nat) /\ Tail(Waiting) \in Seq(Nat)
      BY <1>2, <3>1, HeadMoves
    <3>3. QED
      BY <1>2, <1>3, <3>1, <3>2, DropFirst
  <2>3. QED
    BY <2>1, <2>2 DEF RecvSlotFail
<1>5. Channel!LoseChunks
  BY <1>1, <1>4 DEF Channel!LoseChunks
<1>6. QED
  BY <1>5 DEF Channel!ChanNext

\* A restart forgets the ring; what the host has read is still delivered.
LEMMA TargetResetStep == ASSUME IInv, IInv', TargetReset PROVE Channel!ChanNext
<1>1. /\ txq' = <<>> /\ wpc' = "reset" /\ got' = got /\ resets' = resets + 1
      /\ UNCHANGED <<sent, delivered>>
  BY DEF TargetReset, hostVars
<1>2. Waiting \in Seq(Nat) /\ got \in Seq(Nat) /\ Inflight = got \o Waiting
  BY InflightIs DEF InflightForm
<1>3. Inflight' = got
  <2>1. /\ Inflight' = got' \o Waiting' /\ Waiting' \in Seq(Nat)
        /\ Len(Waiting') = WaitingCount'
    BY InflightNext DEF InflightForm
  <2>2. WaitingCount' = 0
    BY <1>1 DEF WaitingCount, Unposted
  <2>3. Waiting' = <<>>
    BY <2>1, <2>2, EmptySeq
  <2>4. QED
    BY <1>1, <1>2, <2>1, <2>3, ConcatEmptySeq
<1> DEFINE k == Len(got)
           m == Len(Inflight)
<1>4. m = k + Len(Waiting) /\ Len(Waiting) \in Nat /\ k \in Nat /\ m \in Nat
  BY <1>2, ConcatProperties, LenProperties
<1>5. SubSeq(Inflight, 1, k) = got
  BY <1>2, SplitConcat
<1>6. SubSeq(Inflight, m + 1, m) = <<>>
  BY <1>4, SubSeqEmpty
<1>7. got \o <<>> = got
  BY <1>2, ConcatEmptySeq
<1> HIDE DEF k, m
<1>8. /\ k \in 0..m /\ m \in k..m
      /\ Inflight' = SubSeq(Inflight, 1, k) \o SubSeq(Inflight, m + 1, m)
  BY <1>3, <1>4, <1>5, <1>6, <1>7
<1>9. Channel!Drop
  BY <1>8 DEF Channel!Drop, Inflight, m
<1>10. Channel!Restart
  BY <1>1, <1>9 DEF Channel!Restart
<1>11. QED
  BY <1>10 DEF Channel!ChanNext

\* Every step of the link is a step of the channel or leaves it alone.
LEMMA NextChannel ==
  IInv /\ IInv' /\ [Next]_vars => [Channel!ChanNext]_(Channel!chanVars)
<1> SUFFICES ASSUME IInv, IInv', [Next]_vars
             PROVE  Channel!ChanNext \/ UNCHANGED Channel!chanVars
  OBVIOUS
<1>1. CASE WriteFill
  <2>1. Inflight' = Append(Inflight, sent + 1)
    BY <1>1, FillAppends
  <2>2. Channel!WriteChunk
    BY <1>1, <2>1 DEF WriteFill, Channel!WriteChunk, Inflight
  <2>3. QED
    BY <2>2 DEF Channel!ChanNext
<1>2. CASE RecvDeliver  BY <1>2, DeliverStep
<1>3. CASE RecvSlotFail  BY <1>3, SlotFailStep
<1>4. CASE TargetReset  BY <1>4, TargetResetStep
<1>5. CASE WriteReclaim \/ WritePost \/ RecvSlot
  <2>1. Inflight' = Inflight
    BY <1>5, ReclaimInflight, PostInflight, SlotInflight
  <2>2. UNCHANGED <<sent, delivered, resets>>
    BY <1>5 DEF WriteReclaim, WritePost, RecvSlot
  <2>3. QED
    BY <2>1, <2>2 DEF Channel!chanVars, Inflight
<1>6. CASE TransmitStart \/ WriteEvent \/ EnterSleep \/ BootStep
  <2>1. UNCHANGED <<txFifo, slots, txq, got, sent, delivered, resets>>
    BY <1>6 DEF TransmitStart, WriteEvent, EnterSleep, BootStep, BootEvent, BootPulse,
       hostVars
  <2>2. \/ wpc \notin {"fill", "post"} /\ wpc' \notin {"fill", "post"}
        \/ wpc = "post" /\ wi = wupd /\ wpc' \notin {"fill", "post"}
    BY <1>6 DEF TransmitStart, WriteEvent, EnterSleep, BootStep, BootEvent, BootPulse
  <2>3. Inflight' = Inflight
    BY <2>1, <2>2, QuietInflight
  <2>4. QED
    BY <2>1, <2>3 DEF Channel!chanVars, Inflight
<1>7. CASE \/ RecvPoll \/ RecvEirqStatus \/ RecvReopen \/ RecvEnable \/ RecvCount
           \/ RecvStatusFail \/ RecvEnableFail \/ MainStatusUpdate \/ UNCHANGED vars
  <2>1. /\ UNCHANGED <<txFifo, slots, txq, got, sent, delivered, resets>>
        /\ UNCHANGED <<wpc, wi, wupd>>
    BY <1>7 DEF RecvPoll, RecvEirqStatus, RecvReopen, RecvEnable, RecvCount,
       RecvStatusFail, RecvEnableFail, MainStatusUpdate, vars, targetVars, hostVars
  <2>2. Inflight' = Inflight
    BY <2>1, QuietInflight
  <2>3. QED
    BY <2>1, <2>2 DEF Channel!chanVars, Inflight
<1>8. QED
  BY <1>1, <1>2, <1>3, <1>4, <1>5, <1>6, <1>7 DEF Next, WriterStep, RecvStep

\* The link from atcmd_transmit to nrc_atcmd_recv keeps what ChunkChannel promises: chunks
\* in order, each at most once, lost only to a restart or a failed transfer.
THEOREM LinkIsChannel == Spec => ImplementsChannel
BY SpecIInv, InitChannel, NextChannel, PTL DEF Spec, ImplementsChannel, Channel!ChanSpec
=============================================================================
