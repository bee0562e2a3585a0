---------------------------- MODULE HspiRxProofs ----------------------------
(***************************************************************************)
(* Proofs about HspiRx for every ring size, counter width, receive buffer,  *)
(* message length and number of restarts, with and without failures.        *)
(*                                                                          *)
(* The inductive invariant adds to the checked ones what hspi_write knows   *)
(* between its count and its last slot, what _hif_hspi_read knows between   *)
(* its reclaim and its return, how many slots the host may still lose, and  *)
(* that the ring's two indices agree.                                       *)
(***************************************************************************)
EXTENDS HspiRx, HifFifoProofs

\* What the 6-bit counter and the ring together let the target have out.
Most == Smaller(SlotNum, SlotCntMax)

\* hspi_write stays within the cached count and the message.
WriterInv ==
  /\ cached <= SlotNum
  /\ mpc = "slots" => put <= want /\ want <= cached /\ want <= left

\* Slots the host still believes in.
Due == IF mpc = "slots" THEN cached - put ELSE cached

\* What the restarts so far may cost.
Allowed == resets * SlotNum

\* Slots lost so far, and those the host would lose if the target posted none any more.
LossInv ==
  /\ lost <= Allowed
  /\ (lost + Due) - Len(rxq) <= Allowed

\* What _hif_hspi_read knows: while it posts, it will end with Most slots full or out.
ReaderInv ==
  /\ tpc # "post" => ti = 0 /\ tupd = 0 /\ rbuf = <<>>
  /\ tpc = "post" => ti <= tupd /\ rxTotal + tupd + rxFifo.cnt = Most
  /\ Out + rxFifo.cnt <= Most

IInv ==
  /\ TypeOK
  /\ WriterInv
  /\ LossInv
  /\ ReaderInv
  /\ Linked(rxFifo)
  /\ RxAccounting
  /\ RxPostedInRingOrder

-----------------------------------------------------------------------------
(* Arithmetic of the bounds.                                                *)

\* Most is the smaller of the two limits (hif_hspi.c:529-537).
LEMMA MostBound ==
  /\ Most \in Nat /\ Most <= SlotNum /\ Most <= SlotCntMax
  /\ Most = SlotNum - (IF SlotNum > SlotCntMax THEN SlotNum - SlotCntMax ELSE 0)
BY SlotAssumption DEF Most, Smaller

\* One restart more allows one ring of slots more to be lost.
LEMMA AllowedNat ==
  ASSUME resets \in Nat
  PROVE  Allowed \in Nat /\ (resets = 0 => Allowed = 0)
<1>1. SlotNum \in Nat
  BY SlotAssumption
<1>2. QED
  BY <1>1, SMT DEF Allowed

-----------------------------------------------------------------------------
(* The initial states, and steps that leave one side alone.                 *)

\* A booted target whose receive task is suspended satisfies the inductive invariant.
LEMMA InitIInv == Init => IInv
<1> SUFFICES ASSUME Init PROVE IInv
  OBVIOUS
<1> USE DEF Init
<1>1. TypeOK
  <2>1. rxFifo \in FifoType(SlotNum)
    BY DEF NewFifo, FifoType
  <2>2. slots \in [Addrs -> Nat]
    OBVIOUS
  <2>3. rxq \in Seq(Addrs) /\ rbuf \in Seq(Nat) /\ delivered \in Seq(Nat)
    BY EmptySeq
  <2>4. QED
    BY <2>1, <2>2, <2>3 DEF TypeOK
<1>2. WriterInv
  BY SlotAssumption DEF WriterInv
<1>3. LossInv
  BY AllowedNat DEF LossInv, Due
<1>4. ReaderInv /\ RxAccounting
  BY MostBound, SlotAssumption DEF ReaderInv, RxAccounting, Out, NewFifo
<1>5. Linked(rxFifo)
  <2>1. 0 % IdxMod = 0
    BY IdxModAssumption
  <2>2. QED
    BY <2>1 DEF Linked, NewFifo
<1>6. RxPostedInRingOrder
  BY DEF RxPostedInRingOrder
<1>7. QED
  BY <1>1, <1>2, <1>3, <1>4, <1>5, <1>6 DEF IInv

\* A step that leaves the target and the queue alone keeps what they rely on.
LEMMA TargetQuiet ==
  ASSUME IInv, UNCHANGED <<targetVars, rxq>>
  PROVE  ReaderInv' /\ Linked(rxFifo)' /\ RxAccounting' /\ RxPostedInRingOrder'
<1> USE DEF IInv, targetVars
<1>1. ReaderInv' /\ Linked(rxFifo)'
  BY DEF ReaderInv, Out, Most, Linked
<1>2. RxAccounting' /\ RxPostedInRingOrder'
  BY DEF RxAccounting, RxPostedInRingOrder, Out
<1>3. QED
  BY <1>1, <1>2

\* A step of the target that takes no posted slot back keeps what the host relies on.
LEMMA HostQuiet ==
  ASSUME IInv, UNCHANGED <<hostVars, lost, resets>>,
         Len(rxq') \in Nat, Len(rxq') >= Len(rxq)
  PROVE  WriterInv' /\ LossInv'
<1>1. /\ lost \in Nat /\ cached \in Nat /\ put \in Nat /\ Len(rxq) \in Nat
      /\ Allowed \in Nat
  BY AllowedNat DEF IInv, TypeOK
<1>2. WriterInv'
  BY DEF IInv, WriterInv, hostVars
<1>3. Due' = Due /\ Due \in Int
  BY <1>1 DEF Due, hostVars
<1>4. LossInv'
  BY <1>1, <1>3 DEF IInv, LossInv, Allowed
<1>5. QED
  BY <1>2, <1>4

\* hspi_status_update (nrc-hspi.c:496-522) caches a count the queue has, or keeps the old
\* one: the host expects no more than before, or exactly what is there.
LEMMA FreshCountInv ==
  ASSUME IInv
  PROVE  /\ FreshCount \in Nat /\ FreshCount <= SlotNum
         /\ (FreshCount = cached \/ FreshCount = Len(rxq))
<1>1. cached \in Nat /\ cached <= SlotNum /\ Len(rxq) \in Nat
  BY DEF IInv, TypeOK, WriterInv
<1>2. QED
  BY <1>1 DEF FreshCount

-----------------------------------------------------------------------------
(* Host steps that leave the queue alone.                                   *)

\* nrc_atcmd_send only takes the message.
LEMMA SendStartInv == ASSUME IInv, SendStart PROVE IInv'
<1>1. ReaderInv' /\ Linked(rxFifo)' /\ RxAccounting' /\ RxPostedInRingOrder'
  BY TargetQuiet DEF SendStart
<1>2. left' \in Nat /\ cur' \in Nat /\ mpc' = "send" /\ mpc = "idle"
  <2>1. MaxMsg \in Nat /\ stored \in Nat
    BY SlotAssumption DEF IInv, TypeOK
  <2>2. QED
    BY <2>1 DEF SendStart
<1>3. TypeOK'
  BY <1>2 DEF IInv, TypeOK, SendStart, targetVars, histVars
<1>4. WriterInv' /\ LossInv'
  BY <1>2 DEF IInv, WriterInv, LossInv, Allowed, Due, SendStart, histVars
<1>5. QED
  BY <1>1, <1>3, <1>4 DEF IInv

\* hspi_write asks for no more slots than the cached count and the message has.
LEMMA WriteCountInv == ASSUME IInv, WriteCount PROVE IInv'
<1>1. ReaderInv' /\ Linked(rxFifo)' /\ RxAccounting' /\ RxPostedInRingOrder'
  BY TargetQuiet DEF WriteCount
<1>2. /\ FreshCount \in Nat /\ FreshCount <= SlotNum
      /\ (FreshCount = cached \/ FreshCount = Len(rxq))
  BY FreshCountInv
<1>3. /\ left \in Nat /\ cached \in Nat /\ lost \in Nat /\ Len(rxq) \in Nat
      /\ cached <= SlotNum /\ Allowed \in Nat
  BY AllowedNat DEF IInv, TypeOK, WriterInv
<1>4. /\ cached' \in {cached, FreshCount} /\ want' = Smaller(left, cached') /\ put' = 0
      /\ mpc = "send" /\ mpc' \in {"send", "slots"}
      /\ UNCHANGED <<left, cur, rxq, slots, targetVars, notified, histVars>>
  BY DEF WriteCount
<1>5. cached' \in Nat /\ cached' <= SlotNum /\ (cached' = cached \/ cached' = Len(rxq))
  BY <1>2, <1>3, <1>4
<1>6. want' \in Nat /\ want' <= cached' /\ want' <= left'
  BY <1>3, <1>4, <1>5 DEF Smaller
<1>7. TypeOK'
  BY <1>4, <1>5, <1>6 DEF IInv, TypeOK, targetVars, histVars
<1>8. WriterInv'
  BY <1>4, <1>5, <1>6 DEF WriterInv
<1>9. LossInv'
  <2>1. Due = cached /\ Due' = cached'
    <3>1. mpc # "slots"
      BY <1>4
    <3>2. put' = 0 /\ cached' \in Nat
      BY <1>4, <1>5
    <3>3. cached' - put' = cached'
      <4>1. \A x \in Nat : x - 0 = x
        OBVIOUS
      <4>2. QED
        BY <3>2, <4>1, Zenon
    <3>4. QED
      BY <3>1, <3>3, Zenon DEF Due
  <2>2. rxq' = rxq /\ lost' = lost /\ resets' = resets
    BY <1>4 DEF histVars
  <2>3. QED
    BY <1>3, <1>5, <2>1, <2>2 DEF IInv, LossInv, Allowed
<1>10. QED
  BY <1>1, <1>7, <1>8, <1>9 DEF IInv

\* A message given up leaves count and queue alone.
LEMMA WriteStatusFailInv == ASSUME IInv, WriteStatusFail PROVE IInv'
<1>1. ReaderInv' /\ Linked(rxFifo)' /\ RxAccounting' /\ RxPostedInRingOrder'
  BY TargetQuiet DEF WriteStatusFail
<1>2. TypeOK'
  BY DEF IInv, TypeOK, WriteStatusFail, BusFails, targetVars
<1>3. WriterInv' /\ LossInv'
  BY DEF IInv, WriterInv, LossInv, Allowed, Due, WriteStatusFail
<1>4. QED
  BY <1>1, <1>2, <1>3 DEF IInv

\* hspi_write returns: the slots written leave the cached count.
LEMMA WriteReturnInv == ASSUME IInv, WriteReturn PROVE IInv'
<1>1. ReaderInv' /\ Linked(rxFifo)' /\ RxAccounting' /\ RxPostedInRingOrder'
  BY TargetQuiet DEF WriteReturn
<1>2. /\ left \in Nat /\ want \in Nat /\ cached \in Nat /\ want <= cached /\ want <= left
      /\ cached <= SlotNum /\ lost \in Nat /\ SlotNum \in Nat
  BY SlotAssumption DEF IInv, TypeOK, WriterInv, WriteReturn
<1>3. /\ mpc = "slots" /\ put = want /\ cached' = cached - want /\ left' = left - want
      /\ mpc' \in {"send", "idle"}
      /\ UNCHANGED <<want, put, cur, rxq, slots, targetVars, notified, histVars>>
  BY DEF WriteReturn, CountLessWritten
<1>4. TypeOK'
  BY <1>2, <1>3 DEF IInv, TypeOK, targetVars, histVars
<1>5. WriterInv'
  BY <1>2, <1>3 DEF WriterInv
<1>6. Due' = Due
  BY <1>2, <1>3 DEF Due
<1>7. LossInv'
  BY <1>3, <1>6 DEF IInv, LossInv, Allowed, histVars
<1>8. QED
  BY <1>1, <1>4, <1>5, <1>7 DEF IInv

\* The receive thread's refresh finds the writer between two hspi_write calls.
LEMMA RecvStatusUpdateInv == ASSUME IInv, RecvStatusUpdate PROVE IInv'
<1>1. ReaderInv' /\ Linked(rxFifo)' /\ RxAccounting' /\ RxPostedInRingOrder'
  BY TargetQuiet DEF RecvStatusUpdate
<1>2. /\ FreshCount \in Nat /\ FreshCount <= SlotNum
      /\ (FreshCount = cached \/ FreshCount = Len(rxq))
  BY FreshCountInv
<1>3. /\ mpc # "slots" /\ mpc' = mpc /\ cached' = FreshCount
      /\ UNCHANGED <<mpc, left, want, put, cur, rxq, slots, targetVars, notified, histVars>>
  BY DEF RecvStatusUpdate
<1>4. TypeOK'
  BY <1>2, <1>3 DEF IInv, TypeOK, targetVars, histVars
<1>5. WriterInv'
  BY <1>2, <1>3 DEF WriterInv
<1>6. LossInv'
  <2>1. lost \in Nat /\ cached \in Nat /\ Len(rxq) \in Nat /\ Allowed \in Nat
    BY AllowedNat DEF IInv, TypeOK
  <2>2. Due = cached /\ Due' = cached'
    BY <1>2, <1>3, <2>1 DEF Due
  <2>3. rxq' = rxq /\ lost' = lost /\ resets' = resets
    BY <1>3 DEF histVars
  <2>4. QED
    BY <1>2, <1>3, <2>1, <2>2, <2>3 DEF IInv, LossInv, Allowed
<1>7. QED
  BY <1>1, <1>4, <1>5, <1>6 DEF IInv

-----------------------------------------------------------------------------
(* Slots written by the host.                                               *)

\* The hardware puts a written slot into the oldest posted one: those left keep their
\* order and their distance to push_idx.
LEMMA StoreSlotQueue ==
  ASSUME IInv, StoreSlot, rxq # <<>>, UNCHANGED targetVars
  PROVE  /\ rxq' \in Seq(Addrs) /\ Len(rxq') = Len(rxq) - 1 /\ Len(rxq) >= 1
         /\ slots' \in [Addrs -> Nat]
         /\ ReaderInv' /\ Linked(rxFifo)' /\ RxAccounting' /\ RxPostedInRingOrder'
<1>1. rxq \in Seq(Addrs) /\ Len(rxq) \in Nat /\ Len(rxq) >= 1
  BY DEF IInv, TypeOK
<1>2. rxq' = Tail(rxq)
  BY DEF StoreSlot
<1>3. /\ rxq' \in Seq(Addrs) /\ Len(rxq') = Len(rxq) - 1
      /\ \A i \in 1..Len(rxq') : rxq'[i] = rxq[i + 1]
  BY <1>1, <1>2
<1>4. slots' \in [Addrs -> Nat]
  BY DEF IInv, TypeOK, StoreSlot
<1>5. ReaderInv' /\ Linked(rxFifo)' /\ Out' = Out /\ Out \in Int
  BY DEF IInv, TypeOK, targetVars, ReaderInv, Out, Most, Linked
<1>6. RxAccounting'
  BY <1>1, <1>3, <1>5 DEF IInv, targetVars, RxAccounting
<1>7. RxPostedInRingOrder'
  <2>1. SUFFICES ASSUME NEW i \in 1..Len(rxq')
                 PROVE  rxq'[i] = PushAddr(rxFifo, (Out - Len(rxq')) + (i - 1))
    BY <1>5 DEF RxPostedInRingOrder, targetVars
  <2>2. i + 1 \in 1..Len(rxq) /\ rxq'[i] = rxq[i + 1]
    BY <1>1, <1>3
  <2>3. rxq[i + 1] = PushAddr(rxFifo, (Out - Len(rxq)) + ((i + 1) - 1))
    BY <2>2 DEF IInv, RxPostedInRingOrder
  <2>4. (Out - Len(rxq)) + ((i + 1) - 1) = (Out - Len(rxq')) + (i - 1)
    BY <1>1, <1>3, <1>5
  <2>5. QED
    BY <2>2, <2>3, <2>4
<1>8. QED
  BY <1>1, <1>3, <1>4, <1>5, <1>6, <1>7

\* A slot written moves the host and the queue together, or is lost and counted.
LEMMA WriteSlotInv == ASSUME IInv, WriteSlot PROVE IInv'
<1>1. /\ mpc = "slots" /\ mpc' = mpc /\ put < want /\ put' = put + 1 /\ cur' = cur + 1
      /\ UNCHANGED <<left, want, cached, targetVars, delivered, fails, resets>>
  BY DEF WriteSlot
<1>2. /\ left \in Nat /\ want \in Nat /\ put \in Nat /\ cur \in Nat /\ cached \in Nat
      /\ lost \in Nat /\ Len(rxq) \in Nat /\ want <= cached /\ want <= left
      /\ cached <= SlotNum /\ SlotNum \in Nat
  BY <1>1, SlotAssumption DEF IInv, TypeOK, WriterInv
<1>3. WriterInv'
  BY <1>1, <1>2 DEF WriterInv
<1>4. Due = cached - put /\ Due' = Due - 1 /\ Due \in Int
  BY <1>1, <1>2 DEF Due
<1>5. Allowed \in Nat /\ Allowed' = Allowed
  BY <1>1, AllowedNat DEF IInv, TypeOK, Allowed
<1>6. CASE rxq = <<>>
  <2>1. stored' = cur /\ lost' = lost + 1 /\ UNCHANGED <<slots, rxq, notified>>
    BY <1>6 DEF WriteSlot, LoseSlot
  <2>2. ReaderInv' /\ Linked(rxFifo)' /\ RxAccounting' /\ RxPostedInRingOrder'
    BY <1>1, <2>1, TargetQuiet
  <2>3. TypeOK'
    BY <1>1, <1>2, <2>1 DEF IInv, TypeOK, targetVars
  <2>4. Len(rxq) = 0 /\ Len(rxq') = 0
    BY <1>6, <2>1
  <2>5. LossInv'
    BY <1>1, <1>2, <1>4, <1>5, <2>1, <2>4 DEF IInv, LossInv
  <2>6. QED
    BY <1>3, <2>2, <2>3, <2>5 DEF IInv
<1>7. CASE rxq # <<>>
  <2>1. StoreSlot /\ stored' = cur /\ notified' = TRUE /\ lost' = lost
    BY <1>7 DEF WriteSlot, StoreSlot
  <2>2. /\ rxq' \in Seq(Addrs) /\ Len(rxq') = Len(rxq) - 1 /\ slots' \in [Addrs -> Nat]
        /\ ReaderInv' /\ Linked(rxFifo)' /\ RxAccounting' /\ RxPostedInRingOrder'
    BY <1>1, <1>7, <2>1, StoreSlotQueue
  <2>3. TypeOK'
    BY <1>1, <1>2, <2>1, <2>2 DEF IInv, TypeOK, targetVars
  <2>4. LossInv'
    BY <1>2, <1>4, <1>5, <2>1, <2>2 DEF IInv, LossInv
  <2>5. QED
    BY <1>3, <2>2, <2>3, <2>4 DEF IInv
<1>8. QED
  BY <1>6, <1>7

\* A failed transfer makes the host forget its count, whether the slot arrived or not.
LEMMA WriteSlotFailInv == ASSUME IInv, WriteSlotFail PROVE IInv'
<1>1. /\ mpc = "slots" /\ mpc' = "send" /\ put < want /\ cached' = 0 /\ left' = left - put
      /\ UNCHANGED <<want, put, cur, targetVars, delivered, resets>>
  BY DEF WriteSlotFail
<1>2. /\ left \in Nat /\ want \in Nat /\ put \in Nat /\ cur \in Nat /\ want <= left
      /\ lost \in Nat /\ Len(rxq) \in Nat /\ SlotNum \in Nat
  BY <1>1, SlotAssumption DEF IInv, TypeOK, WriterInv
<1>3. WriterInv' /\ Due' = 0
  BY <1>1, <1>2 DEF WriterInv, Due
<1>4. Allowed \in Nat /\ Allowed' = Allowed
  BY <1>1, AllowedNat DEF IInv, TypeOK, Allowed
<1>5. fails' \in Nat
  BY DEF IInv, TypeOK, WriteSlotFail, BusFails
<1>6. left' \in Nat
  BY <1>1, <1>2
<1>7. CASE UNCHANGED <<slots, rxq, notified, stored, lost>>
  <2>1. ReaderInv' /\ Linked(rxFifo)' /\ RxAccounting' /\ RxPostedInRingOrder'
    BY <1>1, <1>7, TargetQuiet
  <2>2. TypeOK'
    BY <1>1, <1>5, <1>6, <1>7 DEF IInv, TypeOK, targetVars
  <2>3. LossInv'
    BY <1>2, <1>3, <1>4, <1>7 DEF IInv, LossInv
  <2>4. QED
    BY <1>3, <2>1, <2>2, <2>3 DEF IInv
<1>8. CASE rxq # <<>> /\ StoreSlot
  <2>1. stored' = cur /\ notified' = TRUE /\ lost' = lost
    BY <1>8 DEF StoreSlot
  <2>2. /\ rxq' \in Seq(Addrs) /\ Len(rxq') = Len(rxq) - 1 /\ Len(rxq) >= 1
        /\ slots' \in [Addrs -> Nat]
        /\ ReaderInv' /\ Linked(rxFifo)' /\ RxAccounting' /\ RxPostedInRingOrder'
    BY <1>1, <1>8, StoreSlotQueue
  <2>3. TypeOK'
    BY <1>1, <1>2, <1>5, <1>6, <2>1, <2>2 DEF IInv, TypeOK, targetVars
  <2>4. LossInv'
    BY <1>2, <1>3, <1>4, <2>1, <2>2 DEF IInv, LossInv
  <2>5. QED
    BY <1>3, <2>2, <2>3, <2>4 DEF IInv
<1>9. QED
  BY <1>7, <1>8 DEF WriteSlotFail

-----------------------------------------------------------------------------
(* The target's receive task.                                               *)

\* The reclaim turns written slots into ring content: every address counted from push_idx
\* moves with it.
LEMMA ReadReclaimInv == ASSUME IInv, ReadReclaim PROVE IInv'
<1>1. /\ tpc = "reclaim" /\ tpc' = "read"
      /\ UNCHANGED <<hostVars, rxq, slots, tupd, ti, rbuf, notified, histVars>>
  BY DEF ReadReclaim
<1>2. /\ rxTotal \in Nat /\ ti = 0 /\ tupd = 0 /\ rbuf = <<>> /\ Out = rxTotal
      /\ rxFifo \in FifoType(SlotNum) /\ rxFifo.cnt \in Nat /\ rxFifo.size = SlotNum
      /\ Len(rxq) \in Nat
  BY <1>1 DEF IInv, TypeOK, ReaderInv, Out, FifoType
<1>3. /\ Len(rxq) <= rxTotal /\ rxTotal + rxFifo.cnt <= Most /\ rxTotal <= SlotCntMax
      /\ Most \in Nat /\ Most <= SlotNum /\ SlotNum \in Nat \ {0} /\ SlotCntMax \in Nat
  BY <1>2, MostBound, SlotAssumption DEF IInv, ReaderInv, RxAccounting
<1> DEFINE n == rxTotal - Len(rxq)
<1>4. n \in Nat /\ n <= FreeSize(rxFifo)
  BY <1>2, <1>3 DEF FreeSize
<1>5. rxTotal' = rxTotal - n /\ rxFifo' = FifoWrite(rxFifo, n)
  BY <1>4 DEF ReadReclaim, RxDone
<1>6. /\ rxFifo' \in FifoType(SlotNum) /\ rxFifo'.cnt = rxFifo.cnt + n /\ Linked(rxFifo)'
      /\ \A k \in Int : PushAddr(rxFifo', k) = PushAddr(rxFifo, k + n)
  <2> HIDE DEF n
  <2>1. /\ FifoWrite(rxFifo, n) \in FifoType(SlotNum)
        /\ FifoWrite(rxFifo, n).cnt = rxFifo.cnt + n
        /\ \A k \in Int : PushAddr(FifoWrite(rxFifo, n), k) = PushAddr(rxFifo, k + n)
        /\ Linked(rxFifo) => Linked(FifoWrite(rxFifo, n))
    BY <1>2, <1>3, <1>4, FifoWriteShift
  <2>2. Linked(rxFifo)' <=> Linked(rxFifo')
    BY DEF Linked
  <2>3. QED
    BY <1>5, <2>1, <2>2 DEF IInv
<1>7. rxTotal' = Len(rxq) /\ rxTotal' + rxFifo'.cnt = rxTotal + rxFifo.cnt /\ Out' = rxTotal'
      /\ Len(rxq') = Len(rxq)
  <2>1. rxq' = rxq /\ ti' = 0
    BY <1>1, <1>2
  <2>2. rxTotal' = Len(rxq)
    BY <1>2, <1>5
  <2>3. rxTotal' + rxFifo'.cnt = rxTotal + rxFifo.cnt
    <3>1. /\ rxTotal' = rxTotal - n /\ rxFifo'.cnt = rxFifo.cnt + n
          /\ n \in Nat /\ rxTotal \in Nat /\ rxFifo.cnt \in Nat
      BY <1>2, <1>4, <1>5, <1>6
    <3> HIDE DEF n
    <3>2. QED
      BY <3>1
  <2>4. Out' = rxTotal'
    BY <1>2, <2>1, <2>2 DEF Out
  <2>5. QED
    BY <2>1, <2>2, <2>3, <2>4
<1>8. TypeOK'
  BY <1>1, <1>2, <1>6, <1>7 DEF IInv, TypeOK, hostVars, histVars
<1>9. WriterInv' /\ LossInv'
  BY <1>1, <1>2, HostQuiet DEF histVars
<1>10. ReaderInv'
  BY <1>1, <1>2, <1>3, <1>7 DEF ReaderInv, Most
<1>11. RxAccounting'
  BY <1>1, <1>2, <1>3, <1>7 DEF RxAccounting
<1>12. RxPostedInRingOrder'
  <2>1. SUFFICES ASSUME NEW i \in 1..Len(rxq)
                 PROVE  rxq[i] = PushAddr(rxFifo', (Out' - Len(rxq)) + (i - 1))
    BY <1>1 DEF RxPostedInRingOrder
  <2>2. rxq[i] = PushAddr(rxFifo, (Out - Len(rxq)) + (i - 1))
    BY DEF IInv, RxPostedInRingOrder
  <2>3. (Out' - Len(rxq)) + (i - 1) \in Int
    BY <1>2, <1>7
  <2>4. ((Out' - Len(rxq)) + (i - 1)) + n = (Out - Len(rxq)) + (i - 1)
    BY <1>2, <1>7
  <2>5. QED
    BY <1>6, <2>2, <2>3, <2>4
<1>13. QED
  BY <1>6, <1>8, <1>9, <1>10, <1>11, <1>12 DEF IInv

\* A chunk read from the ring is one of those stored in it.
LEMMA ReadBuffer ==
  ASSUME IInv, NEW n \in Nat
  PROVE  /\ [i \in 1..n |-> slots[PopAddr(rxFifo, i - 1)]] \in Seq(Nat)
         /\ Len([i \in 1..n |-> slots[PopAddr(rxFifo, i - 1)]]) = n
<1> DEFINE b == [i \in 1..n |-> slots[PopAddr(rxFifo, i - 1)]]
<1>1. ASSUME NEW i \in 1..n PROVE slots[PopAddr(rxFifo, i - 1)] \in Nat
  <2>1. rxFifo \in FifoType(SlotNum) /\ SlotNum \in Nat \ {0} /\ i - 1 \in Int
    BY SlotAssumption DEF IInv, TypeOK
  <2>2. PopAddr(rxFifo, i - 1) \in Addrs
    BY <2>1, AddrInRing DEF Addrs
  <2>3. QED
    BY <2>2 DEF IInv, TypeOK
<1>2. b \in [1..n -> Nat]
  BY <1>1
<1>3. QED
  BY <1>2, FunIsSeq

\* Reading n slots frees them, and rxq_update_cnt is what is missing from Most.
LEMMA ReadSlotsInv == ASSUME IInv, ReadSlots PROVE IInv'
<1>1. PICK n \in Smaller(FillSize(rxFifo), RxBufSlots)..FillSize(rxFifo) :
        /\ rbuf' = [i \in 1..n |-> slots[PopAddr(rxFifo, i - 1)]]
        /\ rxFifo' = FifoRead(rxFifo, n)
  BY DEF ReadSlots
<1>2. /\ tpc = "read" /\ tupd' = RxUpdate(rxFifo') /\ ti' = 0 /\ tpc' = "post"
      /\ UNCHANGED <<hostVars, rxq, slots, rxTotal, notified, histVars>>
  BY DEF ReadSlots
<1>3. /\ rxTotal \in Nat /\ ti = 0 /\ rxFifo \in FifoType(SlotNum) /\ rxFifo.cnt \in Nat
      /\ Len(rxq) \in Nat /\ Out = rxTotal
  BY <1>2 DEF IInv, TypeOK, ReaderInv, Out, FifoType
<1>4. n \in Nat /\ n <= rxFifo.cnt
  BY <1>3, SlotAssumption DEF Smaller, FillSize
<1>5. /\ rxFifo' \in FifoType(SlotNum) /\ rxFifo'.cnt = rxFifo.cnt - n /\ Linked(rxFifo)'
      /\ \A k \in Int : PushAddr(rxFifo', k) = PushAddr(rxFifo, k)
  <2>1. /\ FifoRead(rxFifo, n) \in FifoType(SlotNum)
        /\ FifoRead(rxFifo, n).cnt = rxFifo.cnt - n
        /\ \A k \in Int : PushAddr(FifoRead(rxFifo, n), k) = PushAddr(rxFifo, k)
        /\ Linked(rxFifo) => Linked(FifoRead(rxFifo, n))
    BY <1>3, <1>4, FifoReadShift, SlotAssumption
  <2>2. Linked(rxFifo)' <=> Linked(rxFifo')
    BY DEF Linked
  <2>3. QED
    BY <1>1, <2>1, <2>2 DEF IInv
<1>6. /\ rxTotal + rxFifo.cnt <= Most /\ rxTotal <= SlotCntMax /\ Len(rxq) <= rxTotal
      /\ Most \in Nat /\ Most <= SlotNum /\ SlotNum \in Nat /\ SlotCntMax \in Nat
  BY <1>3, MostBound, SlotAssumption DEF IInv, ReaderInv, RxAccounting
<1>7. tupd' = (Most - rxFifo'.cnt) - rxTotal
  <2>1. rxFifo'.size = SlotNum /\ rxFifo'.cnt \in Nat
    BY <1>5 DEF FifoType
  <2>2. Most = SlotNum - (IF SlotNum > SlotCntMax THEN SlotNum - SlotCntMax ELSE 0)
    BY MostBound
  <2>3. tupd' = ((SlotNum - rxFifo'.cnt) - rxTotal)
                  - (IF SlotNum > SlotCntMax THEN SlotNum - SlotCntMax ELSE 0)
    BY <1>2, <2>1 DEF RxUpdate, FreeSize
  <2>4. QED
    BY <1>3, <1>6, <2>1, <2>2, <2>3
<1>8. tupd' \in Nat /\ rxTotal + tupd' + rxFifo'.cnt = Most
  <2>1. rxFifo'.cnt \in Nat /\ rxFifo'.cnt <= rxFifo.cnt
    BY <1>3, <1>4, <1>5
  <2>2. \A a, b, m \in Nat : a + b <= m => (m - b) - a \in Nat /\ a + ((m - b) - a) + b = m
    OBVIOUS
  <2>3. rxTotal + rxFifo'.cnt <= Most
    BY <1>3, <1>6, <2>1
  <2>4. rxTotal \in Nat /\ Most \in Nat
    BY <1>3, <1>6
  <2>5. (Most - rxFifo'.cnt) - rxTotal \in Nat
        /\ rxTotal + ((Most - rxFifo'.cnt) - rxTotal) + rxFifo'.cnt = Most
    BY <2>1, <2>2, <2>3, <2>4
  <2>6. QED
    BY <1>7, <2>5
<1>9. Out' = rxTotal
  BY <1>2, <1>3 DEF Out
<1>10. TypeOK'
  <2>1. rbuf' \in Seq(Nat)
    BY <1>1, <1>4, ReadBuffer
  <2>2. QED
    BY <1>2, <1>5, <1>8, <2>1 DEF IInv, TypeOK, hostVars, histVars
<1>11. WriterInv' /\ LossInv'
  BY <1>2, <1>3, HostQuiet DEF histVars
<1>12. ReaderInv'
  <2>1. Most' = Most /\ rxTotal' = rxTotal
    BY <1>2 DEF Most
  <2>2. rxFifo'.cnt \in Nat
    BY <1>5 DEF FifoType
  <2>3. QED
    BY <1>2, <1>3, <1>6, <1>8, <1>9, <2>1, <2>2 DEF ReaderInv
<1>13. RxAccounting'
  <2>1. rxFifo'.cnt \in Nat /\ rxFifo'.cnt <= rxFifo.cnt
    BY <1>3, <1>4, <1>5
  <2>2. QED
    BY <1>2, <1>3, <1>6, <1>9, <2>1 DEF RxAccounting
<1>14. RxPostedInRingOrder'
  <2>1. SUFFICES ASSUME NEW i \in 1..Len(rxq)
                 PROVE  rxq[i] = PushAddr(rxFifo', (Out - Len(rxq)) + (i - 1))
    BY <1>2, <1>3, <1>9 DEF RxPostedInRingOrder
  <2>2. rxq[i] = PushAddr(rxFifo, (Out - Len(rxq)) + (i - 1))
    BY DEF IInv, RxPostedInRingOrder
  <2>3. (Out - Len(rxq)) + (i - 1) \in Int
    BY <1>3
  <2>4. QED
    BY <1>5, <2>2, <2>3
<1>15. QED
  BY <1>5, <1>10, <1>11, <1>12, <1>13, <1>14 DEF IInv

\* The slot posted is the one right behind the newest slot that is out.
LEMMA ReadPostInv == ASSUME IInv, ReadPost PROVE IInv'
<1>1. /\ tpc = "post" /\ ti < tupd /\ ti' = ti + 1
      /\ rxq' = Append(rxq, PushAddr(rxFifo, rxTotal + ti))
      /\ UNCHANGED <<hostVars, slots, rxFifo, rxTotal, tpc, tupd, rbuf, notified, histVars>>
  BY DEF ReadPost
<1>2. /\ rxTotal \in Nat /\ ti \in Nat /\ tupd \in Nat /\ rxFifo \in FifoType(SlotNum)
      /\ rxFifo.cnt \in Nat /\ rxq \in Seq(Addrs) /\ Len(rxq) \in Nat
      /\ Out = rxTotal + ti /\ SlotNum \in Nat \ {0}
  BY SlotAssumption DEF IInv, TypeOK, Out, FifoType
<1>3. /\ (rxTotal + tupd) + rxFifo.cnt = Most /\ Len(rxq) <= Out
      /\ Most \in Nat /\ Most <= SlotNum /\ Most <= SlotCntMax /\ SlotCntMax \in Nat
  BY <1>1, MostBound, SlotAssumption DEF IInv, ReaderInv, RxAccounting
<1>4. Out' = Out + 1 /\ Out' + rxFifo.cnt <= Most /\ Out' \in Nat
  <2>1. Out' = rxTotal + (ti + 1)
    BY <1>1 DEF Out
  <2>2. QED
    BY <1>1, <1>2, <1>3, <2>1
<1>5. PushAddr(rxFifo, rxTotal + ti) \in Addrs
  <2>1. rxTotal + ti \in Int
    BY <1>2
  <2>2. QED
    BY <1>2, <2>1, AddrInRing DEF Addrs
<1>6. /\ rxq' \in Seq(Addrs) /\ Len(rxq') = Len(rxq) + 1
      /\ \A i \in 1..Len(rxq) : rxq'[i] = rxq[i]
      /\ rxq'[Len(rxq) + 1] = PushAddr(rxFifo, rxTotal + ti)
  BY <1>1, <1>2, <1>5, AppendProperties
<1>7. TypeOK'
  <2>1. ti' \in Nat
    BY <1>1, <1>2
  <2>2. UNCHANGED <<mpc, left, want, put, cur, cached, slots, rxFifo, rxTotal, tpc, tupd,
                    rbuf, notified, stored, lost, delivered, fails, resets>>
    BY <1>1 DEF hostVars, histVars
  <2>3. Addrs' = Addrs /\ TypeOK
    BY DEF Addrs, IInv
  <2>4. QED
    BY <1>6, <2>1, <2>2, <2>3 DEF TypeOK
<1>8. WriterInv' /\ LossInv'
  <2>1. Len(rxq') \in Nat /\ Len(rxq') >= Len(rxq)
    BY <1>2, <1>6
  <2>2. QED
    BY <1>1, <2>1, HostQuiet DEF histVars
<1>9. ReaderInv'
  <2>1. Most' = Most
    BY DEF Most
  <2>2. ti' <= tupd
    BY <1>1, <1>2
  <2>3. QED
    BY <1>1, <1>3, <1>4, <2>1, <2>2 DEF ReaderInv
<1>10. RxAccounting'
  <2>1. Out' <= SlotCntMax /\ Out' + rxFifo.cnt <= SlotNum
    BY <1>2, <1>3, <1>4
  <2>2. Len(rxq') <= Out'
    BY <1>2, <1>3, <1>4, <1>6
  <2>3. QED
    BY <1>1, <2>1, <2>2 DEF RxAccounting
<1>11. RxPostedInRingOrder'
  <2>1. SUFFICES ASSUME NEW i \in 1..Len(rxq')
                 PROVE  rxq'[i] = PushAddr(rxFifo, (Out' - Len(rxq')) + (i - 1))
    BY <1>1 DEF RxPostedInRingOrder
  <2>2. Out' - Len(rxq') = Out - Len(rxq)
    BY <1>2, <1>4, <1>6
  <2>3. CASE i \in 1..Len(rxq)
    BY <1>6, <2>2, <2>3 DEF IInv, RxPostedInRingOrder
  <2>4. CASE i = Len(rxq) + 1
    <3>1. (Out - Len(rxq)) + (i - 1) = rxTotal + ti
      BY <1>2, <2>4
    <3>2. QED
      BY <1>6, <2>2, <2>4, <3>1
  <2>5. QED
    BY <1>2, <1>6, <2>3, <2>4
<1>12. Linked(rxFifo)'
  BY <1>1 DEF IInv, Linked
<1>13. QED
  BY <1>7, <1>8, <1>9, <1>10, <1>11, <1>12 DEF IInv

\* _hif_hspi_read returns with every slot out that may be, so a task that suspends leaves
\* the host something to write to.
LEMMA ReadReturnInv == ASSUME IInv, ReadReturn PROVE IInv'
<1>1. /\ tpc = "post" /\ ti >= tupd /\ rxTotal' = rxTotal + tupd
      /\ delivered' = delivered \o rbuf /\ tpc' \in {"suspend", "reclaim"}
      /\ rbuf' = <<>> /\ tupd' = 0 /\ ti' = 0
      /\ UNCHANGED <<hostVars, rxq, slots, rxFifo, notified, stored, lost, fails, resets>>
  BY DEF ReadReturn
<1>2. /\ rxTotal \in Nat /\ ti \in Nat /\ tupd \in Nat /\ rxFifo.cnt \in Nat
      /\ Len(rxq) \in Nat /\ Out = rxTotal + ti /\ delivered \in Seq(Nat) /\ rbuf \in Seq(Nat)
  BY DEF IInv, TypeOK, Out, FifoType
<1>3. ti <= tupd /\ (rxTotal + tupd) + rxFifo.cnt = Most
  BY <1>1 DEF IInv, ReaderInv
<1>4. rxTotal' \in Nat /\ Out' = Out /\ Out \in Nat /\ Out + rxFifo.cnt = Most
  <2>1. ti = tupd
    BY <1>1, <1>2, <1>3
  <2>2. Out' = rxTotal' + 0
    BY <1>1 DEF Out
  <2>3. rxTotal' + 0 = rxTotal + ti
    BY <1>1, <1>2, <2>1
  <2>4. QED
    BY <1>1, <1>2, <1>3, <2>1, <2>2, <2>3
<1>5. delivered' \in Seq(Nat) /\ rbuf' \in Seq(Nat)
  BY <1>1, <1>2, ConcatProperties, EmptySeq
<1>6. TypeOK'
  BY <1>1, <1>4, <1>5 DEF IInv, TypeOK, hostVars
<1>7. WriterInv' /\ LossInv'
  BY <1>1, <1>2, HostQuiet
<1>8. Most' = Most /\ Most \in Nat
  BY MostBound DEF Most
<1>9. ReaderInv'
  BY <1>1, <1>2, <1>4, <1>8 DEF ReaderInv
<1>10. RxAccounting'
  BY <1>1, <1>4 DEF IInv, RxAccounting, Most
<1>11. RxPostedInRingOrder' /\ Linked(rxFifo)'
  BY <1>1, <1>4 DEF IInv, RxPostedInRingOrder, Linked
<1>12. QED
  BY <1>6, <1>7, <1>9, <1>10, <1>11 DEF IInv

\* Waking up changes nothing the link relies on.
LEMMA ReadResumeInv == ASSUME IInv, ReadResume PROVE IInv'
<1>1. /\ tpc = "suspend" /\ tpc' = "reclaim" /\ notified' = FALSE
      /\ UNCHANGED <<hostVars, rxq, slots, rxFifo, rxTotal, tupd, ti, rbuf, histVars>>
  BY DEF ReadResume
<1>2. TypeOK'
  BY <1>1 DEF IInv, TypeOK, hostVars, histVars
<1>3. WriterInv' /\ LossInv'
  <2>1. Len(rxq) \in Nat
    BY DEF IInv, TypeOK
  <2>2. QED
    BY <1>1, <2>1, HostQuiet DEF histVars
<1>4. ReaderInv' /\ RxAccounting' /\ RxPostedInRingOrder' /\ Linked(rxFifo)'
  BY <1>1 DEF IInv, ReaderInv, RxAccounting, RxPostedInRingOrder, Linked, Out, Most
<1>5. QED
  BY <1>2, <1>3, <1>4 DEF IInv

\* A restart empties ring and queue; what the host still believes in is one ring of slots
\* at most, which is what the restart may cost.
LEMMA TargetResetInv == ASSUME IInv, TargetReset PROVE IInv'
<1>1. /\ resets' = resets + 1 /\ rxq' = <<>> /\ slots' = [a \in Addrs |-> 0]
      /\ rxFifo' = NewFifo(SlotNum) /\ rxTotal' = 0 /\ tpc' = "suspend"
      /\ tupd' = 0 /\ ti' = 0 /\ rbuf' = <<>> /\ notified' = FALSE
      /\ UNCHANGED <<hostVars, stored, lost, delivered, fails>>
  BY DEF TargetReset
<1>2. /\ resets \in Nat /\ lost \in Nat /\ cached \in Nat /\ put \in Nat /\ want \in Nat
      /\ SlotNum \in Nat \ {0}
  BY SlotAssumption DEF IInv, TypeOK
<1>3. TypeOK'
  <2>1. rxFifo' \in FifoType(SlotNum)
    BY <1>1 DEF NewFifo, FifoType
  <2>2. slots' \in [Addrs -> Nat]
    BY <1>1
  <2>3. rxq' \in Seq(Addrs) /\ rbuf' \in Seq(Nat)
    BY <1>1, EmptySeq
  <2>4. resets' \in Nat
    BY <1>1, <1>2
  <2>5. /\ rxTotal' \in Nat /\ tpc' \in {"suspend", "reclaim", "read", "post"}
        /\ tupd' \in Nat /\ ti' \in Nat /\ notified' \in BOOLEAN
    BY <1>1
  <2>6. QED
    BY <1>1, <2>1, <2>2, <2>3, <2>4, <2>5 DEF IInv, TypeOK, hostVars
<1>4. WriterInv'
  BY <1>1 DEF IInv, WriterInv, hostVars
<1>5. LossInv'
  <2>1. Allowed' = Allowed + SlotNum /\ Allowed \in Nat
    <3>1. Allowed \in Nat
      BY <1>2, AllowedNat
    <3>2. (resets + 1) * SlotNum = resets * SlotNum + SlotNum
      BY <1>2, SMT
    <3>3. QED
      BY <1>1, <3>1, <3>2 DEF Allowed
  <2>2. Due' = Due /\ Due \in Int /\ Due <= SlotNum
    BY <1>1, <1>2 DEF IInv, WriterInv, Due, hostVars
  <2>3. lost' = lost /\ lost <= Allowed /\ Len(rxq') = 0
    BY <1>1 DEF IInv, LossInv
  <2>4. lost <= Allowed' /\ (lost + Due) - 0 <= Allowed'
    BY <1>2, <2>1, <2>2, <2>3
  <2>5. QED
    BY <2>2, <2>3, <2>4 DEF LossInv
<1>6. ReaderInv' /\ RxAccounting'
  <2>1. Out' = 0 /\ rxFifo'.cnt = 0 /\ Len(rxq') = 0
    BY <1>1 DEF Out, NewFifo
  <2>2. Most' \in Nat /\ SlotCntMax \in Nat
    BY MostBound, SlotAssumption DEF Most
  <2>3. QED
    BY <1>1, <1>2, <2>1, <2>2 DEF ReaderInv, RxAccounting
<1>7. RxPostedInRingOrder' /\ Linked(rxFifo)'
  <2>1. 0 % IdxMod = 0 /\ 0 + 0 = 0
    BY IdxModAssumption
  <2>2. QED
    BY <1>1, <2>1 DEF RxPostedInRingOrder, Linked, NewFifo
<1>8. QED
  BY <1>3, <1>4, <1>5, <1>6, <1>7 DEF IInv

-----------------------------------------------------------------------------
(* The theorems.                                                            *)

\* A step that changes nothing keeps the inductive invariant.
LEMMA StutterIInv == ASSUME IInv, UNCHANGED vars PROVE IInv'
<1> USE DEF IInv, vars, hostVars, targetVars, histVars
<1>1. TypeOK'
  BY DEF TypeOK
<1>2. WriterInv' /\ LossInv'
  BY DEF WriterInv, LossInv, Due, Allowed
<1>3. ReaderInv' /\ Linked(rxFifo)' /\ RxAccounting' /\ RxPostedInRingOrder'
  BY TargetQuiet
<1>4. QED
  BY <1>1, <1>2, <1>3

\* Every step of host, target and hardware keeps the inductive invariant.
LEMMA NextIInv == IInv /\ [Next]_vars => IInv'
<1> SUFFICES ASSUME IInv, [Next]_vars PROVE IInv'
  OBVIOUS
<1>1. CASE SendStart  BY <1>1, SendStartInv
<1>2. CASE SendStep
  BY <1>2, WriteCountInv, WriteSlotInv, WriteReturnInv DEF SendStep
<1>3. CASE WriteStatusFail  BY <1>3, WriteStatusFailInv
<1>4. CASE WriteSlotFail  BY <1>4, WriteSlotFailInv
<1>5. CASE RecvStatusUpdate  BY <1>5, RecvStatusUpdateInv
<1>6. CASE ReadStep
  BY <1>6, ReadReclaimInv, ReadSlotsInv, ReadPostInv, ReadReturnInv, ReadResumeInv
  DEF ReadStep
<1>7. CASE TargetReset  BY <1>7, TargetResetInv
<1>8. CASE UNCHANGED vars  BY <1>8, StutterIInv
<1>9. QED
  BY <1>1, <1>2, <1>3, <1>4, <1>5, <1>6, <1>7, <1>8 DEF Next

\* The inductive invariant holds in every state of the link.
LEMMA SpecIInv == Spec => []IInv
  BY InitIInv, NextIInv, PTL DEF Spec

\* Every variable keeps its type: rxq_update_cnt and the counters of hif_hspi.c never go
\* negative, nor does the host's cached count, and every posted address is in the ring.
THEOREM TypeCorrect == Spec => []TypeOK
<1>1. IInv => TypeOK
  BY DEF IInv
<1>2. QED
  BY <1>1, SpecIInv, PTL

\* The accounting of _hif_hspi_read (hif_hspi.c:515-560): the slots out never exceed the
\* free ones or the 6-bit counter, and a suspended task has every slot out that may be.
THEOREM AccountingCorrect == Spec => []RxAccounting
<1>1. IInv => RxAccounting
  BY DEF IInv
<1>2. QED
  BY <1>1, SpecIInv, PTL

\* The host writes the posted slots in the order the ring will read them.
THEOREM RingOrder == Spec => []RxPostedInRingOrder
<1>1. IInv => RxPostedInRingOrder
  BY DEF IInv
<1>2. QED
  BY <1>1, SpecIInv, PTL

\* What the target has yet to read is never posted again (hif_hspi.c:541-548): the slots
\* out lie behind the ring's content by less than one lap.
THEOREM UnreadIntact == Spec => []NoPostOverUnread
<1>1. IInv => NoPostOverUnread
  <2> SUFFICES ASSUME IInv, NEW i \in 1..Len(rxq), NEW j \in 0..(rxFifo.cnt - 1)
               PROVE  rxq[i] # PopAddr(rxFifo, j)
    BY DEF NoPostOverUnread
  <2> DEFINE d == (Out - Len(rxq)) + (i - 1)
  <2>1. /\ rxFifo \in FifoType(SlotNum) /\ rxFifo.cnt \in Nat /\ Out \in Nat
        /\ Len(rxq) \in Nat /\ Len(rxq) <= Out /\ Out + rxFifo.cnt <= SlotNum
        /\ Linked(rxFifo) /\ SlotNum \in Nat \ {0}
    BY SlotAssumption DEF IInv, TypeOK, FifoType, RxAccounting, Out
  <2>2. /\ d \in Int /\ rxFifo.cnt + d \in Int /\ j \in Int
        /\ j < rxFifo.cnt + d /\ (rxFifo.cnt + d) - j < SlotNum
    BY <2>1
  <2>3. rxq[i] = PushAddr(rxFifo, d)
    BY DEF IInv, RxPostedInRingOrder
  <2> HIDE DEF d
  <2>4. PushAddr(rxFifo, d) = PopAddr(rxFifo, rxFifo.cnt + d)
    BY <2>1, <2>2, PushIsPop, RingAssumption
  <2>5. PopAddr(rxFifo, j) # PopAddr(rxFifo, rxFifo.cnt + d)
    BY <2>1, <2>2, PopDistinct, RingAssumption
  <2>6. QED
    BY <2>3, <2>4, <2>5
<1>2. QED
  BY <1>1, SpecIInv, PTL

\* hspi_write (nrc-hspi.c:762-823) loses nothing until the target restarts, and a restart
\* costs at most one ring of slots.
THEOREM LossesBounded == Spec => []LossBounded
<1>1. IInv => LossBounded
  <2> SUFFICES ASSUME IInv PROVE LossBounded
    OBVIOUS
  <2>1. lost \in Nat /\ cached \in Nat /\ put \in Nat /\ Len(rxq) \in Nat /\ resets \in Nat
    BY DEF IInv, TypeOK
  <2>2. Allowed \in Nat /\ (resets = 0 => Allowed = 0)
    BY <2>1, AllowedNat
  <2>3. lost <= resets * SlotNum
    BY DEF IInv, LossInv, Allowed
  <2>4. ASSUME resets = 0
        PROVE  cached <= Len(rxq) + (IF mpc = "slots" THEN put ELSE 0)
    <3>1. Due <= Len(rxq)
      <4>1. Due \in Int
        BY <2>1 DEF Due
      <4>2. QED
        BY <2>1, <2>2, <2>4, <4>1 DEF IInv, LossInv
    <3>2. CASE mpc = "slots"
      BY <2>1, <3>1, <3>2 DEF Due
    <3>3. CASE mpc # "slots"
      BY <2>1, <3>1, <3>3 DEF Due
    <3>4. QED
      BY <3>2, <3>3
  <2>5. QED
    BY <2>3, <2>4 DEF LossBounded
<1>2. QED
  BY <1>1, SpecIInv, PTL

-----------------------------------------------------------------------------
(* The channel: what the rings and the queue hold, as one sequence.         *)

\* The chunk hspi_write_slot sends is the next one, or again one whose transfer arrived
\* although it was reported as failed.
CurInv ==
  /\ fails <= MaxFails
  /\ cur # 0
  /\ mpc # "idle" => cur = stored + 1 \/ (cur = stored /\ fails > 0)

\* Slots of the ring that hold a chunk: those to be read, then those written since.
HeldCount == rxFifo.cnt + (Out - Len(rxq))

Held == [i \in 1..HeldCount |-> slots[PopAddr(rxFifo, i - 1)]]

Inflight == rbuf \o UnreadChunks \o WrittenChunks

\* The first message starts with chunk 1.
LEMMA InitCurInv == Init => CurInv
BY SlotAssumption DEF Init, CurInv

\* hspi_write steps to the next chunk with each slot it reports, and repeats one only
\* after a failure (nrc-hspi.c:805-815).
LEMMA NextCurInv == IInv /\ CurInv /\ [Next]_vars => CurInv'
<1> SUFFICES ASSUME IInv, CurInv, [Next]_vars PROVE CurInv'
  OBVIOUS
<1>1. stored \in Nat /\ cur \in Nat /\ fails \in Nat /\ MaxFails \in Nat
  BY SlotAssumption DEF IInv, TypeOK
<1> USE DEF CurInv
<1>2. CASE SendStart
  BY <1>1, <1>2 DEF SendStart, histVars
<1>3. CASE WriteCount \/ WriteReturn
  BY <1>1, <1>3 DEF WriteCount, WriteReturn, histVars
<1>4. CASE WriteSlot
  BY <1>1, <1>4 DEF WriteSlot, LoseSlot, StoreSlot
<1>5. CASE WriteStatusFail
  BY <1>1, <1>5 DEF WriteStatusFail, BusFails
<1>6. CASE WriteSlotFail
  <2>1. mpc = "slots" /\ mpc' = "send" /\ cur' = cur
    BY <1>6 DEF WriteSlotFail
  <2>2. CASE UNCHANGED <<stored, fails>>
    BY <1>1, <2>1, <2>2
  <2>3. CASE UNCHANGED stored /\ BusFails
    BY <1>1, <2>1, <2>3 DEF BusFails
  <2>4. CASE stored' = cur /\ BusFails
    BY <1>1, <2>1, <2>4 DEF BusFails
  <2>5. QED
    BY <1>6, <2>2, <2>3, <2>4 DEF WriteSlotFail, StoreSlot
<1>7. CASE RecvStatusUpdate \/ ReadStep \/ TargetReset \/ UNCHANGED vars
  <2>1. mpc' = mpc /\ cur' = cur /\ stored' = stored /\ fails' = fails
    BY <1>7 DEF RecvStatusUpdate, ReadStep, ReadReclaim, ReadSlots, ReadPost, ReadReturn,
       ReadResume, TargetReset, vars, hostVars, histVars
  <2>2. QED
    BY <1>1, <2>1
<1>8. QED
  BY <1>2, <1>3, <1>4, <1>5, <1>6, <1>7 DEF Next, SendStep

\* What is in flight is the receive buffer and the slots held, in ring order.
InflightForm ==
  /\ HeldCount \in Nat /\ HeldCount <= SlotNum - Len(rxq)
  /\ Held \in Seq(Nat) /\ Len(Held) = HeldCount
  /\ rbuf \in Seq(Nat)
  /\ Inflight = rbuf \o Held /\ Inflight \in Seq(Nat)

\* That it is follows from the ring order of the posts and the link between the indices.
LEMMA InflightIs == IInv => InflightForm
<1> SUFFICES ASSUME IInv PROVE InflightForm
  OBVIOUS
<1>1. /\ rxFifo \in FifoType(SlotNum) /\ rxFifo.cnt \in Nat /\ Linked(rxFifo)
      /\ SlotNum \in Nat \ {0} /\ slots \in [Addrs -> Nat] /\ rbuf \in Seq(Nat)
      /\ Len(rxq) \in Nat /\ Out \in Nat
      /\ Out + rxFifo.cnt <= SlotNum /\ Len(rxq) <= Out
  BY SlotAssumption DEF IInv, TypeOK, FifoType, RxAccounting, Out
<1> DEFINE c == rxFifo.cnt
           w == Out - Len(rxq)
<1>2. c \in Nat /\ w \in Nat /\ HeldCount = c + w /\ c + w <= SlotNum - Len(rxq)
  BY <1>1 DEF HeldCount
<1>3. \A k \in Int : slots[PopAddr(rxFifo, k)] \in Nat /\ slots[PushAddr(rxFifo, k)] \in Nat
  BY <1>1, AddrInRing DEF Addrs
<1>4. \A i \in Int : i - 1 \in Int
  OBVIOUS
<1>5. Held \in Seq(Nat) /\ Len(Held) = c + w
  <2>1. Held \in [1..(c + w) -> Nat] /\ c + w \in Nat
    BY <1>2, <1>3, <1>4 DEF Held
  <2> HIDE DEF c, w
  <2>2. QED
    BY <2>1, FunIsSeq
<1>6. UnreadChunks \in Seq(Nat) /\ Len(UnreadChunks) = c
  <2>1. UnreadChunks \in [1..c -> Nat]
    BY <1>3, <1>4 DEF UnreadChunks
  <2> HIDE DEF c
  <2>2. QED
    BY <1>2, <2>1, FunIsSeq
<1>7. WrittenChunks \in Seq(Nat) /\ Len(WrittenChunks) = w
  <2>1. WrittenChunks \in [1..w -> Nat]
    BY <1>3, <1>4 DEF WrittenChunks
  <2> HIDE DEF w
  <2>2. QED
    BY <1>2, <2>1, FunIsSeq
<1>8. UnreadChunks \o WrittenChunks = Held
  <2>1. /\ UnreadChunks \o WrittenChunks \in Seq(Nat)
        /\ Len(UnreadChunks \o WrittenChunks) = c + w
        /\ \A i \in 1..(c + w) : (UnreadChunks \o WrittenChunks)[i] =
                     IF i <= c THEN UnreadChunks[i] ELSE WrittenChunks[i - c]
    <3> HIDE DEF c, w
    <3>1. QED
      BY <1>6, <1>7, ConcatProperties
  <2>2. ASSUME NEW i \in 1..(c + w)
        PROVE  (UnreadChunks \o WrittenChunks)[i] = Held[i]
    <3>1. Held[i] = slots[PopAddr(rxFifo, i - 1)]
      BY <1>2 DEF Held
    <3>2. CASE i <= c
      <4>1. i \in 1..c
        BY <1>2, <3>2
      <4>2. UnreadChunks[i] = slots[PopAddr(rxFifo, i - 1)]
        BY <4>1 DEF UnreadChunks
      <4>3. QED
        BY <2>1, <3>1, <3>2, <4>2
    <3>3. CASE ~(i <= c)
      <4>1. i - c \in 1..w /\ (i - c) - 1 \in Int /\ c + ((i - c) - 1) = i - 1
        BY <1>2, <3>3
      <4>2. WrittenChunks[i - c] = slots[PushAddr(rxFifo, (i - c) - 1)]
        BY <4>1 DEF WrittenChunks
      <4>3. PushAddr(rxFifo, (i - c) - 1) = PopAddr(rxFifo, c + ((i - c) - 1))
        BY <1>1, <4>1, PushIsPop, RingAssumption
      <4>4. QED
        BY <2>1, <3>1, <3>3, <4>1, <4>2, <4>3
    <3>4. QED
      BY <3>2, <3>3
  <2> HIDE DEF c, w
  <2>3. QED
    BY <1>5, <2>1, <2>2, SeqEqual
<1>9. Inflight = rbuf \o Held /\ Inflight \in Seq(Nat)
  <2>1. Inflight = rbuf \o (UnreadChunks \o WrittenChunks)
    <3>1. (rbuf \o UnreadChunks) \o WrittenChunks = rbuf \o (UnreadChunks \o WrittenChunks)
      <4>1. \A r, s, t \in Seq(Nat) : (r \o s) \o t = r \o (s \o t)
        BY SMT
      <4>2. rbuf \in Seq(Nat) /\ UnreadChunks \in Seq(Nat) /\ WrittenChunks \in Seq(Nat)
        BY <1>1, <1>6, <1>7
      <4>3. QED
        BY <4>1, <4>2, Zenon
    <3>2. QED
      BY <3>1, Zenon DEF Inflight
  <2>2. QED
    BY <1>1, <1>5, <1>8, <2>1, ConcatProperties
<1>10. QED
  BY <1>1, <1>2, <1>5, <1>9 DEF InflightForm

\* The same after a step.
LEMMA InflightNext == IInv' => InflightForm'
  BY InflightIs, PTL

\* A slot written adds its chunk behind all that is in flight: its address is the first
\* one behind the slots held, less than a lap away from each of them.
LEMMA StoreAppends ==
  ASSUME IInv, IInv', StoreSlot, rxq # <<>>, cur \in Nat, UNCHANGED targetVars
  PROVE  Inflight' = Append(Inflight, cur)
<1>1. /\ rxFifo \in FifoType(SlotNum) /\ rxFifo.cnt \in Nat /\ Linked(rxFifo)
      /\ SlotNum \in Nat \ {0} /\ slots \in [Addrs -> Nat]
      /\ rxq \in Seq(Addrs) /\ Len(rxq) \in Nat /\ Len(rxq) >= 1 /\ Out \in Nat
      /\ Len(rxq) <= Out
  <2>1. rxq \in Seq(Addrs) /\ rxq # <<>>
    BY DEF IInv, TypeOK
  <2>2. Len(rxq) \in Nat /\ Len(rxq) >= 1
    BY <2>1
  <2>3. /\ rxFifo \in FifoType(SlotNum) /\ rxFifo.cnt \in Nat /\ Linked(rxFifo)
        /\ SlotNum \in Nat \ {0} /\ slots \in [Addrs -> Nat]
    BY SlotAssumption DEF IInv, TypeOK, FifoType
  <2>4. Out \in Nat /\ Len(rxq) <= Out
    BY DEF IInv, TypeOK, RxAccounting, Out
  <2>5. QED
    BY <2>1, <2>2, <2>3, <2>4
<1>2. /\ HeldCount \in Nat /\ HeldCount <= SlotNum - Len(rxq)
      /\ Held \in Seq(Nat) /\ Len(Held) = HeldCount /\ rbuf \in Seq(Nat)
      /\ Inflight = rbuf \o Held
  BY InflightIs DEF InflightForm
<1>3. /\ Held' \in Seq(Nat) /\ Len(Held') = HeldCount' /\ Inflight' = rbuf' \o Held'
  BY InflightNext DEF InflightForm
<1> DEFINE c == HeldCount
           a == PopAddr(rxFifo, c)
<1>4. Head(rxq) = a /\ a \in Addrs
  <2>1. Head(rxq) = rxq[1] /\ 1 \in 1..Len(rxq)
    BY <1>1
  <2>2. rxq[1] = PushAddr(rxFifo, Out - Len(rxq) + 1 - 1)
    BY <2>1 DEF IInv, RxPostedInRingOrder
  <2>3. /\ Out - Len(rxq) + 1 - 1 = Out - Len(rxq) /\ Out - Len(rxq) \in Int
        /\ rxFifo.cnt + (Out - Len(rxq)) = c
    BY <1>1 DEF HeldCount
  <2>4. PushAddr(rxFifo, Out - Len(rxq)) = PopAddr(rxFifo, rxFifo.cnt + (Out - Len(rxq)))
    BY <1>1, <2>3, PushIsPop, RingAssumption
  <2>5. c \in Int
    BY <1>2
  <2> HIDE DEF c
  <2>6. a \in Addrs
    BY <1>1, <2>5, AddrInRing DEF Addrs
  <2>7. QED
    BY <2>1, <2>2, <2>3, <2>4, <2>6
<1>5. slots' = [slots EXCEPT ![a] = cur] /\ rxFifo' = rxFifo /\ rbuf' = rbuf
  BY <1>4 DEF StoreSlot, targetVars
<1>6. HeldCount' = c + 1
  <2>1. rxq' = Tail(rxq) /\ Len(rxq') = Len(rxq) - 1
    BY <1>1 DEF StoreSlot
  <2>2. Out' = Out
    BY DEF Out, targetVars
  <2>3. HeldCount' = rxFifo.cnt + (Out - (Len(rxq) - 1))
    BY <1>5, <2>1, <2>2 DEF HeldCount
  <2>4. c = rxFifo.cnt + Out - Len(rxq)
    BY DEF HeldCount
  <2>5. \A x, y, z \in Int : x + (y - (z - 1)) = (x + y - z) + 1
    OBVIOUS
  <2>6. rxFifo.cnt \in Int /\ Out \in Int /\ Len(rxq) \in Int
    BY <1>1
  <2>7. QED
    BY <2>3, <2>4, <2>5, <2>6
<1>7. /\ Append(Held, cur) \in Seq(Nat) /\ Len(Append(Held, cur)) = c + 1
      /\ \A i \in 1..c : Append(Held, cur)[i] = Held[i]
      /\ Append(Held, cur)[c + 1] = cur
  BY <1>2, AppendProperties
<1>8. ASSUME NEW i \in 1..(c + 1) PROVE Held'[i] = Append(Held, cur)[i]
  <2>1. Held'[i] = slots'[PopAddr(rxFifo, i - 1)]
    BY <1>5, <1>6 DEF Held
  <2>2. CASE i = c + 1
    <3>1. i - 1 = c
      BY <1>2, <2>2
    <3>2. slots'[a] = cur
      BY <1>1, <1>4, <1>5
    <3>3. QED
      BY <1>7, <2>1, <2>2, <3>1, <3>2
  <2>3. CASE i \in 1..c
    <3>1. i - 1 \in Int /\ c \in Int /\ i - 1 < c /\ c - (i - 1) < SlotNum
      BY <1>1, <1>2, <2>3
    <3>2. PopAddr(rxFifo, i - 1) # a
      BY <1>1, <3>1, PopDistinct, RingAssumption
    <3>3. PopAddr(rxFifo, i - 1) \in Addrs
      BY <1>1, <3>1, AddrInRing DEF Addrs
    <3>4. slots'[PopAddr(rxFifo, i - 1)] = slots[PopAddr(rxFifo, i - 1)]
      BY <1>1, <1>5, <3>2, <3>3
    <3>5. Held[i] = slots[PopAddr(rxFifo, i - 1)]
      BY <2>3 DEF Held
    <3>6. QED
      BY <1>7, <2>1, <2>3, <3>4, <3>5
  <2>4. QED
    BY <1>2, <2>2, <2>3
<1>9. Held' = Append(Held, cur)
  BY <1>3, <1>6, <1>7, <1>8, SeqEqual
<1>10. rbuf \o Append(Held, cur) = Append(rbuf \o Held, cur)
  BY <1>2, AppendConcat
<1>11. QED
  BY <1>2, <1>3, <1>5, <1>9, <1>10

\* A step that moves no chunk keeps what is in flight.
LEMMA SameInflight ==
  ASSUME IInv, IInv', UNCHANGED <<slots, rbuf>>, HeldCount' = HeldCount,
         \A k \in Int : PopAddr(rxFifo', k) = PopAddr(rxFifo, k)
  PROVE  Inflight' = Inflight
<1>1. HeldCount \in Nat /\ Inflight = rbuf \o Held /\ Inflight' = rbuf' \o Held'
  BY InflightIs, InflightNext DEF InflightForm
<1>2. Held' = [i \in 1..HeldCount |-> slots[PopAddr(rxFifo', i - 1)]]
  BY DEF Held
<1>3. \A i \in 1..HeldCount : i - 1 \in Int
  BY <1>1
<1>4. Held' = Held
  BY <1>2, <1>3 DEF Held
<1>5. QED
  BY <1>1, <1>4

\* The reclaim renames written slots into ring content without moving a chunk.
LEMMA ReclaimInflight == ASSUME IInv, IInv', ReadReclaim PROVE Inflight' = Inflight
<1>1. /\ tpc = "reclaim"
      /\ UNCHANGED <<rxq, slots, ti, rbuf>>
  BY DEF ReadReclaim
<1>2. /\ rxTotal \in Nat /\ ti = 0 /\ Len(rxq) \in Nat /\ Len(rxq) <= rxTotal + ti
      /\ rxFifo \in FifoType(SlotNum) /\ rxFifo.cnt \in Nat /\ rxFifo.size = SlotNum
      /\ (rxTotal + ti) + rxFifo.cnt <= SlotNum /\ SlotNum \in Nat \ {0}
  <2>1. /\ rxTotal \in Nat /\ Len(rxq) \in Nat /\ SlotNum \in Nat \ {0}
        /\ rxFifo \in FifoType(SlotNum) /\ rxFifo.cnt \in Nat /\ rxFifo.size = SlotNum
    BY SlotAssumption DEF IInv, TypeOK, FifoType
  <2>2. ti = 0
    BY <1>1 DEF IInv, ReaderInv
  <2>3. Len(rxq) <= rxTotal + ti /\ (rxTotal + ti) + rxFifo.cnt <= SlotNum
    BY DEF IInv, RxAccounting, Out
  <2>4. QED
    BY <2>1, <2>2, <2>3
<1> DEFINE n == rxTotal - Len(rxq)
<1>3. n \in Nat /\ n <= FreeSize(rxFifo)
  BY <1>2 DEF FreeSize
<1>4. rxTotal' = rxTotal - n /\ rxFifo' = FifoWrite(rxFifo, n)
  BY <1>3 DEF ReadReclaim, RxDone
<1>5. n = rxTotal - Len(rxq)
  OBVIOUS
<1> HIDE DEF n
<1>6. /\ rxFifo'.cnt = rxFifo.cnt + n
      /\ \A k \in Int : PopAddr(rxFifo', k) = PopAddr(rxFifo, k)
  <2>1. SlotNum \in Nat \ {0} /\ rxFifo \in FifoType(SlotNum)
    BY <1>2
  <2>2. /\ FifoWrite(rxFifo, n).cnt = rxFifo.cnt + n
        /\ \A k \in Int : PopAddr(FifoWrite(rxFifo, n), k) = PopAddr(rxFifo, k)
    BY <1>3, <2>1, FifoWriteShift
  <2>3. QED
    BY <1>4, <2>2
<1>7. HeldCount' = HeldCount
  <2>1. HeldCount' = rxFifo'.cnt + ((rxTotal' + ti) - Len(rxq))
    BY <1>1 DEF HeldCount, Out
  <2>2. HeldCount = rxFifo.cnt + ((rxTotal + ti) - Len(rxq))
    BY DEF HeldCount, Out
  <2>3. (rxFifo.cnt + n) + (((rxTotal - n) + ti) - Len(rxq))
          = rxFifo.cnt + ((rxTotal + ti) - Len(rxq))
    BY <1>2, <1>3
  <2>4. QED
    BY <1>4, <1>6, <2>1, <2>2, <2>3
<1>8. QED
  BY <1>1, <1>6, <1>7, SameInflight

\* Reading moves the oldest chunks of the ring into the receive buffer.
LEMMA ReadInflight == ASSUME IInv, IInv', ReadSlots PROVE Inflight' = Inflight
<1>1. PICK n \in Smaller(FillSize(rxFifo), RxBufSlots)..FillSize(rxFifo) :
        /\ rbuf' = [i \in 1..n |-> slots[PopAddr(rxFifo, i - 1)]]
        /\ rxFifo' = FifoRead(rxFifo, n)
  BY DEF ReadSlots
<1>2. tpc = "read" /\ ti' = 0 /\ UNCHANGED <<rxq, slots, rxTotal>>
  BY DEF ReadSlots
<1>3. /\ rxTotal \in Nat /\ ti = 0 /\ rbuf = <<>> /\ Len(rxq) \in Nat
      /\ rxFifo \in FifoType(SlotNum) /\ rxFifo.cnt \in Nat /\ Len(rxq) <= Out
      /\ SlotNum \in Nat \ {0}
  <2>1. /\ rxTotal \in Nat /\ Len(rxq) \in Nat /\ SlotNum \in Nat \ {0}
        /\ rxFifo \in FifoType(SlotNum) /\ rxFifo.cnt \in Nat
    BY SlotAssumption DEF IInv, TypeOK, FifoType
  <2>2. ti = 0 /\ rbuf = <<>>
    BY <1>2 DEF IInv, ReaderInv
  <2>3. Len(rxq) <= Out
    BY DEF IInv, RxAccounting
  <2>4. QED
    BY <2>1, <2>2, <2>3
<1>4. n \in Nat /\ n <= rxFifo.cnt
  BY <1>3, SlotAssumption DEF Smaller, FillSize
<1>5. /\ rxFifo'.cnt = rxFifo.cnt - n
      /\ \A k \in Int : PopAddr(rxFifo', k) = PopAddr(rxFifo, k + n)
  BY <1>1, <1>3, <1>4, FifoReadShift
<1>6. /\ HeldCount \in Nat /\ Held \in Seq(Nat) /\ Len(Held) = HeldCount
      /\ Inflight = rbuf \o Held
  BY InflightIs DEF InflightForm
<1>7. /\ HeldCount' \in Nat /\ Held' \in Seq(Nat) /\ Len(Held') = HeldCount'
      /\ rbuf' \in Seq(Nat) /\ Inflight' = rbuf' \o Held'
  BY InflightNext DEF InflightForm
<1>8. HeldCount = n + HeldCount'
  <2>1. HeldCount' = rxFifo'.cnt + (rxTotal - Len(rxq))
    <3>1. Out' = rxTotal + 0
      BY <1>2 DEF Out
    <3>2. Out' = rxTotal
      BY <1>3, <3>1
    <3>3. QED
      BY <1>2, <3>2 DEF HeldCount
  <2>2. HeldCount = rxFifo.cnt + (rxTotal - Len(rxq))
    BY <1>3 DEF HeldCount, Out
  <2>3. rxFifo.cnt + (rxTotal - Len(rxq))
          = n + ((rxFifo.cnt - n) + (rxTotal - Len(rxq)))
    BY <1>3, <1>4
  <2>4. QED
    BY <1>5, <2>1, <2>2, <2>3
<1>9. Len(rbuf') = n
  <2>1. rbuf' \in [1..n -> Nat]
    BY <1>1, <1>7
  <2>2. QED
    BY <1>4, <2>1, FunIsSeq
<1>10. /\ rbuf' \o Held' \in Seq(Nat) /\ Len(rbuf' \o Held') = n + HeldCount'
       /\ \A i \in 1..(n + HeldCount') :
            (rbuf' \o Held')[i] = IF i <= n THEN rbuf'[i] ELSE Held'[i - n]
  BY <1>7, <1>9, ConcatProperties
<1>11. ASSUME NEW i \in 1..HeldCount PROVE Held[i] = (rbuf' \o Held')[i]
  <2>1. Held[i] = slots[PopAddr(rxFifo, i - 1)]
    BY DEF Held
  <2>2. CASE i <= n
    <3>1. i \in 1..n
      BY <1>4, <1>6, <2>2
    <3>2. rbuf'[i] = slots[PopAddr(rxFifo, i - 1)]
      BY <1>1, <3>1
    <3>3. QED
      BY <1>8, <1>10, <2>1, <2>2, <3>2
  <2>3. CASE ~(i <= n)
    <3>1. i - n \in 1..HeldCount' /\ (i - n) - 1 \in Int /\ ((i - n) - 1) + n = i - 1
      <4>1. \A h \in Nat : HeldCount = n + h => i - n \in 1..h
        BY <1>4, <1>6, <2>3
      <4>2. (i - n) - 1 \in Int /\ ((i - n) - 1) + n = i - 1
        BY <1>4, <1>6
      <4>3. QED
        BY <1>7, <1>8, <4>1, <4>2
    <3>2. Held'[i - n] = slots[PopAddr(rxFifo', (i - n) - 1)]
      BY <1>2, <3>1 DEF Held
    <3>3. PopAddr(rxFifo', (i - n) - 1) = PopAddr(rxFifo, ((i - n) - 1) + n)
      BY <1>5, <3>1
    <3>4. QED
      BY <1>8, <1>10, <2>1, <2>3, <3>1, <3>2, <3>3
  <2>4. QED
    BY <2>2, <2>3
<1>12. Held = rbuf' \o Held'
  BY <1>6, <1>8, <1>10, <1>11, SeqEqual
<1>13. rbuf \o Held = Held
  BY <1>3, <1>6, ConcatEmptySeq
<1>14. QED
  BY <1>6, <1>7, <1>12, <1>13

\* A post hands an empty slot out.
LEMMA PostInflight == ASSUME IInv, IInv', ReadPost PROVE Inflight' = Inflight
<1>1. /\ rxq' = Append(rxq, PushAddr(rxFifo, rxTotal + ti)) /\ ti' = ti + 1
      /\ UNCHANGED <<slots, rxFifo, rxTotal, rbuf>>
  BY DEF ReadPost
<1>2. /\ rxTotal \in Nat /\ ti \in Nat /\ rxq \in Seq(Addrs) /\ Len(rxq) \in Nat
      /\ rxFifo.cnt \in Nat
  BY DEF IInv, TypeOK, FifoType
<1>3. Len(rxq') = Len(rxq) + 1
  BY <1>1, <1>2
<1>4. HeldCount' = HeldCount
  <2>1. HeldCount' = rxFifo.cnt + ((rxTotal + (ti + 1)) - (Len(rxq) + 1))
    BY <1>1, <1>3 DEF HeldCount, Out
  <2>2. HeldCount = rxFifo.cnt + ((rxTotal + ti) - Len(rxq))
    BY DEF HeldCount, Out
  <2>3. QED
    BY <1>2, <2>1, <2>2
<1>5. QED
  BY <1>1, <1>4, SameInflight

\* atcmd_receive is given the receive buffer, which holds the oldest chunks in flight.
LEMMA ReturnDelivers ==
  ASSUME IInv, IInv', ReadReturn
  PROVE  /\ Inflight = rbuf \o Inflight' /\ delivered' = delivered \o rbuf
         /\ rbuf \in Seq(Nat) /\ Inflight' \in Seq(Nat)
<1>1. /\ tpc = "post" /\ ti >= tupd /\ rxTotal' = rxTotal + tupd /\ ti' = 0
      /\ delivered' = delivered \o rbuf /\ rbuf' = <<>>
      /\ UNCHANGED <<rxq, slots, rxFifo>>
  BY DEF ReadReturn
<1>2. rxTotal \in Nat /\ ti \in Nat /\ tupd \in Nat /\ ti <= tupd
  BY <1>1 DEF IInv, TypeOK, ReaderInv
<1>3. Out' = Out
  <2>1. Out' = (rxTotal + tupd) + 0
    BY <1>1 DEF Out
  <2>2. tupd = ti
    BY <1>1, <1>2
  <2>3. QED
    BY <1>2, <2>1, <2>2 DEF Out
<1>4. Held' = Held
  BY <1>1, <1>3 DEF Held, HeldCount
<1>5. Inflight = rbuf \o Held /\ rbuf \in Seq(Nat) /\ Held \in Seq(Nat)
  BY InflightIs DEF InflightForm
<1>6. Inflight' = <<>> \o Held
  BY <1>1, <1>4, InflightNext DEF InflightForm
<1>7. <<>> \o Held = Held
  BY <1>5, ConcatEmptySeq
<1>8. QED
  BY <1>1, <1>5, <1>6, <1>7

\* A restart forgets all that is in flight.
LEMMA ResetInflight == ASSUME IInv', TargetReset PROVE Inflight' = <<>>
<1>1. /\ rxq' = <<>> /\ rxFifo' = NewFifo(SlotNum) /\ rxTotal' = 0 /\ ti' = 0
      /\ rbuf' = <<>>
  BY DEF TargetReset
<1>2. /\ Held' \in Seq(Nat) /\ Len(Held') = HeldCount' /\ Inflight' = rbuf' \o Held'
  BY InflightNext DEF InflightForm
<1>3. HeldCount' = 0
  BY <1>1 DEF HeldCount, Out, NewFifo
<1>4. Held' = <<>>
  BY <1>2, <1>3, EmptySeq
<1>5. <<>> \o <<>> = <<>>
  BY EmptySeq, ConcatEmptySeq
<1>6. QED
  BY <1>1, <1>2, <1>4, <1>5

-----------------------------------------------------------------------------
(* The refinement: each step is one of the channel's, or none.              *)

\* Nothing is in flight at first.
LEMMA InitChannel == Init => Channel!ChanInit
<1> SUFFICES ASSUME Init PROVE Channel!ChanInit
  OBVIOUS
<1>1. IInv
  BY InitIInv
<1>2. Held \in Seq(Nat) /\ Len(Held) = HeldCount /\ Inflight = rbuf \o Held
  BY <1>1, InflightIs DEF InflightForm
<1>3. HeldCount = 0
  BY DEF Init, HeldCount, Out, NewFifo
<1>4. Held = <<>> /\ rbuf = <<>>
  BY <1>2, <1>3, EmptySeq DEF Init
<1>5. <<>> \o <<>> = <<>>
  BY EmptySeq, ConcatEmptySeq
<1>6. Inflight = <<>>
  BY <1>2, <1>4, <1>5
<1>7. QED
  BY <1>6 DEF Channel!ChanInit, Inflight, Init

\* A slot that reaches the ring is the next chunk, or the last one again after a failed
\* transfer.
LEMMA StoreIsChannelStep ==
  ASSUME IInv, IInv', CurInv, mpc = "slots", StoreSlot, rxq # <<>>,
         UNCHANGED targetVars, UNCHANGED <<delivered, resets>>
  PROVE  Channel!ChanNext
<1>1. stored \in Nat /\ cur \in Nat /\ cur # 0 /\ fails \in Nat /\ MaxFails \in Nat
      /\ fails <= MaxFails
  BY SlotAssumption DEF IInv, TypeOK, CurInv
<1>2. stored' = cur /\ Inflight' = Append(Inflight, cur)
  BY <1>1, StoreAppends DEF StoreSlot
<1>3. CASE cur = stored + 1
  <2>1. Channel!WriteChunk
    BY <1>2, <1>3 DEF Channel!WriteChunk, Inflight
  <2>2. QED
    BY <2>1 DEF Channel!ChanNext
<1>4. CASE cur = stored /\ fails > 0
  <2>1. MaxFails > 0 /\ stored > 0 /\ stored' = stored
    BY <1>1, <1>2, <1>4
  <2>2. Channel!RepeatChunk
    BY <1>2, <1>4, <2>1 DEF Channel!RepeatChunk, Inflight
  <2>3. QED
    BY <2>2 DEF Channel!ChanNext
<1>5. QED
  BY <1>3, <1>4 DEF CurInv

\* Each slot of hspi_write: stored, or lost after a restart.
LEMMA WriteSlotStep ==
  ASSUME IInv, IInv', CurInv, WriteSlot
  PROVE  Channel!ChanNext \/ UNCHANGED Channel!chanVars
<1>1. /\ mpc = "slots" /\ put < want
      /\ UNCHANGED <<targetVars, delivered, resets>>
  BY DEF WriteSlot
<1>2. CASE rxq # <<>>
  BY <1>1, <1>2, StoreIsChannelStep DEF WriteSlot
<1>3. CASE rxq = <<>>
  <2>1. stored' = cur /\ UNCHANGED <<slots, rxq>>
    BY <1>3 DEF WriteSlot, LoseSlot
  <2>2. Inflight' = Inflight
    <3>1. HeldCount' = HeldCount
      BY <1>1, <2>1 DEF HeldCount, Out, targetVars
    <3>2. QED
      BY <1>1, <2>1, <3>1, SameInflight DEF targetVars
  <2>3. resets > 0
    <3>1. /\ resets \in Nat /\ lost \in Nat /\ cached \in Nat /\ put \in Nat /\ want \in Nat
          /\ want <= cached
      BY <1>1 DEF IInv, TypeOK, WriterInv
    <3>2. Len(rxq) = 0 /\ Due = cached - put /\ Due \in Int /\ Due > 0
      BY <1>1, <1>3, <3>1 DEF Due
    <3>3. Allowed \in Nat /\ (resets = 0 => Allowed = 0)
      BY <3>1, AllowedNat
    <3>4. (lost + Due) - Len(rxq) <= Allowed
      BY DEF IInv, LossInv
    <3>5. QED
      BY <3>1, <3>2, <3>3, <3>4
  <2>4. CASE cur = stored + 1
    <3>1. Channel!LoseWritten
      BY <1>1, <2>1, <2>2, <2>3, <2>4 DEF Channel!LoseWritten, Inflight
    <3>2. QED
      BY <3>1 DEF Channel!ChanNext
  <2>5. CASE cur = stored
    BY <1>1, <2>1, <2>2, <2>5 DEF Channel!chanVars, Inflight
  <2>6. QED
    BY <1>1, <2>4, <2>5 DEF CurInv
<1>4. QED
  BY <1>2, <1>3

\* A transfer that fails moves no chunk, or one that arrived all the same.
LEMMA WriteSlotFailStep ==
  ASSUME IInv, IInv', CurInv, WriteSlotFail
  PROVE  Channel!ChanNext \/ UNCHANGED Channel!chanVars
<1>1. mpc = "slots" /\ UNCHANGED <<targetVars, delivered, resets>>
  BY DEF WriteSlotFail
<1>2. CASE UNCHANGED <<slots, rxq, stored>>
  <2>1. HeldCount' = HeldCount
    BY <1>1, <1>2 DEF HeldCount, Out, targetVars
  <2>2. Inflight' = Inflight
    BY <1>1, <1>2, <2>1, SameInflight DEF targetVars
  <2>3. QED
    BY <1>1, <1>2, <2>2 DEF Channel!chanVars, Inflight
<1>3. CASE rxq # <<>> /\ StoreSlot
  BY <1>1, <1>3, StoreIsChannelStep
<1>4. QED
  BY <1>2, <1>3 DEF WriteSlotFail

\* The return of _hif_hspi_read delivers what it has read.
LEMMA ReadReturnStep ==
  ASSUME IInv, IInv', ReadReturn
  PROVE  Channel!ChanNext \/ UNCHANGED Channel!chanVars
<1>1. /\ Inflight = rbuf \o Inflight' /\ delivered' = delivered \o rbuf
      /\ rbuf \in Seq(Nat) /\ Inflight' \in Seq(Nat)
  BY ReturnDelivers
<1>2. stored' = stored /\ resets' = resets /\ delivered \in Seq(Nat)
  BY DEF ReadReturn, IInv, TypeOK
<1>3. CASE rbuf = <<>>
  <2>1. Inflight' = Inflight /\ delivered' = delivered
    BY <1>1, <1>2, <1>3, ConcatEmptySeq
  <2>2. QED
    BY <1>2, <2>1 DEF Channel!chanVars, Inflight
<1>4. CASE rbuf # <<>>
  <2> DEFINE k == Len(rbuf)
             rest == Inflight'
  <2>1. Len(Inflight) = k + Len(rest) /\ Len(rest) \in Nat /\ k \in Nat
    BY <1>1, ConcatProperties, LenProperties
  <2>2. k # 0
    BY <1>1, <1>4, EmptySeq
  <2>3. k \in 1..Len(Inflight)
    BY <2>1, <2>2
  <2>4. rbuf = SubSeq(Inflight, 1, k) /\ rest = SubSeq(Inflight, k + 1, Len(Inflight))
    BY <1>1, SplitConcat
  <2> HIDE DEF k
  <2>5. /\ delivered' = delivered \o SubSeq(Inflight, 1, k)
        /\ Inflight' = SubSeq(Inflight, k + 1, Len(Inflight))
    BY <1>1, <2>4
  <2>6. Channel!DeliverChunks
    BY <1>2, <2>3, <2>5 DEF Channel!DeliverChunks, Inflight
  <2>7. QED
    BY <2>6 DEF Channel!ChanNext
<1>5. QED
  BY <1>3, <1>4

\* A restart of the target is the channel's.
LEMMA TargetResetStep ==
  ASSUME IInv, IInv', TargetReset
  PROVE  Channel!ChanNext
<1>1. Inflight' = <<>> /\ Inflight \in Seq(Nat) /\ Len(Inflight) \in Nat
  BY ResetInflight, InflightIs, LenProperties DEF InflightForm
<1>2. resets' = resets + 1 /\ UNCHANGED <<stored, delivered>>
  BY DEF TargetReset
<1>3. /\ SubSeq(Inflight, 1, 0) = <<>>
      /\ SubSeq(Inflight, Len(Inflight) + 1, Len(Inflight)) = <<>>
  BY <1>1, SubSeqEmpty
<1>4. <<>> \o <<>> = <<>>
  BY EmptySeq, ConcatEmptySeq
<1>5. /\ 0 \in 0..Len(Inflight) /\ Len(Inflight) \in 0..Len(Inflight)
      /\ Inflight' = SubSeq(Inflight, 1, 0)
                       \o SubSeq(Inflight, Len(Inflight) + 1, Len(Inflight))
  BY <1>1, <1>3, <1>4
<1>6. Channel!Drop
  BY <1>5 DEF Channel!Drop, Inflight
<1>7. Channel!Restart
  BY <1>2, <1>6 DEF Channel!Restart
<1>8. QED
  BY <1>7 DEF Channel!ChanNext

\* Every step of the link is a step of the channel or leaves it alone.
LEMMA NextChannel ==
  IInv /\ IInv' /\ CurInv /\ [Next]_vars => [Channel!ChanNext]_(Channel!chanVars)
<1> SUFFICES ASSUME IInv, IInv', CurInv, [Next]_vars
             PROVE  Channel!ChanNext \/ UNCHANGED Channel!chanVars
  OBVIOUS
<1>1. CASE WriteSlot  BY <1>1, WriteSlotStep
<1>2. CASE WriteSlotFail  BY <1>2, WriteSlotFailStep
<1>3. CASE ReadReturn  BY <1>3, ReadReturnStep
<1>4. CASE TargetReset  BY <1>4, TargetResetStep
<1>5. CASE ReadReclaim \/ ReadSlots \/ ReadPost
  <2>1. Inflight' = Inflight
    BY <1>5, ReclaimInflight, ReadInflight, PostInflight
  <2>2. UNCHANGED <<stored, delivered, resets>>
    BY <1>5 DEF ReadReclaim, ReadSlots, ReadPost, histVars
  <2>3. QED
    BY <2>1, <2>2 DEF Channel!chanVars, Inflight
<1>6. CASE \/ SendStart \/ WriteCount \/ WriteReturn \/ WriteStatusFail
           \/ RecvStatusUpdate \/ ReadResume \/ UNCHANGED vars
  <2>1. UNCHANGED <<stored, delivered, resets, slots, rbuf, rxFifo, rxq, rxTotal, ti>>
    BY <1>6 DEF SendStart, WriteCount, WriteReturn, WriteStatusFail, RecvStatusUpdate,
       ReadResume, vars, hostVars, targetVars, histVars
  <2>2. HeldCount' = HeldCount
    BY <2>1 DEF HeldCount, Out
  <2>3. Inflight' = Inflight
    BY <2>1, <2>2, SameInflight
  <2>4. QED
    BY <2>1, <2>3 DEF Channel!chanVars, Inflight
<1>7. QED
  BY <1>1, <1>2, <1>3, <1>4, <1>5, <1>6 DEF Next, SendStep, ReadStep

\* The link from hspi_write to atcmd_receive keeps what ChunkChannel promises: chunks in
\* order, none skipped but by a restart, none repeated but after a failed transfer.
THEOREM LinkIsChannel == Spec => ImplementsChannel
<1>1. Spec => []CurInv
  BY InitCurInv, NextCurInv, SpecIInv, PTL DEF Spec
<1>2. QED
  BY <1>1, SpecIInv, InitChannel, NextChannel, PTL
  DEF Spec, ImplementsChannel, Channel!ChanSpec
=============================================================================
