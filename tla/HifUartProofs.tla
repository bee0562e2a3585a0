---------------------------- MODULE HifUartProofs ----------------------------
(***************************************************************************)
(* Proofs about receiving over the UART, for every ring, slot size, limit,  *)
(* slack and number of units and of AT+UART commands.                       *)
(*                                                                          *)
(* RingInv ties the three counts of what is stored and not read: fifo.cnt,  *)
(* slot_addr and the DMA's own position, each known round the ring's end    *)
(* only.  They agree as long as less than a ring is unread, which rests on  *)
(* RTS: RtsInv bounds what is unread by the room the limit keeps, a slot    *)
(* until the next interrupt, and the slack; and by one slot and slack more  *)
(* when the receive task has set RTS from sizes that were out of date.      *)
(***************************************************************************)
EXTENDS HifUart, HifFifoProofs

\* Units that have left the ring since the program started.
Gone == dropped + Len(delivered)

\* Units stored since the last interrupt, that one included while it is pending.
Since == IF irq THEN SlotSize ELSE (sent - base) % SlotSize

\* Units in the ring that slot_addr is past.
Counted == IF tpc = "slot" THEN fifo.cnt - tdone ELSE fifo.cnt

RingInv ==
  /\ fifo.cnt <= Unread
  /\ tpc \in {"rts", "write"} => fifo.cnt + tdone <= Unread
  /\ tpc = "slot" => tdone <= fifo.cnt
  /\ slot = (Gone - base + Counted) % Size
  /\ \A k \in Int : PopAddr(fifo, k) = (Gone - base + k) % Size

\* What is unread at most, with x to spare.
Bound(x) == Unread <= (Size - Limit) + x + (IF rts THEN Since ELSE SlotSize + late)

\* RTS is about to be set on, from sizes that may be out of date.
Stale == tpc = "rts" /\ tfree - tdone >= Limit

RtsInv ==
  /\ HeadroomKept
  /\ Running => Bound(SlotSize + Slack) /\ (Stale => Bound(0))

IInv == TypeOK /\ RingInv /\ RtsInv

-----------------------------------------------------------------------------
(* Numbers.                                                                 *)

\* What the ring, the limit and the slot size are.
LEMMA Sizes ==
  /\ Size \in Nat \ {0} /\ SlotSize \in Nat \ {0} /\ Limit \in Nat \ {0}
  /\ BufLen \in Nat \ {0} /\ Slack \in Nat
  /\ Size - Limit \in Nat
  /\ \A u \in Int : u <= Size - Limit + 2 * SlotSize + 2 * Slack => u < Size
<1>1. /\ Size \in Nat \ {0} /\ SlotSize \in Nat \ {0} /\ Limit \in Nat \ {0}
      /\ BufLen \in Nat \ {0} /\ Slack \in Nat /\ Size >= 2 * Limit
  BY UartAssumption
<1>2. Size - Limit \in Nat
  BY <1>1
<1>3. \A u \in Int : u <= Size - Limit + 2 * SlotSize + 2 * Slack => u < Size
  BY <1>1, HeadroomAssumption
<1>4. QED
  BY <1>1, <1>2, <1>3

\* The counters, and that less than a ring is unread.
LEMMA Numbers ==
  ASSUME IInv
  PROVE  /\ sent \in Nat /\ base \in Nat /\ dropped \in Nat /\ Len(delivered) \in Nat
         /\ Gone \in Nat /\ Gone = dropped + Len(delivered)
         /\ Unread \in Nat /\ Unread = sent - Gone /\ Unread < Size
         /\ fifo \in FifoType(Size) /\ fifo.cnt \in Nat /\ fifo.size = Size
         /\ fifo.cnt <= Unread
         /\ Counted \in Nat /\ Counted <= fifo.cnt
         /\ tdone \in Nat /\ tfree \in Nat /\ late \in Nat
<1>1. /\ sent \in Nat /\ base \in Nat /\ dropped \in Nat /\ delivered \in Seq(Nat)
      /\ fifo \in FifoType(Size) /\ tdone \in 0..Size /\ tfree \in 0..Size /\ late \in 0..Slack
  BY DEF IInv, TypeOK
<1>2. Len(delivered) \in Nat
  BY <1>1, LenProperties
<1>3. Gone \in Nat /\ Gone = dropped + Len(delivered)
  BY <1>1, <1>2 DEF Gone
<1>4. Unread \in Int /\ Unread = sent - Gone
  BY <1>1, <1>2 DEF Gone, Unread
<1>5. fifo.cnt \in Nat /\ fifo.size = Size
  BY <1>1 DEF FifoType
<1>6. fifo.cnt <= Unread
  BY DEF IInv, RingInv
<1>7. Unread < Size
  <2>1. Unread <= Size - Limit + 2 * SlotSize + 2 * Slack
    BY DEF IInv, RtsInv, HeadroomKept
  <2>2. QED
    BY <1>4, <2>1, Sizes
<1>8. tdone \in Nat /\ tfree \in Nat /\ late \in Nat
  BY <1>1, Sizes
<1>9. Counted \in Nat /\ Counted <= fifo.cnt
  BY <1>5, <1>8 DEF Counted, IInv, RingInv
<1>10. Unread \in Nat
  BY <1>4, <1>5, <1>6
<1>11. QED
  BY <1>1, <1>2, <1>3, <1>4, <1>5, <1>6, <1>7, <1>8, <1>9, <1>10

\* hif_uart.c:211-229: what the DMA is past slot_addr is what is unread and not yet counted.
LEMMA DoneIs == ASSUME IInv PROVE DoneSize = Unread - Counted /\ DoneSize \in Nat
<1> DEFINE a == sent - base
           b == Gone - base + Counted
<1>0. /\ sent \in Nat /\ base \in Nat /\ Gone \in Nat /\ Counted \in Nat
      /\ Unread \in Nat /\ Unread = sent - Gone /\ Unread < Size /\ Counted <= Unread
  BY Numbers
<1>1. a \in Int /\ b \in Int /\ a - b = Unread - Counted
  BY <1>0
<1>2. DoneSize = (a - (b % Size)) % Size
  BY DEF DoneSize, IInv, RingInv
<1> HIDE DEF a, b
<1>3. (a - (b % Size)) % Size = (a - b) % Size
  BY <1>1, Sizes, ModSub
<1>4. Unread - Counted \in 0..(Size - 1) /\ Unread - Counted \in Nat
  BY <1>0, Sizes
<1>5. (Unread - Counted) % Size = Unread - Counted
  BY <1>4, Sizes, ModSmall
<1>6. QED
  BY <1>1, <1>2, <1>3, <1>4, <1>5

\* The cells behind pop_idx hold the units that come next.
LEMMA StoredIs ==
  ASSUME IInv, NEW i \in 1..Unread
  PROVE  Stored(PopAddr(fifo, i - 1)) = Gone + i
<1> DEFINE a == sent - base - 1
           b == Gone - base + (i - 1)
<1>0. /\ sent \in Nat /\ base \in Nat /\ Gone \in Nat
      /\ Unread \in Nat /\ Unread = sent - Gone /\ Unread < Size
  BY Numbers
<1>1. /\ i \in Nat /\ i - 1 \in Int /\ a \in Int /\ b \in Int
      /\ a - b = Unread - i /\ Unread - i \in 0..(Size - 1)
      /\ sent - (Unread - i) = Gone + i
  BY <1>0, Sizes
<1>2. PopAddr(fifo, i - 1) = b % Size
  BY <1>1 DEF IInv, RingInv
<1>3. Stored(b % Size) = sent - ((a - (b % Size)) % Size)
  BY DEF Stored
<1> HIDE DEF a, b
<1>4. (a - (b % Size)) % Size = (a - b) % Size
  BY <1>1, Sizes, ModSub
<1>5. (Unread - i) % Size = Unread - i
  BY <1>1, Sizes, ModSmall
<1>6. Stored(PopAddr(fifo, i - 1)) = sent - (Unread - i)
  BY <1>1, <1>2, <1>3, <1>4, <1>5
<1>7. QED
  BY <1>1, <1>6

\* What _hif_fifo_read takes.
Batch == Smaller(FillSize(fifo), BufLen)

\* hif_fifo.c:229-266 as the receive task calls it: the next units, in their order.
LEMMA TakeIs ==
  ASSUME IInv, Take
  PROVE  /\ Batch \in Nat /\ Batch <= fifo.cnt
         /\ delivered' = delivered \o [i \in 1..Batch |-> Gone + i]
         /\ delivered' \in Seq(Nat) /\ Len(delivered') = Len(delivered) + Batch
         /\ fifo' \in FifoType(Size) /\ fifo'.cnt = fifo.cnt - Batch
         /\ \A k \in Int : PopAddr(fifo', k) = PopAddr(fifo, k + Batch)
<1>1. /\ Batch \in Nat /\ Batch <= fifo.cnt /\ fifo.cnt <= Unread /\ Unread \in Nat
      /\ fifo.cnt \in Nat
  BY Numbers, Sizes DEF Batch, Smaller, FillSize
<1> DEFINE b == [i \in 1..Batch |-> Gone + i]
<1>2. [i \in 1..Batch |-> Stored(PopAddr(fifo, i - 1))] = b
  <2>1. \A i \in 1..Batch : i \in 1..Unread
    BY <1>1
  <2>2. \A i \in 1..Batch : Stored(PopAddr(fifo, i - 1)) = Gone + i
    BY <2>1, StoredIs
  <2>3. QED
    BY <2>2
<1>3. delivered' = delivered \o b /\ fifo' = FifoRead(fifo, Batch)
  BY <1>2 DEF Take, Batch
<1>4. b \in [1..Batch -> Nat]
  <2>1. Gone \in Nat
    BY Numbers
  <2>2. \A i \in 1..Batch : Gone + i \in Nat
    BY <1>1, <2>1
  <2>3. QED
    BY <2>2
<1> HIDE DEF b
<1>5. b \in Seq(Nat) /\ Len(b) = Batch
  BY <1>1, <1>4, FunIsSeq
<1>6. delivered \in Seq(Nat)
  BY DEF IInv, TypeOK
<1>7. delivered' \in Seq(Nat) /\ Len(delivered') = Len(delivered) + Batch
  <2>1. delivered \o b \in Seq(Nat) /\ Len(delivered \o b) = Len(delivered) + Len(b)
    BY <1>5, <1>6, ConcatProperties
  <2>2. QED
    BY <1>3, <1>5, <2>1
<1>8. /\ FifoRead(fifo, Batch) \in FifoType(Size)
      /\ FifoRead(fifo, Batch).cnt = fifo.cnt - Batch
      /\ \A k \in Int : PopAddr(FifoRead(fifo, Batch), k) = PopAddr(fifo, k + Batch)
  BY <1>1, Numbers, Sizes, FifoReadShift
<1>9. /\ fifo' \in FifoType(Size) /\ fifo'.cnt = fifo.cnt - Batch
      /\ \A k \in Int : PopAddr(fifo', k) = PopAddr(fifo, k + Batch)
  BY <1>3, <1>8
<1>10. delivered' = delivered \o [i \in 1..Batch |-> Gone + i]
  BY <1>3 DEF b
<1>11. QED
  BY <1>1, <1>7, <1>9, <1>10

\* hif_fifo.c:190-227 as the receive task calls it: it only counts what the DMA has stored.
LEMMA WriteIs ==
  ASSUME IInv, UpdateFifo
  PROVE  /\ fifo' \in FifoType(Size) /\ fifo'.cnt = fifo.cnt + tdone
         /\ \A k \in Int : PopAddr(fifo', k) = PopAddr(fifo, k)
<1>1. fifo.cnt + tdone <= Unread /\ fifo' = FifoWrite(fifo, tdone)
  BY DEF UpdateFifo, IInv, RingInv
<1>2. tdone <= FreeSize(fifo)
  <2>1. /\ fifo.cnt \in Nat /\ tdone \in Nat /\ Unread \in Nat /\ Unread <= Size
        /\ Size \in Nat /\ fifo.size = Size
    BY Numbers, Sizes DEF FifoType
  <2>2. tdone <= Size - fifo.cnt
    BY <1>1, <2>1
  <2>3. QED
    BY <2>1, <2>2 DEF FreeSize
<1>3. /\ FifoWrite(fifo, tdone) \in FifoType(Size)
      /\ FifoWrite(fifo, tdone).cnt = fifo.cnt + tdone
      /\ \A k \in Int : PopAddr(FifoWrite(fifo, tdone), k) = PopAddr(fifo, k)
  <2>1. fifo \in FifoType(Size) /\ tdone \in Nat /\ Size \in Nat \ {0}
    BY Numbers, Sizes
  <2>2. QED
    BY <1>2, <2>1, FifoWriteShift
<1>4. QED
  BY <1>1, <1>3

\* An empty ring, and what its cells are.
LEMMA NewIs ==
  /\ NewFifo(Size) \in FifoType(Size) /\ NewFifo(Size).cnt = 0
  /\ \A k \in Int : PopAddr(NewFifo(Size), k) = k % Size
<1>1. NewFifo(Size) = [size |-> Size, cnt |-> 0, push |-> 0, pop |-> 0]
  BY DEF NewFifo
<1>2. NewFifo(Size) \in FifoType(Size) /\ NewFifo(Size).cnt = 0
  BY <1>1 DEF FifoType
<1>3. ASSUME NEW k \in Int PROVE PopAddr(NewFifo(Size), k) = k % Size
  <2>1. PopAddr(NewFifo(Size), k) = ((0 + k) % IdxMod) % Size
    BY <1>1 DEF PopAddr
  <2>2. 0 + k = k
    OBVIOUS
  <2>3. (k % IdxMod) % Size = k % Size
    BY Sizes, IdxModAssumption, RingAssumption, ModOfMod
  <2>4. QED
    BY <2>1, <2>2, <2>3
<1>4. QED
  BY <1>2, <1>3

-----------------------------------------------------------------------------
(* Types.                                                                   *)

FlagType == rts \in BOOLEAN /\ irq \in BOOLEAN /\ notified \in BOOLEAN

DataType ==
  /\ sent \in Nat /\ base \in Nat /\ late \in 0..Slack
  /\ fifo \in FifoType(Size) /\ slot \in 0..(Size - 1)
  /\ tpc \in {"suspend", "read", "rts", "write", "slot", "take"}
  /\ tfree \in 0..Size /\ tdone \in 0..Size
  /\ delivered \in Seq(Nat) /\ dropped \in Nat /\ changes \in Nat
  /\ asserted \in {"none", "task", "isr"}

\* TypeOK in its two parts.
LEMMA TypeParts == TypeOK <=> FlagType /\ DataType
  BY Zenon DEF TypeOK, FlagType, DataType

\* The same of the state after a step.
LEMMA TypePartsNext == TypeOK' <=> FlagType' /\ DataType'
  BY TypeParts, PTL

\* The two sizes of _hif_uart_rx_dma_update_fifo are the ring's and the DMA's.
LEMMA ReadIs ==
  ASSUME IInv, UpdateRead
  PROVE  /\ asserted' = asserted /\ tpc' = "rts"
         /\ tfree' = Size - fifo.cnt /\ tdone' = Unread - fifo.cnt
         /\ tfree' \in 0..Size /\ tdone' \in 0..Size
<1>1. /\ DoneSize = Unread - Counted /\ Counted = fifo.cnt /\ FreeSize(fifo) = Size - fifo.cnt
      /\ Unread \in Nat /\ fifo.cnt \in Nat /\ fifo.cnt <= Unread /\ Unread < Size
  BY DoneIs, Numbers DEF UpdateRead, Counted, FreeSize
<1>2. DoneSize <= FreeSize(fifo)
  BY <1>1, Sizes
<1>3. /\ asserted' = asserted /\ tpc' = "rts" /\ tfree' = FreeSize(fifo) /\ tdone' = DoneSize
  BY <1>2 DEF UpdateRead
<1>4. Size - fifo.cnt \in 0..Size /\ Unread - fifo.cnt \in 0..Size
  BY <1>1, Sizes
<1>5. QED
  BY <1>1, <1>3, <1>4

\* hif_uart.c:249-252: the position is turned round the ring's end at most once.
LEMMA SlotIs ==
  ASSUME IInv
  PROVE  NextSlot = (slot + tdone) % Size /\ NextSlot \in 0..(Size - 1)
<1>1. /\ slot \in 0..(Size - 1) /\ tdone \in 0..Size /\ Size \in Nat \ {0}
  BY Sizes DEF IInv, TypeOK
<1>2. slot + tdone \in Int
  BY <1>1
<1>3. CASE slot + tdone >= Size
  <2>1. slot + tdone - Size \in 0..(Size - 1) /\ slot + tdone = Size * 1 + (slot + tdone - Size)
    BY <1>1, <1>3
  <2>2. NextSlot = slot + tdone - Size
    BY <1>3 DEF NextSlot
  <2> DEFINE r == slot + tdone - Size
  <2>3. r \in 0..(Size - 1) /\ slot + tdone = Size * 1 + r /\ NextSlot = r
    BY <2>1, <2>2
  <2> HIDE DEF r
  <2>4. (Size * 1 + r) % Size = r
    BY <1>1, <2>3, ModOfSum
  <2>5. QED
    BY <2>3, <2>4
<1>4. CASE ~(slot + tdone >= Size)
  <2>1. slot + tdone \in 0..(Size - 1) /\ NextSlot = slot + tdone
    BY <1>1, <1>4 DEF NextSlot
  <2>2. (slot + tdone) % Size = slot + tdone
    BY <1>1, <2>1, ModSmall
  <2>3. QED
    BY <2>1, <2>2
<1>5. QED
  BY <1>3, <1>4

\* Every step of the DMA, the interrupt and the receive task keeps the types.
LEMMA TypeStep == ASSUME IInv, [Next]_vars PROVE TypeOK'
<1>1. FlagType /\ DataType
  BY TypeParts DEF IInv
<1>2. FlagType'
  <2>1. RtsOn \in BOOLEAN /\ ((sent + 1 - base) % SlotSize = 0) \in BOOLEAN
    BY DEF RtsOn
  <2>2. rts' \in BOOLEAN
    <3>1. rts' \in {rts, TRUE, FALSE, RtsOn} \/ rts' \in BOOLEAN
      BY Zenon DEF Next, TaskStep, DmaStore, DmaIsr, SetRts, UpdateRead, UpdateRts,
         UpdateFifo, UpdateSlot, Take, Resume, Change, vars, hwVars
    <3>2. QED
      BY <1>1, <2>1, <3>1, Zenon DEF FlagType
  <2>3. irq' \in BOOLEAN
    <3>1. irq' \in {irq, FALSE, (sent + 1 - base) % SlotSize = 0}
      BY Zenon DEF Next, TaskStep, DmaStore, DmaIsr, UpdateRead, UpdateRts,
         UpdateFifo, UpdateSlot, Take, Resume, Change, vars, hwVars
    <3>2. QED
      BY <1>1, <2>1, <3>1, Zenon DEF FlagType
  <2>4. notified' \in {notified, TRUE, FALSE}
    BY Zenon DEF Next, TaskStep, DmaStore, DmaIsr, UpdateRead, UpdateRts,
       UpdateFifo, UpdateSlot, Take, Resume, Change, vars
  <2>5. QED
    BY <1>1, <2>2, <2>3, <2>4, Zenon DEF FlagType
<1>3. CASE DmaStore
  <2>1. late' \in 0..Slack /\ sent' \in Nat
    BY <1>1, <1>3, Sizes DEF DmaStore, DataType
  <2>2. QED
    BY <1>1, <1>2, <1>3, <2>1, TypePartsNext DEF DmaStore, DataType, taskVars, histVars
<1>4. CASE DmaIsr
  <2>1. late' \in 0..Slack
    BY <1>1, <1>4, Sizes DEF DmaIsr, SetRts, DataType
  <2>2. asserted' \in {"none", "task", "isr"}
    BY <1>1, <1>4 DEF DmaIsr, DataType
  <2>3. DataType'
    BY <1>1, <1>4, <2>1, <2>2 DEF DmaIsr, DataType, taskVars
  <2>4. QED
    BY <1>2, <2>3, TypePartsNext
<1>5. CASE UpdateRead
  <2>1. asserted' = asserted /\ tpc' = "rts" /\ tfree' \in 0..Size /\ tdone' \in 0..Size
    BY <1>5, ReadIs
  <2>2. DataType'
    BY <1>1, <1>5, <2>1 DEF UpdateRead, DataType, hwVars
  <2>3. QED
    BY <1>2, <2>2, TypePartsNext
<1>6. CASE UpdateRts
  <2>1. late' \in 0..Slack /\ tpc' \in {"write", "take"}
    BY <1>1, <1>6, Sizes DEF UpdateRts, SetRts, DataType
  <2>2. DataType'
    BY <1>1, <1>6, <2>1 DEF UpdateRts, DataType, histVars
  <2>3. QED
    BY <1>2, <2>2, TypePartsNext
<1>7. CASE UpdateFifo
  <2>1. fifo' \in FifoType(Size)
    BY <1>7, WriteIs
  <2>2. DataType'
    BY <1>1, <1>7, <2>1 DEF UpdateFifo, DataType, hwVars, histVars
  <2>3. QED
    BY <1>2, <2>2, TypePartsNext
<1>8. CASE UpdateSlot
  <2>1. slot' \in 0..(Size - 1)
    BY <1>8, SlotIs DEF UpdateSlot
  <2>2. DataType'
    BY <1>1, <1>8, <2>1 DEF UpdateSlot, DataType, hwVars, histVars
  <2>3. QED
    BY <1>2, <2>2, TypePartsNext
<1>9. CASE Take
  <2>1. fifo' \in FifoType(Size) /\ delivered' \in Seq(Nat)
    BY <1>9, TakeIs
  <2>2. /\ tpc' \in {"read", "suspend"} /\ tfree' = 0 /\ tdone' = 0
        /\ UNCHANGED <<sent, base, late, slot, dropped, changes, asserted>>
    BY <1>9 DEF Take, hwVars
  <2>3. 0 \in 0..Size
    BY Sizes
  <2>4. DataType'
    BY <1>1, <2>1, <2>2, <2>3 DEF DataType
  <2>5. QED
    BY <1>2, <2>4, TypePartsNext
<1>10. CASE Resume
  <2>1. DataType'
    BY <1>1, <1>10 DEF Resume, DataType, hwVars, histVars
  <2>2. QED
    BY <1>2, <2>1, TypePartsNext
<1>11. CASE Change
  <2>1. dropped' \in Nat
    <3>1. Unread \in Nat /\ dropped \in Nat /\ dropped' = dropped + Unread
      BY <1>11, Numbers DEF Change
    <3>2. QED
      BY <3>1
  <2>2. fifo' \in FifoType(Size)
    BY <1>11, NewIs DEF Change, ChangedFifo
  <2>3. 0 \in 0..Slack /\ 0 \in 0..(Size - 1)
    BY Sizes
  <2>4. changes' \in Nat
    BY <1>1, <1>11 DEF Change, DataType
  <2>5. /\ base' = sent /\ late' = 0 /\ slot' = 0
        /\ UNCHANGED <<sent, tpc, tfree, tdone, delivered, asserted>>
    BY <1>11 DEF Change
  <2>6. DataType'
    BY <1>1, <2>1, <2>2, <2>3, <2>4, <2>5 DEF DataType
  <2>7. QED
    BY <1>2, <2>6, TypePartsNext
<1>12. CASE UNCHANGED vars
  <2>1. DataType'
    BY <1>1, <1>12 DEF DataType, vars, hwVars, taskVars, histVars
  <2>2. QED
    BY <1>2, <2>1, TypePartsNext
<1>13. QED
  BY <1>3, <1>4, <1>5, <1>6, <1>7, <1>8, <1>9, <1>10, <1>11, <1>12 DEF Next, TaskStep

-----------------------------------------------------------------------------
(* The ring.                                                                *)

\* Nothing leaves the ring and no position moves.
LEMMA RingStays ==
  ASSUME IInv, UNCHANGED <<base, fifo, slot, dropped, delivered>>,
         Unread' \in Nat, Unread <= Unread', tpc # "slot", tpc' # "slot",
         tpc' \in {"rts", "write"} => fifo'.cnt + tdone' <= Unread'
  PROVE  RingInv'
<1>1. RingInv /\ Unread \in Nat /\ fifo.cnt \in Nat
  BY Numbers DEF IInv
<1>2. Gone' = Gone /\ Counted' = Counted
  BY DEF Gone, Counted
<1>3. fifo'.cnt <= Unread'
  BY <1>1 DEF RingInv
<1>4. slot' = (Gone' - base' + Counted') % Size
  BY <1>1, <1>2 DEF RingInv
<1>5. \A k \in Int : PopAddr(fifo', k) = (Gone' - base' + k) % Size
  BY <1>1, <1>2 DEF RingInv
<1>6. QED
  BY <1>3, <1>4, <1>5 DEF RingInv

\* The DMA stores a unit behind all others.
LEMMA StoreRing == ASSUME IInv, DmaStore PROVE RingInv'
<1>1. /\ RingInv /\ Unread \in Nat /\ fifo.cnt \in Nat /\ sent \in Nat /\ Gone \in Nat
      /\ tdone \in Nat /\ Unread = sent - Gone /\ dropped \in Nat /\ Len(delivered) \in Nat
  BY Numbers DEF IInv
<1>2. /\ sent' = sent + 1 /\ UNCHANGED <<base, fifo, slot, tpc, tdone, delivered, dropped>>
  BY DEF DmaStore, taskVars, histVars
<1>3. Gone' = Gone /\ Counted' = Counted
  BY <1>2 DEF Gone, Counted
<1>4. Unread' = Unread + 1
  <2>1. \A a, b, c \in Nat : (a + 1) - b - c = (a - b - c) + 1
    OBVIOUS
  <2>2. Unread' = (sent + 1) - dropped - Len(delivered)
    BY <1>2 DEF Unread
  <2>3. QED
    BY <1>1, <2>1, <2>2 DEF Unread
<1>5. fifo'.cnt <= Unread'
  BY <1>1, <1>2, <1>4 DEF RingInv
<1>6. tpc' \in {"rts", "write"} => fifo'.cnt + tdone' <= Unread'
  BY <1>1, <1>2, <1>4 DEF RingInv
<1>7. tpc' = "slot" => tdone' <= fifo'.cnt
  BY <1>1, <1>2 DEF RingInv
<1>8. slot' = (Gone' - base' + Counted') % Size
  BY <1>1, <1>2, <1>3 DEF RingInv
<1>9. \A k \in Int : PopAddr(fifo', k) = (Gone' - base' + k) % Size
  BY <1>1, <1>2, <1>3 DEF RingInv
<1>10. QED
  BY <1>5, <1>6, <1>7, <1>8, <1>9 DEF RingInv

\* The units the DMA had stored become the ring's content.
LEMMA WriteRing == ASSUME IInv, UpdateFifo PROVE RingInv'
<1>1. /\ RingInv /\ fifo.cnt \in Nat /\ tdone \in Nat
  BY Numbers DEF IInv
<1>2. /\ tpc = "write" /\ tpc' = "slot"
      /\ UNCHANGED <<sent, base, slot, tdone, delivered, dropped>>
  BY DEF UpdateFifo, hwVars, histVars
<1>3. fifo'.cnt = fifo.cnt + tdone /\ \A k \in Int : PopAddr(fifo', k) = PopAddr(fifo, k)
  BY WriteIs
<1>4. Gone' = Gone /\ Unread' = Unread
  BY <1>2 DEF Gone, Unread
<1>5. Counted' = Counted
  <2>1. Counted = fifo.cnt /\ Counted' = fifo'.cnt - tdone
    BY <1>2 DEF Counted
  <2>2. QED
    BY <1>1, <1>3, <2>1
<1>6. fifo'.cnt <= Unread'
  BY <1>1, <1>2, <1>3, <1>4 DEF RingInv
<1>7. tdone' <= fifo'.cnt
  BY <1>1, <1>2, <1>3
<1>8. slot' = (Gone' - base' + Counted') % Size
  BY <1>1, <1>2, <1>4, <1>5 DEF RingInv
<1>9. \A k \in Int : PopAddr(fifo', k) = (Gone' - base' + k) % Size
  BY <1>1, <1>2, <1>3, <1>4 DEF RingInv
<1>10. QED
  BY <1>2, <1>6, <1>7, <1>8, <1>9 DEF RingInv

\* slot_addr catches up.
LEMMA SlotRing == ASSUME IInv, UpdateSlot PROVE RingInv'
<1>1. /\ RingInv /\ fifo.cnt \in Nat /\ tdone \in Nat /\ Gone \in Nat /\ base \in Nat
      /\ Counted \in Nat
  BY Numbers DEF IInv
<1>2. /\ tpc = "slot" /\ tpc' = "take" /\ slot' = NextSlot
      /\ UNCHANGED <<sent, base, fifo, tdone, delivered, dropped>>
  BY DEF UpdateSlot, hwVars, histVars
<1>3. Gone' = Gone /\ Unread' = Unread
  BY <1>2 DEF Gone, Unread
<1>4. Counted = fifo.cnt - tdone /\ Counted' = fifo.cnt
  BY <1>2 DEF Counted
<1> DEFINE b == Gone - base + Counted
<1>5. b \in Int /\ b + tdone = Gone - base + fifo.cnt
  BY <1>1, <1>4
<1>6. slot = b % Size
  BY <1>1 DEF RingInv
<1> HIDE DEF b
<1>7. ((b % Size) + tdone) % Size = (b + tdone) % Size
  <2>1. tdone \in Int /\ b \in Int /\ Size \in Nat \ {0}
    BY <1>1, <1>5, Sizes
  <2>2. QED
    BY <2>1, ModAdd
<1>8. NextSlot = (slot + tdone) % Size
  BY SlotIs
<1>9. slot' = (Gone' - base' + Counted') % Size
  BY <1>2, <1>3, <1>4, <1>5, <1>6, <1>7, <1>8
<1>10. fifo'.cnt <= Unread'
  BY <1>1, <1>2, <1>3 DEF RingInv
<1>11. \A k \in Int : PopAddr(fifo', k) = (Gone' - base' + k) % Size
  BY <1>1, <1>2, <1>3 DEF RingInv
<1>12. QED
  BY <1>2, <1>9, <1>10, <1>11 DEF RingInv

\* Units leave the ring at its front.
LEMMA TakeRing ==
  ASSUME IInv, Take
  PROVE  RingInv' /\ Gone' = Gone + Batch /\ Unread' = Unread - Batch
<1>1. /\ RingInv /\ fifo.cnt \in Nat /\ Gone \in Nat /\ base \in Nat /\ sent \in Nat
      /\ dropped \in Nat /\ Len(delivered) \in Nat /\ Unread \in Nat
      /\ Gone = dropped + Len(delivered) /\ Unread = sent - Gone
  BY Numbers DEF IInv
<1>2. /\ tpc = "take" /\ tpc' \in {"read", "suspend"}
      /\ UNCHANGED <<sent, base, slot, dropped>>
  BY DEF Take, hwVars
<1>3. /\ Batch \in Nat /\ Batch <= fifo.cnt
      /\ Len(delivered') = Len(delivered) + Batch /\ fifo'.cnt = fifo.cnt - Batch
      /\ \A k \in Int : PopAddr(fifo', k) = PopAddr(fifo, k + Batch)
  BY TakeIs
<1>4. Gone' = Gone + Batch
  <2>1. Gone' = dropped + Len(delivered')
    BY <1>2 DEF Gone
  <2>2. QED
    BY <1>1, <1>3, <2>1
<1>5. Unread' = Unread - Batch
  <2>1. Unread' = sent - dropped - Len(delivered')
    BY <1>2 DEF Unread
  <2>2. QED
    BY <1>1, <1>3, <2>1
<1>6. Counted = fifo.cnt /\ Counted' = fifo.cnt - Batch
  BY <1>2, <1>3 DEF Counted
<1>7. fifo'.cnt <= Unread'
  <2>1. fifo.cnt <= Unread
    BY <1>1 DEF RingInv
  <2>2. \A a, b, c \in Nat : a <= b => a - c <= b - c
    OBVIOUS
  <2>3. fifo.cnt - Batch <= Unread - Batch
    BY <1>1, <1>3, <2>1, <2>2
  <2>4. QED
    BY <1>3, <1>5, <2>3
<1>8. slot' = (Gone' - base' + Counted') % Size
  <2>1. slot = (Gone - base + fifo.cnt) % Size
    BY <1>1, <1>6 DEF RingInv
  <2>2. (Gone + Batch) - base + (fifo.cnt - Batch) = Gone - base + fifo.cnt
    <3>1. Gone \in Nat /\ Batch \in Nat /\ base \in Nat /\ fifo.cnt \in Nat
      BY <1>1, <1>3
    <3>2. QED
      BY <3>1
  <2>3. QED
    BY <1>2, <1>4, <1>6, <2>1, <2>2
<1>9. ASSUME NEW k \in Int PROVE PopAddr(fifo', k) = (Gone' - base' + k) % Size
  <2>1. k + Batch \in Int /\ Gone - base + (k + Batch) = (Gone + Batch) - base + k
    BY <1>1, <1>3
  <2>2. PopAddr(fifo, k + Batch) = (Gone - base + (k + Batch)) % Size
    BY <1>1, <2>1 DEF RingInv
  <2>3. QED
    BY <1>2, <1>3, <1>4, <2>1, <2>2
<1>10. QED
  BY <1>2, <1>4, <1>5, <1>7, <1>8, <1>9 DEF RingInv

\* AT+UART empties the ring and starts the DMA at its first cell.
LEMMA ChangeRing == ASSUME IInv, Change PROVE RingInv' /\ Gone' = sent /\ Unread' = 0
<1>1. /\ Gone \in Nat /\ sent \in Nat /\ dropped \in Nat /\ Len(delivered) \in Nat
      /\ Unread \in Nat /\ Gone = dropped + Len(delivered) /\ Unread = sent - Gone
  BY Numbers
<1>2. /\ base' = sent /\ fifo' = NewFifo(Size) /\ slot' = 0 /\ dropped' = dropped + Unread
      /\ tpc = "read" /\ UNCHANGED <<sent, tpc, delivered>>
  BY DEF Change, ChangedFifo
<1>3. Gone' = sent
  <2>1. Gone' = (dropped + Unread) + Len(delivered)
    BY <1>2 DEF Gone
  <2>2. QED
    BY <1>1, <2>1
<1>4. Unread' = 0
  <2>1. Unread' = sent - (dropped + Unread) - Len(delivered)
    BY <1>2 DEF Unread
  <2>2. QED
    BY <1>1, <2>1
<1>5. fifo'.cnt = 0 /\ \A k \in Int : PopAddr(fifo', k) = k % Size
  BY <1>2, NewIs
<1>6. Counted' = 0
  BY <1>2, <1>5 DEF Counted
<1>7. Gone' - base' = 0 /\ \A k \in Int : sent - sent + k = k
  BY <1>1, <1>2, <1>3
<1>8. slot' = (Gone' - base' + Counted') % Size
  <2>1. 0 \in 0..(Size - 1)
    BY Sizes
  <2>2. 0 % Size = 0
    BY <2>1, Sizes, ModSmall
  <2>3. sent - sent + 0 = 0
    BY <1>1
  <2>4. QED
    BY <1>2, <1>3, <1>6, <2>2, <2>3
<1>9. \A k \in Int : PopAddr(fifo', k) = (Gone' - base' + k) % Size
  BY <1>2, <1>3, <1>5, <1>7
<1>10. QED
  BY <1>2, <1>3, <1>4, <1>5, <1>8, <1>9 DEF RingInv

\* The counts of what is unread stay in agreement, whatever happens.
LEMMA RingStep == ASSUME IInv, [Next]_vars PROVE RingInv'
<1>1. Unread \in Nat /\ fifo.cnt \in Nat /\ fifo.cnt <= Unread /\ RingInv
  BY Numbers DEF IInv
<1>2. CASE DmaIsr \/ Resume \/ UNCHANGED vars
  <2>1. /\ UNCHANGED <<sent, base, fifo, slot, tdone, delivered, dropped>>
        /\ tpc' = tpc \/ (tpc = "suspend" /\ tpc' = "read")
    BY <1>2 DEF DmaIsr, Resume, vars, hwVars, taskVars, histVars
  <2>2. Gone' = Gone /\ Counted' = Counted /\ Unread' = Unread
    BY <2>1 DEF Gone, Counted, Unread
  <2>3. QED
    BY <1>1, <2>1, <2>2 DEF RingInv
<1>3. CASE UpdateRead
  <2>1. /\ UNCHANGED <<sent, base, fifo, slot, delivered, dropped>> /\ tpc = "read"
    BY <1>3 DEF UpdateRead, hwVars
  <2>2. Unread' = Unread
    BY <2>1 DEF Unread
  <2>3. tpc' = "rts" /\ tdone' = Unread - fifo.cnt
    BY <1>3, ReadIs
  <2>4. fifo'.cnt + tdone' <= Unread' /\ Unread <= Unread'
    BY <1>1, <2>1, <2>2, <2>3
  <2>5. QED
    BY <1>1, <2>1, <2>2, <2>3, <2>4, RingStays
<1>4. CASE UpdateRts
  <2>1. /\ UNCHANGED <<sent, base, fifo, slot, tdone, delivered, dropped>> /\ tpc = "rts"
        /\ tpc' \in {"write", "take"}
    BY <1>4 DEF UpdateRts, histVars
  <2>2. Unread' = Unread
    BY <2>1 DEF Unread
  <2>3. fifo'.cnt + tdone' <= Unread' /\ Unread <= Unread'
    BY <1>1, <2>1, <2>2 DEF RingInv
  <2>4. QED
    BY <1>1, <2>1, <2>2, <2>3, RingStays
<1>5. QED
  BY <1>2, <1>3, <1>4, StoreRing, WriteRing, SlotRing, TakeRing, ChangeRing DEF Next, TaskStep

-----------------------------------------------------------------------------
(* RTS.                                                                     *)

\* An interrupt comes after a slot at the latest.
LEMMA SinceType == TypeOK => Since \in 0..SlotSize
<1> SUFFICES ASSUME TypeOK PROVE Since \in 0..SlotSize
  OBVIOUS
<1>1. sent - base \in Int
  BY DEF TypeOK
<1>2. (sent - base) % SlotSize \in 0..(SlotSize - 1)
  BY <1>1, Sizes, ModRange
<1>3. QED
  BY <1>2, Sizes DEF Since

\* The same of the state after a step.
LEMMA SinceTypeNext == TypeOK' => (Since \in 0..SlotSize)'
  BY SinceType, PTL

\* The room the limit keeps is used by two slots and twice the slack at most.
LEMMA HeadroomFrom ==
  TypeOK /\ Unread \in Nat /\ Bound(SlotSize + Slack) /\ asserted # "task" => HeadroomKept
<1> SUFFICES ASSUME TypeOK, Unread \in Nat, Bound(SlotSize + Slack), asserted # "task"
             PROVE  HeadroomKept
  OBVIOUS
<1>1. Since \in 0..SlotSize /\ late \in 0..Slack
  BY SinceType DEF TypeOK
<1>2. Unread <= (Size - Limit) + (SlotSize + Slack) + (IF rts THEN Since ELSE SlotSize + late)
  BY DEF Bound
<1>3. Unread <= Size - Limit + 2 * SlotSize + 2 * Slack
  BY <1>1, <1>2, Sizes
<1>4. QED
  BY <1>3 DEF HeadroomKept

\* The same of the state after a step.
LEMMA HeadroomFromNext ==
  TypeOK' /\ (Unread \in Nat)' /\ Bound(SlotSize + Slack)' /\ (asserted # "task")'
    => HeadroomKept'
  BY HeadroomFrom, PTL

\* Nothing arrives and RTS stays as it is.
LEMMA RtsStays ==
  ASSUME IInv, TypeOK', UNCHANGED <<sent, base, rts, late, irq>>, asserted' = asserted,
         Unread' \in Nat, Unread' <= Unread, tpc' # "rts"
  PROVE  RtsInv'
<1>1. /\ Unread \in Nat /\ Unread <= Size - Limit + 2 * SlotSize + 2 * Slack
      /\ asserted # "task" /\ (Running => Bound(SlotSize + Slack))
  BY Numbers DEF IInv, RtsInv, HeadroomKept
<1>2. HeadroomKept'
  BY <1>1, Sizes DEF HeadroomKept
<1>3. Since' = Since /\ Since \in Nat /\ late \in Nat /\ late' = late
  <2>1. Since \in 0..SlotSize
    BY SinceType DEF IInv
  <2>2. QED
    BY <2>1, Numbers, Sizes DEF Since
<1>4. Running' => Bound(SlotSize + Slack)'
  BY <1>1, <1>3, Sizes DEF Running, Bound
<1>5. ~Stale'
  BY DEF Stale
<1>6. QED
  BY <1>2, <1>4, <1>5 DEF RtsInv

\* A unit more is stored: it counts as one since the last interrupt, or as one late.
LEMMA StoreBound ==
  ASSUME IInv, DmaStore, Unread' = Unread + 1, NEW x \in Nat, Bound(x)
  PROVE  Bound(x)'
<1>1. /\ ~irq /\ irq' = ((sent + 1 - base) % SlotSize = 0) /\ sent' = sent + 1
      /\ base' = base /\ rts' = rts /\ late' = IF rts THEN 0 ELSE late + 1
  BY DEF DmaStore
<1>2. sent \in Nat /\ base \in Nat /\ Unread \in Nat /\ late \in Nat
  BY Numbers
<1>3. Since' = Since + 1 /\ Since \in Nat
  <2> DEFINE a == sent - base
  <2>1. a \in Int /\ sent + 1 - base = a + 1 /\ Since = a % SlotSize
    BY <1>1, <1>2 DEF Since
  <2>2. Since' = IF irq' THEN SlotSize ELSE (a + 1) % SlotSize
    BY <1>1, <1>2, <2>1 DEF Since
  <2>3. irq' = ((a + 1) % SlotSize = 0)
    BY <1>1, <2>1
  <2> HIDE DEF a
  <2>4. IF (a + 1) % SlotSize = 0 THEN a % SlotSize = SlotSize - 1
                                  ELSE (a + 1) % SlotSize = (a % SlotSize) + 1
    BY <2>1, Sizes, ModSucc
  <2>5. a % SlotSize \in Nat
    BY <2>1, Sizes, ModNat
  <2>6. SlotSize \in Nat /\ (SlotSize - 1) + 1 = SlotSize
    BY Sizes
  <2>7. CASE (a + 1) % SlotSize = 0
    <3>1. Since' = SlotSize /\ Since = SlotSize - 1
      BY <2>1, <2>2, <2>3, <2>4, <2>7
    <3>2. QED
      BY <2>1, <2>5, <2>6, <3>1
  <2>8. CASE (a + 1) % SlotSize # 0
    <3>1. Since' = (a + 1) % SlotSize
      BY <2>2, <2>3, <2>8, Zenon
    <3>2. QED
      BY <2>1, <2>4, <2>5, <2>8, <3>1
  <2>9. QED
    BY <2>7, <2>8
<1>4. Unread <= (Size - Limit) + x + (IF rts THEN Since ELSE SlotSize + late)
  BY DEF Bound
<1>5. Unread + 1 <= (Size - Limit) + x + (IF rts THEN Since + 1 ELSE SlotSize + (late + 1))
  BY <1>2, <1>3, <1>4, Sizes
<1>6. QED
  BY <1>1, <1>3, <1>5 DEF Bound

\* The room left when a size check finds the limit kept.
LEMMA LimitKept ==
  TypeOK /\ Unread \in Nat /\ Unread <= Size - Limit => \A x \in Nat : Bound(x)
<1> SUFFICES ASSUME TypeOK, Unread \in Nat, Unread <= Size - Limit, NEW x \in Nat
             PROVE  Bound(x)
  OBVIOUS
<1>1. Since \in Nat /\ late \in Nat
  BY SinceType, Sizes DEF TypeOK
<1>2. QED
  BY <1>1, Sizes DEF Bound

\* The same of the state after a step.
LEMMA LimitKeptNext ==
  TypeOK' /\ (Unread \in Nat)' /\ (Unread <= Size - Limit)' => (\A x \in Nat : Bound(x))'
  BY LimitKept, PTL

\* RTS goes off, or stays off.
LEMMA OffBound ==
  ASSUME IInv, SetRts(FALSE), Unread' = Unread, NEW x \in Nat, Bound(x)
  PROVE  Bound(x)'
<1>1. Since \in 0..SlotSize /\ Unread \in Nat /\ late \in Nat
  BY SinceType, Numbers DEF IInv
<1>2. Unread <= (Size - Limit) + x + (IF rts THEN Since ELSE SlotSize + late)
  BY DEF Bound
<1>3. ~rts' /\ late' = IF rts THEN 0 ELSE late
  BY DEF SetRts
<1>4. Unread <= (Size - Limit) + x + (SlotSize + (IF rts THEN 0 ELSE late))
  BY <1>1, <1>2, Sizes
<1>5. QED
  BY <1>3, <1>4 DEF Bound

\* RTS goes on, or stays on, from sizes that were right when they were read: what has
\* arrived since is a slot and the slack at most.
LEMMA OnBound ==
  ASSUME IInv, SetRts(TRUE), Unread' = Unread, UNCHANGED <<sent, base, irq>>, Bound(0)
  PROVE  Bound(SlotSize + Slack)'
<1>1. Since \in 0..SlotSize /\ Unread \in Nat /\ late \in 0..Slack
  BY SinceType, Numbers DEF IInv, TypeOK
<1>2. Unread <= (Size - Limit) + 0 + (IF rts THEN Since ELSE SlotSize + late)
  BY DEF Bound
<1>3. rts' /\ Since' = Since
  BY DEF SetRts, Since
<1>4. Unread <= (Size - Limit) + (SlotSize + Slack) + Since
  BY <1>1, <1>2, Sizes
<1>5. QED
  BY <1>3, <1>4 DEF Bound

\* A unit more is stored.
LEMMA StoreRts == ASSUME IInv, TypeOK', DmaStore PROVE RtsInv' /\ Unread' = Unread + 1
<1>1. /\ Running /\ asserted' = asserted /\ sent' = sent + 1
      /\ UNCHANGED <<tpc, tfree, tdone, dropped, delivered>>
  BY DEF DmaStore, taskVars, histVars
<1>2. /\ sent \in Nat /\ Gone \in Nat /\ dropped \in Nat /\ Len(delivered) \in Nat
      /\ Unread \in Nat
  BY Numbers
<1>3. Unread' = Unread + 1
  <2>1. \A a, b, c \in Nat : (a + 1) - b - c = (a - b - c) + 1
    OBVIOUS
  <2>2. Unread' = (sent + 1) - dropped - Len(delivered)
    BY <1>1 DEF Unread
  <2>3. QED
    BY <1>2, <2>1, <2>2 DEF Unread
<1>4. Bound(SlotSize + Slack) /\ (Stale => Bound(0))
  BY <1>1 DEF IInv, RtsInv
<1>5. SlotSize + Slack \in Nat /\ 0 \in Nat
  BY Sizes
<1>6. Bound(SlotSize + Slack)'
  BY <1>3, <1>4, <1>5, StoreBound
<1>7. Stale' => Bound(0)'
  <2>1. Stale' => Stale
    BY <1>1 DEF Stale
  <2>2. ASSUME Stale PROVE Bound(0)'
    BY <1>3, <1>4, <1>5, <2>2, StoreBound
  <2>3. QED
    BY <2>1, <2>2
<1>8. HeadroomKept'
  <2>1. Unread' \in Nat /\ asserted' # "task"
    BY <1>1, <1>2, <1>3 DEF Running
  <2>2. QED
    BY <1>6, <2>1, HeadroomFromNext
<1>9. QED
  BY <1>3, <1>6, <1>7, <1>8 DEF RtsInv

\* The interrupt takes RTS back when the limit is not kept - or, while slot_addr is behind,
\* when it seems so.
LEMMA IsrRts == ASSUME IInv, TypeOK', DmaIsr PROVE RtsInv'
<1>1. /\ Running /\ UNCHANGED <<sent, base, fifo, slot, tpc, tfree, tdone, dropped, delivered>>
  BY DEF DmaIsr, taskVars
<1>2. Unread' = Unread
  BY <1>1 DEF Unread
<1>3. /\ Unread \in Nat /\ fifo.cnt \in Nat /\ fifo.size = Size /\ Counted \in Nat
      /\ Counted <= fifo.cnt
  BY Numbers
<1>4. HeadroomKept /\ Bound(SlotSize + Slack) /\ (Stale => Bound(0)) /\ asserted = "none"
  BY <1>1 DEF IInv, RtsInv, Running
<1>5. SlotSize + Slack \in Nat /\ 0 \in Nat
  BY Sizes
<1>6. CASE asserted' = "isr"
  <2>1. HeadroomKept'
    BY <1>2, <1>4, <1>6 DEF HeadroomKept
  <2>2. QED
    BY <1>6, <2>1 DEF RtsInv, Running
<1>7. CASE asserted' # "isr"
  <2>1. /\ asserted' = asserted
        /\ IF RtsOff THEN SetRts(FALSE) ELSE UNCHANGED <<rts, late>>
    BY <1>7 DEF DmaIsr
  <2>2. Bound(SlotSize + Slack)' /\ (Stale' => Bound(0)')
    <3>1. Stale' => Stale
      BY <1>1 DEF Stale
    <3>2. CASE RtsOff
      <4>1. SetRts(FALSE)
        BY <2>1, <3>2
      <4>2. Bound(SlotSize + Slack)'
        BY <1>2, <1>4, <1>5, <4>1, OffBound
      <4>3. ASSUME Stale PROVE Bound(0)'
        BY <1>2, <1>4, <1>5, <4>1, <4>3, OffBound
      <4>4. QED
        BY <3>1, <4>2, <4>3
    <3>3. CASE ~RtsOff
      <4>1. DoneSize = Unread - Counted /\ FreeSize(fifo) = Size - fifo.cnt
        BY <1>3, DoneIs DEF FreeSize
      <4>2. ~((Size - fifo.cnt) - (Unread - Counted) < Limit)
        BY <3>3, <4>1 DEF RtsOff
      <4>3. Unread <= Size - Limit
        BY <1>3, <4>2, Sizes
      <4>4. (Unread \in Nat)' /\ (Unread <= Size - Limit)'
        BY <1>2, <1>3, <4>3
      <4>5. (\A x \in Nat : Bound(x))'
        BY <4>4, LimitKeptNext
      <4>6. QED
        BY <1>5, <4>5
    <3>4. QED
      BY <3>2, <3>3
  <2>3. HeadroomKept'
    BY <1>2, <1>4, <2>1 DEF HeadroomKept
  <2>4. QED
    BY <2>2, <2>3 DEF RtsInv
<1>8. QED
  BY <1>6, <1>7

\* The receive task reads the two sizes; they are right when they are read.
LEMMA ReadRts == ASSUME IInv, TypeOK', UpdateRead PROVE RtsInv'
<1>1. /\ Running /\ UNCHANGED <<sent, base, rts, late, irq, dropped, delivered>>
  BY DEF UpdateRead, hwVars
<1>2. /\ asserted' = asserted /\ tfree' = Size - fifo.cnt /\ tdone' = Unread - fifo.cnt
  BY ReadIs
<1>3. Unread' = Unread /\ Since' = Since
  BY <1>1 DEF Unread, Since
<1>4. /\ Unread \in Nat /\ fifo.cnt \in Nat
  BY Numbers
<1>5. HeadroomKept /\ Bound(SlotSize + Slack)
  BY <1>1 DEF IInv, RtsInv
<1>6. HeadroomKept' /\ Bound(SlotSize + Slack)'
  BY <1>1, <1>2, <1>3, <1>5 DEF HeadroomKept, Bound
<1>7. ASSUME Stale' PROVE Bound(0)'
  <2>1. (Size - fifo.cnt) - (Unread - fifo.cnt) >= Limit
    BY <1>2, <1>7 DEF Stale
  <2>2. Unread <= Size - Limit
    BY <1>4, <2>1, Sizes
  <2>3. (Unread \in Nat)' /\ (Unread <= Size - Limit)'
    BY <1>3, <1>4, <2>2
  <2>4. (\A x \in Nat : Bound(x))'
    BY <2>3, LimitKeptNext
  <2>5. QED
    BY <2>4
<1>8. QED
  BY <1>6, <1>7 DEF RtsInv

\* It sets RTS from them.
LEMMA SetRtsInv == ASSUME IInv, TypeOK', UpdateRts PROVE RtsInv'
<1>1. /\ Running /\ tpc = "rts" /\ tpc' \in {"write", "take"} /\ SetRts(RtsOn)
      /\ UNCHANGED <<sent, base, irq, dropped, delivered, asserted>>
  BY DEF UpdateRts, histVars
<1>2. Unread' = Unread
  BY <1>1 DEF Unread
<1>3. HeadroomKept /\ Bound(SlotSize + Slack) /\ (Stale => Bound(0))
  BY <1>1 DEF IInv, RtsInv
<1>4. SlotSize + Slack \in Nat
  BY Sizes
<1>5. Bound(SlotSize + Slack)'
  <2>1. RtsOn \in BOOLEAN
    BY DEF RtsOn
  <2>2. CASE RtsOn
    <3>1. RtsOn = TRUE
      BY <2>1, <2>2
    <3>2. SetRts(TRUE)
      BY <1>1, <3>1
    <3>3. Stale
      BY <1>1, <2>2 DEF RtsOn, Stale
    <3>4. QED
      BY <1>1, <1>2, <1>3, <3>2, <3>3, OnBound
  <2>3. CASE ~RtsOn
    <3>1. RtsOn = FALSE
      BY <2>1, <2>3
    <3>2. SetRts(FALSE)
      BY <1>1, <3>1
    <3>3. QED
      BY <1>2, <1>3, <1>4, <3>2, OffBound
  <2>4. QED
    BY <2>2, <2>3
<1>6. HeadroomKept'
  BY <1>1, <1>2, <1>3 DEF HeadroomKept
<1>7. ~Stale'
  BY <1>1 DEF Stale
<1>8. QED
  BY <1>5, <1>6, <1>7 DEF RtsInv

\* What is unread stays within the room there is, whatever happens.
LEMMA RtsStep == ASSUME IInv, [Next]_vars PROVE RtsInv'
<1>1. TypeOK'
  BY TypeStep
<1>2. Unread \in Nat
  BY Numbers
<1>3. CASE UpdateFifo \/ UpdateSlot \/ Resume
  <2>1. /\ UNCHANGED <<sent, base, rts, late, irq, asserted, dropped, delivered>>
        /\ tpc' # "rts"
    BY <1>3 DEF UpdateFifo, UpdateSlot, Resume, hwVars, histVars
  <2>2. Unread' = Unread
    BY <2>1 DEF Unread
  <2>3. Unread' \in Nat /\ Unread' <= Unread
    BY <1>2, <2>2
  <2>4. QED
    BY <1>1, <2>1, <2>3, RtsStays
<1>4. CASE Take
  <2>1. /\ UNCHANGED <<sent, base, rts, late, irq, asserted>> /\ tpc' # "rts"
    BY <1>4 DEF Take, hwVars
  <2>2. Unread' = Unread - Batch /\ Batch \in Nat /\ Batch <= Unread
    <3>1. Unread' = Unread - Batch
      BY <1>4, TakeRing
    <3>2. Batch \in Nat /\ Batch <= fifo.cnt /\ fifo.cnt <= Unread /\ fifo.cnt \in Nat
      BY <1>4, TakeIs, Numbers
    <3>3. QED
      BY <1>2, <3>1, <3>2
  <2>3. Unread' \in Nat /\ Unread' <= Unread
    BY <1>2, <2>2
  <2>4. QED
    BY <1>1, <2>1, <2>3, RtsStays
<1>5. CASE Change
  <2>1. Unread' = 0
    BY <1>5, ChangeRing
  <2>2. /\ asserted' = asserted /\ asserted = "none" /\ tpc' # "rts"
    BY <1>5 DEF Change, Running
  <2>3. (Unread \in Nat)' /\ (Unread <= Size - Limit)'
    BY <2>1, Sizes
  <2>4. (\A x \in Nat : Bound(x))'
    BY <1>1, <2>3, LimitKeptNext
  <2>5. Bound(SlotSize + Slack)'
    <3>1. SlotSize + Slack \in Nat
      BY Sizes
    <3>2. QED
      BY <2>4, <3>1
  <2>6. HeadroomKept'
    BY <1>1, <2>2, <2>3, <2>5, HeadroomFromNext
  <2>7. QED
    BY <2>2, <2>5, <2>6 DEF RtsInv, Stale
<1>6. CASE UNCHANGED vars
  BY <1>6 DEF IInv, RtsInv, HeadroomKept, Running, Bound, Since, Stale, Unread, vars, hwVars,
     taskVars, histVars
<1>7. QED
  BY <1>1, <1>3, <1>4, <1>5, <1>6, StoreRts, IsrRts, ReadRts, SetRtsInv DEF Next, TaskStep

-----------------------------------------------------------------------------
\* The DMA starts with an empty ring, and every step keeps the invariant.
LEMMA Invariant == Spec => []IInv
<1>1. Init => IInv
  <2> SUFFICES ASSUME Init PROVE IInv
    OBVIOUS
  <2>1. Gone = 0 /\ Unread = 0 /\ Counted = 0
    <3>1. /\ sent = 0 /\ dropped = 0 /\ Len(delivered) = 0 /\ tpc = "read"
          /\ fifo = NewFifo(Size)
      BY DEF Init
    <3>2. 0 + 0 = 0 /\ 0 - 0 - 0 = 0
      OBVIOUS
    <3>3. fifo.cnt = 0
      BY <3>1, NewIs
    <3>4. QED
      BY <3>1, <3>2, <3>3 DEF Gone, Unread, Counted
  <2>2. FlagType
    BY Zenon DEF Init, FlagType
  <2>3. DataType
    <3>1. fifo \in FifoType(Size)
      BY NewIs DEF Init
    <3>2. 0 \in 0..Slack /\ 0 \in 0..(Size - 1) /\ 0 \in 0..Size
      BY Sizes
    <3>3. QED
      BY <3>1, <3>2 DEF Init, DataType
  <2>4. TypeOK
    BY <2>2, <2>3, TypeParts
  <2>5. RingInv
    <3>1. fifo.cnt = 0 /\ \A k \in Int : PopAddr(fifo, k) = k % Size
      BY NewIs DEF Init
    <3>2. slot = (Gone - base + Counted) % Size
      <4>1. 0 \in 0..(Size - 1)
        BY Sizes
      <4>2. 0 % Size = 0
        BY <4>1, Sizes, ModSmall
      <4>3. 0 - 0 + 0 = 0
        OBVIOUS
      <4>4. QED
        BY <2>1, <4>2, <4>3 DEF Init
    <3>3. ASSUME NEW k \in Int PROVE PopAddr(fifo, k) = (Gone - base + k) % Size
      <4>1. 0 - 0 + k = k
        OBVIOUS
      <4>2. QED
        BY <2>1, <3>1, <4>1 DEF Init
    <3>4. QED
      BY <2>1, <3>1, <3>2, <3>3 DEF Init, RingInv
  <2>6. RtsInv
    <3>1. Unread \in Nat /\ Unread <= Size - Limit
      BY <2>1, Sizes
    <3>2. \A x \in Nat : Bound(x)
      BY <2>4, <3>1, LimitKept
    <3>3. Bound(SlotSize + Slack) /\ Bound(0)
      <4>1. SlotSize + Slack \in Nat
        BY Sizes
      <4>2. QED
        BY <3>2, <4>1
    <3>4. HeadroomKept
      BY <2>4, <3>1, <3>3, HeadroomFrom DEF Init
    <3>5. QED
      BY <3>3, <3>4 DEF RtsInv
  <2>7. QED
    BY <2>4, <2>5, <2>6 DEF IInv
<1>2. IInv /\ [Next]_vars => IInv'
  BY TypeStep, RingStep, RtsStep DEF IInv
<1>3. QED
  BY <1>1, <1>2, PTL DEF Spec

\* The receive task's position in the ring and its two sizes stay within the ring, and no
\* more than the slack arrives while RTS is off (hif_uart.c:231-264).
THEOREM TypeCorrect == Spec => []TypeOK
<1>1. IInv => TypeOK
  BY DEF IInv
<1>2. QED
  BY <1>1, Invariant, PTL

\* _hif_uart_rx_dma_done_size and the ring's count add up to what is unread, so that a lap of
\* the ring is never taken for none (hif_uart.c:211-229), but between hif_uart.c:259 and 261.
THEOREM DoneCorrect == Spec => []DoneIsUnread
<1>1. IInv => DoneIsUnread
  <2> SUFFICES ASSUME IInv, tpc # "slot" PROVE fifo.cnt + DoneSize = Unread
    BY DEF DoneIsUnread
  <2>1. DoneSize = Unread - fifo.cnt
    BY DoneIs DEF Counted
  <2>2. Unread \in Nat /\ fifo.cnt \in Nat
    BY Numbers
  <2>3. QED
    BY <2>1, <2>2
<1>2. QED
  BY <1>1, Invariant, PTL

\* The limit is room enough: the DMA never stores over what has not been read, and the
\* receive task's assertion (hif_uart.c:236) holds.
THEOREM HeadroomCorrect == Spec => []HeadroomKept
<1>1. IInv => HeadroomKept
  BY DEF IInv, RtsInv
<1>2. QED
  BY <1>1, Invariant, PTL

-----------------------------------------------------------------------------
(* The refinement: each step is one of the channel's, or none.              *)

\* u numbers from the one after g.
Run(g, u) == [i \in 1..u |-> g + i]

\* As a sequence.
LEMMA RunIs ==
  ASSUME NEW g \in Nat, NEW u \in Nat
  PROVE  /\ Run(g, u) \in Seq(Nat) /\ Len(Run(g, u)) = u
         /\ \A i \in 1..u : Run(g, u)[i] = g + i
<1>1. Run(g, u) \in [1..u -> Nat]
  BY DEF Run
<1>2. Run(g, u) \in Seq(Nat) /\ Len(Run(g, u)) = u
  BY <1>1, FunIsSeq
<1>3. \A i \in 1..u : Run(g, u)[i] = g + i
  BY DEF Run
<1>4. QED
  BY <1>2, <1>3

\* One number more.
LEMMA RunGrows ==
  ASSUME NEW g \in Nat, NEW u \in Nat
  PROVE  Run(g, u + 1) = Append(Run(g, u), g + (u + 1))
<1> DEFINE r == Run(g, u)
           t == Run(g, u + 1)
           e == g + (u + 1)
           a == Append(r, e)
<1>1. r \in Seq(Nat) /\ Len(r) = u /\ \A i \in 1..u : r[i] = g + i
  BY RunIs
<1>2. t \in Seq(Nat) /\ Len(t) = u + 1 /\ \A i \in 1..(u + 1) : t[i] = g + i
  <2>1. u + 1 \in Nat
    OBVIOUS
  <2>2. QED
    BY <2>1, RunIs
<1>3. e \in Nat
  OBVIOUS
<1> HIDE DEF r, t
<1>4. /\ a \in Seq(Nat) /\ Len(a) = u + 1
      /\ \A i \in 1..u : a[i] = r[i]
      /\ a[u + 1] = e
  <2> HIDE DEF e
  <2>1. QED
    BY <1>1, <1>3, AppendProperties
<1> HIDE DEF a
<1>5. ASSUME NEW i \in 1..(u + 1) PROVE t[i] = a[i]
  <2>1. CASE i = u + 1
    BY <1>2, <1>4, <2>1
  <2>2. CASE i # u + 1
    <3>1. i \in 1..u
      BY <2>2
    <3>2. QED
      BY <1>1, <1>2, <1>4, <3>1
  <2>3. QED
    BY <2>1, <2>2
<1>6. t = a
  BY <1>2, <1>4, <1>5, SeqEqual
<1>7. QED
  BY <1>6 DEF t, a, r, e

\* The first n, and the rest.
LEMMA RunSplits ==
  ASSUME NEW g \in Nat, NEW u \in Nat, NEW n \in 0..u
  PROVE  /\ SubSeq(Run(g, u), 1, n) = Run(g, n)
         /\ SubSeq(Run(g, u), n + 1, u) = Run(g + n, u - n)
<1> DEFINE r == Run(g, u)
           p == Run(g, n)
           q == Run(g + n, u - n)
<1>1. n \in Nat /\ g + n \in Nat /\ u - n \in Nat /\ n <= u
  OBVIOUS
<1>2. r \in Seq(Nat) /\ Len(r) = u /\ \A i \in 1..u : r[i] = g + i
  BY RunIs
<1>3. p \in Seq(Nat) /\ Len(p) = n /\ \A i \in 1..n : p[i] = g + i
  BY <1>1, RunIs
<1>4. q \in Seq(Nat) /\ Len(q) = u - n /\ \A i \in 1..(u - n) : q[i] = (g + n) + i
  BY <1>1, RunIs
<1> HIDE DEF r, p, q
<1>5. /\ p \o q \in Seq(Nat) /\ Len(p \o q) = Len(p) + Len(q)
      /\ \A i \in 1..(Len(p) + Len(q)) :
           (p \o q)[i] = IF i <= Len(p) THEN p[i] ELSE q[i - Len(p)]
  BY <1>3, <1>4, ConcatProperties
<1>6. Len(p \o q) = u /\ Len(p) + Len(q) = u
  BY <1>1, <1>3, <1>4, <1>5
<1>7. ASSUME NEW i \in 1..u PROVE r[i] = (p \o q)[i]
  <2>1. CASE i <= n
    <3>1. i \in 1..n
      BY <1>1, <2>1
    <3>2. QED
      BY <1>2, <1>3, <1>5, <1>6, <2>1, <3>1
  <2>2. CASE ~(i <= n)
    <3>1. i - n \in 1..(u - n) /\ (g + n) + (i - n) = g + i
      BY <1>1, <2>2
    <3>2. q[i - n] = g + i
      BY <1>4, <3>1
    <3>3. (p \o q)[i] = q[i - n]
      BY <1>3, <1>5, <1>6, <2>2
    <3>4. QED
      BY <1>2, <3>2, <3>3
  <2>3. QED
    BY <2>1, <2>2
<1>8. r = p \o q
  BY <1>2, <1>5, <1>6, <1>7, SeqEqual
<1>9. SubSeq(r, 1, n) = p /\ SubSeq(r, n + 1, u) = q
  BY <1>3, <1>4, <1>6, <1>8, SplitConcat
<1>10. QED
  BY <1>9 DEF r, p, q

\* What is in the ring is numbered in its order.
LEMMA InflightIs == IInv => Inflight = Run(Gone, Unread)
<1> SUFFICES ASSUME IInv PROVE Inflight = Run(Gone, Unread)
  OBVIOUS
<1>1. \A i \in 1..Unread : Stored(PopAddr(fifo, i - 1)) = Gone + i
  BY StoredIs
<1>2. QED
  BY <1>1 DEF Inflight, Run

\* The same of the state after a step.
LEMMA InflightNext == IInv' => (Inflight = Run(Gone, Unread))'
  BY InflightIs, PTL

\* Nothing is in the ring at first.
LEMMA InitChannel == IInv /\ Init => Channel!ChanInit
<1> SUFFICES ASSUME IInv, Init PROVE Channel!ChanInit
  OBVIOUS
<1>1. Unread = 0
  <2>1. sent = 0 /\ dropped = 0 /\ Len(delivered) = 0
    BY DEF Init
  <2>2. 0 - 0 - 0 = 0
    OBVIOUS
  <2>3. QED
    BY <2>1, <2>2 DEF Unread
<1>2. Inflight = Run(Gone, 0)
  BY <1>1, InflightIs
<1>3. Run(Gone, 0) \in Seq(Nat) /\ Len(Run(Gone, 0)) = 0
  BY Numbers, RunIs
<1>4. Inflight = <<>>
  BY <1>2, <1>3, EmptySeq
<1>5. QED
  BY <1>4 DEF Channel!ChanInit, Init

\* A unit stored is a chunk written.
LEMMA StoreIsWrite == ASSUME IInv, IInv', DmaStore PROVE Channel!ChanNext
<1>1. Unread' = Unread + 1
  BY StoreRts DEF IInv
<1>2. sent' = sent + 1 /\ UNCHANGED <<dropped, delivered, changes>>
  BY DEF DmaStore, histVars
<1>3. Gone' = Gone
  BY <1>2 DEF Gone
<1>4. Gone \in Nat /\ Unread \in Nat /\ sent \in Nat /\ Unread = sent - Gone
  BY Numbers
<1>5. Gone + (Unread + 1) = sent + 1
  BY <1>4
<1>6. Inflight' = Run(Gone, Unread + 1) /\ Inflight = Run(Gone, Unread)
  BY <1>1, <1>3, InflightIs, InflightNext
<1>7. Inflight' = Append(Inflight, sent + 1)
  BY <1>4, <1>5, <1>6, RunGrows
<1>8. Channel!WriteChunk
  BY <1>2, <1>7 DEF Channel!WriteChunk
<1>9. QED
  BY <1>8 DEF Channel!ChanNext

\* What _hif_fifo_read takes is delivered; it may be nothing.
LEMMA TakeIsDeliver ==
  ASSUME IInv, IInv', Take
  PROVE  Channel!ChanNext \/ UNCHANGED Channel!chanVars
<1>1. Gone' = Gone + Batch /\ Unread' = Unread - Batch
  BY TakeRing
<1>2. /\ Batch \in Nat /\ Batch <= fifo.cnt
      /\ delivered' = delivered \o Run(Gone, Batch)
  BY TakeIs DEF Run
<1>3. Gone \in Nat /\ Unread \in Nat /\ fifo.cnt \in Nat /\ fifo.cnt <= Unread
  BY Numbers
<1>4. Batch \in 0..Unread
  BY <1>2, <1>3
<1>5. sent' = sent /\ changes' = changes
  BY DEF Take, hwVars
<1>6. Inflight = Run(Gone, Unread) /\ Inflight' = Run(Gone + Batch, Unread - Batch)
  BY <1>1, InflightIs, InflightNext
<1>7. Len(Inflight) = Unread
  BY <1>3, <1>6, RunIs
<1>8. /\ Run(Gone, Batch) = SubSeq(Inflight, 1, Batch)
      /\ Inflight' = SubSeq(Inflight, Batch + 1, Len(Inflight))
  <2>1. /\ Run(Gone, Batch) = SubSeq(Run(Gone, Unread), 1, Batch)
        /\ Run(Gone + Batch, Unread - Batch) = SubSeq(Run(Gone, Unread), Batch + 1, Unread)
    BY <1>3, <1>4, RunSplits
  <2>2. QED
    BY <1>6, <1>7, <2>1
<1>9. CASE Batch = 0
  <2>1. Gone + 0 = Gone /\ Unread - 0 = Unread
    BY <1>3
  <2>2. Inflight' = Inflight
    BY <1>6, <1>9, <2>1
  <2>3. Run(Gone, 0) = <<>>
    <3>1. Run(Gone, 0) \in Seq(Nat) /\ Len(Run(Gone, 0)) = 0
      BY <1>3, RunIs
    <3>2. QED
      BY <3>1, EmptySeq
  <2>4. delivered \o <<>> = delivered
    <3>1. delivered \in Seq(Nat)
      BY DEF IInv, TypeOK
    <3>2. QED
      BY <3>1, ConcatEmptySeq
  <2>5. delivered' = delivered
    BY <1>2, <1>9, <2>3, <2>4
  <2>6. QED
    BY <1>5, <2>2, <2>5 DEF Channel!chanVars
<1>10. CASE Batch # 0
  <2>1. Batch \in 1..Len(Inflight)
    BY <1>4, <1>7, <1>10
  <2>2. delivered' = delivered \o SubSeq(Inflight, 1, Batch)
    BY <1>2, <1>8
  <2>3. Channel!DeliverChunks
    BY <1>5, <1>8, <2>1, <2>2 DEF Channel!DeliverChunks
  <2>4. QED
    BY <2>3 DEF Channel!ChanNext
<1>11. QED
  BY <1>9, <1>10

\* AT+UART throws the ring's content away.
LEMMA ChangeIsRestart == ASSUME IInv, IInv', Change PROVE Channel!ChanNext
<1>1. Unread' = 0 /\ Gone' = sent
  BY ChangeRing
<1>2. /\ changes' = changes + 1 /\ sent' = sent /\ delivered' = delivered
  BY DEF Change
<1>3. Gone \in Nat /\ Unread \in Nat /\ sent \in Nat
  BY Numbers
<1>4. Inflight = Run(Gone, Unread) /\ Inflight' = Run(sent, 0)
  BY <1>1, InflightIs, InflightNext
<1>5. Inflight \in Seq(Nat) /\ Len(Inflight) \in Nat
  BY <1>3, <1>4, RunIs
<1>6. Inflight' = <<>>
  <2>1. Run(sent, 0) \in Seq(Nat) /\ Len(Run(sent, 0)) = 0
    BY <1>3, RunIs
  <2>2. QED
    BY <1>4, <2>1, EmptySeq
<1>7. /\ SubSeq(Inflight, 1, 0) = <<>>
      /\ SubSeq(Inflight, Len(Inflight) + 1, Len(Inflight)) = <<>>
  BY <1>5, SubSeqEmpty
<1>8. <<>> \o <<>> = <<>>
  BY EmptySeq, ConcatEmptySeq
<1>9. /\ 0 \in 0..Len(Inflight) /\ Len(Inflight) \in 0..Len(Inflight)
      /\ Inflight' = SubSeq(Inflight, 1, 0)
                       \o SubSeq(Inflight, Len(Inflight) + 1, Len(Inflight))
  BY <1>5, <1>6, <1>7, <1>8
<1>10. Channel!Drop
  BY <1>9 DEF Channel!Drop
<1>11. Channel!Restart
  BY <1>2, <1>10 DEF Channel!Restart
<1>12. QED
  BY <1>11 DEF Channel!ChanNext

\* Every step is a step of the channel or leaves it alone.
LEMMA NextChannel ==
  IInv /\ IInv' /\ [Next]_vars => [Channel!ChanNext]_(Channel!chanVars)
<1> SUFFICES ASSUME IInv, IInv', [Next]_vars
             PROVE  Channel!ChanNext \/ UNCHANGED Channel!chanVars
  OBVIOUS
<1>1. CASE DmaStore  BY <1>1, StoreIsWrite
<1>2. CASE Take  BY <1>2, TakeIsDeliver
<1>3. CASE Change  BY <1>3, ChangeIsRestart
<1>4. CASE \/ DmaIsr \/ UpdateRead \/ UpdateRts \/ UpdateFifo \/ UpdateSlot \/ Resume
           \/ UNCHANGED vars
  <2>1. UNCHANGED <<sent, dropped, delivered, changes>>
    BY <1>4 DEF DmaIsr, UpdateRead, UpdateRts, UpdateFifo, UpdateSlot, Resume, vars, hwVars,
       histVars
  <2>2. Gone' = Gone /\ Unread' = Unread
    BY <2>1 DEF Gone, Unread
  <2>3. Inflight' = Inflight
    BY <2>2, InflightIs, InflightNext
  <2>4. QED
    BY <2>1, <2>3 DEF Channel!chanVars
<1>5. QED
  BY <1>1, <1>2, <1>3, <1>4 DEF Next, TaskStep

\* From the DMA's ring to atcmd_receive the UART keeps what ChunkChannel promises: units in
\* order, none twice, and none left out but by an AT+UART command.
THEOREM LinkIsChannel == Spec => ImplementsChannel
<1>1. Init /\ IInv => Channel!ChanInit
  BY InitChannel
<1>2. QED
  BY <1>1, Invariant, NextChannel, PTL DEF Spec, ImplementsChannel, Channel!ChanSpec
==============================================================================
