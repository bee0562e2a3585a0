------------------------------- MODULE HifUart -------------------------------
(***************************************************************************)
(* Receiving over the UART with the DMA ring and the RTS line driven by     *)
(* software (AT+UART=<baudrate>,1: UART_HFC_ENABLE without hfc_rx_irq).     *)
(*                                                                          *)
(*   host:      sends while RTS is on, and a little longer;                 *)
(*   hardware:  the UART and the DMA controller, which fills the ring       *)
(*              without end and interrupts after each slot;                 *)
(*   interrupt: _hif_uart_rx_dma_inttc_isr;                                 *)
(*   task:      _hif_rx_task -> _hif_uart_read -> atcmd_receive, which also *)
(*              runs AT+UART and with it _hif_uart_change.                  *)
(*                                                                          *)
(* The unit is a run of bytes; SlotSize of them are one DMA descriptor.     *)
(***************************************************************************)
EXTENDS HifFifoOps, Sequences

CONSTANTS
  Size,       \* rx_fifo->size
  SlotSize,   \* CONFIG_HIF_UART_SLOT_SIZE
  Limit,      \* _HIF_UART_HFC_DMA_RX_SW_FIFO_LIMIT
  BufLen,     \* ATCMD_RXBUF_SIZE
  Slack,      \* what the host and the UART still carry once RTS is off
  \* Bounds of the model
  MaxSent,    \* units sent altogether
  MaxChanges  \* AT+UART commands

\* The second conjunct is the assertion of _hif_uart_dma_register.
ASSUME UartAssumption ==
  /\ Size \in Nat \ {0} /\ SlotSize \in Nat \ {0} /\ Limit \in Nat \ {0}
  /\ Size >= 2 * Limit
  /\ BufLen \in Nat \ {0} /\ Slack \in Nat /\ MaxSent \in Nat /\ MaxChanges \in Nat

\* The ring is a power of two and a whole number of slots.
ASSUME RingAssumption == IdxMod % Size = 0 /\ Size % SlotSize = 0

\* What is kept free is there for two slots and twice the slack: the limit is 64 slots.
ASSUME HeadroomAssumption == 2 * SlotSize + 2 * Slack < Limit

VARIABLES
  \* host and hardware
  sent,      \* units the DMA has stored; they are numbered from 1
  base,      \* value of sent when the DMA was started at the ring's first slot
  late,      \* units stored since RTS went off
  rts,       \* the RTS line
  irq,       \* a terminal count interrupt is pending
  \* receive task
  fifo,      \* g_hif_uart_rx_fifo
  slot,      \* uart_dma->slot_addr, from the start of the ring
  tpc,       \* where the task is in _hif_uart_read
  tfree,     \* free_size
  tdone,     \* done_size
  notified,  \* the task's notification
  \* history
  delivered, \* units given to atcmd_receive
  dropped,   \* units an AT+UART command threw away unread
  changes,   \* AT+UART commands so far
  asserted   \* the code whose ASSERT failed and stopped the firmware

hwVars   == <<sent, base, late, rts, irq>>
taskVars == <<fifo, slot, tpc, tfree, tdone>>
histVars == <<delivered, dropped, changes, asserted>>
vars == <<hwVars, taskVars, notified, histVars>>

Running == asserted = "none"

-----------------------------------------------------------------------------
(* Hardware and host.                                                       *)

\* The unit a ring cell holds: the last one the DMA put there.
Stored(a) == sent - ((sent - base - 1 - a) % Size)

\* The host sends a unit and the DMA stores it; a slot it fills raises the interrupt, which
\* is served before the next unit has arrived.
DmaStore ==
  /\ Running
  /\ ~irq
  /\ sent < MaxSent
  /\ rts \/ late < Slack
  /\ irq' = ((sent + 1 - base) % SlotSize = 0)
  /\ sent' = sent + 1
  /\ late' = IF rts THEN 0 ELSE late + 1
  /\ UNCHANGED <<base, rts, taskVars, notified, histVars>>

SetRts(on) ==
  /\ rts' = on
  /\ late' = IF rts /\ ~on THEN 0 ELSE late

\* _hif_uart_rx_dma_done_size: how far the DMA is past slot_addr, round the ring's end.
DoneSize == (sent - base - slot) % Size

-----------------------------------------------------------------------------
(* Interrupt.                                                               *)

\* Variant: the units the task has not taken over from the DMA are not counted.
RtsOffFifoOnly == FreeSize(fifo) < Limit
RtsOff == FreeSize(fifo) - DoneSize < Limit

DmaIsr ==
  /\ Running
  /\ irq
  /\ irq' = FALSE
  /\ IF DoneSize <= FreeSize(fifo)
       THEN /\ IF RtsOff THEN SetRts(FALSE) ELSE UNCHANGED <<rts, late>>
            /\ notified' = TRUE
            /\ UNCHANGED asserted
       ELSE asserted' = "isr" /\ UNCHANGED <<rts, late, notified>>
  /\ UNCHANGED <<sent, base, taskVars, delivered, dropped, changes>>

-----------------------------------------------------------------------------
(* Receive task.                                                            *)

\* _hif_uart_rx_dma_update_fifo: the two sizes are read and checked.
UpdateRead ==
  /\ Running
  /\ tpc = "read"
  /\ IF DoneSize <= FreeSize(fifo)
       THEN /\ tfree' = FreeSize(fifo) /\ tdone' = DoneSize
            /\ tpc' = "rts"
            /\ UNCHANGED asserted
       ELSE asserted' = "task" /\ UNCHANGED <<tfree, tdone, tpc>>
  /\ UNCHANGED <<hwVars, fifo, slot, notified, delivered, dropped, changes>>

\* RTS is set from them, whatever has arrived meanwhile.  Variant: it is only taken back.
RtsOnKept == rts /\ tfree - tdone >= Limit
RtsOn == tfree - tdone >= Limit

UpdateRts ==
  /\ Running
  /\ tpc = "rts"
  /\ SetRts(RtsOn)
  /\ tpc' = IF tdone > 0 THEN "write" ELSE "take"
  /\ UNCHANGED <<sent, base, irq, fifo, slot, tfree, tdone, notified, histVars>>

\* The units become the ring's content.
UpdateFifo ==
  /\ Running
  /\ tpc = "write"
  /\ fifo' = FifoWrite(fifo, tdone)
  /\ tpc' = "slot"
  /\ UNCHANGED <<hwVars, slot, tfree, tdone, notified, histVars>>

\* next_slot_addr.  Variants: not turned round the end of the ring; what the DMA has reached
\* by now.
NextSlotNoWrap == slot + tdone
NextSlotNow == (sent - base) % Size
NextSlot == IF slot + tdone >= Size THEN slot + tdone - Size ELSE slot + tdone

UpdateSlot ==
  /\ Running
  /\ tpc = "slot"
  /\ slot' = NextSlot
  /\ tpc' = "take"
  /\ UNCHANGED <<hwVars, fifo, tfree, tdone, notified, histVars>>

\* _hif_fifo_read; _hif_rx_task calls atcmd_receive or, with nothing read, suspends.  The
\* task may stay in atcmd_receive for long before it reads again.
Take ==
  /\ Running
  /\ tpc = "take"
  /\ LET n == Smaller(FillSize(fifo), BufLen)
     IN /\ delivered' = delivered \o [i \in 1..n |-> Stored(PopAddr(fifo, i - 1))]
        /\ fifo' = FifoRead(fifo, n)
        /\ tpc' = IF n > 0 THEN "read" ELSE "suspend"
  /\ tfree' = 0 /\ tdone' = 0
  /\ UNCHANGED <<hwVars, slot, notified, dropped, changes, asserted>>

\* ulTaskNotifyTake returns: notified, or after 100 ms.  Variant: only when notified.
WakesNotified == notified
Wakes == TRUE

Resume ==
  /\ Running
  /\ tpc = "suspend"
  /\ Wakes
  /\ notified' = FALSE
  /\ tpc' = "read"
  /\ UNCHANGED <<hwVars, fifo, slot, tfree, tdone, histVars>>

\* Units stored and not yet read.
Unread == sent - dropped - Len(delivered)

\* The ring after _hif_uart_change.  Variant: not reset.
ChangedFifoKept == fifo
ChangedFifo == NewFifo(Size)

\* AT+UART=<baudrate>,1, run by atcmd_receive on units just delivered: _hif_uart_change
\* stops the DMA, sets the UART up anew and starts the DMA at the ring's first slot; what
\* was stored and not read is gone.  The UART comes up with RTS either way.
Change ==
  /\ Running
  /\ tpc = "read" /\ delivered # <<>>
  /\ changes < MaxChanges
  /\ changes' = changes + 1
  /\ base' = sent
  /\ irq' = FALSE /\ late' = 0 /\ rts' \in BOOLEAN
  /\ fifo' = ChangedFifo /\ slot' = 0
  /\ dropped' = dropped + Unread
  /\ UNCHANGED <<sent, tpc, tfree, tdone, notified, delivered, asserted>>

-----------------------------------------------------------------------------
\* _hif_uart_open has started the DMA and the receive task has been created.
Init ==
  /\ sent = 0 /\ base = 0 /\ late = 0 /\ rts \in BOOLEAN /\ irq = FALSE
  /\ fifo = NewFifo(Size) /\ slot = 0 /\ tpc = "read" /\ tfree = 0 /\ tdone = 0
  /\ notified = FALSE
  /\ delivered = <<>> /\ dropped = 0 /\ changes = 0 /\ asserted = "none"

TaskStep == UpdateRead \/ UpdateRts \/ UpdateFifo \/ UpdateSlot \/ Take \/ Resume

Next == DmaStore \/ DmaIsr \/ TaskStep \/ Change

Spec == Init /\ [][Next]_vars

\* The task gets its turns, and at the latest 100 ms after it suspended; interrupts are
\* taken.  Nothing is asked of the host.
FairSpec == Spec /\ WF_vars(TaskStep) /\ WF_vars(DmaIsr)

-----------------------------------------------------------------------------
TypeOK ==
  /\ sent \in Nat /\ base \in Nat /\ late \in 0..Slack /\ rts \in BOOLEAN /\ irq \in BOOLEAN
  /\ fifo \in FifoType(Size) /\ slot \in 0..(Size - 1)
  /\ tpc \in {"suspend", "read", "rts", "write", "slot", "take"}
  /\ tfree \in 0..Size /\ tdone \in 0..Size
  /\ notified \in BOOLEAN
  /\ delivered \in Seq(Nat) /\ dropped \in Nat /\ changes \in Nat
  /\ asserted \in {"none", "task", "isr"}

\* The DMA never stores over what has not been read, although the interrupt, the task's
\* stale view of the ring (hif_uart.c:233-243) and the host's slowness to stop add up:
\* of the Limit units kept free no more than two slots and twice the slack are used.  So
\* the receive task's assertion (hif_uart.c:236) holds.
HeadroomKept ==
  /\ Unread <= Size - Limit + 2 * SlotSize + 2 * Slack
  /\ asserted # "task"

\* What the DMA has stored is what the ring counts and what _hif_uart_rx_dma_done_size
\* (hif_uart.c:211-229) computes, which cannot tell a lap of the ring from none.
DoneIsUnread == tpc # "slot" => fifo.cnt + DoneSize = Unread

\* The interrupt's assertion (hif_uart.c:272): "ASSERT(done_size <= free_size)".
IsrAssert == asserted # "isr"

\* What the cells behind pop_idx hold, as far as it has not been read.
Inflight == [i \in 1..Unread |-> Stored(PopAddr(fifo, i - 1))]

Channel ==
  INSTANCE ChunkChannel WITH
    Lossy <- FALSE, LossyOnceRestarted <- FALSE, Repeats <- FALSE,
    written <- sent, inflight <- Inflight, epoch <- changes

\* atcmd_receive is given the units in the order they were sent, each once and none left
\* out, but for those that arrive while an AT+UART command is executed.
ImplementsChannel == Channel!ChanSpec

\* Every unit stored is delivered in the end, those of a slot that never fills too
\* (hif.c:165 suspends for 100 ms at most).
StoredIsRead == (Unread > 0) ~> (Unread = 0 \/ ~Running)

\* RTS does not stay off (hif_uart.c:243): the host is never stopped for good.
RtsComesBack == ~rts ~> (rts \/ ~Running)
=============================================================================
