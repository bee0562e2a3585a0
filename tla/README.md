# A verification development for the NRC7394 SDK

The repository is the standalone SDK of Newracom's NRC7394 Wi-Fi HaLow chip: FreeRTOS firmware
in C, of which the AT-command firmware (`src/package/sdk/apps/atcmd`) is the largest first-party
program, and the Linux host programs that talk to it over SPI or UART
(`src/package/atcmd/host/raspi-atcmd-cli`). This directory holds TLA+ modules that model it, the
TLC configurations that check them, and proofs for TLAPS. Paths below are relative to
`src/package/`; `atcmd/` alone is `sdk/apps/atcmd/`, `host/` is `atcmd/host/raspi-atcmd-cli/`.

## 1. Inventory

| component | state | operations | interacts with |
|---|---|---|---|
| HIF byte ring `atcmd/hif_fifo.c` | `size cnt push_idx pop_idx` (uint32_t, free running) | create, reset, read, write, push/pop address, getc/putc | both transports |
| HSPI target `atcmd/hif_hspi.c` | two rings, `txq_total_cnt`, `rxq_total_cnt`, queue registers | open, close, read, write, events to the host, sleep, boot pulse | hardware queues, `hif.c` |
| HIF dispatch `atcmd/hif.c` | interface type, receive task | open, close, read, write, suspend, resume from ISR | AT core above, transports below |
| UART transport `atcmd/hif_uart.c`, `hif_dma.c` | DMA ring, RTS level, TX ring | open, close, change, read, write, four ISRs | `hif.c` |
| AT core `atcmd/atcmd_core.c` | transmit mutex, data mode, command buffer, history | receive, transmit, parse, data mode task, boot | all command groups |
| AT sockets `atcmd/atcmd_socket.c`, `lwip_socket.c` | socket list, send request, fd sets, event bits | open, close, send, receive, socket task | AT core, lwIP |
| AT firmware update `atcmd/atcmd_fota.c` | FOTA parameters, task, update buffer | enable, disable, update, task | AT core, HTTP client |
| AT Wi-Fi and basic commands | settings, connection state | command handlers | Wi-Fi library (objects only) |
| Host HSPI `host/nrc-hspi.c` | cached status block | open, reopen, read, write, event status | SPI bus |
| Host interface `host/raspi-hif.c`, `raspi-eirq.c`, `main.c` | mutex, pin event queue, receive thread | read, write, poll | `nrc-hspi.c`, `nrc-atcmd.c` |
| Host commands `host/nrc-atcmd.c` | ready flag, return value with mutex and condition | send command, receive message | command line, receive thread |
| Wi-Fi helpers, 45 samples | per sample | sequential API examples | Wi-Fi library |
| lib glue (HTTP, TCP CLI, W5500, lwIP port, iperf) | per library | | lwIP |
| vendored and object-only code | | | |

How they interact. The host sends commands and data through `raspi_hif_write`; a slot written to
the RX window interrupts the target, whose `_hif_rx_task` reads the ring and calls
`atcmd_receive`. Responses, events and received data go through `atcmd_transmit`, which holds the
transmit mutex until `_hif_write` took everything; each accepted part raises the READY event,
which the host's receive thread takes from the EIRQ pin. Reading the status block clears the
event (`nrc-hspi.h:128`), and both host threads read it. Deep sleep and restart wipe the target's
half of all this while the host keeps its own.

What is hard: the two ends share counts neither can update atomically; the host caches one of
them; an event is consumed by whichever host thread looks first; the target disappears and
comes back; on the target, the socket task, the receive task and the data-mode task share a
single send request without a lock; on the host, a command's reply is handed over by a condition
variable without a predicate. `PROJECT.json` lists the hazards one by one, with their lines.

What makes each component correct:

* HSPI link: bytes arrive in order, each once, and are lost only where a transfer fails or the
  target restarts; no posted slot is overwritten; posted data is read; a restarted target is
  served again.
* HIF ring: the same for a single producer and consumer, across the wrap of its indices.
* AT sockets: the caller of a send gets the result of its own send, once, and always gets one.
* Host commands: the value returned for a command is the reply to that command.
* Data mode: each announced byte is handed to exactly one consumer, and the mode is left once.
* UART: the DMA never overtakes the reader without an error, and RTS is released again.
* Firmware update: disabling and enabling the task leave one task or none and no used buffer freed.

## 2. Plan

In order of importance to the program, with what is done:

Done:

1. **`HspiTx`, `HspiRx`**: the HSPI link, both directions, against `ChunkChannel`, with the
   proofs in `HspiTxProofs` and `HspiRxProofs`.
2. **`SocketSend`**: the send request shared by the AT command, data mode and socket tasks, with
   the proofs in `SocketSendProofs`.
3. **`HifUart`**: the UART's DMA ring, its interrupt, the receive task and RTS, against the same
   `ChunkChannel`, with the proofs in `HifUartProofs`.
4. **`AtcmdDataMode`**: `atcmd_receive` and the data-mode task with its time-out, with the proofs
   in `AtcmdDataModeProofs`.
5. **`NrcAtcmd`**: the host's command/reply handover, with time-outs, restarts and sleep, with the
   proofs in `NrcAtcmdProofs`.
6. **`SocketRecv`**: active and passive receiving, the `ready` mask and the shared buffer.

To do:

7. Invariants of `SocketRecv`, checked and proved: who may write the shared buffer when, and that no
   data is delivered twice.
8. `AtcmdFota` and the firmware download, the data mode's other user; open and close of the link.
9. `HifFifo`: the ring as a state machine with putc/getc and the UART's receive interrupt, refining
   a bounded queue.
10. Composition: `SocketRecv` with `SocketSend`, whose socket task it shares; `NrcAtcmd` over the
    two channels.

Theorems worth proving: type correctness and the ring and count invariants of every transport
for every ring size; the refinement of `ChunkChannel`; ownership of the send request; whose reply a
command returns; what data mode counts and what it reads as a command. All of these are proved now
(section 5).

## 3. Modules

`HifFifoOps` is the ring's arithmetic as operators on a record. `IdxMod` stands for 2^32; the
assumption that the ring's size divides it (`RingAssumption`) is what `hif.h` gives by powers of
two, and the order of slots across a wrap depends on it. The unit is the 512-byte slot: every
read and write of the HSPI rings moves whole slots.

`ChunkChannel` is the abstract specification of one direction: `written`, the sequence
`inflight`, `delivered`, and the number of restarts. Constants say which breaks of order a
concrete link may make: `Lossy`, `LossyOnceRestarted`, `Repeats`.

`HspiTx` (target to host):

| variable | code |
|---|---|
| `txFifo`, `slots` | `g_hif_hspi_tx_fifo` and the memory behind it |
| `txTotal` | `txq_total_cnt` of `_hif_hspi_write` |
| `wpc wleft wupd wi` | the position, `len`, `txq_update_cnt` and `i` of `atcmd_transmit` and `_hif_hspi_write` |
| `txq`, `eirq`, `eirqOn`, `edges` | hardware: posted addresses, latched flags, enabled, pin events |
| `rpc` | position of `raspi_cli_recv_thread` |
| `cached want taken got` | `status.txq.slot_cnt`, `slot_num`, `i` and `buf` of `hspi_read` |

`_hif_hspi_write` is cut where the host can act between two of its accesses: `WriteReclaim`
(count read, ring popped, clamps), `WriteFill` (one slot filled), `WritePost` (one slot posted),
`WriteEvent` (total, READY). The receive thread is cut at its register accesses and slot
transfers; those inside one mutex section exclude `MainStatusUpdate`, the sending thread's
refresh from `hspi_write`.

`HspiRx` (host to target): `mpc left want put cur cached` are `nrc_atcmd_send` and `hspi_write`;
`rxFifo rxTotal tpc tupd ti rbuf` are `_hif_rx_task` and `_hif_hspi_read`, cut into `ReadReclaim`,
`ReadSlots`, `ReadPost`, `ReadReturn`, `ReadResume`.

`SocketSend` (socket data out of the AT firmware, `event_send = 1`):

| variable | code |
|---|---|
| `entry` | the id in each entry of `g_atcmd_socket`, -1 for a free one |
| `req` | `g_atcmd_socket_event_send`; its `no` only numbers the requests |
| `fdsRead fdsWrite bits` | `info->fds.read`, `info->fds.write`, `send_done_event` |
| `alive`, `dgram` | lwIP's open fds, and those of UDP sockets |
| `rpc rslot rno rfd` | the requester: the HIF receive task in `atcmd_socket_send_data`; `rslot` is the entry it sends on |
| `tpc`, `snap*`, `rdy*` | position of `_lwip_socket_task`, its sets before and after `select` |
| `tid tslot treq ti tretry` | locals of `_atcmd_socket_send_handler` and `__atcmd_socket_send_data`; `tslot` is the entry it sends on |
| `tclose tslot tfd tback` | locals of `_atcmd_socket_close`: the id to close or -1, `i`, the fd on its way to `close()`, the caller |
| `handed`, `reported` | history: bytes lwIP took, and `done` as told to the caller, per request |
| `took`, `told` | history: the same counts, of all requests together |
| `streams`, `crossed` | history: the requests on TCP sockets; whether the socket task's `close()` has hit a socket opened anew |

Both tasks have one priority (`lwip_socket.h:65`, `hif.h:39`) and are preempted, so the modules
let them interleave at any access to shared state: the requester's request, its reading of the
entry's id (`Call`), `SetWrite`, waiting and collecting; the socket task's snapshot, `select`, one
ready socket after the other, each call of `send`, and the three parts of an answer (`AnswerClear`,
`AnswerFill`, `AnswerTell`) and, for each entry that `_atcmd_socket_close` comes to, four of a close
(`CloseTell`, `CloseFdsClear`, `CloseFd`, `CloseReset`). The request points to an entry, whose id
both tasks read again each time they need it. When a send fails because the connection or the fd is
gone, the socket task closes the id the entry has by then (`BrokenClose`): -1 if it was reset
meanwhile, and then it closes every socket, as the code does (`atcmd_socket.c:460`, `:976`). Filling in a request is one step:
nobody looks at it before the fd is set. `_lwip_socket_send_done` clears the fd and sets the bit in one
step: only a time-out of the waiter could come between, with the same result as just before. A
close by the requester is one step too, and so are the reading of an entry's id for one call into
lwIP and that call. After the entry of a socket is reset its id is -1, which sets no fd and no bit. lwIP is external: `select` answers
any subset of what it is asked, and nothing once a closed fd is among it; on a TCP socket `send`
takes any part, runs out of memory, refuses, or finds the peer gone. A UDP send hands over datagram
by datagram (`ChunkMax` bytes, 1470 in the code) and, if a later one fails, returns the error alone:
`Uncounted` is what lwIP then took without being counted (`lwip_socket.c:1218-1260`). The error code
that a send returns is kept nowhere in the model: only what the code does about it.

`HifUart` (host to target over UART):

| variable | code |
|---|---|
| `sent`, `base`, `irq` | hardware: units the DMA has stored, the value at its last start, its terminal count interrupt |
| `rts`, `late` | the RTS line, and what came since it went off |
| `fifo`, `slot` | `g_hif_uart_rx_fifo`, and `slot_addr` of `g_hif_uart_rx_dma` from the ring's start |
| `tpc tfree tdone` | position, `free_size` and `done_size` of `_hif_uart_rx_dma_update_fifo` |
| `notified` | the notification of `_hif_rx_task` |

The DMA fills the ring in a circle of slots and interrupts after each; nothing stops it but the
host, through RTS. `_hif_uart_rx_dma_update_fifo` is cut at each access that the interrupt or the
DMA can fall between: `UpdateRead`, `UpdateRts`, `UpdateFifo`, `UpdateSlot`. The interrupt
(`DmaIsr`) is one step and is served before the next unit has arrived, as its priority and the
baud rate allow. `Change` is AT+UART: it runs in the receive task, so between two reads.

`AtcmdDataMode` (AT+SSEND):

| variable | code |
|---|---|
| `hpc hpass hlen hleft told` | the host: what it waits for, its `<length>`, what it owes, whether SEND_IDLE came after all it sent |
| `link` | the stream on its way, cut anywhere by `Receive` |
| `enable idle pass len cnt done drop` | `g_atcmd_data_mode`: `enable`, `idle`, `params.ssend.passthrough`, `send_len`, `cnt`, `send_done`, `send_drop` |
| `timer` | whether `send_timeout` has passed since `last_send_time` |
| `rpc rbuf cntExit rn rret` | `atcmd_receive`/`atcmd_receive_data`: position, the rest of the buffer, `cnt_exit_cmd`, what was handed to the socket and what it took |
| `at` | the command line read so far |
| `dpc notified` | `atcmd_data_mode_task` and its notification |

A unit is a piece of data, or half of the exit command; data may look like the command's first
half. The send itself is one call that takes any part (`SocketSend` is its inside). An event waits
for the transmit mutex, which the data-mode task holds while it tells SEND_IDLE.

`NrcAtcmd` (host):

| variable | code |
|---|---|
| `spc cmd` | position in `nrc_atcmd_send_cmd`, the command |
| `val woken` | `g_atcmd_info.ret.val`, and whether `ret.cond` was signalled for the waiting sender |
| `rem` | `data.rxd->length - data.cnt` of `nrc_atcmd_recv` |
| `down up asleep` | the two directions of the link, as lines and pieces of payload, and the target |
| `part` | the target's command line holds the beginning of a command whose write failed |
| `results` | what `nrc_atcmd_send_cmd` returned, with the number of the command the reply was for, or `Failed` |
| `missed upset cut` | history that names what the code does not handle: a signal before the wait, or a reply that cannot come; a wait ended otherwise, or a failed command executed all the same; a line cut by a restart |

The mutex sections are steps; between `nrc_atcmd_send` and the wait, between the time-out and the
value set for it, and between the wait and `nrc_atcmd_get_return` the receive thread may come. The
`raspi_hif_write` may fail at any point of a command (`WriteFails`): then nothing has arrived, or a
part that becomes the beginning of the target's next line, or enough to be executed, and
`nrc_atcmd_send_cmd` returns at once (`nrc-atcmd.c:257-265`, `:322`). The target answers commands in
order; ATZ and a watchdog restart it and cut what the link carries;
after deep sleep it sends BOOT and DEEPSLEEP_WAKEUP, and the host treats both as the end of a wait.

`SocketRecv` (socket data to the host):

| variable | code |
|---|---|
| `queue peer` | lwIP: unread data, and whether the peer has closed |
| `list fdsRead` | ids in `g_atcmd_socket`, `info->fds.read` |
| `passive ready` | `g_atcmd_socket_recv_config` |
| `rxd` | `g_atcmd_socket_rxd`: the socket it names and whose data it holds |
| `pc sid load todo left` | the receive task in AT+SRECV and the socket task: position, socket, the value of `ready` loaded for a change, the sockets still to serve, `len - i` |

`__atcmd_socket_recv_handler` is cut at the copy of the socket, `recv`, the OK and the message, since
both tasks run it and the transmit mutex is waited for in between.

The `MC` modules are the ones TLC runs; the `.cfg` files give the
constants. The `...Proofs` modules hold the proofs about the module they are named for;
`HifFifoProofs` has the lemmas about the ring and about sequences that the transports share,
`ModArith` those about `%`.

Operators whose comment speaks of a *variant* (`TxDoneAll`, `CountKept`, `AnswerStepsSwapped`, ...) state a mistake one
could make at that place; nothing uses them. Replacing the operator by its variant makes the
property that guards the place fail.

### Hardware, from how the code uses it

Not in the repository: the queue hardware, the EIRQ pin, the SPI bus. From the code in `src/`:

* a posted slot is consumed by one slot transfer of the host, oldest first, and lowers the count;
* a transfer with an empty TX queue returns no valid header (`host/nrc-hspi.c:631` handles it) and
  one with an empty RX queue either fails or is lost;
* `device_ready` and `device_sleep` latch a flag if the host enabled it; the pin is high while a
  flag is latched; reading the status block clears the latch (`nrc-hspi.h:128`);
* a restart clears queues, latch and enables (which is why the boot pulse and `hspi_reopen` exist);
* the kernel queues rising edges and drops those that do not fit.

## 4. Runs

| run | bounds | shows |
|---|---|---|
| `HspiTxFaults` | ring 2, counter 3, messages up to 3 slots, 5 slots in all, 1 restart, failing bus | ring and count invariants; lossy FIFO refinement |
| `HspiTxLive` | ring 3, counter 2, sound bus, 1 restart | loss only by restart; posted data is read; interrupts come back |
| `HspiRxFaults` | ring 3, counter 2, buffer 1 slot, 1 failing transfer, 1 restart | ring and count invariants; loss bounded; refinement |
| `HspiRxLive` | ring 2, counter 3, sound bus, 1 restart | sends end, sent slots are received |
| `SocketSendSound` | 2 fds (UDP or TCP), 2 entries, 2 requests of up to 2 bytes, datagrams of 1, 2 tries, peers stay | the request is found by its socket, answered with its own result, and ends |
| `SocketSendErrors` | the same, peers go away | the requester's buffer is read only during its call, but for one interleaving; no done bit is left |
| `SocketSendTimeout` | the same with requests of 1 byte, peers go away, SSEND time-out | never more reported than sent, all requests together |
| `HifUartRing` | ring of 14 units in slots of 2, limit 7, buffer 3, 1 late unit, 18 units, 1 AT+UART | nothing overwritten, all read in order, RTS comes back |
| `HifUartAssert` | the same | the interrupt's assertion fails (finding) |
| `AtcmdDataModes` | lengths 0 to 2 and passthrough, 3 units of data, 2 modes, 2 exit commands | exact counts, no data run as a command, idle is told |
| `NrcAtcmdReplies` | 3 commands, an RXD of 1 unit, 1 restart, 1 spurious wake-up or failing write | replies counted once, an undisturbed command gets its own or fails at once, commands end |
| `SocketRecvLabel` | 2 sockets, 1 unit each, 1 AT+SRECVMODE | an RXD message names the wrong socket (finding) |

Why these bounds are enough for what happens here: rings of two and three slots are filled,
wrapped and reused (the index wraps after two laps, so both the wrap of the ring and of the
index occur with 4 or 5 slots); messages of three slots exceed what one call can accept, so
`atcmd_transmit` and `nrc_atcmd_send` loop; counter below and above the ring size take either
clamp; one restart may come at any step, also while the host holds a cached count. Two sockets
and two requests are what it takes for a request to meet the flags, bit or late answer of an
earlier one, on the same or another socket; two entries let the close loop go past the one it is
about and let a socket move to another entry; two bytes are sent in part, on UDP as two datagrams of
which the second may fail; `RetryMax` 2 instead of 6000 reaches the last try. With a time-out a
request has one byte, so that run has no uncounted datagram: these only make `took` larger, and
`NotOverstated` is proved for every length. The UART's ring is passed once and a third of the way again; it is twice
the limit, the least the code allows (`hif_uart.c:407`), and the limit of 7 units is one more than
two slots and twice the slack (`HeadroomAssumption`), so the headroom is there and no more. In the data mode, two modes, a length of two and three units let a mode's end, the
next command and data fall into one buffer, and the exit command into two. Three commands are what
it takes for a late reply to meet a command after the next.

### What does not hold

Two runs refute what the code says of itself.

* `HifUartAssert`: `_hif_uart_rx_dma_inttc_isr` asserts `done_size <= free_size`
  (`atcmd/hif_uart.c:272`). Between `_hif_fifo_write` (`:259`) and the new `slot_addr` (`:261`) the bytes
  taken over count in both, so the assertion fails if the task has just taken over more than half
  of the ring. Nothing is lost then, but the release build keeps the assertion. In this
  window the interrupt may also take RTS off without need; the task's next pass sets it again.
* `SocketRecvLabel`: one `g_atcmd_socket_rxd` serves AT+SRECV in the receive task and the socket task.
  While AT+SRECV waits to transmit OK, the socket task copies another socket over it, and the RXD
  message names that one.

Not claimed by the repository, and so hazards only. When a peer goes away during a send, the socket
task's `_atcmd_socket_close` wakes the requester before the result is written and before the fd
sets are cleared (`atcmd_socket.c:460`, `:978`). With `Errors = TRUE` TLC shows that then

* `OwnResult` fails: 0 bytes are reported although some were taken;
* `RequestEnds` fails: a request made on the same socket before the fd sets are cleared is cleared
  with them, and the requester, which has no time-out by default, waits for ever;
* `RequestPresent` fails: a connection that is reset is readable and writable at once;
* `BufferStable` fails in one interleaving, which it excepts by name (`crossed`). The socket task has
  cleared the fd sets of a socket and not yet called `close()` (`lwip_socket.c:1067-1069`); the
  receive task closes the same socket and opens a new one, which gets the same fd and another entry;
  then `close()` hits that one. Its entry stays, and when lwIP gives the fd out again two entries have
  one id. Closing the one sets the done bit of a request on the other, whose caller leaves while the
  socket task may still come to serve it.

With an SSEND time-out `OwnResult` and `BufferStable` fail too: the socket task goes on with a
request whose caller has left. If that caller closes the socket, the next send fails on the id -1 and
every socket is closed. And always, on UDP: datagrams of a call that failed at a later one are not
counted, and the retry sends them again, so `OwnResult` demands the exact count of TCP sockets only
and of UDP sockets that it is not too high. No comment, document or test of the repository says otherwise, so
these are hazards, and the properties are checked where they hold. Likewise:

* a reply that comes before `pthread_cond_wait` is missed (`host/nrc-atcmd.c:211`); `CommandEnds`
  names this exception (`missed`). A late reply, or the second of BOOT and DEEPSLEEP_WAKEUP, is
  returned for a later command; `OwnReply` is stated until something of the kind happens (`upset`).
  A spurious wake-up does the same, and so does a command whose write failed after all but its line
  feed had arrived: it is executed, and its reply is returned for the next one. A part that arrived
  spoils the next command: the target answers it with an error, or drops it as no command at all
  (`atcmd_core.c:1553`), and then the host waits for ever (`missed`). An AT+SRECV whose `recv` gives nothing sends no reply at all
  (`atcmd_socket.c:1791`), and the host waits for ever: `NrcAtcmd` has only commands that answer;
* bytes at the end of a buffer that look like the exit command are swallowed, and are neither sent
  nor counted if they turn out to be data (`atcmd_core.c:1839`); `took` counts what is taken as data.
  A mode of fixed length that the exit command ends reports SEND_EXIT with both counts zero, and what
  was in `_buf` is in neither (`atcmd_core.c:1822-1832`): `ReportExact` names it (`left`), and says that
  this happens only if nothing was sent. If SEND_IDLE goes
  out between the return of a send and `atcmd_data_mode_continue`, the mode is not idle any more when
  the exit command comes, and the command is taken as data;
* a change of `ready` in one task may undo the other's, and AT+SRECVMODE clears it without putting
  the sockets back into `fds.read` (`atcmd_socket.c:1787`, `:1870`): data then waits for an AT+SRECV.

Bounds (besides sizes such as `SlotNum` and `ChunkMax`): `MaxMsg`, `MaxChunks`, `MaxEdges`, `MaxFails`, `MaxResets`; `MaxLen`, `MaxReq`; `MaxSent`,
`MaxChanges`; `MaxData`, `MaxModes`, `MaxExits`; `MaxCmds`, `MaxRxd`, `MaxResets`, `MaxFaults`. In the HSPI runs, when `MaxChunks` is used up
nobody sends any more: the remaining deadlock states do not arise because the receive thread's
status refresh and the receive task's polling are always possible.

Fairness. `WF(WriterStep)`, `WF(BootStep)`, `WF(ReadStep)`: tasks of the target that are ready run
under FreeRTOS. `WF(RecvStep)`, `WF(SendStep)`: host threads run. No fairness is assumed of
message arrival, sleep, restarts, failures, or of the other thread's refresh. In `SocketSend`,
`WF(RequesterStep)` and `WF(SocketTask)` for the two tasks, and for each socket SF of a `select`
that finds it writable: its peer goes on reading, and `select` is asked about it again and again.
Only with that can a send without time-out end. In `HifUart`, `WF(TaskStep)` (the task wakes after
100 ms at the latest) and `WF(DmaIsr)`; in `AtcmdDataMode`, `WF(ReceiveStep)`, `WF(TaskStep)` and
`WF(Expire)` (time passes), where a send is assumed to return, which `RequestEnds` of `SocketSend`
says; in `NrcAtcmd`, `WF(SenderStep)`, `WF(Receive)` and `WF(TargetStep)`. Nothing is asked of the
host: it may stop at any time, and a failed assertion stops the UART's firmware, which is why these
runs do not check for deadlock.

## 5. Proofs

Every safety property the runs check, but for the two that fail, is a theorem of its module for
all values of the constants, and so are the refinements of `ChunkChannel`. In each module the
argument is an inductive invariant `IInv`, checked by TLC before it was proved: it holds initially,
each action keeps it (one lemma or step per action), and it implies the property.

| module | theorem | property | hypotheses |
|---|---|---|---|
| `HspiTxProofs` | `TypeCorrect` `AccountingCorrect` `RingOrder` `CacheSafe` `PostedIntact` | `TypeOK` `SlotAccounting` `PostedInRingOrder` `CachedWithinPosted` `NoFillOverPosted` | |
| | `LinkIsChannel` | `ImplementsChannel` | |
| `HspiRxProofs` | `TypeCorrect` `AccountingCorrect` `RingOrder` `UnreadIntact` `LossesBounded` | `TypeOK` `RxAccounting` `RxPostedInRingOrder` `NoPostOverUnread` `LossBounded` | |
| | `LinkIsChannel` | `ImplementsChannel` | |
| `HifUartProofs` | `TypeCorrect` `DoneCorrect` `HeadroomCorrect` | `TypeOK` `DoneIsUnread` `HeadroomKept` | |
| | `LinkIsChannel` | `ImplementsChannel` | |
| `AtcmdDataModeProofs` | `TypeCorrect` `ExitPrefixCorrect` `ReportCorrect` `DataStaysData` | `TypeOK` `ExitPrefixIdle` `ReportExact` `DataNotParsed` | |
| `NrcAtcmdProofs` | `TypeCorrect` `RepliesOnce` `OwnReplies` | `TypeOK` `ReplyOnce` `OwnReply` | |
| `SocketSendProofs` | `TypeCorrect` `NeverOverstated` | `TypeOK` `NotOverstated` | |
| | `NoBitLeft` `BufferOwned` | `NoStaleBit` `BufferStable` | `NoTimeout` |
| | `RequestFound` `ResultIsOwn` | `RequestPresent` `OwnResult` | `NoTimeout`, `Calm` |

`NoTimeout` (no SSEND time-out is configured, the default) and `Calm` (no peer goes away) are
hypotheses because without them the properties fail, as section 4 says. Nothing else is assumed but
the named assumptions on the constants, which TLC evaluates in every run. They give kinds and ranges,
and two say more:

* `RingAssumption`: the ring's size divides `IdxMod`, that is 2^32: `hif.h` gives powers of two;
* `HeadroomAssumption` (UART): the limit exceeds two slots and twice the slack. The code's limit is
  8 KiB, 64 of its slots of 128 bytes, and the slack is what the host still sends after RTS went off.
  It is the weakest bound the argument gives, and `HifUartRing` runs just above it.

### HSPI link

Target to host: `IInv` adds `WriterInv` (what the local variables of
`_hif_hspi_write` are worth at each position) and `ReaderInv` (`taken <= want <= cached` in
`hspi_read`). Why they are needed: `SlotAccounting` alone does not survive `WriteFill`, which needs
to know that the room for the remaining slots was checked before; and `CachedWithinPosted` does
not survive `RecvDeliver` without the relation of `want` and `cached`. `PostedInRingOrder` says
where every posted slot lies relative to `push_idx`; from it, the count bound and arithmetic
modulo `SlotNum` follows that the next slot to fill is none of them. That arithmetic (`%` over
`+`, and that two offsets less than the ring apart differ modulo it) is `ModArith`, proved from
the definition of `%`.

Host to target: `ReaderInv` says what `_hif_hspi_read` knows while it posts: it will end with as many
slots full or out as the ring and the 6-bit counter together allow (`Most`). Without that sum a
suspended task could have too few slots out for the host ever to wake it. `LossInv` bounds the slots
lost so far and also those the host *would* lose if nothing were posted any more (`Due`): a restart
clears the queue but not the host's cached count, so the losses come after it and `LossBounded`
alone is not inductive. `Linked` says that the ring's two indices and its count agree modulo
`IdxMod`; it is what makes the slot posted next differ from all that is unread.

### UART

The same bytes are counted three ways: by the ring, by `slot_addr` and by the DMA's own position, each
known only round the end of the ring. `RingInv` says how they agree at every position of the receive
task. They tell a full ring from an empty one only as long as less than a ring is unread, and that
rests on RTS. `RtsInv` bounds what is unread: with RTS on, by the room the limit keeps, a slot and
the slack and what has come since the last interrupt; with RTS off, by that of one whole slot and what
was late. The receive task may set RTS on from sizes that were out of date (`Stale`); just before it
does, one slot and slack less is unread, so at most one such mistake is ever made. This is why two
slots and twice the slack are needed.

### Refinement of `ChunkChannel`

In all three transports what is in flight is read off the concrete state: for `HspiTx` what the host
has transferred but not returned, then what the memory holds at the posted addresses and at the slots
filled and not posted; for `HspiRx` what is copied but not returned, then the ring's content and the
slots out that the host has written; for `HifUart` all that is stored and unread. The
proof has one lemma per action, saying which action of the channel it is (`WriteChunk`, `DeliverChunks`,
`Restart`, a loss or repetition) or that it is none. Nearly all the work is to show that the memory
still holds what was written there, which is where the ring invariants (`PostedIntact`, `UnreadIntact`,
`DoneCorrect`) are used, and that cutting and appending the abstract sequence is what the index
arithmetic does (`HifFifoProofs`: `SplitConcat`, `AppendConcat`, `HeadMoves`). For the UART the
sequence has a closed form, the run of consecutive numbers `Run(Gone, Unread)`, since the DMA stores
units in order.

### Data mode

`ModeInv` and `CountInv` say what `cnt`, `send_len` and the two sums are worth at each position of
`atcmd_receive_data`, and what the socket took that they do not say yet (`Settled`). `DataNotParsed`
speaks of two parties that cannot see each other: that no data meets the command line follows from
the order of what the host has on the way (`StreamInv`: all data before the next AT+SSEND), and from
how much of it the mode still takes (`DataLeft`, `HostInv`: no more data is on its way than the mode's
length leaves). The order is stated over positions of the stream, so that cutting it into buffers at
any place changes nothing.

### Host commands

A result carries no number, so a command gets its own reply only by order. `NumInv`, `UpNums` and
`DownNums` say that the replies returned, the one held in `g_atcmd_info.ret`, the ones on the way up
and the commands on the way down have increasing numbers, all below the next to be issued; `ReplyOnce`
follows with time-outs, failing writes and spurious wake-ups, for these only skip numbers. `PayloadInv` says that a
header's payload follows it as long as nothing was cut by a restart, so that payload is not read as a
reply. `OwnInv` needs all of it: while nothing but replies has ended a wait, the reply in hand is the
one to the command in hand, and nothing on the link is of an older one (`CurrentInv`).

### Socket sends

Types hold by themselves, whatever is configured. `NotOverstated` needs `TotalInv`: a byte that lwIP took is
counted in `ti` until the answer is filled in, then in the request's `done`, then in what
callers were told, and never in two of them, even when a late answer lands in the next
request; an uncounted datagram makes the room larger, never smaller. The sums over all requests are kept as counters (`took`, `told`).

The ownership invariant `IInv` says which entry and number the outstanding request has
(`RequestInv`); as long as no `close()` has hit a re-opened socket (`crossed`), that an id is in one
entry and open, but for the one the close loop is about to reset (`EntryInv`); that `fds.write` and the done bits belong to the waiting requester and are never
both set (`WaitInv`); that once the requester is told, its socket finds the request again only if
the socket task is just closing that socket, or not before its next `select` (`ToldInv`); and what
the socket task holds while it serves (`ServedInv`). `BufferStable` needs `ToldInv`: without it
nothing excludes that a request whose caller is leaving is served a second time, as `select` may
have reported its socket long before.

While peers stay, `CalmInv` adds that only the requester closes sockets (`ListInv`); that what `select`
was asked, found, or is being served is the request waited for (`TurnInv`); and what
may be reported of that request, from its first byte to the caller's answer (`CountInv`).

### Only model-checked

All liveness (`PostedIsRead`, `HostFollowsReboot`, `SendEnds`, `SentIsReceived`, `RequestEnds`,
`StoredIsRead`, `RtsComesBack`, `IdleIsTold`, `CommandEnds`): the prover has no rule for fairness or
ENABLED. `SocketRecv` has no theorem: its run refutes a property, and its invariants are still to come. The
two findings are counterexamples, which TLC shows. All proved properties stay in the runs as well.

## 6. Not modelled

Slot headers, sequence numbers (logged, never acted on), CRC and command retry inside a
transfer, register set-up and pins; the content of messages. A sleep is
entered between two transmissions. The target's boot is taken to last longer than the receive
thread's current pass (guard of `BootEvent`); without this the BOOT message may be drained
before the pulse and the interrupts stay disabled, see the hazards. Of the UART: receiving by interrupt
(`hfc_rx_irq`), operation without flow control, where a full lap of the DMA goes unseen, an AT+UART that
fails, and sending. Of the data mode: the firmware download and the flash
commands, which use it with a fixed length, and the line editor, history and tables of the command
parser. Of the link: a slot that `hspi_write` sends again because its transfer was reported as failed
(`HspiRx`, `host/nrc-hspi.c:805`) is not carried into `NrcAtcmd`, whose link loses data only by a
restart or a failing write and repeats none. Of the host's commands: what the parser makes of a message's parameters, and the `ready` flag, which
decides only whether an error is logged. Of the sockets: listening and accepting,
sends that do not go through the socket task (`event_send = 0`), and addresses; in
`SocketRecv`, an active read with nothing to read repeats until something comes, as the code's loop does.
The components of section 1
not named in section 3 are listed in `PROJECT.json` with their reason.
