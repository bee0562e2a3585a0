----------------------------- MODULE HifFifoOps -----------------------------
(***************************************************************************)
(* The byte ring of sdk/apps/atcmd/hif_fifo.c as operators on a record.     *)
(*                                                                          *)
(* push and pop are the free-running uint32_t push_idx and pop_idx; IdxMod  *)
(* stands for 2^32 (in the unit the caller counts in: bytes, or 512-byte    *)
(* slots for the HSPI rings).  An index selects a cell with idx % size, so  *)
(* the wrap of the index is harmless only when size divides IdxMod, which   *)
(* hif.h guarantees by its powers of two.                                   *)
(***************************************************************************)
EXTENDS Naturals, Integers

CONSTANT IdxMod

ASSUME IdxModAssumption == IdxMod \in Nat \ {0}

FifoType(size) == [size : {size}, cnt : Nat, push : Nat, pop : Nat]

\* _hif_fifo_create / _hif_fifo_reset: an empty ring.
NewFifo(size) == [size |-> size, cnt |-> 0, push |-> 0, pop |-> 0]

FreeSize(f) == f.size - f.cnt

FillSize(f) == f.cnt

Smaller(a, b) == IF a <= b THEN a ELSE b

\* offset may be negative: the sum is a uint32_t, so it wraps like the index.
PushAddr(f, offset) == ((f.push + offset) % IdxMod) % f.size

PopAddr(f, offset) == ((f.pop + offset) % IdxMod) % f.size

\* What _hif_fifo_write returns for a request of len units.
WriteLen(f, len) == IF len > 0 THEN Smaller(len, FreeSize(f)) ELSE 0

\* What _hif_fifo_read returns for a request of len units.
ReadLen(f, len) == IF len > 0 THEN Smaller(len, FillSize(f)) ELSE 0

FifoWrite(f, len) ==
  [size |-> f.size,
   cnt  |-> f.cnt + WriteLen(f, len),
   push |-> (f.push + WriteLen(f, len)) % IdxMod,
   pop  |-> f.pop]

FifoRead(f, len) ==
  [size |-> f.size,
   cnt  |-> f.cnt - ReadLen(f, len),
   push |-> f.push,
   pop  |-> (f.pop + ReadLen(f, len)) % IdxMod]
=============================================================================
