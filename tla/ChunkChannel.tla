---------------------------- MODULE ChunkChannel ----------------------------
(***************************************************************************)
(* What one direction of the HSPI link promises to the code above it        *)
(* (atcmd_transmit on the target, nrc_atcmd_recv on the host, and the two   *)
(* ends the other way round): chunks numbered in the order they were        *)
(* written come out in that order, each at most once and none in between    *)
(* left out.  A chunk is the payload of one slot.                           *)
(*                                                                          *)
(* What may break a clause is named: a restart of the target forgets what   *)
(* its rings hold, a link that is Lossy may drop chunks when a transfer     *)
(* fails, one that is LossyOnceRestarted may drop them after a restart, and *)
(* one that Repeats may carry the last chunk again when a transfer that did *)
(* arrive was reported as failed.                                           *)
(***************************************************************************)
EXTENDS Naturals, Sequences

CONSTANTS Lossy, LossyOnceRestarted, Repeats

VARIABLES
  written,    \* number of chunks written so far; chunk ids are 1..written
  inflight,   \* the chunks written and not delivered, oldest first
  delivered,  \* the chunks the receiver has been given
  epoch       \* number of target restarts

chanVars == <<written, inflight, delivered, epoch>>

ChanInit ==
  /\ written = 0
  /\ inflight = <<>>
  /\ delivered = <<>>
  /\ epoch = 0

WriteChunk ==
  /\ written' = written + 1
  /\ inflight' = Append(inflight, written + 1)
  /\ UNCHANGED <<delivered, epoch>>

DeliverChunks ==
  \E k \in 1..Len(inflight) :
    /\ delivered' = delivered \o SubSeq(inflight, 1, k)
    /\ inflight' = SubSeq(inflight, k + 1, Len(inflight))
    /\ UNCHANGED <<written, epoch>>

\* Some consecutive chunks disappear.
Drop ==
  \E i \in 0..Len(inflight) : \E j \in i..Len(inflight) :
    inflight' = SubSeq(inflight, 1, i) \o SubSeq(inflight, j + 1, Len(inflight))

LoseChunks ==
  /\ Lossy \/ (LossyOnceRestarted /\ epoch > 0)
  /\ Drop
  /\ UNCHANGED <<written, delivered, epoch>>

\* A chunk written and lost at once: it never was in flight.
LoseWritten ==
  /\ LossyOnceRestarted /\ epoch > 0
  /\ written' = written + 1
  /\ UNCHANGED <<inflight, delivered, epoch>>

RepeatChunk ==
  /\ Repeats
  /\ written > 0
  /\ inflight' = Append(inflight, written)
  /\ UNCHANGED <<written, delivered, epoch>>

Restart ==
  /\ Drop
  /\ epoch' = epoch + 1
  /\ UNCHANGED <<written, delivered>>

ChanNext ==
  \/ WriteChunk \/ DeliverChunks
  \/ LoseChunks \/ LoseWritten \/ RepeatChunk \/ Restart

ChanSpec == ChanInit /\ [][ChanNext]_chanVars
=============================================================================
