------------------------------ MODULE MCHspiRx ------------------------------
(***************************************************************************)
(* HspiRx for TLC: rings of two and three slots, one receive buffer slot,   *)
(* messages longer than the ring, and one restart.                          *)
(***************************************************************************)
EXTENDS HspiRx
=============================================================================
