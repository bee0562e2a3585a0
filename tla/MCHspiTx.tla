------------------------------ MODULE MCHspiTx ------------------------------
(***************************************************************************)
(* HspiTx for TLC: rings of two and three slots whose index wraps after two   *)
(* laps, messages larger than what fits, one restart.                         *)
(***************************************************************************)
EXTENDS HspiTx
=============================================================================
