----------------------------- MODULE MCNrcAtcmd -----------------------------
(***************************************************************************)
(* NrcAtcmd for TLC: three commands of any kind, one RXD message, one       *)
(* watchdog restart, one spurious wake-up or write that fails.              *)
(***************************************************************************)
EXTENDS NrcAtcmd
=============================================================================
