--------------------------- MODULE MCAtcmdDataMode ---------------------------
(***************************************************************************)
(* AtcmdDataMode for TLC: two modes, sends of up to two units, exit         *)
(* commands that come too late.                                             *)
(***************************************************************************)
EXTENDS AtcmdDataMode
=============================================================================
