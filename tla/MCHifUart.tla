------------------------------ MODULE MCHifUart ------------------------------
(***************************************************************************)
(* HifUart for TLC: a ring of seven slots of two units, of which half is    *)
(* kept free, and a host that goes on for one unit once RTS is off.         *)
(***************************************************************************)
EXTENDS HifUart
=============================================================================
