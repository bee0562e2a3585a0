---------------------------- MODULE MCSocketSend ----------------------------
(* TLC instances of SocketSend; the constants are in the cfg files. *)
EXTENDS SocketSend

MCIds == {0, 1}
=============================================================================
