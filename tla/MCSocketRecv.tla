---------------------------- MODULE MCSocketRecv ----------------------------
(* SocketRecv for TLC: two sockets with one unit of data each. *)
EXTENDS SocketRecv

MCIds == {0, 1}
=============================================================================
