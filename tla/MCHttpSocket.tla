---------------------------- MODULE MCHttpSocket ----------------------------
(* Instances of HttpSocket, which contains SocketIO, for TLC. *)
EXTENDS HttpSocket
=============================================================================
