--------------------------- MODULE MCListenThread ---------------------------
(* Instances of ListenThread for TLC. *)
EXTENDS ListenThread

CONSTANTS p1, p2, p3
=============================================================================
