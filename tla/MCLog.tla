------------------------------- MODULE MCLog -------------------------------
(* Instances of Log for TLC. *)
EXTENDS Log

CONSTANTS w1, w2
=============================================================================
