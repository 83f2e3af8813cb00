------------------------------ MODULE MCWorker ------------------------------
(* Instances of Worker for TLC. *)
EXTENDS Worker, TLC

CONSTANTS c1, c2, x1, x2, x3

\* x1 and x3 carry the same code.
MCCode == x1 :> 1 @@ x2 :> 2 @@ x3 :> 1
=============================================================================
