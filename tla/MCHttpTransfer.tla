--------------------------- MODULE MCHttpTransfer ---------------------------
(* Instances of HttpTransfer for TLC. *)
EXTENDS HttpTransfer, TLC

CONSTANTS o1, o2

\* The objects are interchangeable.
Symmetry == Permutations(Objects)
=============================================================================
