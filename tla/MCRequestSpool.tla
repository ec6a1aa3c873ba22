--------------------------- MODULE MCRequestSpool ---------------------------
(***************************************************************************)
(* Replicas as model values.  They are interchangeable: no definition      *)
(* tells one from another.                                                 *)
(***************************************************************************)
EXTENDS RequestSpool, TLC
CONSTANTS a, b
Symmetry == Permutations(Replicas)
=============================================================================
