------------------------------ MODULE MCStack -------------------------------
(***************************************************************************)
(* The bounds of each instance are in its configuration.                   *)
(***************************************************************************)
EXTENDS Stack
=============================================================================
