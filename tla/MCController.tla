---------------------------- MODULE MCController ----------------------------
(* Two processes share one control store.                                  *)
EXTENDS Controller

CONSTANTS r1, r2
=============================================================================
