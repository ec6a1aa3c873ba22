---------------------------- MODULE MCScheduler -----------------------------
(***************************************************************************)
(* Two workers and a send-now call over an item or two of each kind.       *)
(***************************************************************************)
EXTENDS Scheduler
CONSTANTS u, v, s, m, q, r, a
=============================================================================
