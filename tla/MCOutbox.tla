------------------------------ MODULE MCOutbox -------------------------------
(***************************************************************************)
(* Two workers, as model values, over a short outbox.                      *)
(***************************************************************************)
EXTENDS Outbox
CONSTANTS u, v
=============================================================================
