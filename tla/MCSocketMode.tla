---------------------------- MODULE MCSocketMode ----------------------------
(***************************************************************************)
(* A record of two envelopes, one of none, an interaction, and one more    *)
(* connection than the app may have.                                       *)
(***************************************************************************)
EXTENDS SocketMode

MCFanout == [i \in Events |-> IF i = 1 THEN 2 ELSE 0]
=============================================================================
