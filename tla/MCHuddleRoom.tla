---------------------------- MODULE MCHuddleRoom ----------------------------
(***************************************************************************)
(* Two participants, one of whom sends a second publish offer: from a      *)
(* second page, or after the first connection failed.                      *)
(***************************************************************************)
EXTENDS HuddleRoom

CONSTANTS a, b, a1, a2, b1

MCOwner == [c \in {a1, a2, b1} |-> IF c = b1 THEN b ELSE a]
=============================================================================
