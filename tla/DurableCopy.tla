----------------------------- MODULE DurableCopy -----------------------------
(***************************************************************************)
(* What scale to zero promises about the data, with no lifecycle in sight: *)
(* there is one authoritative copy; it advances by accepted writes, and    *)
(* only an operator's request for a restore may take it back.              *)
(***************************************************************************)
EXTENDS Naturals

VARIABLES copy,     \* the version the authoritative copy holds
          newest,   \* the newest version ever written
          override  \* an operator asked for a restore; the stack has not
                    \* served since

vars == <<copy, newest, override>>

Init == copy = 0 /\ newest = 0 /\ override = FALSE

\* A write is accepted: the authoritative copy holds it.
Accept == /\ newest' = newest + 1
          /\ copy' = newest + 1
          /\ UNCHANGED override

\* An operator asks for a restore, at any time.
Ask == /\ override' = TRUE
       /\ UNCHANGED <<copy, newest>>

\* Until the stack serves again the copy may be any version ever written, and
\* writes of what is still running may miss it.
Override == /\ override
            /\ newest' \in {newest, newest + 1}
            /\ copy' \in 0..newest'
            /\ UNCHANGED override

\* The stack serves the copy it ended up with.
Serve == /\ override' = FALSE
         /\ UNCHANGED <<copy, newest>>

Next == Accept \/ Ask \/ Override \/ Serve

Spec == Init /\ [][Next]_vars
=============================================================================
