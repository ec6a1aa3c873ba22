--------------------------- MODULE LifecycleRecord ---------------------------
(***************************************************************************)
(* The durable lifecycle record of internal/lifecycle/state.go and the     *)
(* successor record each transition of Controller builds from it.  A       *)
(* transition names the fields it changes; carryLocked carries the rest.   *)
(*                                                                         *)
(*   state     State                                                       *)
(*   gen       Generation, the fencing generation                          *)
(*   deadline  WakeDeadline, 0 when there is none                          *)
(*   sa        SnapshotAuthoritative: the published snapshot, and not the  *)
(*             active volume, is the newest complete copy of the data      *)
(*   rg        RestoreGeneration: the snapshot generation an operator      *)
(*             selected for the attempt that owns the fence, 0 for none    *)
(***************************************************************************)
EXTENDS Naturals

States == {"hibernated", "waking", "active", "quiescing",
           "snapshotting", "stopping", "failed"}

StateRecords == [state : States, gen : Nat, deadline : Nat,
                 sa : BOOLEAN, rg : Nat]

\* The seed cmd/activator writes verbatim into a control store that never ran:
\* nothing has been published, so the snapshot has no authority.
Seed == [state |-> "hibernated", gen |-> 0, deadline |-> 0,
         sa |-> FALSE, rg |-> 0]

-----------------------------------------------------------------------------
(* Guards: the states from which each transition is accepted.              *)

CanWake(r)            == r.state = "hibernated"
CanAcknowledge(r)     == r.state = "failed"
CanOperatorRestore(r) == r.state \in {"failed", "hibernated"}
CanDeclare(r)         == r.state = "waking"
CanRecover(r)         == r.state \in {"quiescing", "snapshotting", "stopping"}
CanFail(r)            == r.state \in {"waking", "quiescing", "snapshotting", "stopping"}

(* Successor records.                                                      *)

DeadlineSet(r, d)     == [r EXCEPT !.deadline = d]

\* BeginWake: a new fence; authority and deadline carried, consent dropped.
WakeBegun(r)          == [r EXCEPT !.state = "waking", !.gen = r.gen + 1, !.rg = 0]

\* Mutant: acknowledging a failure claims the snapshot is the newest copy.
AckGrantsAuthority(r) ==
    [r EXCEPT !.state = "hibernated", !.gen = r.gen + 1, !.rg = 0, !.sa = TRUE]

\* AcknowledgeFailure: a new fence back to hibernated; authority carried.
FailureAcknowledged(r) ==
    [r EXCEPT !.state = "hibernated", !.gen = r.gen + 1, !.rg = 0]

\* BeginOperatorRestore: consent to generation g under a new fence.  Authority
\* is a claim about bytes and is left alone.
OperatorRestoreBegun(r, g) ==
    [r EXCEPT !.state = "waking", !.gen = r.gen + 1, !.rg = g]

SnapshotDeclared(r)   == [r EXCEPT !.sa = TRUE]
VolumeDeclared(r)     == [r EXCEPT !.sa = FALSE]

\* BeginRecovery keeps the fence of the interrupted hibernation.
RecoveryBegun(r)      == [r EXCEPT !.state = "waking"]

\* Mutant: Activate consumes a deadline that is still to come.
ActivateDropsDeadline(r, now) ==
    [r EXCEPT !.state = "active", !.sa = FALSE, !.rg = 0, !.deadline = 0]

\* Mutant: the deadline is kept as the time that remains to it.
ActivateStoresRemaining(r, now) ==
    [r EXCEPT !.state = "active", !.sa = FALSE, !.rg = 0,
              !.deadline = IF r.deadline = 0 THEN 0 ELSE r.deadline - now]

\* Activate: the volume serves, consent is spent, an elapsed deadline is met.
Activated(r, now) ==
    [r EXCEPT !.state = "active", !.sa = FALSE, !.rg = 0,
              !.deadline = IF r.deadline # 0 /\ r.deadline <= now
                           THEN 0 ELSE r.deadline]

\* Mutant: hibernation reuses the fence of the stack it stops.
HibernateReusesFence(r) == [r EXCEPT !.state = "quiescing"]

HibernateBegun(r)     == [r EXCEPT !.state = "quiescing", !.gen = r.gen + 1]
SnapshotBegun(r)      == [r EXCEPT !.state = "snapshotting"]

\* BeginStop grants snapshot authority: the manifest of this fence is current.
StopBegun(r)          == [r EXCEPT !.state = "stopping", !.sa = TRUE]
HibernateCompleted(r) == [r EXCEPT !.state = "hibernated"]

\* Mutant: a failed attempt keeps the operator's selection.
FailKeepsConsent(r)   == [r EXCEPT !.state = "failed"]

\* Fail ends the attempt and its consent; authority is carried.
Failed(r)             == [r EXCEPT !.state = "failed", !.rg = 0]
=============================================================================
