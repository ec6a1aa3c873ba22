---------------------------- MODULE RequestSpool ----------------------------
(***************************************************************************)
(* The cold-request spool of internal/activator: activator replicas that   *)
(* share one durable queue (spool.go), each with the requests waiting on   *)
(* it, a drain worker and the spoolDrained flag that decides whether the   *)
(* next request is spooled or proxied directly (handler.go).               *)
(*                                                                         *)
(* Rows are numbered in the order they were accepted.  A lease lapses when *)
(* nobody renews it, or, at the price of one fault, while its owner still  *)
(* works.  Bodies, headers and byte counts are left out: every request     *)
(* takes one unit of the queue's capacity.                                 *)
(***************************************************************************)
EXTENDS Naturals, FiniteSets

CONSTANTS Replicas,      \* activator processes, by their stable spool owner
          MaxRequests,   \* bound on accepted requests
          Capacity,      \* SpoolLimits.MaxQueuedRequests
          MaxTroubles    \* bound on crashes, faults and stops of the stack

ASSUME SpoolAssumption ==
    /\ Replicas # {} /\ IsFiniteSet(Replicas)
    /\ MaxRequests \in Nat /\ Capacity \in Nat \ {0}
    /\ MaxTroubles \in Nat
    /\ "none" \notin Replicas

VARIABLES
    active,      \* the lifecycle record says ACTIVE
    rows,        \* rows[i]: the row of request i
    foreign,     \* rows sealed under a key no replica holds any more
    count,       \* requests accepted so far
    home,        \* home[i]: the replica that accepted i
    client,      \* client[i]: what the caller of i was told
    up,          \* replicas that run
    drained,     \* drained[r]: spoolDrained
    lock,        \* lock[r]: the request in whose name queueMu is held, or 0
    spawned,     \* spawned[r]: requests whose processSpool goroutine is to run
    refusing,    \* refusing[r]: those whose goroutine got an error back
    sawEmpty,    \* sawEmpty[r]: drainLoop read Pending = 0, Store is to come
    drain,       \* drain[r]: the processSpool call that holds drainMu
    forwards,    \* forwards[i]: how often i was handed to the stack
    faults,      \* faults[i]: what went wrong around a delivery of i
    troubles     \* crashes, faults and stops so far

vars == <<active, rows, foreign, count, home, client, up, drained, lock, spawned,
          refusing, sawEmpty, drain, forwards, faults, troubles>>

queue   == <<rows, foreign, count>>
callers == <<home, client>>
audit   == <<forwards, faults>>
world   == <<active, troubles>>
threads == <<spawned, refusing>>
local   == <<up, drained, lock, threads, sawEmpty>>

Ids    == 1..MaxRequests
Owners == Replicas \cup {"none"}

RowRecords == [st : {"absent", "queued", "poisoned", "deleted"},
               owner : Owners, leased : BOOLEAN]

\* pc: "ensure" ensureActive, "claim", "empty" the claim found nothing,
\* "forward" the stack works on id, "delete", "complete" and "completeErr" tell
\* the waiter of id, "fail" processSpool returns an error to the goroutine of by.
Drains == [pc : {"idle", "ensure", "claim", "empty", "forward", "delete",
                 "complete", "completeErr", "fail"},
           by : Ids \cup {0}, id : Ids \cup {0}, failed : BOOLEAN]

NoDrain == [pc |-> "idle", by |-> 0, id |-> 0, failed |-> FALSE]

TypeOK ==
    /\ active \in BOOLEAN
    /\ rows \in [Ids -> RowRecords] /\ foreign \subseteq Ids
    /\ count \in 0..MaxRequests
    /\ home \in [Ids -> Owners]
    /\ client \in [Ids -> {"absent", "waiting", "answered", "refused", "cut"}]
    /\ up \subseteq Replicas
    /\ drained \in [Replicas -> BOOLEAN]
    /\ lock \in [Replicas -> Ids \cup {0}]
    /\ spawned \in [Replicas -> SUBSET Ids] /\ refusing \in [Replicas -> SUBSET Ids]
    /\ sawEmpty \in [Replicas -> BOOLEAN]
    /\ drain \in [Replicas -> Drains]
    /\ forwards \in [Ids -> Nat] /\ faults \in [Ids -> Nat]
    /\ troubles \in Nat

Init ==
    /\ active = FALSE
    /\ rows = [i \in Ids |-> [st |-> "absent", owner |-> "none", leased |-> FALSE]]
    /\ foreign = {} /\ count = 0
    /\ home = [i \in Ids |-> "none"] /\ client = [i \in Ids |-> "absent"]
    /\ up = Replicas
    /\ drained = [r \in Replicas |-> FALSE]
    /\ lock = [r \in Replicas |-> 0]
    /\ spawned = [r \in Replicas |-> {}] /\ refusing = [r \in Replicas |-> {}]
    /\ sawEmpty = [r \in Replicas |-> FALSE]
    /\ drain = [r \in Replicas |-> NoDrain]
    /\ forwards = [i \in Ids |-> 0] /\ faults = [i \in Ids |-> 0]
    /\ troubles = 0

-----------------------------------------------------------------------------
Queued    == {i \in Ids : rows[i].st = "queued"}
Stored    == {i \in Ids : rows[i].st \in {"queued", "poisoned"}}
Claimable == {i \in Queued : ~rows[i].leased}

At(r, pc)   == r \in up /\ drain[r].pc = pc
Goto(r, pc) == drain' = [drain EXCEPT ![r].pc = pc]

\* Something goes wrong, as often as the bound allows.
Trouble     == troubles < MaxTroubles /\ troubles' = troubles + 1
Fault(i)    == faults' = [faults EXCEPT ![i] = @ + 1] /\ Trouble
NoFault     == UNCHANGED <<faults, troubles>>

\* completeSpoolRequest: the caller still waiting on r for request i is told.
Told(r, i, what) ==
    client' = IF i # 0 /\ home[i] = r /\ client[i] = "waiting"
              THEN [client EXCEPT ![i] = what] ELSE client

-----------------------------------------------------------------------------
(* serveDurable.                                                           *)

\* Enqueue commits the row.  The caller holds queueMu until the waiter exists.
\* Quarantined rows count against the capacity; a full queue refuses.
Enqueue(r) ==
    /\ r \in up /\ lock[r] = 0 /\ count < MaxRequests
    /\ Cardinality(Stored) < Capacity
    /\ LET i == count + 1 IN
          /\ count' = i
          /\ rows' = [rows EXCEPT ![i].st = "queued"]
          /\ home' = [home EXCEPT ![i] = r]
          /\ client' = [client EXCEPT ![i] = "waiting"]
          /\ lock' = [lock EXCEPT ![r] = i]
    /\ UNCHANGED <<foreign, up, drained, threads, sawEmpty, drain, audit, world>>

\* The rest of the critical section, and the goroutine that drains.
Register(r) ==
    /\ r \in up /\ lock[r] # 0
    /\ drained' = [drained EXCEPT ![r] = FALSE]
    /\ spawned' = [spawned EXCEPT ![r] = @ \cup {lock[r]}]
    /\ lock' = [lock EXCEPT ![r] = 0]
    /\ UNCHANGED <<queue, callers, up, refusing, sawEmpty, drain, audit, world>>

\* The wait is bounded: the caller is told to retry, the row stays.
WaitTimeout(i) ==
    /\ client[i] = "waiting" /\ lock[home[i]] = 0
    /\ client' = [client EXCEPT ![i] = "refused"]
    /\ UNCHANGED <<queue, home, local, drain, audit, world>>

\* servingDirectly: the next request is proxied at once, past the spool.
ServingDirectly(r) == r \in up /\ drained[r] /\ active

-----------------------------------------------------------------------------
(* drainLoop and processSpool; drainMu admits one call per replica.        *)

LoopFree(r) == drain[r].pc = "idle" \/ drain[r].by # 0

\* drainLoop: Pending, and then either the flag or a drain.
LoopSawEmpty(r) ==
    /\ r \in up /\ LoopFree(r) /\ ~sawEmpty[r]
    /\ Queued = {}
    /\ sawEmpty' = [sawEmpty EXCEPT ![r] = TRUE]
    /\ UNCHANGED <<queue, callers, up, drained, lock, threads, drain, audit, world>>

\* Mutant: the loop leaves the flag to the drains, whose empty claims set it too.
LoopStoreNothing(r) ==
    /\ r \in up /\ sawEmpty[r]
    /\ sawEmpty' = [sawEmpty EXCEPT ![r] = FALSE]
    /\ UNCHANGED <<queue, callers, up, drained, lock, threads, drain, audit, world>>

LoopStore(r) ==
    /\ r \in up /\ sawEmpty[r]
    /\ sawEmpty' = [sawEmpty EXCEPT ![r] = FALSE]
    /\ drained' = [drained EXCEPT ![r] = TRUE]
    /\ UNCHANGED <<queue, callers, up, lock, threads, drain, audit, world>>

LoopDrain(r) ==
    /\ At(r, "idle") /\ ~sawEmpty[r] /\ Queued # {}
    /\ Goto(r, "ensure")
    /\ UNCHANGED <<queue, callers, local, audit, world>>

RequestDrain(r, i) ==
    /\ At(r, "idle") /\ i \in spawned[r]
    /\ spawned' = [spawned EXCEPT ![r] = @ \ {i}]
    /\ drain' = [drain EXCEPT ![r] = [NoDrain EXCEPT !.pc = "ensure", !.by = i]]
    /\ UNCHANGED <<queue, callers, up, drained, lock, refusing, sawEmpty, audit, world>>

\* ensureActive succeeds on an ACTIVE stack and gives up on any other.
EnsureActive(r) ==
    /\ At(r, "ensure")
    /\ Goto(r, IF active THEN "claim" ELSE "fail")
    /\ UNCHANGED <<queue, callers, local, audit, world>>

\* Mutant: Claim without its ORDER BY.
ClaimUnordered(r) ==
    /\ At(r, "claim")
    /\ \E i \in Claimable \ foreign :
          /\ rows' = [rows EXCEPT ![i].owner = r, ![i].leased = TRUE]
          /\ forwards' = [forwards EXCEPT ![i] = @ + 1]
          /\ drain' = [drain EXCEPT ![r].pc = "forward", ![r].id = i]
    /\ UNCHANGED <<foreign, count, callers, local, faults, world>>

\* Mutant: Claim that takes a leased row too.
ClaimLeased(r) ==
    /\ At(r, "claim")
    /\ \E i \in Queued \ foreign :
          /\ \A j \in Queued : i <= j
          /\ rows' = [rows EXCEPT ![i].owner = r, ![i].leased = TRUE]
          /\ forwards' = [forwards EXCEPT ![i] = @ + 1]
          /\ drain' = [drain EXCEPT ![r].pc = "forward", ![r].id = i]
    /\ UNCHANGED <<foreign, count, callers, local, faults, world>>

\* Mutant: a row that cannot be decoded is deleted.
ClaimDropsForeign(r) ==
    /\ At(r, "claim")
    /\ \E i \in Claimable :
          /\ \A j \in Claimable : i <= j
          /\ i \in foreign
          /\ rows' = [rows EXCEPT ![i].st = "deleted"]
          /\ Goto(r, "empty")
    /\ UNCHANGED <<foreign, count, callers, local, audit, world>>

\* Mutant: a row that cannot be decoded fails the claim and stays.
ClaimAborts(r) ==
    /\ At(r, "claim")
    /\ \/ /\ Claimable = {}
          /\ Goto(r, "empty")
          /\ UNCHANGED <<rows, forwards>>
       \/ \E i \in Claimable :
             /\ \A j \in Claimable : i <= j
             /\ \/ i \in foreign /\ Goto(r, "fail") /\ UNCHANGED <<rows, forwards>>
                \/ /\ i \notin foreign
                   /\ rows' = [rows EXCEPT ![i].owner = r, ![i].leased = TRUE]
                   /\ forwards' = [forwards EXCEPT ![i] = @ + 1]
                   /\ drain' = [drain EXCEPT ![r].pc = "forward", ![r].id = i]
    /\ UNCHANGED <<foreign, count, callers, local, faults, world>>

\* Claim of one row: the oldest without a live lease.  One that cannot be
\* decoded is quarantined, and the claim then returns nothing.  The store may
\* also refuse.
Claim(r) ==
    /\ At(r, "claim")
    /\ \/ /\ Claimable = {}
          /\ Goto(r, "empty")
          /\ UNCHANGED <<rows, forwards, troubles>>
       \/ /\ Trouble
          /\ Goto(r, "fail")
          /\ UNCHANGED <<rows, forwards>>
       \/ \E i \in Claimable :
             /\ UNCHANGED troubles
             /\ \A j \in Claimable : i <= j
             /\ \/ /\ i \in foreign
                   /\ rows' = [rows EXCEPT ![i] = [st |-> "poisoned",
                                                   owner |-> "none", leased |-> FALSE]]
                   /\ Goto(r, "empty")
                   /\ UNCHANGED forwards
                \/ /\ i \notin foreign
                   /\ rows' = [rows EXCEPT ![i].owner = r, ![i].leased = TRUE]
                   /\ forwards' = [forwards EXCEPT ![i] = @ + 1]
                   /\ drain' = [drain EXCEPT ![r].pc = "forward", ![r].id = i]
    /\ UNCHANGED <<foreign, count, callers, local, faults, active>>

\* An empty claim sets the flag and ends the drain.
ClaimedNothing(r) ==
    /\ At(r, "empty")
    /\ drained' = [drained EXCEPT ![r] = TRUE]
    /\ drain' = [drain EXCEPT ![r] = NoDrain]
    /\ UNCHANGED <<queue, callers, up, lock, threads, sawEmpty, audit, world>>

\* forwardSpoolRequest: the handler returned, whatever its status.
ForwardReturns(r) ==
    /\ At(r, "forward")
    /\ Goto(r, "delete")
    /\ UNCHANGED <<queue, callers, local, audit, world>>

Holds(r, i) == rows[i].st = "queued" /\ rows[i].owner = r

\* ... or a renewal failed: the lease is gone, or the store refused.
RenewFails(r) ==
    /\ At(r, "forward")
    /\ LET i == drain[r].id IN
          IF Holds(r, i) /\ rows[i].leased THEN Fault(i) ELSE NoFault
    /\ Goto(r, "completeErr")
    /\ UNCHANGED <<queue, callers, local, forwards, active>>

\* Delete, fenced on the owner and not on the expiry.
Delete(r) ==
    /\ At(r, "delete")
    /\ LET i == drain[r].id IN
          \/ /\ Holds(r, i)
             /\ rows' = [rows EXCEPT ![i].st = "deleted"]
             /\ Goto(r, "complete")
             /\ NoFault
          \/ /\ IF Holds(r, i) THEN Fault(i) ELSE NoFault
             /\ drain' = [drain EXCEPT ![r].pc = "complete", ![r].failed = TRUE]
             /\ UNCHANGED rows
    /\ UNCHANGED <<foreign, count, callers, local, forwards, active>>

\* Mutant: the outcome is handed over without queueMu.
CompleteUnlocked(r) ==
    /\ At(r, "complete")
    /\ LET i == drain[r].id IN
          client' = IF home[i] = r /\ client[i] = "waiting" /\ lock[r] # i
                    THEN [client EXCEPT ![i] = "answered"] ELSE client
    /\ IF drain[r].failed THEN Goto(r, "fail") ELSE Goto(r, "claim")
    /\ UNCHANGED <<queue, home, local, audit, world>>

\* completeSpoolRequest, under queueMu, and the next turn of the loop.
Complete(r) ==
    /\ At(r, "complete") /\ lock[r] = 0
    /\ Told(r, drain[r].id, "answered")
    /\ Goto(r, IF drain[r].failed THEN "fail" ELSE "claim")
    /\ UNCHANGED <<queue, home, local, audit, world>>

CompleteErr(r) ==
    /\ At(r, "completeErr") /\ lock[r] = 0
    /\ Told(r, drain[r].id, "refused")
    /\ Goto(r, "fail")
    /\ UNCHANGED <<queue, home, local, audit, world>>

\* processSpool returns an error, with drainMu released,
DrainFails(r) ==
    /\ At(r, "fail")
    /\ refusing' = [refusing EXCEPT ![r] = @ \cup ({drain[r].by} \ {0})]
    /\ drain' = [drain EXCEPT ![r] = NoDrain]
    /\ UNCHANGED <<queue, callers, up, drained, lock, spawned, sawEmpty, audit, world>>

\* ... and the goroutine refuses the request it was started for.
Refuse(r, i) ==
    /\ i \in refusing[r] /\ lock[r] = 0
    /\ refusing' = [refusing EXCEPT ![r] = @ \ {i}]
    /\ Told(r, i, "refused")
    /\ UNCHANGED <<queue, home, up, drained, lock, spawned, sawEmpty, drain, audit, world>>

-----------------------------------------------------------------------------
(* The environment.                                                        *)

Working(r, i) == At(r, "forward") /\ drain[r].id = i
Deleting(r, i) == At(r, "delete") /\ drain[r].id = i

\* A lease lapses: nobody renews it any more, or, as a fault, a stall.
Expire(i) ==
    /\ rows[i].st = "queued" /\ rows[i].leased
    /\ rows' = [rows EXCEPT ![i].leased = FALSE]
    /\ IF \E r \in Replicas : Holds(r, i) /\ (Working(r, i) \/ Deleting(r, i))
       THEN Fault(i) ELSE NoFault
    /\ UNCHANGED <<foreign, count, callers, local, drain, forwards, active>>

\* A replica dies; its callers lose their connections, its rows stay.
Crash(r) ==
    /\ r \in up /\ Trouble
    /\ up' = up \ {r}
    /\ LET i == drain[r].id IN
          IF (At(r, "forward") \/ At(r, "delete")) /\ Holds(r, i)
          THEN faults' = [faults EXCEPT ![i] = @ + 1] ELSE UNCHANGED faults
    /\ client' = [i \in Ids |-> IF home[i] = r /\ client[i] = "waiting"
                                THEN "cut" ELSE client[i]]
    /\ lock' = [lock EXCEPT ![r] = 0]
    /\ spawned' = [spawned EXCEPT ![r] = {}] /\ refusing' = [refusing EXCEPT ![r] = {}]
    /\ sawEmpty' = [sawEmpty EXCEPT ![r] = FALSE]
    /\ drained' = [drained EXCEPT ![r] = FALSE]
    /\ drain' = [drain EXCEPT ![r] = NoDrain]
    /\ UNCHANGED <<queue, home, forwards, active>>

\* NewDurableForwardingHandler, under the same owner.
Restart(r) ==
    /\ r \in Replicas \ up
    /\ up' = up \cup {r}
    /\ UNCHANGED <<queue, callers, drained, lock, threads, sawEmpty, drain, audit, world>>

\* The spool key is replaced while rows are queued.
RotateKey ==
    /\ up = {} /\ foreign = {} /\ Queued # {}
    /\ foreign' = Queued
    /\ UNCHANGED <<rows, count, callers, local, drain, audit, world>>

WakeStack ==
    /\ ~active /\ active' = TRUE
    /\ UNCHANGED <<queue, callers, local, drain, audit, troubles>>

StopStack ==
    /\ active /\ Trouble
    /\ active' = FALSE
    /\ UNCHANGED <<queue, callers, local, drain, audit>>

Drain(r) ==
    \/ LoopDrain(r) \/ EnsureActive(r) \/ Claim(r) \/ ClaimedNothing(r)
    \/ ForwardReturns(r) \/ Delete(r) \/ Complete(r) \/ CompleteErr(r)
    \/ DrainFails(r)

Next ==
    \/ \E r \in Replicas :
          \/ Enqueue(r) \/ Register(r)
          \/ LoopSawEmpty(r) \/ LoopStore(r) \/ Drain(r) \/ RenewFails(r)
          \/ Crash(r) \/ Restart(r)
          \/ \E i \in Ids : RequestDrain(r, i) \/ Refuse(r, i)
    \/ \E i \in Ids : WaitTimeout(i) \/ Expire(i)
    \/ RotateKey \/ WakeStack \/ StopStack

Spec == Init /\ [][Next]_vars

\* Goroutines run, a dead replica is restarted, an unrenewed lease lapses and
\* the wake a drain asks for completes (WakeSettles of Stack, and retries).
Fairness ==
    /\ \A r \in Replicas :
          /\ WF_vars(Drain(r)) /\ WF_vars(Register(r)) /\ WF_vars(Restart(r))
          /\ WF_vars(LoopSawEmpty(r)) /\ WF_vars(LoopStore(r))
          /\ \A i \in Ids : WF_vars(RequestDrain(r, i))
    /\ \A i \in Ids : WF_vars(Expire(i) /\ NoFault) /\ WF_vars(WaitTimeout(i))
    /\ WF_vars(WakeStack)

FairSpec == Spec /\ Fairness

-----------------------------------------------------------------------------
(* Properties.                                                             *)

\* A spooled request is handed to the stack once; every further time is paid
\* for by a fault around one of its deliveries: a crash of the owner, a stall
\* past the lease, a refused renewal or a refused delete (over well-typed rows).
DuplicatesAreFaults == TypeOK /\ \A i \in Ids : forwards[i] <= 1 + faults[i]

\* A row leaves the queue only after it was handed to the stack: no crash, lost
\* lease, capacity limit, quarantine or second replica makes one disappear.
AcceptedIsForwarded == \A i \in Ids : rows[i].st = "deleted" => forwards[i] > 0

\* The outcome of a request delivered by the replica that accepted it reaches
\* the caller that still waits there, however Enqueue, the waiter registration
\* and the drain of another goroutine interleave.
OutcomeReachesCaller ==
    \A i \in Ids :
        rows[i].st = "deleted" /\ client[i] = "waiting" /\ rows[i].owner = home[i]
            => drain[home[i]].pc = "complete" /\ drain[home[i]].id = i

\* A request is removed only when every older one still queued has been claimed
\* at least once: with several drains and retries, order is lost only to a
\* delivery that is itself under way or failed.
OlderWereClaimed ==
    [][\A i \in Ids : rows[i].st = "queued" /\ rows'[i].st = "deleted" =>
          \A j \in 1..(i - 1) : rows[j].st = "queued" => forwards[j] > 0]_vars

\* An accepted request is delivered, or quarantined, though its caller is gone
\* and the replica that accepted it crashed.
EventuallyDrained ==
    \A i \in Ids : rows[i].st = "queued" ~> rows[i].st \in {"deleted", "poisoned"}

\* A replica of an active stack with an empty queue does not spool for ever what
\* it could proxy: servingDirectly becomes true again after a restart, and when a
\* late registration cleared the flag behind the drain that had emptied the queue.
ServedDirectlyAgain ==
    \A r \in Replicas :
        (r \in up /\ active /\ Queued = {})
            ~> (ServingDirectly(r) \/ Queued # {} \/ ~active \/ r \notin up)
=============================================================================
