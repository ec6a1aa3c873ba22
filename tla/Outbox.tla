------------------------------- MODULE Outbox -------------------------------
(***************************************************************************)
(* Delivery of the event journal: workers of internal/outbox/worker.go     *)
(* over the leased rows of the outbox table (claimEvents, RenewEvents,     *)
(* AckEvents and ReleaseEvents of internal/store/sqlstore).  Each worker   *)
(* runs two goroutines: the one that delivers its batch record by record   *)
(* and the one that renews the lease of what is left (leaseHold).          *)
(*                                                                         *)
(* Time is abstracted to what it decides: a lease nobody renews lapses, a  *)
(* stalled worker loses its lease at the price of a fault, a retry time    *)
(* passes.                                                                 *)
(***************************************************************************)
EXTENDS Naturals, FiniteSets

CONSTANTS Workers,      \* workers, by their unique owner name
          MaxEvents,    \* records in the outbox
          Limit,        \* the batch size
          MaxFaults     \* bound on stalls, store errors, refusals and crashes

ASSUME OutboxAssumption ==
    /\ IsFiniteSet(Workers) /\ "none" \notin Workers
    /\ MaxEvents \in Nat /\ Limit \in Nat \ {0} /\ MaxFaults \in Nat

VARIABLES
    rows,       \* rows[i]: the outbox row of sequence i
    pc,         \* pc[w]: where RunOnce stands
    todo,       \* todo[w]: records of the batch not dealt with yet
    hold,       \* hold[w]: leaseHold.sequences
    lock,       \* lock[w]: who holds leaseHold.renewal
    lost,       \* lost[w]: leaseHold.failure is set
    sends,      \* sends[i]: how often delivery of i was started
    excuses,    \* excuses[i]: refusals and faults a redelivery of i may cite
    hurt,       \* hurt[w]: a fault hit the current batch
    faults      \* faults so far

vars == <<rows, pc, todo, hold, lock, lost, sends, excuses, hurt, faults>>

Seqs   == 1..MaxEvents
Owners == Workers \cup {"none"}

RowRecords == [delivered : BOOLEAN, owner : Owners, leased : BOOLEAN,
               waiting : BOOLEAN]

TypeOK ==
    /\ rows \in [Seqs -> RowRecords]
    /\ pc \in [Workers -> {"idle", "next", "sending", "ack", "narrow", "ackFailed",
                           "release", "releaseTail", "stop"}]
    /\ todo \in [Workers -> SUBSET Seqs] /\ hold \in [Workers -> SUBSET Seqs]
    /\ lock \in [Workers -> {"free", "main", "renewal"}]
    /\ lost \in [Workers -> BOOLEAN] /\ hurt \in [Workers -> BOOLEAN]
    /\ sends \in [Seqs -> Nat] /\ excuses \in [Seqs -> Nat]
    /\ faults \in Nat

Init ==
    /\ rows = [i \in Seqs |-> [delivered |-> FALSE, owner |-> "none",
                               leased |-> FALSE, waiting |-> FALSE]]
    /\ pc = [w \in Workers |-> "idle"]
    /\ todo = [w \in Workers |-> {}] /\ hold = [w \in Workers |-> {}]
    /\ lock = [w \in Workers |-> "free"]
    /\ lost = [w \in Workers |-> FALSE] /\ hurt = [w \in Workers |-> FALSE]
    /\ sends = [i \in Seqs |-> 0] /\ excuses = [i \in Seqs |-> 0]
    /\ faults = 0

-----------------------------------------------------------------------------
\* Mutant: a lapsed lease still counts, only unowned records are claimed.
ClaimableUnowned == {i \in Seqs : /\ ~rows[i].delivered /\ rows[i].owner = "none"
                                  /\ ~rows[i].waiting}

Claimable == {i \in Seqs : /\ ~rows[i].delivered /\ ~rows[i].leased
                           /\ ~rows[i].waiting}

\* Every conditional update: undelivered, owned by w, the lease not lapsed.
Held(w, S) == \A i \in S : ~rows[i].delivered /\ rows[i].owner = w /\ rows[i].leased

Current(w) == CHOOSE i \in todo[w] : \A j \in todo[w] : i <= j
Tail(w)    == todo[w] \ {Current(w)}

Goto(w, l) == pc' = [pc EXCEPT ![w] = l]

Excuse(S)  == excuses' = [i \in Seqs |-> IF i \in S THEN excuses[i] + 1 ELSE excuses[i]]

\* A fault that hits the records S of the batch of w.
Fault(w, S) == /\ faults < MaxFaults /\ faults' = faults + 1
               /\ Excuse(S)
               /\ hurt' = [hurt EXCEPT ![w] = TRUE]
NoFault     == UNCHANGED <<faults, excuses, hurt>>

-----------------------------------------------------------------------------
(* RunOnce and deliverBatch.                                               *)

\* ClaimEvents: the oldest claimable records, one lease over all of them.
Claim(w) ==
    /\ pc[w] = "idle" /\ Claimable # {}
    /\ LET batch == {i \in Claimable :
                        Cardinality({j \in Claimable : j < i}) < Limit} IN
          /\ rows' = [i \in Seqs |-> IF i \in batch
                         THEN [rows[i] EXCEPT !.owner = w, !.leased = TRUE]
                         ELSE rows[i]]
          /\ todo' = [todo EXCEPT ![w] = batch]
          /\ hold' = [hold EXCEPT ![w] = batch]
    /\ lost' = [lost EXCEPT ![w] = FALSE] /\ hurt' = [hurt EXCEPT ![w] = FALSE]
    /\ Goto(w, "next")
    /\ UNCHANGED <<lock, sends, excuses, faults>>

\* The loop: hand the next record to Deliver, or leave.
NextRecord(w) ==
    /\ pc[w] = "next"
    /\ \/ /\ todo[w] # {}
          /\ sends' = [sends EXCEPT ![Current(w)] = @ + 1]
          /\ Goto(w, "sending")
       \/ /\ todo[w] = {}
          /\ Goto(w, "stop")
          /\ UNCHANGED sends
    /\ UNCHANGED <<rows, todo, hold, lock, lost, excuses, hurt, faults>>

\* Deliver succeeded, or failed permanently: acknowledge.  A success under a
\* lost lease is reported as the lost lease.
Delivered(w) ==
    /\ pc[w] = "sending"
    /\ Goto(w, "ack") \/ (lost[w] /\ Goto(w, "release"))
    /\ UNCHANGED <<rows, todo, hold, lock, lost, sends, excuses, hurt, faults>>

\* Deliver failed and may be retried, or was cancelled with the lease.
Refused(w) ==
    /\ pc[w] = "sending"
    /\ Goto(w, "release")
    /\ IF lost[w] THEN UNCHANGED <<faults, excuses>>
       ELSE /\ faults < MaxFaults /\ faults' = faults + 1
            /\ Excuse({Current(w)})
    /\ UNCHANGED <<rows, todo, hold, lock, lost, sends, hurt>>

\* Mutant: the whole batch is acknowledged with its first record.
AckBatch(w) ==
    /\ pc[w] = "ack" /\ lock[w] = "free" /\ Held(w, todo[w])
    /\ rows' = [i \in Seqs |-> IF i \in todo[w]
                   THEN [rows[i] EXCEPT !.delivered = TRUE, !.leased = FALSE, !.owner = "none"]
                   ELSE rows[i]]
    /\ lock' = [lock EXCEPT ![w] = "main"] /\ Goto(w, "narrow")
    /\ UNCHANGED <<todo, hold, lost, sends, excuses, hurt, faults>>

\* Mutant: the record is acknowledged outside the renewal lock.
AckUnlocked(w) ==
    /\ pc[w] = "ack" /\ Held(w, {Current(w)})
    /\ rows' = [rows EXCEPT ![Current(w)].delivered = TRUE, ![Current(w)].leased = FALSE,
                            ![Current(w)].owner = "none"]
    /\ Goto(w, "narrow")
    /\ UNCHANGED <<todo, hold, lock, lost, sends, excuses, hurt, faults>>

\* hold.acknowledge, first half: AckEvents under the renewal lock.
Ack(w) ==
    /\ pc[w] = "ack" /\ lock[w] = "free"
    /\ LET i == Current(w) IN
          \/ /\ Held(w, {i})
             /\ rows' = [rows EXCEPT ![i].delivered = TRUE, ![i].leased = FALSE,
                                     ![i].owner = "none"]
             /\ lock' = [lock EXCEPT ![w] = "main"]
             /\ Goto(w, "narrow") /\ NoFault
          \/ /\ IF Held(w, {i}) THEN Fault(w, {i}) ELSE NoFault
             /\ Goto(w, "ackFailed")
             /\ UNCHANGED <<rows, lock>>
    /\ UNCHANGED <<todo, hold, lost, sends>>

\* ... second half: the record leaves the renewal set, the lock is released.
AckNarrow(w) ==
    /\ pc[w] = "narrow"
    /\ todo' = [todo EXCEPT ![w] = Tail(w)]
    /\ hold' = [hold EXCEPT ![w] = Tail(w)]
    /\ lock' = [lock EXCEPT ![w] = "free"]
    /\ Goto(w, "next")
    /\ UNCHANGED <<rows, lost, sends, excuses, hurt, faults>>

\* Mutant: a failed acknowledgement abandons the tail.
AckFailedAbandons(w) ==
    /\ pc[w] = "ackFailed"
    /\ Goto(w, "stop")
    /\ UNCHANGED <<rows, todo, hold, lock, lost, sends, excuses, hurt, faults>>

\* A failed acknowledgement keeps the record and releases the tail behind it.
AckFailed(w) ==
    /\ pc[w] = "ackFailed"
    /\ Goto(w, IF Tail(w) = {} THEN "stop" ELSE "releaseTail")
    /\ UNCHANGED <<rows, todo, hold, lock, lost, sends, excuses, hurt, faults>>

\* hold.release: ReleaseEvents is one transaction over S; the hold is narrowed
\* to keep only if it committed.
Release(w, S, keep) ==
    /\ lock[w] = "free"
    /\ \/ /\ Held(w, S)
          /\ rows' = [i \in Seqs |-> IF i \in S
                         THEN [rows[i] EXCEPT !.owner = "none", !.leased = FALSE,
                                              !.waiting = TRUE]
                         ELSE rows[i]]
          /\ hold' = [hold EXCEPT ![w] = keep]
          /\ NoFault
       \/ /\ IF Held(w, S) THEN Fault(w, S) ELSE NoFault
          /\ UNCHANGED <<rows, hold>>
    /\ Goto(w, "stop")
    /\ UNCHANGED <<todo, lock, lost, sends>>

ReleaseRest(w) == pc[w] = "release" /\ Release(w, todo[w], {})
ReleaseTail(w) == pc[w] = "releaseTail" /\ Release(w, Tail(w), {Current(w)})

\* hold.stop waits for a renewal under way, then RunOnce returns.
Stop(w) ==
    /\ pc[w] = "stop" /\ lock[w] = "free"
    /\ Goto(w, "idle")
    /\ todo' = [todo EXCEPT ![w] = {}] /\ hold' = [hold EXCEPT ![w] = {}]
    /\ UNCHANGED <<rows, lock, lost, sends, excuses, hurt, faults>>

-----------------------------------------------------------------------------
(* The renewal goroutine of holdLease.                                     *)

RenewBegin(w) ==
    /\ pc[w] # "idle" /\ ~lost[w] /\ hold[w] # {} /\ lock[w] = "free"
    /\ lock' = [lock EXCEPT ![w] = "renewal"]
    /\ UNCHANGED <<rows, pc, todo, hold, lost, sends, excuses, hurt, faults>>

\* RenewEvents over the whole hold: one record that is not held fails it.
RenewEnd(w) ==
    /\ lock[w] = "renewal"
    /\ lock' = [lock EXCEPT ![w] = "free"]
    /\ \/ Held(w, hold[w]) /\ UNCHANGED lost /\ NoFault
       \/ /\ lost' = [lost EXCEPT ![w] = TRUE]
          /\ IF Held(w, hold[w]) THEN Fault(w, hold[w]) ELSE NoFault
    /\ UNCHANGED <<rows, pc, todo, hold, sends>>

-----------------------------------------------------------------------------
(* The environment.                                                        *)

\* A worker stalls past its lease: everything it holds lapses at once.
Stall(w) ==
    /\ pc[w] # "idle" /\ \E i \in hold[w] : Held(w, {i})
    /\ rows' = [i \in Seqs |-> IF i \in hold[w] /\ rows[i].owner = w
                               THEN [rows[i] EXCEPT !.leased = FALSE] ELSE rows[i]]
    /\ Fault(w, hold[w])
    /\ UNCHANGED <<pc, todo, hold, lock, lost, sends>>

\* A lease nobody renews lapses.
Lapse(i) ==
    /\ rows[i].leased /\ i \notin hold[rows[i].owner]
    /\ rows' = [rows EXCEPT ![i].leased = FALSE]
    /\ UNCHANGED <<pc, todo, hold, lock, lost, sends, excuses, hurt, faults>>

\* next_attempt_at passes.
RetryDue(i) ==
    /\ rows[i].waiting
    /\ rows' = [rows EXCEPT ![i].waiting = FALSE]
    /\ UNCHANGED <<pc, todo, hold, lock, lost, sends, excuses, hurt, faults>>

\* The worker dies and is started again under the same owner.
Crash(w) ==
    /\ pc[w] # "idle"
    /\ Fault(w, todo[w])
    /\ Goto(w, "idle")
    /\ todo' = [todo EXCEPT ![w] = {}] /\ hold' = [hold EXCEPT ![w] = {}]
    /\ lock' = [lock EXCEPT ![w] = "free"] /\ lost' = [lost EXCEPT ![w] = FALSE]
    /\ UNCHANGED <<rows, sends>>

Batch(w) ==
    \/ Claim(w) \/ NextRecord(w) \/ Delivered(w) \/ Ack(w) \/ AckNarrow(w)
    \/ AckFailed(w) \/ ReleaseRest(w) \/ ReleaseTail(w) \/ Stop(w)

Next ==
    \/ \E w \in Workers : Batch(w) \/ Refused(w) \/ RenewBegin(w) \/ RenewEnd(w)
                          \/ Stall(w) \/ Crash(w)
    \/ \E i \in Seqs : Lapse(i) \/ RetryDue(i)

Spec == Init /\ [][Next]_vars

\* Both goroutines run, a renewal is bounded by its interval, unrenewed leases
\* and retry times pass.  The delivering goroutine gets the renewal lock in the
\* end (strong fairness): renewals are a third of a lease apart, and a Go mutex
\* serves a waiter that starves first.
Fairness ==
    /\ \A w \in Workers : SF_vars(Batch(w)) /\ WF_vars(RenewEnd(w))
    /\ \A i \in Seqs : WF_vars(Lapse(i)) /\ WF_vars(RetryDue(i))

FairSpec == Spec /\ Fairness

-----------------------------------------------------------------------------
(* Properties.                                                             *)

\* No record is acknowledged that was never handed to Deliver, whatever part of
\* the batch failed, was released or was taken over by another worker.
AckedWasSent == \A i \in Seqs : rows[i].delivered => sends[i] > 0

\* A record is sent again only with an excuse: a refused delivery, a stall past
\* the lease, a store error or a crash while it was in the batch.
RedeliveryHasCause == \A i \in Seqs : sends[i] <= 1 + excuses[i]

\* Together, over well-typed rows: delivered at least once, and more often only
\* for a cause, whichever of the two workers held the record meanwhile.
SentBeforeAcked == TypeOK /\ AckedWasSent /\ RedeliveryHasCause

\* A worker never takes its own bookkeeping for a lost lease: a renewal fails
\* only if a fault hit the batch, though it races with Ack and Release.
NoSelfInflictedLoss == \A w \in Workers : lost[w] => hurt[w]

\* A batch that ended leaves no record leased behind, unless a fault hit that
\* record: the tail does not wait out a lease nobody uses.
NothingStranded ==
    \A i \in Seqs : rows[i].leased /\ pc[rows[i].owner] = "idle" => excuses[i] > 0

\* Every record is delivered in the end, at least once.
EventuallyDelivered == \A i \in Seqs : <>(rows[i].delivered)
=============================================================================
