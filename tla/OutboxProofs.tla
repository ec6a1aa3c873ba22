---------------------------- MODULE OutboxProofs ----------------------------
(***************************************************************************)
(* Proofs about Outbox for any number of workers, records, faults and any  *)
(* batch size: at least one delivery before an acknowledgement, a cause    *)
(* for every redelivery, no lease lost by a worker's own bookkeeping, and  *)
(* no record left leased by a batch that ended well.                       *)
(*                                                                         *)
(* The argument for redelivery is a count: how often a record was sent and *)
(* how many workers have still to send it never exceed the excuses by more *)
(* than one, and not at all once the record is open to another claim.      *)
(***************************************************************************)
EXTENDS Outbox, FiniteSetTheorems, TLAPS

-----------------------------------------------------------------------------
(* The inductive invariant.                                                *)

\* After a record was handed to Deliver and before the batch is given up.
Working == {"sending", "ack", "narrow"}

\* The batch is being given up: what it still holds will be open to a claim.
Leaving == {"ackFailed", "releaseTail", "release", "stop"}

\* The renewal set is the rest of the batch until RunOnce leaves; the renewal
\* lock is the delivering goroutine's between the two halves of Ack.
ShapeInv ==
    \A w \in Workers :
        /\ pc[w] = "idle" => todo[w] = {}
        /\ pc[w] # "stop" => hold[w] = todo[w]
        /\ hold[w] \subseteq todo[w]
        /\ pc[w] \in Working \cup {"ackFailed", "releaseTail", "release"} => todo[w] # {}
        /\ pc[w] = "narrow" <=> lock[w] = "main"

\* A leased row is undelivered and has an owner.
RowInv == \A i \in Seqs : rows[i].leased => ~rows[i].delivered /\ rows[i].owner \in Workers

\* The record being dealt with was sent; between the halves of Ack it is marked.
SentInv ==
    /\ AckedWasSent
    /\ \A w \in Workers :
          /\ pc[w] \in Working \cup {"ackFailed", "releaseTail"} => sends[Current(w)] > 0
          /\ pc[w] = "narrow" => rows[Current(w)].delivered

\* The records whose lease a renewal of w will ask for.
Renewed(w) == IF pc[w] = "narrow" THEN Tail(w) ELSE hold[w]

HeldRow(w, i) == ~rows[i].delivered /\ rows[i].owner = w /\ rows[i].leased

\* A worker holds all of its batch or has lost all of it; it loses it to a fault.
LeaseOf(w) ==
    \/ \A i \in Renewed(w) : HeldRow(w, i)
    \/ hurt[w] /\ \A i \in Renewed(w) : ~HeldRow(w, i)

LeaseInv == \A w \in Workers : LeaseOf(w)

\* Records of its batch that w has still to send.
Unsent(w) == IF pc[w] = "next" THEN todo[w]
             ELSE IF pc[w] \in Working THEN Tail(w) ELSE {}

Senders(i) == {w \in Workers : i \in Unsent(w)}
Pending(i) == Cardinality(Senders(i))

\* A record which another worker will be able to claim without a further fault.
Open(i) ==
    /\ ~rows[i].delivered
    /\ rows[i].leased =>
          \/ i \notin hold[rows[i].owner]
          \/ pc[rows[i].owner] \in Leaving
          \/ lost[rows[i].owner]

\* What was sent and will be sent exceeds the excuses by one at most, and not
\* at all once the record is open to a further claim.
DebtOf(i) ==
    /\ sends[i] + Pending(i) <= excuses[i] + 1
    /\ Open(i) => sends[i] + Pending(i) <= excuses[i]

DebtInv == \A i \in Seqs : DebtOf(i)

\* The owner w of record i will not release it.
Kept(w, i) ==
    \/ i \notin hold[w] \/ pc[w] = "stop"
    \/ pc[w] \in {"ackFailed", "releaseTail"} /\ i = Current(w)

\* A leased record nobody will release has an excuse.
StrandInv ==
    \A i \in Seqs : rows[i].leased /\ Kept(rows[i].owner, i) => excuses[i] > 0

Inv == /\ TypeOK /\ ShapeInv /\ RowInv /\ SentInv /\ LeaseInv /\ DebtInv /\ StrandInv
       /\ NoSelfInflictedLoss

-----------------------------------------------------------------------------
(* The oldest record of a batch.                                           *)

\* A set of sequence numbers has a least element.
LEMMA LeastExists ==
    ASSUME NEW S, S \subseteq Seqs, S # {}
    PROVE  \E i \in S : \A j \in S : i <= j
<1> DEFINE R == {p \in Nat \X Nat : p[1] < p[2]}
<1>1. IsWellFoundedOn(R, Nat)
  BY NatLessThanWellFounded DEF OpToRel
<1>2. S \subseteq Nat
  BY OutboxAssumption DEF Seqs
<1>3. \E i \in S : \A j \in S : ~(<<j, i>> \in R)
  <2> HIDE DEF R
  <2> QED BY <1>1, <1>2, WFMin
<1>4. \A i, j \in S : ~(<<j, i>> \in R) => i <= j
  BY <1>2
<1> QED BY <1>3, <1>4

\* The record being dealt with is one of the batch.
LEMMA CurrentInBatch ==
    ASSUME TypeOK, NEW w \in Workers, todo[w] # {}
    PROVE  Current(w) \in todo[w] /\ Current(w) \in Seqs
<1>1. todo[w] \subseteq Seqs
  BY DEF TypeOK
<1>2. \E i \in todo[w] : \A j \in todo[w] : i <= j
  BY <1>1, LeastExists
<1> QED BY <1>1, <1>2 DEF Current

\* Who keeps its batch keeps the record it deals with.
LEMMA CurrentSame ==
    ASSUME NEW w, todo'[w] = todo[w]
    PROVE  Current(w)' = Current(w) /\ Tail(w)' = Tail(w)
BY DEF Current, Tail

-----------------------------------------------------------------------------
(* How many workers have still to send a record.                           *)

\* Finitely many.
LEMMA SendersFinite ==
    ASSUME NEW i
    PROVE  IsFiniteSet(Senders(i)) /\ Cardinality(Senders(i)) \in Nat
BY OutboxAssumption, FS_Subset, FS_CardinalityType DEF Senders

\* A step of one worker changes the count by what it changes for that worker.
LEMMA SendersStep ==
    ASSUME NEW w \in Workers, NEW i,
           \A v \in Workers \ {w} : pc'[v] = pc[v] /\ todo'[v] = todo[v]
    PROVE  /\ Pending(i) \in Nat /\ Pending(i)' \in Nat
           /\ (i \in Unsent(w) <=> i \in Unsent(w)')
                 => Pending(i)' = Pending(i)
           /\ i \in Unsent(w) /\ i \notin Unsent(w)'
                 => Pending(i)' = Pending(i) - 1
           /\ i \notin Unsent(w) /\ i \in Unsent(w)'
                 => Pending(i)' = Pending(i) + 1
<1>1. \A v \in Workers \ {w} : Unsent(v)' = Unsent(v)
  <2> TAKE v \in Workers \ {w}
  <2>1. Tail(v)' = Tail(v)
    BY CurrentSame
  <2> QED BY <2>1 DEF Unsent
<1>2. IsFiniteSet(Senders(i)) /\ Cardinality(Senders(i)) \in Nat
  BY SendersFinite
<1>3. CASE i \in Unsent(w) <=> i \in Unsent(w)'
  <2>1. Senders(i)' = Senders(i)
    BY <1>1, <1>3 DEF Senders
  <2> QED BY <1>2, <1>3, <2>1 DEF Pending
<1>4. CASE i \in Unsent(w) /\ i \notin Unsent(w)'
  <2>1. Senders(i)' = Senders(i) \ {w}
    BY <1>1, <1>4 DEF Senders
  <2>2. w \in Senders(i)
    BY <1>4 DEF Senders
  <2>3. Cardinality(Senders(i)') = Cardinality(Senders(i)) - 1
    BY <1>2, <2>1, <2>2, FS_RemoveElement
  <2>4. IsFiniteSet(Senders(i)')
    BY <1>2, <2>1, FS_RemoveElement
  <2>5. Cardinality(Senders(i)') \in Nat
    BY <2>4, FS_CardinalityType
  <2> QED BY <1>2, <1>4, <2>3, <2>5 DEF Pending
<1>5. CASE i \notin Unsent(w) /\ i \in Unsent(w)'
  <2>1. Senders(i)' = Senders(i) \cup {w}
    BY <1>1, <1>5 DEF Senders
  <2>2. w \notin Senders(i)
    BY <1>5 DEF Senders
  <2>3. Cardinality(Senders(i)') = Cardinality(Senders(i)) + 1
    BY <1>2, <2>1, <2>2, FS_AddElement
  <2> QED BY <1>2, <1>5, <2>3 DEF Pending
<1> QED BY <1>3, <1>4, <1>5


-----------------------------------------------------------------------------
(* What the updates of the store do to a row.                              *)

\* A fault or none, over well-typed counters.
LEMMA FaultTyped ==
    ASSUME TypeOK, NEW w \in Workers, NEW S, NoFault \/ Fault(w, S)
    PROVE  /\ faults' \in Nat /\ excuses' \in [Seqs -> Nat] /\ hurt' \in [Workers -> BOOLEAN]
           /\ \A i \in Seqs : excuses'[i] >= excuses[i]
           /\ \A v \in Workers : hurt[v] => hurt'[v]
<1>1. CASE NoFault
  BY <1>1 DEF TypeOK, NoFault
<1>2. CASE Fault(w, S)
  BY <1>2 DEF TypeOK, Fault, Excuse
<1> QED BY <1>1, <1>2

\* ClaimEvents takes records that are undelivered, unleased and due.
LEMMA ClaimBatch ==
    ASSUME TypeOK, NEW w \in Workers, Claim(w)
    PROVE  \E batch \in SUBSET Claimable :
              /\ rows' \in [Seqs -> RowRecords]
              /\ \A j \in Seqs : /\ rows'[j].delivered = rows[j].delivered
                                 /\ rows'[j].owner = IF j \in batch THEN w ELSE rows[j].owner
                                 /\ rows'[j].leased <=> (j \in batch \/ rows[j].leased)
              /\ todo' = [todo EXCEPT ![w] = batch]
              /\ hold' = [hold EXCEPT ![w] = batch]
<1> DEFINE batch == {i \in Claimable : Cardinality({j \in Claimable : j < i}) < Limit}
<1>1. batch \in SUBSET Claimable
  OBVIOUS
<1>2. /\ rows' = [i \in Seqs |-> IF i \in batch
                     THEN [rows[i] EXCEPT !.owner = w, !.leased = TRUE]
                     ELSE rows[i]]
      /\ todo' = [todo EXCEPT ![w] = batch]
      /\ hold' = [hold EXCEPT ![w] = batch]
  BY DEF Claim
<1> HIDE DEF batch
<1>3. rows' \in [Seqs -> RowRecords]
  BY <1>2, ZenonT(60) DEF TypeOK, RowRecords, Owners
<1>4. ASSUME NEW j \in Seqs
      PROVE  /\ rows'[j].delivered = rows[j].delivered
             /\ rows'[j].owner = IF j \in batch THEN w ELSE rows[j].owner
             /\ rows'[j].leased <=> (j \in batch \/ rows[j].leased)
  <2>1. CASE j \in batch
    BY <1>2, <2>1 DEF TypeOK, RowRecords
  <2>2. CASE j \notin batch
    BY <1>2, <2>2 DEF TypeOK, RowRecords
  <2> QED BY <2>1, <2>2
<1> QED BY <1>1, <1>2, <1>3, <1>4

\* AckEvents on one held record, or not at all.
LEMMA AckRow ==
    ASSUME TypeOK, NEW i \in Seqs,
           rows' = [rows EXCEPT ![i].delivered = TRUE, ![i].leased = FALSE, ![i].owner = "none"]
    PROVE  /\ rows' \in [Seqs -> RowRecords]
           /\ \A j \in Seqs : j # i => rows'[j] = rows[j]
           /\ rows'[i].delivered /\ ~rows'[i].leased
<1> DEFINE row == [rows[i] EXCEPT !.delivered = TRUE, !.leased = FALSE, !.owner = "none"]
<1>1. rows[i] \in RowRecords
  BY DEF TypeOK
<1>2. row \in RowRecords /\ row.delivered /\ ~row.leased
  BY <1>1 DEF RowRecords, Owners
<1>3. rows'[i] = row
  BY DEF TypeOK, RowRecords
<1>4. \A j \in Seqs : j # i => rows'[j] = rows[j]
  BY DEF TypeOK, RowRecords
<1>5. rows' = [rows EXCEPT ![i] = row]
  BY DEF TypeOK, RowRecords
<1> HIDE DEF row
<1> QED BY <1>2, <1>3, <1>4, <1>5 DEF TypeOK

\* ReleaseEvents over the records of S.
LEMMA ReleaseRows ==
    ASSUME TypeOK, NEW S,
           rows' = [i \in Seqs |-> IF i \in S
                       THEN [rows[i] EXCEPT !.owner = "none", !.leased = FALSE, !.waiting = TRUE]
                       ELSE rows[i]]
    PROVE  /\ rows' \in [Seqs -> RowRecords]
           /\ \A j \in Seqs : /\ j \notin S => rows'[j] = rows[j]
                              /\ j \in S => rows'[j].delivered = rows[j].delivered
                                            /\ ~rows'[j].leased
<1>1. rows' \in [Seqs -> RowRecords]
  BY ZenonT(60) DEF TypeOK, RowRecords, Owners
<1>2. ASSUME NEW j \in Seqs
      PROVE  /\ j \notin S => rows'[j] = rows[j]
             /\ j \in S => rows'[j].delivered = rows[j].delivered /\ ~rows'[j].leased
  BY DEF TypeOK, RowRecords
<1> QED BY <1>1, <1>2

\* A stall past the lease of everything in the renewal set.
LEMMA StallRows ==
    ASSUME TypeOK, NEW w \in Workers, Stall(w)
    PROVE  /\ rows' \in [Seqs -> RowRecords]
           /\ \A j \in Seqs :
                 /\ rows'[j].delivered = rows[j].delivered /\ rows'[j].owner = rows[j].owner
                 /\ rows'[j].leased <=> (rows[j].leased /\ ~(j \in hold[w] /\ rows[j].owner = w))
<1>1. rows' \in [Seqs -> RowRecords]
  BY ZenonT(60) DEF Stall, TypeOK, RowRecords, Owners
<1>2. ASSUME NEW j \in Seqs
      PROVE  /\ rows'[j].delivered = rows[j].delivered /\ rows'[j].owner = rows[j].owner
             /\ rows'[j].leased <=> (rows[j].leased /\ ~(j \in hold[w] /\ rows[j].owner = w))
  BY DEF Stall, TypeOK, RowRecords
<1> QED BY <1>1, <1>2

\* Time: a lease nobody renews lapses, a retry time passes.
LEMMA TimeRows ==
    ASSUME TypeOK, NEW i \in Seqs, Lapse(i) \/ RetryDue(i)
    PROVE  /\ rows' \in [Seqs -> RowRecords]
           /\ \A j \in Seqs :
                 /\ rows'[j].delivered = rows[j].delivered /\ rows'[j].owner = rows[j].owner
                 /\ rows'[j].leased => rows[j].leased
                 /\ rows[j].leased /\ ~rows'[j].leased => j \notin hold[rows[j].owner]
<1>1. rows' \in [Seqs -> RowRecords]
  <2>1. CASE Lapse(i)
    BY <2>1, ZenonT(60) DEF Lapse, TypeOK, RowRecords, Owners
  <2>2. CASE RetryDue(i)
    BY <2>2, ZenonT(60) DEF RetryDue, TypeOK, RowRecords, Owners
  <2> QED BY <2>1, <2>2
<1>2. ASSUME NEW j \in Seqs
      PROVE  /\ rows'[j].delivered = rows[j].delivered /\ rows'[j].owner = rows[j].owner
             /\ rows'[j].leased => rows[j].leased
             /\ rows[j].leased /\ ~rows'[j].leased => j \notin hold[rows[j].owner]
  <2>1. CASE Lapse(i)
    BY <2>1 DEF Lapse, TypeOK, RowRecords
  <2>2. CASE RetryDue(i)
    BY <2>2 DEF RetryDue, TypeOK, RowRecords
  <2> QED BY <2>1, <2>2
<1> QED BY <1>1, <1>2

-----------------------------------------------------------------------------
(* Every action keeps every part of the invariant.                         *)

\* Typing.
LEMMA TypeStep ==
    ASSUME TypeOK, ShapeInv, Next
    PROVE  TypeOK'
<1> USE DEF TypeOK
<1>1. ASSUME NEW w \in Workers, Claim(w) PROVE TypeOK'
  <2>1. PICK batch \in SUBSET Claimable :
              /\ rows' \in [Seqs -> RowRecords]
              /\ \A j \in Seqs : /\ rows'[j].delivered = rows[j].delivered
                                 /\ rows'[j].owner = IF j \in batch THEN w ELSE rows[j].owner
                                 /\ rows'[j].leased <=> (j \in batch \/ rows[j].leased)
              /\ todo' = [todo EXCEPT ![w] = batch]
              /\ hold' = [hold EXCEPT ![w] = batch]
    BY <1>1, ClaimBatch
  <2>2. /\ pc[w] = "idle" /\ pc' = [pc EXCEPT ![w] = "next"]
        /\ lost' = [lost EXCEPT ![w] = FALSE] /\ hurt' = [hurt EXCEPT ![w] = FALSE]
        /\ UNCHANGED <<lock, sends, excuses, faults>>
    BY <1>1 DEF Claim, Goto
  <2> QED BY <2>1, <2>2 DEF TypeOK, Claimable
<1>2. ASSUME NEW w \in Workers, NextRecord(w) PROVE TypeOK'
  BY <1>2 DEF NextRecord, Goto
<1>3. ASSUME NEW w \in Workers, Delivered(w) PROVE TypeOK'
  BY <1>3 DEF Delivered, Goto
<1>4. ASSUME NEW w \in Workers, Refused(w) PROVE TypeOK'
  BY <1>4 DEF Refused, Goto, Excuse
<1>5. ASSUME NEW w \in Workers, Ack(w) PROVE TypeOK'
  <2> DEFINE c == Current(w)
  <2>1. c \in Seqs /\ c \in todo[w]
    BY <1>5, CurrentInBatch DEF Ack, ShapeInv, Working
  <2>2. UNCHANGED <<todo, hold, lost, sends>>
    BY <1>5 DEF Ack
  <2>3. CASE /\ Held(w, {c})
             /\ rows' = [rows EXCEPT ![c].delivered = TRUE, ![c].leased = FALSE, ![c].owner = "none"]
             /\ lock' = [lock EXCEPT ![w] = "main"]
             /\ Goto(w, "narrow") /\ NoFault
    BY <2>1, <2>2, <2>3, AckRow, FaultTyped DEF Goto, TypeOK
  <2>4. CASE /\ IF Held(w, {c}) THEN Fault(w, {c}) ELSE NoFault
             /\ Goto(w, "ackFailed") /\ UNCHANGED <<rows, lock>>
    BY <2>1, <2>2, <2>4, FaultTyped DEF Goto, TypeOK
  <2> QED BY <1>5, <2>3, <2>4 DEF Ack
<1>6. ASSUME NEW w \in Workers, AckNarrow(w) PROVE TypeOK'
  <2>1. Tail(w) \subseteq Seqs
    BY DEF Tail
  <2> QED BY <1>6, <2>1 DEF AckNarrow, Goto
<1>7. ASSUME NEW w \in Workers, AckFailed(w) PROVE TypeOK'
  BY <1>7 DEF AckFailed, Goto
<1>8. ASSUME NEW w \in Workers, ReleaseRest(w) PROVE TypeOK'
  <2>2. /\ pc[w] = "release" /\ lock[w] = "free" /\ pc' = [pc EXCEPT ![w] = "stop"]
        /\ UNCHANGED <<todo, lock, lost, sends>>
    BY <1>8 DEF ReleaseRest, Release, Goto
  <2>3. CASE /\ Held(w, todo[w])
             /\ rows' = [i \in Seqs |-> IF i \in todo[w]
                             THEN [rows[i] EXCEPT !.owner = "none", !.leased = FALSE, !.waiting = TRUE]
                             ELSE rows[i]]
             /\ hold' = [hold EXCEPT ![w] = {}] /\ NoFault
    BY <2>2, <2>3, ReleaseRows, FaultTyped DEF TypeOK
  <2>4. CASE /\ IF Held(w, todo[w]) THEN Fault(w, todo[w]) ELSE NoFault
             /\ UNCHANGED <<rows, hold>>
    BY <2>2, <2>4, FaultTyped DEF TypeOK
  <2> QED BY <1>8, <2>3, <2>4 DEF ReleaseRest, Release
<1>9. ASSUME NEW w \in Workers, ReleaseTail(w) PROVE TypeOK'
  <2>1. Current(w) \in Seqs /\ Current(w) \in todo[w]
    BY <1>9, CurrentInBatch DEF ReleaseTail, ShapeInv, Working
  <2>2. /\ pc[w] = "releaseTail" /\ lock[w] = "free" /\ pc' = [pc EXCEPT ![w] = "stop"]
        /\ UNCHANGED <<todo, lock, lost, sends>>
    BY <1>9 DEF ReleaseTail, Release, Goto
  <2>3. CASE /\ Held(w, Tail(w))
             /\ rows' = [i \in Seqs |-> IF i \in Tail(w)
                             THEN [rows[i] EXCEPT !.owner = "none", !.leased = FALSE, !.waiting = TRUE]
                             ELSE rows[i]]
             /\ hold' = [hold EXCEPT ![w] = {Current(w)}] /\ NoFault
    BY <2>1, <2>2, <2>3, ReleaseRows, FaultTyped DEF TypeOK
  <2>4. CASE /\ IF Held(w, Tail(w)) THEN Fault(w, Tail(w)) ELSE NoFault
             /\ UNCHANGED <<rows, hold>>
    BY <2>2, <2>4, FaultTyped DEF TypeOK
  <2> QED BY <1>9, <2>3, <2>4 DEF ReleaseTail, Release
<1>10. ASSUME NEW w \in Workers, Stop(w) PROVE TypeOK'
  BY <1>10 DEF Stop, Goto
<1>11. ASSUME NEW w \in Workers, RenewBegin(w) PROVE TypeOK'
  BY <1>11 DEF RenewBegin
<1>12. ASSUME NEW w \in Workers, RenewEnd(w) PROVE TypeOK'
  <2>2. lock' = [lock EXCEPT ![w] = "free"] /\ lock[w] = "renewal"
        /\ UNCHANGED <<rows, pc, todo, hold, sends>>
    BY <1>12 DEF RenewEnd
  <2>3. CASE Held(w, hold[w]) /\ UNCHANGED lost /\ NoFault
    BY <2>2, <2>3, FaultTyped DEF TypeOK
  <2>4. CASE /\ lost' = [lost EXCEPT ![w] = TRUE]
             /\ IF Held(w, hold[w]) THEN Fault(w, hold[w]) ELSE NoFault
    BY <2>2, <2>4, FaultTyped DEF TypeOK
  <2> QED BY <1>12, <2>3, <2>4 DEF RenewEnd
<1>13. ASSUME NEW w \in Workers, Stall(w) PROVE TypeOK'
  BY <1>13, StallRows, FaultTyped DEF Stall
<1>14. ASSUME NEW w \in Workers, Crash(w) PROVE TypeOK'
  BY <1>14 DEF Crash, Fault, Excuse, Goto
<1>15. ASSUME NEW i \in Seqs, Lapse(i) PROVE TypeOK'
  BY <1>15, TimeRows DEF Lapse
<1>16. ASSUME NEW i \in Seqs, RetryDue(i) PROVE TypeOK'
  BY <1>16, TimeRows DEF RetryDue
<1> QED
  BY <1>1, <1>2, <1>3, <1>4, <1>5, <1>6, <1>7, <1>8, <1>9, <1>10, <1>11, <1>12, <1>13, <1>14,
     <1>15, <1>16 DEF Next, Batch

\* Where a worker stands.
LEMMA ShapeStep ==
    ASSUME TypeOK, ShapeInv, Next
    PROVE  ShapeInv'
<1> USE DEF ShapeInv, TypeOK, Working
<1>1. ASSUME NEW w \in Workers, Claim(w) PROVE ShapeInv'
  <2>1. PICK batch \in SUBSET Claimable :
              /\ rows' \in [Seqs -> RowRecords]
              /\ \A j \in Seqs : /\ rows'[j].delivered = rows[j].delivered
                                 /\ rows'[j].owner = IF j \in batch THEN w ELSE rows[j].owner
                                 /\ rows'[j].leased <=> (j \in batch \/ rows[j].leased)
              /\ todo' = [todo EXCEPT ![w] = batch]
              /\ hold' = [hold EXCEPT ![w] = batch]
    BY <1>1, ClaimBatch
  <2>2. /\ pc[w] = "idle" /\ pc' = [pc EXCEPT ![w] = "next"]
        /\ lost' = [lost EXCEPT ![w] = FALSE] /\ hurt' = [hurt EXCEPT ![w] = FALSE]
        /\ UNCHANGED <<lock, sends, excuses, faults>>
    BY <1>1 DEF Claim, Goto
  <2> QED BY <2>1, <2>2
<1>2. ASSUME NEW w \in Workers, NextRecord(w) PROVE ShapeInv'
  BY <1>2 DEF NextRecord, Goto
<1>3. ASSUME NEW w \in Workers, Delivered(w) PROVE ShapeInv'
  BY <1>3 DEF Delivered, Goto
<1>4. ASSUME NEW w \in Workers, Refused(w) PROVE ShapeInv'
  BY <1>4 DEF Refused, Goto, Excuse
<1>5. ASSUME NEW w \in Workers, Ack(w) PROVE ShapeInv'
  <2> DEFINE c == Current(w)
  <2>1. c \in Seqs /\ c \in todo[w]
    BY <1>5, CurrentInBatch DEF Ack, ShapeInv, Working
  <2>2. UNCHANGED <<todo, hold, lost, sends>>
    BY <1>5 DEF Ack
  <2>3. CASE /\ Held(w, {c})
             /\ rows' = [rows EXCEPT ![c].delivered = TRUE, ![c].leased = FALSE, ![c].owner = "none"]
             /\ lock' = [lock EXCEPT ![w] = "main"]
             /\ Goto(w, "narrow") /\ NoFault
    BY <1>5, <2>2, <2>3 DEF Ack, Goto
  <2>4. CASE /\ IF Held(w, {c}) THEN Fault(w, {c}) ELSE NoFault
             /\ Goto(w, "ackFailed") /\ UNCHANGED <<rows, lock>>
    BY <1>5, <2>2, <2>4 DEF Ack, Goto
  <2> QED BY <1>5, <2>3, <2>4 DEF Ack
<1>6. ASSUME NEW w \in Workers, AckNarrow(w) PROVE ShapeInv'
  BY <1>6 DEF AckNarrow, Goto
<1>7. ASSUME NEW w \in Workers, AckFailed(w) PROVE ShapeInv'
  BY <1>7 DEF AckFailed, Goto
<1>8. ASSUME NEW w \in Workers, ReleaseRest(w) PROVE ShapeInv'
  <2>2. /\ pc[w] = "release" /\ lock[w] = "free" /\ pc' = [pc EXCEPT ![w] = "stop"]
        /\ UNCHANGED <<todo, lock, lost, sends>>
    BY <1>8 DEF ReleaseRest, Release, Goto
  <2>3. CASE /\ Held(w, todo[w])
             /\ rows' = [i \in Seqs |-> IF i \in todo[w]
                             THEN [rows[i] EXCEPT !.owner = "none", !.leased = FALSE, !.waiting = TRUE]
                             ELSE rows[i]]
             /\ hold' = [hold EXCEPT ![w] = {}] /\ NoFault
    BY <2>2, <2>3
  <2>4. CASE /\ IF Held(w, todo[w]) THEN Fault(w, todo[w]) ELSE NoFault
             /\ UNCHANGED <<rows, hold>>
    BY <2>2, <2>4
  <2> QED BY <1>8, <2>3, <2>4 DEF ReleaseRest, Release
<1>9. ASSUME NEW w \in Workers, ReleaseTail(w) PROVE ShapeInv'
  <2>1. Current(w) \in Seqs /\ Current(w) \in todo[w]
    BY <1>9, CurrentInBatch DEF ReleaseTail, ShapeInv, Working
  <2>2. /\ pc[w] = "releaseTail" /\ lock[w] = "free" /\ pc' = [pc EXCEPT ![w] = "stop"]
        /\ UNCHANGED <<todo, lock, lost, sends>>
    BY <1>9 DEF ReleaseTail, Release, Goto
  <2>3. CASE /\ Held(w, Tail(w))
             /\ rows' = [i \in Seqs |-> IF i \in Tail(w)
                             THEN [rows[i] EXCEPT !.owner = "none", !.leased = FALSE, !.waiting = TRUE]
                             ELSE rows[i]]
             /\ hold' = [hold EXCEPT ![w] = {Current(w)}] /\ NoFault
    BY <2>1, <2>2, <2>3
  <2>4. CASE /\ IF Held(w, Tail(w)) THEN Fault(w, Tail(w)) ELSE NoFault
             /\ UNCHANGED <<rows, hold>>
    BY <2>1, <2>2, <2>4
  <2> QED BY <1>9, <2>3, <2>4 DEF ReleaseTail, Release
<1>10. ASSUME NEW w \in Workers, Stop(w) PROVE ShapeInv'
  BY <1>10 DEF Stop, Goto
<1>11. ASSUME NEW w \in Workers, RenewBegin(w) PROVE ShapeInv'
  BY <1>11 DEF RenewBegin
<1>12. ASSUME NEW w \in Workers, RenewEnd(w) PROVE ShapeInv'
  <2>2. lock' = [lock EXCEPT ![w] = "free"] /\ lock[w] = "renewal"
        /\ UNCHANGED <<rows, pc, todo, hold, sends>>
    BY <1>12 DEF RenewEnd
  <2>3. CASE Held(w, hold[w]) /\ UNCHANGED lost /\ NoFault
    BY <2>2, <2>3
  <2>4. CASE /\ lost' = [lost EXCEPT ![w] = TRUE]
             /\ IF Held(w, hold[w]) THEN Fault(w, hold[w]) ELSE NoFault
    BY <2>2, <2>4
  <2> QED BY <1>12, <2>3, <2>4 DEF RenewEnd
<1>13. ASSUME NEW w \in Workers, Stall(w) PROVE ShapeInv'
  BY <1>13 DEF Stall, Fault, Excuse
<1>14. ASSUME NEW w \in Workers, Crash(w) PROVE ShapeInv'
  BY <1>14 DEF Crash, Fault, Excuse, Goto
<1>15. ASSUME NEW i \in Seqs, Lapse(i) PROVE ShapeInv'
  BY <1>15 DEF Lapse
<1>16. ASSUME NEW i \in Seqs, RetryDue(i) PROVE ShapeInv'
  BY <1>16 DEF RetryDue
<1> QED
  BY <1>1, <1>2, <1>3, <1>4, <1>5, <1>6, <1>7, <1>8, <1>9, <1>10, <1>11, <1>12, <1>13, <1>14,
     <1>15, <1>16 DEF Next, Batch

\* Leased rows.
LEMMA RowStep ==
    ASSUME TypeOK, ShapeInv, RowInv, Next
    PROVE  RowInv'
<1> USE DEF RowInv
<1>1. ASSUME NEW w \in Workers, Claim(w) PROVE RowInv'
  <2>1. PICK batch \in SUBSET Claimable :
              /\ rows' \in [Seqs -> RowRecords]
              /\ \A j \in Seqs : /\ rows'[j].delivered = rows[j].delivered
                                 /\ rows'[j].owner = IF j \in batch THEN w ELSE rows[j].owner
                                 /\ rows'[j].leased <=> (j \in batch \/ rows[j].leased)
              /\ todo' = [todo EXCEPT ![w] = batch]
              /\ hold' = [hold EXCEPT ![w] = batch]
    BY <1>1, ClaimBatch
  <2>2. /\ pc[w] = "idle" /\ pc' = [pc EXCEPT ![w] = "next"]
        /\ lost' = [lost EXCEPT ![w] = FALSE] /\ hurt' = [hurt EXCEPT ![w] = FALSE]
        /\ UNCHANGED <<lock, sends, excuses, faults>>
    BY <1>1 DEF Claim, Goto
  <2> QED BY <2>1 DEF Claimable
<1>2. ASSUME NEW w \in Workers, NextRecord(w) PROVE RowInv'
  BY <1>2 DEF NextRecord, Goto
<1>3. ASSUME NEW w \in Workers, Delivered(w) PROVE RowInv'
  BY <1>3 DEF Delivered, Goto
<1>4. ASSUME NEW w \in Workers, Refused(w) PROVE RowInv'
  BY <1>4 DEF Refused, Goto, Excuse
<1>5. ASSUME NEW w \in Workers, Ack(w) PROVE RowInv'
  <2> DEFINE c == Current(w)
  <2>1. c \in Seqs /\ c \in todo[w]
    BY <1>5, CurrentInBatch DEF Ack, ShapeInv, Working
  <2>2. UNCHANGED <<todo, hold, lost, sends>>
    BY <1>5 DEF Ack
  <2>3. CASE /\ Held(w, {c})
             /\ rows' = [rows EXCEPT ![c].delivered = TRUE, ![c].leased = FALSE, ![c].owner = "none"]
             /\ lock' = [lock EXCEPT ![w] = "main"]
             /\ Goto(w, "narrow") /\ NoFault
    BY <2>1, <2>3, AckRow
  <2>4. CASE /\ IF Held(w, {c}) THEN Fault(w, {c}) ELSE NoFault
             /\ Goto(w, "ackFailed") /\ UNCHANGED <<rows, lock>>
    BY <2>4
  <2> QED BY <1>5, <2>3, <2>4 DEF Ack
<1>6. ASSUME NEW w \in Workers, AckNarrow(w) PROVE RowInv'
  BY <1>6 DEF AckNarrow, Goto
<1>7. ASSUME NEW w \in Workers, AckFailed(w) PROVE RowInv'
  BY <1>7 DEF AckFailed, Goto
<1>8. ASSUME NEW w \in Workers, ReleaseRest(w) PROVE RowInv'
  <2>2. /\ pc[w] = "release" /\ lock[w] = "free" /\ pc' = [pc EXCEPT ![w] = "stop"]
        /\ UNCHANGED <<todo, lock, lost, sends>>
    BY <1>8 DEF ReleaseRest, Release, Goto
  <2>3. CASE /\ Held(w, todo[w])
             /\ rows' = [i \in Seqs |-> IF i \in todo[w]
                             THEN [rows[i] EXCEPT !.owner = "none", !.leased = FALSE, !.waiting = TRUE]
                             ELSE rows[i]]
             /\ hold' = [hold EXCEPT ![w] = {}] /\ NoFault
    BY <2>3, ReleaseRows
  <2>4. CASE /\ IF Held(w, todo[w]) THEN Fault(w, todo[w]) ELSE NoFault
             /\ UNCHANGED <<rows, hold>>
    BY <2>4
  <2> QED BY <1>8, <2>3, <2>4 DEF ReleaseRest, Release
<1>9. ASSUME NEW w \in Workers, ReleaseTail(w) PROVE RowInv'
  <2>1. Current(w) \in Seqs /\ Current(w) \in todo[w]
    BY <1>9, CurrentInBatch DEF ReleaseTail, ShapeInv, Working
  <2>2. /\ pc[w] = "releaseTail" /\ lock[w] = "free" /\ pc' = [pc EXCEPT ![w] = "stop"]
        /\ UNCHANGED <<todo, lock, lost, sends>>
    BY <1>9 DEF ReleaseTail, Release, Goto
  <2>3. CASE /\ Held(w, Tail(w))
             /\ rows' = [i \in Seqs |-> IF i \in Tail(w)
                             THEN [rows[i] EXCEPT !.owner = "none", !.leased = FALSE, !.waiting = TRUE]
                             ELSE rows[i]]
             /\ hold' = [hold EXCEPT ![w] = {Current(w)}] /\ NoFault
    BY <2>3, ReleaseRows
  <2>4. CASE /\ IF Held(w, Tail(w)) THEN Fault(w, Tail(w)) ELSE NoFault
             /\ UNCHANGED <<rows, hold>>
    BY <2>4
  <2> QED BY <1>9, <2>3, <2>4 DEF ReleaseTail, Release
<1>10. ASSUME NEW w \in Workers, Stop(w) PROVE RowInv'
  BY <1>10 DEF Stop, Goto
<1>11. ASSUME NEW w \in Workers, RenewBegin(w) PROVE RowInv'
  BY <1>11 DEF RenewBegin
<1>12. ASSUME NEW w \in Workers, RenewEnd(w) PROVE RowInv'
  BY <1>12 DEF RenewEnd
<1>13. ASSUME NEW w \in Workers, Stall(w) PROVE RowInv'
  BY <1>13, StallRows
<1>14. ASSUME NEW w \in Workers, Crash(w) PROVE RowInv'
  BY <1>14 DEF Crash, Fault, Excuse, Goto
<1>15. ASSUME NEW i \in Seqs, Lapse(i) PROVE RowInv'
  BY <1>15, TimeRows
<1>16. ASSUME NEW i \in Seqs, RetryDue(i) PROVE RowInv'
  BY <1>16, TimeRows
<1> QED
  BY <1>1, <1>2, <1>3, <1>4, <1>5, <1>6, <1>7, <1>8, <1>9, <1>10, <1>11, <1>12, <1>13, <1>14,
     <1>15, <1>16 DEF Next, Batch

\* Nothing is acknowledged unsent.
LEMMA SentStep ==
    ASSUME TypeOK, ShapeInv, RowInv, SentInv, Next
    PROVE  SentInv'
<1> USE DEF SentInv, AckedWasSent, ShapeInv, TypeOK, Working
<1>a. \A v \in Workers : todo'[v] = todo[v] => Current(v)' = Current(v) /\ Tail(v)' = Tail(v)
  BY CurrentSame
<1>b. \A v \in Workers : todo[v] # {} => Current(v) \in todo[v] /\ Current(v) \in Seqs
  BY CurrentInBatch
<1>1. ASSUME NEW w \in Workers, Claim(w) PROVE SentInv'
  <2>1. PICK batch \in SUBSET Claimable :
              /\ rows' \in [Seqs -> RowRecords]
              /\ \A j \in Seqs : /\ rows'[j].delivered = rows[j].delivered
                                 /\ rows'[j].owner = IF j \in batch THEN w ELSE rows[j].owner
                                 /\ rows'[j].leased <=> (j \in batch \/ rows[j].leased)
              /\ todo' = [todo EXCEPT ![w] = batch]
              /\ hold' = [hold EXCEPT ![w] = batch]
    BY <1>1, ClaimBatch
  <2>2. /\ pc[w] = "idle" /\ pc' = [pc EXCEPT ![w] = "next"]
        /\ lost' = [lost EXCEPT ![w] = FALSE] /\ hurt' = [hurt EXCEPT ![w] = FALSE]
        /\ UNCHANGED <<lock, sends, excuses, faults>>
    BY <1>1 DEF Claim, Goto
  <2> QED BY <2>1, <2>2, <1>a, <1>b, SMTT(30)
<1>2. ASSUME NEW w \in Workers, NextRecord(w) PROVE SentInv'
  BY <1>2, <1>a, <1>b DEF NextRecord, Goto
<1>3. ASSUME NEW w \in Workers, Delivered(w) PROVE SentInv'
  BY <1>3, <1>a, <1>b DEF Delivered, Goto
<1>4. ASSUME NEW w \in Workers, Refused(w) PROVE SentInv'
  BY <1>4, <1>a, <1>b DEF Refused, Goto, Excuse
<1>5. ASSUME NEW w \in Workers, Ack(w) PROVE SentInv'
  <2> DEFINE c == Current(w)
  <2>1. c \in Seqs /\ c \in todo[w]
    BY <1>5, CurrentInBatch DEF Ack, ShapeInv, Working
  <2>2. UNCHANGED <<todo, hold, lost, sends>>
    BY <1>5 DEF Ack
  <2>3. CASE /\ Held(w, {c})
             /\ rows' = [rows EXCEPT ![c].delivered = TRUE, ![c].leased = FALSE, ![c].owner = "none"]
             /\ lock' = [lock EXCEPT ![w] = "main"]
             /\ Goto(w, "narrow") /\ NoFault
    <3>1. (\A j \in Seqs : j # c => rows'[j] = rows[j]) /\ rows'[c].delivered
      BY <2>1, <2>3, AckRow
    <3>2. pc[w] = "ack" /\ sends[c] > 0 /\ pc' = [pc EXCEPT ![w] = "narrow"]
      BY <1>5, <2>3 DEF Ack, Goto
    <3>3. AckedWasSent'
      BY <2>2, <3>1, <3>2
    <3>4. ASSUME NEW v \in Workers, v # w
          PROVE  /\ pc'[v] \in Working \cup {"ackFailed", "releaseTail"}
                     => sends'[Current(v)'] > 0
                 /\ pc'[v] = "narrow" => rows'[Current(v)'].delivered
      BY <2>2, <3>1, <3>2, <3>4, <1>a, <1>b
    <3>5. Current(w)' = c
      BY <2>2, <1>a
    <3> QED BY <2>2, <3>1, <3>2, <3>3, <3>4, <3>5
  <2>4. CASE /\ IF Held(w, {c}) THEN Fault(w, {c}) ELSE NoFault
             /\ Goto(w, "ackFailed") /\ UNCHANGED <<rows, lock>>
    BY <1>5, <2>2, <2>4, <1>a, <1>b DEF Ack, Goto
  <2> QED BY <1>5, <2>3, <2>4 DEF Ack
<1>6. ASSUME NEW w \in Workers, AckNarrow(w) PROVE SentInv'
  BY <1>6, <1>a, <1>b DEF AckNarrow, Goto
<1>7. ASSUME NEW w \in Workers, AckFailed(w) PROVE SentInv'
  BY <1>7, <1>a, <1>b DEF AckFailed, Goto
<1>8. ASSUME NEW w \in Workers, ReleaseRest(w) PROVE SentInv'
  <2>2. /\ pc[w] = "release" /\ lock[w] = "free" /\ pc' = [pc EXCEPT ![w] = "stop"]
        /\ UNCHANGED <<todo, lock, lost, sends>>
    BY <1>8 DEF ReleaseRest, Release, Goto
  <2>3. CASE /\ Held(w, todo[w])
             /\ rows' = [i \in Seqs |-> IF i \in todo[w]
                             THEN [rows[i] EXCEPT !.owner = "none", !.leased = FALSE, !.waiting = TRUE]
                             ELSE rows[i]]
             /\ hold' = [hold EXCEPT ![w] = {}] /\ NoFault
    <3>1. \A j \in Seqs : rows'[j].delivered = rows[j].delivered
      BY <2>3, ReleaseRows
    <3> QED BY <2>2, <3>1, <1>a, <1>b
  <2>4. CASE /\ IF Held(w, todo[w]) THEN Fault(w, todo[w]) ELSE NoFault
             /\ UNCHANGED <<rows, hold>>
    BY <2>2, <2>4, <1>a, <1>b
  <2> QED BY <1>8, <2>3, <2>4 DEF ReleaseRest, Release
<1>9. ASSUME NEW w \in Workers, ReleaseTail(w) PROVE SentInv'
  <2>1. Current(w) \in Seqs /\ Current(w) \in todo[w]
    BY <1>9, CurrentInBatch DEF ReleaseTail, ShapeInv, Working
  <2>2. /\ pc[w] = "releaseTail" /\ lock[w] = "free" /\ pc' = [pc EXCEPT ![w] = "stop"]
        /\ UNCHANGED <<todo, lock, lost, sends>>
    BY <1>9 DEF ReleaseTail, Release, Goto
  <2>3. CASE /\ Held(w, Tail(w))
             /\ rows' = [i \in Seqs |-> IF i \in Tail(w)
                             THEN [rows[i] EXCEPT !.owner = "none", !.leased = FALSE, !.waiting = TRUE]
                             ELSE rows[i]]
             /\ hold' = [hold EXCEPT ![w] = {Current(w)}] /\ NoFault
    BY <2>1, <2>2, <2>3, <1>a, <1>b, ReleaseRows, ZenonT(60)
  <2>4. CASE /\ IF Held(w, Tail(w)) THEN Fault(w, Tail(w)) ELSE NoFault
             /\ UNCHANGED <<rows, hold>>
    BY <2>2, <2>4, <1>a, <1>b
  <2> QED BY <1>9, <2>3, <2>4 DEF ReleaseTail, Release
<1>10. ASSUME NEW w \in Workers, Stop(w) PROVE SentInv'
  BY <1>10, <1>a, <1>b DEF Stop, Goto
<1>11. ASSUME NEW w \in Workers, RenewBegin(w) PROVE SentInv'
  BY <1>11, <1>a, <1>b DEF RenewBegin
<1>12. ASSUME NEW w \in Workers, RenewEnd(w) PROVE SentInv'
  BY <1>12, <1>a, <1>b DEF RenewEnd
<1>13. ASSUME NEW w \in Workers, Stall(w) PROVE SentInv'
  BY <1>13, <1>a, <1>b, StallRows DEF Stall, Fault, Excuse
<1>14. ASSUME NEW w \in Workers, Crash(w) PROVE SentInv'
  BY <1>14, <1>a, <1>b DEF Crash, Fault, Excuse, Goto
<1>15. ASSUME NEW i \in Seqs, Lapse(i) PROVE SentInv'
  BY <1>15, <1>a, <1>b, TimeRows DEF Lapse
<1>16. ASSUME NEW i \in Seqs, RetryDue(i) PROVE SentInv'
  BY <1>16, <1>a, <1>b, TimeRows DEF RetryDue
<1> QED
  BY <1>1, <1>2, <1>3, <1>4, <1>5, <1>6, <1>7, <1>8, <1>9, <1>10, <1>11, <1>12, <1>13, <1>14,
     <1>15, <1>16 DEF Next, Batch

\* A step that leaves the other workers and their rows alone keeps their leases.
LEMMA LeaseOthers ==
    ASSUME TypeOK, LeaseInv, NEW w \in Workers, LeaseOf(w)',
           \A v \in Workers \ {w} :
               /\ pc'[v] = pc[v] /\ todo'[v] = todo[v] /\ hold'[v] = hold[v] /\ hurt'[v] = hurt[v]
               /\ \A i \in Seqs : HeldRow(v, i)' <=> HeldRow(v, i)
    PROVE  LeaseInv'
<1> SUFFICES ASSUME NEW v \in Workers \ {w} PROVE LeaseOf(v)'
  BY DEF LeaseInv
<1>1. Tail(v)' = Tail(v)
  BY CurrentSame
<1>2. Renewed(v)' = Renewed(v) /\ Renewed(v) \subseteq Seqs
  BY <1>1 DEF Renewed, Tail, TypeOK
<1>3. LeaseOf(v)
  BY DEF LeaseInv
<1> QED BY <1>2, <1>3 DEF LeaseOf

\* All of the batch is held, or a fault hit it.
LEMMA LeaseStep ==
    ASSUME TypeOK, ShapeInv, RowInv, LeaseInv, Next
    PROVE  LeaseInv'
<1>a. ASSUME NEW w \in Workers PROVE Renewed(w) \subseteq hold[w] /\ Renewed(w) \subseteq Seqs
             /\ LeaseOf(w)
  BY DEF Renewed, Tail, ShapeInv, TypeOK, LeaseInv
<1>b. \A v \in Workers : todo'[v] = todo[v] => Current(v)' = Current(v) /\ Tail(v)' = Tail(v)
  BY CurrentSame
<1>1. ASSUME NEW w \in Workers, Claim(w) PROVE LeaseInv'
  <2>1. PICK batch \in SUBSET Claimable :
              /\ rows' \in [Seqs -> RowRecords]
              /\ \A j \in Seqs : /\ rows'[j].delivered = rows[j].delivered
                                 /\ rows'[j].owner = IF j \in batch THEN w ELSE rows[j].owner
                                 /\ rows'[j].leased <=> (j \in batch \/ rows[j].leased)
              /\ todo' = [todo EXCEPT ![w] = batch]
              /\ hold' = [hold EXCEPT ![w] = batch]
    BY <1>1, ClaimBatch
  <2>2. /\ pc[w] = "idle" /\ pc' = [pc EXCEPT ![w] = "next"]
        /\ lost' = [lost EXCEPT ![w] = FALSE] /\ hurt' = [hurt EXCEPT ![w] = FALSE]
        /\ UNCHANGED <<lock, sends, excuses, faults>>
    BY <1>1 DEF Claim, Goto
  <2>3. LeaseOf(w)'
    BY <2>1, <2>2 DEF LeaseOf, Renewed, HeldRow, ShapeInv, TypeOK, Claimable
  <2>4. \A v \in Workers \ {w}, i \in Seqs : HeldRow(v, i)' <=> HeldRow(v, i)
    BY <2>1 DEF HeldRow, Claimable
  <2> QED BY <2>1, <2>2, <2>3, <2>4, LeaseOthers DEF TypeOK
<1>2. ASSUME NEW w \in Workers, NextRecord(w) PROVE LeaseInv'
  <2>1. LeaseOf(w)'
    BY <1>2, <1>a, <1>b DEF NextRecord, Goto, LeaseOf, Renewed, HeldRow, ShapeInv, TypeOK
  <2> QED BY <1>2, <2>1, LeaseOthers DEF NextRecord, Goto, HeldRow, TypeOK
<1>3. ASSUME NEW w \in Workers, Delivered(w) PROVE LeaseInv'
  <2>1. LeaseOf(w)'
    BY <1>3, <1>a, <1>b DEF Delivered, Goto, LeaseOf, Renewed, HeldRow, ShapeInv, TypeOK
  <2> QED BY <1>3, <2>1, LeaseOthers DEF Delivered, Goto, HeldRow, TypeOK
<1>4. ASSUME NEW w \in Workers, Refused(w) PROVE LeaseInv'
  <2>1. LeaseOf(w)'
    BY <1>4, <1>a, <1>b DEF Refused, Goto, Excuse, LeaseOf, Renewed, HeldRow, ShapeInv, TypeOK
  <2> QED BY <1>4, <2>1, LeaseOthers DEF Refused, Goto, Excuse, HeldRow, TypeOK
<1>5. ASSUME NEW w \in Workers, Ack(w) PROVE LeaseInv'
  <2> DEFINE c == Current(w)
  <2>1. c \in Seqs /\ c \in todo[w]
    BY <1>5, CurrentInBatch DEF Ack, ShapeInv, Working
  <2>2. UNCHANGED <<todo, hold, lost, sends>>
    BY <1>5 DEF Ack
  <2>3. CASE /\ Held(w, {c})
             /\ rows' = [rows EXCEPT ![c].delivered = TRUE, ![c].leased = FALSE, ![c].owner = "none"]
             /\ lock' = [lock EXCEPT ![w] = "main"]
             /\ Goto(w, "narrow") /\ NoFault
    <3>1. \A v \in Workers \ {w}, i \in Seqs : HeldRow(v, i)' <=> HeldRow(v, i)
      <4>1. (\A j \in Seqs : j # c => rows'[j] = rows[j]) /\ rows'[c].delivered
        BY <2>1, <2>3, AckRow
      <4>2. rows[c].owner = w
        BY <2>3 DEF Held
      <4> QED BY <4>1, <4>2 DEF HeldRow
    <3>2. Tail(w)' = Tail(w) /\ c \notin Tail(w)
      BY <2>2, <1>b DEF Tail
    <3>3. Renewed(w)' = Tail(w) /\ Tail(w) \subseteq Renewed(w) /\ hurt'[w] = hurt[w]
      BY <1>5, <2>2, <2>3, <3>2 DEF Ack, Goto, Renewed, Tail, ShapeInv, TypeOK, NoFault
    <3>4. \A i \in Tail(w) : HeldRow(w, i)' <=> HeldRow(w, i)
      BY <1>a, <2>1, <2>3, <3>2, <3>3, AckRow DEF HeldRow
    <3>5. LeaseOf(w)'
      BY <1>a, <3>3, <3>4 DEF LeaseOf
    <3> QED BY <2>2, <2>3, <3>1, <3>5, LeaseOthers DEF Goto, NoFault, TypeOK
  <2>4. CASE /\ IF Held(w, {c}) THEN Fault(w, {c}) ELSE NoFault
             /\ Goto(w, "ackFailed") /\ UNCHANGED <<rows, lock>>
    <3>1. \A v \in Workers, i \in Seqs : HeldRow(v, i)' <=> HeldRow(v, i)
      BY <2>4 DEF HeldRow
    <3>2. NoFault \/ Fault(w, {c})
      BY <2>4
    <3>3. hurt[w] => hurt'[w]
      BY <3>2, FaultTyped
    <3>4. Renewed(w)' = Renewed(w)
      BY <1>5, <2>2, <2>4 DEF Ack, Goto, Renewed, TypeOK
    <3>5. LeaseOf(w)'
      BY <1>a, <3>1, <3>3, <3>4 DEF LeaseOf
    <3>6. \A v \in Workers \ {w} : hurt'[v] = hurt[v]
      BY <3>2 DEF NoFault, Fault, TypeOK
    <3> QED BY <2>2, <2>4, <3>1, <3>5, <3>6, LeaseOthers DEF Goto, TypeOK
  <2> QED BY <1>5, <2>3, <2>4 DEF Ack
<1>6. ASSUME NEW w \in Workers, AckNarrow(w) PROVE LeaseInv'
  <2>1. LeaseOf(w)'
    BY <1>6, <1>a, <1>b DEF AckNarrow, Goto, LeaseOf, Renewed, HeldRow, ShapeInv, TypeOK
  <2> QED BY <1>6, <2>1, LeaseOthers DEF AckNarrow, Goto, HeldRow, TypeOK
<1>7. ASSUME NEW w \in Workers, AckFailed(w) PROVE LeaseInv'
  <2>1. LeaseOf(w)'
    BY <1>7, <1>a, <1>b DEF AckFailed, Goto, LeaseOf, Renewed, HeldRow, ShapeInv, TypeOK
  <2> QED BY <1>7, <2>1, LeaseOthers DEF AckFailed, Goto, HeldRow, TypeOK
<1>8. ASSUME NEW w \in Workers, ReleaseRest(w) PROVE LeaseInv'
  <2>2. /\ pc[w] = "release" /\ lock[w] = "free" /\ pc' = [pc EXCEPT ![w] = "stop"]
        /\ UNCHANGED <<todo, lock, lost, sends>>
    BY <1>8 DEF ReleaseRest, Release, Goto
  <2>3. CASE /\ Held(w, todo[w])
             /\ rows' = [i \in Seqs |-> IF i \in todo[w]
                             THEN [rows[i] EXCEPT !.owner = "none", !.leased = FALSE, !.waiting = TRUE]
                             ELSE rows[i]]
             /\ hold' = [hold EXCEPT ![w] = {}] /\ NoFault
    <3>1. \A v \in Workers \ {w}, i \in Seqs : HeldRow(v, i)' <=> HeldRow(v, i)
      <4>1. \A j \in Seqs : (j \notin todo[w] => rows'[j] = rows[j])
            /\ (j \in todo[w] => ~rows'[j].leased)
        BY <2>3, ReleaseRows
      <4>2. \A j \in todo[w] : rows[j].owner = w
        BY <2>3 DEF Held
      <4> QED BY <4>1, <4>2 DEF HeldRow
    <3>5. LeaseOf(w)'
      BY <2>2, <2>3 DEF LeaseOf, Renewed, TypeOK
    <3> QED BY <2>2, <2>3, <3>1, <3>5, LeaseOthers DEF NoFault, TypeOK
  <2>4. CASE /\ IF Held(w, todo[w]) THEN Fault(w, todo[w]) ELSE NoFault
             /\ UNCHANGED <<rows, hold>>
    <3>1. \A v \in Workers, i \in Seqs : HeldRow(v, i)' <=> HeldRow(v, i)
      BY <2>4 DEF HeldRow
    <3>2. NoFault \/ Fault(w, todo[w])
      BY <2>4
    <3>3. hurt[w] => hurt'[w]
      BY <3>2, FaultTyped
    <3>4. Renewed(w)' = Renewed(w)
      BY <2>2, <2>4 DEF Renewed, TypeOK
    <3>5. LeaseOf(w)'
      BY <1>a, <3>1, <3>3, <3>4 DEF LeaseOf
    <3>6. \A v \in Workers \ {w} : hurt'[v] = hurt[v]
      BY <3>2 DEF NoFault, Fault, TypeOK
    <3> QED BY <2>2, <2>4, <3>1, <3>5, <3>6, LeaseOthers DEF TypeOK
  <2> QED BY <1>8, <2>3, <2>4 DEF ReleaseRest, Release
<1>9. ASSUME NEW w \in Workers, ReleaseTail(w) PROVE LeaseInv'
  <2>1. Current(w) \in Seqs /\ Current(w) \in todo[w]
    BY <1>9, CurrentInBatch DEF ReleaseTail, ShapeInv, Working
  <2>2. /\ pc[w] = "releaseTail" /\ lock[w] = "free" /\ pc' = [pc EXCEPT ![w] = "stop"]
        /\ UNCHANGED <<todo, lock, lost, sends>>
    BY <1>9 DEF ReleaseTail, Release, Goto
  <2>3. CASE /\ Held(w, Tail(w))
             /\ rows' = [i \in Seqs |-> IF i \in Tail(w)
                             THEN [rows[i] EXCEPT !.owner = "none", !.leased = FALSE, !.waiting = TRUE]
                             ELSE rows[i]]
             /\ hold' = [hold EXCEPT ![w] = {Current(w)}] /\ NoFault
    <3>1. \A v \in Workers \ {w}, i \in Seqs : HeldRow(v, i)' <=> HeldRow(v, i)
      <4>1. \A j \in Seqs : (j \notin Tail(w) => rows'[j] = rows[j])
            /\ (j \in Tail(w) => ~rows'[j].leased)
        BY <2>3, ReleaseRows
      <4>2. \A j \in Tail(w) : rows[j].owner = w
        BY <2>3 DEF Held
      <4> QED BY <4>1, <4>2 DEF HeldRow
    <3>2. Renewed(w)' = {Current(w)} /\ Current(w) \in Renewed(w) /\ hurt'[w] = hurt[w]
      BY <2>1, <2>2, <2>3 DEF Renewed, ShapeInv, TypeOK, NoFault
    <3>3. \A i \in {Current(w)} : HeldRow(w, i)' <=> HeldRow(w, i)
      <4>1. rows'[Current(w)] = rows[Current(w)]
        BY <2>1, <2>3, ReleaseRows DEF Tail
      <4> QED BY <4>1 DEF HeldRow
    <3>5. LeaseOf(w)'
      BY <1>a, <3>2, <3>3 DEF LeaseOf
    <3> QED BY <2>2, <2>3, <3>1, <3>5, LeaseOthers DEF NoFault, TypeOK
  <2>4. CASE /\ IF Held(w, Tail(w)) THEN Fault(w, Tail(w)) ELSE NoFault
             /\ UNCHANGED <<rows, hold>>
    <3>1. \A v \in Workers, i \in Seqs : HeldRow(v, i)' <=> HeldRow(v, i)
      BY <2>4 DEF HeldRow
    <3>2. NoFault \/ Fault(w, Tail(w))
      BY <2>4
    <3>3. hurt[w] => hurt'[w]
      BY <3>2, FaultTyped
    <3>4. Renewed(w)' = Renewed(w)
      BY <2>2, <2>4 DEF Renewed, TypeOK
    <3>5. LeaseOf(w)'
      BY <1>a, <3>1, <3>3, <3>4 DEF LeaseOf
    <3>6. \A v \in Workers \ {w} : hurt'[v] = hurt[v]
      BY <3>2 DEF NoFault, Fault, TypeOK
    <3> QED BY <2>2, <2>4, <3>1, <3>5, <3>6, LeaseOthers DEF TypeOK
  <2> QED BY <1>9, <2>3, <2>4 DEF ReleaseTail, Release
<1>10. ASSUME NEW w \in Workers, Stop(w) PROVE LeaseInv'
  <2>1. LeaseOf(w)'
    BY <1>10, <1>a, <1>b DEF Stop, Goto, LeaseOf, Renewed, HeldRow, ShapeInv, TypeOK
  <2> QED BY <1>10, <2>1, LeaseOthers DEF Stop, Goto, HeldRow, TypeOK
<1>11. ASSUME NEW w \in Workers, RenewBegin(w) PROVE LeaseInv'
  <2>1. LeaseOf(w)'
    BY <1>11, <1>a, <1>b DEF RenewBegin, LeaseOf, Renewed, HeldRow, ShapeInv, TypeOK
  <2> QED BY <1>11, <2>1, LeaseOthers DEF RenewBegin, HeldRow, TypeOK
<1>12. ASSUME NEW w \in Workers, RenewEnd(w) PROVE LeaseInv'
  <2>1. PICK S : NoFault \/ Fault(w, S)
    BY <1>12 DEF RenewEnd
  <2>2. \A v \in Workers, i \in Seqs : HeldRow(v, i)' <=> HeldRow(v, i)
    BY <1>12 DEF RenewEnd, HeldRow
  <2>3. hurt[w] => hurt'[w]
    BY <2>1, FaultTyped
  <2>4. Renewed(w)' = Renewed(w)
    BY <1>12, <1>b DEF RenewEnd, Renewed
  <2>5. LeaseOf(w)'
    BY <1>a, <2>2, <2>3, <2>4 DEF LeaseOf
  <2>6. \A v \in Workers \ {w} : hurt'[v] = hurt[v]
    BY <2>1 DEF NoFault, Fault, TypeOK
  <2> QED BY <1>12, <2>2, <2>5, <2>6, LeaseOthers DEF RenewEnd, TypeOK
<1>13. ASSUME NEW w \in Workers, Stall(w) PROVE LeaseInv'
  <2>1. Renewed(w)' = Renewed(w) /\ hurt'[w]
    BY <1>13, <1>b DEF Stall, Fault, Renewed, TypeOK
  <2>2. \A i \in Renewed(w) : ~HeldRow(w, i)'
    BY <1>13, <1>a, StallRows DEF HeldRow
  <2>3. LeaseOf(w)'
    BY <2>1, <2>2 DEF LeaseOf
  <2>4. \A v \in Workers \ {w}, i \in Seqs : HeldRow(v, i)' <=> HeldRow(v, i)
    BY <1>13, StallRows DEF HeldRow
  <2> QED BY <1>13, <2>3, <2>4, LeaseOthers DEF Stall, Fault, TypeOK
<1>14. ASSUME NEW w \in Workers, Crash(w) PROVE LeaseInv'
  <2>1. LeaseOf(w)'
    BY <1>14, <1>a, <1>b DEF Crash, Fault, Excuse, Goto, LeaseOf, Renewed, HeldRow, ShapeInv,
       TypeOK
  <2> QED BY <1>14, <2>1, LeaseOthers DEF Crash, Fault, Excuse, Goto, HeldRow, TypeOK
<1>15. ASSUME NEW i \in Seqs, Lapse(i) PROVE LeaseInv'
  <2> SUFFICES ASSUME NEW v \in Workers PROVE LeaseOf(v)'
    BY DEF LeaseInv
  <2>1. Renewed(v)' = Renewed(v) /\ hurt' = hurt
    BY <1>15, <1>b DEF Lapse, Renewed
  <2>2. \A j \in Renewed(v) : HeldRow(v, j)' <=> HeldRow(v, j)
    BY <1>15, <1>a, TimeRows DEF HeldRow
  <2> QED BY <1>a, <2>1, <2>2 DEF LeaseOf
<1>16. ASSUME NEW i \in Seqs, RetryDue(i) PROVE LeaseInv'
  <2> SUFFICES ASSUME NEW v \in Workers PROVE LeaseOf(v)'
    BY DEF LeaseInv
  <2>1. Renewed(v)' = Renewed(v) /\ hurt' = hurt
    BY <1>16, <1>b DEF RetryDue, Renewed
  <2>2. \A j \in Renewed(v) : HeldRow(v, j)' <=> HeldRow(v, j)
    BY <1>16, <1>a, TimeRows DEF HeldRow
  <2> QED BY <1>a, <2>1, <2>2 DEF LeaseOf
<1> QED
  BY <1>1, <1>2, <1>3, <1>4, <1>5, <1>6, <1>7, <1>8, <1>9, <1>10, <1>11, <1>12, <1>13, <1>14,
     <1>15, <1>16 DEF Next, Batch

\* A renewal that fails finds a record that is not held.
LEMMA LossStep ==
    ASSUME TypeOK, ShapeInv, LeaseInv, NoSelfInflictedLoss, Next
    PROVE  NoSelfInflictedLoss'
<1>1. CASE \E w \in Workers : RenewEnd(w)
  <2>1. PICK w \in Workers : RenewEnd(w)
    BY <1>1
  <2>2. CASE Held(w, hold[w])
    BY <2>1, <2>2 DEF RenewEnd, NoFault, Fault, NoSelfInflictedLoss, TypeOK
  <2>3. CASE ~Held(w, hold[w])
    <3>1. Renewed(w) = hold[w]
      BY <2>1 DEF RenewEnd, Renewed, ShapeInv
    <3>2. hurt[w]
      BY <2>3, <3>1 DEF LeaseInv, LeaseOf, Held, HeldRow
    <3> QED BY <2>1, <2>3, <3>2 DEF RenewEnd, NoFault, NoSelfInflictedLoss, TypeOK
  <2> QED BY <2>2, <2>3
<1>2. CASE \E w \in Workers : Claim(w)
  BY <1>2 DEF Claim, NoSelfInflictedLoss, TypeOK
<1>3. CASE \E w \in Workers : Crash(w)
  BY <1>3 DEF Crash, Fault, NoSelfInflictedLoss, TypeOK
<1>4. CASE UNCHANGED lost /\ \A w \in Workers : hurt[w] => hurt'[w]
  BY <1>4 DEF NoSelfInflictedLoss
<1>5. ASSUME NEW w \in Workers, Ack(w) \/ ReleaseRest(w) \/ ReleaseTail(w)
      PROVE  UNCHANGED lost /\ \A v \in Workers : hurt[v] => hurt'[v]
  <2>1. PICK S : NoFault \/ Fault(w, S)
    BY <1>5 DEF Ack, ReleaseRest, ReleaseTail, Release
  <2> QED BY <1>5, <2>1, FaultTyped DEF Ack, ReleaseRest, ReleaseTail, Release
<1>6. ASSUME NEW w \in Workers, Stall(w)
      PROVE  UNCHANGED lost /\ \A v \in Workers : hurt[v] => hurt'[v]
  BY <1>6, FaultTyped DEF Stall
<1>7. ASSUME NEW w \in Workers,
             NextRecord(w) \/ Delivered(w) \/ Refused(w) \/ AckNarrow(w) \/ AckFailed(w)
                \/ Stop(w) \/ RenewBegin(w)
      PROVE  UNCHANGED <<lost, hurt>>
  BY <1>7 DEF NextRecord, Delivered, Refused, AckNarrow, AckFailed, Stop, RenewBegin
<1>8. ASSUME NEW i \in Seqs, Lapse(i) \/ RetryDue(i) PROVE UNCHANGED <<lost, hurt>>
  BY <1>8 DEF Lapse, RetryDue
<1> QED BY <1>1, <1>2, <1>3, <1>4, <1>5, <1>6, <1>7, <1>8 DEF Next, Batch

\* What was sent and will be sent stays within the excuses.
LEMMA DebtStep ==
    ASSUME TypeOK, ShapeInv, RowInv, SentInv, LeaseInv, DebtInv, Next
    PROVE  DebtInv'
<1>a. \A v \in Workers : todo'[v] = todo[v] => Current(v)' = Current(v) /\ Tail(v)' = Tail(v)
  BY CurrentSame
<1>b. \A v \in Workers : todo[v] # {} => Current(v) \in todo[v] /\ Current(v) \in Seqs
  BY CurrentInBatch
<1>c. \A j \in Seqs : Pending(j) \in Nat /\ sends[j] \in Nat /\ excuses[j] \in Nat
  BY SendersFinite DEF TypeOK, Pending
<1>d. TypeOK' /\ ShapeInv' /\ RowInv'
  BY TypeStep, ShapeStep, RowStep
<1>1. ASSUME NEW w \in Workers, Claim(w) PROVE DebtInv'
  <2>1. PICK batch \in SUBSET Claimable :
              /\ rows' \in [Seqs -> RowRecords]
              /\ \A j \in Seqs : /\ rows'[j].delivered = rows[j].delivered
                                 /\ rows'[j].owner = IF j \in batch THEN w ELSE rows[j].owner
                                 /\ rows'[j].leased <=> (j \in batch \/ rows[j].leased)
              /\ todo' = [todo EXCEPT ![w] = batch]
              /\ hold' = [hold EXCEPT ![w] = batch]
    BY <1>1, ClaimBatch
  <2>2. /\ pc[w] = "idle" /\ pc' = [pc EXCEPT ![w] = "next"]
        /\ lost' = [lost EXCEPT ![w] = FALSE] /\ hurt' = [hurt EXCEPT ![w] = FALSE]
        /\ UNCHANGED <<lock, sends, excuses, faults>>
    BY <1>1 DEF Claim, Goto
  <2>a. SUFFICES ASSUME NEW j \in Seqs PROVE DebtOf(j)'
    BY DEF DebtInv
  <2>b. DebtOf(j)
    BY DEF DebtInv
  <2>c. \A v \in Workers \ {w} : pc'[v] = pc[v] /\ todo'[v] = todo[v] /\ hold'[v] = hold[v]
        /\ lost'[v] = lost[v]
    BY <2>1, <2>2 DEF TypeOK
  <2>d. Unsent(w) = {} /\ Unsent(w)' = batch
    BY <2>1, <2>2 DEF Unsent, Working, TypeOK
  <2>e. Pending(j)' = IF j \in batch THEN Pending(j) + 1 ELSE Pending(j)
    BY <2>c, <2>d, SendersStep
  <2>3. CASE j \in batch
    <3>1. Open(j) /\ ~Open(j)'
      BY <2>1, <2>2, <2>3 DEF Open, Claimable, Leaving, TypeOK
    <3> QED BY <1>c, <2>2, <2>3, <2>b, <2>e, <3>1 DEF DebtOf
  <2>4. CASE j \notin batch
    <3>1. /\ rows'[j].delivered = rows[j].delivered /\ rows'[j].owner = rows[j].owner
          /\ (rows'[j].leased <=> rows[j].leased)
      BY <2>1, <2>4
    <3>2. CASE rows[j].leased /\ rows[j].owner # w
      <4>1. Open(j)' <=> Open(j)
        BY <2>c, <3>1, <3>2 DEF Open, RowInv
      <4> QED BY <1>c, <2>2, <2>4, <2>b, <2>e, <4>1 DEF DebtOf
    <3>3. CASE rows[j].leased /\ rows[j].owner = w
      <4>1. Open(j)
        BY <2>2, <3>3 DEF Open, ShapeInv, RowInv
      <4> QED BY <1>c, <2>2, <2>4, <2>b, <2>e, <4>1 DEF DebtOf
    <3>4. CASE ~rows[j].leased
      <4>1. Open(j)' <=> Open(j)
        BY <3>1, <3>4 DEF Open
      <4> QED BY <1>c, <2>2, <2>4, <2>b, <2>e, <4>1 DEF DebtOf
    <3> QED BY <3>2, <3>3, <3>4
  <2> QED BY <2>3, <2>4
<1>2. ASSUME NEW w \in Workers, NextRecord(w) PROVE DebtInv'
  <2>a. SUFFICES ASSUME NEW j \in Seqs PROVE DebtOf(j)'
    BY DEF DebtInv
  <2>b. DebtOf(j)
    BY DEF DebtInv
  <2>1. CASE todo[w] = {}
    <3>1. pc' = [pc EXCEPT ![w] = "stop"] /\ pc[w] = "next"
          /\ UNCHANGED <<rows, todo, hold, lost, sends, excuses>>
      BY <1>2, <2>1 DEF NextRecord, Goto
    <3>2. Unsent(w) = {} /\ Unsent(w)' = {}
      BY <2>1, <3>1 DEF Unsent, Working, TypeOK
    <3>3. Pending(j)' = Pending(j)
      BY <3>1, <3>2, SendersStep DEF TypeOK
    <3>4. Open(j)' => Open(j)
      BY <2>1, <3>1 DEF Open, ShapeInv, RowInv, TypeOK
    <3> QED BY <2>b, <3>1, <3>3, <3>4 DEF DebtOf
  <2>2. CASE todo[w] # {}
    <3>1. /\ sends' = [sends EXCEPT ![Current(w)] = sends[Current(w)] + 1]
          /\ pc' = [pc EXCEPT ![w] = "sending"] /\ pc[w] = "next"
          /\ UNCHANGED <<rows, todo, hold, lost, excuses>>
      BY <1>2, <2>2 DEF NextRecord, Goto
    <3>2. Unsent(w) = todo[w] /\ Unsent(w)' = todo[w] \ {Current(w)}
      BY <1>a, <3>1 DEF Unsent, Working, TypeOK, Tail
    <3>3. Pending(j)' = IF j = Current(w) THEN Pending(j) - 1 ELSE Pending(j)
      BY <1>b, <2>2, <3>1, <3>2, SendersStep DEF TypeOK
    <3>4. sends'[j] = IF j = Current(w) THEN sends[j] + 1 ELSE sends[j]
      BY <3>1 DEF TypeOK
    <3>5. sends'[j] + Pending(j)' = sends[j] + Pending(j)
      BY <1>c, <3>3, <3>4
    <3>6. Open(j)' => Open(j)
      BY <3>1 DEF Open, RowInv, TypeOK, Leaving
    <3> QED BY <2>b, <3>1, <3>5, <3>6 DEF DebtOf
  <2> QED BY <2>1, <2>2
<1>3. ASSUME NEW w \in Workers, Delivered(w) PROVE DebtInv'
  <2>a. SUFFICES ASSUME NEW j \in Seqs PROVE DebtOf(j)'
    BY DEF DebtInv
  <2>b. DebtOf(j)
    BY DEF DebtInv
  <2>c. \A v \in Workers \ {w} : pc'[v] = pc[v] /\ todo'[v] = todo[v] /\ hold'[v] = hold[v]
        /\ lost'[v] = lost[v]
    BY <1>3 DEF Delivered, Goto, TypeOK
  <2>d. Unsent(w) = Tail(w) /\ (Unsent(w)' = Tail(w) \/ Unsent(w)' = {})
    BY <1>3, <1>a DEF Delivered, Goto, Unsent, Working, TypeOK
  <2>e. Pending(j)' \in Nat /\ Pending(j)' <= Pending(j)
    BY <2>c, <2>d, SendersStep
  <2>1. Open(j)' => Open(j)
    BY <1>3 DEF Delivered, Goto, Open, Leaving, RowInv, TypeOK
  <2> QED BY <1>3, <1>c, <2>1, <2>b, <2>e DEF Delivered, DebtOf
<1>4. ASSUME NEW w \in Workers, Refused(w) PROVE DebtInv'
  <2>a. SUFFICES ASSUME NEW j \in Seqs PROVE DebtOf(j)'
    BY DEF DebtInv
  <2>b. DebtOf(j)
    BY DEF DebtInv
  <2>c. \A v \in Workers \ {w} : pc'[v] = pc[v] /\ todo'[v] = todo[v] /\ hold'[v] = hold[v]
        /\ lost'[v] = lost[v]
    BY <1>4 DEF Refused, Goto, TypeOK
  <2>d. Unsent(w) = Tail(w) /\ Unsent(w)' = {}
    BY <1>4 DEF Refused, Goto, Unsent, Working, TypeOK
  <2>e. Pending(j)' \in Nat /\ Pending(j)' <= Pending(j)
        /\ (j \in Tail(w) => Pending(j)' <= Pending(j) - 1)
    BY <2>c, <2>d, SendersStep
  <2>1. /\ pc[w] = "sending" /\ pc' = [pc EXCEPT ![w] = "release"]
        /\ UNCHANGED <<rows, todo, hold, lost, sends>>
    BY <1>4 DEF Refused, Goto
  <2>2. CASE lost[w]
    <3>1. Open(j)' => Open(j)
      BY <2>1, <2>2 DEF Open, Leaving, RowInv, TypeOK
    <3> QED BY <1>4, <1>c, <2>1, <2>2, <2>b, <2>e, <3>1 DEF Refused, DebtOf
  <2>3. CASE ~lost[w]
    <3>1. excuses'[j] = IF j = Current(w) THEN excuses[j] + 1 ELSE excuses[j]
      BY <1>4, <2>3 DEF Refused, Excuse
    <3>2. CASE j \in todo[w]
      BY <1>c, <2>1, <2>b, <2>e, <3>1, <3>2 DEF DebtOf, Tail
    <3>3. CASE j \notin todo[w]
      <4>1. Open(j)' => Open(j)
        BY <2>1, <3>3 DEF Open, RowInv, ShapeInv, TypeOK
      <4> QED BY <1>b, <1>c, <2>1, <2>b, <2>e, <3>1, <4>1 DEF DebtOf
    <3> QED BY <3>2, <3>3
  <2> QED BY <2>2, <2>3
<1>5. ASSUME NEW w \in Workers, Ack(w) PROVE DebtInv'
  <2>a. SUFFICES ASSUME NEW j \in Seqs PROVE DebtOf(j)'
    BY DEF DebtInv
  <2>b. DebtOf(j)
    BY DEF DebtInv
  <2> DEFINE c == Current(w)
  <2>1. c \in Seqs /\ c \in todo[w]
    BY <1>5, CurrentInBatch DEF Ack, ShapeInv, Working
  <2>2. UNCHANGED <<todo, hold, lost, sends>>
    BY <1>5 DEF Ack
  <2>3. CASE /\ Held(w, {c})
             /\ rows' = [rows EXCEPT ![c].delivered = TRUE, ![c].leased = FALSE, ![c].owner = "none"]
             /\ lock' = [lock EXCEPT ![w] = "main"]
             /\ Goto(w, "narrow") /\ NoFault
    <3>1. /\ pc[w] = "ack" /\ pc' = [pc EXCEPT ![w] = "narrow"] /\ UNCHANGED excuses
      BY <1>5, <2>3 DEF Ack, Goto, NoFault
    <3>2. Unsent(w) = Tail(w) /\ Unsent(w)' = Tail(w)
      BY <1>a, <2>2, <3>1 DEF Unsent, Working, TypeOK
    <3>3. Pending(j)' = Pending(j)
      BY <2>2, <3>1, <3>2, SendersStep DEF TypeOK
    <3>4. (j # c => rows'[j] = rows[j]) /\ rows'[c].delivered
      BY <2>1, <2>3, AckRow
    <3>5. Open(j)' => Open(j)
      BY <2>2, <3>1, <3>4 DEF Open, Leaving, RowInv, TypeOK
    <3> QED BY <2>2, <2>b, <3>1, <3>3, <3>5 DEF DebtOf
  <2>4. CASE /\ IF Held(w, {c}) THEN Fault(w, {c}) ELSE NoFault
             /\ Goto(w, "ackFailed") /\ UNCHANGED <<rows, lock>>
    <3>1. /\ pc[w] = "ack" /\ pc' = [pc EXCEPT ![w] = "ackFailed"] /\ UNCHANGED rows
      BY <1>5, <2>4 DEF Ack, Goto
    <3>2. Unsent(w) = Tail(w) /\ Unsent(w)' = {}
      BY <3>1 DEF Unsent, Working, TypeOK
    <3>3. Pending(j)' \in Nat /\ Pending(j)' <= Pending(j)
          /\ (j \in Tail(w) => Pending(j)' <= Pending(j) - 1)
      BY <2>2, <3>1, <3>2, SendersStep DEF TypeOK
    <3>4. excuses'[j] >= excuses[j] /\ excuses'[j] \in Nat
      <4>1. NoFault \/ Fault(w, {c})
        BY <2>4
      <4> QED BY <4>1, FaultTyped
    <3>5. CASE j \in Tail(w)
      BY <1>c, <2>2, <2>b, <3>3, <3>4, <3>5 DEF DebtOf
    <3>6. CASE j = c /\ Held(w, {c})
      <4>1. excuses'[j] = excuses[j] + 1
        BY <2>4, <3>6 DEF Fault, Excuse
      <4> QED BY <1>c, <2>2, <2>b, <3>3, <4>1 DEF DebtOf
    <3>7. CASE j # c /\ j \notin Tail(w)
      <4>1. j \notin hold[w]
        BY <3>1, <3>7 DEF Tail, ShapeInv
      <4>2. Open(j)' => Open(j)
        BY <2>2, <3>1, <4>1 DEF Open, RowInv, TypeOK
      <4> QED BY <1>c, <2>2, <2>b, <3>3, <3>4, <4>2 DEF DebtOf
    <3>8. CASE j = c /\ ~Held(w, {c})
      <4>1. Open(j)' => Open(j)
        BY <2>2, <3>1, <3>8 DEF Open, RowInv, TypeOK, Held
      <4> QED BY <1>c, <2>2, <2>b, <3>3, <3>4, <4>1 DEF DebtOf
    <3> QED BY <3>5, <3>6, <3>7, <3>8
  <2> QED BY <1>5, <2>3, <2>4 DEF Ack
<1>6. ASSUME NEW w \in Workers, AckNarrow(w) PROVE DebtInv'
  <2>a. SUFFICES ASSUME NEW j \in Seqs PROVE DebtOf(j)'
    BY DEF DebtInv
  <2>b. DebtOf(j)
    BY DEF DebtInv
  <2>c. \A v \in Workers \ {w} : pc'[v] = pc[v] /\ todo'[v] = todo[v] /\ hold'[v] = hold[v]
        /\ lost'[v] = lost[v]
    BY <1>6 DEF AckNarrow, Goto, TypeOK
  <2>d. Unsent(w) = Tail(w) /\ Unsent(w)' = Tail(w)
    BY <1>6 DEF AckNarrow, Goto, Unsent, Working, TypeOK
  <2>e. Pending(j)' = Pending(j)
    BY <2>c, <2>d, SendersStep
  <2>1. hold[w] = todo[w] /\ rows[Current(w)].delivered
    BY <1>6 DEF AckNarrow, ShapeInv, SentInv
  <2>2. Open(j)' => Open(j)
    BY <1>6, <2>1 DEF AckNarrow, Goto, Open, Leaving, RowInv, Tail, TypeOK
  <2> QED BY <1>6, <2>2, <2>b, <2>e DEF AckNarrow, DebtOf
<1>7. ASSUME NEW w \in Workers, AckFailed(w) PROVE DebtInv'
  <2>a. SUFFICES ASSUME NEW j \in Seqs PROVE DebtOf(j)'
    BY DEF DebtInv
  <2>b. DebtOf(j)
    BY DEF DebtInv
  <2>c. \A v \in Workers \ {w} : pc'[v] = pc[v] /\ todo'[v] = todo[v] /\ hold'[v] = hold[v]
        /\ lost'[v] = lost[v]
    BY <1>7 DEF AckFailed, Goto, TypeOK
  <2>d. Unsent(w) = {} /\ Unsent(w)' = {}
    BY <1>7 DEF AckFailed, Goto, Unsent, Working, TypeOK
  <2>e. Pending(j)' = Pending(j)
    BY <2>c, <2>d, SendersStep
  <2>1. Open(j)' => Open(j)
    BY <1>7 DEF AckFailed, Goto, Open, Leaving, RowInv, TypeOK
  <2> QED BY <1>7, <2>1, <2>b, <2>e DEF AckFailed, DebtOf
<1>8. ASSUME NEW w \in Workers, ReleaseRest(w) PROVE DebtInv'
  <2>2. /\ pc[w] = "release" /\ lock[w] = "free" /\ pc' = [pc EXCEPT ![w] = "stop"]
        /\ UNCHANGED <<todo, lock, lost, sends>>
    BY <1>8 DEF ReleaseRest, Release, Goto
  <2>a. SUFFICES ASSUME NEW j \in Seqs PROVE DebtOf(j)'
    BY DEF DebtInv
  <2>b. DebtOf(j)
    BY DEF DebtInv
  <2>c. \A v \in Workers \ {w} : pc'[v] = pc[v] /\ todo'[v] = todo[v] /\ hold'[v] = hold[v]
        /\ lost'[v] = lost[v]
    BY <1>8 DEF ReleaseRest, Release, Goto, TypeOK
  <2>d. Unsent(w) = {} /\ Unsent(w)' = {}
    BY <2>2 DEF Unsent, Working, TypeOK
  <2>e. Pending(j)' = Pending(j)
    BY <2>c, <2>d, SendersStep
  <2>3. CASE /\ Held(w, todo[w])
             /\ rows' = [i \in Seqs |-> IF i \in todo[w]
                             THEN [rows[i] EXCEPT !.owner = "none", !.leased = FALSE, !.waiting = TRUE]
                             ELSE rows[i]]
             /\ hold' = [hold EXCEPT ![w] = {}] /\ NoFault
    <3>1. (j \notin todo[w] => rows'[j] = rows[j])
          /\ (j \in todo[w] => rows'[j].delivered = rows[j].delivered)
      BY <2>3, ReleaseRows
    <3>2. j \in todo[w] => rows[j].owner = w /\ rows[j].leased
      BY <2>3 DEF Held
    <3>3. Open(j)' => Open(j)
      BY <2>2, <2>c, <3>1, <3>2 DEF Open, Leaving, RowInv
    <3> QED BY <2>2, <2>3, <2>b, <2>e, <3>3 DEF DebtOf, NoFault
  <2>4. CASE /\ IF Held(w, todo[w]) THEN Fault(w, todo[w]) ELSE NoFault
             /\ UNCHANGED <<rows, hold>>
    <3>1. Open(j)' => Open(j)
      BY <2>2, <2>4, <2>c DEF Open, Leaving, RowInv
    <3>2. excuses'[j] >= excuses[j] /\ excuses'[j] \in Nat
      <4>1. NoFault \/ Fault(w, todo[w])
        BY <2>4
      <4> QED BY <4>1, FaultTyped
    <3> QED BY <1>c, <2>2, <2>b, <2>e, <3>1, <3>2 DEF DebtOf
  <2> QED BY <1>8, <2>3, <2>4 DEF ReleaseRest, Release
<1>9. ASSUME NEW w \in Workers, ReleaseTail(w) PROVE DebtInv'
  <2>1. Current(w) \in Seqs /\ Current(w) \in todo[w]
    BY <1>9, CurrentInBatch DEF ReleaseTail, ShapeInv, Working
  <2>2. /\ pc[w] = "releaseTail" /\ lock[w] = "free" /\ pc' = [pc EXCEPT ![w] = "stop"]
        /\ UNCHANGED <<todo, lock, lost, sends>>
    BY <1>9 DEF ReleaseTail, Release, Goto
  <2>a. SUFFICES ASSUME NEW j \in Seqs PROVE DebtOf(j)'
    BY DEF DebtInv
  <2>b. DebtOf(j)
    BY DEF DebtInv
  <2>c. \A v \in Workers \ {w} : pc'[v] = pc[v] /\ todo'[v] = todo[v] /\ hold'[v] = hold[v]
        /\ lost'[v] = lost[v]
    BY <1>9 DEF ReleaseTail, Release, Goto, TypeOK
  <2>d. Unsent(w) = {} /\ Unsent(w)' = {}
    BY <2>2 DEF Unsent, Working, TypeOK
  <2>e. Pending(j)' = Pending(j)
    BY <2>c, <2>d, SendersStep
  <2>3. CASE /\ Held(w, Tail(w))
             /\ rows' = [i \in Seqs |-> IF i \in Tail(w)
                             THEN [rows[i] EXCEPT !.owner = "none", !.leased = FALSE, !.waiting = TRUE]
                             ELSE rows[i]]
             /\ hold' = [hold EXCEPT ![w] = {Current(w)}] /\ NoFault
    <3>1. (j \notin Tail(w) => rows'[j] = rows[j])
          /\ (j \in Tail(w) => rows'[j].delivered = rows[j].delivered)
      BY <2>3, ReleaseRows
    <3>2. j \in Tail(w) => rows[j].owner = w /\ rows[j].leased
      BY <2>3 DEF Held
    <3>3. Open(j)' => Open(j)
      BY <2>2, <2>c, <3>1, <3>2 DEF Open, Leaving, RowInv
    <3> QED BY <2>2, <2>3, <2>b, <2>e, <3>3 DEF DebtOf, NoFault
  <2>4. CASE /\ IF Held(w, Tail(w)) THEN Fault(w, Tail(w)) ELSE NoFault
             /\ UNCHANGED <<rows, hold>>
    <3>1. Open(j)' => Open(j)
      BY <2>2, <2>4, <2>c DEF Open, Leaving, RowInv
    <3>2. excuses'[j] >= excuses[j] /\ excuses'[j] \in Nat
      <4>1. NoFault \/ Fault(w, Tail(w))
        BY <2>4
      <4> QED BY <4>1, FaultTyped
    <3> QED BY <1>c, <2>2, <2>b, <2>e, <3>1, <3>2 DEF DebtOf
  <2> QED BY <1>9, <2>3, <2>4 DEF ReleaseTail, Release
<1>10. ASSUME NEW w \in Workers, Stop(w) PROVE DebtInv'
  <2>a. SUFFICES ASSUME NEW j \in Seqs PROVE DebtOf(j)'
    BY DEF DebtInv
  <2>b. DebtOf(j)
    BY DEF DebtInv
  <2>c. \A v \in Workers \ {w} : pc'[v] = pc[v] /\ todo'[v] = todo[v] /\ hold'[v] = hold[v]
        /\ lost'[v] = lost[v]
    BY <1>10 DEF Stop, Goto, TypeOK
  <2>d. Unsent(w) = {} /\ Unsent(w)' = {}
    BY <1>10 DEF Stop, Goto, Unsent, Working, TypeOK
  <2>e. Pending(j)' = Pending(j)
    BY <2>c, <2>d, SendersStep
  <2>1. Open(j)' => Open(j)
    BY <1>10, <2>c DEF Stop, Open, Leaving, RowInv
  <2> QED BY <1>10, <2>1, <2>b, <2>e DEF Stop, DebtOf
<1>11. ASSUME NEW w \in Workers, RenewBegin(w) PROVE DebtInv'
  <2>a. SUFFICES ASSUME NEW j \in Seqs PROVE DebtOf(j)'
    BY DEF DebtInv
  <2>b. DebtOf(j)
    BY DEF DebtInv
  <2>c. \A v \in Workers \ {w} : pc'[v] = pc[v] /\ todo'[v] = todo[v] /\ hold'[v] = hold[v]
        /\ lost'[v] = lost[v]
    BY <1>11 DEF RenewBegin, TypeOK
  <2>d. Unsent(w)' = Unsent(w)
    BY <1>11, <1>a DEF RenewBegin, Unsent
  <2>e. Pending(j)' = Pending(j)
    BY <2>c, <2>d, SendersStep
  <2> QED BY <1>11, <2>b, <2>e DEF RenewBegin, DebtOf, Open
<1>12. ASSUME NEW w \in Workers, RenewEnd(w) PROVE DebtInv'
  <2>a. SUFFICES ASSUME NEW j \in Seqs PROVE DebtOf(j)'
    BY DEF DebtInv
  <2>b. DebtOf(j)
    BY DEF DebtInv
  <2>c. \A v \in Workers \ {w} : pc'[v] = pc[v] /\ todo'[v] = todo[v] /\ hold'[v] = hold[v]
        /\ lost'[v] = lost[v]
    BY <1>12 DEF RenewEnd, TypeOK
  <2>d. Unsent(w)' = Unsent(w)
    BY <1>12, <1>a DEF RenewEnd, Unsent
  <2>e. Pending(j)' = Pending(j)
    BY <2>c, <2>d, SendersStep
  <2>2. lock' = [lock EXCEPT ![w] = "free"] /\ lock[w] = "renewal"
        /\ UNCHANGED <<rows, pc, todo, hold, sends>>
    BY <1>12 DEF RenewEnd
  <2>3. CASE Held(w, hold[w]) /\ UNCHANGED lost /\ NoFault
    BY <2>2, <2>3, <2>b, <2>e DEF DebtOf, Open, NoFault
  <2>4. CASE /\ lost' = [lost EXCEPT ![w] = TRUE]
             /\ IF Held(w, hold[w]) THEN Fault(w, hold[w]) ELSE NoFault
    <3>1. excuses'[j] >= excuses[j] /\ excuses'[j] \in Nat
      <4>1. NoFault \/ Fault(w, hold[w])
        BY <2>4
      <4> QED BY <4>1, FaultTyped
    <3>2. CASE Held(w, hold[w]) /\ j \in hold[w]
      <4>1. excuses'[j] = excuses[j] + 1
        BY <2>4, <3>2 DEF Fault, Excuse
      <4> QED BY <1>c, <2>2, <2>b, <2>e, <4>1 DEF DebtOf
    <3>3. CASE j \notin hold[w] \/ ~(rows[j].leased /\ rows[j].owner = w)
      <4>1. Open(j)' => Open(j)
        BY <2>2, <2>c, <3>3 DEF Open, RowInv
      <4> QED BY <1>c, <2>2, <2>b, <2>e, <3>1, <4>1 DEF DebtOf
    <3>4. CASE ~Held(w, hold[w]) /\ j \in hold[w] /\ rows[j].leased /\ rows[j].owner = w
      <4>1. Renewed(w) = hold[w]
        BY <2>2 DEF Renewed, ShapeInv
      <4>2. HeldRow(w, j)
        BY <3>4 DEF HeldRow, RowInv
      <4> QED BY <3>4, <4>1, <4>2 DEF LeaseInv, LeaseOf, Held, HeldRow
    <3> QED BY <3>2, <3>3, <3>4
  <2> QED BY <1>12, <2>3, <2>4 DEF RenewEnd
<1>13. ASSUME NEW w \in Workers, Stall(w) PROVE DebtInv'
  <2>a. SUFFICES ASSUME NEW j \in Seqs PROVE DebtOf(j)'
    BY DEF DebtInv
  <2>b. DebtOf(j)
    BY DEF DebtInv
  <2>c. \A v \in Workers \ {w} : pc'[v] = pc[v] /\ todo'[v] = todo[v] /\ hold'[v] = hold[v]
        /\ lost'[v] = lost[v]
    BY <1>13 DEF Stall, TypeOK
  <2>d. Unsent(w)' = Unsent(w)
    BY <1>13, <1>a DEF Stall, Unsent
  <2>e. Pending(j)' = Pending(j)
    BY <2>c, <2>d, SendersStep
  <2>1. excuses'[j] = IF j \in hold[w] THEN excuses[j] + 1 ELSE excuses[j]
    BY <1>13 DEF Stall, Fault, Excuse
  <2>2. CASE j \in hold[w]
    BY <1>13, <1>c, <2>1, <2>2, <2>b, <2>e DEF Stall, DebtOf
  <2>3. CASE j \notin hold[w]
    <3>1. Open(j)' => Open(j)
      <4>1. /\ rows'[j].delivered = rows[j].delivered /\ rows'[j].owner = rows[j].owner
            /\ (rows'[j].leased <=> rows[j].leased)
        BY <1>13, <2>3, StallRows
      <4> QED BY <1>13, <4>1 DEF Open, Stall
    <3> QED BY <1>13, <1>c, <2>1, <2>3, <2>b, <2>e, <3>1 DEF Stall, DebtOf
  <2> QED BY <2>2, <2>3
<1>14. ASSUME NEW w \in Workers, Crash(w) PROVE DebtInv'
  <2>a. SUFFICES ASSUME NEW j \in Seqs PROVE DebtOf(j)'
    BY DEF DebtInv
  <2>b. DebtOf(j)
    BY DEF DebtInv
  <2>c. \A v \in Workers \ {w} : pc'[v] = pc[v] /\ todo'[v] = todo[v] /\ hold'[v] = hold[v]
        /\ lost'[v] = lost[v]
    BY <1>14 DEF Crash, Goto, TypeOK
  <2>d. Unsent(w)' = {}
    BY <1>14 DEF Crash, Goto, Unsent, Working, TypeOK
  <2>e. Pending(j)' \in Nat /\ Pending(j)' <= Pending(j)
    BY <2>c, <2>d, SendersStep
  <2>1. excuses'[j] = IF j \in todo[w] THEN excuses[j] + 1 ELSE excuses[j]
    BY <1>14 DEF Crash, Fault, Excuse
  <2>2. CASE j \in todo[w]
    BY <1>14, <1>c, <2>1, <2>2, <2>b, <2>e DEF Crash, DebtOf
  <2>3. CASE j \notin todo[w]
    <3>1. Open(j)' => Open(j)
      <4>1. j \notin hold[w]
        BY <2>3 DEF ShapeInv
      <4> QED BY <1>14, <4>1, <2>c DEF Open, Crash, RowInv
    <3> QED BY <1>14, <1>c, <2>1, <2>3, <2>b, <2>e, <3>1 DEF Crash, DebtOf
  <2> QED BY <2>2, <2>3
<1>15. ASSUME NEW i \in Seqs, Lapse(i) PROVE DebtInv'
  <2>a. SUFFICES ASSUME NEW j \in Seqs PROVE DebtOf(j)'
    BY DEF DebtInv
  <2>b. DebtOf(j)
    BY DEF DebtInv
  <2>1. Senders(j)' = Senders(j)
    BY <1>15, <1>a DEF Lapse, Senders, Unsent
  <2>2. Open(j)' => Open(j)
    BY <1>15, TimeRows DEF Lapse, Open
  <2> QED BY <1>15, <2>1, <2>2, <2>b DEF Lapse, DebtOf, Pending
<1>16. ASSUME NEW i \in Seqs, RetryDue(i) PROVE DebtInv'
  <2>a. SUFFICES ASSUME NEW j \in Seqs PROVE DebtOf(j)'
    BY DEF DebtInv
  <2>b. DebtOf(j)
    BY DEF DebtInv
  <2>1. Senders(j)' = Senders(j)
    BY <1>16, <1>a DEF RetryDue, Senders, Unsent
  <2>2. Open(j)' => Open(j)
    BY <1>16, TimeRows DEF RetryDue, Open
  <2> QED BY <1>16, <2>1, <2>2, <2>b DEF RetryDue, DebtOf, Pending
<1> QED
  BY <1>1, <1>2, <1>3, <1>4, <1>5, <1>6, <1>7, <1>8, <1>9, <1>10, <1>11, <1>12, <1>13, <1>14,
     <1>15, <1>16 DEF Next, Batch

\* A lease that nobody will give back has an excuse.
LEMMA StrandStep ==
    ASSUME TypeOK, ShapeInv, RowInv, SentInv, LeaseInv, StrandInv, Next
    PROVE  StrandInv'
<1>a. \A v \in Workers : todo'[v] = todo[v] => Current(v)' = Current(v) /\ Tail(v)' = Tail(v)
  BY CurrentSame
<1>b. \A v \in Workers : todo[v] # {} => Current(v) \in todo[v] /\ Current(v) \in Seqs
  BY CurrentInBatch
<1>c. RowInv'
  BY RowStep
<1>d. \A j \in Seqs : excuses[j] \in Nat
  BY DEF TypeOK
<1>1. ASSUME NEW w \in Workers, Claim(w) PROVE StrandInv'
  <2>1. PICK batch \in SUBSET Claimable :
              /\ rows' \in [Seqs -> RowRecords]
              /\ \A j \in Seqs : /\ rows'[j].delivered = rows[j].delivered
                                 /\ rows'[j].owner = IF j \in batch THEN w ELSE rows[j].owner
                                 /\ rows'[j].leased <=> (j \in batch \/ rows[j].leased)
              /\ todo' = [todo EXCEPT ![w] = batch]
              /\ hold' = [hold EXCEPT ![w] = batch]
    BY <1>1, ClaimBatch
  <2>2. /\ pc[w] = "idle" /\ pc' = [pc EXCEPT ![w] = "next"]
        /\ lost' = [lost EXCEPT ![w] = FALSE] /\ hurt' = [hurt EXCEPT ![w] = FALSE]
        /\ UNCHANGED <<lock, sends, excuses, faults>>
    BY <1>1 DEF Claim, Goto
  <2>a. SUFFICES ASSUME NEW j \in Seqs, NEW v \in Workers, rows'[j].leased, rows'[j].owner = v,
                        Kept(v, j)'
                 PROVE  excuses'[j] > 0
    BY <1>c DEF StrandInv, RowInv
  <2>3. CASE j \in batch
    BY <2>1, <2>2, <2>3, <2>a DEF Kept, TypeOK
  <2>4. CASE j \notin batch
    <3>1. rows'[j].owner = rows[j].owner /\ rows[j].leased /\ rows[j].owner \in Workers
      BY <2>1, <2>4, <2>a DEF RowInv
    <3>2. Kept(rows[j].owner, j)
      BY <2>1, <2>2, <2>4, <2>a, <3>1, <1>a DEF Kept, ShapeInv, TypeOK
    <3> QED BY <2>2, <3>1, <3>2 DEF StrandInv
  <2> QED BY <2>3, <2>4
<1>2. ASSUME NEW w \in Workers, NextRecord(w) PROVE StrandInv'
  <2>a. SUFFICES ASSUME NEW j \in Seqs, NEW v \in Workers, rows'[j].leased, rows'[j].owner = v,
                        Kept(v, j)'
                 PROVE  excuses'[j] > 0
    BY <1>c DEF StrandInv, RowInv
  <2>1. Kept(v, j)
    BY <1>2, <2>a, <1>a, <1>b DEF NextRecord, Goto, Kept, ShapeInv, TypeOK
  <2> QED BY <1>2, <2>1, <2>a DEF NextRecord, Goto, StrandInv
<1>3. ASSUME NEW w \in Workers, Delivered(w) PROVE StrandInv'
  <2>a. SUFFICES ASSUME NEW j \in Seqs, NEW v \in Workers, rows'[j].leased, rows'[j].owner = v,
                        Kept(v, j)'
                 PROVE  excuses'[j] > 0
    BY <1>c DEF StrandInv, RowInv
  <2>1. Kept(v, j)
    BY <1>3, <2>a, <1>a, <1>b DEF Delivered, Goto, Kept, ShapeInv, TypeOK
  <2> QED BY <1>3, <2>1, <2>a DEF Delivered, Goto, StrandInv
<1>4. ASSUME NEW w \in Workers, Refused(w) PROVE StrandInv'
  <2>a. SUFFICES ASSUME NEW j \in Seqs, NEW v \in Workers, rows'[j].leased, rows'[j].owner = v,
                        Kept(v, j)'
                 PROVE  excuses'[j] > 0
    BY <1>c DEF StrandInv, RowInv
  <2>1. Kept(v, j)
    BY <1>4, <2>a, <1>a, <1>b DEF Refused, Goto, Kept, ShapeInv, TypeOK
  <2>2. excuses[j] > 0
    BY <1>4, <2>1, <2>a DEF Refused, StrandInv
  <2> QED BY <1>4, <2>2, <1>d DEF Refused, Excuse
<1>5. ASSUME NEW w \in Workers, Ack(w) PROVE StrandInv'
  <2>a. SUFFICES ASSUME NEW j \in Seqs, NEW v \in Workers, rows'[j].leased, rows'[j].owner = v,
                        Kept(v, j)'
                 PROVE  excuses'[j] > 0
    BY <1>c DEF StrandInv, RowInv
  <2> DEFINE c == Current(w)
  <2>1. c \in Seqs /\ c \in todo[w]
    BY <1>5, CurrentInBatch DEF Ack, ShapeInv, Working
  <2>2. UNCHANGED <<todo, hold, lost, sends>>
    BY <1>5 DEF Ack
  <2>3. CASE /\ Held(w, {c})
             /\ rows' = [rows EXCEPT ![c].delivered = TRUE, ![c].leased = FALSE, ![c].owner = "none"]
             /\ lock' = [lock EXCEPT ![w] = "main"]
             /\ Goto(w, "narrow") /\ NoFault
    <3>1. (j # c => rows'[j] = rows[j]) /\ ~rows'[c].leased
      BY <2>1, <2>3, AckRow
    <3>2. pc' = [pc EXCEPT ![w] = "narrow"] /\ UNCHANGED excuses
      BY <2>3 DEF Goto, NoFault
    <3>3. Kept(v, j)
      BY <2>2, <2>a, <3>2, <1>a DEF Kept, TypeOK
    <3> QED BY <2>a, <3>1, <3>2, <3>3 DEF StrandInv
  <2>4. CASE /\ IF Held(w, {c}) THEN Fault(w, {c}) ELSE NoFault
             /\ Goto(w, "ackFailed") /\ UNCHANGED <<rows, lock>>
    <3>1. pc' = [pc EXCEPT ![w] = "ackFailed"] /\ UNCHANGED rows
      BY <2>4 DEF Goto
    <3>2. excuses'[j] >= excuses[j] /\ excuses'[j] \in Nat
      <4>1. NoFault \/ Fault(w, {c})
        BY <2>4
      <4> QED BY <4>1, FaultTyped
    <3>3. CASE v = w /\ j = c
      <4>1. Held(w, {c})
        BY <2>a, <3>1, <3>3 DEF Held, RowInv
      <4>2. excuses'[j] = excuses[j] + 1
        BY <2>4, <3>3, <4>1 DEF Fault, Excuse
      <4> QED BY <1>d, <4>2
    <3>4. CASE ~(v = w /\ j = c)
      <4>1. Kept(v, j)
        BY <2>2, <2>a, <3>1, <3>4, <1>a DEF Kept, TypeOK
      <4>2. excuses[j] > 0
        BY <2>a, <3>1, <4>1 DEF StrandInv
      <4> QED BY <1>d, <3>2, <4>2
    <3> QED BY <3>3, <3>4
  <2> QED BY <1>5, <2>3, <2>4 DEF Ack
<1>6. ASSUME NEW w \in Workers, AckNarrow(w) PROVE StrandInv'
  <2>a. SUFFICES ASSUME NEW j \in Seqs, NEW v \in Workers, rows'[j].leased, rows'[j].owner = v,
                        Kept(v, j)'
                 PROVE  excuses'[j] > 0
    BY <1>c DEF StrandInv, RowInv
  <2>1. hold[w] = todo[w] /\ j # Current(w)
    BY <1>6, <2>a DEF AckNarrow, ShapeInv, SentInv, RowInv
  <2>2. Kept(v, j)
    BY <1>6, <2>1, <2>a, <1>a DEF AckNarrow, Goto, Kept, Tail, TypeOK
  <2> QED BY <1>6, <2>2, <2>a DEF AckNarrow, StrandInv
<1>7. ASSUME NEW w \in Workers, AckFailed(w) PROVE StrandInv'
  <2>a. SUFFICES ASSUME NEW j \in Seqs, NEW v \in Workers, rows'[j].leased, rows'[j].owner = v,
                        Kept(v, j)'
                 PROVE  excuses'[j] > 0
    BY <1>c DEF StrandInv, RowInv
  <2>1. Kept(v, j)
    BY <1>7, <2>a, <1>a, <1>b DEF AckFailed, Goto, Kept, ShapeInv, TypeOK, Tail
  <2> QED BY <1>7, <2>1, <2>a DEF AckFailed, Goto, StrandInv, Tail
<1>8. ASSUME NEW w \in Workers, ReleaseRest(w) PROVE StrandInv'
  <2>2. /\ pc[w] = "release" /\ lock[w] = "free" /\ pc' = [pc EXCEPT ![w] = "stop"]
        /\ UNCHANGED <<todo, lock, lost, sends>>
    BY <1>8 DEF ReleaseRest, Release, Goto
  <2>a. SUFFICES ASSUME NEW j \in Seqs, NEW v \in Workers, rows'[j].leased, rows'[j].owner = v,
                        Kept(v, j)'
                 PROVE  excuses'[j] > 0
    BY <1>c DEF StrandInv, RowInv
  <2>3. CASE /\ Held(w, todo[w])
             /\ rows' = [i \in Seqs |-> IF i \in todo[w]
                             THEN [rows[i] EXCEPT !.owner = "none", !.leased = FALSE, !.waiting = TRUE]
                             ELSE rows[i]]
             /\ hold' = [hold EXCEPT ![w] = {}] /\ NoFault
    <3>1. j \notin todo[w] /\ rows'[j] = rows[j]
      BY <2>3, <2>a, ReleaseRows
    <3>2. Kept(v, j)
      BY <2>2, <2>3, <2>a, <3>1, <1>a, <1>b DEF Kept, Tail, ShapeInv, TypeOK
    <3> QED BY <2>3, <2>a, <3>1, <3>2 DEF StrandInv, NoFault
  <2>4. CASE /\ IF Held(w, todo[w]) THEN Fault(w, todo[w]) ELSE NoFault
             /\ UNCHANGED <<rows, hold>>
    <3>1. excuses'[j] >= excuses[j] /\ excuses'[j] \in Nat
      <4>1. NoFault \/ Fault(w, todo[w])
        BY <2>4
      <4> QED BY <4>1, FaultTyped
    <3>2. CASE v = w /\ j \in todo[w] /\ Held(w, todo[w])
      <4>1. excuses'[j] = excuses[j] + 1
        BY <2>4, <3>2 DEF Fault, Excuse
      <4> QED BY <1>d, <4>1
    <3>3. CASE v = w /\ j \in todo[w] /\ ~Held(w, todo[w])
      <4>1. Renewed(w) = todo[w] /\ todo[w] \subseteq todo[w]
        BY <2>2 DEF Renewed, ShapeInv, Tail
      <4>2. HeldRow(w, j)
        BY <2>4, <2>a, <3>3 DEF HeldRow, RowInv
      <4> QED BY <3>3, <4>1, <4>2 DEF LeaseInv, LeaseOf, Held, HeldRow
    <3>4. CASE ~(v = w /\ j \in todo[w])
      <4>1. Kept(v, j)
        BY <2>2, <2>4, <2>a, <3>4, <1>a, <1>b DEF Kept, Tail, ShapeInv, TypeOK
      <4>2. excuses[j] > 0
        BY <2>4, <2>a, <4>1 DEF StrandInv
      <4> QED BY <1>d, <3>1, <4>2
    <3> QED BY <3>2, <3>3, <3>4
  <2> QED BY <1>8, <2>3, <2>4 DEF ReleaseRest, Release
<1>9. ASSUME NEW w \in Workers, ReleaseTail(w) PROVE StrandInv'
  <2>1. Current(w) \in Seqs /\ Current(w) \in todo[w]
    BY <1>9, CurrentInBatch DEF ReleaseTail, ShapeInv, Working
  <2>2. /\ pc[w] = "releaseTail" /\ lock[w] = "free" /\ pc' = [pc EXCEPT ![w] = "stop"]
        /\ UNCHANGED <<todo, lock, lost, sends>>
    BY <1>9 DEF ReleaseTail, Release, Goto
  <2>a. SUFFICES ASSUME NEW j \in Seqs, NEW v \in Workers, rows'[j].leased, rows'[j].owner = v,
                        Kept(v, j)'
                 PROVE  excuses'[j] > 0
    BY <1>c DEF StrandInv, RowInv
  <2>3. CASE /\ Held(w, Tail(w))
             /\ rows' = [i \in Seqs |-> IF i \in Tail(w)
                             THEN [rows[i] EXCEPT !.owner = "none", !.leased = FALSE, !.waiting = TRUE]
                             ELSE rows[i]]
             /\ hold' = [hold EXCEPT ![w] = {Current(w)}] /\ NoFault
    <3>1. j \notin Tail(w) /\ rows'[j] = rows[j]
      BY <2>3, <2>a, ReleaseRows
    <3>2. Kept(v, j)
      BY <2>2, <2>3, <2>a, <3>1, <1>a, <1>b DEF Kept, Tail, ShapeInv, TypeOK
    <3> QED BY <2>3, <2>a, <3>1, <3>2 DEF StrandInv, NoFault
  <2>4. CASE /\ IF Held(w, Tail(w)) THEN Fault(w, Tail(w)) ELSE NoFault
             /\ UNCHANGED <<rows, hold>>
    <3>1. excuses'[j] >= excuses[j] /\ excuses'[j] \in Nat
      <4>1. NoFault \/ Fault(w, Tail(w))
        BY <2>4
      <4> QED BY <4>1, FaultTyped
    <3>2. CASE v = w /\ j \in Tail(w) /\ Held(w, Tail(w))
      <4>1. excuses'[j] = excuses[j] + 1
        BY <2>4, <3>2 DEF Fault, Excuse
      <4> QED BY <1>d, <4>1
    <3>3. CASE v = w /\ j \in Tail(w) /\ ~Held(w, Tail(w))
      <4>1. Renewed(w) = todo[w] /\ Tail(w) \subseteq todo[w]
        BY <2>2 DEF Renewed, ShapeInv, Tail
      <4>2. HeldRow(w, j)
        BY <2>4, <2>a, <3>3 DEF HeldRow, RowInv
      <4> QED BY <3>3, <4>1, <4>2 DEF LeaseInv, LeaseOf, Held, HeldRow
    <3>4. CASE ~(v = w /\ j \in Tail(w))
      <4>1. Kept(v, j)
        BY <2>2, <2>4, <2>a, <3>4, <1>a, <1>b DEF Kept, Tail, ShapeInv, TypeOK
      <4>2. excuses[j] > 0
        BY <2>4, <2>a, <4>1 DEF StrandInv
      <4> QED BY <1>d, <3>1, <4>2
    <3> QED BY <3>2, <3>3, <3>4
  <2> QED BY <1>9, <2>3, <2>4 DEF ReleaseTail, Release
<1>10. ASSUME NEW w \in Workers, Stop(w) PROVE StrandInv'
  <2>a. SUFFICES ASSUME NEW j \in Seqs, NEW v \in Workers, rows'[j].leased, rows'[j].owner = v,
                        Kept(v, j)'
                 PROVE  excuses'[j] > 0
    BY <1>c DEF StrandInv, RowInv
  <2>1. Kept(v, j)
    BY <1>10, <2>a, <1>a, <1>b DEF Stop, Goto, Kept, ShapeInv, TypeOK
  <2> QED BY <1>10, <2>1, <2>a DEF Stop, Goto, StrandInv
<1>11. ASSUME NEW w \in Workers, RenewBegin(w) PROVE StrandInv'
  <2>a. SUFFICES ASSUME NEW j \in Seqs, NEW v \in Workers, rows'[j].leased, rows'[j].owner = v,
                        Kept(v, j)'
                 PROVE  excuses'[j] > 0
    BY <1>c DEF StrandInv, RowInv
  <2>1. Kept(v, j)
    BY <1>11, <2>a, <1>a, <1>b DEF RenewBegin, Kept, ShapeInv, TypeOK
  <2> QED BY <1>11, <2>1, <2>a DEF RenewBegin, StrandInv
<1>12. ASSUME NEW w \in Workers, RenewEnd(w) PROVE StrandInv'
  <2>a. SUFFICES ASSUME NEW j \in Seqs, NEW v \in Workers, rows'[j].leased, rows'[j].owner = v,
                        Kept(v, j)'
                 PROVE  excuses'[j] > 0
    BY <1>c DEF StrandInv, RowInv
  <2>1. Kept(v, j)
    BY <1>12, <2>a, <1>a DEF RenewEnd, Kept
  <2>2. excuses[j] > 0
    BY <1>12, <2>1, <2>a DEF RenewEnd, StrandInv
  <2>3. PICK S : NoFault \/ Fault(w, S)
    BY <1>12 DEF RenewEnd
  <2>4. excuses'[j] >= excuses[j] /\ excuses'[j] \in Nat
    BY <2>3, FaultTyped
  <2> QED BY <1>d, <2>2, <2>4
<1>13. ASSUME NEW w \in Workers, Stall(w) PROVE StrandInv'
  <2>a. SUFFICES ASSUME NEW j \in Seqs, NEW v \in Workers, rows'[j].leased, rows'[j].owner = v,
                        Kept(v, j)'
                 PROVE  excuses'[j] > 0
    BY <1>c DEF StrandInv, RowInv
  <2>1. rows[j].leased /\ rows[j].owner = v
    BY <1>13, <2>a, StallRows
  <2>2. Kept(v, j)
    BY <1>13, <2>a, <1>a DEF Stall, Kept
  <2>3. excuses[j] > 0
    BY <2>1, <2>2 DEF StrandInv
  <2>4. excuses'[j] >= excuses[j] /\ excuses'[j] \in Nat
    BY <1>13, FaultTyped DEF Stall
  <2> QED BY <1>d, <2>3, <2>4
<1>14. ASSUME NEW w \in Workers, Crash(w) PROVE StrandInv'
  <2>a. SUFFICES ASSUME NEW j \in Seqs, NEW v \in Workers, rows'[j].leased, rows'[j].owner = v,
                        Kept(v, j)'
                 PROVE  excuses'[j] > 0
    BY <1>c DEF StrandInv, RowInv
  <2>1. excuses'[j] = IF j \in todo[w] THEN excuses[j] + 1 ELSE excuses[j]
    BY <1>14 DEF Crash, Fault, Excuse
  <2>2. CASE j \in todo[w]
    BY <1>d, <2>1, <2>2
  <2>3. CASE j \notin todo[w]
    <3>1. Kept(v, j)
      BY <1>14, <2>a, <2>3, <1>a DEF Crash, Goto, Kept, ShapeInv, TypeOK
    <3> QED BY <1>14, <2>1, <2>3, <2>a, <3>1 DEF Crash, StrandInv
  <2> QED BY <2>2, <2>3
<1>15. ASSUME NEW i \in Seqs, Lapse(i) PROVE StrandInv'
  <2>a. SUFFICES ASSUME NEW j \in Seqs, NEW v \in Workers, rows'[j].leased, rows'[j].owner = v,
                        Kept(v, j)'
                 PROVE  excuses'[j] > 0
    BY <1>c DEF StrandInv, RowInv
  <2>1. rows[j].leased /\ rows[j].owner = v
    BY <1>15, <2>a, TimeRows
  <2>2. Kept(v, j)
    BY <1>15, <2>a, <1>a DEF Lapse, Kept
  <2> QED BY <1>15, <2>1, <2>2 DEF Lapse, StrandInv
<1>16. ASSUME NEW i \in Seqs, RetryDue(i) PROVE StrandInv'
  <2>a. SUFFICES ASSUME NEW j \in Seqs, NEW v \in Workers, rows'[j].leased, rows'[j].owner = v,
                        Kept(v, j)'
                 PROVE  excuses'[j] > 0
    BY <1>c DEF StrandInv, RowInv
  <2>1. rows[j].leased /\ rows[j].owner = v
    BY <1>16, <2>a, TimeRows
  <2>2. Kept(v, j)
    BY <1>16, <2>a, <1>a DEF RetryDue, Kept
  <2> QED BY <1>16, <2>1, <2>2 DEF RetryDue, StrandInv
<1> QED
  BY <1>1, <1>2, <1>3, <1>4, <1>5, <1>6, <1>7, <1>8, <1>9, <1>10, <1>11, <1>12, <1>13, <1>14,
     <1>15, <1>16 DEF Next, Batch

-----------------------------------------------------------------------------
(* The theorems.                                                           *)

\* No record is in a batch and nothing was sent: the invariant holds at the start.
LEMMA InvInit == Init => Inv
<1> SUFFICES ASSUME Init PROVE Inv
  OBVIOUS
<1>1. TypeOK
  BY DEF Init, TypeOK, RowRecords, Owners
<1>2. ShapeInv /\ RowInv /\ SentInv /\ NoSelfInflictedLoss /\ StrandInv
  BY DEF Init, ShapeInv, RowInv, SentInv, AckedWasSent, NoSelfInflictedLoss, StrandInv, Working
<1>3. LeaseInv
  BY DEF Init, LeaseInv, LeaseOf, Renewed
<1>4. ASSUME NEW i \in Seqs PROVE DebtOf(i)
  <2>1. Senders(i) = {}
    BY DEF Init, Senders, Unsent, Working
  <2>2. Pending(i) = 0
    BY <2>1, FS_EmptySet DEF Pending
  <2> QED BY <2>2 DEF Init, DebtOf
<1> QED BY <1>1, <1>2, <1>3, <1>4 DEF Inv, DebtInv

\* Every step keeps the invariant.
LEMMA InvStep == Inv /\ [Next]_vars => Inv'
<1> SUFFICES ASSUME Inv, [Next]_vars PROVE Inv'
  OBVIOUS
<1>1. CASE Next
  BY <1>1, TypeStep, ShapeStep, RowStep, SentStep, LeaseStep, LossStep, DebtStep, StrandStep
     DEF Inv
<1>2. CASE UNCHANGED vars
  <2>1. TypeOK' /\ ShapeInv' /\ RowInv' /\ NoSelfInflictedLoss'
    BY <1>2 DEF Inv, vars, TypeOK, ShapeInv, RowInv, NoSelfInflictedLoss
  <2>2. \A w \in Workers : Current(w)' = Current(w) /\ Tail(w)' = Tail(w)
    BY <1>2 DEF vars, Current, Tail
  <2>3. SentInv' /\ LeaseInv' /\ StrandInv'
    BY <1>2, <2>1, <2>2 DEF Inv, vars, SentInv, AckedWasSent, LeaseInv, LeaseOf, Renewed, HeldRow,
                            StrandInv, Kept, RowInv
  <2>4. \A i \in Seqs : Senders(i)' = Senders(i)
    BY <1>2, <2>2 DEF vars, Senders, Unsent
  <2>5. DebtInv'
    BY <1>2, <2>4 DEF Inv, vars, DebtInv, DebtOf, Open, Pending
  <2> QED BY <2>1, <2>3, <2>5 DEF Inv
<1> QED BY <1>1, <1>2 DEF vars

\* The three properties of Outbox follow from the invariant.
LEMMA InvImplies == Inv => SentBeforeAcked /\ NoSelfInflictedLoss /\ NothingStranded
<1> SUFFICES ASSUME Inv PROVE SentBeforeAcked /\ NoSelfInflictedLoss /\ NothingStranded
  OBVIOUS
<1>1. \A i \in Seqs : Pending(i) \in Nat /\ sends[i] \in Nat /\ excuses[i] \in Nat
  BY SendersFinite DEF Inv, TypeOK, Pending
<1>2. RedeliveryHasCause
  BY <1>1 DEF Inv, DebtInv, DebtOf, RedeliveryHasCause
<1>3. NothingStranded
  BY DEF Inv, NothingStranded, StrandInv, Kept, RowInv, ShapeInv
<1> QED BY <1>2, <1>3 DEF Inv, SentInv, SentBeforeAcked

\* Whatever fails, stalls, crashes or changes hands, a record is acknowledged
\* only after Deliver was called for it, and called again only for a cause.
THEOREM AtLeastOnce == Spec => []SentBeforeAcked
BY InvInit, InvStep, InvImplies, PTL DEF Spec

\* A worker that finds its lease lost was hit by a fault: the renewal goroutine
\* never trips over what Ack and Release of the same worker did.
THEOREM LossHasFault == Spec => []NoSelfInflictedLoss
BY InvInit, InvStep, InvImplies, PTL DEF Spec

\* A batch that is over leaves no record leased, except one that a fault hit.
THEOREM NothingLeftLeased == Spec => []NothingStranded
BY InvInit, InvStep, InvImplies, PTL DEF Spec
=============================================================================
