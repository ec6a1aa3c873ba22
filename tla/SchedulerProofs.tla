--------------------------- MODULE SchedulerProofs --------------------------
(***************************************************************************)
(* Proofs about Scheduler for every set of workers, calls and items and    *)
(* every bound: a post is made once per occurrence, never for a cancelled  *)
(* message, a message is recorded as delivered only when it was posted,    *)
(* and no channel reminder moves past an occurrence that was not posted.   *)
(***************************************************************************)
EXTENDS Scheduler, TLAPS

-----------------------------------------------------------------------------
(* The inductive invariant.                                                *)

\* The places at which a process deals with an item.
Active == {"begin", "commit", "ok", "perm", "release"}

\* Where every process stands: an active one has an item, one about to commit
\* has read a text, and a send-now call deals with one scheduled message.
ProcInv ==
    /\ pc \in [Processes -> Active \cup {"idle", "returned"}]
    /\ cur \in [Processes -> Items \cup {"none"}]
    /\ todo \in [Processes -> SUBSET Items]
    /\ seen \in [Processes -> [Items -> Times]]
    /\ text \in [Processes -> 0..MaxEdits + 1]
    /\ stamp \in [Processes -> 0..MaxTime]
    /\ \A p \in Processes :
          /\ pc[p] \in Active => cur[p] \in Items
          /\ pc[p] = "commit" => text[p] # 0
          /\ p \in Senders => cur[p] \in Scheduled \cup {"none"} /\ todo[p] = {}

\* Only what is still to be delivered is leased, and a text has at most one
\* version more than edits were accepted.
RowInv ==
    /\ now \in 0..MaxTime /\ edits \in 0..MaxEdits /\ faults \in 0..MaxFaults
    /\ refused \subseteq Items \X Times /\ barred \subseteq Scheduled
    /\ rows \in [Items -> RowRecords]
    /\ \A i \in Items : /\ rows[i].text <= edits + 1
                        /\ rows[i].leased => rows[i].state \in {"open", "failed"}

\* A post carries the key of its occurrence, and a scheduled message has one.
PostInv ==
    /\ posts \subseteq [item : Items, occurrence : Times, key : Times, text : 1..MaxEdits + 1]
    /\ \A x \in posts : /\ x.key = x.occurrence
                        /\ x.item \in Scheduled => x.key = 0

\* Who is about to record a leased item as delivered has its post.
OkInv ==
    \A p \in Processes :
        pc[p] = "ok" /\ cur[p] \in Leased => Posted(cur[p], Occurrence(p, cur[p]))

\* While a worker owns a channel reminder of its batch, the due time it saw is
\* the stored one: only the owner of the lease moves a reminder on.
SeenInv ==
    \A w \in Workers, i \in Channel :
        rows[i].leased /\ rows[i].owner = w /\ (i = cur[w] \/ i \in todo[w])
        => rows[i].at = seen[w][i]

Inv ==
    /\ ProcInv /\ RowInv /\ PostInv /\ OkInv /\ SeenInv
    /\ CancelledNeverPosted /\ DeliveredWasPosted /\ OnePostPerOccurrence

-----------------------------------------------------------------------------
(* Kinds of step.                                                          *)

\* What a step may do to one row.  The stored item stays, and at most its lease
\* ends.
Kept(i) ==
    /\ rows'[i].state = rows[i].state /\ rows'[i].at = rows[i].at
    /\ rows'[i].text = rows[i].text
    /\ rows'[i].leased => rows[i].leased /\ rows'[i].owner = rows[i].owner

\* It is created.
Made(i) ==
    /\ rows[i].state = "absent" /\ rows'[i].state = "open" /\ ~rows'[i].leased
    /\ rows'[i].text = rows[i].text

\* It is rescheduled.
Edited(i) ==
    /\ i \in Scheduled /\ rows[i].state \in {"open", "failed"} /\ rows'[i].state = "open"
    /\ ~rows'[i].leased /\ rows'[i].text = rows[i].text + 1 /\ edits' = edits + 1

\* It is called off: a scheduled message only while it is not posted.
Ended(i) ==
    /\ rows'[i].state \in {"deleted", "complete"} /\ ~rows'[i].leased
    /\ rows'[i].at = rows[i].at /\ rows'[i].text = rows[i].text
    /\ i \in Scheduled => ~Posted(i, 0)

\* The items w deals with have the due times it saw.
Taken(w) == \A j \in Items : j = cur'[w] \/ j \in todo'[w] => seen'[w][j] = rows[j].at

\* It is leased.
Claimed(i) ==
    /\ rows[i].state \in {"open", "failed"} /\ rows'[i].state = rows[i].state
    /\ rows'[i].at = rows[i].at /\ rows'[i].text = rows[i].text
    /\ rows'[i].owner \in Workers => Taken(rows'[i].owner)

\* It is given up for good.
GivenUp(i) ==
    /\ rows'[i].state = "failed" /\ ~rows'[i].leased
    /\ rows'[i].at = rows[i].at /\ rows'[i].text = rows[i].text

\* It is recorded as delivered by p, which owns it, or moves on.
Settled(i) ==
    /\ rows'[i].state \in {rows[i].state, "delivered"} /\ ~rows'[i].leased
    /\ rows'[i].text = rows[i].text
    /\ i \in Leased => \E p \in Processes : pc[p] = "ok" /\ cur[p] = i /\ Held(p, i)

RowStep ==
    /\ rows' \in [Items -> RowRecords]
    /\ \A i \in Items : \/ Kept(i) \/ Made(i) \/ Edited(i) \/ Ended(i) \/ Claimed(i)
                        \/ GivenUp(i) \/ Settled(i)

\* What a step may do to the process p, which is the only one it concerns.
Alone(p) ==
    \A q \in Processes \ {p} : /\ pc'[q] = pc[q] /\ cur'[q] = cur[q]
                               /\ todo'[q] = todo[q] /\ seen'[q] = seen[q]

\* It takes work: a batch, or the message of its call.
Starts(p) == Alone(p) /\ pc'[p] = "begin" /\ (p \in Workers => Taken(p))

\* It goes on with its item, to "ok" only when that is posted.
Goes(p) ==
    /\ Alone(p) /\ cur'[p] = cur[p] /\ todo'[p] = todo[p] /\ seen'[p] = seen[p]
    /\ pc'[p] = "ok" /\ cur[p] \in Leased => Posted(cur[p], Occurrence(p, cur[p]))'

\* It is done with its item: on to another of its batch, or to rest.
Leaves(p) ==
    /\ Alone(p) /\ pc'[p] # "ok"
    /\ \/ cur'[p] = "none" /\ todo'[p] = {}
       \/ cur'[p] \in todo[p] /\ todo'[p] \subseteq todo[p] /\ seen'[p] = seen[p]

ProcStep ==
    /\ ProcInv'
    /\ \/ UNCHANGED <<pc, cur, todo, seen>>
       \/ \E p \in Processes : Starts(p) \/ Goes(p) \/ Leaves(p)

\* What a step may do to the posts.
PostStep ==
    \/ posts' = posts
    \/ \E p \in Processes :
          /\ pc[p] = "commit" /\ cur[p] \in Items
          /\ cur[p] \in Scheduled => rows[cur[p]].state \notin {"deleted", "delivered"}
          /\ ~Posted(cur[p], Key(p, cur[p])) /\ Post(p, cur[p]) /\ UNCHANGED rows

\* The clock and the counters.
CountStep ==
    /\ now' \in 0..MaxTime /\ edits' \in 0..MaxEdits /\ faults' \in 0..MaxFaults
    /\ edits' >= edits /\ refused' \subseteq Items \X Times
    /\ barred' \subseteq Scheduled

Effect == RowStep /\ ProcStep /\ PostStep /\ CountStep

-----------------------------------------------------------------------------
(* The effect of every action.                                             *)

\* The bounds are numbers and the kinds of item and of process are disjoint.
LEMMA Constants ==
    /\ MaxTime \in Nat /\ MaxEdits \in Nat /\ MaxFaults \in Nat
    /\ Scheduled \cap Channel = {} /\ Leased \cap WebReminders = {} /\ "none" \notin Items
    /\ Workers \cap Senders = {} /\ "send-now" \notin Processes /\ "none" \notin Processes
BY SchedulerAssumption DEF Leased, Items, Processes

\* The row of an item whose lease is given back.
LEMMA FreeFacts ==
    ASSUME NEW r \in RowRecords
    PROVE  /\ Free(r) \in RowRecords /\ ~Free(r).leased /\ Free(r).state = r.state
           /\ Free(r).at = r.at /\ Free(r).text = r.text /\ Free(r).recurs = r.recurs
BY DEF Free, RowRecords

\* ... and of one that is marked or delivered in the same statement.
LEMMA DeliveredFacts ==
    ASSUME RowInv, ProcInv, NEW p \in Processes, NEW i \in Items, NEW t \in 0..MaxTime
    PROVE  /\ Delivered(p, i, t) \in RowRecords /\ ~Delivered(p, i, t).leased
           /\ Delivered(p, i, t).state \in {rows[i].state, "delivered"}
           /\ Delivered(p, i, t).text = rows[i].text
<1> DEFINE row == [Free(rows[i]) EXCEPT !.waiting = FALSE]
           due == NextDue(seen[p][i], t)
<1>1. rows[i] \in RowRecords
  BY DEF RowInv
<1>2. /\ row \in RowRecords /\ ~row.leased /\ row.state = rows[i].state
      /\ row.text = rows[i].text
  BY <1>1, FreeFacts DEF RowRecords
<1>3. seen[p][i] \in Times
  BY DEF ProcInv
<1>4. due \in Times
  BY <1>3, Constants DEF Times, NextDue
<1> HIDE DEF row, due
<1>5. LET a == [row EXCEPT !.at = due]
          b == [row EXCEPT !.state = "delivered"]
      IN  /\ a \in RowRecords /\ ~a.leased /\ a.state = row.state /\ a.text = row.text
          /\ b \in RowRecords /\ ~b.leased /\ b.state = "delivered" /\ b.text = row.text
  BY <1>2, <1>4 DEF RowRecords
<1>6. Delivered(p, i, t) = IF row.recurs THEN [row EXCEPT !.at = due]
                           ELSE [row EXCEPT !.state = "delivered"]
  BY DEF Delivered, row, due
<1> QED
  BY <1>2, <1>5, <1>6

\* One row is replaced.
LEMMA OneRow ==
    ASSUME RowInv, NEW i \in Items, NEW r \in RowRecords, rows' = [rows EXCEPT ![i] = r],
           \/ Kept(i) \/ Made(i) \/ Edited(i) \/ Ended(i) \/ Claimed(i)
           \/ GivenUp(i) \/ Settled(i)
    PROVE  RowStep
<1>1. rows' \in [Items -> RowRecords]
  BY DEF RowInv
<1>2. \A j \in Items : j # i => Kept(j)
  BY DEF RowInv, Kept
<1> QED
  BY <1>1, <1>2 DEF RowStep

\* No row is touched.
LEMMA NoRow == ASSUME RowInv, UNCHANGED rows PROVE RowStep
BY DEF RowStep, RowInv, Kept

\* No process is touched.
LEMMA NoProc ==
    ASSUME ProcInv, UNCHANGED <<pc, cur, todo, seen, text, stamp>> PROVE ProcStep
BY DEF ProcStep, ProcInv

\* One process goes to l with the item it has.
LEMMA GotoStep ==
    ASSUME ProcInv, NEW p \in Processes, NEW l \in Active, pc[p] \in Active, Goto(p, l),
           UNCHANGED <<cur, todo, seen, stamp>>,
           text' \in [Processes -> 0..MaxEdits + 1],
           \A q \in Processes \ {p} : text'[q] = text[q],
           l = "commit" => text'[p] # 0,
           l = "ok" /\ cur[p] \in Leased => Posted(cur[p], Occurrence(p, cur[p]))'
    PROVE  ProcStep
<1>1. ProcInv'
  BY DEF ProcInv, Goto
<1>2. Goes(p)
  <2>1. Alone(p)
    BY DEF Alone, Goto, ProcInv
  <2>2. pc'[p] = l
    BY DEF Goto, ProcInv
  <2> QED BY <2>1, <2>2 DEF Goes
<1> QED
  BY <1>1, <1>2 DEF ProcStep

\* One process is done with its item.
LEMMA LeaveStep ==
    ASSUME ProcInv, NEW p \in Processes, pc[p] \in Active, Leave(p)
    PROVE  ProcStep
<1>0. 0 \in Times /\ 0 \in 0..MaxEdits + 1 /\ 0 \in 0..MaxTime
  BY Constants DEF Times
<1>1. /\ stamp' \in [Processes -> 0..MaxTime]
      /\ text' \in [Processes -> 0..MaxEdits + 1]
  BY <1>0 DEF Leave, ProcInv
<1>2. CASE /\ Rest(p) /\ cur' = [cur EXCEPT ![p] = "none"] /\ todo[p] = {}
           /\ seen' = [seen EXCEPT ![p] = [i \in Items |-> 0]] /\ UNCHANGED todo
  <2>1. /\ pc' \in [Processes -> Active \cup {"idle", "returned"}]
        /\ pc'[p] \in {"idle", "returned"}
        /\ \A q \in Processes \ {p} : pc'[q] = pc[q]
    BY <1>2 DEF Rest, Goto, ProcInv
  <2>2. /\ cur' \in [Processes -> Items \cup {"none"}] /\ cur'[p] = "none"
        /\ \A q \in Processes \ {p} : cur'[q] = cur[q]
    BY <1>2 DEF ProcInv
  <2>3. /\ seen' \in [Processes -> [Items -> Times]]
        /\ \A q \in Processes \ {p} : seen'[q] = seen[q]
    BY <1>0, <1>2 DEF ProcInv
  <2>4. \A q \in Processes \ {p} : text'[q] = text[q]
    BY DEF Leave, ProcInv
  <2>5. ProcInv'
    BY <1>1, <1>2, <2>1, <2>2, <2>3, <2>4 DEF ProcInv, Active
  <2>6. Leaves(p)
    BY <1>2, <2>1, <2>2, <2>3 DEF Leaves, Alone
  <2> QED BY <2>5, <2>6 DEF ProcStep
<1>3. ASSUME NEW i \in todo[p], Goto(p, "begin"), cur' = [cur EXCEPT ![p] = i],
             todo' = [todo EXCEPT ![p] = @ \ {i}], UNCHANGED seen
      PROVE  ProcStep
  <2>0. i \in Items /\ p \notin Senders
    BY DEF ProcInv
  <2>1. /\ pc' \in [Processes -> Active \cup {"idle", "returned"}] /\ pc'[p] = "begin"
        /\ \A q \in Processes \ {p} : pc'[q] = pc[q]
    BY <1>3 DEF Goto, ProcInv, Active
  <2>2. /\ cur' \in [Processes -> Items \cup {"none"}] /\ cur'[p] = i
        /\ \A q \in Processes \ {p} : cur'[q] = cur[q]
    BY <1>3, <2>0 DEF ProcInv
  <2>3. /\ todo' \in [Processes -> SUBSET Items] /\ todo'[p] = todo[p] \ {i}
        /\ \A q \in Processes \ {p} : todo'[q] = todo[q]
    BY <1>3 DEF ProcInv
  <2>4. \A q \in Processes \ {p} : text'[q] = text[q]
    BY DEF Leave, ProcInv
  <2>5. ProcInv'
    BY <1>1, <1>3, <2>0, <2>1, <2>2, <2>3, <2>4 DEF ProcInv
  <2>6. Leaves(p)
    BY <1>3, <2>1, <2>2, <2>3 DEF Leaves, Alone
  <2> QED BY <2>5, <2>6 DEF ProcStep
<1> QED
  BY <1>2, <1>3 DEF Leave

\* One process takes a batch it is free to take.
LEMMA TakeStep ==
    ASSUME ProcInv, RowInv, NEW p \in Workers, NEW B \in SUBSET Items, Take(p, B),
           UNCHANGED text, stamp' \in [Processes -> 0..MaxTime]
    PROVE  ProcStep /\ Taken(p)
<1>0. p \in Processes /\ p \notin Senders
  BY Constants DEF Processes
<1>1. PICK i \in B : cur' = [cur EXCEPT ![p] = i] /\ todo' = [todo EXCEPT ![p] = B \ {i}]
  BY DEF Take
<1>2. /\ pc' \in [Processes -> Active \cup {"idle", "returned"}] /\ pc'[p] = "begin"
      /\ \A q \in Processes \ {p} : pc'[q] = pc[q]
  BY <1>0 DEF Take, Goto, ProcInv, Active
<1>3. /\ cur' \in [Processes -> Items \cup {"none"}] /\ cur'[p] = i
      /\ \A q \in Processes \ {p} : cur'[q] = cur[q]
  BY <1>0, <1>1 DEF ProcInv
<1>4. /\ todo' \in [Processes -> SUBSET Items] /\ todo'[p] = B \ {i}
      /\ \A q \in Processes \ {p} : todo'[q] = todo[q]
  BY <1>0, <1>1 DEF ProcInv
<1> DEFINE new == [j \in Items |-> IF j \in B THEN rows[j].at ELSE seen[p][j]]
<1>5. new \in [Items -> Times]
  BY <1>0 DEF ProcInv, RowInv, RowRecords
<1>6. seen' = [seen EXCEPT ![p] = new]
  BY <1>0 DEF Take, ProcInv
<1>7. \A j \in B : new[j] = rows[j].at
  OBVIOUS
<1> HIDE DEF new
<1>8. /\ seen' \in [Processes -> [Items -> Times]] /\ seen'[p] = new
      /\ \A q \in Processes \ {p} : seen'[q] = seen[q]
  BY <1>0, <1>5, <1>6 DEF ProcInv
<1>9. ProcInv'
  BY <1>0, <1>2, <1>3, <1>4, <1>8 DEF ProcInv
<1>10. Taken(p)
  BY <1>3, <1>4, <1>7, <1>8 DEF Taken
<1>11. Starts(p)
  BY <1>2, <1>3, <1>4, <1>8, <1>10 DEF Starts, Alone
<1> QED
  BY <1>0, <1>9, <1>10, <1>11 DEF ProcStep

\* Members create, reschedule and call off.
LEMMA MemberSteps ==
    ASSUME Inv, NEW i \in Items
    PROVE  /\ \A t \in Times, r \in BOOLEAN : Create(i, t, r) => Effect
           /\ \A t \in Times : Reschedule(i, t) => Effect
           /\ Cancel(i) => Effect
           /\ DeleteReminder(i) => Effect
           /\ Restrict(i) => Effect
<1>0. rows[i] \in RowRecords /\ RowInv /\ ProcInv
  BY DEF Inv, RowInv
<1>1. ASSUME NEW t \in Times, NEW r \in BOOLEAN, Create(i, t, r) PROVE Effect
  <2> DEFINE n == [rows[i] EXCEPT !.state = "open", !.at = t, !.recurs = r]
  <2>1. n \in RowRecords /\ n.state = "open" /\ n.leased = rows[i].leased /\ n.text = rows[i].text
    BY <1>0 DEF RowRecords
  <2>2. rows' = [rows EXCEPT ![i] = n]
    BY <1>0, <1>1 DEF Create, RowInv
  <2> HIDE DEF n
  <2>3. Made(i)
    BY <1>0, <1>1, <2>1, <2>2 DEF Made, RowInv, Create
  <2>4. RowStep
    BY <1>0, <2>1, <2>2, <2>3, OneRow
  <2>5. ProcStep
    BY <1>0, <1>1, NoProc DEF Create, Reading
  <2>6. PostStep /\ CountStep
    BY <1>0, <1>1, Constants DEF Create, PostStep, CountStep, RowInv, Unposted, NoFault, Reading,
       Members
  <2> QED BY <2>4, <2>5, <2>6 DEF Effect
<1>2. ASSUME NEW t \in Times, Reschedule(i, t) PROVE Effect
  <2> DEFINE n == [rows[i] EXCEPT !.state = "open", !.at = t, !.text = rows[i].text + 1,
                                  !.waiting = FALSE]
  <2>0. rows[i].text + 1 \in 1..MaxEdits + 1
    BY <1>0, <1>2, Constants DEF Reschedule, RowInv, RowRecords
  <2>1. n \in RowRecords /\ n.state = "open" /\ n.leased = rows[i].leased
        /\ n.text = rows[i].text + 1
    BY <1>0, <2>0 DEF RowRecords
  <2>2. rows' = [rows EXCEPT ![i] = n]
    BY <1>0, <1>2 DEF Reschedule, RowInv
  <2> HIDE DEF n
  <2>3. Edited(i)
    BY <1>0, <1>2, <2>1, <2>2 DEF Edited, RowInv, Reschedule
  <2>4. RowStep
    BY <1>0, <2>1, <2>2, <2>3, OneRow
  <2>5. ProcStep
    BY <1>0, <1>2, NoProc DEF Reschedule, Reading
  <2>6. PostStep /\ CountStep
    BY <1>0, <1>2, Constants DEF Reschedule, PostStep, CountStep, RowInv, Unposted, Reading
  <2> QED BY <2>4, <2>5, <2>6 DEF Effect
<1>3. ASSUME Cancel(i) PROVE Effect
  <2> DEFINE n == [Free(rows[i]) EXCEPT !.state = "deleted"]
  <2>1. n \in RowRecords /\ n.state = "deleted" /\ ~n.leased /\ n.at = rows[i].at
        /\ n.text = rows[i].text
    BY <1>0, FreeFacts DEF RowRecords
  <2>2. rows' = [rows EXCEPT ![i] = n]
    BY <1>0, <1>3 DEF Cancel, RowInv
  <2> HIDE DEF n
  <2>3. Ended(i)
    BY <1>0, <1>3, <2>1, <2>2 DEF Ended, RowInv, Cancel
  <2>4. RowStep
    BY <1>0, <2>1, <2>2, <2>3, OneRow
  <2>5. ProcStep
    BY <1>0, <1>3, NoProc DEF Cancel, Reading
  <2>6. PostStep /\ CountStep
    BY <1>0, <1>3, Constants DEF Cancel, PostStep, CountStep, RowInv, Unposted, Reading, Members
  <2> QED BY <2>4, <2>5, <2>6 DEF Effect
<1>4. ASSUME DeleteReminder(i) PROVE Effect
  <2>1. PICK s \in {"deleted", "complete"} :
            rows' = [rows EXCEPT ![i] = [Free(rows[i]) EXCEPT !.state = s]]
    BY <1>0, <1>4 DEF DeleteReminder, RowInv
  <2> DEFINE n == [Free(rows[i]) EXCEPT !.state = s]
  <2>2. n \in RowRecords /\ n.state = s /\ ~n.leased /\ n.at = rows[i].at /\ n.text = rows[i].text
    BY <1>0, FreeFacts DEF RowRecords
  <2>3. rows' = [rows EXCEPT ![i] = n]
    BY <2>1
  <2> HIDE DEF n
  <2>4. Ended(i)
    BY <1>0, <1>4, <2>2, <2>3 DEF Ended, RowInv, DeleteReminder
  <2>5. RowStep
    BY <1>0, <2>2, <2>3, <2>4, OneRow
  <2>6. ProcStep
    BY <1>0, <1>4, NoProc DEF DeleteReminder, Reading
  <2>7. PostStep /\ CountStep
    BY <1>0, <1>4, Constants DEF DeleteReminder, PostStep, CountStep, RowInv, Unposted, Reading,
       Members
  <2> QED BY <2>5, <2>6, <2>7 DEF Effect
<1>5. ASSUME Restrict(i) PROVE Effect
  <2>1. RowStep /\ ProcStep
    BY <1>0, <1>5, NoRow, NoProc DEF Restrict, Reading
  <2>2. PostStep /\ CountStep
    BY <1>0, <1>5, Constants DEF Restrict, PostStep, CountStep, RowInv, Unposted, Reading
  <2> QED BY <2>1, <2>2 DEF Effect
<1> QED
  BY <1>1, <1>2, <1>3, <1>4, <1>5

\* A worker claims or reads a batch, a call claims its message.
LEMMA TakingSteps ==
    ASSUME Inv
    PROVE  /\ \A w \in Workers : \A S \in {Scheduled, Channel} : Claim(w, S) => Effect
           /\ \A w \in Workers : Fetch(w) => Effect
           /\ \A s \in Senders, i \in Items : ClaimNow(s, i) => Effect
<1>0. RowInv /\ ProcInv
  BY DEF Inv
<1>1. ASSUME NEW w \in Workers, NEW S \in {Scheduled, Channel}, Claim(w, S) PROVE Effect
  <2>1. PICK B \in Batches(Claimable(S)) :
            /\ Take(w, B)
            /\ rows' = [i \in Items |-> IF i \in B
                           THEN [rows[i] EXCEPT !.owner = w, !.leased = TRUE] ELSE rows[i]]
    BY <1>1 DEF Claim
  <2>2. B \in SUBSET Items /\ \A i \in B : rows[i].state = "open"
    BY DEF Batches, Claimable, Due, Items
  <2>3. ProcStep /\ Taken(w)
    BY <1>0, <1>1, <2>1, <2>2, TakeStep DEF Claim, ProcInv
  <2>4. ASSUME NEW i \in B
        PROVE  rows'[i] \in RowRecords /\ Claimed(i)
    <3>1. i \in Items /\ rows[i] \in RowRecords
      BY <1>0, <2>2 DEF RowInv
    <3> DEFINE n == [rows[i] EXCEPT !.owner = w, !.leased = TRUE]
    <3>2. /\ n \in RowRecords /\ n.state = rows[i].state /\ n.at = rows[i].at
          /\ n.text = rows[i].text /\ n.owner = w
      BY <3>1 DEF RowRecords
    <3>3. rows'[i] = n
      BY <2>1, <3>1
    <3> HIDE DEF n
    <3> QED BY <2>2, <2>3, <3>2, <3>3 DEF Claimed
  <2>5. ASSUME NEW i \in Items, i \notin B
        PROVE  rows'[i] \in RowRecords /\ Kept(i)
    BY <1>0, <2>1, <2>5 DEF RowInv, Kept
  <2>6. rows' \in [Items -> RowRecords]
    <3>1. /\ DOMAIN rows' = Items /\ rows' = [i \in Items |-> rows'[i]]
          /\ \A i \in Items : rows'[i] \in RowRecords
      BY <2>1, <2>4, <2>5
    <3> QED BY <3>1
  <2>7. RowStep
    BY <2>4, <2>5, <2>6 DEF RowStep
  <2>8. PostStep /\ CountStep
    <3>1. UNCHANGED <<now, barred, edits, faults, refused, posts>>
      BY <1>1 DEF Claim, Unposted, Members
    <3>2. edits \in Nat
      BY <1>0, Constants DEF RowInv
    <3> QED BY <1>0, <3>1, <3>2 DEF PostStep, CountStep, RowInv
  <2> QED BY <2>3, <2>7, <2>8 DEF Effect
<1>2. ASSUME NEW w \in Workers, Fetch(w) PROVE Effect
  <2>1. PICK B \in Batches({i \in WebReminders : Due(i)}) : Take(w, B)
    BY <1>2 DEF Fetch
  <2>2. B \in SUBSET Items
    BY DEF Batches, Items
  <2>3. stamp' \in [Processes -> 0..MaxTime]
    BY <1>0, <1>2 DEF Fetch, ProcInv, RowInv
  <2>4. ProcStep
    BY <1>0, <1>2, <2>1, <2>2, <2>3, TakeStep DEF Fetch
  <2>5. RowStep
    BY <1>0, <1>2, NoRow DEF Fetch
  <2>6. PostStep /\ CountStep
    BY <1>0, <1>2 DEF Fetch, PostStep, CountStep, RowInv, Unposted, Members
  <2> QED BY <2>4, <2>5, <2>6 DEF Effect
<1>3. ASSUME NEW s \in Senders, NEW i \in Items, ClaimNow(s, i) PROVE Effect
  <2>0. s \in Processes /\ s \notin Workers /\ rows[i] \in RowRecords /\ "send-now" \notin Workers
    BY <1>0, Constants DEF Processes, RowInv
  <2> DEFINE n == [rows[i] EXCEPT !.owner = "send-now", !.leased = TRUE]
  <2>1. /\ n \in RowRecords /\ n.state = rows[i].state /\ n.at = rows[i].at
        /\ n.text = rows[i].text /\ n.owner = "send-now"
    BY <2>0 DEF RowRecords
  <2>2. rows' = [rows EXCEPT ![i] = n]
    BY <1>0, <1>3 DEF ClaimNow, RowInv
  <2> HIDE DEF n
  <2>3. Claimed(i)
    BY <1>0, <1>3, <2>0, <2>1, <2>2 DEF Claimed, RowInv, ClaimNow
  <2>4. RowStep
    BY <1>0, <2>1, <2>2, <2>3, OneRow
  <2>5. /\ pc' \in [Processes -> Active \cup {"idle", "returned"}] /\ pc'[s] = "begin"
        /\ \A q \in Processes \ {s} : pc'[q] = pc[q]
    BY <1>0, <1>3, <2>0 DEF ClaimNow, Goto, ProcInv, Active
  <2>6. /\ cur' \in [Processes -> Items \cup {"none"}] /\ cur'[s] = i
        /\ \A q \in Processes \ {s} : cur'[q] = cur[q]
    BY <1>0, <1>3, <2>0 DEF ClaimNow, ProcInv
  <2>7. ProcInv'
    BY <1>0, <1>3, <2>0, <2>5, <2>6 DEF ClaimNow, Reading, ProcInv
  <2>8. Starts(s)
    BY <1>3, <2>0, <2>5, <2>6 DEF Starts, Alone, ClaimNow, Reading
  <2>9. PostStep /\ CountStep
    BY <1>0, <1>3 DEF ClaimNow, PostStep, CountStep, RowInv, Unposted, Reading, Members
  <2> QED BY <2>0, <2>4, <2>7, <2>8, <2>9 DEF Effect, ProcStep
<1> QED
  BY <1>1, <1>2, <1>3

\* Reading before a post, and the post.
LEMMA PostingSteps ==
    ASSUME Inv, NEW p \in Processes
    PROVE  /\ Begin(p) => Effect
           /\ Commit(p) => Effect
           /\ PostFails(p) => Effect
           /\ LeaseLost(p) => Effect
<1>0. /\ RowInv /\ ProcInv
      /\ text \in [Processes -> 0..MaxEdits + 1]
  BY DEF Inv, ProcInv
<1>1. ASSUME Begin(p) PROVE Effect
  <2> DEFINE i == cur[p]
  <2>0. /\ pc[p] = "begin" /\ i \in Items /\ rows[i] \in RowRecords
        /\ Occurrence(p, i) \in Times
    <3>1. pc[p] = "begin" /\ i \in Items /\ rows[i] \in RowRecords /\ seen[p][i] \in Times
      BY <1>0, <1>1 DEF Begin, ProcInv, RowInv, Active
    <3> QED BY <3>1, Constants DEF Occurrence, Times
  <2>1. RowStep
    BY <1>0, <1>1, NoRow DEF Begin
  <2>2. PostStep
    BY <1>1 DEF Begin, PostStep, Unposted
  <2>3. refused' \subseteq Items \X Times
    BY <1>0, <1>1, <2>0 DEF Begin, RowInv
  <2>4. CountStep
    BY <1>0, <1>1, <2>3 DEF Begin, CountStep, RowInv, Members
  <2>5. /\ UNCHANGED <<cur, todo, seen, stamp>>
        /\ pc[p] \in Active
    BY <1>1, <2>0 DEF Begin, Active
  <2>6. CASE /\ i \in Scheduled /\ rows[i].state = "deleted"
             /\ Goto(p, "perm") /\ UNCHANGED <<text, refused>>
    BY <1>0, <2>5, <2>6, GotoStep, <2>1, <2>2, <2>4 DEF Active, Effect
  <2>7. CASE /\ i \in Scheduled /\ rows[i].state # "deleted" /\ Posted(i, 0)
             /\ Goto(p, "ok") /\ UNCHANGED <<text, refused>>
    <3>1. Posted(cur[p], Occurrence(p, cur[p]))'
      BY <1>1, <2>5, <2>7 DEF Begin, Unposted, Posted, Occurrence
    <3> QED BY <1>0, <2>5, <2>7, <3>1, GotoStep, <2>1, <2>2, <2>4 DEF Active, Effect
  <2>8. CASE Goto(p, "release") /\ UNCHANGED <<text, refused>>
    BY <1>0, <2>5, <2>8, GotoStep, <2>1, <2>2, <2>4 DEF Active, Effect
  <2>9. CASE /\ Goto(p, IF i \in WebReminders THEN "ok" ELSE "perm") /\ UNCHANGED text
    <3>1. IF i \in WebReminders THEN i \notin Leased /\ Goto(p, "ok") ELSE Goto(p, "perm")
      BY <2>0, <2>9, Constants
    <3> QED BY <1>0, <2>5, <2>9, <3>1, GotoStep, <2>1, <2>2, <2>4 DEF Active, Effect
  <2>10. CASE /\ Goto(p, "commit") /\ text' = [text EXCEPT ![p] = rows[i].text]
    <3>1. rows[i].text \in 1..MaxEdits + 1 /\ rows[i].text # 0 /\ rows[i].text \in 0..MaxEdits + 1
      BY <2>0, Constants DEF RowRecords
    <3>2. /\ text' \in [Processes -> 0..MaxEdits + 1] /\ text'[p] # 0
          /\ \A q \in Processes \ {p} : text'[q] = text[q]
      BY <1>0, <2>10, <3>1
    <3> QED BY <1>0, <2>5, <2>10, <3>2, GotoStep, <2>1, <2>2, <2>4 DEF Active, Effect
  <2> QED BY <1>1, <2>6, <2>7, <2>8, <2>9, <2>10 DEF Begin
<1>2. ASSUME Commit(p) PROVE Effect
  <2> DEFINE i == cur[p]
  <2>0. /\ pc[p] = "commit" /\ pc[p] \in Active /\ i \in Items
        /\ UNCHANGED <<rows, cur, todo, seen, text, stamp>>
    BY <1>0, <1>2 DEF Commit, ProcInv, Active, Reading
  <2>1. RowStep
    BY <1>0, <2>0, NoRow
  <2>2. CountStep
    BY <1>0, <1>2 DEF Commit, CountStep, RowInv, Members, Reading
  <2>3. CASE Goto(p, "perm") /\ Unposted
    BY <1>0, <2>0, <2>1, <2>2, <2>3, GotoStep DEF Active, Effect, PostStep, Unposted
  <2>4. CASE /\ i \in Scheduled => rows[i].state \notin {"deleted", "delivered"}
             /\ Goto(p, "ok")
             /\ IF Posted(i, Key(p, i)) THEN Unposted ELSE Post(p, i)
    <3>1. PostStep
      BY <2>0, <2>4 DEF PostStep, Unposted
    <3>2. \E x \in posts' : x.item = i /\ x.key = Key(p, i)
      <4>1. CASE Posted(i, Key(p, i))
        BY <2>4, <4>1 DEF Posted, Unposted
      <4>2. CASE ~Posted(i, Key(p, i))
        <5> DEFINE x == [item |-> i, occurrence |-> Occurrence(p, i), key |-> Key(p, i), text |-> text[p]]
        <5>1. x \in posts'
          BY <2>4, <4>2 DEF Post
        <5> QED BY <5>1
      <4> QED BY <4>1, <4>2
    <3>3. Posted(cur[p], Occurrence(p, cur[p]))'
      BY <2>0, <3>2 DEF Posted, Key, Occurrence
    <3> QED BY <1>0, <2>0, <2>1, <2>2, <2>4, <3>1, <3>3, GotoStep DEF Active, Effect
  <2> QED BY <1>2, <2>3, <2>4 DEF Commit
<1>3. ASSUME PostFails(p) PROVE Effect
  <2>1. pc[p] \in Active /\ UNCHANGED <<rows, cur, todo, seen, text, stamp>> /\ Goto(p, "release")
    BY <1>3 DEF PostFails, Active, Reading
  <2>2. RowStep
    BY <1>0, <2>1, NoRow
  <2>3. ProcStep
    BY <1>0, <2>1, GotoStep DEF Active
  <2>4. PostStep /\ CountStep
    BY <1>0, <1>3, Constants DEF PostFails, PostStep, CountStep, RowInv, Fault, Unposted, Members,
       Reading
  <2> QED BY <2>2, <2>3, <2>4 DEF Effect
<1>4. ASSUME LeaseLost(p) PROVE Effect
  <2>1. pc[p] \in Active /\ UNCHANGED <<rows, cur, todo, seen, text, stamp>> /\ Goto(p, "release")
    BY <1>4 DEF LeaseLost, Active, Reading
  <2>2. RowStep
    BY <1>0, <2>1, NoRow
  <2>3. ProcStep
    BY <1>0, <2>1, GotoStep DEF Active
  <2>4. PostStep /\ CountStep
    BY <1>0, <1>4 DEF LeaseLost, PostStep, CountStep, RowInv, Unposted, Members, Reading
  <2> QED BY <2>2, <2>3, <2>4 DEF Effect
<1> QED
  BY <1>1, <1>2, <1>3, <1>4

\* An item is settled, or given back.
LEMMA SettlingSteps ==
    ASSUME Inv, NEW p \in Processes
    PROVE  /\ MarkReminder(p) => Effect
           /\ MarkDelivered(p) => Effect
           /\ MarkFailed(p) => Effect
           /\ Release(p) => Effect
<1> DEFINE i == cur[p]
<1>0. RowInv /\ ProcInv
  BY DEF Inv
<1>1. ASSUME MarkReminder(p) PROVE Effect
  <2>0. /\ pc[p] = "ok" /\ pc[p] \in Active /\ i \in WebReminders /\ i \in Items
        /\ i \notin Leased
        /\ stamp[p] \in 0..MaxTime /\ rows[i] \in RowRecords
    BY <1>0, <1>1, Constants DEF MarkReminder, ProcInv, Active, Items, RowInv
  <2>1. ProcStep
    BY <1>0, <1>1, <2>0, LeaveStep DEF MarkReminder
  <2>2. RowStep
    <3>1. CASE UNCHANGED rows
      BY <1>0, <3>1, NoRow
    <3>2. CASE rows' = [rows EXCEPT ![i] = Delivered(p, i, stamp[p])]
      <4>1. Settled(i)
        BY <1>0, <2>0, <3>2, DeliveredFacts DEF Settled, RowInv
      <4> QED BY <1>0, <2>0, <3>2, <4>1, DeliveredFacts, OneRow
    <3> QED BY <1>1, <3>1, <3>2 DEF MarkReminder
  <2>3. PostStep /\ CountStep
    <3>1. UNCHANGED <<now, barred, edits, faults, refused, posts>>
      BY <1>1 DEF MarkReminder, Unposted, Members
    <3> QED BY <1>0, <3>1, Constants DEF PostStep, CountStep, RowInv
  <2> QED BY <2>1, <2>2, <2>3 DEF Effect
<1>2. ASSUME MarkDelivered(p) PROVE Effect
  <2>0. /\ pc[p] = "ok" /\ pc[p] \in Active /\ i \in Leased /\ i \in Items
        /\ now \in 0..MaxTime /\ rows[i] \in RowRecords
    BY <1>0, <1>2 DEF MarkDelivered, ProcInv, Active, Items, Leased, RowInv
  <2>1. ProcStep
    BY <1>0, <1>2, <2>0, LeaveStep DEF MarkDelivered
  <2>2. RowStep
    <3>1. CASE UNCHANGED rows
      BY <1>0, <3>1, NoRow
    <3>2. CASE Held(p, i) /\ rows' = [rows EXCEPT ![i] = Delivered(p, i, now)]
      <4>1. Settled(i)
        BY <1>0, <2>0, <3>2, DeliveredFacts DEF Settled, RowInv
      <4> QED BY <1>0, <2>0, <3>2, <4>1, DeliveredFacts, OneRow
    <3> QED BY <1>2, <3>1, <3>2 DEF MarkDelivered
  <2>3. PostStep /\ CountStep
    <3>1. UNCHANGED <<now, barred, edits, refused, posts>> /\ (Fault \/ NoFault)
      BY <1>2 DEF MarkDelivered, Unposted, Members
    <3> QED BY <1>0, <3>1, Constants DEF PostStep, CountStep, RowInv, Fault, NoFault
  <2> QED BY <2>1, <2>2, <2>3 DEF Effect
<1>3. ASSUME MarkFailed(p) PROVE Effect
  <2>0. /\ pc[p] = "perm" /\ pc[p] \in Active /\ i \in Items /\ rows[i] \in RowRecords
    BY <1>0, <1>3 DEF MarkFailed, ProcInv, Active, RowInv
  <2>1. UNCHANGED <<now, barred, edits, refused, posts>>
    BY <1>3 DEF MarkFailed, Unposted, Members
  <2>2. CASE /\ Held(p, i) /\ NoFault /\ Leave(p)
             /\ rows' = [rows EXCEPT ![i] = [Free(@) EXCEPT !.state = "failed", !.waiting = FALSE]]
    <3> DEFINE n == [Free(rows[i]) EXCEPT !.state = "failed", !.waiting = FALSE]
    <3>1. /\ n \in RowRecords /\ n.state = "failed" /\ ~n.leased /\ n.at = rows[i].at
          /\ n.text = rows[i].text
      BY <2>0, FreeFacts DEF RowRecords
    <3>2. rows' = [rows EXCEPT ![i] = n]
      BY <1>0, <2>0, <2>2 DEF RowInv
    <3> HIDE DEF n
    <3>3. GivenUp(i)
      BY <1>0, <2>0, <3>1, <3>2 DEF GivenUp, RowInv
    <3>4. RowStep
      BY <1>0, <2>0, <3>1, <3>2, <3>3, OneRow
    <3>5. ProcStep
      BY <1>0, <2>0, <2>2, LeaveStep
    <3>6. PostStep /\ CountStep
      BY <1>0, <2>1, <2>2, Constants DEF PostStep, CountStep, RowInv, NoFault
    <3> QED BY <3>4, <3>5, <3>6 DEF Effect
  <2>3. CASE /\ Goto(p, "release") /\ (Fault \/ NoFault)
             /\ UNCHANGED <<rows, cur, todo, seen, text, stamp>>
    <3>1. RowStep
      BY <1>0, <2>3, NoRow
    <3>2. ProcStep
      BY <1>0, <2>0, <2>3, GotoStep DEF Active, ProcInv
    <3>3. PostStep /\ CountStep
      BY <1>0, <2>1, <2>3, Constants DEF PostStep, CountStep, RowInv, Fault, NoFault
    <3> QED BY <3>1, <3>2, <3>3 DEF Effect
  <2> QED BY <1>3, <2>2, <2>3 DEF MarkFailed
<1>4. ASSUME Release(p) PROVE Effect
  <2>0. /\ pc[p] = "release" /\ pc[p] \in Active /\ i \in Items /\ rows[i] \in RowRecords
    BY <1>0, <1>4 DEF Release, ProcInv, Active, RowInv
  <2>1. ProcStep
    BY <1>0, <1>4, <2>0, LeaveStep DEF Release
  <2>2. RowStep
    <3>1. CASE UNCHANGED rows
      BY <1>0, <3>1, NoRow
    <3>2. CASE rows' = [rows EXCEPT ![i] = [Free(@) EXCEPT !.waiting = (p \in Workers)]]
      <4> DEFINE b == p \in Workers
                 n == [Free(rows[i]) EXCEPT !.waiting = b]
      <4>0. b \in BOOLEAN
        OBVIOUS
      <4>2. rows' = [rows EXCEPT ![i] = n]
        BY <1>0, <2>0, <3>2 DEF RowInv
      <4> HIDE DEF b
      <4>1. /\ n \in RowRecords /\ n.state = rows[i].state /\ ~n.leased /\ n.at = rows[i].at
            /\ n.text = rows[i].text
        BY <2>0, <4>0, FreeFacts DEF RowRecords
      <4> HIDE DEF n
      <4>3. Kept(i)
        BY <1>0, <2>0, <4>1, <4>2 DEF Kept, RowInv
      <4> QED BY <1>0, <2>0, <4>1, <4>2, <4>3, OneRow
    <3> QED BY <1>4, <3>1, <3>2 DEF Release
  <2>3. PostStep /\ CountStep
    <3>1. UNCHANGED <<now, barred, edits, refused, posts>> /\ (Fault \/ NoFault)
      BY <1>4 DEF Release, Unposted, Members
    <3> QED BY <1>0, <3>1, Constants DEF PostStep, CountStep, RowInv, Fault, NoFault
  <2> QED BY <2>1, <2>2, <2>3 DEF Effect
<1> QED
  BY <1>1, <1>2, <1>3, <1>4

\* A lease ends, whoever let it.
LEMMA LapsedStep ==
    ASSUME RowInv, NEW i \in Items, Lapsed(i)
    PROVE  RowStep
<1> DEFINE n == [rows[i] EXCEPT !.leased = FALSE]
<1>1. rows[i] \in RowRecords
  BY DEF RowInv
<1>2. /\ n \in RowRecords /\ n.state = rows[i].state /\ ~n.leased /\ n.at = rows[i].at
      /\ n.text = rows[i].text
  BY <1>1 DEF RowRecords
<1>3. rows' = [rows EXCEPT ![i] = n]
  BY DEF Lapsed, RowInv
<1> HIDE DEF n
<1>4. Kept(i)
  BY <1>2, <1>3 DEF Kept, RowInv
<1> QED
  BY <1>2, <1>3, <1>4, OneRow

\* Time passes, leases lapse, processes stall and die.
LEMMA EnvironmentSteps ==
    ASSUME Inv
    PROVE  /\ Tick => Effect
           /\ \A i \in Items : Lapse(i) => Effect
           /\ \A i \in Items : RetryDue(i) => Effect
           /\ \A p \in Processes : Stall(p) => Effect
           /\ \A p \in Processes : Crash(p) => Effect
<1>0. RowInv /\ ProcInv
  BY DEF Inv
<1>1. ASSUME Tick PROVE Effect
  <2>1. RowStep
    BY <1>0, <1>1, NoRow DEF Tick
  <2>2. ProcStep
    BY <1>0, <1>1, NoProc DEF Tick, Reading
  <2>3. PostStep /\ CountStep
    BY <1>0, <1>1, Constants DEF Tick, PostStep, CountStep, RowInv, Unposted, Reading
  <2> QED BY <2>1, <2>2, <2>3 DEF Effect
<1>2. ASSUME NEW i \in Items, Lapse(i) PROVE Effect
  <2>1. RowStep
    BY <1>0, <1>2, LapsedStep DEF Lapse
  <2>2. ProcStep
    BY <1>0, <1>2, NoProc DEF Lapse, Reading
  <2>3. PostStep /\ CountStep
    <3>1. UNCHANGED <<now, barred, edits, faults, refused, posts>>
      BY <1>2 DEF Lapse, Unposted, Members, Reading
    <3> QED BY <1>0, <3>1, Constants DEF PostStep, CountStep, RowInv
  <2> QED BY <2>1, <2>2, <2>3 DEF Effect
<1>3. ASSUME NEW i \in Items, RetryDue(i) PROVE Effect
  <2> DEFINE n == [rows[i] EXCEPT !.waiting = FALSE]
  <2>0. rows[i] \in RowRecords
    BY <1>0 DEF RowInv
  <2>1. /\ n \in RowRecords /\ n.state = rows[i].state /\ n.leased = rows[i].leased
        /\ n.owner = rows[i].owner /\ n.at = rows[i].at /\ n.text = rows[i].text
    BY <2>0 DEF RowRecords
  <2>2. rows' = [rows EXCEPT ![i] = n]
    BY <1>0, <1>3 DEF RetryDue, RowInv
  <2> HIDE DEF n
  <2>3. Kept(i)
    BY <1>0, <2>1, <2>2 DEF Kept, RowInv
  <2>4. RowStep
    BY <1>0, <2>1, <2>2, <2>3, OneRow
  <2>5. ProcStep
    BY <1>0, <1>3, NoProc DEF RetryDue, Reading
  <2>6. PostStep /\ CountStep
    <3>1. UNCHANGED <<now, barred, edits, faults, refused, posts>>
      BY <1>3 DEF RetryDue, Unposted, Members, Reading
    <3> QED BY <1>0, <3>1, Constants DEF PostStep, CountStep, RowInv
  <2> QED BY <2>4, <2>5, <2>6 DEF Effect
<1>4. ASSUME NEW p \in Processes, Stall(p) PROVE Effect
  <2>1. RowStep
    BY <1>0, <1>4, LapsedStep DEF Stall, Leased, Items
  <2>2. ProcStep
    BY <1>0, <1>4, NoProc DEF Stall, Reading
  <2>3. PostStep /\ CountStep
    <3>1. UNCHANGED <<now, barred, edits, refused, posts>> /\ Fault
      BY <1>4 DEF Stall, Unposted, Members, Reading
    <3> QED BY <1>0, <3>1, Constants DEF PostStep, CountStep, RowInv, Fault
  <2> QED BY <2>1, <2>2, <2>3 DEF Effect
<1>5. ASSUME NEW p \in Processes, Crash(p) PROVE Effect
  <2>0. 0 \in Times /\ 0 \in 0..MaxEdits + 1 /\ 0 \in 0..MaxTime
    BY Constants DEF Times
  <2>1. RowStep
    BY <1>0, <1>5, NoRow DEF Crash
  <2>2. /\ pc' \in [Processes -> Active \cup {"idle", "returned"}]
        /\ pc'[p] \in {"idle", "returned"}
        /\ \A q \in Processes \ {p} : pc'[q] = pc[q]
    BY <1>0, <1>5 DEF Crash, Rest, Goto, ProcInv
  <2>3. /\ cur' \in [Processes -> Items \cup {"none"}] /\ cur'[p] = "none"
        /\ \A q \in Processes \ {p} : cur'[q] = cur[q]
    BY <1>0, <1>5 DEF Crash, ProcInv
  <2>4. /\ todo' \in [Processes -> SUBSET Items] /\ todo'[p] = {}
        /\ \A q \in Processes \ {p} : todo'[q] = todo[q]
    BY <1>0, <1>5 DEF Crash, ProcInv
  <2>5. /\ seen' \in [Processes -> [Items -> Times]]
        /\ \A q \in Processes \ {p} : seen'[q] = seen[q]
    BY <1>0, <1>5, <2>0 DEF Crash, ProcInv
  <2>6. /\ text' \in [Processes -> 0..MaxEdits + 1] /\ stamp' \in [Processes -> 0..MaxTime]
        /\ \A q \in Processes \ {p} : text'[q] = text[q]
    BY <1>0, <1>5, <2>0 DEF Crash, ProcInv
  <2>7. ProcInv'
    BY <1>0, <2>2, <2>3, <2>4, <2>5, <2>6 DEF ProcInv, Active
  <2>8. Leaves(p)
    BY <2>2, <2>3, <2>4, <2>5 DEF Leaves, Alone
  <2>9. PostStep /\ CountStep
    <3>1. UNCHANGED <<now, barred, edits, refused, posts>> /\ Fault
      BY <1>5 DEF Crash, Unposted, Members
    <3> QED BY <1>0, <3>1, Constants DEF PostStep, CountStep, RowInv, Fault
  <2> QED BY <2>1, <2>7, <2>8, <2>9 DEF Effect, ProcStep
<1> QED
  BY <1>1, <1>2, <1>3, <1>4, <1>5

\* Every step is of these kinds.
LEMMA StepEffect == Inv /\ [Next]_vars => Effect
<1> SUFFICES ASSUME Inv, [Next]_vars PROVE Effect
  OBVIOUS
<1>1. CASE UNCHANGED vars
  <2>1. RowInv /\ ProcInv
    BY DEF Inv
  <2>2. RowStep /\ ProcStep
    BY <1>1, <2>1, NoRow, NoProc DEF vars
  <2>3. PostStep /\ CountStep
    BY <1>1, <2>1, Constants DEF vars, PostStep, CountStep, RowInv
  <2> QED BY <2>2, <2>3 DEF Effect
<1>2. ASSUME NEW i \in Items,
             \/ \E t \in Times, r \in BOOLEAN : Create(i, t, r)
             \/ \E t \in Times : Reschedule(i, t)
             \/ Cancel(i) \/ DeleteReminder(i) \/ Restrict(i)
             \/ \E s \in Senders : ClaimNow(s, i)
      PROVE  Effect
  BY <1>2, MemberSteps, TakingSteps
<1>3. ASSUME NEW p \in Processes,
             Step(p) \/ Work(p) \/ PostFails(p) \/ Stall(p) \/ Crash(p)
      PROVE  Effect
  <2>1. CASE Step(p)
    BY <2>1, PostingSteps, SettlingSteps DEF Step
  <2>2. CASE Work(p)
    <3>1. p \in Workers
      BY <2>2 DEF Work, Claim, Fetch
    <3> QED BY <2>2, <3>1, TakingSteps DEF Work
  <2>3. CASE PostFails(p) \/ Stall(p) \/ Crash(p)
    BY <2>3, PostingSteps, EnvironmentSteps
  <2> QED BY <1>3, <2>1, <2>2, <2>3
<1>4. CASE Elapse
  BY <1>4, EnvironmentSteps DEF Elapse
<1> QED
  BY <1>1, <1>2, <1>3, <1>4 DEF Next

-----------------------------------------------------------------------------
(* What the kinds of step keep.                                            *)

\* What was posted stays posted.
LEMMA PostsStay ==
    ASSUME PostStep, NEW i, NEW k, Posted(i, k) PROVE Posted(i, k)'
BY DEF PostStep, Posted, Post

\* The rows keep their bounds.
LEMMA RowsKeep == Inv /\ Effect => RowInv'
<1> SUFFICES ASSUME Inv, Effect PROVE RowInv'
  OBVIOUS
<1>1. ASSUME NEW i \in Items
      PROVE  rows'[i].text <= edits' + 1
             /\ (rows'[i].leased => rows'[i].state \in {"open", "failed"})
  <2>1. /\ rows[i].text \in Nat /\ rows[i].text <= edits + 1 /\ edits \in Nat /\ edits' \in Nat
        /\ edits' >= edits /\ (rows[i].leased => rows[i].state \in {"open", "failed"})
    BY Constants DEF Inv, RowInv, RowRecords, Effect, CountStep
  <2>2. \/ rows'[i].text = rows[i].text
        \/ rows'[i].text = rows[i].text + 1 /\ edits' = edits + 1
    BY DEF Effect, RowStep, Kept, Made, Edited, Ended, Claimed, GivenUp, Settled
  <2>3. rows'[i].leased => rows'[i].state \in {"open", "failed"}
    BY <2>1 DEF Effect, RowStep, Kept, Made, Edited, Ended, Claimed, GivenUp, Settled
  <2> QED BY <2>1, <2>2, <2>3
<1> QED
  BY <1>1 DEF Effect, RowStep, CountStep, RowInv

\* A new post has a fresh key.
LEMMA PostsKeep == Inv /\ Effect => PostInv' /\ OnePostPerOccurrence'
<1> SUFFICES ASSUME Inv, Effect PROVE PostInv' /\ OnePostPerOccurrence'
  OBVIOUS
<1>1. CASE posts' = posts
  BY <1>1 DEF Inv, PostInv, OnePostPerOccurrence
<1>2. ASSUME NEW p \in Processes, pc[p] = "commit", cur[p] \in Items,
             ~Posted(cur[p], Key(p, cur[p])), Post(p, cur[p])
      PROVE  PostInv' /\ OnePostPerOccurrence'
  <2> DEFINE i == cur[p]
             o == Occurrence(p, i)
             x == [item |-> i, occurrence |-> o, key |-> o, text |-> text[p]]
  <2>1. posts' = posts \cup {x}
    BY <1>2 DEF Post, Key
  <2>2. o \in Times /\ (i \in Scheduled => o = 0)
    BY <1>2, Constants DEF Occurrence, Inv, ProcInv, Times
  <2>3. text[p] \in 1..MaxEdits + 1
    BY <1>2, Constants DEF Inv, ProcInv
  <2>4. \A y \in posts : ~(y.item = i /\ y.key = o)
    BY <1>2 DEF Posted, Key
  <2> HIDE DEF o
  <2>5. /\ x \in [item : Items, occurrence : Times, key : Times, text : 1..MaxEdits + 1]
        /\ x.key = x.occurrence /\ x.item = i /\ x.key = o
    BY <1>2, <2>2, <2>3
  <2> HIDE DEF x
  <2>6. PostInv'
    BY <2>1, <2>2, <2>5 DEF Inv, PostInv
  <2>7. OnePostPerOccurrence'
    <3>1. x.occurrence = o
      BY <2>5
    <3>2. \A y \in posts : ~(y.item = i /\ y.occurrence = o)
      BY <2>4 DEF Inv, PostInv
    <3> SUFFICES ASSUME NEW y \in posts', NEW z \in posts', y.item = z.item,
                        y.occurrence = z.occurrence
                 PROVE  y = z
      BY DEF OnePostPerOccurrence
    <3>3. y \in posts /\ z \in posts => y = z
      BY DEF Inv, OnePostPerOccurrence
    <3> QED BY <2>1, <2>5, <3>1, <3>2, <3>3
  <2> QED BY <2>6, <2>7
<1> QED
  BY <1>1, <1>2 DEF Effect, PostStep

\* Cancelling and posting exclude each other.
LEMMA CancelledKeep == Inv /\ Effect => CancelledNeverPosted'
<1> SUFFICES ASSUME Inv, Effect, NEW i \in Scheduled, rows'[i].state = "deleted", Posted(i, 0)'
             PROVE  FALSE
  BY DEF CancelledNeverPosted
<1>0. i \in Items
  BY DEF Items
<1>1. CASE posts' = posts
  <2>1. Posted(i, 0)
    BY <1>1 DEF Posted
  <2>2. rows[i].state = "deleted"
    BY <1>0, <2>1 DEF Effect, RowStep, Kept, Made, Edited, Ended, Claimed, GivenUp, Settled
  <2> QED BY <2>1, <2>2 DEF Inv, CancelledNeverPosted
<1>2. ASSUME NEW p \in Processes,
             cur[p] \in Scheduled => rows[cur[p]].state \notin {"deleted", "delivered"},
             Post(p, cur[p]), UNCHANGED rows
      PROVE  FALSE
  <2>1. i # cur[p]
    BY <1>2
  <2>2. Posted(i, 0)
    BY <1>2, <2>1 DEF Posted, Post
  <2> QED BY <1>2, <2>2 DEF Inv, CancelledNeverPosted
<1> QED
  BY <1>1, <1>2 DEF Effect, PostStep

\* What is recorded as delivered has its post.
LEMMA DeliveredKeep == Inv /\ Effect => DeliveredWasPosted'
<1> SUFFICES ASSUME Inv, Effect, NEW i \in Scheduled, rows'[i].state = "delivered"
             PROVE  Posted(i, 0)'
  BY DEF DeliveredWasPosted
<1>0. i \in Items /\ i \in Leased /\ PostStep
  BY DEF Items, Leased, Effect
<1>1. CASE rows[i].state = "delivered"
  BY <1>0, <1>1, PostsStay DEF Inv, DeliveredWasPosted
<1>2. CASE rows[i].state # "delivered"
  <2>1. Settled(i)
    BY <1>0, <1>2 DEF Effect, RowStep, Kept, Made, Edited, Ended, Claimed, GivenUp
  <2>2. PICK p \in Processes : pc[p] = "ok" /\ cur[p] = i
    BY <1>0, <2>1 DEF Settled
  <2>3. Posted(i, 0)
    BY <1>0, <2>2 DEF Inv, OkInv, Occurrence
  <2> QED BY <1>0, <2>3, PostsStay
<1> QED
  BY <1>1, <1>2

\* "ok" is reached with a post, and posts stay.
LEMMA OkKeep == Inv /\ Effect => OkInv'
<1> SUFFICES ASSUME Inv, Effect, NEW q \in Processes, pc'[q] = "ok", cur'[q] \in Leased
             PROVE  Posted(cur[q], Occurrence(q, cur[q]))'
  BY DEF OkInv
<1>0. PostStep
  BY DEF Effect
<1>1. CASE pc'[q] = pc[q] /\ cur'[q] = cur[q] /\ seen'[q] = seen[q]
  <2>1. Posted(cur[q], Occurrence(q, cur[q]))
    BY <1>1 DEF Inv, OkInv
  <2>2. Occurrence(q, cur[q])' = Occurrence(q, cur[q])
    BY <1>1 DEF Occurrence
  <2> DEFINE k == Occurrence(q, cur[q])
             c == cur[q]
  <2>3. \E x \in posts' : x.item = c /\ x.key = k
    BY <1>0, <2>1, PostsStay DEF Posted
  <2> QED BY <1>1, <2>2, <2>3 DEF Posted
<1>2. ASSUME NEW p \in Processes, Starts(p) \/ Leaves(p)
      PROVE  pc'[q] = pc[q] /\ cur'[q] = cur[q] /\ seen'[q] = seen[q]
  BY <1>2 DEF Starts, Leaves, Alone
<1>3. ASSUME NEW p \in Processes, Goes(p)
      PROVE  Posted(cur[q], Occurrence(q, cur[q]))'
  BY <1>1, <1>3 DEF Goes, Alone
<1> QED
  BY <1>1, <1>2, <1>3 DEF Effect, ProcStep

\* Only the owner of a lease moves a channel reminder on.
LEMMA SeenKeep == Inv /\ Effect => SeenInv'
<1> SUFFICES ASSUME Inv, Effect, NEW w \in Workers, NEW i \in Channel,
                    rows'[i].leased, rows'[i].owner = w, i = cur'[w] \/ i \in todo'[w]
             PROVE  rows'[i].at = seen'[w][i]
  BY DEF SeenInv
<1>0. i \in Items /\ i # "none" /\ w \in Processes
  BY Constants DEF Items, Processes
<1>1. CASE Claimed(i)
  BY <1>0, <1>1 DEF Claimed, Taken
<1>2. CASE Kept(i)
  <2>1. CASE (i = cur[w] \/ i \in todo[w]) /\ seen'[w] = seen[w]
    BY <1>2, <2>1 DEF Kept, Inv, SeenInv
  <2>2. ASSUME NEW p \in Processes, Starts(p) PROVE rows'[i].at = seen'[w][i]
    <3>1. CASE p = w
      BY <1>0, <1>2, <2>2, <3>1 DEF Starts, Taken, Kept
    <3>2. CASE p # w
      BY <1>0, <2>1, <2>2, <3>2 DEF Starts, Alone
    <3> QED BY <3>1, <3>2
  <2>3. ASSUME NEW p \in Processes, Goes(p) \/ Leaves(p) PROVE rows'[i].at = seen'[w][i]
    BY <1>0, <2>1, <2>3 DEF Goes, Leaves, Alone
  <2> QED BY <2>1, <2>2, <2>3 DEF Effect, ProcStep
<1> QED
  BY <1>0, <1>1, <1>2, Constants
  DEF Effect, RowStep, Made, Edited, Ended, GivenUp, Settled

-----------------------------------------------------------------------------
(* The theorems.                                                           *)

\* A first state: nothing is stored, posted or under way.
LEMMA InvInit == Init => Inv
<1> SUFFICES ASSUME Init PROVE Inv
  OBVIOUS
<1> DEFINE row == [state |-> "absent", at |-> 0, text |-> 1, recurs |-> FALSE,
                   owner |-> "none", leased |-> FALSE, waiting |-> FALSE]
<1>0. 0 \in Times /\ 0 \in 0..MaxEdits + 1 /\ 0 \in 0..MaxTime /\ 1 \in 1..MaxEdits + 1
  BY Constants DEF Times
<1>1. row \in RowRecords
  BY <1>0 DEF RowRecords
<1>2. rows = [i \in Items |-> row]
  BY DEF Init
<1>3. row.state = "absent" /\ row.text = 1 /\ ~row.leased
  OBVIOUS
<1> HIDE DEF row
<1>4. rows \in [Items -> RowRecords] /\ \A i \in Items : rows[i] = row
  BY <1>1, <1>2
<1>5. RowInv
  BY <1>3, <1>4, Constants DEF Init, RowInv
<1>6. ProcInv
  BY <1>0 DEF Init, ProcInv, Active
<1>7. PostInv /\ OnePostPerOccurrence
  BY DEF Init, PostInv, OnePostPerOccurrence
<1>8. OkInv /\ SeenInv
  BY <1>3, <1>4 DEF Init, OkInv, SeenInv, Items
<1>9. CancelledNeverPosted /\ DeliveredWasPosted
  BY <1>3, <1>4 DEF CancelledNeverPosted, DeliveredWasPosted, Items
<1> QED
  BY <1>5, <1>6, <1>7, <1>8, <1>9 DEF Inv

\* Every step keeps the invariant.
LEMMA InvNext == Inv /\ [Next]_vars => Inv'
<1> SUFFICES ASSUME Inv, [Next]_vars PROVE Inv'
  OBVIOUS
<1>1. Effect
  BY StepEffect
<1>2. ProcInv'
  BY <1>1 DEF Effect, ProcStep
<1>3. RowInv' /\ PostInv' /\ OnePostPerOccurrence'
  BY <1>1, RowsKeep, PostsKeep
<1>4. CancelledNeverPosted' /\ DeliveredWasPosted'
  BY <1>1, CancelledKeep, DeliveredKeep
<1>5. OkInv' /\ SeenInv'
  BY <1>1, OkKeep, SeenKeep
<1> QED
  BY <1>2, <1>3, <1>4, <1>5 DEF Inv

\* One message is posted per occurrence, none for a cancelled message, and what
\* is recorded as delivered was posted: whatever workers, send-now calls and
\* members do to one another (worker.go, messages.go and the schedule's rows).
THEOREM OnePostEach == Spec => []PostsAreDeliveries
<1>1. Inv => PostsAreDeliveries
  <2> SUFFICES ASSUME Inv PROVE TypeOK
    BY DEF Inv, PostsAreDeliveries
  <2>1. stamp \in [Processes -> Times]
    BY Constants DEF Inv, ProcInv, Times
  <2>2. pc \in [Processes -> {"idle", "begin", "commit", "ok", "perm", "release", "returned"}]
    BY DEF Inv, ProcInv, Active
  <2> QED BY <2>1, <2>2 DEF Inv, ProcInv, RowInv, PostInv, TypeOK
<1> QED
  BY <1>1, InvInit, InvNext, PTL DEF Spec

\* A channel reminder leaves an occurrence only when that was posted: a worker
\* whose lease lapsed cannot move it on (reminders.go, MarkChannelReminderDelivered).
THEOREM NoneSkipped == Spec => NoOccurrenceSkipped
<1>1. Inv /\ [Next]_vars => [~Skips({i \in Channel : rows[i].state # "absent"})]_vars
  <2> SUFFICES ASSUME Inv, [Next]_vars, NEW i \in Channel, rows[i].state = "open",
                      rows'[i].at # rows[i].at,
                      \A x \in posts : x.item = i => x.occurrence # rows[i].at
               PROVE  FALSE
    BY DEF Skips
  <2>0. i \in Items /\ i \in Leased /\ i \notin Scheduled /\ i # "none"
    BY Constants DEF Items, Leased
  <2>1. Settled(i)
    BY <2>0, StepEffect DEF Effect, RowStep, Kept, Made, Edited, Ended, Claimed, GivenUp
  <2>2. PICK p \in Processes : pc[p] = "ok" /\ cur[p] = i /\ Held(p, i)
    BY <2>0, <2>1 DEF Settled
  <2>3. p \in Workers
    BY <2>0, <2>2 DEF Inv, ProcInv, Processes
  <2>4. Posted(i, seen[p][i])
    BY <2>0, <2>2 DEF Inv, OkInv, Occurrence
  <2>5. rows[i].at = seen[p][i]
    BY <2>2, <2>3, Constants DEF Inv, SeenInv, Held, Owner
  <2> QED BY <2>4, <2>5 DEF Posted, Inv, PostInv
<1> QED
  BY <1>1, InvInit, InvNext, PTL DEF Spec, NoOccurrenceSkipped
=============================================================================
