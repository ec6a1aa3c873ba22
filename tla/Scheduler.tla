----------------------------- MODULE Scheduler ------------------------------
(***************************************************************************)
(* Timed work: scheduled messages (internal/scheduler/worker.go, their     *)
(* rows in internal/store/sqlstore, posting, sending now, rescheduling and *)
(* cancelling in internal/service/messages.go), channel reminders          *)
(* (reminders.go, todos.go) and the Web API's reminders                    *)
(* (reminder_delivery.go), delivered by workers that race with each other  *)
(* and with members.                                                       *)
(*                                                                         *)
(* A worker leases a batch but renews only the item it is posting          *)
(* (lease.While); posting is idempotent by a key naming the occurrence.    *)
(* The clock counts the instants at which something falls due; a lease or  *)
(* a retry time that passes is an action of its own.                       *)
(***************************************************************************)
EXTENDS Naturals, FiniteSets

CONSTANTS Workers,      \* delivery workers, by their unique owner name
          Senders,      \* calls of SendScheduledMessageNow
          Scheduled,    \* scheduled messages
          Channel,      \* channel reminders: leased like messages
          WebReminders, \* reminders.add: no lease, compare and set
          Limit,        \* the batch size
          MaxTime,      \* bound on the clock
          Together,     \* the sets of items a behaviour may create, a bound
          MaxEdits,     \* bound on accepted reschedules
          MaxFaults     \* bound on stalls, transient errors and crashes

ASSUME SchedulerAssumption ==
    /\ {Limit, MaxTime, MaxEdits, MaxFaults} \subseteq Nat /\ Limit > 0
    /\ Scheduled \cap Channel = {} /\ (Scheduled \cup Channel) \cap WebReminders = {}
    /\ Workers \cap Senders = {}
    /\ {"none", "send-now"} \cap (Workers \cup Senders) = {}
    /\ "none" \notin Scheduled \cup Channel \cup WebReminders
    /\ Together \subseteq SUBSET (Scheduled \cup Channel \cup WebReminders)

VARIABLES
    now,      \* the clock
    rows,     \* rows[i]: the stored item
    posts,    \* messages posted: item, occurrence, idempotency key, text version
    pc,       \* pc[p]: where a worker or a send-now call stands
    cur,      \* cur[p]: the item it deals with
    todo,     \* todo[w]: the rest of its batch
    seen,     \* seen[p][i]: due time of i when it was claimed or fetched
    text,     \* text[p]: text version read before posting
    stamp,    \* stamp[w]: the instant RunOnceAt was given
    refused,  \* occurrences the service refused for good
    barred,   \* messages refused with an error no failure code stands for
    edits, faults

vars == <<now, rows, posts, pc, cur, todo, seen, text, stamp, refused,
          barred, edits, faults>>

Items     == Scheduled \cup Channel \cup WebReminders
Leased    == Scheduled \cup Channel
Processes == Workers \cup Senders
Times     == 0..MaxTime + 1
Owner(p)  == IF p \in Senders THEN "send-now" ELSE p

RowRecords ==
    [state : {"absent", "open", "delivered", "failed", "complete", "deleted"},
     at : Times, text : 1..MaxEdits + 1, recurs : BOOLEAN,
     owner : Workers \cup {"none", "send-now"}, leased : BOOLEAN, waiting : BOOLEAN]

TypeOK ==
    /\ now \in 0..MaxTime /\ rows \in [Items -> RowRecords]
    /\ posts \subseteq [item : Items, occurrence : Times, key : Times, text : 1..MaxEdits + 1]
    /\ pc \in [Processes -> {"idle", "begin", "commit", "ok", "perm", "release",
                              "returned"}]
    /\ cur \in [Processes -> Items \cup {"none"}]
    /\ todo \in [Processes -> SUBSET Items]
    /\ seen \in [Processes -> [Items -> Times]]
    /\ text \in [Processes -> 0..MaxEdits + 1] /\ stamp \in [Processes -> Times]
    /\ refused \subseteq Items \X Times /\ barred \subseteq Scheduled
    /\ edits \in 0..MaxEdits /\ faults \in 0..MaxFaults

Init ==
    /\ now = 0
    /\ rows = [i \in Items |-> [state |-> "absent", at |-> 0, text |-> 1, recurs |-> FALSE,
                                owner |-> "none", leased |-> FALSE, waiting |-> FALSE]]
    /\ posts = {}
    /\ pc = [p \in Processes |-> "idle"] /\ cur = [p \in Processes |-> "none"]
    /\ todo = [p \in Processes |-> {}]
    /\ seen = [p \in Processes |-> [i \in Items |-> 0]]
    /\ text = [p \in Processes |-> 0] /\ stamp = [p \in Processes |-> 0]
    /\ refused = {} /\ barred = {} /\ edits = 0 /\ faults = 0

-----------------------------------------------------------------------------
\* The lease columns of an item nobody owns.
Free(row) == [row EXCEPT !.owner = "none", !.leased = FALSE]

\* Mutant: a renewed or marked row need only be leased, whoever holds it.
HeldByAnyone(p, i) == rows[i].leased /\ rows[i].state \in {"open", "failed"}

\* The condition of every update under a lease.
Held(p, i) == rows[i].leased /\ rows[i].owner = Owner(p) /\ rows[i].state \in {"open", "failed"}

\* The occurrence an item is delivered for: a scheduled message has one.
Occurrence(p, i) == IF i \in Scheduled THEN 0 ELSE seen[p][i]

\* Mutant: the key of a reminder names the instant it is delivered.
KeyOfInstant(p, i) == IF i \in Scheduled THEN 0 ELSE now

\* A scheduled message is posted under its own identifier, a reminder under its
\* identifier and the due time it was claimed with.
Key(p, i) == Occurrence(p, i)

Posted(i, k) == \E x \in posts : x.item = i /\ x.key = k

Post(p, i) == posts' = posts \cup {[item |-> i, occurrence |-> Occurrence(p, i),
                                    key |-> Key(p, i), text |-> text[p]]}

\* nextRecurrence: the first occurrence after the instant given (daily here).
NextDue(due, after) == IF due > after THEN due ELSE after + 1

Fault   == faults < MaxFaults /\ faults' = faults + 1
NoFault == UNCHANGED faults

Goto(p, l) == pc' = [pc EXCEPT ![p] = l]
Rest(p)    == Goto(p, IF p \in Senders THEN "returned" ELSE "idle")

Unposted == UNCHANGED posts
Members  == UNCHANGED <<now, barred, edits>>
Reading  == UNCHANGED <<seen, text, stamp, refused>>

-----------------------------------------------------------------------------
(* Members.                                                                *)

Created == {j \in Items : rows[j].state # "absent"}

\* ScheduleMessage, the reminder commands and reminders.add.  A second item takes
\* up the bound on faults.
Create(i, t, recurs) ==
    /\ rows[i].state = "absent" /\ \E S \in Together : Created \cup {i} \subseteq S
    /\ t > now /\ t <= MaxTime /\ (i \in Scheduled => ~recurs)
    /\ rows' = [rows EXCEPT ![i].state = "open", ![i].at = t, ![i].recurs = recurs]
    /\ \/ Created = {} /\ NoFault
       \/ Created # {} /\ faults = 0 /\ faults' = MaxFaults
    /\ UNCHANGED <<pc, cur, todo>> /\ Unposted /\ Reading /\ Members

\* UpdateScheduledMessageWithinLimit.
Reschedule(i, t) ==
    /\ i \in Scheduled /\ rows[i].state \in {"open", "failed"} /\ ~rows[i].leased
    /\ t > now /\ t <= MaxTime /\ edits < MaxEdits
    /\ rows' = [rows EXCEPT ![i].state = "open", ![i].at = t, ![i].text = @ + 1,
                            ![i].waiting = FALSE]
    /\ edits' = edits + 1
    /\ UNCHANGED <<now, barred, pc, cur, todo, faults>> /\ Unposted /\ Reading

\* DeleteScheduledMessageForCredential: not while leased, not once posted.
Cancel(i) ==
    /\ i \in Scheduled /\ rows[i].state \in {"open", "failed"} /\ ~rows[i].leased
    /\ ~Posted(i, 0)
    /\ rows' = [rows EXCEPT ![i] = [Free(@) EXCEPT !.state = "deleted"]]
    /\ UNCHANGED <<pc, cur, todo, faults>> /\ Unposted /\ Reading /\ Members

\* DeleteChannelReminder, DeleteReminder and CompleteReminder.
DeleteReminder(i) ==
    /\ i \notin Scheduled /\ rows[i].state \notin {"absent", "deleted"} /\ ~rows[i].leased
    /\ \E s \in IF i \in Channel THEN {"deleted"} ELSE {"deleted", "complete"} :
          rows' = [rows EXCEPT ![i] = [Free(@) EXCEPT !.state = s]]
    /\ UNCHANGED <<pc, cur, todo, faults>> /\ Unposted /\ Reading /\ Members

\* Posting in the channel is restricted or allowed again, the parent of a thread
\* is deleted, an upload expires: what refuses a message that waits, for now or
\* for ever, with an error permanentFailureCode does not list.
Restrict(i) ==
    /\ i \in Scheduled /\ rows[i].state \in {"open", "failed"}
    /\ barred' \in {barred \cup {i}, barred \ {i}}
    /\ UNCHANGED <<now, rows, pc, cur, todo, edits, faults>> /\ Unposted /\ Reading

-----------------------------------------------------------------------------
(* Taking work.                                                            *)

Due(i) == rows[i].state = "open" /\ rows[i].at <= now

\* Mutant: an item whose lease lapsed stays with its owner.
ClaimableUnowned(S) == {i \in S : Due(i) /\ rows[i].owner = "none" /\ ~rows[i].waiting}

Claimable(S) == {i \in S : Due(i) /\ ~rows[i].leased /\ ~rows[i].waiting}

Batches(S) ==
    {B \in SUBSET S : /\ B # {} /\ Cardinality(B) <= Limit
                      /\ Cardinality(B) < Limit => B = S
                      /\ \A i \in B, j \in S \ B : rows[i].at <= rows[j].at}

\* The batch is dealt with in the order of its due times.
Take(p, B) ==
    /\ seen' = [seen EXCEPT ![p] = [i \in Items |-> IF i \in B THEN rows[i].at ELSE @[i]]]
    /\ \E i \in B : /\ \A j \in B : rows[i].at <= rows[j].at
                    /\ cur' = [cur EXCEPT ![p] = i]
                    /\ todo' = [todo EXCEPT ![p] = B \ {i}]
    /\ Goto(p, "begin")

\* ClaimScheduledMessages and ClaimDueChannelReminders.
Claim(w, S) ==
    /\ w \in Workers /\ pc[w] = "idle"
    /\ \E B \in Batches(Claimable(S)) :
          /\ Take(w, B)
          /\ rows' = [i \in Items |-> IF i \in B
                         THEN [rows[i] EXCEPT !.owner = w, !.leased = TRUE] ELSE rows[i]]
    /\ UNCHANGED <<text, stamp, refused, faults>> /\ Unposted /\ Members

\* DueReminders: read without a lease, the instant fixed for the whole batch.
Fetch(w) ==
    /\ w \in Workers /\ pc[w] = "idle"
    /\ \E B \in Batches({i \in WebReminders : Due(i)}) : Take(w, B)
    /\ stamp' = [stamp EXCEPT ![w] = now]
    /\ UNCHANGED <<rows, text, refused, faults>> /\ Unposted /\ Members

\* ClaimScheduledMessageForCredential: due or not, failed or not.
ClaimNow(s, i) ==
    /\ s \in Senders /\ pc[s] = "idle" /\ i \in Scheduled
    /\ rows[i].state \in {"open", "failed"} /\ ~rows[i].leased
    /\ rows' = [rows EXCEPT ![i].owner = "send-now", ![i].leased = TRUE]
    /\ cur' = [cur EXCEPT ![s] = i] /\ Goto(s, "begin")
    /\ UNCHANGED <<todo, faults>> /\ Unposted /\ Reading /\ Members

-----------------------------------------------------------------------------
(* Posting: PostScheduledMessage and PostAsSlackbot under lease.While.     *)

\* Mutant: the author's rights are looked at before the idempotency key.
BeginChecksRightsFirst(p) ==
    /\ pc[p] = "begin"
    /\ LET i == cur[p] IN
          \/ Goto(p, "perm") /\ refused' = refused \cup {<<i, Occurrence(p, i)>>} /\ UNCHANGED text
          \/ i \in barred /\ Goto(p, "release") /\ UNCHANGED <<text, refused>>
          \/ /\ i \notin barred /\ Goto(p, IF Posted(i, Key(p, i)) THEN "ok" ELSE "commit")
             /\ text' = [text EXCEPT ![p] = rows[i].text]
             /\ UNCHANGED refused
    /\ UNCHANGED <<rows, cur, todo, seen, stamp, faults>> /\ Unposted /\ Members

\* A scheduled message is read again and answered from its idempotency key
\* before anything can refuse it, for good or for another try when its lease
\* would have ended.  A reminder's author is checked first; what
\* refuses a Web API reminder for good does not keep it from being claimed.
Begin(p) ==
    /\ pc[p] = "begin"
    /\ LET i == cur[p] IN
          \/ /\ i \in Scheduled /\ rows[i].state = "deleted"
             /\ Goto(p, "perm") /\ UNCHANGED <<text, refused>>
          \/ /\ i \in Scheduled /\ rows[i].state # "deleted" /\ Posted(i, 0)
             /\ Goto(p, "ok") /\ UNCHANGED <<text, refused>>
          \/ /\ i \in barred /\ rows[i].state # "deleted" /\ ~Posted(i, 0)
             /\ Goto(p, "release") /\ UNCHANGED <<text, refused>>
          \/ /\ i \in Scheduled => rows[i].state # "deleted" /\ ~Posted(i, 0)
             /\ \/ /\ Goto(p, IF i \in WebReminders THEN "ok" ELSE "perm")
                   /\ refused' = refused \cup {<<i, Occurrence(p, i)>>} /\ UNCHANGED text
                \/ /\ i \notin barred /\ Goto(p, "commit")
                   /\ text' = [text EXCEPT ![p] = rows[i].text] /\ UNCHANGED refused
    /\ UNCHANGED <<rows, cur, todo, seen, stamp, faults>> /\ Unposted /\ Members

\* CreateScheduledMessagePost and CreateMessage: one transaction over the
\* schedule row, the idempotency key and the message.
Commit(p) ==
    /\ pc[p] = "commit"
    /\ LET i == cur[p] IN
          \/ /\ i \in Scheduled /\ rows[i].state \in {"deleted", "delivered"}
             /\ Goto(p, "perm") /\ Unposted
          \/ /\ i \in Scheduled => rows[i].state \notin {"deleted", "delivered"}
             /\ Goto(p, "ok")
             /\ IF Posted(i, Key(p, i)) THEN Unposted ELSE Post(p, i)
    /\ UNCHANGED <<rows, cur, todo, faults>> /\ Reading /\ Members

\* The post failed and may be retried, or its outcome was lost.
PostFails(p) ==
    /\ pc[p] \in {"begin", "commit", "ok"} /\ Fault
    /\ Goto(p, "release")
    /\ UNCHANGED <<rows, cur, todo>> /\ Unposted /\ Reading /\ Members

\* A renewal found the lease gone: the post is cancelled, or its success is
\* reported as the lost lease.
LeaseLost(w) ==
    /\ w \in Workers /\ pc[w] \in {"commit", "ok"} /\ cur[w] \in Leased /\ ~Held(w, cur[w])
    /\ Goto(w, "release")
    /\ UNCHANGED <<rows, cur, todo, faults>> /\ Unposted /\ Reading /\ Members

-----------------------------------------------------------------------------
(* Settling an item.                                                       *)

\* On to the next item of the batch.
Leave(p) ==
    /\ stamp' = IF todo[p] = {} THEN [stamp EXCEPT ![p] = 0] ELSE stamp
    /\ text' = [text EXCEPT ![p] = 0]
    /\ \/ /\ todo[p] = {}
          /\ Rest(p) /\ cur' = [cur EXCEPT ![p] = "none"]
          /\ seen' = [seen EXCEPT ![p] = [i \in Items |-> 0]]
          /\ UNCHANGED todo
       \/ \E i \in todo[p] :
             /\ \A j \in todo[p] : seen[p][i] <= seen[p][j]
             /\ Goto(p, "begin") /\ cur' = [cur EXCEPT ![p] = i]
             /\ todo' = [todo EXCEPT ![p] = @ \ {i}]
             /\ UNCHANGED seen

\* The row after a delivery at instant t: a recurring reminder moves on.
Delivered(p, i, t) ==
    LET row == [Free(rows[i]) EXCEPT !.waiting = FALSE] IN
    IF row.recurs THEN [row EXCEPT !.at = NextDue(seen[p][i], t)]
    ELSE [row EXCEPT !.state = "delivered"]

\* MarkReminderDelivered: due_at <= deliveredAt is the compare of the swap.
MarkReminder(p) ==
    /\ pc[p] = "ok" /\ cur[p] \in WebReminders
    /\ LET i == cur[p] IN
          rows' = IF rows[i].state \in {"open", "complete"} /\ rows[i].at <= stamp[p]
                  THEN [rows EXCEPT ![i] = Delivered(p, i, stamp[p])] ELSE rows
    /\ Leave(p)
    /\ UNCHANGED <<refused, faults>> /\ Unposted /\ Members

\* MarkScheduledMessageDelivered and MarkChannelReminderDelivered.
MarkDelivered(p) ==
    /\ pc[p] = "ok" /\ cur[p] \in Leased
    /\ LET i == cur[p] IN
          \/ /\ Held(p, i) /\ NoFault
             /\ rows' = [rows EXCEPT ![i] = Delivered(p, i, now)]
          \/ (IF Held(p, i) THEN Fault ELSE NoFault) /\ UNCHANGED rows
    /\ Leave(p)
    /\ UNCHANGED refused /\ Unposted /\ Members

\* MarkScheduledMessageFailed, MarkChannelReminderFailed: what cannot be marked
\* is released.  A send-now call only releases.
MarkFailed(p) ==
    /\ pc[p] = "perm"
    /\ LET i == cur[p] IN
          \/ /\ p \in Workers /\ Held(p, i) /\ rows[i].state = "open" /\ NoFault
             /\ rows' = [rows EXCEPT ![i] = [Free(@) EXCEPT !.state = "failed", !.waiting = FALSE]]
             /\ Leave(p)
          \/ /\ IF p \in Workers /\ Held(p, i) /\ rows[i].state = "open" THEN Fault ELSE NoFault
             /\ Goto(p, "release")
             /\ UNCHANGED <<rows, cur, todo, seen, text, stamp>>
    /\ UNCHANGED refused /\ Unposted /\ Members

\* ReleaseScheduledMessage, ReleaseChannelReminder; nothing holds a Web API
\* reminder.  A send-now call releases to the original time.
Release(p) ==
    /\ pc[p] = "release"
    /\ LET i == cur[p] IN
          \/ /\ i \in Leased /\ Held(p, i) /\ NoFault
             /\ rows' = [rows EXCEPT ![i] = [Free(@) EXCEPT !.waiting = (p \in Workers)]]
          \/ (IF i \in Leased /\ Held(p, i) THEN Fault ELSE NoFault) /\ UNCHANGED rows
    /\ Leave(p)
    /\ UNCHANGED refused /\ Unposted /\ Members

-----------------------------------------------------------------------------
(* The environment.                                                        *)

Tick ==
    /\ now < MaxTime /\ now' = now + 1
    /\ UNCHANGED <<rows, barred, pc, cur, todo, edits, faults>> /\ Unposted /\ Reading

Lapsed(i) == rows' = [rows EXCEPT ![i].leased = FALSE]

\* A lease nobody renews lapses: the tail of a batch, what a dead worker left.
Lapse(i) ==
    /\ rows[i].leased /\ \A p \in Processes : Owner(p) = rows[i].owner => cur[p] # i
    /\ Lapsed(i)
    /\ UNCHANGED <<pc, cur, todo, faults>> /\ Unposted /\ Reading /\ Members

\* A worker, or a call of a minute and more, stalls past its lease.
Stall(p) ==
    /\ cur[p] \in Leased /\ Held(p, cur[p]) /\ Fault
    /\ Lapsed(cur[p])
    /\ UNCHANGED <<pc, cur, todo>> /\ Unposted /\ Reading /\ Members

\* next_attempt_at passes.
RetryDue(i) ==
    /\ rows[i].waiting
    /\ rows' = [rows EXCEPT ![i].waiting = FALSE]
    /\ UNCHANGED <<pc, cur, todo, faults>> /\ Unposted /\ Reading /\ Members

\* The process dies, or its context ends between two items.
Crash(p) ==
    /\ cur[p] # "none" /\ Fault
    /\ Rest(p) /\ cur' = [cur EXCEPT ![p] = "none"]
    /\ todo' = [todo EXCEPT ![p] = {}]
    /\ seen' = [seen EXCEPT ![p] = [i \in Items |-> 0]]
    /\ text' = [text EXCEPT ![p] = 0] /\ stamp' = [stamp EXCEPT ![p] = 0]
    /\ UNCHANGED <<rows, refused>> /\ Unposted /\ Members

Elapse == Tick \/ \E i \in Items : Lapse(i) \/ RetryDue(i)

Step(p) == Begin(p) \/ Commit(p) \/ LeaseLost(p) \/ MarkDelivered(p) \/ MarkReminder(p)
           \/ MarkFailed(p) \/ Release(p)
Work(w) == Claim(w, Scheduled) \/ Claim(w, Channel) \/ Fetch(w)

Next ==
    \/ \E i \in Items : \/ \E t \in Times, r \in BOOLEAN : Create(i, t, r)
                        \/ \E t \in Times : Reschedule(i, t)
                        \/ Cancel(i) \/ DeleteReminder(i) \/ Restrict(i)
                        \/ \E s \in Senders : ClaimNow(s, i)
    \/ \E p \in Processes : Step(p) \/ Work(p) \/ PostFails(p) \/ Stall(p) \/ Crash(p)
    \/ Elapse

Spec == Init /\ [][Next]_vars

\* Workers run their cycle, calls return, time passes: the clock, and the lease or
\* retry time of every item.
Fairness == /\ WF_vars(Tick)
            /\ \A i \in Items : WF_vars(Lapse(i) \/ RetryDue(i))
            /\ \A p \in Processes : WF_vars(Step(p) \/ Work(p))

FairSpec == Spec /\ Fairness

-----------------------------------------------------------------------------
(* Properties.                                                             *)

\* A scheduled message whose cancellation was accepted is never posted, before
\* or after: the deletion and the post look at each other's rows.
CancelledNeverPosted == \A i \in Scheduled : rows[i].state = "deleted" => ~Posted(i, 0)

\* A scheduled message is marked delivered only if it was posted, whoever marks
\* it under whichever lease.
DeliveredWasPosted == \A i \in Scheduled : rows[i].state = "delivered" => Posted(i, 0)

\* An occurrence is posted at most once, however often it is claimed, by whoever.
OnePostPerOccurrence ==
    \A x, y \in posts : x.item = y.item /\ x.occurrence = y.occurrence => x = y

\* Together, over well-typed rows: one message per occurrence, none that was called
\* off, and nothing recorded as delivered without it.
PostsAreDeliveries ==
    TypeOK /\ CancelledNeverPosted /\ DeliveredWasPosted /\ OnePostPerOccurrence

\* An open reminder of S leaves an occurrence only once that was posted or refused.
Skips(S) ==
    \E i \in S : /\ rows[i].state = "open" /\ rows'[i].at # rows[i].at
                 /\ <<i, rows[i].at>> \notin refused
                 /\ \A x \in posts : x.item = i => x.occurrence # rows[i].at

\* No stale worker moves a recurring channel reminder past an occurrence nobody
\* was reminded of.
NoOccurrenceSkipped == [][~Skips({i \in Channel : rows[i].state # "absent"})]_vars

\* What is due is dealt with in the end: delivered, moved on, failed or withdrawn,
\* whatever crashed, stalled or was released meanwhile; a message that is refused
\* without a failure code, once that has an end.
NothingForgotten == \A i \in Items : Due(i) ~> (~Due(i) \/ i \in barred)

Unattended(i) == \A p \in Processes : cur[p] # i /\ i \notin todo[p]

\* A post nobody recorded, because the worker died or could not mark it, is in
\* the end recorded as delivered, even if its author lost the right to post.
PostIsRecorded ==
    \A i \in Scheduled :
        (rows[i].state = "open" /\ Posted(i, 0) /\ Unattended(i)) ~> (rows[i].state = "delivered")
=============================================================================
