----------------------------- MODULE SocketMode -----------------------------
(***************************************************************************)
(* Delivery to one Socket Mode app: the connection slots and the handler   *)
(* of internal/socketmode/socketmode.go over the leased rows of the store  *)
(* (socket_mode_connections, app_event_deliveries behind its cursor, and   *)
(* socket_mode_interactions).                                              *)
(*                                                                         *)
(* An item is an event record, which fans out into some envelopes (maybe   *)
(* none), or an interaction, which is its own envelope.  The handler of a  *)
(* connection is one goroutine; the app acknowledges an envelope late,     *)
(* twice or never.  Frames, payloads and the response journal are left     *)
(* out; an acknowledgement of an interaction carries its answer.           *)
(***************************************************************************)
EXTENDS Naturals, FiniteSets

CONSTANTS Connections,   \* connections of the app
          Spare,         \* those whose opening uses up the fault budget
          MaxEvents,     \* event records
          Interactions,  \* interactions
          Fanout,        \* Fanout[i]: envelopes of record i
          Limit,         \* SocketModeConnectionLimit
          InFlight,      \* maxInFlightInteractions
          MaxRetries,    \* maxDeliveryRetries
          MaxFaults      \* bound on stalls, deaths, store errors and spare connections

None == "none"

Events == 1..MaxEvents
Items  == Events \cup Interactions

ASSUME SocketModeAssumption ==
    /\ IsFiniteSet(Connections) /\ Spare \subseteq Connections /\ None \notin Connections
    /\ MaxEvents \in Nat /\ IsFiniteSet(Interactions) /\ Events \cap Interactions = {}
    /\ Fanout \in [Events -> Nat]
    /\ Limit \in Nat \ {0} /\ InFlight \in Nat \ {0}
    /\ MaxRetries \in Nat /\ MaxFaults \in Nat

\* events.SocketModeEnvelopes; an envelope's identity is the same on every attempt.
Envelopes(i) == IF i \in Events THEN {<<i, n>> : n \in 1..Fanout[i]} ELSE {<<i, 1>>}
AllEnvelopes == UNION {Envelopes(i) : i \in Items}

VARIABLES
    slot,      \* slot[c]: the row of socket_mode_connections
    up,        \* up[c]: a handler serves c
    held,      \* held[c]: items the handler has leased and not given up
    remaining, \* remaining[c]: envelopes of those not acknowledged yet
    row,       \* row[i]: delivery state of item i in the store
    cursor,    \* app_event_cursors.sequence
    acked,     \* envelopes whose acknowledgement a handler took
    answered,  \* interactions whose answer was applied
    resent,    \* acknowledged envelopes that were written again
    offers,    \* offers[i]: how often the envelopes of i were written
    hurt,      \* hurt[i]: faults that hit a delivery of i
    faults

handler == <<slot, up, held, remaining>>
history == <<acked, answered, resent, offers, hurt>>
vars    == <<handler, row, cursor, history, faults>>

TypeOK ==
    /\ slot \in [Connections -> {None, "issued", "active", "lapsed"}]
    /\ up \in [Connections -> BOOLEAN]
    /\ held \in [Connections -> SUBSET Items]
    /\ remaining \in [Connections -> SUBSET AllEnvelopes]
    /\ row \in [Items -> [state : {"new", "open", "acked", "dropped"},
                          owner : Connections \cup {None}, leased : BOOLEAN,
                          waiting : BOOLEAN, attempt : 0..MaxRetries,
                          delivered : SUBSET AllEnvelopes]]
    /\ cursor \in 0..MaxEvents
    /\ acked \in SUBSET AllEnvelopes /\ answered \in SUBSET Interactions
    /\ resent \in SUBSET AllEnvelopes
    /\ offers \in [Items -> Nat] /\ hurt \in [Items -> Nat]
    /\ faults \in 0..MaxFaults

NewRow == [state |-> "new", owner |-> None, leased |-> FALSE, waiting |-> FALSE,
           attempt |-> 0, delivered |-> {}]

Init ==
    /\ slot = [c \in Connections |-> None] /\ up = [c \in Connections |-> FALSE]
    /\ held = [c \in Connections |-> {}]
    /\ remaining = [c \in Connections |-> {}]
    /\ row = [i \in Items |-> NewRow] /\ cursor = 0
    /\ acked = {} /\ answered = {} /\ resent = {}
    /\ offers = [i \in Items |-> 0] /\ hurt = [i \in Items |-> 0]
    /\ faults = 0

-----------------------------------------------------------------------------
Fault(S) == /\ faults < MaxFaults /\ faults' = faults + 1
            /\ hurt' = [i \in Items |-> IF i \in S THEN hurt[i] + 1 ELSE hurt[i]]

Active == {c \in Connections : slot[c] = "active"}

\* A leased row answers only to its owner (leasedAppEventAttempt).
Owns(c, i) == row[i].owner = c /\ row[i].leased /\ row[i].state = "open"

Unacked(c, i) == remaining[c] \cap Envelopes(i)

\* Fully acknowledged, or nothing to send: the record is consumed before anything else.
Finished(c) == {i \in held[c] : Unacked(c, i) = {}}
Ready(c)    == up[c] /\ Finished(c) = {}

-----------------------------------------------------------------------------
(* Connections.                                                            *)

\* Open.
Open(c) ==
    /\ slot[c] = None /\ ~up[c]
    /\ Cardinality(Active) < Limit
    /\ IF c \in Spare THEN Fault({}) ELSE UNCHANGED <<faults, hurt>>
    /\ slot' = [slot EXCEPT ![c] = "issued"]
    /\ UNCHANGED <<up, held, remaining, row, cursor, acked, answered, resent, offers>>

\* Mutant: the limit is left to the check made when the ticket was issued.
DialUnchecked(c) ==
    /\ slot[c] = "issued"
    /\ slot' = [slot EXCEPT ![c] = "active"] /\ up' = [up EXCEPT ![c] = TRUE]
    /\ UNCHANGED <<held, remaining, row, cursor, history, faults>>

\* ConsumeSocketModeConnection under the admission lock; at the limit the ticket stays.
Dial(c) ==
    /\ slot[c] = "issued"
    /\ Cardinality(Active) < Limit
    /\ slot' = [slot EXCEPT ![c] = "active"] /\ up' = [up EXCEPT ![c] = TRUE]
    /\ UNCHANGED <<held, remaining, row, cursor, history, faults>>

\* A ticket nobody dialled, or the slot of a handler that died, runs out.
SlotExpires(c) ==
    /\ ~up[c] /\ slot[c] # None
    /\ slot' = [slot EXCEPT ![c] = None]
    /\ UNCHANGED <<up, held, remaining, row, cursor, history, faults>>

\* A stalled handler does not renew its slot in time.
SlotLapses(c) ==
    /\ up[c] /\ slot[c] = "active"
    /\ Fault({})
    /\ slot' = [slot EXCEPT ![c] = "lapsed"]
    /\ UNCHANGED <<up, held, remaining, row, cursor, acked, answered, resent, offers>>

\* What settle leaves in the store of an item that c held.
Settled(c, i) ==
    IF ~Owns(c, i) THEN row[i]
    ELSE IF row[i].attempt >= MaxRetries
    THEN [row[i] EXCEPT !.state = "dropped", !.owner = None, !.leased = FALSE]
    ELSE [row[i] EXCEPT !.owner = None, !.leased = FALSE, !.waiting = TRUE,
                        !.attempt = @ + 1, !.delivered = Envelopes(i) \ remaining[c]]

\* The handler returns (read error, refresh, a failed write): it settles what it holds
\* and releases its slot.
Shut(c) ==
    /\ up' = [up EXCEPT ![c] = FALSE] /\ slot' = [slot EXCEPT ![c] = None]
    /\ held' = [held EXCEPT ![c] = {}] /\ remaining' = [remaining EXCEPT ![c] = {}]
    /\ row' = [i \in Items |-> IF i \in held[c] THEN Settled(c, i) ELSE row[i]]

Close(c) == Ready(c) /\ Shut(c) /\ UNCHANGED <<cursor, history, faults>>

\* RenewSocketModeConnection refuses a lapsed slot; the handler disconnects.
Renew(c) == Ready(c) /\ slot[c] = "lapsed" /\ Shut(c) /\ UNCHANGED <<cursor, history, faults>>

\* The server dies; its leases and its slot stay until they run out.
Die(c) ==
    /\ up[c]
    /\ Fault(held[c])
    /\ up' = [up EXCEPT ![c] = FALSE] /\ held' = [held EXCEPT ![c] = {}]
    /\ remaining' = [remaining EXCEPT ![c] = {}]
    /\ UNCHANGED <<slot, row, cursor, acked, answered, resent, offers>>

-----------------------------------------------------------------------------
(* fill.                                                                   *)

\* Mutant: a record whose handler died stays with it.
DueReleased(i) == row[i].state = "open" /\ row[i].owner = None /\ ~row[i].waiting

Due(i) == row[i].state = "open" /\ ~row[i].leased /\ ~row[i].waiting

\* ClaimAppEvent: a due retry before the next record, the lowest first.
NextEvent(i) ==
    /\ i \in Events
    /\ \/ Due(i) /\ \A j \in Events : Due(j) => i <= j
       \/ i = cursor + 1 /\ \A j \in Events : ~Due(j)

\* ClaimSocketModeInteraction.
NextInteraction(i) ==
    i \in Interactions /\ (row[i].state = "new" \/ Due(i))

\* Mutant: the whole record is written again on a retry.
OweAll(i) == Envelopes(i)

\* undelivered: a retry repeats only what was not acknowledged.
Owed(i) == Envelopes(i) \ row[i].delivered

\* The item is leased and its envelopes are written.
Claim(c, i) ==
    /\ Ready(c)
    /\ \/ NextEvent(i) /\ held[c] \cap Events = {}
       \/ NextInteraction(i) /\ Cardinality(held[c] \cap Interactions) < InFlight
    /\ row' = [row EXCEPT ![i] = [@ EXCEPT !.state = "open", !.owner = c, !.leased = TRUE]]
    /\ cursor' = IF i \in Events /\ i > cursor THEN i ELSE cursor
    /\ held' = [held EXCEPT ![c] = @ \cup {i}]
    /\ remaining' = [remaining EXCEPT ![c] = @ \cup Owed(i)]
    /\ resent' = resent \cup (Owed(i) \cap acked)
    /\ offers' = [offers EXCEPT ![i] = @ + 1]
    /\ UNCHANGED <<slot, up, acked, answered, hurt, faults>>

-----------------------------------------------------------------------------
(* Acknowledgements and timeouts.                                          *)

\* An acknowledgement of an envelope the handler holds; an interaction's answer is
\* applied first.  Late and repeated ones are ignored.
Acknowledge(c, e) ==
    /\ Ready(c) /\ e \in remaining[c]
    /\ remaining' = [remaining EXCEPT ![c] = @ \ {e}]
    /\ acked' = acked \cup {e}
    /\ answered' = answered \cup ({e[1]} \cap Interactions)
    /\ UNCHANGED <<slot, up, held, row, cursor, resent, offers, hurt, faults>>

\* consume and skip: AckAppEvent or AckSocketModeInteraction; a lost lease is ignored.
Consume(c, i) ==
    /\ up[c] /\ i \in Finished(c)
    /\ row' = IF Owns(c, i)
              THEN [row EXCEPT ![i] = [@ EXCEPT !.state = "acked", !.owner = None,
                                                !.leased = FALSE]]
              ELSE row
    /\ held' = [held EXCEPT ![c] = @ \ {i}]
    /\ UNCHANGED <<slot, up, remaining, cursor, history, faults>>

\* The store cannot answer: the handler forgets the item and disconnects.
ConsumeFails(c, i) ==
    /\ up[c] /\ i \in Finished(c)
    /\ Fault({i})
    /\ up' = [up EXCEPT ![c] = FALSE] /\ slot' = [slot EXCEPT ![c] = None]
    /\ held' = [held EXCEPT ![c] = {}] /\ remaining' = [remaining EXCEPT ![c] = {}]
    /\ row' = [j \in Items |-> IF j \in held[c] \ {i} THEN Settled(c, j) ELSE row[j]]
    /\ UNCHANGED <<cursor, acked, answered, resent, offers>>

\* Mutant: a timeout is one more chance, whatever was tried before.
TimeoutForever(c, i) ==
    /\ Ready(c) /\ i \in held[c]
    /\ row' = IF Owns(c, i)
              THEN [row EXCEPT ![i] = [@ EXCEPT !.owner = None, !.leased = FALSE,
                                 !.waiting = TRUE, !.delivered = Envelopes(i) \ remaining[c]]]
              ELSE row
    /\ held' = [held EXCEPT ![c] = @ \ {i}]
    /\ remaining' = [remaining EXCEPT ![c] = @ \ Envelopes(i)]
    /\ UNCHANGED <<slot, up, cursor, history, faults>>

\* expired and expire: settle("ack_timeout").
Timeout(c, i) ==
    /\ Ready(c) /\ i \in held[c]
    /\ row' = [row EXCEPT ![i] = Settled(c, i)]
    /\ held' = [held EXCEPT ![c] = @ \ {i}]
    /\ remaining' = [remaining EXCEPT ![c] = @ \ Envelopes(i)]
    /\ UNCHANGED <<slot, up, cursor, history, faults>>

\* The handler is held up past the lease of an item.
LeaseLapses(c, i) ==
    /\ up[c] /\ i \in held[c] /\ Owns(c, i)
    /\ Fault({i})
    /\ row' = [row EXCEPT ![i].leased = FALSE]
    /\ UNCHANGED <<handler, cursor, acked, answered, resent, offers>>

\* The lease of an item its connection no longer knows of runs out.
LeaseExpires(i) ==
    /\ row[i].state = "open" /\ row[i].leased /\ i \notin held[row[i].owner]
    /\ row' = [row EXCEPT ![i].leased = FALSE]
    /\ UNCHANGED <<handler, cursor, history, faults>>

\* retryAt passes.
RetryDue(i) ==
    /\ row[i].waiting
    /\ row' = [row EXCEPT ![i].waiting = FALSE]
    /\ UNCHANGED <<handler, cursor, history, faults>>

-----------------------------------------------------------------------------
Serve(c) == \/ \E i \in Items : Claim(c, i) \/ Consume(c, i) \/ Timeout(c, i)
            \/ Renew(c)

Connect == \E c \in Connections : Open(c) \/ Dial(c)

Expiry == \/ \E c \in Connections : SlotExpires(c)
          \/ \E i \in Items : LeaseExpires(i) \/ RetryDue(i)

Next ==
    \/ Connect \/ Expiry
    \/ \E c \in Connections :
          \/ Serve(c) \/ Close(c) \/ SlotLapses(c) \/ Die(c)
          \/ \E e \in AllEnvelopes : Acknowledge(c, e)
          \/ \E i \in Items : ConsumeFails(c, i) \/ LeaseLapses(c, i)

Spec == Init /\ [][Next]_vars

\* The app keeps dialling, the handlers' loops run, leases and retry times run out.
FairSpec ==
    /\ Spec
    /\ WF_vars(\E c \in Connections : Open(c)) /\ SF_vars(\E c \in Connections : Dial(c))
    /\ SF_vars(\E c \in Connections : Serve(c))
    /\ WF_vars(\E c \in Connections : SlotExpires(c))
    /\ \A i \in Items : WF_vars(LeaseExpires(i) \/ RetryDue(i))

-----------------------------------------------------------------------------
\* However tickets are issued, dialled, lost and renewed, no more than the limit of
\* connections hold a slot.
WithinLimit == TypeOK /\ Cardinality(Active) <= Limit

\* What the store records as acknowledged was acknowledged by the app, envelope by
\* envelope over all attempts, and the answer to an interaction was applied.
AckedWasAcknowledged ==
    \A i \in Items : row[i].state = "acked" =>
        Envelopes(i) \subseteq acked /\ (i \in Interactions => i \in answered)

\* An item is dropped only after the promised number of deliveries, and none is
\* delivered more often, but for deliveries that a fault cut short.
RetriesAsPromised ==
    \A i \in Items :
        /\ row[i].state = "dropped" => offers[i] >= MaxRetries + 1
        /\ offers[i] <= MaxRetries + 1 + hurt[i]

\* A retry does not repeat an envelope the app acknowledged, and two connections hold
\* one item only, after a stall, a death or a store error.
NoNeedlessRepeat ==
    /\ \A e \in resent : hurt[e[1]] > 0
    /\ \A c, d \in Connections, i \in Items :
          c # d /\ i \in held[c] \cap held[d] => hurt[i] > 0

\* Together: an acknowledgement is taken once, from the app, and never asked for again.
AcksCountOnce == AckedWasAcknowledged /\ NoNeedlessRepeat

\* Every item ends: acknowledged, or dropped after its retries.
EveryItemEnds == \A i \in Items : <>(row[i].state \in {"acked", "dropped"})
=============================================================================
