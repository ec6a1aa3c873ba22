-------------------------- MODULE SocketModeProofs --------------------------
(***************************************************************************)
(* Proofs about SocketMode for any set of connections, records and         *)
(* interactions, any fan-out, limits and number of faults: the slots stay  *)
(* within the limit, an item is offered as often as promised, and an       *)
(* acknowledgement counts once.                                            *)
(***************************************************************************)
EXTENDS SocketMode, FiniteSetTheorems, TLAPS

-----------------------------------------------------------------------------
(* The inductive invariant.                                                *)

\* A row nobody claimed is behind the cursor and held by nobody; a leased one is
\* open and has an owner.
RowInv ==
    \A i \in Items :
        /\ row[i].leased => row[i].state = "open" /\ row[i].owner \in Connections
        /\ row[i].state = "new" =>
              /\ ~row[i].leased /\ row[i].attempt = 0 /\ row[i].delivered = {} /\ offers[i] = 0
              /\ \A c \in Connections : i \notin held[c]
        /\ i \in Events => (i <= cursor <=> row[i].state # "new")

\* A handler waits for envelopes of what it holds, and what it no longer waits for,
\* like what a row has as delivered, was acknowledged.
HeldInv ==
    /\ \A c \in Connections : \A e \in remaining[c] : e[1] \in held[c]
    /\ \A c \in Connections : \A i \in held[c] : Envelopes(i) \ remaining[c] \subseteq acked
    /\ \A i \in Items : row[i].delivered \subseteq acked
    /\ \A e \in acked : e[1] \in Interactions => e[1] \in answered

\* A delivery is under way, or was the last one.
Counted(i) ==
    \/ row[i].state \in {"acked", "dropped"}
    \/ row[i].leased /\ i \in held[row[i].owner]

\* An offer is an attempt on record, the one under way, or was cut short by a fault.
CountInv ==
    \A i \in Items :
        /\ offers[i] <= row[i].attempt + hurt[i] + (IF Counted(i) THEN 1 ELSE 0)
        /\ offers[i] >= row[i].attempt + (IF row[i].leased THEN 1 ELSE 0)
        /\ row[i].state = "dropped" => offers[i] >= MaxRetries + 1

\* Until a fault hits an item, whoever holds it has it leased and waits for nothing
\* that was acknowledged; at rest, the row knows of every acknowledgement.
CalmInv ==
    \A i \in Items : hurt[i] = 0 =>
        /\ \A c \in Connections : i \in held[c] => Owns(c, i) /\ Unacked(c, i) \cap acked = {}
        /\ row[i].leased => i \in held[row[i].owner]
        /\ row[i].state \in {"new", "open"} /\ ~row[i].leased =>
              Envelopes(i) \cap acked \subseteq row[i].delivered
        /\ \A e \in resent : e[1] # i

Inv == WithinLimit /\ RowInv /\ HeldInv /\ CountInv /\ CalmInv /\ AckedWasAcknowledged

-----------------------------------------------------------------------------
(* Envelopes and rows.                                                     *)

\* An envelope belongs to one item.
LEMMA EnvelopeFacts ==
    /\ \A i \in Items : Envelopes(i) \subseteq AllEnvelopes
    /\ \A i \in Items : \A e \in Envelopes(i) : e[1] = i
    /\ \A e \in AllEnvelopes : e[1] \in Items /\ e \in Envelopes(e[1])
    /\ \A i \in Interactions : i \in Items /\ <<i, 1>> \in Envelopes(i) /\ <<i, 1>>[1] = i
    /\ \A i \in Events : i \in Items
<1>1. \A i \in Items : Envelopes(i) \subseteq AllEnvelopes
  BY DEF AllEnvelopes
<1>2. \A i \in Items : \A e \in Envelopes(i) : e[1] = i
  BY DEF Envelopes
<1>3. \A e \in AllEnvelopes : \E i \in Items : e \in Envelopes(i)
  BY DEF AllEnvelopes
<1>4. \A i \in Interactions : i \in Items /\ <<i, 1>> \in Envelopes(i) /\ <<i, 1>>[1] = i
  BY SocketModeAssumption DEF Envelopes, Items
<1>5. \A i \in Events : i \in Items
  BY DEF Items
<1> QED BY <1>1, <1>2, <1>3, <1>4, <1>5

Rows == [state : {"new", "open", "acked", "dropped"},
         owner : Connections \cup {None}, leased : BOOLEAN,
         waiting : BOOLEAN, attempt : 0..MaxRetries,
         delivered : SUBSET AllEnvelopes]

\* What settle leaves of a row the handler of c had leased.
Returned(c, j, r) ==
    /\ r.owner = None /\ ~r.leased
    /\ \/ /\ row[j].attempt = MaxRetries /\ r.state = "dropped"
          /\ r.attempt = row[j].attempt /\ r.delivered = row[j].delivered
       \/ /\ r.state = "open" /\ r.attempt = row[j].attempt + 1
          /\ r.delivered = Envelopes(j) \ remaining[c]

LEMMA SettledRow ==
    ASSUME TypeOK, NEW c \in Connections, NEW j \in Items
    PROVE  /\ Settled(c, j) \in Rows
           /\ ~Owns(c, j) => Settled(c, j) = row[j]
           /\ Owns(c, j) => Returned(c, j, Settled(c, j))
<1>1. row[j] \in Rows /\ MaxRetries \in Nat
  BY SocketModeAssumption DEF TypeOK, Rows
<1>2. CASE ~Owns(c, j)
  BY <1>1, <1>2 DEF Settled
<1>3. CASE Owns(c, j) /\ row[j].attempt >= MaxRetries
  <2> DEFINE r == [row[j] EXCEPT !.state = "dropped", !.owner = None, !.leased = FALSE]
  <2>1. Settled(c, j) = r
    BY <1>3 DEF Settled
  <2>2. r \in Rows
    BY <1>1 DEF Rows
  <2>3. /\ r.owner = None /\ ~r.leased /\ r.state = "dropped"
        /\ r.attempt = row[j].attempt /\ r.delivered = row[j].delivered
    BY <1>1 DEF Rows
  <2>4. row[j].attempt = MaxRetries
    BY <1>1, <1>3 DEF Rows
  <2> HIDE DEF r
  <2> QED BY <1>3, <2>1, <2>2, <2>3, <2>4 DEF Returned
<1>4. CASE Owns(c, j) /\ ~(row[j].attempt >= MaxRetries)
  <2> DEFINE r == [row[j] EXCEPT !.owner = None, !.leased = FALSE, !.waiting = TRUE,
                                 !.attempt = @ + 1, !.delivered = Envelopes(j) \ remaining[c]]
  <2>1. Settled(c, j) = r
    BY <1>4 DEF Settled
  <2>2. row[j].attempt + 1 \in 0..MaxRetries
        /\ Envelopes(j) \ remaining[c] \in SUBSET AllEnvelopes
    BY <1>1, <1>4, EnvelopeFacts DEF Rows
  <2>3. r \in Rows
    BY <1>1, <2>2 DEF Rows
  <2>4. /\ r.owner = None /\ ~r.leased /\ r.state = row[j].state
        /\ r.attempt = row[j].attempt + 1 /\ r.delivered = Envelopes(j) \ remaining[c]
    BY <1>1 DEF Rows
  <2> HIDE DEF r
  <2> QED BY <1>4, <2>1, <2>3, <2>4 DEF Returned, Owns
<1> QED BY <1>2, <1>3, <1>4

-----------------------------------------------------------------------------
(* The kinds of step there are.                                            *)

Others(i) == \A j \in Items : j # i => row'[j] = row[j]

\* Nothing but slots, the fault budget and retry times changes.
Idles ==
    /\ \A j \in Items :
          /\ row'[j].state = row[j].state /\ row'[j].owner = row[j].owner
          /\ (row'[j].leased <=> row[j].leased) /\ row'[j].attempt = row[j].attempt
          /\ row'[j].delivered = row[j].delivered
    /\ UNCHANGED <<held, remaining, cursor, history>>

\* The handler of c gives up the items G: it settles those in S, and a fault hits
\* the rest.
GivesUp(c, G, S) ==
    /\ G \subseteq held[c] /\ S \subseteq G
    /\ \A j \in Items : IF j \in S
        /\ Owns(c, j) THEN Returned(c, j, row'[j]) ELSE row'[j] = row[j]
    /\ held' = [held EXCEPT ![c] = held[c] \ G]
    /\ \A d \in Connections : d # c => remaining'[d] = remaining[d]
    /\ remaining'[c] = {e \in remaining[c] : e[1] \notin G}
    /\ \A j \in Items : hurt'[j] = IF j \in G /\ j \notin S THEN hurt[j] + 1 ELSE hurt[j]
    /\ UNCHANGED <<cursor, acked, answered, resent, offers>>

Claims(c, i) ==
    /\ row[i].state \in {"new", "open"} /\ ~row[i].leased
    /\ row'[i].state = "open" /\ row'[i].owner = c /\ row'[i].leased
    /\ row'[i].attempt = row[i].attempt /\ row'[i].delivered = row[i].delivered
    /\ Others(i)
    /\ \/ cursor' = cursor /\ (i \in Events => i <= cursor)
       \/ i \in Events /\ i = cursor + 1 /\ cursor' = i
    /\ held' = [held EXCEPT ![c] = held[c] \cup {i}]
    /\ remaining' = [remaining EXCEPT ![c] = remaining[c] \cup Owed(i)]
    /\ resent' = resent \cup (Owed(i) \cap acked)
    /\ offers' = [offers EXCEPT ![i] = offers[i] + 1]
    /\ UNCHANGED <<acked, answered, hurt>>

Consumes(c, i) ==
    /\ i \in held[c] /\ Unacked(c, i) = {}
    /\ \/ /\ Owns(c, i) /\ row'[i].state = "acked" /\ ~row'[i].leased
          /\ row'[i].attempt = row[i].attempt /\ row'[i].delivered = row[i].delivered
       \/ ~Owns(c, i) /\ row'[i] = row[i]
    /\ Others(i)
    /\ held' = [held EXCEPT ![c] = held[c] \ {i}]
    /\ UNCHANGED <<remaining, cursor, history>>

\* The lease of i runs out: nobody knows of it, or a fault hits the item.
Unleases(i) ==
    /\ row[i].leased /\ ~row'[i].leased /\ row'[i].state = row[i].state
    /\ row'[i].attempt = row[i].attempt /\ row'[i].delivered = row[i].delivered
    /\ Others(i)
    /\ \A j \in Items : j # i => hurt'[j] = hurt[j]
    /\ \/ i \notin held[row[i].owner] /\ hurt'[i] = hurt[i]
       \/ hurt'[i] = hurt[i] + 1
    /\ UNCHANGED <<held, remaining, cursor, acked, answered, resent, offers>>

Acknowledges(c, e) ==
    /\ e \in remaining[c] /\ e \in AllEnvelopes
    /\ remaining' = [remaining EXCEPT ![c] = remaining[c] \ {e}]
    /\ acked' = acked \cup {e}
    /\ answered' = answered \cup ({e[1]} \cap Interactions)
    /\ UNCHANGED <<held, row, cursor, resent, offers, hurt>>

Kind ==
    \/ Idles
    \/ \E c \in Connections : \E G, S \in SUBSET Items : GivesUp(c, G, S)
    \/ \E c \in Connections, i \in Items : Claims(c, i) \/ Consumes(c, i)
    \/ \E i \in Items : Unleases(i)
    \/ \E c \in Connections, e \in AllEnvelopes : Acknowledges(c, e)

\* Close, Renew, a death and a failed consume give up everything.
LEMMA ShutKind ==
    ASSUME TypeOK, HeldInv, NEW c \in Connections, NEW S \in SUBSET Items, S \subseteq held[c],
           row' = [j \in Items |-> IF j \in S THEN Settled(c, j) ELSE row[j]],
           held' = [held EXCEPT ![c] = {}], remaining' = [remaining EXCEPT ![c] = {}],
           \A j \in Items : hurt'[j] = IF j \in held[c]
           /\ j \notin S THEN hurt[j] + 1 ELSE hurt[j],
           UNCHANGED <<cursor, acked, answered, resent, offers>>
    PROVE  GivesUp(c, held[c], S) /\ row' \in [Items -> Rows]
<1>1. \A j \in Items : IF j \in S /\ Owns(c, j) THEN Returned(c, j, row'[j]) ELSE row'[j] = row[j]
  BY SettledRow
<1>2. row' \in [Items -> Rows]
  BY SettledRow DEF TypeOK, Rows
<1>3. /\ \A d \in Connections : d # c => remaining'[d] = remaining[d]
      /\ remaining'[c] = {e \in remaining[c] : e[1] \notin held[c]}
  BY DEF TypeOK, HeldInv
<1>4. held' = [held EXCEPT ![c] = held[c] \ held[c]]
  <2>1. held[c] \ held[c] = {} OBVIOUS
  <2> QED BY <2>1
<1> QED BY <1>1, <1>2, <1>3, <1>4 DEF GivesUp

LEMMA CloseKind ==
    ASSUME TypeOK, HeldInv, NEW c \in Connections, Close(c) \/ Renew(c)
    PROVE  GivesUp(c, held[c], held[c]) /\ row' \in [Items -> Rows] /\ held[c] \in SUBSET Items
<1>1. held[c] \in SUBSET Items
  BY DEF TypeOK
<1> QED BY <1>1, ShutKind DEF Close, Renew, Shut, history

LEMMA DieKind ==
    ASSUME TypeOK, HeldInv, NEW c \in Connections, Die(c)
    PROVE  GivesUp(c, held[c], {}) /\ held[c] \in SUBSET Items
<1>1. held[c] \in SUBSET Items /\ {} \in SUBSET Items
  BY DEF TypeOK
<1>2. row' = [j \in Items |-> IF j \in {} THEN Settled(c, j) ELSE row[j]]
  BY DEF Die, TypeOK
<1>3. \A j \in Items : hurt'[j] = IF j \in held[c] /\ j \notin {} THEN hurt[j] + 1 ELSE hurt[j]
  BY DEF Die, Fault
<1> QED BY <1>1, <1>2, <1>3, ShutKind DEF Die

LEMMA ConsumeFailsKind ==
    ASSUME TypeOK, HeldInv, NEW c \in Connections, NEW i \in Items, ConsumeFails(c, i)
    PROVE  GivesUp(c, held[c], held[c] \ {i}) /\ row' \in [Items -> Rows]
           /\ held[c] \in SUBSET Items
<1>1. held[c] \in SUBSET Items /\ i \in held[c]
  BY DEF TypeOK, ConsumeFails, Finished
<1>2. \A j \in Items : hurt'[j] = IF j \in held[c]
      /\ j \notin held[c] \ {i} THEN hurt[j] + 1 ELSE hurt[j]
  BY <1>1 DEF ConsumeFails, Fault
<1> DEFINE S == held[c] \ {i}
<1>3. row' = [j \in Items |-> IF j \in S THEN Settled(c, j) ELSE row[j]]
  BY DEF ConsumeFails
<1>4. S \in SUBSET Items /\ S \subseteq held[c]
  BY <1>1
<1>5. /\ held' = [held EXCEPT ![c] = {}] /\ remaining' = [remaining EXCEPT ![c] = {}]
      /\ UNCHANGED <<cursor, acked, answered, resent, offers>>
  BY DEF ConsumeFails
<1>6. \A j \in Items : hurt'[j] = IF j \in held[c] /\ j \notin S THEN hurt[j] + 1 ELSE hurt[j]
  BY <1>2
<1>7. GivesUp(c, held[c], S) /\ row' \in [Items -> Rows]
  <2> HIDE DEF S
  <2> QED BY <1>3, <1>4, <1>5, <1>6, ShutKind
<1> QED BY <1>1, <1>7

\* A timeout gives up one item.
LEMMA TimeoutKind ==
    ASSUME TypeOK, HeldInv, NEW c \in Connections, NEW i \in Items, Timeout(c, i)
    PROVE  GivesUp(c, {i}, {i}) /\ row' \in [Items -> Rows]
<1>1. i \in held[c] /\ row' = [row EXCEPT ![i] = Settled(c, i)] /\ UNCHANGED <<cursor, history>>
  BY DEF Timeout
<1>2. \A j \in Items : IF j \in {i}
      /\ Owns(c, j) THEN Returned(c, j, row'[j]) ELSE row'[j] = row[j]
  BY <1>1, SettledRow DEF TypeOK
<1>3. row' \in [Items -> Rows]
  BY <1>1, SettledRow DEF TypeOK, Rows
<1>4. \A e \in AllEnvelopes : e \in Envelopes(i) <=> e[1] = i
  BY EnvelopeFacts
<1>5. /\ \A d \in Connections : d # c => remaining'[d] = remaining[d]
      /\ remaining'[c] = {e \in remaining[c] : e[1] \notin {i}}
  BY <1>4 DEF Timeout, TypeOK
<1>6. held' = [held EXCEPT ![c] = held[c] \ {i}]
  BY DEF Timeout
<1> QED BY <1>1, <1>2, <1>3, <1>5, <1>6 DEF GivesUp, history

\* A claim takes a row nobody has leased; a new record is the one after the cursor.
LEMMA ClaimKind ==
    ASSUME TypeOK, RowInv, NEW c \in Connections, NEW i \in Items, Claim(c, i)
    PROVE  Claims(c, i) /\ row' \in [Items -> Rows]
<1>1. row[i] \in Rows /\ cursor \in Nat
  BY DEF TypeOK, Rows
<1>2. row[i].state \in {"new", "open"} /\ ~row[i].leased
  <2>1. CASE NextInteraction(i)
    BY <2>1 DEF NextInteraction, Due, RowInv
  <2>2. CASE NextEvent(i)
    <3>1. CASE Due(i)
      BY <3>1 DEF Due
    <3>2. CASE i = cursor + 1
      BY <1>1, <2>2, <3>2 DEF NextEvent, RowInv
    <3> QED BY <2>2, <3>1, <3>2 DEF NextEvent
  <2> QED BY <2>1, <2>2 DEF Claim
<1>3. \/ cursor' = cursor /\ (i \in Events => i <= cursor)
      \/ i \in Events /\ i = cursor + 1 /\ cursor' = i
  <2>1. cursor' = IF i \in Events /\ i > cursor THEN i ELSE cursor
    BY DEF Claim
  <2>2. CASE i \notin Events
    BY <2>1, <2>2
  <2>3. CASE i \in Events
    <3>1. i \in Nat
      BY <2>3, SocketModeAssumption DEF Events
    <3>2. NextEvent(i)
      BY <2>3, SocketModeAssumption DEF Claim, NextInteraction
    <3>3. i = cursor + 1 \/ i <= cursor
      BY <2>3, <3>2 DEF NextEvent, Due, RowInv
    <3> QED BY <1>1, <2>1, <2>3, <3>1, <3>3
  <2> QED BY <2>2, <2>3
<1> DEFINE r == [row[i] EXCEPT !.state = "open", !.owner = c, !.leased = TRUE]
<1>4. row' = [row EXCEPT ![i] = r]
  BY DEF Claim
<1>5. r \in Rows
  BY <1>1 DEF Rows
<1>6. /\ r.state = "open" /\ r.owner = c /\ r.leased
      /\ r.attempt = row[i].attempt /\ r.delivered = row[i].delivered
  BY <1>1 DEF Rows
<1> HIDE DEF r
<1>7. row'[i] = r /\ Others(i) /\ row' \in [Items -> Rows]
  BY <1>4, <1>5 DEF TypeOK, Rows, Others
<1>8. /\ held' = [held EXCEPT ![c] = held[c] \cup {i}]
      /\ remaining' = [remaining EXCEPT ![c] = remaining[c] \cup Owed(i)]
      /\ resent' = resent \cup (Owed(i) \cap acked)
      /\ offers' = [offers EXCEPT ![i] = offers[i] + 1]
      /\ UNCHANGED <<acked, answered, hurt>>
  BY DEF Claim
<1> QED BY <1>2, <1>3, <1>6, <1>7, <1>8 DEF Claims

LEMMA ConsumeKind ==
    ASSUME TypeOK, NEW c \in Connections, NEW i \in Items, Consume(c, i)
    PROVE  Consumes(c, i) /\ row' \in [Items -> Rows]
<1>1. row[i] \in Rows /\ row \in [Items -> Rows]
  BY DEF TypeOK, Rows
<1>2. /\ i \in held[c] /\ Unacked(c, i) = {}
      /\ held' = [held EXCEPT ![c] = held[c] \ {i}] /\ UNCHANGED <<remaining, cursor, history>>
  BY DEF Consume, Finished
<1>3. CASE ~Owns(c, i)
  BY <1>1, <1>2, <1>3 DEF Consume, Consumes, Others
<1>4. CASE Owns(c, i)
  <2> DEFINE r == [row[i] EXCEPT !.state = "acked", !.owner = None, !.leased = FALSE]
  <2>1. row' = [row EXCEPT ![i] = r]
    BY <1>4 DEF Consume
  <2>2. r \in Rows
    BY <1>1 DEF Rows
  <2>3. r.state = "acked" /\ ~r.leased /\ r.attempt = row[i].attempt
        /\ r.delivered = row[i].delivered
    BY <1>1 DEF Rows
  <2> HIDE DEF r
  <2>4. row'[i] = r /\ Others(i) /\ row' \in [Items -> Rows]
    BY <1>1, <2>1, <2>2 DEF Others
  <2> QED BY <1>2, <1>4, <2>3, <2>4 DEF Consumes
<1> QED BY <1>3, <1>4

\* A lease runs out.
LEMMA UnleasedRow ==
    ASSUME TypeOK, NEW i \in Items, row' = [row EXCEPT ![i].leased = FALSE]
    PROVE  /\ ~row'[i].leased /\ row'[i].state = row[i].state
           /\ row'[i].attempt = row[i].attempt /\ row'[i].delivered = row[i].delivered
           /\ Others(i) /\ row' \in [Items -> Rows]
<1>1. row[i] \in Rows /\ row \in [Items -> Rows]
  BY DEF TypeOK, Rows
<1> DEFINE r == [row[i] EXCEPT !.leased = FALSE]
<1>2. row' = [row EXCEPT ![i] = r]
  OBVIOUS
<1>3. r \in Rows /\ ~r.leased /\ r.state = row[i].state
      /\ r.attempt = row[i].attempt /\ r.delivered = row[i].delivered
  BY <1>1 DEF Rows
<1> HIDE DEF r
<1> QED BY <1>1, <1>2, <1>3 DEF Others

LEMMA LeaseLapsesKind ==
    ASSUME TypeOK, NEW c \in Connections, NEW i \in Items, LeaseLapses(c, i)
    PROVE  Unleases(i) /\ row' \in [Items -> Rows]
<1>1. row[i].leased /\ row' = [row EXCEPT ![i].leased = FALSE]
      /\ UNCHANGED <<held, remaining, cursor, acked, answered, resent, offers>>
  BY DEF LeaseLapses, Owns, handler
<1>2. hurt'[i] = hurt[i] + 1 /\ \A j \in Items : j # i => hurt'[j] = hurt[j]
  BY DEF LeaseLapses, Fault
<1> QED BY <1>1, <1>2, UnleasedRow DEF Unleases

LEMMA LeaseExpiresKind ==
    ASSUME TypeOK, NEW i \in Items, LeaseExpires(i)
    PROVE  Unleases(i) /\ row' \in [Items -> Rows]
BY UnleasedRow DEF LeaseExpires, Unleases, handler, history

LEMMA RetryDueKind ==
    ASSUME TypeOK, NEW i \in Items, RetryDue(i)
    PROVE  Idles /\ row' \in [Items -> Rows]
<1>1. row[i] \in Rows /\ row \in [Items -> Rows]
  BY DEF TypeOK, Rows
<1> DEFINE r == [row[i] EXCEPT !.waiting = FALSE]
<1>2. row' = [row EXCEPT ![i] = r] /\ UNCHANGED <<held, remaining, cursor, history>>
  BY DEF RetryDue, handler
<1>3. r \in Rows /\ (r.leased <=> row[i].leased) /\ r.state = row[i].state
      /\ r.owner = row[i].owner /\ r.attempt = row[i].attempt /\ r.delivered = row[i].delivered
  BY <1>1 DEF Rows
<1> HIDE DEF r
<1> QED BY <1>1, <1>2, <1>3 DEF Idles

\* Steps of the slots alone.
LEMMA SlotKind ==
    ASSUME TypeOK, NEW c \in Connections, Open(c) \/ Dial(c) \/ SlotExpires(c) \/ SlotLapses(c)
    PROVE  Idles
<1>1. UNCHANGED <<held, remaining, row, cursor, acked, answered, resent, offers>>
  BY DEF Open, Dial, SlotExpires, SlotLapses, history
<1>2. UNCHANGED hurt
  <2>1. CASE Fault({})
    BY <2>1 DEF Fault, TypeOK
  <2> QED BY <2>1 DEF Open, Dial, SlotExpires, SlotLapses, history
<1> QED BY <1>1, <1>2 DEF Idles, history

LEMMA AcknowledgeKind ==
    ASSUME TypeOK, NEW c \in Connections, NEW e \in AllEnvelopes, Acknowledge(c, e)
    PROVE  Acknowledges(c, e)
BY DEF Acknowledge, Acknowledges

\* Every step is of one of the kinds.
LEMMA StepKind ==
    ASSUME TypeOK, RowInv, HeldInv, Next
    PROVE  Kind
<1> USE DEF Kind
<1>1. CASE \E c \in Connections : Open(c) \/ Dial(c) \/ SlotExpires(c) \/ SlotLapses(c)
  BY <1>1, SlotKind
<1>2. CASE \E i \in Items : LeaseExpires(i) \/ RetryDue(i)
  BY <1>2, LeaseExpiresKind, RetryDueKind
<1>3. CASE \E c \in Connections, i \in Items : Claim(c, i) \/ Consume(c, i)
  BY <1>3, ClaimKind, ConsumeKind
<1>4. ASSUME NEW c \in Connections, NEW i \in Items, Timeout(c, i) PROVE Kind
  <2>1. GivesUp(c, {i}, {i}) /\ {i} \in SUBSET Items
    BY <1>4, TimeoutKind
  <2> QED BY <2>1
<1>5. ASSUME NEW c \in Connections, Close(c) \/ Renew(c) PROVE Kind
  BY <1>5, CloseKind
<1>6. ASSUME NEW c \in Connections, Die(c) PROVE Kind
  <2>1. GivesUp(c, held[c], {}) /\ held[c] \in SUBSET Items /\ {} \in SUBSET Items
    BY <1>6, DieKind
  <2> QED BY <2>1
<1>7. CASE \E c \in Connections, e \in AllEnvelopes : Acknowledge(c, e)
  BY <1>7, AcknowledgeKind
<1>8. ASSUME NEW c \in Connections, NEW i \in Items, ConsumeFails(c, i) PROVE Kind
  <2>1. GivesUp(c, held[c], held[c] \ {i}) /\ held[c] \in SUBSET Items
        /\ held[c] \ {i} \in SUBSET Items
    BY <1>8, ConsumeFailsKind
  <2> QED BY <2>1
<1>9. CASE \E c \in Connections, i \in Items : LeaseLapses(c, i)
  BY <1>9, LeaseLapsesKind
<1> HIDE DEF Kind
<1> QED
  BY <1>1, <1>2, <1>3, <1>4, <1>5, <1>6, <1>7, <1>8, <1>9 DEF Next, Connect, Expiry, Serve

-----------------------------------------------------------------------------
(* Typing and the limit of slots.                                          *)

\* Fault's effect on the counters.
LEMMA FaultType ==
    ASSUME TypeOK, NEW S, Fault(S)
    PROVE  faults' \in 0..MaxFaults /\ hurt' \in [Items -> Nat]
BY SocketModeAssumption DEF TypeOK, Fault

\* What the steps on rows leave of the rest.
LEMMA TypeStep ==
    ASSUME TypeOK, RowInv, HeldInv, Next
    PROVE  TypeOK'
<1> USE DEF TypeOK
<1>r. (row' \in [Items -> Rows]) = (row' \in [Items -> [state : {"new", "open", "acked", "dropped"},
                          owner : Connections \cup {None}, leased : BOOLEAN,
                          waiting : BOOLEAN, attempt : 0..MaxRetries,
                          delivered : SUBSET AllEnvelopes]])
  BY DEF Rows
<1>1. ASSUME NEW c \in Connections, Open(c) PROVE TypeOK'
  <2>1. faults' \in 0..MaxFaults /\ hurt' \in [Items -> Nat]
    BY <1>1, FaultType DEF Open
  <2> QED BY <1>1, <2>1 DEF Open
<1>2. ASSUME NEW c \in Connections, Dial(c) PROVE TypeOK'
  BY <1>2 DEF Dial, history
<1>3. ASSUME NEW c \in Connections, SlotExpires(c) PROVE TypeOK'
  BY <1>3 DEF SlotExpires, history
<1>4. ASSUME NEW c \in Connections, SlotLapses(c) PROVE TypeOK'
  <2>1. faults' \in 0..MaxFaults /\ hurt' \in [Items -> Nat]
    BY <1>4, FaultType DEF SlotLapses
  <2> QED BY <1>4, <2>1 DEF SlotLapses
<1>5. ASSUME NEW c \in Connections, Close(c) \/ Renew(c) PROVE TypeOK'
  <2>1. row' \in [Items -> Rows]
    BY <1>5, CloseKind
  <2> QED BY <1>5, <2>1, <1>r DEF Close, Renew, Shut, history
<1>6. ASSUME NEW c \in Connections, Die(c) PROVE TypeOK'
  <2>1. faults' \in 0..MaxFaults /\ hurt' \in [Items -> Nat]
    BY <1>6, FaultType DEF Die
  <2> QED BY <1>6, <2>1 DEF Die
<1>7. ASSUME NEW c \in Connections, NEW i \in Items, Claim(c, i) PROVE TypeOK'
  <2>1. row' \in [Items -> Rows] /\ Claims(c, i)
    BY <1>7, ClaimKind
  <2>2. Owed(i) \subseteq AllEnvelopes
    BY EnvelopeFacts DEF Owed
  <2>3. cursor' \in 0..MaxEvents
    BY <2>1, SocketModeAssumption DEF Claims, Events
  <2> QED BY <1>7, <2>1, <2>2, <2>3, <1>r DEF Claim
<1>8. ASSUME NEW c \in Connections, NEW e \in AllEnvelopes, Acknowledge(c, e) PROVE TypeOK'
  BY <1>8 DEF Acknowledge
<1>9. ASSUME NEW c \in Connections, NEW i \in Items, Consume(c, i) PROVE TypeOK'
  <2>1. row' \in [Items -> Rows]
    BY <1>9, ConsumeKind
  <2> QED BY <1>9, <2>1, <1>r DEF Consume, history
<1>10. ASSUME NEW c \in Connections, NEW i \in Items, ConsumeFails(c, i) PROVE TypeOK'
  <2>1. faults' \in 0..MaxFaults /\ hurt' \in [Items -> Nat]
    BY <1>10, FaultType DEF ConsumeFails
  <2>2. row' \in [Items -> Rows]
    BY <1>10, ConsumeFailsKind
  <2> QED BY <1>10, <2>1, <2>2, <1>r DEF ConsumeFails
<1>11. ASSUME NEW c \in Connections, NEW i \in Items, Timeout(c, i) PROVE TypeOK'
  <2>1. row' \in [Items -> Rows]
    BY <1>11, TimeoutKind
  <2> QED BY <1>11, <2>1, <1>r DEF Timeout, history
<1>12. ASSUME NEW c \in Connections, NEW i \in Items, LeaseLapses(c, i) PROVE TypeOK'
  <2>1. faults' \in 0..MaxFaults /\ hurt' \in [Items -> Nat]
    BY <1>12, FaultType DEF LeaseLapses
  <2>2. row' \in [Items -> Rows]
    BY <1>12, LeaseLapsesKind
  <2> QED BY <1>12, <2>1, <2>2, <1>r DEF LeaseLapses, handler
<1>13. ASSUME NEW i \in Items, LeaseExpires(i) PROVE TypeOK'
  <2>1. row' \in [Items -> Rows]
    BY <1>13, LeaseExpiresKind
  <2> QED BY <1>13, <2>1, <1>r DEF LeaseExpires, handler, history
<1>14. ASSUME NEW i \in Items, RetryDue(i) PROVE TypeOK'
  <2>1. row' \in [Items -> Rows]
    BY <1>14, RetryDueKind
  <2> QED BY <1>14, <2>1, <1>r DEF RetryDue, handler, history
<1> HIDE DEF TypeOK
<1> QED
  BY <1>1, <1>2, <1>3, <1>4, <1>5, <1>6, <1>7, <1>8, <1>9, <1>10, <1>11, <1>12, <1>13, <1>14
  DEF Next, Connect, Expiry, Serve

\* Slots other than those of Dial are given back, never taken.
LEMMA LimitStep ==
    ASSUME TypeOK, RowInv, HeldInv, Cardinality(Active) <= Limit, Next
    PROVE  (Cardinality(Active) <= Limit)'
<1> DEFINE A == Active
           B == {d \in Connections : slot'[d] = "active"}
<1>1. IsFiniteSet(Connections) /\ Limit \in Nat
  BY SocketModeAssumption
<1>2. IsFiniteSet(A) /\ IsFiniteSet(B) /\ Cardinality(A) \in Nat /\ Cardinality(B) \in Nat
  <2>1. A \in SUBSET Connections /\ B \in SUBSET Connections
    BY DEF Active
  <2>2. IsFiniteSet(A) /\ IsFiniteSet(B)
    BY <1>1, <2>1, FS_Subset
  <2> HIDE DEF A, B
  <2> QED BY <2>2, FS_CardinalityType
<1>3. SUFFICES Cardinality(B) <= Limit
  BY DEF Active
<1>4. CASE \E c \in Connections : Dial(c)
  <2>1. PICK c \in Connections : Dial(c)
    BY <1>4
  <2>2. B = A \cup {c} /\ c \notin A /\ Cardinality(A) < Limit
    BY <2>1 DEF Dial, Active, TypeOK
  <2> HIDE DEF A, B
  <2>3. Cardinality(B) = Cardinality(A) + 1
    BY <1>2, <2>2, FS_AddElement
  <2> QED BY <1>1, <1>2, <2>2, <2>3
<1>5. CASE \A d \in Connections : slot'[d] = slot[d] \/ slot'[d] # "active"
  <2>1. B \in SUBSET A
    BY <1>5 DEF Active
  <2> DEFINE L == Cardinality(A) <= Limit
  <2>2. L OBVIOUS
  <2> HIDE DEF A, B
  <2>3. Cardinality(B) <= Cardinality(A)
    BY <1>2, <2>1, FS_Subset
  <2> QED BY <1>1, <1>2, <2>2, <2>3
<1>6. ASSUME ~ \E c \in Connections : Dial(c)
      PROVE  \A d \in Connections : slot'[d] = slot[d] \/ slot'[d] # "active"
  <2> USE DEF TypeOK
  <2>1. ASSUME NEW c \in Connections, Open(c) \/ SlotExpires(c) \/ SlotLapses(c)
        PROVE  \A d \in Connections : slot'[d] = slot[d] \/ slot'[d] # "active"
    BY <2>1, SocketModeAssumption DEF Open, SlotExpires, SlotLapses, None
  <2>2. ASSUME NEW c \in Connections, Close(c) \/ Renew(c) \/ Die(c)
        PROVE  \A d \in Connections : slot'[d] = slot[d] \/ slot'[d] # "active"
    BY <2>2 DEF Close, Renew, Die, Shut, None
  <2>3. ASSUME NEW c \in Connections, NEW i \in Items,
               Claim(c, i) \/ Consume(c, i) \/ ConsumeFails(c, i) \/ Timeout(c, i)
               \/ LeaseLapses(c, i)
        PROVE  \A d \in Connections : slot'[d] = slot[d] \/ slot'[d] # "active"
    BY <2>3 DEF Claim, Consume, ConsumeFails, Timeout, LeaseLapses, handler, None
  <2>4. ASSUME NEW i \in Items, LeaseExpires(i) \/ RetryDue(i)
        PROVE  \A d \in Connections : slot'[d] = slot[d] \/ slot'[d] # "active"
    BY <2>4 DEF LeaseExpires, RetryDue, handler
  <2>5. ASSUME NEW c \in Connections, NEW e \in AllEnvelopes, Acknowledge(c, e)
        PROVE  \A d \in Connections : slot'[d] = slot[d] \/ slot'[d] # "active"
    BY <2>5 DEF Acknowledge
  <2> QED BY <1>6, <2>1, <2>2, <2>3, <2>4, <2>5 DEF Next, Connect, Expiry, Serve
<1> QED BY <1>4, <1>5, <1>6

-----------------------------------------------------------------------------
(* Every kind of step keeps every part of the invariant.                   *)

\* Rows and the cursor.
LEMMA RowStep ==
    ASSUME TypeOK, RowInv, HeldInv, Next
    PROVE  RowInv'
<1>1. CASE Idles
  BY <1>1 DEF Idles, history, RowInv, TypeOK
<1>2. ASSUME NEW c \in Connections, NEW G \in SUBSET Items, NEW S \in SUBSET Items,
             GivesUp(c, G, S) PROVE RowInv'
  BY <1>2 DEF GivesUp, Returned, Owns, RowInv, TypeOK
<1>3. ASSUME NEW c \in Connections, NEW i \in Items, Claims(c, i) PROVE RowInv'
  <2>1. \A j \in Events : j \in Nat
    BY SocketModeAssumption DEF Events
  <2>2. cursor \in Nat
    BY DEF TypeOK
  <2>3. \A j \in Items : (row'[j].leased => row'[j].state = "open" /\ row'[j].owner \in Connections)
    BY <1>3 DEF Claims, Others, RowInv
  <2>4. \A j \in Items : row'[j].state = "new" =>
              /\ ~row'[j].leased /\ row'[j].attempt = 0 /\ row'[j].delivered = {}
              /\ offers'[j] = 0
              /\ \A d \in Connections : j \notin held'[d]
    BY <1>3 DEF Claims, Others, RowInv, TypeOK
  <2>5. \A j \in Items : j \in Events => (j <= cursor' <=> row'[j].state # "new")
    <3>1. CASE cursor' = cursor /\ (i \in Events => i <= cursor)
      BY <1>3, <2>1, <2>2, <3>1 DEF Claims, Others, RowInv
    <3>2. CASE i \in Events /\ i = cursor + 1 /\ cursor' = i
      <4>1. \A j \in Events : j <= i <=> j <= cursor \/ j = i
        BY <2>1, <2>2, <3>2
      <4> QED BY <1>3, <3>2, <4>1 DEF Claims, Others, RowInv
    <3> QED BY <1>3, <3>1, <3>2 DEF Claims
  <2> QED BY <2>3, <2>4, <2>5 DEF RowInv
<1>4. ASSUME NEW c \in Connections, NEW i \in Items, Consumes(c, i) PROVE RowInv'
  BY <1>4 DEF Consumes, Others, Owns, history, RowInv, TypeOK
<1>5. ASSUME NEW i \in Items, Unleases(i) PROVE RowInv'
  BY <1>5 DEF Unleases, Others, RowInv, TypeOK
<1>6. ASSUME NEW c \in Connections, NEW e \in AllEnvelopes, Acknowledges(c, e) PROVE RowInv'
  BY <1>6 DEF Acknowledges, RowInv, TypeOK
<1> QED BY <1>1, <1>2, <1>3, <1>4, <1>5, <1>6, StepKind DEF Kind

\* What was acknowledged.
LEMMA HeldStep ==
    ASSUME TypeOK, RowInv, HeldInv, Next
    PROVE  HeldInv'
<1>1. CASE Idles
  BY <1>1, EnvelopeFacts DEF Idles, history, HeldInv, TypeOK
<1>2. ASSUME NEW c \in Connections, NEW G \in SUBSET Items, NEW S \in SUBSET Items,
             GivesUp(c, G, S) PROVE HeldInv'
  <2>1. \A d \in Connections : \A f \in remaining'[d] : f[1] \in held'[d]
    BY <1>2, EnvelopeFacts DEF GivesUp, Returned, Owns, HeldInv, TypeOK
  <2>2. \A d \in Connections : \A j \in held'[d] : Envelopes(j) \ remaining'[d] \subseteq acked'
    BY <1>2, EnvelopeFacts DEF GivesUp, Returned, Owns, HeldInv, TypeOK
  <2>3. \A j \in Items : row'[j].delivered \subseteq acked'
    BY <1>2, EnvelopeFacts DEF GivesUp, Returned, Owns, HeldInv, TypeOK
  <2>4. \A f \in acked' : f[1] \in Interactions => f[1] \in answered'
    BY <1>2 DEF GivesUp, Returned, Owns, HeldInv
  <2> QED BY <2>1, <2>2, <2>3, <2>4 DEF HeldInv
<1>3. ASSUME NEW c \in Connections, NEW i \in Items, Claims(c, i) PROVE HeldInv'
  <2>1. \A d \in Connections : \A f \in remaining'[d] : f[1] \in held'[d]
    BY <1>3, EnvelopeFacts DEF Claims, Others, Owed, HeldInv, TypeOK
  <2>2. \A d \in Connections : \A j \in held'[d] : Envelopes(j) \ remaining'[d] \subseteq acked'
    <3> SUFFICES ASSUME NEW d \in Connections, NEW j \in held'[d], NEW f \in Envelopes(j),
                        f \notin remaining'[d]
                 PROVE  f \in acked
      BY <1>3 DEF Claims
    <3>1. CASE j \in held[d]
      <4>1. f \notin remaining[d]
        BY <1>3 DEF Claims, TypeOK
      <4> QED BY <3>1, <4>1 DEF HeldInv
    <3>2. CASE j \notin held[d]
      <4>1. d = c /\ j = i
        BY <1>3, <3>2 DEF Claims, TypeOK
      <4>2. f \notin Owed(i)
        BY <1>3, <4>1 DEF Claims, TypeOK
      <4> QED BY <4>1, <4>2 DEF Owed, HeldInv
    <3> QED BY <3>1, <3>2
  <2>3. \A j \in Items : row'[j].delivered \subseteq acked'
    BY <1>3, EnvelopeFacts DEF Claims, Others, Owed, HeldInv, TypeOK
  <2>4. \A f \in acked' : f[1] \in Interactions => f[1] \in answered'
    BY <1>3 DEF Claims, Others, Owed, HeldInv
  <2> QED BY <2>1, <2>2, <2>3, <2>4 DEF HeldInv
<1>4. ASSUME NEW c \in Connections, NEW i \in Items, Consumes(c, i) PROVE HeldInv'
  <2>1. \A d \in Connections : \A f \in remaining'[d] : f[1] \in held'[d]
    BY <1>4, EnvelopeFacts DEF Consumes, Others, Owns, history, Unacked, HeldInv, TypeOK
  <2>2. \A d \in Connections : \A j \in held'[d] : Envelopes(j) \ remaining'[d] \subseteq acked'
    BY <1>4, EnvelopeFacts DEF Consumes, Others, Owns, history, Unacked, HeldInv, TypeOK
  <2>3. \A j \in Items : row'[j].delivered \subseteq acked'
    BY <1>4, EnvelopeFacts DEF Consumes, Others, Owns, history, Unacked, HeldInv, TypeOK
  <2>4. \A f \in acked' : f[1] \in Interactions => f[1] \in answered'
    BY <1>4 DEF Consumes, Others, Owns, history, Unacked, HeldInv
  <2> QED BY <2>1, <2>2, <2>3, <2>4 DEF HeldInv
<1>5. ASSUME NEW i \in Items, Unleases(i) PROVE HeldInv'
  BY <1>5, EnvelopeFacts DEF Unleases, Others, HeldInv, TypeOK
<1>6. ASSUME NEW c \in Connections, NEW e \in AllEnvelopes, Acknowledges(c, e) PROVE HeldInv'
  BY <1>6, EnvelopeFacts DEF Acknowledges, HeldInv, TypeOK
<1> QED BY <1>1, <1>2, <1>3, <1>4, <1>5, <1>6, StepKind DEF Kind

\* Offers.
LEMMA CountStep ==
    ASSUME TypeOK, RowInv, HeldInv, CountInv, Next
    PROVE  CountInv'
<1>1. CASE Idles
  BY <1>1 DEF Idles, history, CountInv, Counted, RowInv, TypeOK
<1>2. ASSUME NEW c \in Connections, NEW G \in SUBSET Items, NEW S \in SUBSET Items,
             GivesUp(c, G, S) PROVE CountInv'
  BY <1>2 DEF GivesUp, Returned, Owns, CountInv, Counted, RowInv, TypeOK
<1>3. ASSUME NEW c \in Connections, NEW i \in Items, Claims(c, i) PROVE CountInv'
  BY <1>3 DEF Claims, Others, CountInv, Counted, RowInv, TypeOK
<1>4. ASSUME NEW c \in Connections, NEW i \in Items, Consumes(c, i) PROVE CountInv'
  BY <1>4 DEF Consumes, Others, Owns, history, CountInv, Counted, RowInv, TypeOK
<1>5. ASSUME NEW i \in Items, Unleases(i) PROVE CountInv'
  BY <1>5 DEF Unleases, Others, CountInv, Counted, RowInv, TypeOK
<1>6. ASSUME NEW c \in Connections, NEW e \in AllEnvelopes, Acknowledges(c, e) PROVE CountInv'
  BY <1>6 DEF Acknowledges, CountInv, Counted, RowInv, TypeOK
<1> QED BY <1>1, <1>2, <1>3, <1>4, <1>5, <1>6, StepKind DEF Kind

\* Until a fault.
LEMMA CalmStep ==
    ASSUME TypeOK, RowInv, HeldInv, CalmInv, Next
    PROVE  CalmInv'
<1>1. CASE Idles
  BY <1>1, EnvelopeFacts DEF Idles, history, CalmInv, RowInv, HeldInv, Owns, Unacked, TypeOK
<1>2. ASSUME NEW c \in Connections, NEW G \in SUBSET Items, NEW S \in SUBSET Items,
             GivesUp(c, G, S) PROVE CalmInv'
  BY <1>2, EnvelopeFacts DEF GivesUp, Returned, Owns, CalmInv, RowInv, HeldInv, Owns, Unacked,
     TypeOK
<1>3. ASSUME NEW c \in Connections, NEW i \in Items, Claims(c, i) PROVE CalmInv'
  <2> SUFFICES ASSUME NEW j \in Items, hurt'[j] = 0
               PROVE  /\ \A d \in Connections : j \in held'[d] => Owns(d, j)'
                          /\ Unacked(d, j)' \cap acked' = {}
                      /\ row'[j].leased => j \in held'[row'[j].owner]
                      /\ row'[j].state \in {"new", "open"} /\ ~row'[j].leased =>
                            Envelopes(j) \cap acked' \subseteq row'[j].delivered
                      /\ \A e \in resent' : e[1] # j
    BY DEF CalmInv
  <2>1. /\ hurt[j] = 0 /\ acked' = acked /\ resent' = resent \cup (Owed(i) \cap acked)
        /\ \A d \in Connections : d # c => held'[d] = held[d] /\ remaining'[d] = remaining[d]
        /\ held'[c] = held[c] \cup {i} /\ remaining'[c] = remaining[c] \cup Owed(i)
    BY <1>3 DEF Claims, TypeOK
  <2>2. \A e \in Owed(i) : e[1] = i
    BY EnvelopeFacts DEF Owed
  <2>3. CASE j # i
    <3>1. row'[j] = row[j]
      BY <1>3, <2>3 DEF Claims, Others
    <3>2. \A d \in Connections : Unacked(d, j)' = Unacked(d, j)
      <4>1. Owed(i) \cap Envelopes(j) = {}
        BY <2>2, <2>3, EnvelopeFacts
      <4> QED BY <2>1, <4>1 DEF Unacked
    <3>3. \A d \in Connections : j \in held'[d] <=> j \in held[d]
      BY <2>1, <2>3
    <3>4. \A d \in Connections : j \in held[d] => Owns(d, j) /\ Unacked(d, j) \cap acked = {}
      BY <2>1 DEF CalmInv
    <3>5. \A d \in Connections : j \in held'[d] => Owns(d, j)' /\ Unacked(d, j)' \cap acked' = {}
      BY <2>1, <3>1, <3>2, <3>3, <3>4 DEF Owns
    <3>6. row'[j].leased => j \in held'[row'[j].owner]
      BY <2>1, <3>1, <3>3 DEF CalmInv, RowInv
    <3>7. \A e \in resent' : e[1] # j
      BY <2>1, <2>2, <2>3 DEF CalmInv
    <3> QED BY <2>1, <3>1, <3>5, <3>6, <3>7 DEF CalmInv
  <2>4. CASE j = i
    <3>1. /\ row[i].state \in {"new", "open"} /\ ~row[i].leased
          /\ row'[i].state = "open" /\ row'[i].owner = c /\ row'[i].leased
      BY <1>3 DEF Claims
    <3>2. \A d \in Connections : i \notin held[d]
      BY <2>1, <2>4, <3>1 DEF CalmInv, Owns
    <3>3. Owed(i) \cap acked = {}
      BY <2>1, <2>4, <3>1 DEF CalmInv, Owed
    <3>4. remaining[c] \cap Envelopes(i) = {}
      BY <3>2, EnvelopeFacts DEF HeldInv, TypeOK
    <3>5. Unacked(c, i)' \cap acked' = {}
      BY <2>1, <3>3, <3>4 DEF Unacked
    <3>6. \A d \in Connections : i \in held'[d] => d = c
      BY <2>1, <3>2
    <3>7. Owns(c, i)' /\ i \in held'[c]
      BY <2>1, <3>1 DEF Owns
    <3> QED BY <2>1, <2>4, <3>1, <3>3, <3>5, <3>6, <3>7 DEF CalmInv
  <2> QED BY <2>3, <2>4
<1>4. ASSUME NEW c \in Connections, NEW i \in Items, Consumes(c, i) PROVE CalmInv'
  BY <1>4, EnvelopeFacts DEF Consumes, Others, Owns, history, CalmInv, RowInv, HeldInv, Owns,
     Unacked, TypeOK
<1>5. ASSUME NEW i \in Items, Unleases(i) PROVE CalmInv'
  BY <1>5, EnvelopeFacts DEF Unleases, Others, CalmInv, RowInv, HeldInv, Owns, Unacked, TypeOK
<1>6. ASSUME NEW c \in Connections, NEW e \in AllEnvelopes, Acknowledges(c, e) PROVE CalmInv'
  BY <1>6, EnvelopeFacts DEF Acknowledges, CalmInv, RowInv, HeldInv, Owns, Unacked, TypeOK
<1> QED BY <1>1, <1>2, <1>3, <1>4, <1>5, <1>6, StepKind DEF Kind

\* Items recorded as acknowledged.
LEMMA AckedStep ==
    ASSUME TypeOK, RowInv, HeldInv, AckedWasAcknowledged, Next
    PROVE  AckedWasAcknowledged'
<1>1. CASE Idles
  BY <1>1, EnvelopeFacts DEF Idles, history, AckedWasAcknowledged, HeldInv, Unacked, TypeOK
<1>2. ASSUME NEW c \in Connections, NEW G \in SUBSET Items, NEW S \in SUBSET Items,
             GivesUp(c, G, S) PROVE AckedWasAcknowledged'
  BY <1>2, EnvelopeFacts DEF GivesUp, Returned, Owns, AckedWasAcknowledged, HeldInv, Unacked,
     TypeOK
<1>3. ASSUME NEW c \in Connections, NEW i \in Items, Claims(c, i) PROVE AckedWasAcknowledged'
  BY <1>3, EnvelopeFacts DEF Claims, Others, AckedWasAcknowledged, HeldInv, Unacked, TypeOK
<1>4. ASSUME NEW c \in Connections, NEW i \in Items, Consumes(c, i) PROVE AckedWasAcknowledged'
  <2>1. \A j \in Items : j # i => row'[j] = row[j]
    BY <1>4 DEF Consumes, Others
  <2>2. Envelopes(i) \subseteq acked
    BY <1>4 DEF Consumes, HeldInv, Unacked
  <2>3. ASSUME i \in Interactions PROVE i \in answered
    <3>1. <<i, 1>> \in acked /\ <<i, 1>>[1] = i
      BY <2>2, <2>3, EnvelopeFacts
    <3>2. \A f \in acked : f[1] \in Interactions => f[1] \in answered
      BY DEF HeldInv
    <3>3. <<i, 1>>[1] \in Interactions
      BY <2>3, <3>1
    <3>4. <<i, 1>>[1] \in answered
      BY <3>1, <3>2, <3>3
    <3> QED BY <3>1, <3>4
  <2>4. UNCHANGED <<acked, answered>>
    BY <1>4 DEF Consumes, history
  <2> QED BY <2>1, <2>2, <2>3, <2>4 DEF AckedWasAcknowledged
<1>5. ASSUME NEW i \in Items, Unleases(i) PROVE AckedWasAcknowledged'
  BY <1>5, EnvelopeFacts DEF Unleases, Others, AckedWasAcknowledged, HeldInv, Unacked, TypeOK
<1>6. ASSUME NEW c \in Connections, NEW e \in AllEnvelopes, Acknowledges(c, e)
      PROVE AckedWasAcknowledged'
  BY <1>6, EnvelopeFacts DEF Acknowledges, AckedWasAcknowledged, HeldInv, Unacked, TypeOK
<1> QED BY <1>1, <1>2, <1>3, <1>4, <1>5, <1>6, StepKind DEF Kind

-----------------------------------------------------------------------------
(* The invariant is inductive.                                             *)

LEMMA InvInit == Init => Inv
<1> SUFFICES ASSUME Init PROVE Inv OBVIOUS
<1>1. MaxRetries \in Nat /\ MaxFaults \in Nat /\ MaxEvents \in Nat /\ Limit \in Nat
  BY SocketModeAssumption
<1>2. NewRow \in Rows /\ NewRow.state = "new" /\ ~NewRow.leased /\ NewRow.attempt = 0
      /\ NewRow.delivered = {}
  BY <1>1 DEF NewRow, Rows
<1>3. \A i \in Items : row[i] = NewRow
  BY DEF Init
<1>4. TypeOK
  <2>1. row \in [Items -> Rows]
    BY <1>2 DEF Init
  <2>2. up \in [Connections -> BOOLEAN]
        /\ slot \in [Connections -> {None, "issued", "active", "lapsed"}]
    BY DEF Init
  <2> QED BY <1>1, <2>1, <2>2 DEF Init, TypeOK, Rows
<1>5. Cardinality(Active) <= Limit
  <2>1. Active = {}
    BY DEF Init, Active, None
  <2> QED BY <1>1, <2>1, FS_EmptySet
<1>6. RowInv
  <2>1. \A i \in Events : ~(i <= cursor)
    BY SocketModeAssumption DEF Init, Events
  <2> QED BY <1>2, <1>3, <2>1 DEF Init, RowInv
<1>7. HeldInv /\ CalmInv
  BY <1>2, <1>3 DEF Init, HeldInv, CalmInv
<1>8. CountInv /\ AckedWasAcknowledged
  BY <1>2, <1>3 DEF Init, CountInv, Counted, AckedWasAcknowledged
<1> QED BY <1>4, <1>5, <1>6, <1>7, <1>8 DEF Inv, WithinLimit

LEMMA InvStep == Inv /\ [Next]_vars => Inv'
<1> SUFFICES ASSUME Inv, [Next]_vars PROVE Inv' OBVIOUS
<1>1. CASE Next
  <2>1. TypeOK' /\ (Cardinality(Active) <= Limit)'
    BY <1>1, TypeStep, LimitStep DEF Inv, WithinLimit
  <2>2. RowInv' /\ HeldInv' /\ CountInv' /\ CalmInv' /\ AckedWasAcknowledged'
    BY <1>1, RowStep, HeldStep, CountStep, CalmStep, AckedStep DEF Inv, WithinLimit
  <2> QED BY <2>1, <2>2 DEF Inv, WithinLimit
<1>2. CASE UNCHANGED vars
  <2> USE DEF vars, handler, history
  <2>1. WithinLimit'
    BY <1>2 DEF Inv, WithinLimit, TypeOK, Active
  <2>2. RowInv' /\ HeldInv'
    BY <1>2 DEF Inv, RowInv, HeldInv
  <2>3. CountInv' /\ CalmInv' /\ AckedWasAcknowledged'
    BY <1>2 DEF Inv, CountInv, Counted, CalmInv, Owns, Unacked, AckedWasAcknowledged
  <2> QED BY <2>1, <2>2, <2>3 DEF Inv
<1> QED BY <1>1, <1>2

-----------------------------------------------------------------------------
(* The theorems.                                                           *)

\* However tickets are issued, dialled, lost and renewed, no more connections than
\* the app's limit hold a slot: ConsumeSocketModeConnection counts again under the
\* admission lock, and a slot is taken nowhere else.
THEOREM SlotsWithinLimit == Spec => []WithinLimit
<1>1. Inv => WithinLimit
  BY DEF Inv
<1> QED BY <1>1, InvInit, InvStep, PTL DEF Spec

\* An item is dropped only after its first delivery and every promised retry, and
\* is offered more often only by as many times as a fault cut a delivery short
\* (settle, maxDeliveryRetries).
THEOREM RetriesKept == Spec => []RetriesAsPromised
<1>1. Inv => RetriesAsPromised
  <2> SUFFICES ASSUME Inv, NEW i \in Items
               PROVE  /\ row[i].state = "dropped" => offers[i] >= MaxRetries + 1
                      /\ offers[i] <= MaxRetries + 1 + hurt[i]
    BY DEF RetriesAsPromised
  <2>1. /\ row[i].attempt \in 0..MaxRetries /\ hurt[i] \in Nat /\ offers[i] \in Nat
        /\ MaxRetries \in Nat
    BY SocketModeAssumption DEF Inv, WithinLimit, TypeOK
  <2>2. /\ offers[i] <= row[i].attempt + hurt[i] + (IF Counted(i) THEN 1 ELSE 0)
        /\ row[i].state = "dropped" => offers[i] >= MaxRetries + 1
    BY DEF Inv, CountInv
  <2> QED BY <2>1, <2>2
<1> QED BY <1>1, InvInit, InvStep, PTL DEF Spec

\* What the store records as acknowledged was acknowledged by the app and its answer
\* applied; a retry repeats an acknowledged envelope, and two connections hold one
\* item, only after a fault hit a delivery of that item.
THEOREM AcksOnce == Spec => []AcksCountOnce
<1>1. Inv => AcksCountOnce
  <2> SUFFICES ASSUME Inv PROVE NoNeedlessRepeat
    BY DEF Inv, AcksCountOnce
  <2>1. \A i \in Items : hurt[i] \in Nat
    BY DEF Inv, WithinLimit, TypeOK
  <2>2. \A e \in resent : e[1] \in Items
    BY EnvelopeFacts DEF Inv, WithinLimit, TypeOK
  <2>3. \A e \in resent : hurt[e[1]] > 0
    BY <2>1, <2>2 DEF Inv, CalmInv
  <2>4. ASSUME NEW c \in Connections, NEW d \in Connections, NEW i \in Items,
               c # d, i \in held[c] \cap held[d]
        PROVE  hurt[i] > 0
    <3>1. hurt[i] # 0
      BY <2>4 DEF Inv, CalmInv, Owns
    <3> QED BY <2>1, <3>1
  <2> QED BY <2>3, <2>4 DEF NoNeedlessRepeat
<1> QED BY <1>1, InvInit, InvStep, PTL DEF Spec
=============================================================================
