-------------------------- MODULE HuddleRoomProofs --------------------------
(***************************************************************************)
(* Proofs about HuddleRoom for any set of participants, connections and    *)
(* tracks and any number of faults: a closed room is empty, nothing a      *)
(* participant should receive is left unoffered, nobody who left stays as  *)
(* a frozen tile.                                                          *)
(***************************************************************************)
EXTENDS HuddleRoom, TLAPS

-----------------------------------------------------------------------------
(* The inductive invariant.                                                *)

\* A connection that Join has not registered yet takes part in nothing.
Fresh(c) == call[c] \in {"idle", "joining", "making"}

FreshInv ==
    \A c \in Conns : Fresh(c) =>
        /\ ~Joined(c) /\ c \notin marking /\ c \notin closing
        /\ ~ready[c] /\ ~dirty[c] /\ offer[c] = "no" /\ senders[c] = {} /\ agreed[c] = {}
        /\ pc[c] = IF call[c] = "making" THEN "open" ELSE "none"

\* The connection of a participant is not closed, nor about to be.
JoinedInv == \A c \in Conns : Joined(c) => pc[c] \in {"open", "failed"} /\ c \notin closing

\* What was ever in the room is a participant's, was replaced, or is closed or
\* about to be.
Stands(c) == Joined(c) \/ c \in replaced \/ pc[c] = "closed" \/ c \in closing

StandInv ==
    /\ \A c \in Conns : ready[c] => Stands(c)
    /\ \A t \in Tracks : pub[t] # "none" => Stands(t[1])

\* Without a synchronize to come, the senders are what they should be.
SyncInv ==
    \A c \in Conns : Joined(c) /\ ready[c] /\ ~sync /\ closing = {} => senders[c] = Desired(c)

\* Until a stray answer clears it, the flag is set just while an offer is under way.
FlagInv == \A c \in Conns \ crossed : negotiating[c] <=> offer[c] # "no"

\* A peer that is not marked as changed has its senders in an offer on its way or
\* in the last one answered.
OfferInv ==
    \A c \in Conns \ crossed : Joined(c) /\ c \notin marking /\ ~dirty[c] =>
        \/ offer[c] \in {"building", "lost"}
        \/ offer[c] = "sent" /\ described[c] = senders[c]
        \/ offer[c] = "no" /\ (c \in hurt \/ agreed[c] = senders[c])

\* A change that waits has somebody to offer it.
DirtyInv ==
    \A c \in Conns \ crossed :
        Joined(c) /\ c \notin hurt /\ ready[c] /\ dirty[c] /\ offer[c] = "no" =>
            sync \/ c \in marking \/ c \in offering

Inv == /\ ClosedIsEmpty /\ FreshInv /\ JoinedInv /\ StandInv /\ NoFrozenTile
       /\ SyncInv /\ FlagInv /\ OfferInv /\ DirtyInv

-----------------------------------------------------------------------------
(* The two kinds of steps.                                                 *)

\* What negotiates leaves the room, the connections and the tracks alone.
Negotiation ==
    \/ Synchronize
    \/ \E c \in Conns :
         \/ SignalAnswer(c) \/ SignalStrayAnswer(c) \/ Mark(c)
         \/ StartOffer(c) \/ SendOffer(c) \/ OfferFails(c) \/ EmitFails(c)

\* What comes and goes leaves the senders and the offers alone.
Membership ==
    \/ Close
    \/ \E c \in Conns :
         \/ Offer(c) \/ Join(c) \/ Register(c) \/ Answer(c) \/ Fail(c) \/ CloseConnection(c)
         \/ \E s \in {"failed", "closed"} : Callback(c, s)
         \/ \E a \in BOOLEAN : SetScreenActive(c, a)
    \/ \E t \in Tracks : Publish(t) \/ Forward(t) \/ StopForwarding(t)

LEMMA Kinds == Next <=> Negotiation \/ Membership
BY DEF Next, ConnStep, Negotiation, Membership

LEMMA NegotiationStep == Negotiation => UNCHANGED session
BY DEF Negotiation, Synchronize, SignalAnswer, SignalStrayAnswer, Answered, Mark, StartOffer,
       SendOffer, OfferFails, EmitFails

-----------------------------------------------------------------------------
(* Tracks.                                                                 *)

\* A track belongs to a connection, and so to a participant.
LEMMA TrackOwner ==
    /\ \A t \in Tracks : t[1] \in Conns /\ OwnerOf(t) \in Participants /\ OwnerOf(t) = Owner[t[1]]
    /\ \A c \in Screens : /\ c \in Conns /\ <<c, "screen">> \in Tracks
                          /\ <<c, "screen">>[1] = c /\ <<c, "screen">>[2] = "screen"
BY HuddleAssumption DEF Tracks, OwnerOf

\* What a participant should receive are tracks of others.
LEMMA DesiredOthers ==
    ASSUME forwards \subseteq Tracks, NEW c \in Conns
    PROVE  Desired(c) \subseteq Tracks /\ \A t \in Desired(c) : OwnerOf(t) # Owner[c]
BY DEF Desired

\* What a participant should receive depends on what is forwarded.
LEMMA DesiredSame == ASSUME UNCHANGED forwards PROVE \A c \in Conns : Desired(c)' = Desired(c)
BY DEF Desired

-----------------------------------------------------------------------------
(* Who is in the room after a step that changes it.                        *)

\* Every other step leaves everybody where they are.
LEMMA JoinedSame ==
    ASSUME UNCHANGED peers PROVE \A d \in Conns : Joined(d)' <=> Joined(d)
BY DEF Joined

\* Nobody is in a closed room.
LEMMA NobodyInClosed == ASSUME ClosedIsEmpty, closed PROVE \A c \in Conns : ~Joined(c)
BY HuddleAssumption DEF ClosedIsEmpty, Joined

\* Join's second lock puts c in the place of whoever was there, or finds the room
\* closed and leaves c to be closed as well.
LEMMA RegisterStep ==
    ASSUME TypeOK, NEW c \in Conns, Register(c)
    PROVE  /\ call[c] = "making" /\ replaced \subseteq replaced'
           /\ UNCHANGED <<closed, forwards, pc, callbacks, flow, pub, todo, faults>>
           /\ \/ /\ closed /\ call' = [call EXCEPT ![c] = "failed"]
                 /\ closing' = closing \cup {c}
                 /\ \A d \in Conns : Joined(d)' <=> Joined(d)
              \/ /\ ~closed /\ call' = [call EXCEPT ![c] = "answering"]
                 /\ UNCHANGED closing
                 /\ \A d \in Conns : Joined(d)' <=> d = c \/ (Joined(d) /\ Owner[d] # Owner[c])
                 /\ \A d \in Conns : Joined(d) /\ Owner[d] = Owner[c] => d \in replaced'
<1>1. Owner[c] \in Participants /\ Owner \in [Conns -> Participants] /\ None \notin Conns
  BY HuddleAssumption
<1>2. CASE closed
  BY <1>2, JoinedSame DEF Register
<1>3. CASE ~closed
  <2>1. /\ replaced' = replaced \cup ({peers[Owner[c]]} \ {None})
        /\ peers' = [peers EXCEPT ![Owner[c]] = c]
    BY <1>3 DEF Register
  <2>2. \A d \in Conns : Joined(d)' <=> d = c \/ (Joined(d) /\ Owner[d] # Owner[c])
    BY <1>1, <2>1 DEF Joined, TypeOK
  <2>3. \A d \in Conns : Joined(d) /\ Owner[d] = Owner[c] => d \in replaced'
    BY <1>1, <2>1 DEF Joined
  <2> QED BY <1>3, <2>1, <2>2, <2>3 DEF Register
<1> QED BY <1>2, <1>3

\* Leave takes the owner of c out, whichever connection that is by now, and leaves
\* that one to be closed.
LEMMA CallbackStep ==
    ASSUME TypeOK, NEW c \in Conns, NEW s \in {"failed", "closed"}, Callback(c, s)
    PROVE  /\ \A d \in Conns : Joined(d)' <=> Joined(d) /\ Owner[d] # Owner[c]
           /\ \A d \in Conns : d \in closing' <=> d \in closing \/ (Joined(d) /\ Owner[d] = Owner[c])
           /\ closing' \subseteq Conns
           /\ \/ UNCHANGED <<peers, forwards, closing>>
              \/ closing' # {} /\ forwards' = {t \in forwards : OwnerOf(t) # Owner[c]}
           /\ UNCHANGED <<closed, replaced, call, pc, flow, pub, todo, faults>>
<1>1. Owner[c] \in Participants /\ Owner \in [Conns -> Participants] /\ None \notin Conns
  BY HuddleAssumption
<1>2. UNCHANGED <<closed, replaced, call, pc, flow, pub, todo, faults>>
  BY DEF Callback
<1>3. CASE peers[Owner[c]] = None
  <2>1. UNCHANGED <<peers, forwards, closing>>
    BY <1>3 DEF Callback, Leave
  <2>2. \A d \in Conns : Joined(d) => Owner[d] # Owner[c]
    BY <1>1, <1>3 DEF Joined
  <2> QED BY <1>2, <2>1, <2>2, JoinedSame DEF TypeOK
<1>4. CASE peers[Owner[c]] # None
  <2>1. /\ peers' = [peers EXCEPT ![Owner[c]] = None]
        /\ forwards' = {t \in forwards : OwnerOf(t) # Owner[c]}
        /\ closing' = closing \cup {peers[Owner[c]]}
    BY <1>4 DEF Callback, Leave
  <2>2. peers[Owner[c]] \in Conns /\ Owner[peers[Owner[c]]] = Owner[c]
    BY <1>1, <1>4 DEF TypeOK
  <2>3. \A d \in Conns : Joined(d)' <=> Joined(d) /\ Owner[d] # Owner[c]
    BY <1>1, <2>1 DEF Joined, TypeOK
  <2>4. \A d \in Conns : d \in closing' <=> d \in closing \/ (Joined(d) /\ Owner[d] = Owner[c])
    BY <2>1, <2>2 DEF Joined
  <2>5. closing' \subseteq Conns /\ closing' # {}
    BY <2>1, <2>2 DEF TypeOK
  <2> QED BY <1>2, <2>1, <2>3, <2>4, <2>5
<1> QED BY <1>3, <1>4

\* Close empties the room and leaves everybody's connection to be closed.
LEMMA CloseStep ==
    ASSUME TypeOK, Close
    PROVE  /\ closed' /\ forwards' = {} /\ \A p \in Participants : peers'[p] = None
           /\ \A d \in Conns : ~Joined(d)'
           /\ \A d \in Conns : d \in closing' <=> d \in closing \/ Joined(d)
           /\ UNCHANGED <<replaced, call, pc, callbacks, flow, pub, todo>>
BY HuddleAssumption DEF Close, Joined

\* Answer fails, or makes the connection the participant has by now ready.
LEMMA AnswerStep ==
    ASSUME TypeOK, NEW c \in Conns, Answer(c)
    PROVE  /\ call[c] = "answering" /\ ready' \in [Conns -> BOOLEAN] /\ sync' \in BOOLEAN
           /\ UNCHANGED <<room, conns, senders, talk, pub, marking, offering>>
           /\ \/ UNCHANGED <<ready, sync>> /\ call' = [call EXCEPT ![c] = "failed"]
              \/ \E d \in Conns : /\ Joined(d) /\ pc[d] = "open" /\ sync'
                                  /\ ready' = [ready EXCEPT ![d] = TRUE]
                                  /\ call' = [call EXCEPT ![c] = "done"]
<1>1. Owner[c] \in Participants /\ Owner \in [Conns -> Participants] /\ None \notin Conns
  BY HuddleAssumption
<1>2. /\ call[c] = "answering"
      /\ UNCHANGED <<room, conns, senders, talk, pub, marking, offering>>
  BY DEF Answer
<1>3. CASE UNCHANGED <<ready, sync>> /\ call' = [call EXCEPT ![c] = "failed"]
  BY <1>2, <1>3 DEF TypeOK
<1>4. CASE /\ peers[Owner[c]] # None /\ pc[peers[Owner[c]]] = "open"
           /\ ready' = [ready EXCEPT ![peers[Owner[c]]] = TRUE]
           /\ call' = [call EXCEPT ![c] = "done"] /\ sync' = TRUE
  <2>1. peers[Owner[c]] \in Conns /\ Owner[peers[Owner[c]]] = Owner[c]
    BY <1>1, <1>4 DEF TypeOK
  <2>2. Joined(peers[Owner[c]])
    BY <2>1 DEF Joined
  <2>3. ready' \in [Conns -> BOOLEAN] /\ sync' \in BOOLEAN
    BY <1>4 DEF TypeOK
  <2> QED BY <1>2, <1>4, <2>1, <2>2, <2>3
<1> QED BY <1>3, <1>4 DEF Answer

\* Every step that comes or goes adds at most a connection Join registers, never
\* takes a synchronize back, and has one to come, or a connection to close, when it
\* changes what is forwarded.
LEMMA MembershipStep ==
    ASSUME ClosedIsEmpty, Membership
    PROVE  /\ UNCHANGED <<senders, talk, marking, offering>>
           /\ \A d \in Conns : Joined(d)' => Joined(d) \/ call[d] = "making"
           /\ sync => sync'
           /\ \A d \in Conns : ready'[d] => ready[d] \/ (Joined(d) /\ sync')
           /\ \/ sync' \/ closing' # {} \/ \A d \in Conns : ~Joined(d)'
              \/ UNCHANGED <<forwards, closing>>
<1> USE DEF flow, todo
<1> DEFINE G == /\ UNCHANGED <<senders, talk, marking, offering>>
                /\ \A d \in Conns : Joined(d)' => Joined(d) \/ call[d] = "making"
                /\ sync => sync'
                /\ \A d \in Conns : ready'[d] => ready[d] \/ (Joined(d) /\ sync')
                /\ \/ sync' \/ closing' # {} \/ \A d \in Conns : ~Joined(d)'
                   \/ UNCHANGED <<forwards, closing>>
<1>1. ASSUME NEW c \in Conns, Offer(c) \/ Join(c) \/ Fail(c) PROVE G
  BY <1>1, JoinedSame DEF Offer, Join, Fail, room, conns
<1>2. ASSUME NEW c \in Conns, Register(c) PROVE G
  BY <1>2, RegisterStep DEF ClosedIsEmpty
<1>3. ASSUME NEW c \in Conns, Answer(c) PROVE G
  <2>1. /\ UNCHANGED <<peers, forwards, closing, senders, talk, marking, offering>>
        /\ sync => sync'
        /\ \A d \in Conns : ready'[d] => ready[d] \/ (Joined(d) /\ sync')
    BY <1>3, AnswerStep DEF ClosedIsEmpty, TypeOK, room, conns
  <2> QED BY <2>1, JoinedSame
<1>4. CASE Close
  BY <1>4, CloseStep DEF ClosedIsEmpty
<1>5. ASSUME NEW c \in Conns, NEW s \in {"failed", "closed"}, Callback(c, s) PROVE G
  BY <1>5, CallbackStep DEF ClosedIsEmpty
<1>6. ASSUME NEW c \in Conns, CloseConnection(c) PROVE G
  <2>1. UNCHANGED <<peers, forwards, ready, senders, talk, marking, offering>>
    BY <1>6 DEF CloseConnection, room
  <2>2. /\ \A d \in Conns : Joined(d)' => Joined(d)
        /\ closed => \A d \in Conns : ~Joined(d)'
    BY <2>1, JoinedSame, NobodyInClosed
  <2>3. (sync => sync') /\ (~closed => sync')
    BY <1>6 DEF CloseConnection
  <2> QED BY <2>1, <2>2, <2>3
<1>7. ASSUME NEW c \in Conns, NEW a \in BOOLEAN, SetScreenActive(c, a) PROVE G
  BY <1>7, JoinedSame DEF SetScreenActive, conns
<1>8. ASSUME NEW t \in Tracks, Publish(t) \/ Forward(t) \/ StopForwarding(t) PROVE G
  BY <1>8, JoinedSame DEF Publish, Forward, StopForwarding, room, conns
<1> QED
  BY <1>1, <1>2, <1>3, <1>4, <1>5, <1>6, <1>7, <1>8 DEF Membership

\* synchronize gives every peer what it should receive and leaves it with work.
LEMMA SynchronizeStep ==
    ASSUME ClosedIsEmpty, JoinedInv, Synchronize
    PROVE  /\ ~sync'
           /\ \A c \in Conns : Joined(c) => senders'[c] = Desired(c)
               /\ c \in marking' \cup offering'
           /\ \A c \in Conns : c \in marking' \/ senders'[c] = senders[c]
           /\ marking \subseteq marking' /\ offering \subseteq offering'
           /\ \A c \in Conns : c \in marking' => c \in marking \/ Joined(c)
           /\ \A c \in Conns : senders'[c] = senders[c] \/ Joined(c)
           /\ UNCHANGED <<session, talk, faults>>
<1>1. ~sync' /\ UNCHANGED <<session, talk, faults>>
  BY DEF Synchronize
<1>2. CASE closed
  BY <1>1, <1>2, NobodyInClosed DEF Synchronize
<1>3. CASE ~closed
  <2> DEFINE S == {c \in {d \in Conns : Joined(d)} : pc[c] # "closed" /\ senders[c] # Desired(c)}
  <2>1. /\ senders' = [c \in Conns |-> IF c \in S THEN Desired(c) ELSE senders[c]]
        /\ marking' = marking \cup S /\ offering' = offering \cup ({d \in Conns : Joined(d)} \ S)
    BY <1>3 DEF Synchronize
  <2>2. \A c \in Conns : c \in S <=> Joined(c) /\ senders[c] # Desired(c)
    BY DEF JoinedInv
  <2> HIDE DEF S
  <2> QED BY <1>1, <2>1, <2>2
<1> QED BY <1>2, <1>3

-----------------------------------------------------------------------------
(* Every step keeps every part of the invariant.                           *)

\* Typing.
LEMMA TypeStep ==
    ASSUME TypeOK, FreshInv, Next
    PROVE  TypeOK'
<1>b. ASSUME NEW c \in Conns, Answer(c) PROVE ready' \in [Conns -> BOOLEAN] /\ sync' \in BOOLEAN
  BY <1>b, AnswerStep
<1> USE DEF TypeOK, room, flow, todo, talk, broken, conns, session
<1>a. Owner \in [Conns -> Participants] /\ None \notin Conns /\ MaxFaults \in Nat
  BY HuddleAssumption
<1>1. ASSUME NEW c \in Conns, Offer(c) PROVE TypeOK'
  BY <1>1, <1>a DEF Offer
<1>2. ASSUME NEW c \in Conns, Join(c) PROVE TypeOK'
  BY <1>2, <1>a DEF Join, FreshInv, Fresh
<1>3. ASSUME NEW c \in Conns, Register(c) PROVE TypeOK'
  BY <1>3, <1>a DEF Register, FreshInv, Fresh
<1>4. ASSUME NEW c \in Conns, Answer(c) PROVE TypeOK'
  <2>1. /\ call' \in [Conns -> {"idle", "joining", "making", "answering", "done", "failed"}]
        /\ faults' \in 0..MaxFaults
    BY <1>4, <1>a DEF Answer, Fault
  <2>2. ready' \in [Conns -> BOOLEAN] /\ sync' \in BOOLEAN
    BY <1>4, <1>b
  <2> QED BY <1>4, <2>1, <2>2 DEF Answer
<1>5. ASSUME NEW c \in Conns, SignalAnswer(c) PROVE TypeOK'
  BY <1>5, <1>a DEF SignalAnswer, Answered, Fault
<1>6. ASSUME NEW c \in Conns, SignalStrayAnswer(c) PROVE TypeOK'
  BY <1>6, <1>a DEF SignalStrayAnswer, Answered, Fault
<1>7. ASSUME NEW c \in Conns, Mark(c) PROVE TypeOK'
  BY <1>7, <1>a DEF Mark
<1>8. ASSUME NEW c \in Conns, StartOffer(c) PROVE TypeOK'
  BY <1>8, <1>a DEF StartOffer, Began
<1>9. ASSUME NEW c \in Conns, SendOffer(c) PROVE TypeOK'
  BY <1>9, <1>a DEF SendOffer
<1>10. ASSUME NEW c \in Conns, OfferFails(c) PROVE TypeOK'
  BY <1>10, <1>a DEF OfferFails, Fault
<1>11. ASSUME NEW c \in Conns, EmitFails(c) PROVE TypeOK'
  BY <1>11, <1>a DEF EmitFails, Fault
<1>12. ASSUME NEW c \in Conns, Fail(c) PROVE TypeOK'
  BY <1>12, <1>a DEF Fail, Fault
<1>13. ASSUME NEW c \in Conns, CloseConnection(c) PROVE TypeOK'
  BY <1>13, <1>a DEF CloseConnection
<1>14. CASE Synchronize
  <2>1. UNCHANGED <<session, talk, faults>> /\ sync' \in BOOLEAN
    BY <1>14 DEF Synchronize
  <2>2. CASE closed
    BY <1>14, <2>1, <2>2 DEF Synchronize
  <2>3. CASE ~closed
    <3>1. PICK S \in SUBSET Conns, R \in SUBSET Conns :
              /\ senders' = [c \in Conns |-> IF c \in S THEN Desired(c) ELSE senders[c]]
              /\ marking' = marking \cup S /\ offering' = offering \cup R
      BY <1>14, <2>3 DEF Synchronize
    <3>2. \A c \in Conns : Desired(c) \subseteq Tracks
          /\ \A t \in Desired(c) : OwnerOf(t) # Owner[c]
      BY DesiredOthers
    <3>3. senders' \in [Conns -> SUBSET Tracks]
          /\ \A c \in Conns : \A t \in senders'[c] : OwnerOf(t) # Owner[c]
      BY <3>1, <3>2
    <3>4. marking' \subseteq Conns /\ offering' \subseteq Conns
      BY <3>1
    <3> QED BY <2>1, <3>3, <3>4
  <2> QED BY <2>2, <2>3
<1>15. CASE Close
  BY <1>15, <1>a DEF Close, Fault
<1>16. ASSUME NEW c \in Conns, NEW s \in {"failed", "closed"}, Callback(c, s) PROVE TypeOK'
  <2>1. UNCHANGED <<closed, replaced, call, pc, flow, pub, todo, faults>>
        /\ closing' \subseteq Conns /\ callbacks' \subseteq Conns \X {"failed", "closed"}
    BY <1>16, CallbackStep DEF Callback
  <2>2. /\ peers' \in [Participants -> Conns \cup {None}] /\ forwards' \subseteq Tracks
        /\ \A p \in Participants : peers'[p] # None => Owner[peers'[p]] = p /\ pc[peers'[p]] # "none"
    BY <1>16, <1>a DEF Callback, Leave
  <2> QED BY <2>1, <2>2
<1>17. ASSUME NEW c \in Conns, NEW a \in BOOLEAN, SetScreenActive(c, a) PROVE TypeOK'
  BY <1>17, <1>a, TrackOwner DEF SetScreenActive, Fault
<1>18. ASSUME NEW t \in Tracks, Publish(t) PROVE TypeOK'
  BY <1>18, <1>a DEF Publish
<1>19. ASSUME NEW t \in Tracks, Forward(t) PROVE TypeOK'
  <2>1. CASE closed
    BY <1>19, <2>1 DEF Forward
  <2>2. CASE ~closed
    <3>1. sync' \in BOOLEAN /\ forwards' \subseteq Tracks
      BY <1>19, <2>2 DEF Forward
    <3> QED BY <1>19, <2>2, <3>1 DEF Forward
  <2> QED BY <2>1, <2>2
<1>20. ASSUME NEW t \in Tracks, StopForwarding(t) PROVE TypeOK'
  BY <1>20, <1>a DEF StopForwarding, LoopEnds, Fault
<1> QED
  BY <1>1, <1>2, <1>3, <1>4, <1>5, <1>6, <1>7, <1>8, <1>9, <1>10, <1>11, <1>12, <1>13, <1>14,
     <1>15, <1>16, <1>17, <1>18, <1>19, <1>20 DEF Next, ConnStep

\* A closed room stays empty.
LEMMA ClosedStep ==
    ASSUME ClosedIsEmpty, FreshInv, Next
    PROVE  ClosedIsEmpty'
<1> USE DEF room, conns, session
<1>a. TypeOK'
  BY TypeStep DEF ClosedIsEmpty
<1>b. UNCHANGED <<closed, peers, forwards>> => ClosedIsEmpty'
  BY <1>a DEF ClosedIsEmpty
<1>1. CASE Negotiation
  BY <1>1, <1>b, NegotiationStep
<1>2. ASSUME NEW c \in Conns, Offer(c) \/ Join(c) \/ Answer(c) \/ Fail(c) \/ CloseConnection(c)
      PROVE  ClosedIsEmpty'
  BY <1>2, <1>b DEF Offer, Join, Answer, Fail, CloseConnection
<1>3. ASSUME NEW c \in Conns, Register(c) PROVE ClosedIsEmpty'
  BY <1>3, <1>a DEF Register, ClosedIsEmpty
<1>4. CASE Close
  BY <1>4, <1>a, CloseStep DEF ClosedIsEmpty
<1>5. ASSUME NEW c \in Conns, NEW s \in {"failed", "closed"}, Callback(c, s) PROVE ClosedIsEmpty'
  <2>1. CASE closed
    <3>1. peers[Owner[c]] = None
      BY <2>1, HuddleAssumption DEF ClosedIsEmpty
    <3> QED BY <1>5, <1>b, <3>1 DEF Callback, Leave
  <2>2. CASE ~closed
    BY <1>5, <1>a, <2>2 DEF Callback, ClosedIsEmpty
  <2> QED BY <2>1, <2>2
<1>6. ASSUME NEW c \in Conns, NEW a \in BOOLEAN, SetScreenActive(c, a) PROVE ClosedIsEmpty'
  BY <1>6, <1>a DEF SetScreenActive, ClosedIsEmpty
<1>7. ASSUME NEW t \in Tracks, Publish(t) \/ Forward(t) \/ StopForwarding(t) PROVE ClosedIsEmpty'
  BY <1>7, <1>a DEF Publish, Forward, StopForwarding, ClosedIsEmpty
<1> QED
  BY <1>1, <1>2, <1>3, <1>4, <1>5, <1>6, <1>7, Kinds DEF Membership

\* Connections not registered yet.
LEMMA FreshStep ==
    ASSUME ClosedIsEmpty, FreshInv, JoinedInv, Next
    PROVE  FreshInv'
<1> USE DEF room, flow, todo, talk, broken, conns, session
<1>a. TypeOK
  BY DEF ClosedIsEmpty
<1>1. CASE Synchronize
  <2>1. \A d \in Conns : Joined(d)' <=> Joined(d)
    BY <1>1, JoinedSame DEF Synchronize
  <2> QED BY <1>1, <2>1, SynchronizeStep DEF FreshInv, Fresh
<1>2. ASSUME NEW c \in Conns, SignalAnswer(c) \/ SignalStrayAnswer(c) PROVE FreshInv'
  <2>1. \A d \in Conns : (Joined(d)' <=> Joined(d)) /\ (d # c => agreed'[d] = agreed[d]
                            /\ offer'[d] = offer[d])
    BY <1>2, <1>a, JoinedSame DEF SignalAnswer, SignalStrayAnswer, Answered, TypeOK
  <2>2. Joined(c) /\ UNCHANGED <<session, senders, dirty, marking>>
    BY <1>2 DEF SignalAnswer, SignalStrayAnswer, Answered
  <2> QED BY <2>1, <2>2 DEF FreshInv, Fresh
<1>3. ASSUME NEW c \in Conns, Mark(c) PROVE FreshInv'
  BY <1>3, <1>a, JoinedSame DEF Mark, FreshInv, Fresh, TypeOK
<1>4. ASSUME NEW c \in Conns, StartOffer(c) PROVE FreshInv'
  BY <1>4, <1>a, JoinedSame DEF StartOffer, Began, FreshInv, Fresh, TypeOK
<1>5. ASSUME NEW c \in Conns, SendOffer(c) \/ OfferFails(c) \/ EmitFails(c) PROVE FreshInv'
  BY <1>5, <1>a, JoinedSame DEF SendOffer, OfferFails, EmitFails, FreshInv, Fresh, TypeOK
<1>6. ASSUME NEW c \in Conns, Offer(c) PROVE FreshInv'
  BY <1>6, <1>a, JoinedSame DEF Offer, FreshInv, Fresh, TypeOK
<1>7. ASSUME NEW c \in Conns, Join(c) PROVE FreshInv'
  BY <1>7, <1>a, JoinedSame DEF Join, FreshInv, Fresh, TypeOK
<1>8. ASSUME NEW c \in Conns, Register(c) PROVE FreshInv'
  BY <1>8, <1>a, RegisterStep DEF FreshInv, Fresh, TypeOK
<1>9. ASSUME NEW c \in Conns, Answer(c) PROVE FreshInv'
  <2>1. \A d \in Conns : Joined(d)' <=> Joined(d)
    BY <1>9, <1>a, AnswerStep, JoinedSame
  <2> QED BY <1>9, <1>a, <2>1, AnswerStep DEF FreshInv, Fresh, TypeOK
<1>10. ASSUME NEW c \in Conns, Fail(c) PROVE FreshInv'
  BY <1>10, <1>a, JoinedSame DEF Fail, FreshInv, Fresh, TypeOK
<1>11. ASSUME NEW c \in Conns, CloseConnection(c) PROVE FreshInv'
  BY <1>11, <1>a, JoinedSame DEF CloseConnection, FreshInv, Fresh, TypeOK
<1>12. CASE Close
  BY <1>12, <1>a, CloseStep DEF FreshInv, Fresh
<1>13. ASSUME NEW c \in Conns, NEW s \in {"failed", "closed"}, Callback(c, s) PROVE FreshInv'
  BY <1>13, <1>a, CallbackStep DEF FreshInv, Fresh
<1>14. ASSUME NEW c \in Conns, NEW a \in BOOLEAN, SetScreenActive(c, a) PROVE FreshInv'
  BY <1>14, JoinedSame DEF SetScreenActive, FreshInv, Fresh
<1>15. ASSUME NEW t \in Tracks, Publish(t) \/ Forward(t) \/ StopForwarding(t) PROVE FreshInv'
  BY <1>15, JoinedSame DEF Publish, Forward, StopForwarding, FreshInv, Fresh
<1> QED
  BY <1>1, <1>2, <1>3, <1>4, <1>5, <1>6, <1>7, <1>8, <1>9, <1>10, <1>11, <1>12, <1>13, <1>14,
     <1>15 DEF Next, ConnStep

\* Connections of participants are not closed.
LEMMA JoinedStep ==
    ASSUME TypeOK, FreshInv, JoinedInv, Next
    PROVE  JoinedInv'
<1> USE DEF room, conns, session
<1>a. UNCHANGED <<peers, pc, closing>> => JoinedInv'
  BY JoinedSame DEF JoinedInv
<1>1. CASE Negotiation
  BY <1>1, <1>a, NegotiationStep
<1>2. ASSUME NEW c \in Conns, Offer(c) \/ Answer(c) PROVE JoinedInv'
  BY <1>2, <1>a DEF Offer, Answer
<1>3. ASSUME NEW c \in Conns, Join(c) PROVE JoinedInv'
  BY <1>3, JoinedSame DEF Join, JoinedInv, TypeOK, FreshInv, Fresh
<1>4. ASSUME NEW c \in Conns, Register(c) PROVE JoinedInv'
  BY <1>4, RegisterStep DEF JoinedInv, FreshInv, Fresh
<1>5. ASSUME NEW c \in Conns, Fail(c) PROVE JoinedInv'
  BY <1>5, JoinedSame DEF Fail, JoinedInv, TypeOK
<1>6. ASSUME NEW c \in Conns, CloseConnection(c) PROVE JoinedInv'
  BY <1>6, JoinedSame DEF CloseConnection, JoinedInv, TypeOK
<1>7. CASE Close
  BY <1>7, CloseStep DEF JoinedInv
<1>8. ASSUME NEW c \in Conns, NEW s \in {"failed", "closed"}, Callback(c, s) PROVE JoinedInv'
  BY <1>8, CallbackStep DEF JoinedInv
<1>9. ASSUME NEW c \in Conns, NEW a \in BOOLEAN, SetScreenActive(c, a) PROVE JoinedInv'
  BY <1>9, <1>a DEF SetScreenActive
<1>10. ASSUME NEW t \in Tracks, Publish(t) \/ Forward(t) \/ StopForwarding(t) PROVE JoinedInv'
  BY <1>10, <1>a DEF Publish, Forward, StopForwarding
<1> QED
  BY <1>1, <1>2, <1>3, <1>4, <1>5, <1>6, <1>7, <1>8, <1>9, <1>10, Kinds DEF Membership

\* Once in the room, a connection stands.
LEMMA StandsStep ==
    ASSUME TypeOK, FreshInv, Next
    PROVE  \A d \in Conns : Stands(d) => Stands(d)'
<1> USE DEF Stands, room, conns, session
<1> DEFINE G == \A d \in Conns : Stands(d) => Stands(d)'
<1>a. UNCHANGED <<peers, replaced, pc, closing>> => G
  BY JoinedSame
<1>1. CASE Negotiation
  BY <1>1, <1>a, NegotiationStep
<1>2. ASSUME NEW c \in Conns, Offer(c) \/ Answer(c) PROVE G
  BY <1>2, <1>a DEF Offer, Answer
<1>3. ASSUME NEW c \in Conns, Join(c) PROVE G
  BY <1>3, JoinedSame DEF Join, FreshInv, Fresh, TypeOK
<1>4. ASSUME NEW c \in Conns, Register(c) PROVE G
  BY <1>4, RegisterStep
<1>5. ASSUME NEW c \in Conns, Fail(c) PROVE G
  BY <1>5, JoinedSame DEF Fail, TypeOK
<1>6. ASSUME NEW c \in Conns, CloseConnection(c) PROVE G
  BY <1>6, JoinedSame DEF CloseConnection, TypeOK
<1>7. CASE Close
  BY <1>7, CloseStep
<1>8. ASSUME NEW c \in Conns, NEW s \in {"failed", "closed"}, Callback(c, s) PROVE G
  BY <1>8, CallbackStep
<1>9. ASSUME NEW c \in Conns, NEW a \in BOOLEAN, SetScreenActive(c, a) PROVE G
  BY <1>9, <1>a DEF SetScreenActive
<1>10. ASSUME NEW t \in Tracks, Publish(t) \/ Forward(t) \/ StopForwarding(t) PROVE G
  BY <1>10, <1>a DEF Publish, Forward, StopForwarding
<1> QED
  BY <1>1, <1>2, <1>3, <1>4, <1>5, <1>6, <1>7, <1>8, <1>9, <1>10, Kinds DEF Membership

\* Connections that were in the room: ready ones, and those that publish.
LEMMA StandStep ==
    ASSUME TypeOK, FreshInv, StandInv, Next
    PROVE  StandInv'
<1> USE DEF room, flow, session
<1>a. \A d \in Conns : Stands(d) => Stands(d)'
  BY StandsStep
<1>b. UNCHANGED <<ready, pub>> => StandInv'
  BY <1>a, TrackOwner DEF StandInv
<1>1. CASE Negotiation
  BY <1>1, <1>b, NegotiationStep
<1>2. ASSUME NEW c \in Conns,
             Offer(c) \/ Join(c) \/ Register(c) \/ Fail(c) \/ CloseConnection(c)
      PROVE  StandInv'
  BY <1>2, <1>b DEF Offer, Join, Register, Fail, CloseConnection
<1>3. ASSUME NEW c \in Conns, Answer(c) PROVE StandInv'
  <2>1. UNCHANGED pub /\ \A d \in Conns : ready'[d] => ready[d] \/ Joined(d)
    BY <1>3, AnswerStep DEF TypeOK
  <2> QED BY <2>1, <1>a, TrackOwner DEF StandInv, Stands
<1>4. CASE Close
  BY <1>4, <1>b DEF Close
<1>5. ASSUME NEW c \in Conns, NEW s \in {"failed", "closed"}, Callback(c, s) PROVE StandInv'
  BY <1>5, <1>b DEF Callback
<1>6. ASSUME NEW c \in Conns, NEW a \in BOOLEAN, SetScreenActive(c, a) PROVE StandInv'
  BY <1>6, <1>b DEF SetScreenActive
<1>7. ASSUME NEW t \in Tracks, Publish(t) \/ Forward(t) \/ StopForwarding(t) PROVE StandInv'
  <2>1. /\ UNCHANGED ready
        /\ \A u \in Tracks : pub'[u] # "none" => pub[u] # "none" \/ ready[u[1]]
    BY <1>7 DEF Publish, Forward, StopForwarding, LoopEnds, TypeOK
  <2> QED BY <2>1, <1>a, TrackOwner DEF StandInv
<1> QED
  BY <1>1, <1>2, <1>3, <1>4, <1>5, <1>6, <1>7, Kinds DEF Membership

\* Tiles.
LEMMA FrozenStep ==
    ASSUME TypeOK, FreshInv, StandInv, NoFrozenTile, Next
    PROVE  NoFrozenTile'
<1> USE DEF room, conns, session
<1>a. forwards \subseteq Tracks /\ \A t \in Tracks : t[1] \in Conns
  BY TrackOwner DEF TypeOK
<1>b. UNCHANGED <<peers, forwards, replaced, pc, closing, pub>> => NoFrozenTile'
  BY <1>a, JoinedSame DEF NoFrozenTile
<1>1. CASE Negotiation
  BY <1>1, <1>b, NegotiationStep
<1>2. ASSUME NEW c \in Conns, Offer(c) \/ Answer(c) PROVE NoFrozenTile'
  BY <1>2, <1>b DEF Offer, Answer
<1>3. ASSUME NEW c \in Conns, Join(c) PROVE NoFrozenTile'
  BY <1>3, <1>a, JoinedSame DEF Join, NoFrozenTile, FreshInv, Fresh, TypeOK
<1>4. ASSUME NEW c \in Conns, Register(c) PROVE NoFrozenTile'
  BY <1>4, <1>a, RegisterStep DEF NoFrozenTile
<1>5. ASSUME NEW c \in Conns, Fail(c) PROVE NoFrozenTile'
  BY <1>5, <1>a, JoinedSame DEF Fail, NoFrozenTile, TypeOK
<1>6. ASSUME NEW c \in Conns, CloseConnection(c) PROVE NoFrozenTile'
  BY <1>6, <1>a, JoinedSame DEF CloseConnection, NoFrozenTile, TypeOK
<1>7. CASE Close
  BY <1>7, CloseStep DEF NoFrozenTile
<1>8. ASSUME NEW c \in Conns, NEW s \in {"failed", "closed"}, Callback(c, s) PROVE NoFrozenTile'
  <2>1. /\ UNCHANGED <<replaced, pc, pub>>
        /\ \A d \in Conns : d \in closing => d \in closing'
        /\ \A d \in Conns : Joined(d) /\ Owner[d] # Owner[c] => Joined(d)'
    BY <1>8, CallbackStep
  <2>2. CASE UNCHANGED <<peers, forwards, closing>>
    BY <2>1, <2>2, <1>b
  <2>3. CASE forwards' = {t \in forwards : OwnerOf(t) # Owner[c]}
    <3>1. \A t \in forwards' : t \in forwards /\ t[1] \in Conns /\ Owner[t[1]] # Owner[c]
      BY <2>3, <1>a, TrackOwner
    <3> QED BY <2>1, <3>1 DEF NoFrozenTile
  <2> QED BY <1>8, <2>2, <2>3, CallbackStep
<1>9. ASSUME NEW c \in Conns, NEW a \in BOOLEAN, SetScreenActive(c, a) PROVE NoFrozenTile'
  <2>1. /\ UNCHANGED <<peers, replaced, pc, closing, pub>>
        /\ forwards' \subseteq forwards \cup {<<c, "screen">>}
        /\ Joined(c) /\ <<c, "screen">>[1] = c /\ <<c, "screen">>[2] = "screen"
    BY <1>9, TrackOwner DEF SetScreenActive
  <2> QED BY <2>1, <1>a, JoinedSame DEF NoFrozenTile
<1>10. ASSUME NEW t \in Tracks, Publish(t) PROVE NoFrozenTile'
  BY <1>10, <1>a, JoinedSame DEF Publish, NoFrozenTile, TypeOK
<1>11. ASSUME NEW t \in Tracks, Forward(t) PROVE NoFrozenTile'
  <2>1. Stands(t[1])
    BY <1>11 DEF Forward, StandInv
  <2>2. UNCHANGED <<peers, replaced, pc, closing>> /\ pub[t] = "starting"
    BY <1>11 DEF Forward
  <2>3. CASE closed
    BY <1>11, <1>a, <2>2, <2>3, JoinedSame DEF Forward, NoFrozenTile, TypeOK
  <2>4. CASE ~closed
    BY <1>11, <1>a, <2>1, <2>2, <2>4, JoinedSame DEF Forward, NoFrozenTile, Stands, TypeOK
  <2> QED BY <2>3, <2>4
<1>12. ASSUME NEW t \in Tracks, StopForwarding(t) PROVE NoFrozenTile'
  BY <1>12, <1>a, JoinedSame DEF StopForwarding, LoopEnds, NoFrozenTile, TypeOK
<1> QED
  BY <1>1, <1>2, <1>3, <1>4, <1>5, <1>6, <1>7, <1>8, <1>9, <1>10, <1>11, <1>12, Kinds
     DEF Membership

\* Senders.
LEMMA SyncStep ==
    ASSUME ClosedIsEmpty, FreshInv, JoinedInv, SyncInv, Next
    PROVE  SyncInv'
<1> USE DEF room, talk, conns, session
<1>1. CASE Membership
  <2>1. /\ UNCHANGED senders /\ (sync => sync')
        /\ \A d \in Conns : Joined(d)' => Joined(d) \/ call[d] = "making"
        /\ \A d \in Conns : ready'[d] => ready[d] \/ (Joined(d) /\ sync')
        /\ \/ sync' \/ closing' # {} \/ \A d \in Conns : ~Joined(d)'
           \/ UNCHANGED <<forwards, closing>>
    BY <1>1, MembershipStep
  <2>2. \A d \in Conns : call[d] = "making" => ~ready[d] /\ ~Joined(d)
    BY DEF FreshInv, Fresh
  <2> QED BY <2>1, <2>2, DesiredSame DEF SyncInv
<1>2. CASE Synchronize
  BY <1>2, SynchronizeStep, JoinedSame, DesiredSame DEF SyncInv
<1>3. ASSUME NEW c \in Conns, SignalAnswer(c) \/ SignalStrayAnswer(c) PROVE SyncInv'
  BY <1>3 DEF SignalAnswer, SignalStrayAnswer, Answered, SyncInv
<1>4. ASSUME NEW c \in Conns,
             Mark(c) \/ StartOffer(c) \/ SendOffer(c) \/ OfferFails(c) \/ EmitFails(c)
      PROVE  SyncInv'
  <2>1. UNCHANGED <<session, senders, sync>>
    BY <1>4 DEF Mark, StartOffer, SendOffer, OfferFails, EmitFails, todo
  <2> QED BY <2>1, JoinedSame, DesiredSame DEF SyncInv
<1> QED
  BY <1>1, <1>2, <1>3, <1>4, Kinds DEF Negotiation

\* The flag.
LEMMA FlagStep ==
    ASSUME ClosedIsEmpty, FlagInv, Next
    PROVE  FlagInv'
<1> USE DEF talk, broken
<1>a. TypeOK
  BY DEF ClosedIsEmpty
<1>1. CASE Membership
  BY <1>1, MembershipStep DEF FlagInv
<1>2. CASE Synchronize
  BY <1>2 DEF Synchronize, FlagInv
<1>3. ASSUME NEW c \in Conns, SignalAnswer(c) PROVE FlagInv'
  BY <1>3, <1>a DEF SignalAnswer, Answered, FlagInv, TypeOK
<1>4. ASSUME NEW c \in Conns, SignalStrayAnswer(c) PROVE FlagInv'
  BY <1>4, <1>a DEF SignalStrayAnswer, Answered, FlagInv, TypeOK
<1>5. ASSUME NEW c \in Conns, StartOffer(c) PROVE FlagInv'
  BY <1>5, <1>a DEF StartOffer, Began, FlagInv, TypeOK
<1>6. ASSUME NEW c \in Conns, Mark(c) \/ SendOffer(c) \/ OfferFails(c) \/ EmitFails(c)
      PROVE  FlagInv'
  BY <1>6, <1>a DEF Mark, SendOffer, OfferFails, EmitFails, FlagInv, TypeOK
<1> QED
  BY <1>1, <1>2, <1>3, <1>4, <1>5, <1>6, Kinds DEF Negotiation

\* Offers.
LEMMA OfferStep ==
    ASSUME ClosedIsEmpty, FreshInv, JoinedInv, OfferInv, Next
    PROVE  OfferInv'
<1> USE DEF room, talk, broken, todo, session
<1>a. TypeOK
  BY DEF ClosedIsEmpty
<1>1. CASE Membership
  <2>1. /\ UNCHANGED <<senders, talk, marking>>
        /\ \A d \in Conns : Joined(d)' => Joined(d) \/ call[d] = "making"
    BY <1>1, MembershipStep
  <2>2. \A d \in Conns : call[d] = "making" => offer[d] = "no" /\ agreed[d] = senders[d]
    BY DEF FreshInv, Fresh
  <2> QED BY <2>1, <2>2 DEF OfferInv
<1>2. CASE Synchronize
  BY <1>2, SynchronizeStep, JoinedSame DEF OfferInv
<1>3. ASSUME NEW c \in Conns, SignalAnswer(c) PROVE OfferInv'
  BY <1>3, <1>a, JoinedSame DEF SignalAnswer, Answered, OfferInv, TypeOK
<1>4. ASSUME NEW c \in Conns, SignalStrayAnswer(c) PROVE OfferInv'
  BY <1>4, <1>a, JoinedSame DEF SignalStrayAnswer, Answered, OfferInv, TypeOK
<1>5. ASSUME NEW c \in Conns, Mark(c) PROVE OfferInv'
  BY <1>5, <1>a, JoinedSame DEF Mark, OfferInv, TypeOK
<1>6. ASSUME NEW c \in Conns, StartOffer(c) PROVE OfferInv'
  BY <1>6, <1>a, JoinedSame DEF StartOffer, Began, OfferInv, TypeOK
<1>7. ASSUME NEW c \in Conns, SendOffer(c) PROVE OfferInv'
  BY <1>7, <1>a, JoinedSame DEF SendOffer, OfferInv, TypeOK
<1>8. ASSUME NEW c \in Conns, OfferFails(c) PROVE OfferInv'
  BY <1>8, <1>a, JoinedSame DEF OfferFails, OfferInv, TypeOK
<1>9. ASSUME NEW c \in Conns, EmitFails(c) PROVE OfferInv'
  BY <1>9, <1>a, JoinedSame DEF EmitFails, OfferInv, TypeOK
<1> QED
  BY <1>1, <1>2, <1>3, <1>4, <1>5, <1>6, <1>7, <1>8, <1>9, Kinds DEF Negotiation

\* Changes that wait.
LEMMA DirtyStep ==
    ASSUME ClosedIsEmpty, FreshInv, JoinedInv, FlagInv, DirtyInv, Next
    PROVE  DirtyInv'
<1> USE DEF room, talk, broken, todo, session
<1>a. TypeOK
  BY DEF ClosedIsEmpty
<1>1. CASE Membership
  <2>1. /\ UNCHANGED <<talk, marking, offering>> /\ (sync => sync')
        /\ \A d \in Conns : Joined(d)' => Joined(d) \/ call[d] = "making"
        /\ \A d \in Conns : ready'[d] => ready[d] \/ (Joined(d) /\ sync')
    BY <1>1, MembershipStep
  <2>2. \A d \in Conns : call[d] = "making" => ~dirty[d]
    BY DEF FreshInv, Fresh
  <2> QED BY <2>1, <2>2 DEF DirtyInv
<1>2. CASE Synchronize
  BY <1>2, SynchronizeStep, JoinedSame DEF DirtyInv
<1>3. ASSUME NEW c \in Conns, SignalAnswer(c) \/ SignalStrayAnswer(c) PROVE DirtyInv'
  BY <1>3 DEF SignalAnswer, SignalStrayAnswer, Answered, DirtyInv
<1>4. ASSUME NEW c \in Conns, Mark(c) PROVE DirtyInv'
  BY <1>4, <1>a, JoinedSame DEF Mark, DirtyInv, TypeOK
<1>5. ASSUME NEW c \in Conns, StartOffer(c) PROVE DirtyInv'
  BY <1>5, <1>a, JoinedSame DEF StartOffer, Began, DirtyInv, FlagInv, TypeOK
<1>6. ASSUME NEW c \in Conns, SendOffer(c) PROVE DirtyInv'
  BY <1>6, <1>a, JoinedSame DEF SendOffer, DirtyInv, TypeOK
<1>7. ASSUME NEW c \in Conns, OfferFails(c) PROVE DirtyInv'
  BY <1>7, <1>a, JoinedSame DEF OfferFails, DirtyInv, TypeOK
<1>8. ASSUME NEW c \in Conns, EmitFails(c) PROVE DirtyInv'
  BY <1>8, <1>a, JoinedSame DEF EmitFails, DirtyInv, TypeOK
<1> QED
  BY <1>1, <1>2, <1>3, <1>4, <1>5, <1>6, <1>7, <1>8, Kinds DEF Negotiation

-----------------------------------------------------------------------------
(* The invariant is inductive.                                             *)

LEMMA InvInit == Init => Inv
<1> SUFFICES ASSUME Init PROVE Inv OBVIOUS
<1>1. Owner \in [Conns -> Participants] /\ None \notin Conns /\ MaxFaults \in Nat
  BY HuddleAssumption
<1>2. \A c \in Conns : ~Joined(c)
  BY <1>1 DEF Init, Joined
<1>3. ClosedIsEmpty
  <2>1. closed \in BOOLEAN /\ sync \in BOOLEAN /\ ~closed
    BY DEF Init
  <2>2. /\ peers \in [Participants -> Conns \cup {None}]
            /\ \A p \in Participants : peers[p] = None
        /\ forwards \subseteq Tracks /\ marking \subseteq Conns /\ offering \subseteq Conns
    BY DEF Init
  <2>3. /\ callbacks \subseteq Conns \X {"failed", "closed"}
        /\ closing \subseteq Conns /\ hurt \subseteq Conns /\ crossed \subseteq Conns
        /\ replaced \subseteq Conns /\ faults \in 0..MaxFaults
    BY <1>1 DEF Init
  <2>4. /\ call \in [Conns -> {"idle", "joining", "making", "answering", "done", "failed"}]
        /\ pc \in [Conns -> {"none", "open", "failed", "closed"}]
        /\ ready \in [Conns -> BOOLEAN] /\ dirty \in [Conns -> BOOLEAN]
        /\ negotiating \in [Conns -> BOOLEAN]
        /\ offer \in [Conns -> {"no", "building", "sent", "lost"}]
        /\ pub \in [Tracks -> {"none", "starting", "forwarding", "ended"}]
    BY DEF Init
  <2>5. /\ senders \in [Conns -> SUBSET Tracks]
        /\ described \in [Conns -> SUBSET Tracks] /\ agreed \in [Conns -> SUBSET Tracks]
        /\ \A c \in Conns : \A t \in senders[c] : OwnerOf(t) # Owner[c]
    BY DEF Init
  <2> QED BY <2>1, <2>2, <2>3, <2>4, <2>5 DEF ClosedIsEmpty, TypeOK
<1>4. FreshInv /\ JoinedInv
  BY <1>2 DEF Init, FreshInv, Fresh, JoinedInv
<1>5. StandInv /\ NoFrozenTile
  BY DEF Init, StandInv, NoFrozenTile
<1>6. SyncInv /\ FlagInv /\ OfferInv /\ DirtyInv
  BY <1>2 DEF Init, SyncInv, FlagInv, OfferInv, DirtyInv
<1> QED BY <1>3, <1>4, <1>5, <1>6 DEF Inv

LEMMA InvStep == Inv /\ [Next]_vars => Inv'
<1> SUFFICES ASSUME Inv, [Next]_vars PROVE Inv' OBVIOUS
<1>1. TypeOK
  BY DEF Inv, ClosedIsEmpty
<1>2. CASE Next
  <2>1. ClosedIsEmpty' /\ FreshInv' /\ JoinedInv'
    BY <1>1, <1>2, ClosedStep, FreshStep, JoinedStep DEF Inv
  <2>2. StandInv' /\ NoFrozenTile'
    BY <1>1, <1>2, StandStep, FrozenStep DEF Inv
  <2>3. SyncInv' /\ FlagInv' /\ OfferInv' /\ DirtyInv'
    BY <1>2, SyncStep, FlagStep, OfferStep, DirtyStep DEF Inv
  <2> QED BY <2>1, <2>2, <2>3 DEF Inv
<1>3. CASE UNCHANGED vars
  <2> USE DEF vars, room, todo, talk, broken, conns, session
  <2>1. ClosedIsEmpty'
    BY <1>3 DEF Inv, ClosedIsEmpty, TypeOK
  <2>2. FreshInv' /\ JoinedInv'
    BY <1>3 DEF Inv, FreshInv, Fresh, JoinedInv, Joined
  <2>3. StandInv' /\ NoFrozenTile'
    BY <1>3 DEF Inv, StandInv, Stands, NoFrozenTile, Joined
  <2>4. SyncInv'
    BY <1>3, DesiredSame DEF Inv, SyncInv, Joined
  <2>5. FlagInv' /\ OfferInv' /\ DirtyInv'
    BY <1>3 DEF Inv, FlagInv, OfferInv, DirtyInv, Joined
  <2> QED BY <2>1, <2>2, <2>3, <2>4, <2>5 DEF Inv
<1> QED BY <1>2, <1>3

\* A settled peer has its senders agreed, and they are what it should receive.
LEMMA InvSettled == Inv => NothingLeftToOffer
<1> SUFFICES ASSUME Inv, NEW c \in Conns, Joined(c), ready[c], c \notin hurt \cup crossed,
                    Settled(c)
             PROVE  agreed[c] = Desired(c)
  BY DEF NothingLeftToOffer
<1>1. ~sync /\ closing = {} /\ c \notin marking /\ c \notin offering
  BY DEF Settled
<1>2. offer[c] = "no"
  BY DEF Settled, Inv, FlagInv
<1>3. senders[c] = Desired(c)
  BY <1>1 DEF Inv, SyncInv
<1>4. ~dirty[c]
  BY <1>1, <1>2 DEF Inv, DirtyInv
<1>5. agreed[c] = senders[c]
  BY <1>1, <1>2, <1>4 DEF Inv, OfferInv
<1> QED BY <1>3, <1>5

-----------------------------------------------------------------------------
(* The theorems.                                                           *)

\* A closed room is and stays empty: a Join that made its connection while Close
\* ran, or a publish on its way to the lock, looks at Room.closed again.
THEOREM RoomClosed == Spec => []ClosedIsEmpty
<1>1. Inv => ClosedIsEmpty
  BY DEF Inv
<1> QED BY <1>1, InvInit, InvStep, PTL DEF Spec

\* No change of what a participant should receive is lost between negotiations:
\* when neither synchronize nor an offer is under way for a ready peer, whose lost
\* signals an applied answer has made up for, the last answered offer described
\* everyone else's tracks (synchronize, offer, Signal).
THEOREM ChangesOffered == Spec => []NothingLeftToOffer
BY InvInit, InvStep, InvSettled, PTL DEF Spec

\* What is forwarded comes from a participant's connection and has its loop or is
\* a screen, or comes from a connection replaced by another of its owner, or its
\* read loop is about to end and take it away (publish, Leave, setScreenActive).
THEOREM NoTileFreezes == Spec => []NoFrozenTile
<1>1. Inv => NoFrozenTile
  BY DEF Inv
<1> QED BY <1>1, InvInit, InvStep, PTL DEF Spec
=============================================================================
