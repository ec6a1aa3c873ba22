----------------------------- MODULE HuddleRoom -----------------------------
(***************************************************************************)
(* The forwarding unit of one huddle: internal/huddlesfu/room.go, reached  *)
(* through Manager.Offer, Signal and Close (manager.go).  Nothing in the   *)
(* server calls Manager.Leave, so a participant leaves when the connection *)
(* fails and the room lives until Close.                                   *)
(*                                                                         *)
(* Every locked section is one step.  The goroutines that call synchronize *)
(* are the flag sync, and the peers one of them has still to treat are the *)
(* sets marking (senders changed) and offering: a second goroutine at the  *)
(* same point would do the same again.  The WebRTC library is external: it *)
(* runs a connection's state callback in a goroutine of its own, and an    *)
(* offer describes the senders of the moment it is made.  SDP and ICE are  *)
(* left out.                                                               *)
(***************************************************************************)
EXTENDS Naturals, FiniteSets

CONSTANTS Participants,
          Conns,      \* publish offers, each with the connection it may make
          Owner,      \* Owner[c]: the participant who sends offer c
          Cameras,    \* those that publish a camera
          Screens,    \* those that declare a screen lane
          MaxFaults   \* bound on failures, lost signals, screen toggles and shutdown

None == "none"

ASSUME HuddleAssumption ==
    /\ IsFiniteSet(Conns) /\ None \notin Conns /\ Cameras \cup Screens \subseteq Conns
    /\ Owner \in [Conns -> Participants] /\ MaxFaults \in Nat

Tracks == (Cameras \X {"camera"}) \cup (Screens \X {"screen"})

OwnerOf(t) == Owner[t[1]]

VARIABLES
    closed,    \* Room.closed
    peers,     \* Room.peers, by participant
    forwards,  \* Room.forwards
    call,      \* call[c]: how far Manager.Offer has got
    pc,        \* pc[c]: the peer connection
    ready, dirty,
    negotiating,
    offer,     \* offer[c]: how far the offer under way has got
    senders,   \* senders[c]: tracks bound to the connection
    described, \* described[c]: those in the offer that is out
    agreed,    \* agreed[c]: those in the last offer answered
    pub,       \* pub[t]: the goroutine of publish for the track t
    sync, marking, offering,
    callbacks, \* state callbacks that have yet to run
    closing,   \* connections out of the room that have yet to be closed
    hurt,      \* connections that lost an offer or answer and applied none since
    crossed,   \* connections that got an answer to no offer of the moment
    replaced,  \* connections another of the same participant took the place of
    faults

room == <<closed, peers, forwards, replaced>>
broken  == <<hurt, crossed>>
talk    == <<dirty, negotiating, offer, described, agreed, broken>>
flow    == <<ready, senders, talk>>
todo    == <<sync, marking, offering>>
conns   == <<pc, callbacks, closing>>
session == <<room, call, conns, ready, pub>>
vars    == <<session, senders, talk, todo, faults>>

TypeOK ==
    /\ closed \in BOOLEAN
    /\ peers \in [Participants -> Conns \cup {None}]
    /\ \A p \in Participants : peers[p] # None => Owner[peers[p]] = p /\ pc[peers[p]] # "none"
    /\ forwards \subseteq Tracks
    /\ call \in [Conns -> {"idle", "joining", "making", "answering", "done", "failed"}]
    /\ pc \in [Conns -> {"none", "open", "failed", "closed"}]
    /\ ready \in [Conns -> BOOLEAN] /\ dirty \in [Conns -> BOOLEAN]
    /\ negotiating \in [Conns -> BOOLEAN]
    /\ offer \in [Conns -> {"no", "building", "sent", "lost"}]
    /\ senders \in [Conns -> SUBSET Tracks]
    /\ described \in [Conns -> SUBSET Tracks] /\ agreed \in [Conns -> SUBSET Tracks]
    /\ \A c \in Conns : \A t \in senders[c] : OwnerOf(t) # Owner[c]
    /\ pub \in [Tracks -> {"none", "starting", "forwarding", "ended"}]
    /\ sync \in BOOLEAN /\ marking \subseteq Conns /\ offering \subseteq Conns
    /\ callbacks \subseteq Conns \X {"failed", "closed"}
    /\ closing \subseteq Conns /\ hurt \subseteq Conns /\ crossed \subseteq Conns
    /\ replaced \subseteq Conns /\ faults \in 0..MaxFaults

Init ==
    /\ closed = FALSE /\ peers = [p \in Participants |-> None] /\ forwards = {}
    /\ call = [c \in Conns |-> "idle"] /\ pc = [c \in Conns |-> "none"]
    /\ ready = [c \in Conns |-> FALSE] /\ dirty = [c \in Conns |-> FALSE]
    /\ negotiating = [c \in Conns |-> FALSE] /\ offer = [c \in Conns |-> "no"]
    /\ senders = [c \in Conns |-> {}] /\ described = [c \in Conns |-> {}]
    /\ agreed = [c \in Conns |-> {}]
    /\ pub = [t \in Tracks |-> "none"]
    /\ sync = FALSE /\ marking = {} /\ offering = {}
    /\ callbacks = {} /\ closing = {} /\ hurt = {} /\ crossed = {} /\ replaced = {} /\ faults = 0

Fault == faults < MaxFaults /\ faults' = faults + 1

Joined(c) == peers[Owner[c]] = c

\* What a participant should receive: everyone else's tracks.
Desired(c) == {t \in forwards : OwnerOf(t) # Owner[c]}

-----------------------------------------------------------------------------
(* Manager.Offer: room, Join and Answer.                                   *)

\* Manager.room: the participant may be in the room already.
Offer(c) ==
    /\ call[c] = "idle" /\ ~closed
    /\ call' = [call EXCEPT ![c] = IF peers[Owner[c]] # None THEN "answering" ELSE "joining"]
    /\ UNCHANGED <<room, conns, flow, pub, todo, faults>>

\* Join, first lock; the connection is made without it.
Join(c) ==
    /\ call[c] = "joining"
    /\ IF closed \/ peers[Owner[c]] # None
       THEN call' = [call EXCEPT ![c] = "failed"] /\ UNCHANGED pc
       ELSE call' = [call EXCEPT ![c] = "making"] /\ pc' = [pc EXCEPT ![c] = "open"]
    /\ UNCHANGED <<room, callbacks, closing, flow, pub, todo, faults>>

\* Mutant: the room is not looked at again.
RegisterBlindly(c) ==
    /\ call[c] = "making"
    /\ peers' = [peers EXCEPT ![Owner[c]] = c]
    /\ call' = [call EXCEPT ![c] = "answering"]
    /\ UNCHANGED <<closed, forwards, replaced, conns, flow, pub, todo, faults>>

\* Join, second lock: only whether the room was closed is checked again.
Register(c) ==
    /\ call[c] = "making"
    /\ IF closed
       THEN /\ call' = [call EXCEPT ![c] = "failed"]
            /\ closing' = closing \cup {c}
            /\ UNCHANGED <<peers, replaced>>
       ELSE /\ replaced' = replaced \cup ({peers[Owner[c]]} \ {None})
            /\ peers' = [peers EXCEPT ![Owner[c]] = c]
            /\ call' = [call EXCEPT ![c] = "answering"]
            /\ UNCHANGED closing
    /\ UNCHANGED <<closed, forwards, pc, callbacks, flow, pub, todo, faults>>

\* Answer: of whichever connection the participant has by now.  One that is no
\* longer open refuses the offer, and so may one that another page made; a
\* participant whose own offer is refused stays in the room, not ready.
Answer(c) ==
    LET current == peers[Owner[c]]
    IN  /\ call[c] = "answering"
        /\ \/ /\ IF current = c /\ pc[c] = "open" THEN Fault ELSE UNCHANGED faults
              /\ call' = [call EXCEPT ![c] = "failed"]
              /\ UNCHANGED <<ready, sync>>
           \/ /\ current # None /\ pc[current] = "open"
              /\ ready' = [ready EXCEPT ![current] = TRUE]
              /\ call' = [call EXCEPT ![c] = "done"]
              /\ sync' = TRUE /\ UNCHANGED faults
        /\ UNCHANGED <<room, conns, senders, talk, pub, marking, offering>>

-----------------------------------------------------------------------------
(* Renegotiation.                                                          *)

\* synchronize, under the room's lock: every peer's senders become what it
\* should receive.  A closed connection refuses the change.
Synchronize ==
    LET here    == {c \in Conns : Joined(c)}
        changed == {c \in here : pc[c] # "closed" /\ senders[c] # Desired(c)}
    IN  /\ sync /\ sync' = FALSE
        /\ IF closed THEN UNCHANGED <<senders, marking, offering>>
           ELSE /\ senders' = [c \in Conns |-> IF c \in changed THEN Desired(c) ELSE senders[c]]
                /\ marking' = marking \cup changed
                /\ offering' = offering \cup (here \ changed)
        /\ UNCHANGED <<session, talk, faults>>

\* Its second part, peer by peer and without that lock.
Mark(c) ==
    /\ c \in marking /\ marking' = marking \ {c}
    /\ dirty' = [dirty EXCEPT ![c] = TRUE]
    /\ offering' = offering \cup {c}
    /\ UNCHANGED <<session, senders, negotiating, offer, described, agreed, broken, sync, faults>>

\* What offer does under the peer's lock.
Began(c) ==
    /\ negotiating' = [negotiating EXCEPT ![c] = TRUE]
    /\ offer' = [offer EXCEPT ![c] = "building"]

\* Mutant: what waits for an answer is forgotten when it is put off.
StartOfferForgets(c) ==
    /\ c \in offering /\ offering' = offering \ {c}
    /\ dirty' = [dirty EXCEPT ![c] = FALSE]
    /\ IF ready[c] /\ ~negotiating[c] /\ dirty[c] THEN Began(c)
       ELSE UNCHANGED <<negotiating, offer>>
    /\ UNCHANGED <<session, senders, described, agreed, broken, sync, marking, faults>>

\* offer: put off while one is outstanding.
StartOffer(c) ==
    /\ c \in offering /\ offering' = offering \ {c}
    /\ IF ready[c] /\ ~negotiating[c] /\ dirty[c]
       THEN Began(c) /\ dirty' = [dirty EXCEPT ![c] = FALSE]
       ELSE UNCHANGED <<dirty, negotiating, offer>>
    /\ UNCHANGED <<session, senders, described, agreed, broken, sync, marking, faults>>

SendOffer(c) ==
    /\ offer[c] = "building" /\ pc[c] # "closed"
    /\ described' = [described EXCEPT ![c] = senders[c]]
    /\ offer' = [offer EXCEPT ![c] = "sent"]
    /\ UNCHANGED <<session, senders, dirty, negotiating, agreed, broken, todo, faults>>

\* The third attempt to make it fails as well: the change waits for a later
\* synchronize.
OfferFails(c) ==
    /\ offer[c] = "building"
    /\ IF pc[c] = "closed" THEN UNCHANGED faults ELSE Fault
    /\ offer' = [offer EXCEPT ![c] = "no"]
    /\ negotiating' = [negotiating EXCEPT ![c] = FALSE]
    /\ dirty' = [dirty EXCEPT ![c] = TRUE]
    /\ hurt' = hurt \cup {c}
    /\ UNCHANGED <<session, senders, described, agreed, crossed, todo>>

\* EmitHuddleSignal fails, which nobody hears of.
EmitFails(c) ==
    /\ offer[c] = "sent" /\ Fault
    /\ offer' = [offer EXCEPT ![c] = "lost"]
    /\ UNCHANGED <<session, senders, dirty, negotiating, described, agreed, broken, todo>>

\* Room.Signal, an answer: applied or not, the next offer may go.
Answered(c) ==
    /\ Joined(c) /\ pc[c] = "open"
    /\ negotiating' = [negotiating EXCEPT ![c] = FALSE]
    /\ sync' = TRUE
    /\ UNCHANGED <<session, senders, dirty, marking, offering>>

\* The answer to the offer that is out.
SignalAnswer(c) ==
    /\ offer[c] = "sent" /\ Answered(c)
    /\ \/ /\ agreed' = [agreed EXCEPT ![c] = described[c]]
          /\ hurt' = hurt \ {c} /\ UNCHANGED faults
       \/ Fault /\ hurt' = hurt \cup {c} /\ UNCHANGED agreed
    /\ offer' = [offer EXCEPT ![c] = "no"] /\ described' = [described EXCEPT ![c] = {}]
    /\ UNCHANGED crossed

\* Another one: late, or of a second page, which hears the offers as well.  What
\* is under way goes on without its flag.
SignalStrayAnswer(c) ==
    /\ Fault /\ Answered(c)
    /\ agreed' \in {agreed, [agreed EXCEPT ![c] = described[c]]}
    /\ crossed' = crossed \cup {c}
    /\ UNCHANGED <<offer, described, hurt>>

-----------------------------------------------------------------------------
(* Tracks.                                                                 *)

\* publish, as far as the lock: the track is made for whoever owns it.
Publish(t) ==
    /\ pub[t] = "none" /\ ready[t[1]] /\ pc[t[1]] = "open"
    /\ pub' = [pub EXCEPT ![t] = "starting"]
    /\ UNCHANGED <<room, call, conns, flow, todo, faults>>

Forward(t) ==
    /\ pub[t] = "starting"
    /\ IF closed
       THEN pub' = [pub EXCEPT ![t] = "ended"] /\ UNCHANGED <<forwards, sync>>
       ELSE /\ pub' = [pub EXCEPT ![t] = "forwarding"]
            /\ forwards' = forwards \cup {t}
            /\ sync' = TRUE
    /\ UNCHANGED <<closed, peers, replaced, call, conns, flow, marking, offering, faults>>

\* The read loop ends: with its connection, or on an error of its own.
LoopEnds(t) ==
    /\ pub[t] = "forwarding" /\ pub' = [pub EXCEPT ![t] = "ended"]
    /\ IF pc[t[1]] = "closed" THEN UNCHANGED faults ELSE Fault

\* Mutant: the packets end and the track stays with the others.
StopForwardingKeeps(t) ==
    /\ LoopEnds(t)
    /\ UNCHANGED <<room, call, conns, flow, todo>>

StopForwarding(t) ==
    /\ LoopEnds(t)
    /\ forwards' = forwards \ {t}
    /\ sync' = TRUE
    /\ UNCHANGED <<closed, peers, replaced, call, conns, flow, marking, offering>>

\* setScreenActive: the retained track is taken off the tiles or put back,
\* whether or not its loop still runs.
SetScreenActive(c, active) ==
    /\ c \in Screens /\ Joined(c) /\ ~closed /\ pub[<<c, "screen">>] # "none" /\ Fault
    /\ forwards' = IF active THEN forwards \cup {<<c, "screen">>} ELSE forwards \ {<<c, "screen">>}
    /\ sync' = TRUE
    /\ UNCHANGED <<closed, peers, replaced, call, conns, flow, pub, marking, offering>>

-----------------------------------------------------------------------------
(* Leaving.                                                                *)

\* A connection fails: its browser is gone.
Fail(c) ==
    /\ pc[c] = "open" /\ ready[c] /\ Fault
    /\ pc' = [pc EXCEPT ![c] = "failed"]
    /\ callbacks' = callbacks \cup {<<c, "failed">>}
    /\ UNCHANGED <<room, call, closing, flow, pub, todo>>

\* Leave, under its lock and by name: whichever connection the participant has
\* by now.
Leave(p) ==
    IF peers[p] = None THEN UNCHANGED <<peers, forwards, closing>>
    ELSE /\ peers' = [peers EXCEPT ![p] = None]
         /\ forwards' = {t \in forwards : OwnerOf(t) # p}
         /\ closing' = closing \cup {peers[p]}

\* OnConnectionStateChange.
Callback(c, state) ==
    /\ <<c, state>> \in callbacks /\ callbacks' = callbacks \ {<<c, state>>}
    /\ Leave(Owner[c])
    /\ UNCHANGED <<closed, replaced, call, pc, flow, pub, todo, faults>>

\* Manager.Close when the server goes down, under the room's lock.
Close ==
    /\ ~closed /\ closed' = TRUE /\ Fault
    /\ peers' = [p \in Participants |-> None] /\ forwards' = {}
    /\ closing' = closing \cup {c \in Conns : Joined(c)}
    /\ UNCHANGED <<replaced, call, pc, callbacks, flow, pub, todo>>

\* pc.Close and the synchronize of Leave, after the unlock; in a closed room that
\* does nothing.  Closing makes a callback of its own.
CloseConnection(c) ==
    /\ c \in closing /\ closing' = closing \ {c}
    /\ pc' = [pc EXCEPT ![c] = "closed"]
    /\ callbacks' = callbacks \cup (IF pc[c] = "closed" THEN {} ELSE {<<c, "closed">>})
    /\ sync' = (sync \/ ~closed)
    /\ UNCHANGED <<room, call, flow, pub, marking, offering, faults>>

-----------------------------------------------------------------------------

\* Manager.Offer, and what a browser's answer sets off.
ConnStep(c) ==
    \/ Offer(c) \/ Join(c) \/ Register(c) \/ Answer(c) \/ SignalAnswer(c) \/ SignalStrayAnswer(c)
    \/ Mark(c) \/ StartOffer(c) \/ SendOffer(c) \/ OfferFails(c) \/ EmitFails(c)

Next ==
    \/ Synchronize \/ Close
    \/ \E c \in Conns :
         \/ ConnStep(c) \/ Fail(c) \/ CloseConnection(c)
         \/ \E state \in {"failed", "closed"} : Callback(c, state)
         \/ \E active \in BOOLEAN : SetScreenActive(c, active)
    \/ \E t \in Tracks : Publish(t) \/ Forward(t) \/ StopForwarding(t)

Spec == Init /\ [][Next]_vars

-----------------------------------------------------------------------------
(* Properties.                                                             *)

\* A closed room has nobody in it and forwards nothing, whoever was joining or
\* publishing when it closed (Join and publish look again).
ClosedIsEmpty ==
    TypeOK /\ (closed => forwards = {} /\ \A p \in Participants : peers[p] = None)

Settled(c) == ~sync /\ closing = {} /\ c \notin marking \cup offering /\ ~negotiating[c]

\* A change of what a participant should receive is never lost between two
\* negotiations: once nothing is under way for it, the last answered offer
\* described exactly everyone else's tracks (synchronize, offer, Signal).  One
\* whose offer failed or whose answer did not apply is promised that again from
\* the next answer that applies.
NothingLeftToOffer ==
    \A c \in Conns :
        Joined(c) /\ ready[c] /\ pc[c] = "open" /\ c \notin hurt \cup crossed /\ Settled(c)
            => agreed[c] = Desired(c)

\* Nobody who left is left as a frozen tile: what is forwarded comes from the
\* connection of a participant, and its loop runs or it is a screen, which is put
\* back unseen (setScreenActive); or its connection is about to be closed and its
\* loop to end.  The exception is a connection that two offers of one participant
\* at once left behind.
NoFrozenTile ==
    \A t \in forwards :
        \/ Joined(t[1]) /\ (pub[t] = "forwarding" \/ t[2] = "screen")
        \/ t[1] \in replaced
        \/ pub[t] = "forwarding" /\ (pc[t[1]] = "closed" \/ t[1] \in closing)
=============================================================================
