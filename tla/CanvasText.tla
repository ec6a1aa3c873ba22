----------------------------- MODULE CanvasText -----------------------------
(***************************************************************************)
(* Editing one canvas together: the stored text and its writes             *)
(* (service/canvas_text.go, canvases.go, UpdateCanvas of the store) and    *)
(* the open editors (canvasEditorScript of web/handler.go), each with its  *)
(* own replica of the text.                                                *)
(*                                                                         *)
(* A page sends what was typed as operations, one batch at a time; it      *)
(* hears of every write on its event stream, from the head it was rendered *)
(* at; a write too big for its record makes it fetch the text and replay   *)
(* what it has not had acknowledged.  Rendering, sections, carets and      *)
(* presence are left out: the document a page shows is its replica's text. *)
(***************************************************************************)
EXTENDS TextSequence

CONSTANTS Pages,        \* open editors, by the order of their replica names
          Late,         \* those opened after the canvas may have been written
          MaxEdits,     \* bound on what is typed and written
          MaxLength,    \* domain.CanvasMarkdownLimit, in characters
          Attempts,     \* canvasTextAttempts
          Resyncs,      \* how often in a row a page fetches again (3)
          MaxRare       \* bound on failed requests and on writes too big for
                        \* their record, together

Server == 0      \* canvasServerReplica
Seed   == -1     \* canvasSeedReplica

ASSUME CanvasTextAssumption ==
    /\ Pages \subseteq Nat \ {0} /\ IsFiniteSet(Pages) /\ Late \subseteq Pages
    /\ {MaxEdits, MaxLength, Resyncs, MaxRare} \subseteq Nat
    /\ Attempts \in Nat \ {0}

VARIABLES
    text,    \* canvases.text_state
    journal, \* journal[v]: the record of the write that made version v
    page,    \* page[p]: what the editor p holds
    request, \* request[p]: its POST
    strays,  \* batches of POSTs given up on, which may still arrive
    acked,   \* characters <<name, value>> whose batch was answered ok
    edits, rare

vars == <<text, journal, page, request, strays, acked, edits, rare>>

Idle   == [state |-> "idle", batch |-> <<>>, base |-> 0, read |-> <<>>, tries |-> 0]
Closed == [state |-> "closed", doc |-> Empty, queue |-> <<>>, cursor |-> 0,
           fetch |-> "none", got |-> <<>>, buffer |-> <<>>, again |-> 0]

Version == Len(journal)

\* The characters an operation inserts, each with its value.
Written(op) == {<<(<<op.id[1] + i - 1, op.id[2]>>), op.text[i]>> : i \in DOMAIN op.text}

Chars(nodes) == {<<nodes[i].id, nodes[i].value>> : i \in DOMAIN nodes}

\* A replica has each character once.
Distinct(nodes) == \A i, j \in DOMAIN nodes : nodes[i].id = nodes[j].id => i = j

TypeOK ==
    /\ \A i \in DOMAIN text : text[i].id[2] \in Pages \cup {Server, Seed} /\ text[i].id[1] > 0
    /\ Distinct(text)
    /\ \A p \in Pages :
         /\ page[p].state \in {"closed", "opening", "open", "stopped"}
         /\ page[p].fetch \in {"none", "asked", "answered"}
         /\ page[p].cursor \in 0..Version
         /\ page[p].again \in 0..(Resyncs + 1)
         /\ Distinct(page[p].doc.nodes)
         /\ \A i \in DOMAIN page[p].queue :
                IsInsert(page[p].queue[i]) => page[p].queue[i].id[2] = p
         /\ request[p].state \in {"idle", "sent", "read", "ok", "invalid", "large"}
         /\ request[p].tries \in 0..(Attempts - 1)
         /\ request[p].batch = SubSeq(page[p].queue, 1, Len(request[p].batch))
    /\ edits \in 0..MaxEdits /\ rare \in 0..MaxRare

\* The seed every reader computes from the same sections: one character.
Init ==
    /\ text = <<Node(<<1, Seed>>, 0)>>
    /\ journal = <<>>
    /\ page = [p \in Pages |-> IF p \in Late THEN Closed
                               ELSE [Closed EXCEPT !.state = "open", !.doc = Load(text)]]
    /\ request = [p \in Pages |-> Idle]
    /\ strays = {} /\ acked = {}
    /\ edits = 0 /\ rare = 0

Rare == rare < MaxRare /\ rare' = rare + 1

-----------------------------------------------------------------------------
(* The server.                                                             *)

\* withCanvasTextChange: the operations, or that they are too big to carry.
Record(ops, big) == [ops |-> IF big THEN <<>> ELSE ops, resync |-> big]

Big(big) == IF big THEN Rare ELSE rare' = rare

\* editCanvasText over the text it read: refused when an operation cannot be
\* placed or its clock runs ahead of what the canvas has seen by then.
Merged(nodes, ops) == ApplyAll(Load(nodes), ops)

Invalid(nodes, ops) ==
    \E i \in DOMAIN ops :
        \/ Misplaced(ops[i])
        \/ IsInsert(ops[i])
           /\ ops[i].id[1] > Clock(Merged(nodes, SubSeq(ops, 1, i - 1)).nodes) + 1

\* What becomes of a batch: refused, already there, too long, or to be written.
Verdict(nodes, ops) ==
    LET merged == Merged(nodes, ops)
    IN  IF Invalid(nodes, ops) \/ merged.held # <<>> THEN "invalid"
        ELSE IF merged.nodes = nodes THEN "ok"
        ELSE IF Len(Visible(merged.nodes)) > MaxLength THEN "large"
        ELSE "write"

\* UpdateCanvas: the write and its record, in one transaction.
Write(nodes, ops) ==
    \E big \in BOOLEAN :
        /\ Big(big)
        /\ text' = nodes
        /\ journal' = Append(journal, Record(ops, big))

\* A write of the whole document: canvases.edit, a restored revision, the
\* form without script.  One that another overtook is refused and changes
\* nothing.
SyncCanvasText(prefix, removed, inserted) ==
    LET ops == Replace(text, Server, prefix, removed, inserted)
    IN  /\ edits < MaxEdits /\ edits' = edits + 1
        /\ prefix + removed <= Len(Visible(text)) /\ ops # <<>>
        /\ Write(ApplyAll(Load(text), ops).nodes, ops)
        /\ UNCHANGED <<page, request, strays, acked>>

\* editCanvasText, first half: the canvas is read.
Read(p) ==
    /\ request[p].state = "sent"
    /\ request' = [request EXCEPT ![p].state = "read", ![p].base = Version, ![p].read = text]
    /\ UNCHANGED <<text, journal, page, strays, acked, edits, rare>>

Answer(p, answer) ==
    request' = [request EXCEPT ![p] = [@ EXCEPT !.state = answer, !.base = 0, !.read = <<>>]]

\* editCanvasText, second half: refused, nothing new, or written.
Commit(p) ==
    LET r == request[p]
        verdict == Verdict(r.read, r.batch)
    IN  /\ r.state = "read"
        /\ \/ /\ verdict # "write"
              /\ Answer(p, verdict)
              /\ UNCHANGED <<text, journal, rare>>
           \/ /\ verdict = "write" /\ r.base = Version
              /\ Write(Merged(r.read, r.batch).nodes, r.batch)
              /\ Answer(p, "ok")
        /\ UNCHANGED <<page, strays, acked, edits>>

\* store.ErrConflict: the edit is redone on the newer canvas, at most
\* Attempts times; then it is answered as unavailable and the page resends.
Conflict(p) ==
    LET r == request[p]
    IN  /\ r.state = "read" /\ r.base # Version
        /\ Verdict(r.read, r.batch) = "write"
        /\ request' = [request EXCEPT ![p] =
              IF r.tries + 1 < Attempts
              THEN [r EXCEPT !.state = "sent", !.base = 0, !.read = <<>>, !.tries = @ + 1]
              ELSE Idle]
        /\ UNCHANGED <<text, journal, page, strays, acked, edits, rare>>

\* A batch whose page gave up waiting reaches the server after all.
StrayArrives(ops) ==
    /\ ops \in strays /\ strays' = strays \ {ops}
    /\ IF Verdict(text, ops) = "write"
       THEN Write(Merged(text, ops).nodes, ops)
       ELSE UNCHANGED <<text, journal, rare>>
    /\ UNCHANGED <<page, request, acked, edits>>

-----------------------------------------------------------------------------
(* A page.                                                                 *)

\* renderCanvas: the stream's head is read before the canvas is.
Open(p) ==
    /\ page[p].state = "closed"
    /\ page' = [page EXCEPT ![p] = [@ EXCEPT !.state = "opening", !.cursor = Version]]
    /\ UNCHANGED <<text, journal, request, strays, acked, edits, rare>>

Render(p) ==
    /\ page[p].state = "opening"
    /\ page' = [page EXCEPT ![p] = [@ EXCEPT !.state = "open", !.doc = Load(text)]]
    /\ UNCHANGED <<text, journal, request, strays, acked, edits, rare>>

\* Typing, captured as the smallest edit of the page's replica.
Capture(p, prefix, removed, inserted) ==
    LET ops == Replace(page[p].doc.nodes, p, prefix, removed, inserted)
    IN  /\ page[p].state = "open"
        /\ edits < MaxEdits /\ edits' = edits + 1
        /\ prefix + removed <= Len(Visible(page[p].doc.nodes)) /\ ops # <<>>
        /\ page' = [page EXCEPT ![p].doc = ApplyAll(@, ops), ![p].queue = @ \o ops]
        /\ UNCHANGED <<text, journal, request, strays, acked, rare>>

\* send: sends never overlap; a batch is the queue as it stands.
Send(p) ==
    /\ page[p].state = "open" /\ request[p].state = "idle" /\ page[p].queue # <<>>
    /\ request' = [request EXCEPT ![p] = [Idle EXCEPT !.state = "sent", !.batch = page[p].queue]]
    /\ UNCHANGED <<text, journal, page, strays, acked, edits, rare>>

\* Mutant: a batch that failed is forgotten.
SendFailsForgets(p) ==
    /\ request[p].state # "idle" /\ Rare
    /\ request' = [request EXCEPT ![p] = Idle]
    /\ page' = [page EXCEPT ![p].queue = SubSeq(@, Len(request[p].batch) + 1, Len(@))]
    /\ UNCHANGED <<text, journal, strays, acked, edits>>

\* The POST fails on the way there or back; the queue is kept and sent again
\* later.  The server may have it already, or may still get it.
SendFails(p) ==
    /\ request[p].state # "idle" /\ Rare
    /\ strays' = IF request[p].state \in {"sent", "read"}
                 THEN strays \cup {request[p].batch} ELSE strays
    /\ request' = [request EXCEPT ![p] = Idle]
    /\ UNCHANGED <<text, journal, page, acked, edits>>

\* The answer: the batch leaves the queue, or the page stops.
Sent(p) ==
    /\ request[p].state = "ok"
    /\ page' = [page EXCEPT ![p].queue = SubSeq(@, Len(request[p].batch) + 1, Len(@))]
    /\ acked' = acked \cup UNION {Written(request[p].batch[i]) : i \in DOMAIN request[p].batch}
    /\ request' = [request EXCEPT ![p] = Idle]
    /\ UNCHANGED <<text, journal, strays, edits, rare>>

Refused(p) ==
    /\ request[p].state \in {"invalid", "large"}
    /\ page' = [page EXCEPT ![p].state = "stopped"]
    /\ request' = [request EXCEPT ![p] = Idle]
    /\ UNCHANGED <<text, journal, strays, acked, edits, rare>>

\* receive: kept for later while the text is being fetched; otherwise applied,
\* or a reason to fetch.
Receive(p) ==
    LET change  == journal[page[p].cursor + 1]
        applied == ApplyAll(page[p].doc, change.ops)
        heard   == [page[p] EXCEPT !.cursor = @ + 1]
    IN  /\ page[p].state = "open" /\ page[p].cursor < Version
        /\ page' = [page EXCEPT ![p] =
              IF page[p].fetch # "none" THEN [heard EXCEPT !.buffer = Append(@, change)]
              ELSE IF change.resync THEN [heard EXCEPT !.fetch = "asked"]
              ELSE [heard EXCEPT !.doc = applied,
                                 !.fetch = IF applied.held # <<>> THEN "asked" ELSE "none"]]
        /\ UNCHANGED <<text, journal, request, strays, acked, edits, rare>>

\* canvasText of the handler answers the text as it stands.
Fetch(p) ==
    /\ page[p].state = "open" /\ page[p].fetch = "asked"
    /\ page' = [page EXCEPT ![p].fetch = "answered", ![p].got = text]
    /\ UNCHANGED <<text, journal, request, strays, acked, edits, rare>>

FetchFails(p) ==
    /\ page[p].state = "open" /\ page[p].fetch # "none" /\ Rare
    /\ page' = [page EXCEPT ![p] = [@ EXCEPT !.state = "stopped", !.fetch = "none", !.got = <<>>]]
    /\ UNCHANGED <<text, journal, request, strays, acked, edits>>

\* Mutant: the fetched text replaces what was typed and not sent.
ReplayedNothing(p) == Load(page[p].got)

\* What the page has not had acknowledged, replayed onto what it fetched.
Replayed(p) == ApplyAll(Load(page[p].got), page[p].queue)

\* The changes heard while the text was being fetched.
CatchUp(doc, told) ==
    LET after[i \in 0..Len(told)] == IF i = 0 THEN doc ELSE ApplyAll(after[i - 1], told[i].ops)
    IN  after[Len(told)]

\* resync, once the text arrives: the changes heard meanwhile are applied, and
\* one of them may be a reason to fetch again.
Resync(p) ==
    LET told  == page[p].buffer
        fresh == CatchUp(Replayed(p), told)
        more  == fresh.held # <<>> \/ \E i \in DOMAIN told : told[i].resync
        again == IF more THEN page[p].again + 1 ELSE 0
        ended == [page[p] EXCEPT !.fetch = "none", !.got = <<>>]
    IN  /\ page[p].state = "open" /\ page[p].fetch = "answered"
        /\ page' = [page EXCEPT ![p] =
              IF Replayed(p).held # <<>> THEN [ended EXCEPT !.state = "stopped"]
              ELSE [ended EXCEPT !.doc = fresh, !.buffer = <<>>, !.again = again,
                                 !.state = IF again > Resyncs THEN "stopped" ELSE "open",
                                 !.fetch = IF more /\ again <= Resyncs THEN "asked" ELSE "none"]]
        /\ UNCHANGED <<text, journal, request, strays, acked, edits, rare>>

-----------------------------------------------------------------------------

\* A run of characters typed or written by the edit that comes next.
Runs == {<<>>, <<edits + 1>>}

PageStep(p) ==
    \/ Render(p) \/ Send(p) \/ Sent(p) \/ Refused(p)
    \/ Receive(p) \/ Fetch(p) \/ Resync(p)

ServerStep(p) == Read(p) \/ Commit(p) \/ Conflict(p)

Next ==
    \/ \E prefix \in 0..MaxLength, removed \in 0..1, inserted \in Runs :
         \/ SyncCanvasText(prefix, removed, inserted)
         \/ \E p \in Pages : Capture(p, prefix, removed, inserted)
    \/ \E ops \in strays : StrayArrives(ops)
    \/ \E p \in Pages : Open(p) \/ SendFails(p) \/ FetchFails(p) \/ PageStep(p) \/ ServerStep(p)

Spec == Init /\ [][Next]_vars

-----------------------------------------------------------------------------
(* Properties.                                                             *)

\* Two different characters were given one name.
Everywhere == Chars(text) \cup acked \cup UNION {Chars(page[p].doc.nodes) : p \in Pages}

Reused == \E c, d \in Everywhere : c[1] = d[1] /\ c # d

\* What two replicas share comes in the same order in both.
Agree(one, other) ==
    \A i, j \in DOMAIN one : \A k, l \in DOMAIN other :
        i < j /\ one[i].id = other[k].id /\ one[j].id = other[l].id => k < l

Replicas == {text} \cup {page[p].doc.nodes : p \in Pages}

\* Whatever has reached whom, any two replicas have the characters they share
\* in the same order: edits merge the same way everywhere (crdt Apply).
OrdersAgree == Reused \/ \A one, other \in Replicas : Agree(one, other)

\* What was typed on a page and has not been acknowledged is in its document,
\* also after the text was fetched anew (resync).
UnsentIsKept ==
    \A p \in Pages : page[p].state = "open" =>
        \A i \in DOMAIN page[p].queue : Named(page[p].queue[i]) \subseteq Names(page[p].doc.nodes)

\* The canvas can place whatever an open page sends, resent or late: nothing is
\* refused as stale, and no clock runs ahead (editCanvasText).
NothingRefused == \A p \in Pages : request[p].state # "invalid"

\* What the page was told is saved is in the canvas.
AcknowledgedIsStored == acked \subseteq Chars(text)

\* The same, as long as no two characters share a name.
SavedUnlessReused == Reused \/ AcknowledgedIsStored

\* A page that has heard of every write and had everything it sent answered
\* reads exactly what the canvas reads, character for character.
Quiet(p) ==
    /\ page[p].state = "open" /\ page[p].fetch = "none" /\ page[p].cursor = Version
    /\ page[p].queue = <<>>

QuietPagesAgree == Reused \/ \A p \in Pages : Quiet(p) => page[p].doc = Load(text)

\* Together, over well-typed state: replicas merge to one text, on the way and in the end.
ReplicasConverge == TypeOK /\ OrdersAgree /\ QuietPagesAgree

\* Together: what was typed is in the page until it is saved, and saved is in the canvas.
NothingTypedIsLost == UnsentIsKept /\ SavedUnlessReused
=============================================================================
