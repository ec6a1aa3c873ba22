---------------------------- MODULE TextSequence ----------------------------
(***************************************************************************)
(* The canvas's collaborative text (internal/crdt, and the same algorithm  *)
(* in the page's canvas_text_script.go): a replicated growable array.      *)
(*                                                                         *)
(* A document is its characters in order, tombstones included, and the     *)
(* operations held for an edit that has not arrived.  The code's node map, *)
(* clock and visible count are functions of the characters (a delete only  *)
(* names characters the replica has), so they are operators here.  A       *)
(* character's name is <<clock, replica>>; replicas are numbers, which     *)
(* stand for the order of their names.                                     *)
(***************************************************************************)
EXTENDS Integers, Sequences, FiniteSets, SequencesExt

Start == <<0, 0>>

\* ID.Less: the Lamport clock, then the writer.
Less(a, b) == a[1] < b[1] \/ (a[1] = b[1] /\ a[2] < b[2])

Empty == [nodes |-> <<>>, held |-> <<>>]

Node(id, value) == [id |-> id, value |-> value, deleted |-> FALSE]

Names(nodes) == {nodes[i].id : i \in DOMAIN nodes}

Clock(nodes) == Max({0} \cup {name[1] : name \in Names(nodes)})

Visible(nodes) ==
    LET shown[i \in 0..Len(nodes)] ==
            IF i = 0 THEN <<>>
            ELSE IF nodes[i].deleted THEN shown[i - 1] ELSE Append(shown[i - 1], nodes[i])
    IN  shown[Len(nodes)]

Text(nodes) == LET shown == Visible(nodes) IN [i \in DOMAIN shown |-> shown[i].value]

\* The place of the character id, 0 for the start of the document.
Place(nodes, id) ==
    IF id = Start THEN 0 ELSE CHOOSE i \in DOMAIN nodes : nodes[i].id = id

-----------------------------------------------------------------------------
(* Operations: one insert of a run of characters, or one delete of a set.  *)

InsertOp(id, after, text) == [id |-> id, after |-> after, text |-> text, delete |-> {}]

DeleteOp(ids) == [id |-> Start, after |-> Start, text |-> <<>>, delete |-> ids]

IsInsert(op) == op.text # <<>>

\* The names an insert gives its characters.
Named(op) == {<<op.id[1] + i - 1, op.id[2]>> : i \in DOMAIN op.text}

\* The characters an operation needs before it can be placed: all or nothing.
Needs(op) == IF IsInsert(op) THEN {op.after} \ {Start} ELSE op.delete

Ready(nodes, op) == Needs(op) \subseteq Names(nodes)

\* An insert that is not after the character it follows, which no replica
\* makes: integrateInsert answers an error.
Misplaced(op) == IsInsert(op) /\ op.id[1] <= op.after[1]

\* Mutant: concurrent inserts at one place are not ordered.
SkipNothing(nodes, from, id) == from

\* The place after which id goes when it follows the character at place from:
\* past the characters with a greater name.
Skip(nodes, from, id) ==
    CHOOSE k \in from..Len(nodes) :
        /\ \A j \in (from + 1)..k : Less(id, nodes[j].id)
        /\ k = Len(nodes) \/ ~Less(id, nodes[k + 1].id)

\* One character of a run, after the one before it, unless it is there already.
Put(at, id, value) ==
    IF id \in Names(at.nodes) THEN [at EXCEPT !.after = id]
    ELSE [nodes |-> InsertAt(at.nodes, Skip(at.nodes, Place(at.nodes, at.after), id) + 1,
                             Node(id, value)),
          after |-> id]

IntegrateInsert(nodes, op) ==
    LET at[i \in 0..Len(op.text)] ==
            IF i = 0 THEN [nodes |-> nodes, after |-> op.after]
            ELSE Put(at[i - 1], <<op.id[1] + i - 1, op.id[2]>>, op.text[i])
    IN  at[Len(op.text)].nodes

IntegrateDelete(nodes, op) ==
    [i \in DOMAIN nodes |-> [nodes[i] EXCEPT !.deleted = @ \/ nodes[i].id \in op.delete]]

Integrate(nodes, op) ==
    IF IsInsert(op) THEN IntegrateInsert(nodes, op) ELSE IntegrateDelete(nodes, op)

\* One attempt at an operation: applied, or held for what it needs.
Try(doc, op) ==
    IF Ready(doc.nodes, op) THEN [doc EXCEPT !.nodes = Integrate(@, op)]
                            ELSE [doc EXCEPT !.held = Append(@, op)]

\* One pass over what is held.
Retry(doc) ==
    LET tried[i \in 0..Len(doc.held)] ==
            IF i = 0 THEN [doc EXCEPT !.held = <<>>] ELSE Try(tried[i - 1], doc.held[i])
    IN  tried[Len(doc.held)]

\* Apply: after an operation is applied, the held ones are tried again until a
\* pass places none of them; each pass that goes on places at least one.
Apply(doc, op) ==
    LET pass[n \in 0..Len(doc.held)] == IF n = 0 THEN Try(doc, op) ELSE Retry(pass[n - 1])
    IN  IF Ready(doc.nodes, op) THEN pass[Len(doc.held)] ELSE Try(doc, op)

ApplyAll(doc, ops) ==
    LET after[i \in 0..Len(ops)] == IF i = 0 THEN doc ELSE Apply(after[i - 1], ops[i])
    IN  after[Len(ops)]

\* Load of a Snapshot: the characters with their tombstones.  What is held is
\* not part of a snapshot.
Load(nodes) == [nodes |-> nodes, held |-> <<>>]

-----------------------------------------------------------------------------
(* Local edits.                                                            *)

\* Insert: text at a position of the document as it reads, named from the
\* clock after the highest this replica has seen.
InsertAfter(nodes, replica, position, text) ==
    InsertOp(<<Clock(nodes) + 1, replica>>,
             IF position = 0 THEN Start ELSE Visible(nodes)[position].id,
             text)

\* Remove: length characters from position.
RemoveOp(nodes, position, length) ==
    DeleteOp({Visible(nodes)[i].id : i \in (position + 1)..(position + length)})

\* Replace: between a common beginning and end, what lies between is removed
\* and the new text inserted; the result is the operations, in order.
Replace(nodes, replica, prefix, removed, text) ==
    LET cut  == IF removed = 0 THEN <<>> ELSE <<RemoveOp(nodes, prefix, removed)>>
        left == ApplyAll(Load(nodes), cut).nodes
    IN  IF text = <<>> THEN cut
        ELSE Append(cut, InsertAfter(left, replica, prefix, text))

=============================================================================
