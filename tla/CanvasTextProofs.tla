-------------------------- MODULE CanvasTextProofs --------------------------
(***************************************************************************)
(* Theorems about CanvasText: what the replicated text computes, by        *)
(* induction over the operations, and what the pages and the canvas make   *)
(* of it.                                                                  *)
(***************************************************************************)
EXTENDS CanvasText, WellFoundedInduction, TLAPS

(***************************************************************************)
(* Induction, stated with sets: the least element of a set of numbers, the *)
(* induction it gives, and the function that a recursion defines.          *)
(***************************************************************************)

\* A set of natural numbers has a least element.
LEMMA Least ==
    ASSUME NEW T \in SUBSET Nat, T # {}
    PROVE  \E x \in T : \A y \in T : x <= y
<1> DEFINE R == {pair \in Nat \X Nat : pair[1] < pair[2]}
<1>1. IsWellFoundedOn(R, Nat)
  BY NatLessThanWellFounded DEF OpToRel
<1>2. \A x, y \in Nat : <<x, y>> \in R <=> x < y
  OBVIOUS
<1> HIDE DEF R
<1>3. \E x \in T : \A y \in T : ~(<<y, x>> \in R)
  BY <1>1, WFMin, Zenon
<1>4. PICK x \in T : \A y \in T : ~(<<y, x>> \in R)
  BY <1>3
<1>5. \A y \in T : ~(y < x)
  BY <1>4, <1>2
<1> QED BY <1>5

\* What holds of 0 and passes on holds of every natural number.
LEMMA Induction ==
    ASSUME NEW S, 0 \in S, \A n \in Nat : n \in S => n + 1 \in S
    PROVE  Nat \subseteq S
<1> SUFFICES ASSUME Nat \ S # {} PROVE FALSE
  OBVIOUS
<1>1. PICK x \in Nat \ S : \A y \in Nat \ S : x <= y
  BY Least
<1>2. x # 0 /\ x - 1 \in Nat
  BY <1>1
<1>3. x - 1 \in S
  BY <1>1, <1>2
<1> QED BY <1>1, <1>2, <1>3

\* Induction up to a number.
LEMMA Steps ==
    ASSUME NEW N \in Nat, NEW S, 0 \in S, \A k \in 1..N : k - 1 \in S => k \in S
    PROVE  \A k \in 0..N : k \in S
<1> DEFINE T == {n \in Nat : n <= N => n \in S}
<1>1. 0 \in T
  OBVIOUS
<1>2. ASSUME NEW n \in Nat, n \in T PROVE n + 1 \in T
  <2> SUFFICES ASSUME n + 1 <= N PROVE n + 1 \in S
    OBVIOUS
  <2>1. n + 1 \in 1..N /\ (n + 1) - 1 = n /\ n \in S
    BY <1>2
  <2> QED BY <2>1
<1> HIDE DEF T
<1>3. Nat \subseteq T
  BY <1>1, <1>2, Induction
<1> QED BY <1>3 DEF T

\* A recursive definition defines a function: from a base, by a step of its own for
\* every number.
Recurs(N, D, base, F) == N \in Nat /\ base \in D /\ F \in [1..N -> [D -> D]]

Defined(g, N, D, base, F) ==
    g \in [0..N -> D] /\ g[0] = base /\ \A k \in 1..N : g[k] = F[k][g[k - 1]]

\* A recursion over 1..N defines a function.
LEMMA Recursion ==
    ASSUME NEW N, NEW D, NEW base, NEW F, Recurs(N, D, base, F)
    PROVE  \E g : Defined(g, N, D, base, F)
<1>0. N \in Nat /\ base \in D /\ F \in [1..N -> [D -> D]]
  BY DEF Recurs
<1> SUFFICES \E g \in [0..N -> D] : g[0] = base /\ \A k \in 1..N : g[k] = F[k][g[k - 1]]
  BY DEF Defined
<1> USE <1>0
<1> DEFINE Good(n, g) == g[0] = base /\ \A k \in 1..n : g[k] = F[k][g[k - 1]]
           S == {n \in Nat : n <= N => \E g \in [0..n -> D] : Good(n, g)}
<1>1. 0 \in S
  <2> DEFINE g == [k \in 0..0 |-> base]
  <2>1. g \in [0..0 -> D] /\ Good(0, g)
    OBVIOUS
  <2> QED BY <2>1
<1>2. ASSUME NEW n \in Nat, n \in S PROVE n + 1 \in S
  <2> SUFFICES ASSUME n + 1 <= N PROVE \E g \in [0..(n + 1) -> D] : Good(n + 1, g)
    OBVIOUS
  <2>1. PICK g \in [0..n -> D] : Good(n, g)
    BY <1>2
  <2>2. n + 1 \in 1..N /\ g[n] \in D
    OBVIOUS
  <2> DEFINE y == F[n + 1][g[n]]
  <2>3. y \in D
    <3> HIDE DEF S, Good
    <3> QED BY <2>2
  <2> DEFINE h == [k \in 0..(n + 1) |-> IF k = n + 1 THEN y ELSE g[k]]
  <2>4. h \in [0..(n + 1) -> D]
    OBVIOUS
  <2>5. Good(n + 1, h)
    <3>1. \A k \in 0..n : h[k] = g[k]
      OBVIOUS
    <3>2. h[n + 1] = y
      OBVIOUS
    <3> HIDE DEF h
    <3>3. h[0] = base
      BY <2>1, <3>1
    <3>4. ASSUME NEW k \in 1..(n + 1) PROVE h[k] = F[k][h[k - 1]]
      <4>1. CASE k = n + 1
        BY <4>1, <3>1, <3>2, <2>3
      <4>2. CASE k \in 1..n
        <5>1. h[k] = g[k] /\ h[k - 1] = g[k - 1]
          BY <4>2, <3>1
        <5> QED BY <4>2, <5>1, <2>1
      <4> QED BY <4>1, <4>2
    <3> QED BY <3>3, <3>4
  <2> HIDE DEF h
  <2> QED BY <2>4, <2>5
<1> HIDE DEF S
<1>3. N \in S
  BY <1>1, <1>2, Induction
<1> QED BY <1>3 DEF S

-----------------------------------------------------------------------------
(* The data.                                                               *)

Writers == Pages \cup {Server, Seed}

CharNames == {<<clock, writer>> : clock \in Nat \ {0}, writer \in Writers}
Positions == CharNames \cup {Start}
NodeRecords == [id : CharNames, value : Nat, deleted : BOOLEAN]
Texts == Seq(NodeRecords)

\* The operations of this canvas insert one character or delete some.
OpRecords ==
    {op \in [id : Positions, after : Positions, text : Seq(Nat), delete : SUBSET CharNames] :
        \/ op.text = <<>>
        \/ Len(op.text) = 1 /\ op.id \in CharNames /\ op.delete = {}}

DocRecords == [nodes : Texts, held : Seq(OpRecords)]

\* The names of the deleted characters.
Gone(nodes) == {nodes[i].id : i \in {j \in DOMAIN nodes : nodes[j].deleted}}

\* An insertion into a sequence.
LEMMA InsertAtFacts ==
    ASSUME NEW S, NEW s \in Seq(S), NEW e \in S, NEW i \in 1..(Len(s) + 1)
    PROVE  /\ InsertAt(s, i, e) \in Seq(S) /\ Len(InsertAt(s, i, e)) = Len(s) + 1
           /\ \A j \in 1..(Len(s) + 1) :
                 InsertAt(s, i, e)[j] = IF j < i THEN s[j] ELSE IF j = i THEN e ELSE s[j - 1]
<1> DEFINE a == SubSeq(s, 1, i - 1)
           b == SubSeq(s, i, Len(s))
<1>1. /\ a \in Seq(S) /\ Len(a) = i - 1 /\ \A j \in 1..(i - 1) : a[j] = s[j]
  OBVIOUS
<1>2. b \in Seq(S) /\ Len(b) = Len(s) - i + 1 /\ \A j \in 1..Len(b) : b[j] = s[i + j - 1]
  OBVIOUS
<1> HIDE DEF a, b
<1>3. /\ a \o <<e>> \in Seq(S) /\ Len(a \o <<e>>) = i
      /\ (a \o <<e>>)[i] = e /\ \A j \in 1..(i - 1) : (a \o <<e>>)[j] = s[j]
  BY <1>1
<1> DEFINE c == a \o <<e>>
<1> HIDE DEF c
<1>4. /\ c \o b \in Seq(S) /\ Len(c \o b) = Len(s) + 1
      /\ \A j \in 1..Len(s) + 1 : (c \o b)[j] = IF j <= i THEN c[j] ELSE b[j - i]
  BY <1>2, <1>3 DEF c
<1>5. InsertAt(s, i, e) = c \o b
  BY DEF InsertAt, a, b, c
<1>6. \A j \in (i + 1)..(Len(s) + 1) : b[j - i] = s[j - 1]
  <2> TAKE j \in (i + 1)..(Len(s) + 1)
  <2>1. j - i \in 1..Len(b) /\ i + (j - i) - 1 = j - 1
    BY <1>2
  <2> QED BY <1>2, <2>1
<1> QED BY <1>3, <1>4, <1>5, <1>6 DEF c

\* Names are totally ordered.
LEMMA LessTotal ==
    ASSUME NEW a \in CharNames, NEW b \in CharNames
    PROVE  /\ Less(a, b) \/ Less(b, a) \/ a = b
           /\ ~Less(a, a) /\ ~(Less(a, b) /\ Less(b, a))
           /\ \A c \in CharNames : Less(a, b) /\ Less(b, c) => Less(a, c)
<1>1. Writers \subseteq Int
  BY CanvasTextAssumption DEF Writers, Server, Seed
<1>2. \A c \in CharNames : c = <<c[1], c[2]>> /\ c[1] \in Int /\ c[2] \in Int
  <2> SUFFICES ASSUME NEW n \in Nat \ {0}, NEW w \in Writers, NEW c, c = <<n, w>>
               PROVE  c = <<c[1], c[2]>> /\ c[1] \in Int /\ c[2] \in Int
    BY DEF CharNames
  <2> QED BY <1>1
<1>3. a = b <=> a[1] = b[1] /\ a[2] = b[2]
  BY <1>2
<1> QED BY <1>2, <1>3 DEF Less

\* The place of a character that is there.
LEMMA PlaceFacts ==
    ASSUME NEW nodes \in Texts, NEW id \in Names(nodes) \cup {Start}
    PROVE  /\ Place(nodes, id) \in 0..Len(nodes)
           /\ id # Start => Place(nodes, id) # 0 /\ nodes[Place(nodes, id)].id = id
           /\ id = Start => Place(nodes, id) = 0
<1>1. CASE id = Start
  BY <1>1 DEF Place, Texts
<1>2. CASE id # Start
  <2>1. \E i \in DOMAIN nodes : nodes[i].id = id
    BY <1>2 DEF Names
  <2>2. Place(nodes, id) \in DOMAIN nodes /\ nodes[Place(nodes, id)].id = id
    BY <1>2, <2>1 DEF Place
  <2> QED BY <1>2, <2>2 DEF Texts
<1> QED BY <1>1, <1>2

\* The loop of integrateInsert stops.
LEMMA SkipFacts ==
    ASSUME NEW nodes \in Texts, NEW from \in 0..Len(nodes), NEW id \in CharNames
    PROVE  /\ Skip(nodes, from, id) \in from..Len(nodes)
           /\ \A j \in (from + 1)..Skip(nodes, from, id) : Less(id, nodes[j].id)
           /\ \/ Skip(nodes, from, id) = Len(nodes)
              \/ ~Less(id, nodes[Skip(nodes, from, id) + 1].id)
<1> DEFINE T == {k \in from..Len(nodes) : k = Len(nodes) \/ ~Less(id, nodes[k + 1].id)}
<1>1. T \in SUBSET Nat /\ Len(nodes) \in T
  BY DEF Texts
<1>2. PICK k \in T : \A m \in T : k <= m
  BY <1>1, Least
<1>3. \A j \in (from + 1)..k : Less(id, nodes[j].id)
  <2> SUFFICES ASSUME NEW j \in (from + 1)..k PROVE Less(id, nodes[j].id)
    OBVIOUS
  <2>1. j - 1 \in from..Len(nodes) /\ j - 1 < k /\ j - 1 # Len(nodes) /\ (j - 1) + 1 = j
    BY DEF Texts
  <2>2. j - 1 \notin T
    <3> HIDE DEF T
    <3> QED BY <1>1, <1>2, <2>1
  <2> QED BY <2>1, <2>2
<1>4. \E n \in from..Len(nodes) :
         /\ \A j \in (from + 1)..n : Less(id, nodes[j].id)
         /\ n = Len(nodes) \/ ~Less(id, nodes[n + 1].id)
  BY <1>2, <1>3
<1> QED BY <1>4, Zenon DEF Skip

\* integrateInsert of one character: nothing, if it is there already, and
\* otherwise an insertion behind the characters it skips.
LEMMA InsertOne ==
    ASSUME NEW nodes \in Texts, NEW op \in OpRecords, IsInsert(op)
    PROVE  IntegrateInsert(nodes, op) =
              IF op.id \in Names(nodes) THEN nodes
              ELSE InsertAt(nodes, Skip(nodes, Place(nodes, op.after), op.id) + 1,
                            Node(op.id, op.text[1]))
<1> DEFINE base == [nodes |-> nodes, after |-> op.after]
           step(f) == [i \in 0..Len(op.text) |->
                          IF i = 0 THEN base
                          ELSE Put(f[i - 1], <<op.id[1] + i - 1, op.id[2]>>, op.text[i])]
           at == CHOOSE f : f = step(f)
<1>1. Len(op.text) = 1
  BY DEF OpRecords, IsInsert
<1>2. <<op.id[1] + 1 - 1, op.id[2]>> = op.id
  BY DEF OpRecords, IsInsert, CharNames
<1>3. at = step(at)
  <2> DEFINE g == [i \in 0..1 |-> IF i = 0 THEN base ELSE Put(base, op.id, op.text[1])]
  <2>1. g[0] = base /\ g[1] = Put(base, op.id, op.text[1])
    OBVIOUS
  <2>2. DOMAIN step(g) = 0..1 /\ step(g)[0] = base /\ step(g)[1] = Put(g[0], op.id, op.text[1])
    BY <1>1, <1>2
  <2>3. g = step(g)
    <3>1. DOMAIN g = 0..1 /\ \A i \in 0..1 : i = 0 \/ i = 1
      OBVIOUS
    <3>2. step(g) = [i \in 0..1 |-> step(g)[i]]
      BY <1>1
    <3> HIDE DEF step
    <3> QED BY <2>1, <2>2, <3>1, <3>2
  <2> QED BY <2>3, Zenon
<1>4. IntegrateInsert(nodes, op) = at[Len(op.text)].nodes
  BY Zenon DEF IntegrateInsert
<1>5. at[0] = base /\ at[1] = Put(at[0], op.id, op.text[1])
  <2> DEFINE s == step(at)
  <2>1. s[0] = base /\ s[1] = Put(at[0], op.id, op.text[1])
    BY <1>1, <1>2
  <2> QED BY <2>1, <1>3
<1>6. IntegrateInsert(nodes, op) = Put(base, op.id, op.text[1]).nodes
  <2> HIDE DEF at, base
  <2> QED BY <1>1, <1>4, <1>5
<1> QED BY <1>6 DEF Put

-----------------------------------------------------------------------------
(* What one operation does to a text.                                      *)

\* The start of the document is not the name of a character.
LEMMA NamesAreCharNames ==
    /\ Start \notin CharNames
    /\ \A nodes \in Texts : Names(nodes) \subseteq CharNames /\ Gone(nodes) \subseteq Names(nodes)
<1>1. Start \notin CharNames
  BY DEF Start, CharNames
<1>2. ASSUME NEW nodes \in Texts
      PROVE  Names(nodes) \subseteq CharNames /\ Gone(nodes) \subseteq Names(nodes)
  <2>1. \A i \in DOMAIN nodes : nodes[i].id \in CharNames
    <3>1. \A i \in DOMAIN nodes : nodes[i] \in NodeRecords
      BY DEF Texts
    <3> QED BY <3>1 DEF NodeRecords
  <2>2. Names(nodes) \subseteq CharNames
    BY <2>1, Zenon DEF Names
  <2>3. Gone(nodes) \subseteq Names(nodes)
    BY Zenon DEF Names, Gone
  <2> QED BY <2>2, <2>3
<1> QED BY <1>1, <1>2

\* One more character in a text.
LEMMA InsertFacts ==
    ASSUME NEW nodes \in Texts, NEW id \in CharNames, NEW value \in Nat, NEW k \in 0..Len(nodes),
           NEW more, more = InsertAt(nodes, k + 1, Node(id, value))
    PROVE  /\ more \in Texts /\ Len(more) = Len(nodes) + 1
           /\ more[k + 1] = Node(id, value)
           /\ \A j \in 1..k : more[j] = nodes[j]
           /\ \A j \in (k + 1)..Len(nodes) : more[j + 1] = nodes[j]
           /\ Names(more) = Names(nodes) \cup {id}
           /\ Chars(more) = Chars(nodes) \cup {<<id, value>>}
           /\ Gone(more) = Gone(nodes)
           /\ Distinct(nodes) /\ id \notin Names(nodes) => Distinct(more)
<1>1. Node(id, value) \in NodeRecords
  BY DEF Node, NodeRecords
<1>2. /\ more \in Texts /\ Len(more) = Len(nodes) + 1
      /\ \A j \in 1..(Len(nodes) + 1) :
            more[j] = IF j < k + 1 THEN nodes[j]
                      ELSE IF j = k + 1 THEN Node(id, value) ELSE nodes[j - 1]
  <2>1. nodes \in Seq(NodeRecords) /\ k + 1 \in 1..(Len(nodes) + 1)
    BY DEF Texts
  <2> QED BY <1>1, <2>1, InsertAtFacts DEF Texts
<1>3. DOMAIN nodes = 1..Len(nodes) /\ DOMAIN more = 1..(Len(nodes) + 1) /\ Len(nodes) \in Nat
  BY <1>2 DEF Texts
<1>4. /\ more[k + 1] = Node(id, value)
      /\ \A j \in 1..k : more[j] = nodes[j]
      /\ \A j \in (k + 1)..Len(nodes) : more[j + 1] = nodes[j]
  BY <1>2, <1>3
<1>5. \A i \in DOMAIN more : i = k + 1 \/ i \in 1..k \/ (i - 1 \in (k + 1)..Len(nodes) /\ i = (i - 1) + 1)
  BY <1>3
<1>6. \A i \in DOMAIN nodes : i \in 1..k \/ i \in (k + 1)..Len(nodes)
  BY <1>3
<1>7. /\ 1..k \subseteq DOMAIN nodes /\ (k + 1)..Len(nodes) \subseteq DOMAIN nodes
      /\ k + 1 \in DOMAIN more /\ 1..k \subseteq DOMAIN more
      /\ \A j \in (k + 1)..Len(nodes) : j + 1 \in DOMAIN more
  BY <1>3
<1>8. Node(id, value).id = id /\ Node(id, value).value = value /\ Node(id, value).deleted = FALSE
  BY DEF Node
<1>9. \A i \in DOMAIN more : more[i] = Node(id, value) \/ \E j \in DOMAIN nodes : more[i] = nodes[j]
  BY <1>4, <1>5, <1>7
<1>10. /\ \A j \in DOMAIN nodes : \E i \in DOMAIN more : more[i] = nodes[j]
       /\ \E i \in DOMAIN more : more[i] = Node(id, value)
  BY <1>4, <1>6, <1>7
<1>11. Names(more) = Names(nodes) \cup {id}
  <2>1. \A name : name \in Names(more) <=> \E i \in DOMAIN more : more[i].id = name
    BY Zenon DEF Names
  <2>2. \A name : name \in Names(nodes) <=> \E i \in DOMAIN nodes : nodes[i].id = name
    BY Zenon DEF Names
  <2>3. \A name : name \in Names(more) <=> name \in Names(nodes) \/ name = id
    BY <1>8, <1>9, <1>10, <2>1, <2>2
  <2> QED BY <2>3
<1>12. Chars(more) = Chars(nodes) \cup {<<id, value>>}
  <2>1. \A char : char \in Chars(more) <=> \E i \in DOMAIN more : <<more[i].id, more[i].value>> = char
    BY Zenon DEF Chars
  <2>2. \A char : char \in Chars(nodes) <=> \E i \in DOMAIN nodes : <<nodes[i].id, nodes[i].value>> = char
    BY Zenon DEF Chars
  <2>3. \A char : char \in Chars(more) <=> char \in Chars(nodes) \/ char = <<id, value>>
    BY <1>8, <1>9, <1>10, <2>1, <2>2
  <2> QED BY <2>3
<1>13. Gone(more) = Gone(nodes)
  <2>1. \A name : name \in Gone(more) <=> \E i \in DOMAIN more : more[i].deleted /\ more[i].id = name
    BY Zenon DEF Gone
  <2>2. \A name : name \in Gone(nodes) <=> \E i \in DOMAIN nodes : nodes[i].deleted /\ nodes[i].id = name
    BY Zenon DEF Gone
  <2>3. \A name : name \in Gone(more) <=> name \in Gone(nodes)
    BY <1>8, <1>9, <1>10, <2>1, <2>2
  <2> QED BY <2>3, Zenon
<1>14. ASSUME Distinct(nodes), id \notin Names(nodes) PROVE Distinct(more)
  <2>1. \A j \in DOMAIN nodes : nodes[j].id # id
    BY <1>14 DEF Names
  <2> SUFFICES ASSUME NEW i \in DOMAIN more, NEW j \in DOMAIN more, more[i].id = more[j].id
               PROVE  i = j
    BY DEF Distinct
  <2>2. \A x \in DOMAIN more : \/ x = k + 1 /\ more[x].id = id
                               \/ x # k + 1 /\ more[x].id # id
    BY <1>4, <1>5, <1>7, <1>8, <2>1
  <2>3. CASE i = k + 1 \/ j = k + 1
    BY <2>2, <2>3
  <2>4. CASE i # k + 1 /\ j # k + 1
    <3> DEFINE back(x) == IF x \in 1..k THEN x ELSE x - 1
    <3>1. \A x \in DOMAIN more : x # k + 1 => back(x) \in DOMAIN nodes /\ more[x] = nodes[back(x)]
      BY <1>4, <1>5, <1>7
    <3>2. back(i) = back(j)
      <4> HIDE DEF back
      <4> QED BY <1>14, <2>4, <3>1 DEF Distinct
    <3> QED BY <1>3, <1>5, <2>4, <3>2
  <2> QED BY <2>3, <2>4
<1> QED BY <1>2, <1>4, <1>11, <1>12, <1>13, <1>14

\* A deletion marks characters and moves none.
LEMMA DeleteFacts ==
    ASSUME NEW nodes \in Texts, NEW op \in OpRecords
    PROVE  /\ IntegrateDelete(nodes, op) \in Texts
           /\ Len(IntegrateDelete(nodes, op)) = Len(nodes)
           /\ \A i \in 1..Len(nodes) :
                 /\ IntegrateDelete(nodes, op)[i].id = nodes[i].id
                 /\ IntegrateDelete(nodes, op)[i].value = nodes[i].value
                 /\ IntegrateDelete(nodes, op)[i].deleted
                       = (nodes[i].deleted \/ nodes[i].id \in op.delete)
           /\ Names(IntegrateDelete(nodes, op)) = Names(nodes)
           /\ Chars(IntegrateDelete(nodes, op)) = Chars(nodes)
           /\ op.delete \subseteq Names(nodes) =>
                 Gone(IntegrateDelete(nodes, op)) = Gone(nodes) \cup op.delete
           /\ Distinct(nodes) => Distinct(IntegrateDelete(nodes, op))
<1> DEFINE less == IntegrateDelete(nodes, op)
<1>1. DOMAIN nodes = 1..Len(nodes) /\ Len(nodes) \in Nat
  BY DEF Texts
<1>2. DOMAIN less = 1..Len(nodes)
  BY <1>1 DEF IntegrateDelete
<1>3. \A i \in 1..Len(nodes) :
         /\ less[i] \in NodeRecords
         /\ less[i].id = nodes[i].id /\ less[i].value = nodes[i].value
         /\ less[i].deleted = (nodes[i].deleted \/ nodes[i].id \in op.delete)
  <2> TAKE i \in 1..Len(nodes)
  <2>1. nodes[i] \in NodeRecords
    BY <1>1 DEF Texts
  <2>2. less[i] = [nodes[i] EXCEPT !.deleted = @ \/ nodes[i].id \in op.delete]
    BY <1>1 DEF IntegrateDelete
  <2> QED BY <2>1, <2>2 DEF NodeRecords
<1>4. less \in Texts /\ Len(less) = Len(nodes)
  <2>1. less = [i \in 1..Len(nodes) |-> less[i]]
    BY <1>1 DEF IntegrateDelete
  <2>2. less \in [1..Len(nodes) -> NodeRecords]
    <3> HIDE DEF less
    <3> QED BY <1>3, <2>1
  <2> HIDE DEF less
  <2> QED BY <1>1, <2>2 DEF Texts
<1>5. Names(less) = Names(nodes) /\ Chars(less) = Chars(nodes)
  <2> HIDE DEF less
  <2> QED BY <1>1, <1>2, <1>3 DEF Names, Chars
<1>6. ASSUME op.delete \subseteq Names(nodes) PROVE Gone(less) = Gone(nodes) \cup op.delete
  <2> HIDE DEF less
  <2>1. \A name : name \in Gone(less) <=> \E i \in 1..Len(nodes) : less[i].deleted /\ less[i].id = name
    BY <1>2, Zenon DEF Gone
  <2>2. \A name : name \in Gone(nodes) <=> \E i \in 1..Len(nodes) : nodes[i].deleted /\ nodes[i].id = name
    BY <1>1, Zenon DEF Gone
  <2>3. \A name \in op.delete : \E i \in 1..Len(nodes) : nodes[i].id = name
    BY <1>1, <1>6 DEF Names
  <2>4. \A name : name \in Gone(less) <=> name \in Gone(nodes) \/ name \in op.delete
    <3> TAKE name
    <3>1. ASSUME NEW i \in 1..Len(nodes), less[i].deleted, less[i].id = name
          PROVE  name \in Gone(nodes) \/ name \in op.delete
      BY <1>3, <2>2, <3>1
    <3>2. ASSUME NEW i \in 1..Len(nodes), nodes[i].deleted \/ name \in op.delete, nodes[i].id = name
          PROVE  name \in Gone(less)
      <4>1. less[i].deleted /\ less[i].id = name
        BY <1>3, <3>2
      <4> QED BY <2>1, <4>1
    <3> QED BY <2>1, <2>2, <2>3, <3>1, <3>2
  <2> QED BY <2>4
<1>7. Distinct(nodes) => Distinct(less)
  <2> HIDE DEF less
  <2> QED BY <1>1, <1>2, <1>3 DEF Distinct
<1> QED BY <1>3, <1>4, <1>5, <1>6, <1>7

\* The names an operation gives.
LEMMA NamedFacts ==
    ASSUME NEW op \in OpRecords
    PROVE  /\ IsInsert(op) => /\ op.id \in CharNames /\ op.text[1] \in Nat /\ op.delete = {}
                              /\ Named(op) = {op.id}
                              /\ Written(op) = {<<op.id, op.text[1]>>}
           /\ ~IsInsert(op) => Named(op) = {} /\ Written(op) = {}
           /\ Named(op) \subseteq CharNames
           /\ Named(op) = {c[1] : c \in Written(op)}
<1>1. CASE IsInsert(op)
  <2>1. /\ Len(op.text) = 1 /\ op.text \in Seq(Nat)
        /\ op.id \in CharNames /\ op.delete = {}
    BY <1>1 DEF OpRecords, IsInsert
  <2>2. DOMAIN op.text = {1} /\ op.text[1] \in Nat
    BY <2>1
  <2>3. <<op.id[1] + 1 - 1, op.id[2]>> = op.id
    BY <2>1 DEF CharNames
  <2>4. Named(op) = {op.id} /\ Written(op) = {<<op.id, op.text[1]>>}
    <3>1. Named(op) = {<<op.id[1] + 1 - 1, op.id[2]>>}
      BY <2>2 DEF Named
    <3>2. Written(op) = {<<(<<op.id[1] + 1 - 1, op.id[2]>>), op.text[1]>>}
      BY <2>2 DEF Written
    <3> QED BY <2>3, <3>1, <3>2
  <2> QED BY <1>1, <2>1, <2>2, <2>4
<1>2. CASE ~IsInsert(op)
  BY <1>2 DEF IsInsert, Named, Written
<1> QED BY <1>1, <1>2

\* What an operation that can be placed adds to a text, and that it takes nothing away.
LEMMA IntegrateFacts ==
    ASSUME NEW nodes \in Texts, NEW op \in OpRecords, Ready(nodes, op)
    PROVE  /\ Integrate(nodes, op) \in Texts
           /\ Names(Integrate(nodes, op)) = Names(nodes) \cup Named(op)
           /\ Gone(Integrate(nodes, op)) = Gone(nodes) \cup op.delete
           /\ Chars(nodes) \subseteq Chars(Integrate(nodes, op))
           /\ Chars(Integrate(nodes, op)) \subseteq Chars(nodes) \cup Written(op)
           /\ Distinct(nodes) => Distinct(Integrate(nodes, op))
<1>1. CASE IsInsert(op)
  <2>1. /\ op.id \in CharNames /\ op.text[1] \in Nat /\ op.delete = {}
        /\ Named(op) = {op.id} /\ Written(op) = {<<op.id, op.text[1]>>}
    BY <1>1, NamedFacts
  <2>2. Integrate(nodes, op) = IntegrateInsert(nodes, op)
    BY <1>1 DEF Integrate
  <2>3. CASE op.id \in Names(nodes)
    <3>1. Integrate(nodes, op) = nodes
      BY <1>1, <2>2, <2>3, InsertOne
    <3> QED BY <2>1, <2>3, <3>1
  <2>4. CASE op.id \notin Names(nodes)
    <3>1. op.after \in Names(nodes) \cup {Start}
      BY <1>1 DEF Ready, Needs
    <3>2. Skip(nodes, Place(nodes, op.after), op.id) \in 0..Len(nodes)
      <4>1. Place(nodes, op.after) \in 0..Len(nodes)
        BY <3>1, PlaceFacts
      <4>2. Skip(nodes, Place(nodes, op.after), op.id) \in Place(nodes, op.after)..Len(nodes)
        BY <2>1, <4>1, SkipFacts
      <4> QED BY <4>1, <4>2 DEF Texts
    <3>3. Integrate(nodes, op)
             = InsertAt(nodes, Skip(nodes, Place(nodes, op.after), op.id) + 1, Node(op.id, op.text[1]))
      BY <1>1, <2>2, <2>4, InsertOne
    <3> QED BY <2>1, <2>4, <3>2, <3>3, InsertFacts
  <2> QED BY <2>3, <2>4
<1>2. CASE ~IsInsert(op)
  <2>1. op.delete \subseteq Names(nodes) /\ Integrate(nodes, op) = IntegrateDelete(nodes, op)
    BY <1>2 DEF Ready, Needs, Integrate
  <2>2. Named(op) = {} /\ Written(op) = {}
    BY <1>2, NamedFacts
  <2> QED BY <2>1, <2>2, DeleteFacts
<1> QED BY <1>1, <1>2

\* A text's clock is the highest of its names, and 0 without any.
LEMMA ClockFacts ==
    ASSUME NEW nodes \in Texts
    PROVE  /\ Clock(nodes) \in Nat
           /\ \A name \in Names(nodes) : name[1] <= Clock(nodes)
           /\ Clock(nodes) = 0 \/ \E name \in Names(nodes) : name[1] = Clock(nodes)
<1>1. Names(nodes) \subseteq CharNames
  BY NamesAreCharNames
<1>2. \A name \in CharNames : name[1] \in Nat
  BY DEF CharNames
<1> DEFINE T == {u \in Nat : \A name \in Names(nodes) : name[1] <= u}
<1>3. T # {}
  <2> DEFINE S == {n \in Nat : \E u \in Nat : \A i \in 1..n : i \in DOMAIN nodes => nodes[i].id[1] <= u}
  <2>0. \A i \in DOMAIN nodes : nodes[i].id[1] \in Nat
    BY <1>1, <1>2 DEF Names
  <2>1. 0 \in S
    OBVIOUS
  <2>2. ASSUME NEW n \in Nat, n \in S PROVE n + 1 \in S
    <3>1. PICK u \in Nat : \A i \in 1..n : i \in DOMAIN nodes => nodes[i].id[1] <= u
      BY <2>2
    <3>2. CASE n + 1 \in DOMAIN nodes
      <4>1. PICK v \in Nat : u <= v /\ nodes[n + 1].id[1] <= v
        <5>1. CASE u <= nodes[n + 1].id[1]
          BY <2>0, <3>2, <5>1
        <5>2. CASE ~(u <= nodes[n + 1].id[1])
          BY <2>0, <3>2, <5>2
        <5> QED BY <5>1, <5>2
      <4>2. ASSUME NEW i \in 1..(n + 1), i \in DOMAIN nodes PROVE nodes[i].id[1] <= v
        <5>1. CASE i = n + 1
          BY <4>1, <5>1
        <5>2. CASE i \in 1..n
          <6>1. nodes[i].id[1] <= u /\ nodes[i].id[1] \in Nat
            BY <2>0, <3>1, <4>2, <5>2
          <6> QED BY <4>1, <6>1
        <5> QED BY <5>1, <5>2
      <4> QED BY <4>2
    <3>3. CASE n + 1 \notin DOMAIN nodes
      <4>1. \A i \in 1..(n + 1) : i = n + 1 \/ i \in 1..n
        OBVIOUS
      <4>2. \A i \in 1..(n + 1) : i \in DOMAIN nodes => nodes[i].id[1] <= u
        BY <3>1, <3>3, <4>1
      <4> QED BY <4>2
    <3> QED BY <3>2, <3>3
  <2>3. Len(nodes) \in S
    <3>1. Nat \subseteq S
      <4> HIDE DEF S
      <4> QED BY <2>1, <2>2, Induction
    <3>2. Len(nodes) \in Nat
      BY DEF Texts
    <3> HIDE DEF S
    <3> QED BY <3>1, <3>2
  <2>4. PICK u \in Nat : \A i \in 1..Len(nodes) : i \in DOMAIN nodes => nodes[i].id[1] <= u
    BY <2>3
  <2>5. \A i \in DOMAIN nodes : nodes[i].id[1] <= u
    BY <2>4 DEF Texts
  <2> QED BY <2>5 DEF Names
<1>4. PICK u \in T : \A v \in T : u <= v
  BY <1>3, Least
<1> DEFINE C == {0} \cup {name[1] : name \in Names(nodes)}
<1>5. u \in Nat /\ \A y \in C : y \in Nat /\ u >= y
  BY <1>1, <1>2, <1>4
<1>6. u = 0 \/ \E name \in Names(nodes) : name[1] = u
  <2> SUFFICES ASSUME u # 0 PROVE \E name \in Names(nodes) : name[1] = u
    OBVIOUS
  <2>1. u - 1 \in Nat /\ ~(u <= u - 1)
    BY <1>5
  <2>2. PICK name \in Names(nodes) : ~(name[1] <= u - 1)
    BY <1>4, <2>1
  <2>3. name[1] \in Nat /\ name[1] <= u
    BY <1>1, <1>2, <1>4
  <2> QED BY <1>5, <2>2, <2>3
<1>7. u \in C
  BY <1>6
<1>8. Max(C) = u
  <2>1. \E x \in C : \A y \in C : x >= y
    BY <1>5, <1>7
  <2>2. Max(C) \in C /\ \A y \in C : Max(C) >= y
    <3> HIDE DEF C
    <3> QED BY <2>1, Zenon DEF Max
  <2> DEFINE m == Max(C)
  <2>3. m \in C /\ \A y \in C : m >= y
    BY <2>2
  <2> HIDE DEF C, m
  <2>4. m \in Nat /\ u >= m /\ m >= u
    BY <1>5, <1>7, <2>3
  <2>5. m = u
    BY <1>5, <2>4
  <2> QED BY <2>5 DEF m
<1> QED BY <1>4, <1>5, <1>6, <1>8 DEF Clock

\* The text as it reads collects the characters that are not deleted.
LEMMA VisibleRuns ==
    ASSUME NEW nodes \in Texts
    PROVE  \E g \in [0..Len(nodes) -> Texts] :
              /\ g[0] = <<>>
              /\ \A k \in 1..Len(nodes) :
                    g[k] = IF nodes[k].deleted THEN g[k - 1] ELSE Append(g[k - 1], nodes[k])
              /\ Visible(nodes) = g[Len(nodes)]
<1> DEFINE N == Len(nodes)
           base == <<>>
           next(d, i) == IF nodes[i].deleted THEN d ELSE Append(d, nodes[i])
           step(f) == [i \in 0..Len(nodes) |->
                         IF i = 0 THEN <<>>
                         ELSE IF nodes[i].deleted THEN f[i - 1] ELSE Append(f[i - 1], nodes[i])]
           shown == CHOOSE f : f = step(f)
           F == [k \in 1..N |-> [d \in Texts |-> next(d, k)]]
<1>1. N \in Nat /\ base \in Texts
  BY DEF Texts
<1>2. \A k \in 1..N, d \in Texts : next(d, k) \in Texts
  <2>1. \A k \in 1..N : nodes[k] \in NodeRecords
    BY DEF Texts
  <2>2. \A k \in 1..N, d \in Texts : Append(d, nodes[k]) \in Texts
    BY <2>1 DEF Texts
  <2> QED BY <2>2
<1>3. PICK g : Defined(g, N, Texts, base, F)
  <2>1. F \in [1..N -> [Texts -> Texts]]
    <3> HIDE DEF next
    <3> QED BY <1>2
  <2>2. Recurs(N, Texts, base, F)
    <3> HIDE DEF F, N, base
    <3> QED BY <1>1, <2>1 DEF Recurs
  <2> QED BY <2>2, Recursion
<1>4. /\ DOMAIN g = 0..N /\ g[0] = base
      /\ \A k \in 1..N : g[k - 1] \in Texts /\ g[k] = next(g[k - 1], k)
  <2>1. \A k \in 1..N, d \in Texts : F[k][d] = next(d, k)
    <3> HIDE DEF next
    <3> QED OBVIOUS
  <2>2. \A k \in 1..N : k - 1 \in 0..N
    <3> HIDE DEF N
    <3> QED BY <1>1
  <2> HIDE DEF F, N, base, next
  <2> QED BY <1>3, <2>1, <2>2 DEF Defined
<1>5. g = step(g)
  <2>1. \A i \in 0..N : i = 0 \/ i \in 1..N
    <3> HIDE DEF N
    <3> QED BY <1>1
  <2>2. DOMAIN step(g) = 0..N /\ \A i \in 0..N : g[i] = step(g)[i]
    BY <1>4, <2>1
  <2>3. step(g) = [i \in 0..N |-> step(g)[i]]
    OBVIOUS
  <2>4. g = [i \in 0..N |-> g[i]]
    BY <1>3 DEF Defined
  <2> HIDE DEF step, N
  <2> QED BY <2>2, <2>3, <2>4
<1>6. shown = step(shown)
  BY <1>5, Zenon
<1>7. shown[0] = base /\ (\A k \in 1..N : shown[k] = next(shown[k - 1], k)) /\ DOMAIN shown = 0..N
  <2> DEFINE f == step(shown)
  <2>1. f[0] = base /\ (\A k \in 1..N : f[k] = next(shown[k - 1], k)) /\ DOMAIN f = 0..N
    BY <1>1
  <2> QED BY <1>6, <2>1
<1>8. Visible(nodes) = shown[N]
  BY Zenon DEF Visible, shown
<1> HIDE DEF shown, next, F, base
<1>9. \A k \in 0..N : shown[k] \in Texts
  <2> DEFINE S == {k \in 0..N : shown[k] \in Texts}
  <2>1. 0 \in S
    BY <1>1, <1>7
  <2>2. \A k \in 1..N : k - 1 \in S => k \in S
    BY <1>1, <1>2, <1>7
  <2>3. \A k \in 0..N : k \in S
    <3> HIDE DEF S, N
    <3> QED BY <1>1, <2>1, <2>2, Steps
  <2> QED BY <2>3
<1>10. shown \in [0..N -> Texts]
  <2>1. shown = [k \in 0..N |-> shown[k]]
    BY <1>6 DEF shown
  <2> HIDE DEF N
  <2> QED BY <1>9, <2>1
<1> QED BY <1>7, <1>8, <1>10 DEF next, base

\* The text as it reads shows characters it has, each once, and grows as it is read.
LEMMA VisibleFacts ==
    ASSUME NEW nodes \in Texts
    PROVE  /\ Visible(nodes) \in Texts
           /\ \A i \in 1..Len(Visible(nodes)) : Visible(nodes)[i].id \in Names(nodes)
           /\ Distinct(nodes) =>
                 \A i, j \in 1..Len(Visible(nodes)) :
                    Visible(nodes)[i].id = Visible(nodes)[j].id => i = j
<1> DEFINE N == Len(nodes)
<1>1. N \in Nat /\ DOMAIN nodes = 1..N /\ \A k \in 1..N : nodes[k] \in NodeRecords
  BY DEF Texts
<1>2. PICK g \in [0..N -> Texts] :
         /\ g[0] = <<>>
         /\ \A k \in 1..N : g[k] = IF nodes[k].deleted THEN g[k - 1] ELSE Append(g[k - 1], nodes[k])
         /\ Visible(nodes) = g[N]
  BY VisibleRuns
<1>3. \A t \in Texts : /\ Len(t) \in Nat /\ DOMAIN t = 1..Len(t)
                       /\ \A c \in NodeRecords :
                             /\ Len(Append(t, c)) = Len(t) + 1 /\ Append(t, c)[Len(t) + 1] = c
                             /\ \A i \in 1..Len(t) : Append(t, c)[i] = t[i]
  BY DEF Texts
<1> HIDE DEF N
<1>4. \A k \in 1..N : k - 1 \in 0..N
  BY <1>1
<1> DEFINE In(k) == /\ \A i \in 1..Len(g[k]) : \E j \in 1..k : g[k][i] = nodes[j]
                    /\ Distinct(nodes) =>
                          \A i, j \in 1..Len(g[k]) : g[k][i].id = g[k][j].id => i = j
           S == {k \in 0..N : In(k)}
<1>5. In(0)
  <2>1. Len(g[0]) = 0
    BY <1>2
  <2>2. 1..Len(g[0]) = {}
    BY <2>1
  <2> QED BY <2>2
<1>6. ASSUME NEW k \in 1..N, In(k - 1) PROVE In(k)
  <2>1. CASE nodes[k].deleted
    <3>1. g[k] = g[k - 1]
      BY <1>2, <2>1
    <3>2. 1..(k - 1) \subseteq 1..k
      BY <1>1
    <3> QED BY <1>6, <3>1, <3>2
  <2>2. CASE ~nodes[k].deleted
    <3> DEFINE t == g[k - 1]
               c == nodes[k]
    <3>1. g[k] = Append(t, c) /\ t \in Texts /\ c \in NodeRecords
      BY <1>1, <1>2, <1>4, <2>2
    <3> HIDE DEF t, c
    <3>2. /\ Len(t) \in Nat /\ Len(g[k]) = Len(t) + 1 /\ g[k][Len(t) + 1] = c
          /\ \A i \in 1..Len(t) : g[k][i] = t[i]
      BY <1>3, <3>1
    <3>3. \A i \in 1..Len(g[k]) : i = Len(t) + 1 \/ i \in 1..Len(t)
      BY <3>2
    <3>4. /\ \A i \in 1..Len(t) : \E j \in 1..(k - 1) : t[i] = nodes[j]
          /\ Distinct(nodes) => \A i, j \in 1..Len(t) : t[i].id = t[j].id => i = j
      BY <1>6 DEF t
    <3>5. 1..(k - 1) \subseteq 1..k /\ k \in 1..k /\ k \notin 1..(k - 1) /\ k \in 1..N /\ 1..(k - 1) \subseteq 1..N
      BY <1>1
    <3>6. \A i \in 1..Len(g[k]) : \E j \in 1..k : g[k][i] = nodes[j]
      BY <3>2, <3>3, <3>4, <3>5 DEF c
    <3>7. ASSUME Distinct(nodes), NEW i \in 1..Len(t) PROVE t[i].id # c.id
      <4>1. PICK j \in 1..(k - 1) : t[i] = nodes[j]
        BY <3>4
      <4> QED BY <1>1, <3>5, <3>7, <4>1 DEF c, Distinct
    <3>8. Distinct(nodes) => \A i, j \in 1..Len(g[k]) : g[k][i].id = g[k][j].id => i = j
      BY <3>2, <3>3, <3>4, <3>7
    <3> QED BY <3>6, <3>8
  <2> QED BY <2>1, <2>2
<1>7. In(N)
  <2> HIDE DEF In
  <2>1. 0 \in S /\ \A k \in 1..N : k - 1 \in S => k \in S
    BY <1>1, <1>5, <1>6
  <2>2. \A k \in 0..N : k \in S
    <3> HIDE DEF S
    <3> QED BY <1>1, <2>1, Steps
  <2> QED BY <1>1, <2>2
<1>8. g[N] \in Texts
  BY <1>1, <1>2
<1>9. \A i \in 1..Len(Visible(nodes)) : Visible(nodes)[i].id \in Names(nodes)
  <2>1. \A j \in 1..N : nodes[j].id \in Names(nodes)
    BY <1>1 DEF Names
  <2> QED BY <1>2, <1>7, <2>1
<1> QED BY <1>2, <1>7, <1>8, <1>9

\* The visible part of a beginning begins the visible part.
LEMMA VisibleExtends ==
    ASSUME NEW nodes \in Texts, NEW h \in [0..Len(nodes) -> Texts], NEW n \in 0..Len(nodes),
           \A k \in 1..Len(nodes) :
              h[k] = IF nodes[k].deleted THEN h[k - 1] ELSE Append(h[k - 1], nodes[k])
    PROVE  /\ Len(h[n]) <= Len(h[Len(nodes)])
           /\ \A i \in 1..Len(h[n]) : h[Len(nodes)][i] = h[n][i]
<1> DEFINE N == Len(nodes)
<1>1. N \in Nat /\ \A k \in 1..N : nodes[k] \in NodeRecords
  BY DEF Texts
<1>2. \A k \in 1..N : k - 1 \in 0..N
  BY <1>1
<1>3. \A t \in Texts : /\ Len(t) \in Nat
                       /\ \A c \in NodeRecords :
                             /\ Len(Append(t, c)) = Len(t) + 1
                             /\ \A i \in 1..Len(t) : Append(t, c)[i] = t[i]
  BY DEF Texts
<1> HIDE DEF N
<1> DEFINE Ext(k) == n <= k => /\ Len(h[n]) <= Len(h[k])
                               /\ \A i \in 1..Len(h[n]) : h[k][i] = h[n][i]
           S == {k \in 0..N : Ext(k)}
<1>4. n \in 0..N /\ h \in [0..N -> Texts]
  BY DEF N
<1>5. Len(h[n]) \in Nat
  BY <1>3, <1>4
<1>6. Ext(n)
  BY <1>5
<1>7. Ext(0)
  <2>1. CASE n = 0
    BY <1>6, <2>1
  <2>2. CASE n # 0
    BY <1>1, <1>4, <2>2
  <2> QED BY <2>1, <2>2
<1>8. ASSUME NEW k \in 1..N, Ext(k - 1) PROVE Ext(k)
  <2>0. h[k] = IF nodes[k].deleted THEN h[k - 1] ELSE Append(h[k - 1], nodes[k])
    BY DEF N
  <2>1. CASE n = k
    BY <1>6, <2>1
  <2>2. CASE n # k
    <3> SUFFICES ASSUME n <= k PROVE Ext(k)
      OBVIOUS
    <3>0. n <= k - 1
      BY <1>1, <1>4, <2>2
    <3>1. h[k - 1] \in Texts /\ nodes[k] \in NodeRecords
      BY <1>1, <1>2, <1>4
    <3>2. /\ Len(h[n]) <= Len(h[k - 1]) /\ \A i \in 1..Len(h[n]) : h[k - 1][i] = h[n][i]
      BY <1>8, <3>0
    <3>3. Len(h[k - 1]) \in Nat /\ 1..Len(h[n]) \subseteq 1..Len(h[k - 1])
      BY <1>3, <1>5, <3>1, <3>2
    <3>4. CASE nodes[k].deleted
      BY <2>0, <3>2, <3>4
    <3>5. CASE ~nodes[k].deleted
      <4>1. h[k] = Append(h[k - 1], nodes[k])
        BY <2>0, <3>5
      <4>2. Len(h[k]) = Len(h[k - 1]) + 1 /\ \A i \in 1..Len(h[k - 1]) : h[k][i] = h[k - 1][i]
        BY <1>3, <3>1, <4>1
      <4> QED BY <1>5, <3>2, <3>3, <4>2
    <3> QED BY <3>4, <3>5
  <2> QED BY <2>1, <2>2
<1> HIDE DEF Ext
<1>9. 0 \in S /\ \A k \in 1..N : k - 1 \in S => k \in S
  BY <1>1, <1>7, <1>8
<1>10. Ext(N)
  <2>1. \A k \in 0..N : k \in S
    <3> HIDE DEF S
    <3> QED BY <1>1, <1>9, Steps
  <2> QED BY <1>1, <2>1
<1>11. n <= N
  BY <1>1, <1>4
<1> QED BY <1>10, <1>11 DEF Ext, N

\* A deletion past a place leaves what reads before that place.
LEMMA VisibleBefore ==
    ASSUME NEW nodes \in Texts, NEW op \in OpRecords, NEW prefix \in Nat,
           prefix <= Len(Visible(nodes)),
           \A i \in 1..prefix : Visible(nodes)[i].id \notin op.delete
    PROVE  prefix <= Len(Visible(IntegrateDelete(nodes, op)))
<1> DEFINE N == Len(nodes)
           left == IntegrateDelete(nodes, op)
<1>1. /\ N \in Nat /\ left \in Texts /\ Len(left) = N
      /\ \A k \in 1..N : /\ nodes[k] \in NodeRecords /\ left[k] \in NodeRecords
                         /\ left[k].deleted = (nodes[k].deleted \/ nodes[k].id \in op.delete)
  <2>1. /\ left \in Texts /\ Len(left) = N
        /\ \A k \in 1..N : left[k].deleted = (nodes[k].deleted \/ nodes[k].id \in op.delete)
    BY DeleteFacts
  <2> HIDE DEF left
  <2>2. \A t \in Texts : Len(t) \in Nat /\ \A k \in 1..Len(t) : t[k] \in NodeRecords
    BY DEF Texts
  <2> QED BY <2>1, <2>2
<1> HIDE DEF left
<1>2. PICK g \in [0..N -> Texts] :
         /\ g[0] = <<>>
         /\ \A k \in 1..N : g[k] = IF nodes[k].deleted THEN g[k - 1] ELSE Append(g[k - 1], nodes[k])
         /\ Visible(nodes) = g[N]
  BY VisibleRuns
<1>3. PICK h \in [0..N -> Texts] :
         /\ h[0] = <<>>
         /\ \A k \in 1..N : h[k] = IF left[k].deleted THEN h[k - 1] ELSE Append(h[k - 1], left[k])
         /\ Visible(left) = h[N]
  BY <1>1, VisibleRuns
<1>4. \A t \in Texts : /\ Len(t) \in Nat
                       /\ \A c \in NodeRecords :
                             Len(Append(t, c)) = Len(t) + 1 /\ Append(t, c)[Len(t) + 1] = c
  BY DEF Texts
<1>5. \A k \in 1..N : /\ Len(g[k]) <= Len(g[N])
                      /\ \A i \in 1..Len(g[k]) : g[N][i] = g[k][i]
  <2> TAKE k \in 1..N
  <2>1. k \in 0..N
    BY <1>1
  <2> QED BY <1>2, <2>1, VisibleExtends
<1> HIDE DEF N
<1> DEFINE In(k) == prefix <= Len(h[k]) \/ Len(h[k]) = Len(g[k])
           S == {k \in 0..N : In(k)}
<1>6. In(0)
  BY <1>2, <1>3
<1>7. ASSUME NEW k \in 1..N, In(k - 1) PROVE In(k)
  <2>1. k - 1 \in 0..N /\ k \in 0..N
    BY <1>1
  <2> DEFINE a == Len(g[k - 1])
             b == Len(h[k - 1])
  <2>2. /\ g[k - 1] \in Texts /\ h[k - 1] \in Texts /\ nodes[k] \in NodeRecords /\ left[k] \in NodeRecords
        /\ a \in Nat /\ b \in Nat
    BY <1>1, <1>2, <1>3, <1>4, <2>1
  <2>3. CASE nodes[k].deleted
    <3>1. g[k] = g[k - 1] /\ h[k] = h[k - 1]
      BY <1>1, <1>2, <1>3, <2>3
    <3> QED BY <1>7, <3>1
  <2>4. CASE ~nodes[k].deleted
    <3>1. g[k] = Append(g[k - 1], nodes[k]) /\ Len(g[k]) = a + 1 /\ g[k][a + 1] = nodes[k]
      <4>1. g[k] = Append(g[k - 1], nodes[k])
        BY <1>2, <2>4
      <4> QED BY <1>4, <2>2, <4>1
    <3>2. CASE prefix <= b
      <4>1. Len(h[k]) = b \/ Len(h[k]) = b + 1
        BY <1>3, <1>4, <2>2
      <4> QED BY <2>2, <3>2, <4>1
    <3>3. CASE ~(prefix <= b)
      <4>1. b = a /\ a + 1 <= prefix /\ a + 1 \in 1..prefix
        BY <1>7, <2>2, <3>3
      <4>2. g[N][a + 1] = nodes[k]
        <5>1. a + 1 \in 1..Len(g[k])
          BY <2>2, <3>1
        <5> QED BY <1>5, <3>1, <5>1
      <4>3. nodes[k].id \notin op.delete
        BY <1>2, <4>1, <4>2
      <4>4. h[k] = Append(h[k - 1], left[k])
        BY <1>1, <1>3, <2>4, <4>3
      <4>5. Len(h[k]) = b + 1
        BY <1>4, <2>2, <4>4
      <4> QED BY <3>1, <4>1, <4>5
    <3> QED BY <3>2, <3>3
  <2> QED BY <2>3, <2>4
<1>8. In(N)
  <2> HIDE DEF In
  <2>1. 0 \in S /\ \A k \in 1..N : k - 1 \in S => k \in S
    BY <1>1, <1>6, <1>7
  <2>2. \A k \in 0..N : k \in S
    <3> HIDE DEF S
    <3> QED BY <1>1, <2>1, Steps
  <2> QED BY <1>1, <2>2
<1> QED BY <1>2, <1>3, <1>8 DEF left

-----------------------------------------------------------------------------
(* What a run of operations does, those that are held included.            *)

\* One attempt.
LEMMA TryType ==
    ASSUME NEW doc \in DocRecords, NEW op \in OpRecords
    PROVE  /\ Try(doc, op) \in DocRecords
           /\ Ready(doc.nodes, op) =>
                 /\ Try(doc, op).nodes = Integrate(doc.nodes, op)
                 /\ Try(doc, op).held = doc.held
           /\ ~Ready(doc.nodes, op) =>
                 /\ Try(doc, op).nodes = doc.nodes
                 /\ Try(doc, op).held = Append(doc.held, op)
<1>1. doc.nodes \in Texts /\ doc.held \in Seq(OpRecords)
  BY DEF DocRecords
<1>2. CASE Ready(doc.nodes, op)
  <2>1. Integrate(doc.nodes, op) \in Texts
    BY <1>1, <1>2, IntegrateFacts
  <2> QED BY <1>1, <1>2, <2>1 DEF Try, DocRecords
<1>3. CASE ~Ready(doc.nodes, op)
  <2>1. Append(doc.held, op) \in Seq(OpRecords)
    BY <1>1
  <2> QED BY <1>1, <1>3, <2>1 DEF Try, DocRecords
<1> QED BY <1>2, <1>3

\* One pass over what is held, one attempt after the other.
LEMMA RetryRuns ==
    ASSUME NEW doc \in DocRecords
    PROVE  \E g \in [0..Len(doc.held) -> DocRecords] :
              /\ g[0] = [doc EXCEPT !.held = <<>>]
              /\ \A k \in 1..Len(doc.held) : g[k] = Try(g[k - 1], doc.held[k])
              /\ Retry(doc) = g[Len(doc.held)]
<1> DEFINE N == Len(doc.held)
           base == [doc EXCEPT !.held = <<>>]
           next(d, i) == Try(d, doc.held[i])
           step(f) == [i \in 0..Len(doc.held) |->
                         IF i = 0 THEN [doc EXCEPT !.held = <<>>] ELSE Try(f[i - 1], doc.held[i])]
           tried == CHOOSE f : f = step(f)
           F == [k \in 1..N |-> [d \in DocRecords |-> next(d, k)]]
<1>1. N \in Nat /\ base \in DocRecords
  <2>1. doc.nodes \in Texts /\ doc.held \in Seq(OpRecords)
    BY DEF DocRecords
  <2>2. base = [nodes |-> doc.nodes, held |-> <<>>]
    BY DEF DocRecords
  <2> HIDE DEF base
  <2> QED BY <2>1, <2>2 DEF DocRecords
<1>2. \A k \in 1..N, d \in DocRecords : next(d, k) \in DocRecords
  <2>1. \A k \in 1..N : doc.held[k] \in OpRecords
    BY DEF DocRecords
  <2> QED BY <2>1, TryType
<1>3. PICK g : Defined(g, N, DocRecords, base, F)
  <2>1. F \in [1..N -> [DocRecords -> DocRecords]]
    <3> HIDE DEF next
    <3> QED BY <1>2
  <2>2. Recurs(N, DocRecords, base, F)
    <3> HIDE DEF F, N, base
    <3> QED BY <1>1, <2>1 DEF Recurs
  <2> QED BY <2>2, Recursion
<1>4. /\ DOMAIN g = 0..N /\ g[0] = base
      /\ \A k \in 1..N : g[k - 1] \in DocRecords /\ g[k] = next(g[k - 1], k)
  <2>1. \A k \in 1..N, d \in DocRecords : F[k][d] = next(d, k)
    <3> HIDE DEF next
    <3> QED OBVIOUS
  <2>2. \A k \in 1..N : k - 1 \in 0..N
    <3> HIDE DEF N
    <3> QED BY <1>1
  <2> HIDE DEF F, N, base, next
  <2> QED BY <1>3, <2>1, <2>2 DEF Defined
<1>5. g = step(g)
  <2>1. \A i \in 0..N : i = 0 \/ i \in 1..N
    <3> HIDE DEF N
    <3> QED BY <1>1
  <2>2. DOMAIN step(g) = 0..N /\ \A i \in 0..N : g[i] = step(g)[i]
    BY <1>4, <2>1
  <2>3. step(g) = [i \in 0..N |-> step(g)[i]]
    OBVIOUS
  <2>4. g = [i \in 0..N |-> g[i]]
    BY <1>3 DEF Defined
  <2> HIDE DEF step, N
  <2> QED BY <2>2, <2>3, <2>4
<1>6. tried = step(tried)
  BY <1>5, Zenon
<1>7. tried[0] = base /\ (\A k \in 1..N : tried[k] = next(tried[k - 1], k)) /\ DOMAIN tried = 0..N
  <2> DEFINE f == step(tried)
  <2>1. f[0] = base /\ (\A k \in 1..N : f[k] = next(tried[k - 1], k)) /\ DOMAIN f = 0..N
    BY <1>1
  <2> QED BY <1>6, <2>1
<1>8. Retry(doc) = tried[N]
  BY Zenon DEF Retry, tried
<1> HIDE DEF tried, next, F, base
<1>9. \A k \in 0..N : tried[k] \in DocRecords
  <2> DEFINE S == {k \in 0..N : tried[k] \in DocRecords}
  <2>1. 0 \in S
    BY <1>1, <1>7
  <2>2. \A k \in 1..N : k - 1 \in S => k \in S
    BY <1>1, <1>2, <1>7
  <2>3. \A k \in 0..N : k \in S
    <3> HIDE DEF S, N
    <3> QED BY <1>1, <2>1, <2>2, Steps
  <2> QED BY <2>3
<1>10. tried \in [0..N -> DocRecords]
  <2>1. tried = [k \in 0..N |-> tried[k]]
    BY <1>6 DEF tried
  <2> HIDE DEF N
  <2> QED BY <1>9, <2>1
<1> QED BY <1>7, <1>8, <1>10 DEF next, base

\* One pass over what is held yields a document.
LEMMA RetryType ==
    ASSUME NEW doc \in DocRecords
    PROVE  Retry(doc) \in DocRecords
<1>1. PICK g \in [0..Len(doc.held) -> DocRecords] : Retry(doc) = g[Len(doc.held)]
  BY RetryRuns
<1>2. Len(doc.held) \in 0..Len(doc.held)
  BY DEF DocRecords
<1> QED BY <1>1, <1>2

\* The passes of Apply over what is held.
LEMMA ApplyPasses ==
    ASSUME NEW doc \in DocRecords, NEW op \in OpRecords
    PROVE  \E g \in [0..Len(doc.held) -> DocRecords] :
              /\ g[0] = Try(doc, op)
              /\ \A k \in 1..Len(doc.held) : g[k] = Retry(g[k - 1])
              /\ Apply(doc, op) = IF Ready(doc.nodes, op) THEN g[Len(doc.held)] ELSE Try(doc, op)
<1> DEFINE N == Len(doc.held)
           base == Try(doc, op)
           next(d, i) == Retry(d)
           step(f) == [i \in 0..Len(doc.held) |-> IF i = 0 THEN Try(doc, op) ELSE Retry(f[i - 1])]
           pass == CHOOSE f : f = step(f)
           F == [k \in 1..N |-> [d \in DocRecords |-> next(d, k)]]
<1>1. N \in Nat /\ base \in DocRecords
  <2>1. doc.held \in Seq(OpRecords)
    BY DEF DocRecords
  <2> QED BY <2>1, TryType
<1>2. \A k \in 1..N, d \in DocRecords : next(d, k) \in DocRecords
  BY RetryType
<1>3. PICK g : Defined(g, N, DocRecords, base, F)
  <2>1. F \in [1..N -> [DocRecords -> DocRecords]]
    <3> HIDE DEF next
    <3> QED BY <1>2
  <2>2. Recurs(N, DocRecords, base, F)
    <3> HIDE DEF F, N, base
    <3> QED BY <1>1, <2>1 DEF Recurs
  <2> QED BY <2>2, Recursion
<1>4. /\ DOMAIN g = 0..N /\ g[0] = base
      /\ \A k \in 1..N : g[k - 1] \in DocRecords /\ g[k] = next(g[k - 1], k)
  <2>1. \A k \in 1..N, d \in DocRecords : F[k][d] = next(d, k)
    <3> HIDE DEF next
    <3> QED OBVIOUS
  <2>2. \A k \in 1..N : k - 1 \in 0..N
    <3> HIDE DEF N
    <3> QED BY <1>1
  <2> HIDE DEF F, N, base, next
  <2> QED BY <1>3, <2>1, <2>2 DEF Defined
<1>5. g = step(g)
  <2>1. \A i \in 0..N : i = 0 \/ i \in 1..N
    <3> HIDE DEF N
    <3> QED BY <1>1
  <2>2. DOMAIN step(g) = 0..N /\ \A i \in 0..N : g[i] = step(g)[i]
    BY <1>4, <2>1
  <2>3. step(g) = [i \in 0..N |-> step(g)[i]]
    OBVIOUS
  <2>4. g = [i \in 0..N |-> g[i]]
    BY <1>3 DEF Defined
  <2> HIDE DEF step, N
  <2> QED BY <2>2, <2>3, <2>4
<1>6. pass = step(pass)
  BY <1>5, Zenon
<1>7. pass[0] = base /\ (\A k \in 1..N : pass[k] = next(pass[k - 1], k)) /\ DOMAIN pass = 0..N
  <2> DEFINE f == step(pass)
  <2>1. f[0] = base /\ (\A k \in 1..N : f[k] = next(pass[k - 1], k)) /\ DOMAIN f = 0..N
    BY <1>1
  <2> QED BY <1>6, <2>1
<1>8. Apply(doc, op) = IF Ready(doc.nodes, op) THEN pass[N] ELSE Try(doc, op)
  BY Zenon DEF Apply, pass
<1> HIDE DEF pass, next, F, base
<1>9. \A k \in 0..N : pass[k] \in DocRecords
  <2> DEFINE S == {k \in 0..N : pass[k] \in DocRecords}
  <2>1. 0 \in S
    BY <1>1, <1>7
  <2>2. \A k \in 1..N : k - 1 \in S => k \in S
    BY <1>1, <1>2, <1>7
  <2>3. \A k \in 0..N : k \in S
    <3> HIDE DEF S, N
    <3> QED BY <1>1, <2>1, <2>2, Steps
  <2> QED BY <2>3
<1>10. pass \in [0..N -> DocRecords]
  <2>1. pass = [k \in 0..N |-> pass[k]]
    BY <1>6 DEF pass
  <2> HIDE DEF N
  <2> QED BY <1>9, <2>1
<1> QED BY <1>7, <1>8, <1>10 DEF next, base

\* So does an operation.
LEMMA ApplyType ==
    ASSUME NEW doc \in DocRecords, NEW op \in OpRecords
    PROVE  Apply(doc, op) \in DocRecords
<1>1. PICK g \in [0..Len(doc.held) -> DocRecords] :
         Apply(doc, op) = IF Ready(doc.nodes, op) THEN g[Len(doc.held)] ELSE Try(doc, op)
  BY ApplyPasses
<1>2. Len(doc.held) \in 0..Len(doc.held)
  BY DEF DocRecords
<1> QED BY <1>1, <1>2, TryType

\* Operations are applied one after the other.
LEMMA ApplyAllRuns ==
    ASSUME NEW doc \in DocRecords, NEW ops \in Seq(OpRecords)
    PROVE  \E g \in [0..Len(ops) -> DocRecords] :
              /\ g[0] = doc
              /\ \A k \in 1..Len(ops) : g[k] = Apply(g[k - 1], ops[k])
              /\ ApplyAll(doc, ops) = g[Len(ops)]
<1> DEFINE N == Len(ops)
           base == doc
           next(d, i) == Apply(d, ops[i])
           step(f) == [i \in 0..Len(ops) |-> IF i = 0 THEN doc ELSE Apply(f[i - 1], ops[i])]
           after == CHOOSE f : f = step(f)
           F == [k \in 1..N |-> [d \in DocRecords |-> next(d, k)]]
<1>1. N \in Nat /\ base \in DocRecords
  OBVIOUS
<1>2. \A k \in 1..N, d \in DocRecords : next(d, k) \in DocRecords
  BY ApplyType
<1>3. PICK g : Defined(g, N, DocRecords, base, F)
  <2>1. F \in [1..N -> [DocRecords -> DocRecords]]
    <3> HIDE DEF next
    <3> QED BY <1>2
  <2>2. Recurs(N, DocRecords, base, F)
    <3> HIDE DEF F, N, base
    <3> QED BY <1>1, <2>1 DEF Recurs
  <2> QED BY <2>2, Recursion
<1>4. /\ DOMAIN g = 0..N /\ g[0] = base
      /\ \A k \in 1..N : g[k - 1] \in DocRecords /\ g[k] = next(g[k - 1], k)
  <2>1. \A k \in 1..N, d \in DocRecords : F[k][d] = next(d, k)
    <3> HIDE DEF next
    <3> QED OBVIOUS
  <2>2. \A k \in 1..N : k - 1 \in 0..N
    <3> HIDE DEF N
    <3> QED BY <1>1
  <2> HIDE DEF F, N, base, next
  <2> QED BY <1>3, <2>1, <2>2 DEF Defined
<1>5. g = step(g)
  <2>1. \A i \in 0..N : i = 0 \/ i \in 1..N
    <3> HIDE DEF N
    <3> QED BY <1>1
  <2>2. DOMAIN step(g) = 0..N /\ \A i \in 0..N : g[i] = step(g)[i]
    BY <1>4, <2>1
  <2>3. step(g) = [i \in 0..N |-> step(g)[i]]
    OBVIOUS
  <2>4. g = [i \in 0..N |-> g[i]]
    BY <1>3 DEF Defined
  <2> HIDE DEF step, N
  <2> QED BY <2>2, <2>3, <2>4
<1>6. after = step(after)
  BY <1>5, Zenon
<1>7. after[0] = base /\ (\A k \in 1..N : after[k] = next(after[k - 1], k)) /\ DOMAIN after = 0..N
  <2> DEFINE f == step(after)
  <2>1. f[0] = base /\ (\A k \in 1..N : f[k] = next(after[k - 1], k)) /\ DOMAIN f = 0..N
    BY <1>1
  <2> QED BY <1>6, <2>1
<1>8. ApplyAll(doc, ops) = after[N]
  BY Zenon DEF ApplyAll, after
<1> HIDE DEF after, next, F, base
<1>9. \A k \in 0..N : after[k] \in DocRecords
  <2> DEFINE S == {k \in 0..N : after[k] \in DocRecords}
  <2>1. 0 \in S
    BY <1>1, <1>7
  <2>2. \A k \in 1..N : k - 1 \in S => k \in S
    BY <1>1, <1>2, <1>7
  <2>3. \A k \in 0..N : k \in S
    <3> HIDE DEF S, N
    <3> QED BY <1>1, <2>1, <2>2, Steps
  <2> QED BY <2>3
<1>10. after \in [0..N -> DocRecords]
  <2>1. after = [k \in 0..N |-> after[k]]
    BY <1>6 DEF after
  <2> HIDE DEF N
  <2> QED BY <1>9, <2>1
<1> QED BY <1>7, <1>8, <1>10 DEF next, base

\* So does a run of operations.
LEMMA ApplyAllType ==
    ASSUME NEW doc \in DocRecords, NEW ops \in Seq(OpRecords)
    PROVE  ApplyAll(doc, ops) \in DocRecords
<1>1. PICK g \in [0..Len(ops) -> DocRecords] : ApplyAll(doc, ops) = g[Len(ops)]
  BY ApplyAllRuns
<1>2. Len(ops) \in 0..Len(ops)
  OBVIOUS
<1> QED BY <1>1, <1>2

\* The records of the canvas's writes.
Changes == [ops : Seq(OpRecords), resync : BOOLEAN]

\* Writes that were heard are applied one after the other.
LEMMA CatchUpRuns ==
    ASSUME NEW doc \in DocRecords, NEW told \in Seq(Changes)
    PROVE  \E g \in [0..Len(told) -> DocRecords] :
              /\ g[0] = doc
              /\ \A k \in 1..Len(told) : g[k] = ApplyAll(g[k - 1], told[k].ops)
              /\ CatchUp(doc, told) = g[Len(told)]
<1> DEFINE N == Len(told)
           base == doc
           next(d, i) == ApplyAll(d, told[i].ops)
           step(f) == [i \in 0..Len(told) |-> IF i = 0 THEN doc ELSE ApplyAll(f[i - 1], told[i].ops)]
           after == CHOOSE f : f = step(f)
           F == [k \in 1..N |-> [d \in DocRecords |-> next(d, k)]]
<1>1. N \in Nat /\ base \in DocRecords
  OBVIOUS
<1>2. \A k \in 1..N, d \in DocRecords : next(d, k) \in DocRecords
  <2>1. \A k \in 1..N : told[k].ops \in Seq(OpRecords)
    <3>1. \A k \in 1..N : told[k] \in Changes
      OBVIOUS
    <3> QED BY <3>1 DEF Changes
  <2> QED BY <2>1, ApplyAllType
<1>3. PICK g : Defined(g, N, DocRecords, base, F)
  <2>1. F \in [1..N -> [DocRecords -> DocRecords]]
    <3> HIDE DEF next
    <3> QED BY <1>2
  <2>2. Recurs(N, DocRecords, base, F)
    <3> HIDE DEF F, N, base
    <3> QED BY <1>1, <2>1 DEF Recurs
  <2> QED BY <2>2, Recursion
<1>4. /\ DOMAIN g = 0..N /\ g[0] = base
      /\ \A k \in 1..N : g[k - 1] \in DocRecords /\ g[k] = next(g[k - 1], k)
  <2>1. \A k \in 1..N, d \in DocRecords : F[k][d] = next(d, k)
    <3> HIDE DEF next
    <3> QED OBVIOUS
  <2>2. \A k \in 1..N : k - 1 \in 0..N
    <3> HIDE DEF N
    <3> QED BY <1>1
  <2> HIDE DEF F, N, base, next
  <2> QED BY <1>3, <2>1, <2>2 DEF Defined
<1>5. g = step(g)
  <2>1. \A i \in 0..N : i = 0 \/ i \in 1..N
    <3> HIDE DEF N
    <3> QED BY <1>1
  <2>2. DOMAIN step(g) = 0..N /\ \A i \in 0..N : g[i] = step(g)[i]
    BY <1>4, <2>1
  <2>3. step(g) = [i \in 0..N |-> step(g)[i]]
    OBVIOUS
  <2>4. g = [i \in 0..N |-> g[i]]
    BY <1>3 DEF Defined
  <2> HIDE DEF step, N
  <2> QED BY <2>2, <2>3, <2>4
<1>6. after = step(after)
  BY <1>5, Zenon
<1>7. after[0] = base /\ (\A k \in 1..N : after[k] = next(after[k - 1], k)) /\ DOMAIN after = 0..N
  <2> DEFINE f == step(after)
  <2>1. f[0] = base /\ (\A k \in 1..N : f[k] = next(after[k - 1], k)) /\ DOMAIN f = 0..N
    BY <1>1
  <2> QED BY <1>6, <2>1
<1>8. CatchUp(doc, told) = after[N]
  BY Zenon DEF CatchUp, after
<1> HIDE DEF after, next, F, base
<1>9. \A k \in 0..N : after[k] \in DocRecords
  <2> DEFINE S == {k \in 0..N : after[k] \in DocRecords}
  <2>1. 0 \in S
    BY <1>1, <1>7
  <2>2. \A k \in 1..N : k - 1 \in S => k \in S
    BY <1>1, <1>2, <1>7
  <2>3. \A k \in 0..N : k \in S
    <3> HIDE DEF S, N
    <3> QED BY <1>1, <2>1, <2>2, Steps
  <2> QED BY <2>3
<1>10. after \in [0..N -> DocRecords]
  <2>1. after = [k \in 0..N |-> after[k]]
    BY <1>6 DEF after
  <2> HIDE DEF N
  <2> QED BY <1>9, <2>1
<1> QED BY <1>7, <1>8, <1>10 DEF next, base

\* So does a run of writes.
LEMMA CatchUpType ==
    ASSUME NEW doc \in DocRecords, NEW told \in Seq(Changes)
    PROVE  CatchUp(doc, told) \in DocRecords
<1>1. PICK g \in [0..Len(told) -> DocRecords] : CatchUp(doc, told) = g[Len(told)]
  BY CatchUpRuns
<1>2. Len(told) \in 0..Len(told)
  OBVIOUS
<1> QED BY <1>1, <1>2

(***************************************************************************)
(* What holds of a text and the operations in hand (held, or still to be   *)
(* applied), and survives the placing of any of them, holds of what the    *)
(* operations make of it.  P is the set of such texts with operations.     *)
(***************************************************************************)
Kept(P) ==
    \A nodes, hand, op : <<nodes, hand>> \in P /\ op \in hand /\ Ready(nodes, op) =>
        <<Integrate(nodes, op), hand>> \in P /\ <<Integrate(nodes, op), hand \ {op}>> \in P

\* What the placing of an operation keeps, an attempt keeps.
LEMMA TryKeeps ==
    ASSUME NEW P, Kept(P), NEW doc \in DocRecords, NEW op \in OpRecords, NEW rest,
           <<doc.nodes, Range(doc.held) \cup {op} \cup rest>> \in P
    PROVE  <<Try(doc, op).nodes, Range(Try(doc, op).held) \cup rest>> \in P
<1>1. doc.held \in Seq(OpRecords)
  BY DEF DocRecords
<1>2. CASE Ready(doc.nodes, op)
  <2> DEFINE hand == Range(doc.held) \cup {op} \cup rest
             nodes == Integrate(doc.nodes, op)
             left == Range(doc.held) \cup rest
  <2>1. <<nodes, hand>> \in P /\ <<nodes, hand \ {op}>> \in P
    BY <1>2, Zenon DEF Kept
  <2>2. left = hand \/ left = hand \ {op}
    OBVIOUS
  <2>3. Try(doc, op).nodes = nodes /\ Try(doc, op).held = doc.held
    BY <1>2, TryType
  <2>4. <<nodes, left>> \in P
    <3> HIDE DEF nodes, left, hand
    <3> QED BY <2>1, <2>2
  <2> QED BY <2>3, <2>4
<1>3. CASE ~Ready(doc.nodes, op)
  <2>1. Try(doc, op).nodes = doc.nodes /\ Try(doc, op).held = Append(doc.held, op)
    BY <1>3, TryType
  <2>2. Range(Append(doc.held, op)) = Range(doc.held) \cup {op}
    <3> DEFINE more == Append(doc.held, op)
    <3>1. /\ DOMAIN more = 1..(Len(doc.held) + 1) /\ DOMAIN doc.held = 1..Len(doc.held)
          /\ Len(doc.held) \in Nat /\ more[Len(doc.held) + 1] = op
          /\ \A i \in 1..Len(doc.held) : more[i] = doc.held[i]
      BY <1>1
    <3>2. \A i \in 1..(Len(doc.held) + 1) : i = Len(doc.held) + 1 \/ i \in 1..Len(doc.held)
      BY <3>1
    <3>3. 1..Len(doc.held) \subseteq 1..(Len(doc.held) + 1) /\ Len(doc.held) + 1 \in 1..(Len(doc.held) + 1)
      BY <3>1
    <3> HIDE DEF more
    <3>4. Range(more) = Range(doc.held) \cup {op}
      BY <3>1, <3>2, <3>3 DEF Range
    <3> QED BY <3>4 DEF more
  <2> QED BY <2>1, <2>2
<1> QED BY <1>2, <1>3

\* So does a pass over what is held.
LEMMA RetryKeeps ==
    ASSUME NEW P, Kept(P), NEW doc \in DocRecords, NEW rest,
           <<doc.nodes, Range(doc.held) \cup rest>> \in P
    PROVE  <<Retry(doc).nodes, Range(Retry(doc).held) \cup rest>> \in P
<1> DEFINE N == Len(doc.held)
           later(k) == {doc.held[j] : j \in (k + 1)..N} \cup rest
<1>1. /\ N \in Nat /\ doc.held \in Seq(OpRecords)
      /\ \A k \in 1..N : doc.held[k] \in OpRecords
  BY DEF DocRecords
<1>2. PICK g \in [0..N -> DocRecords] :
         /\ g[0] = [doc EXCEPT !.held = <<>>]
         /\ \A k \in 1..N : g[k] = Try(g[k - 1], doc.held[k])
         /\ Retry(doc) = g[N]
  BY RetryRuns
<1> DEFINE In(k) == <<g[k].nodes, Range(g[k].held) \cup later(k)>> \in P
<1>3. In(0)
  <2>1. g[0].nodes = doc.nodes /\ g[0].held = <<>>
    BY <1>2 DEF DocRecords
  <2>2. Range(<<>>) = {}
    BY DEF Range
  <2>3. Range(doc.held) = {doc.held[j] : j \in (0 + 1)..N}
    BY <1>1 DEF Range
  <2>4. Range(g[0].held) \cup later(0) = Range(doc.held) \cup rest
    BY <2>1, <2>2, <2>3
  <2> QED BY <1>1, <2>1, <2>4
<1>4. ASSUME NEW k \in 1..N, In(k - 1) PROVE In(k)
  <2>1. later(k - 1) = {doc.held[k]} \cup later(k)
    <3>1. \A j \in Int : j \in ((k - 1) + 1)..N <=> j = k \/ j \in (k + 1)..N
      BY <1>1
    <3> QED BY <1>1, <3>1
  <2>2. g[k - 1] \in DocRecords /\ doc.held[k] \in OpRecords
    BY <1>1, <1>2
  <2> HIDE DEF later
  <2>3. <<g[k - 1].nodes, Range(g[k - 1].held) \cup {doc.held[k]} \cup later(k)>> \in P
    <3>1. Range(g[k - 1].held) \cup {doc.held[k]} \cup later(k)
            = Range(g[k - 1].held) \cup later(k - 1)
      BY <2>1
    <3> QED BY <1>4, <3>1
  <2>4. <<Try(g[k - 1], doc.held[k]).nodes, Range(Try(g[k - 1], doc.held[k]).held) \cup later(k)>> \in P
    BY <2>2, <2>3, TryKeeps
  <2> QED BY <1>1, <1>2, <2>4
<1>5. In(N)
  <2> DEFINE S == {k \in 0..N : In(k)}
  <2> HIDE DEF In, N
  <2>1. 0 \in S /\ \A k \in 1..N : k - 1 \in S => k \in S
    BY <1>1, <1>3, <1>4
  <2>2. \A k \in 0..N : k \in S
    <3> HIDE DEF S
    <3> QED BY <1>1, <2>1, Steps
  <2> QED BY <1>1, <2>2
<1>6. later(N) = rest
  BY <1>1
<1> HIDE DEF later
<1> QED BY <1>2, <1>5, <1>6

\* So does an operation with its passes.
LEMMA ApplyKeeps ==
    ASSUME NEW P, Kept(P), NEW doc \in DocRecords, NEW op \in OpRecords, NEW rest,
           \/ <<doc.nodes, Range(doc.held) \cup {op} \cup rest>> \in P
           \/ /\ Ready(doc.nodes, op)
              /\ <<Integrate(doc.nodes, op), Range(doc.held) \cup rest>> \in P
    PROVE  <<Apply(doc, op).nodes, Range(Apply(doc, op).held) \cup rest>> \in P
<1> DEFINE N == Len(doc.held)
<1>1. N \in Nat
  BY DEF DocRecords
<1>2. PICK g \in [0..N -> DocRecords] :
         /\ g[0] = Try(doc, op)
         /\ \A k \in 1..N : g[k] = Retry(g[k - 1])
         /\ Apply(doc, op) = IF Ready(doc.nodes, op) THEN g[N] ELSE Try(doc, op)
  BY ApplyPasses
<1> DEFINE In(k) == <<g[k].nodes, Range(g[k].held) \cup rest>> \in P
<1>3. <<Try(doc, op).nodes, Range(Try(doc, op).held) \cup rest>> \in P
  <2>1. CASE <<doc.nodes, Range(doc.held) \cup {op} \cup rest>> \in P
    BY <2>1, TryKeeps
  <2>2. CASE /\ Ready(doc.nodes, op)
             /\ <<Integrate(doc.nodes, op), Range(doc.held) \cup rest>> \in P
    BY <2>2, TryType
  <2> QED BY <2>1, <2>2
<1>4. In(0)
  BY <1>1, <1>2, <1>3
<1>5. ASSUME NEW k \in 1..N, In(k - 1) PROVE In(k)
  <2>1. g[k - 1] \in DocRecords
    <3>1. k - 1 \in 0..N
      BY <1>1
    <3> HIDE DEF N
    <3> QED BY <1>2, <3>1
  <2>2. <<Retry(g[k - 1]).nodes, Range(Retry(g[k - 1]).held) \cup rest>> \in P
    BY <1>5, <2>1, RetryKeeps
  <2> QED BY <1>1, <1>2, <2>2
<1>6. In(N)
  <2> DEFINE S == {k \in 0..N : In(k)}
  <2> HIDE DEF In, N
  <2>1. 0 \in S /\ \A k \in 1..N : k - 1 \in S => k \in S
    BY <1>1, <1>4, <1>5
  <2>2. \A k \in 0..N : k \in S
    <3> HIDE DEF S
    <3> QED BY <1>1, <2>1, Steps
  <2> QED BY <1>1, <2>2
<1> QED BY <1>2, <1>3, <1>6

\* So does a run of operations.
LEMMA ApplyAllKeeps ==
    ASSUME NEW P, Kept(P), NEW doc \in DocRecords, NEW ops \in Seq(OpRecords), NEW rest,
           <<doc.nodes, Range(doc.held) \cup Range(ops) \cup rest>> \in P
    PROVE  <<ApplyAll(doc, ops).nodes, Range(ApplyAll(doc, ops).held) \cup rest>> \in P
<1> DEFINE N == Len(ops)
           later(k) == {ops[j] : j \in (k + 1)..N} \cup rest
<1>1. N \in Nat
  OBVIOUS
<1>2. PICK g \in [0..N -> DocRecords] :
         /\ g[0] = doc
         /\ \A k \in 1..N : g[k] = Apply(g[k - 1], ops[k])
         /\ ApplyAll(doc, ops) = g[N]
  BY ApplyAllRuns
<1> DEFINE In(k) == <<g[k].nodes, Range(g[k].held) \cup later(k)>> \in P
<1>3. In(0)
  <2>1. Range(ops) = {ops[j] : j \in (0 + 1)..N}
    BY DEF Range
  <2>2. Range(g[0].held) \cup later(0) = Range(doc.held) \cup Range(ops) \cup rest
    BY <1>2, <2>1
  <2> QED BY <1>1, <1>2, <2>2
<1>4. ASSUME NEW k \in 1..N, In(k - 1) PROVE In(k)
  <2>1. later(k - 1) = {ops[k]} \cup later(k)
    <3>1. \A j \in Int : j \in ((k - 1) + 1)..N <=> j = k \/ j \in (k + 1)..N
      BY <1>1
    <3> QED BY <1>1, <3>1
  <2>2. g[k - 1] \in DocRecords /\ ops[k] \in OpRecords
    BY <1>1, <1>2
  <2> HIDE DEF later
  <2>3. <<g[k - 1].nodes, Range(g[k - 1].held) \cup {ops[k]} \cup later(k)>> \in P
    <3>1. Range(g[k - 1].held) \cup {ops[k]} \cup later(k) = Range(g[k - 1].held) \cup later(k - 1)
      BY <2>1
    <3> QED BY <1>4, <3>1
  <2>4. <<Apply(g[k - 1], ops[k]).nodes, Range(Apply(g[k - 1], ops[k]).held) \cup later(k)>> \in P
    BY <2>2, <2>3, ApplyKeeps
  <2> QED BY <1>1, <1>2, <2>4
<1>5. In(N)
  <2> DEFINE S == {k \in 0..N : In(k)}
  <2> HIDE DEF In, N
  <2>1. 0 \in S /\ \A k \in 1..N : k - 1 \in S => k \in S
    BY <1>1, <1>3, <1>4
  <2>2. \A k \in 0..N : k \in S
    <3> HIDE DEF S
    <3> QED BY <1>1, <2>1, Steps
  <2> QED BY <1>1, <2>2
<1>6. later(N) = rest
  BY <1>1
<1> HIDE DEF later
<1> QED BY <1>2, <1>5, <1>6

\* The operations of writes.
Told(told) == UNION {Range(told[i].ops) : i \in DOMAIN told}

\* So does a run of writes.
LEMMA CatchUpKeeps ==
    ASSUME NEW P, Kept(P), NEW doc \in DocRecords, NEW told \in Seq(Changes),
           <<doc.nodes, Range(doc.held) \cup Told(told)>> \in P
    PROVE  <<CatchUp(doc, told).nodes, Range(CatchUp(doc, told).held)>> \in P
<1> DEFINE N == Len(told)
           later(k) == UNION {Range(told[j].ops) : j \in (k + 1)..N}
<1>1. N \in Nat /\ DOMAIN told = 1..N
  OBVIOUS
<1>2. PICK g \in [0..N -> DocRecords] :
         /\ g[0] = doc
         /\ \A k \in 1..N : g[k] = ApplyAll(g[k - 1], told[k].ops)
         /\ CatchUp(doc, told) = g[N]
  BY CatchUpRuns
<1> DEFINE In(k) == <<g[k].nodes, Range(g[k].held) \cup later(k)>> \in P
<1>3. In(0)
  <2>1. Told(told) = later(0)
    BY <1>1 DEF Told
  <2> QED BY <1>1, <1>2, <2>1
<1>4. ASSUME NEW k \in 1..N, In(k - 1) PROVE In(k)
  <2>1. later(k - 1) = Range(told[k].ops) \cup later(k)
    <3>1. \A j \in Int : j \in ((k - 1) + 1)..N <=> j = k \/ j \in (k + 1)..N
      BY <1>1
    <3> QED BY <1>1, <3>1
  <2>2. g[k - 1] \in DocRecords /\ told[k].ops \in Seq(OpRecords)
    <3>1. k - 1 \in 0..N
      BY <1>1
    <3>2. told[k] \in Changes
      OBVIOUS
    <3> HIDE DEF N
    <3> QED BY <1>2, <3>1, <3>2 DEF Changes
  <2> HIDE DEF later
  <2>3. <<g[k - 1].nodes, Range(g[k - 1].held) \cup Range(told[k].ops) \cup later(k)>> \in P
    <3>1. Range(g[k - 1].held) \cup Range(told[k].ops) \cup later(k)
             = Range(g[k - 1].held) \cup later(k - 1)
      BY <2>1
    <3> QED BY <1>4, <3>1
  <2>4. <<ApplyAll(g[k - 1], told[k].ops).nodes,
          Range(ApplyAll(g[k - 1], told[k].ops).held) \cup later(k)>> \in P
    BY <2>2, <2>3, ApplyAllKeeps
  <2> QED BY <1>1, <1>2, <2>4
<1>5. In(N)
  <2> DEFINE S == {k \in 0..N : In(k)}
  <2> HIDE DEF In, N
  <2>1. 0 \in S /\ \A k \in 1..N : k - 1 \in S => k \in S
    BY <1>1, <1>3, <1>4
  <2>2. \A k \in 0..N : k \in S
    <3> HIDE DEF S
    <3> QED BY <1>1, <2>1, Steps
  <2> QED BY <1>1, <2>2
<1>6. later(N) = {}
  BY <1>1
<1> HIDE DEF later
<1> QED BY <1>2, <1>5, <1>6

-----------------------------------------------------------------------------
(* What a run of operations leaves: nothing is lost and nothing made up.   *)

Given(ops) == UNION {Named(op) : op \in ops}
Cut(ops) == UNION {op.delete : op \in ops}
Spelt(ops) == UNION {Written(op) : op \in ops}

Done(nodes, op) == Named(op) \subseteq Names(nodes) /\ op.delete \subseteq Gone(nodes)

\* nodes, with the operations in hand left, came of the text before by the operations ops.
Grown(before, ops, nodes, hand) ==
    /\ nodes \in Texts /\ hand \subseteq ops
    /\ Names(before) \subseteq Names(nodes) /\ Names(nodes) \subseteq Names(before) \cup Given(ops)
    /\ Gone(before) \subseteq Gone(nodes) /\ Gone(nodes) \subseteq Gone(before) \cup Cut(ops)
    /\ Chars(before) \subseteq Chars(nodes) /\ Chars(nodes) \subseteq Chars(before) \cup Spelt(ops)
    /\ Distinct(before) => Distinct(nodes)
    /\ \A op \in ops : Done(nodes, op) \/ op \in hand

\* Each of these survives the placing of an operation.
LEMMA GrownKeeps ==
    ASSUME NEW before \in Texts, NEW ops \in SUBSET OpRecords
    PROVE  \E P : /\ Kept(P)
                  /\ \A nodes, hand : <<nodes, hand>> \in P <=> Grown(before, ops, nodes, hand)
<1> DEFINE P == {pair \in Texts \X SUBSET OpRecords : Grown(before, ops, pair[1], pair[2])}
<1>1. \A nodes, hand : <<nodes, hand>> \in P <=> Grown(before, ops, nodes, hand)
  <2> SUFFICES ASSUME NEW nodes, NEW hand, Grown(before, ops, nodes, hand)
               PROVE  nodes \in Texts /\ hand \in SUBSET OpRecords
    OBVIOUS
  <2> QED BY DEF Grown
<1>2. ASSUME NEW nodes, NEW hand, NEW op, Grown(before, ops, nodes, hand), op \in hand,
             Ready(nodes, op)
      PROVE  /\ Grown(before, ops, Integrate(nodes, op), hand)
             /\ Grown(before, ops, Integrate(nodes, op), hand \ {op})
  <2>1. nodes \in Texts /\ op \in OpRecords /\ op \in ops
    BY <1>2 DEF Grown
  <2> DEFINE more == Integrate(nodes, op)
  <2>2. /\ more \in Texts
        /\ Names(more) = Names(nodes) \cup Named(op)
        /\ Gone(more) = Gone(nodes) \cup op.delete
        /\ Chars(nodes) \subseteq Chars(more)
        /\ Chars(more) \subseteq Chars(nodes) \cup Written(op)
        /\ Distinct(nodes) => Distinct(more)
    BY <1>2, <2>1, IntegrateFacts
  <2> HIDE DEF more
  <2>3. /\ Named(op) \subseteq Given(ops) /\ op.delete \subseteq Cut(ops)
        /\ Written(op) \subseteq Spelt(ops)
    BY <2>1 DEF Given, Cut, Spelt
  <2>4. Done(more, op) /\ \A other : Done(nodes, other) => Done(more, other)
    BY <2>2 DEF Done
  <2>5. Grown(before, ops, more, hand) /\ Grown(before, ops, more, hand \ {op})
    <3>1. /\ more \in Texts /\ hand \subseteq ops /\ hand \ {op} \subseteq ops
          /\ Names(before) \subseteq Names(more) /\ Names(more) \subseteq Names(before) \cup Given(ops)
      BY <1>2, <2>2, <2>3 DEF Grown
    <3>2. Gone(before) \subseteq Gone(more) /\ Gone(more) \subseteq Gone(before) \cup Cut(ops)
      BY <1>2, <2>2, <2>3 DEF Grown
    <3>3. Chars(before) \subseteq Chars(more) /\ Chars(more) \subseteq Chars(before) \cup Spelt(ops)
      BY <1>2, <2>2, <2>3 DEF Grown
    <3>4. Distinct(before) => Distinct(more)
      BY <1>2, <2>2 DEF Grown
    <3>5. \A o \in ops : Done(more, o) \/ o \in hand \ {op}
      BY <1>2, <2>4 DEF Grown
    <3> QED BY <3>1, <3>2, <3>3, <3>4, <3>5 DEF Grown
  <2> QED BY <2>5 DEF more
<1> HIDE DEF P
<1>3. Kept(P)
  BY <1>1, <1>2 DEF Kept
<1> QED BY <1>1, <1>3

\* A text comes of itself.
LEMMA GrownStart ==
    ASSUME NEW before \in Texts, NEW ops \in SUBSET OpRecords
    PROVE  Grown(before, ops, before, ops)
BY DEF Grown

\* What a run of operations leaves came of them.
LEMMA ApplyAllGrows ==
    ASSUME NEW doc \in DocRecords, NEW ops \in Seq(OpRecords)
    PROVE  Grown(doc.nodes, Range(doc.held) \cup Range(ops),
                 ApplyAll(doc, ops).nodes, Range(ApplyAll(doc, ops).held))
<1> DEFINE all == Range(doc.held) \cup Range(ops)
<1>1. doc.nodes \in Texts /\ all \in SUBSET OpRecords
  <2>1. doc.nodes \in Texts /\ doc.held \in Seq(OpRecords)
    BY DEF DocRecords
  <2> QED BY <2>1 DEF Range
<1>2. PICK P : /\ Kept(P)
               /\ \A nodes, hand : <<nodes, hand>> \in P <=> Grown(doc.nodes, all, nodes, hand)
  BY <1>1, GrownKeeps
<1>3. <<doc.nodes, Range(doc.held) \cup Range(ops) \cup {}>> \in P
  BY <1>1, <1>2, GrownStart
<1>4. <<ApplyAll(doc, ops).nodes, Range(ApplyAll(doc, ops).held) \cup {}>> \in P
  BY <1>2, <1>3, ApplyAllKeeps
<1> QED BY <1>2, <1>4

\* What a run of writes leaves came of them.
LEMMA CatchUpGrows ==
    ASSUME NEW doc \in DocRecords, NEW told \in Seq(Changes)
    PROVE  Grown(doc.nodes, Range(doc.held) \cup Told(told),
                 CatchUp(doc, told).nodes, Range(CatchUp(doc, told).held))
<1> DEFINE all == Range(doc.held) \cup Told(told)
<1>1. doc.nodes \in Texts /\ all \in SUBSET OpRecords
  <2>1. doc.nodes \in Texts /\ doc.held \in Seq(OpRecords)
    BY DEF DocRecords
  <2>2. \A i \in DOMAIN told : told[i].ops \in Seq(OpRecords)
    <3>1. \A i \in DOMAIN told : told[i] \in Changes
      OBVIOUS
    <3> QED BY <3>1 DEF Changes
  <2>3. Told(told) \subseteq OpRecords
    BY <2>2 DEF Told, Range
  <2> QED BY <2>1, <2>3 DEF Range
<1>2. PICK P : /\ Kept(P)
               /\ \A nodes, hand : <<nodes, hand>> \in P <=> Grown(doc.nodes, all, nodes, hand)
  BY <1>1, GrownKeeps
<1>3. <<doc.nodes, Range(doc.held) \cup Told(told)>> \in P
  BY <1>1, <1>2, GrownStart
<1>4. <<CatchUp(doc, told).nodes, Range(CatchUp(doc, told).held)>> \in P
  BY <1>2, <1>3, CatchUpKeeps
<1> QED BY <1>2, <1>4

-----------------------------------------------------------------------------
(* Operations that can be placed as they come.                             *)

\* The operation follows what is there, and its clock is at most one ahead.
Fits(op, names) ==
    /\ Needs(op) \subseteq names
    /\ IsInsert(op) => /\ op.after[1] < op.id[1]
                       /\ op.id[1] <= 1 \/ \E name \in names : op.id[1] <= name[1] + 1

Earlier(ops, i) == {ops[j] : j \in 1..(i - 1)}

Placeable(ops, names) ==
    \A i \in 1..Len(ops) : Fits(ops[i], names \cup Given(Earlier(ops, i)))

\* What fits a text fits one with more names.
LEMMA FitsMore ==
    ASSUME NEW op, NEW names, NEW more, names \subseteq more, Fits(op, names)
    PROVE  Fits(op, more)
BY DEF Fits

\* What can be placed in a text can be placed in one with more names.
LEMMA PlaceableMore ==
    ASSUME NEW ops, NEW names, NEW more, names \subseteq more, Placeable(ops, names)
    PROVE  Placeable(ops, more)
<1>1. \A i \in 1..Len(ops) :
         names \cup Given(Earlier(ops, i)) \subseteq more \cup Given(Earlier(ops, i))
  OBVIOUS
<1> QED BY <1>1, FitsMore DEF Placeable

\* The beginning of such a sequence.
LEMMA PlaceablePart ==
    ASSUME NEW queue \in Seq(OpRecords), NEW names, Placeable(queue, names),
           NEW batch \in Seq(OpRecords), batch = SubSeq(queue, 1, Len(batch)), Len(batch) <= Len(queue)
    PROVE  Placeable(batch, names)
<1>1. \A i \in 1..Len(batch) : batch[i] = queue[i] /\ i \in 1..Len(queue)
  OBVIOUS
<1>2. ASSUME NEW i \in 1..Len(batch) PROVE Earlier(batch, i) = Earlier(queue, i)
  <2>1. \A j \in 1..(i - 1) : batch[j] = queue[j]
    BY <1>1
  <2> QED BY <2>1 DEF Earlier
<1> QED BY <1>1, <1>2 DEF Placeable

\* What operations give, give the operations of either part.
LEMMA GivenFacts ==
    ASSUME NEW one, NEW other
    PROVE  /\ Given(one \cup other) = Given(one) \cup Given(other)
           /\ Given({}) = {}
           /\ one \subseteq other => Given(one) \subseteq Given(other)
BY DEF Given

\* Operations after those of a queue.
LEMMA PlaceableAppend ==
    ASSUME NEW queue \in Seq(OpRecords), NEW names, Placeable(queue, names),
           NEW ops \in Seq(OpRecords), NEW known, known \subseteq names \cup Given(Range(queue)),
           \A op \in Range(ops) : Fits(op, known)
    PROVE  /\ queue \o ops \in Seq(OpRecords) /\ Len(queue \o ops) = Len(queue) + Len(ops)
           /\ Range(queue \o ops) = Range(queue) \cup Range(ops)
           /\ \A n \in 0..Len(queue) : SubSeq(queue \o ops, 1, n) = SubSeq(queue, 1, n)
           /\ Placeable(queue \o ops, names)
<1> DEFINE all == queue \o ops
<1>1. /\ all \in Seq(OpRecords) /\ Len(all) = Len(queue) + Len(ops)
      /\ \A i \in 1..Len(queue) : all[i] = queue[i]
      /\ \A i \in 1..Len(ops) : all[Len(queue) + i] = ops[i]
      /\ Len(queue) \in Nat /\ Len(ops) \in Nat
      /\ DOMAIN all = 1..Len(all) /\ DOMAIN queue = 1..Len(queue) /\ DOMAIN ops = 1..Len(ops)
  OBVIOUS
<1>2. \A n \in 0..Len(queue) : SubSeq(all, 1, n) = SubSeq(queue, 1, n)
  <2> TAKE n \in 0..Len(queue)
  <2> HIDE DEF all
  <2> QED BY <1>1
<1> HIDE DEF all
<1>3. \A i \in 1..Len(all) : i \in 1..Len(queue) \/ i - Len(queue) \in 1..Len(ops)
  BY <1>1
<1>4. Range(all) = Range(queue) \cup Range(ops)
  <2>1. \A i \in 1..Len(all) : all[i] \in Range(queue) \cup Range(ops)
    <3> TAKE i \in 1..Len(all)
    <3>1. CASE i \in 1..Len(queue)
      BY <1>1, <3>1 DEF Range
    <3>2. CASE i - Len(queue) \in 1..Len(ops)
      <4>1. all[Len(queue) + (i - Len(queue))] = ops[i - Len(queue)] /\ Len(queue) + (i - Len(queue)) = i
        BY <1>1, <3>2
      <4> QED BY <1>1, <3>2, <4>1 DEF Range
    <3> QED BY <1>3, <3>1, <3>2
  <2>2. \A i \in 1..Len(queue) : queue[i] \in Range(all)
    <3> TAKE i \in 1..Len(queue)
    <3>1. i \in 1..Len(all)
      BY <1>1
    <3> QED BY <1>1, <3>1 DEF Range
  <2>3. \A i \in 1..Len(ops) : ops[i] \in Range(all)
    <3> TAKE i \in 1..Len(ops)
    <3>1. Len(queue) + i \in 1..Len(all)
      BY <1>1
    <3> QED BY <1>1, <3>1 DEF Range
  <2>4. \A s : \A x : x \in Range(s) <=> \E i \in DOMAIN s : x = s[i]
    BY DEF Range
  <2>5. \A x : x \in Range(all) => x \in Range(queue) \cup Range(ops)
    BY <1>1, <2>1, <2>4
  <2>6. \A x : x \in Range(queue) => x \in Range(all)
    BY <1>1, <2>2, <2>4
  <2>7. \A x : x \in Range(ops) => x \in Range(all)
    BY <1>1, <2>3, <2>4
  <2> QED BY <2>5, <2>6, <2>7
<1>5. ASSUME NEW i \in 1..Len(all) PROVE Fits(all[i], names \cup Given(Earlier(all, i)))
  <2>1. CASE i \in 1..Len(queue)
    <3>1. Earlier(all, i) = Earlier(queue, i)
      <4>1. \A j \in 1..(i - 1) : all[j] = queue[j]
        BY <1>1, <2>1
      <4> QED BY <4>1 DEF Earlier
    <3> QED BY <1>1, <2>1, <3>1 DEF Placeable
  <2>2. CASE i - Len(queue) \in 1..Len(ops)
    <3>1. all[i] \in Range(ops)
      <4>1. all[Len(queue) + (i - Len(queue))] = ops[i - Len(queue)] /\ Len(queue) + (i - Len(queue)) = i
        BY <1>1, <2>2
      <4> QED BY <1>1, <2>2, <4>1 DEF Range
    <3>2. Range(queue) \subseteq Earlier(all, i)
      <4>1. \A j \in 1..Len(queue) : j \in 1..(i - 1) /\ all[j] = queue[j]
        BY <1>1, <2>2
      <4> QED BY <1>1, <4>1 DEF Range, Earlier
    <3>3. known \subseteq names \cup Given(Earlier(all, i))
      BY <3>2, GivenFacts
    <3> QED BY <3>1, <3>3, FitsMore
  <2> QED BY <1>3, <2>1, <2>2
<1> QED BY <1>1, <1>2, <1>4, <1>5 DEF Placeable, all

\* rest is what is left of a queue that begins with a batch.
Leaves(queue, batch, rest) ==
    /\ queue \in Seq(OpRecords) /\ batch \in Seq(OpRecords) /\ Len(batch) <= Len(queue)
    /\ batch = SubSeq(queue, 1, Len(batch))
    /\ rest = SubSeq(queue, Len(batch) + 1, Len(queue))

\* The operations of the queue, from the batch or from the rest.
LEMMA LeavesFacts ==
    ASSUME NEW queue, NEW batch, NEW rest, Leaves(queue, batch, rest)
    PROVE  /\ rest \in Seq(OpRecords)
           /\ Len(batch) \in Nat /\ Len(rest) \in Nat /\ Len(queue) = Len(batch) + Len(rest)
           /\ DOMAIN batch = 1..Len(batch) /\ DOMAIN rest = 1..Len(rest)
           /\ DOMAIN queue = 1..Len(queue)
           /\ \A i \in 1..Len(batch) : queue[i] = batch[i]
           /\ \A i \in 1..Len(rest) : queue[Len(batch) + i] = rest[i]
<1>1. /\ queue \in Seq(OpRecords) /\ batch \in Seq(OpRecords) /\ Len(batch) <= Len(queue)
      /\ batch = SubSeq(queue, 1, Len(batch)) /\ Len(batch) \in Nat /\ Len(queue) \in Nat
      /\ rest = SubSeq(queue, Len(batch) + 1, Len(queue))
  BY DEF Leaves
<1>2. \A i \in 1..Len(batch) : SubSeq(queue, 1, Len(batch))[i] = queue[i]
  BY <1>1
<1>3. rest \in Seq(OpRecords) /\ Len(rest) = Len(queue) - Len(batch)
  BY <1>1
<1>4. \A i \in 1..Len(rest) : rest[i] = queue[Len(batch) + i]
  <2> TAKE i \in 1..Len(rest)
  <2>1. i \in 1..(Len(queue) - Len(batch)) /\ (Len(batch) + 1) + i - 1 = Len(batch) + i
    BY <1>1, <1>3
  <2>2. SubSeq(queue, Len(batch) + 1, Len(queue))[i] = queue[(Len(batch) + 1) + i - 1]
    BY <1>1, <2>1
  <2> QED BY <1>1, <2>1, <2>2
<1>5. \A i \in 1..Len(batch) : queue[i] = batch[i]
  BY <1>1, <1>2
<1> QED BY <1>1, <1>3, <1>4, <1>5

\* What is left of a queue once its beginning is in the text.
LEMMA PlaceableRest ==
    ASSUME NEW queue, NEW batch, NEW rest, Leaves(queue, batch, rest),
           NEW names, Placeable(queue, names), Given(Range(batch)) \subseteq names
    PROVE  /\ rest \in Seq(OpRecords)
           /\ Range(queue) = Range(batch) \cup Range(rest)
           /\ Placeable(rest, names)
<1>1. PICK n \in Nat, m \in Nat :
         /\ n = Len(batch) /\ m = Len(rest) /\ Len(queue) = n + m /\ rest \in Seq(OpRecords)
         /\ DOMAIN batch = 1..n /\ DOMAIN rest = 1..m /\ DOMAIN queue = 1..(n + m)
         /\ \A i \in 1..n : queue[i] = batch[i]
         /\ \A i \in 1..m : queue[n + i] = rest[i]
  <2>1. /\ rest \in Seq(OpRecords)
        /\ Len(batch) \in Nat /\ Len(rest) \in Nat /\ Len(queue) = Len(batch) + Len(rest)
        /\ DOMAIN batch = 1..Len(batch) /\ DOMAIN rest = 1..Len(rest)
        /\ DOMAIN queue = 1..Len(queue)
        /\ \A i \in 1..Len(batch) : queue[i] = batch[i]
        /\ \A i \in 1..Len(rest) : queue[Len(batch) + i] = rest[i]
    BY LeavesFacts
  <2> QED BY <2>1
<1>2. \A s : \A x : x \in Range(s) <=> \E i \in DOMAIN s : x = s[i]
  BY DEF Range
<1>3. \A i \in 1..(n + m) : i \in 1..n \/ (i - n \in 1..m /\ n + (i - n) = i)
  OBVIOUS
<1>4. \A i \in 1..(n + m) : queue[i] \in Range(batch) \cup Range(rest)
  <2> TAKE i \in 1..(n + m)
  <2>1. CASE i \in 1..n
    BY <1>1, <1>2, <2>1
  <2>2. CASE i - n \in 1..m /\ n + (i - n) = i
    <3>1. queue[i] = rest[i - n]
      BY <1>1, <2>2
    <3> QED BY <1>1, <1>2, <2>2, <3>1
  <2> QED BY <1>3, <2>1, <2>2
<1>5. (\A i \in 1..n : i \in 1..(n + m)) /\ (\A i \in 1..m : n + i \in 1..(n + m))
  OBVIOUS
<1>6. Range(queue) = Range(batch) \cup Range(rest)
  <2>1. \A x : x \in Range(queue) => x \in Range(batch) \cup Range(rest)
    BY <1>1, <1>2, <1>4
  <2>2. \A x : x \in Range(batch) => x \in Range(queue)
    <3> SUFFICES ASSUME NEW i \in 1..n PROVE batch[i] \in Range(queue)
      BY <1>1, <1>2
    <3>1. queue[i] = batch[i] /\ i \in DOMAIN queue
      BY <1>1, <1>5
    <3> QED BY <1>2, <3>1
  <2>3. \A x : x \in Range(rest) => x \in Range(queue)
    <3> SUFFICES ASSUME NEW i \in 1..m PROVE rest[i] \in Range(queue)
      BY <1>1, <1>2
    <3>1. queue[n + i] = rest[i] /\ n + i \in DOMAIN queue
      BY <1>1, <1>5
    <3> QED BY <1>2, <3>1
  <2> QED BY <2>1, <2>2, <2>3
<1>7. ASSUME NEW i \in 1..m PROVE Fits(rest[i], names \cup Given(Earlier(rest, i)))
  <2>1. n + i \in 1..(n + m) /\ rest[i] = queue[n + i]
    BY <1>1, <1>5
  <2>2. Fits(rest[i], names \cup Given(Earlier(queue, n + i)))
    BY <1>1, <2>1 DEF Placeable
  <2>3. \A j \in 1..((n + i) - 1) : queue[j] \in Range(batch) \cup Earlier(rest, i)
    <3> TAKE j \in 1..((n + i) - 1)
    <3>1. CASE j \in 1..n
      BY <1>1, <1>2, <3>1
    <3>2. CASE j \notin 1..n
      <4>1. j - n \in 1..(i - 1) /\ j - n \in 1..m /\ n + (j - n) = j
        BY <3>2
      <4>2. queue[j] = rest[j - n]
        BY <1>1, <4>1
      <4> QED BY <4>1, <4>2 DEF Earlier
    <3> QED BY <3>1, <3>2
  <2>4. Earlier(queue, n + i) \subseteq Range(batch) \cup Earlier(rest, i)
    BY <2>3 DEF Earlier
  <2>5. Given(Earlier(queue, n + i)) \subseteq names \cup Given(Earlier(rest, i))
    BY <2>4 DEF Given
  <2> QED BY <2>2, <2>5, FitsMore
<1> QED BY <1>1, <1>6, <1>7 DEF Placeable

\* The first operations of a sequence give the first documents.
LEMMA ApplyAllPrefix ==
    ASSUME NEW doc \in DocRecords, NEW ops \in Seq(OpRecords)
    PROVE  \E g \in [0..Len(ops) -> DocRecords] :
              /\ g[0] = doc
              /\ \A k \in 1..Len(ops) : g[k] = Apply(g[k - 1], ops[k])
              /\ \A k \in 0..Len(ops) : ApplyAll(doc, SubSeq(ops, 1, k)) = g[k]
              /\ ApplyAll(doc, ops) = g[Len(ops)]
<1>1. PICK g \in [0..Len(ops) -> DocRecords] :
         /\ g[0] = doc
         /\ \A k \in 1..Len(ops) : g[k] = Apply(g[k - 1], ops[k])
         /\ ApplyAll(doc, ops) = g[Len(ops)]
  BY ApplyAllRuns
<1>2. ASSUME NEW n \in 0..Len(ops) PROVE ApplyAll(doc, SubSeq(ops, 1, n)) = g[n]
  <2> DEFINE part == SubSeq(ops, 1, n)
  <2>1. part \in Seq(OpRecords) /\ Len(part) = n /\ \A k \in 1..n : part[k] = ops[k]
    OBVIOUS
  <2> HIDE DEF part
  <2>2. PICK h \in [0..n -> DocRecords] :
           /\ h[0] = doc
           /\ \A k \in 1..n : h[k] = Apply(h[k - 1], part[k])
           /\ ApplyAll(doc, part) = h[n]
    BY <2>1, ApplyAllRuns
  <2> DEFINE In(k) == h[k] = g[k]
             S == {k \in 0..n : In(k)}
  <2>3. In(0)
    BY <1>1, <2>2
  <2>4. ASSUME NEW k \in 1..n, In(k - 1) PROVE In(k)
    <3>1. k \in 1..Len(ops)
      OBVIOUS
    <3> QED BY <1>1, <2>1, <2>2, <2>4, <3>1
  <2> HIDE DEF In
  <2>5. n \in Nat /\ 0 \in S /\ \A k \in 1..n : k - 1 \in S => k \in S
    BY <2>3, <2>4
  <2>6. \A k \in 0..n : k \in S
    <3> HIDE DEF S
    <3> QED BY <2>5, Steps
  <2>7. In(n)
    BY <2>5, <2>6
  <2> QED BY <2>2, <2>7 DEF In, part
<1> QED BY <1>1, <1>2

\* An operation that can be placed, when none is held.
LEMMA ApplyReady ==
    ASSUME NEW doc \in DocRecords, NEW op \in OpRecords, doc.held = <<>>, Ready(doc.nodes, op)
    PROVE  /\ Apply(doc, op).nodes = Integrate(doc.nodes, op)
           /\ Apply(doc, op).held = <<>>
<1>1. Len(doc.held) = 0
  OBVIOUS
<1>2. Apply(doc, op) = Try(doc, op)
  BY <1>1, ApplyPasses
<1> QED BY <1>2, TryType

\* Operations that can be placed as they come are placed, each before the next.
LEMMA PlaceableApply ==
    ASSUME NEW nodes \in Texts, NEW ops \in Seq(OpRecords), Placeable(ops, Names(nodes))
    PROVE  \A k \in 0..Len(ops) :
              LET part == ApplyAll(Load(nodes), SubSeq(ops, 1, k))
              IN  /\ part \in DocRecords /\ part.held = <<>>
                  /\ Names(part.nodes) = Names(nodes) \cup Given(Earlier(ops, k + 1))
<1>1. Load(nodes) \in DocRecords
  BY DEF Load, DocRecords
<1>2. PICK g \in [0..Len(ops) -> DocRecords] :
         /\ g[0] = Load(nodes)
         /\ \A k \in 1..Len(ops) : g[k] = Apply(g[k - 1], ops[k])
         /\ \A k \in 0..Len(ops) : ApplyAll(Load(nodes), SubSeq(ops, 1, k)) = g[k]
  BY <1>1, ApplyAllPrefix
<1> DEFINE N == Len(ops)
           In(k) == /\ g[k].held = <<>>
                    /\ Names(g[k].nodes) = Names(nodes) \cup Given(Earlier(ops, k + 1))
           S == {k \in 0..N : In(k)}
<1>3. In(0)
  <2>1. Earlier(ops, 0 + 1) = {}
    BY DEF Earlier
  <2> QED BY <1>2, <2>1 DEF Load, Given
<1>4. ASSUME NEW k \in 1..N, In(k - 1) PROVE In(k)
  <2>1. k - 1 \in 0..N /\ (k - 1) + 1 = k
    OBVIOUS
  <2>2. g[k - 1] \in DocRecords /\ ops[k] \in OpRecords
    BY <1>2, <2>1
  <2>3. Ready(g[k - 1].nodes, ops[k])
    BY <1>4, <2>1 DEF Placeable, Fits, Ready
  <2>4. g[k].nodes = Integrate(g[k - 1].nodes, ops[k]) /\ g[k].held = <<>>
    BY <1>2, <1>4, <2>2, <2>3, ApplyReady
  <2>5. Names(g[k].nodes) = Names(g[k - 1].nodes) \cup Named(ops[k])
    BY <2>2, <2>3, <2>4, IntegrateFacts DEF DocRecords
  <2>6. Earlier(ops, k + 1) = Earlier(ops, k) \cup {ops[k]}
    <3>1. \A j \in Int : j \in 1..((k + 1) - 1) <=> j \in 1..(k - 1) \/ j = k
      OBVIOUS
    <3> QED BY <3>1 DEF Earlier
  <2>7. Given(Earlier(ops, k + 1)) = Given(Earlier(ops, k)) \cup Named(ops[k])
    BY <2>6 DEF Given
  <2>8. Names(g[k - 1].nodes) = Names(nodes) \cup Given(Earlier(ops, k))
    BY <1>4, <2>1
  <2> QED BY <2>4, <2>5, <2>7, <2>8
<1> HIDE DEF In
<1>5. 0 \in S /\ \A k \in 1..N : k - 1 \in S => k \in S
  BY <1>3, <1>4
<1>6. \A k \in 0..N : k \in S
  <2>1. N \in Nat
    OBVIOUS
  <2> HIDE DEF S, N
  <2> QED BY <1>5, <2>1, Steps
<1> QED BY <1>2, <1>6 DEF In

\* Such a batch is not refused.
LEMMA PlaceableIsValid ==
    ASSUME NEW nodes \in Texts, NEW ops \in Seq(OpRecords), Placeable(ops, Names(nodes))
    PROVE  Merged(nodes, ops).held = <<>> /\ Verdict(nodes, ops) # "invalid"
<1>1. Merged(nodes, ops).held = <<>>
  <2>1. SubSeq(ops, 1, Len(ops)) = ops /\ Len(ops) \in 0..Len(ops)
    OBVIOUS
  <2> QED BY <2>1, PlaceableApply DEF Merged
<1>2. ~Invalid(nodes, ops)
  <2> SUFFICES ASSUME NEW i \in 1..Len(ops), IsInsert(ops[i])
               PROVE  /\ ~Misplaced(ops[i])
                      /\ ops[i].id[1] <= Clock(Merged(nodes, SubSeq(ops, 1, i - 1)).nodes) + 1
    <3>1. DOMAIN ops = 1..Len(ops)
      OBVIOUS
    <3>2. \A i \in 1..Len(ops) : ops[i].id[1] \in Nat
      <4>1. \A op \in OpRecords : op.id \in Positions
        BY DEF OpRecords
      <4>2. \A name \in Positions : name[1] \in Nat
        BY DEF Positions, CharNames, Start
      <4> QED BY <4>1, <4>2
    <3>3. \A i \in 1..Len(ops) : Clock(Merged(nodes, SubSeq(ops, 1, i - 1)).nodes) \in Nat
      <4> TAKE i \in 1..Len(ops)
      <4>1. i - 1 \in 0..Len(ops)
        OBVIOUS
      <4>2. Merged(nodes, SubSeq(ops, 1, i - 1)) \in DocRecords
        BY <4>1, PlaceableApply DEF Merged
      <4> QED BY <4>2, ClockFacts DEF DocRecords
    <3> QED BY <3>1, <3>2, <3>3 DEF Invalid, Misplaced
  <2> DEFINE part == Merged(nodes, SubSeq(ops, 1, i - 1))
             clock == Clock(part.nodes)
  <2>1. i - 1 \in 0..Len(ops) /\ (i - 1) + 1 = i
    OBVIOUS
  <2>2. /\ part \in DocRecords
        /\ Names(part.nodes) = Names(nodes) \cup Given(Earlier(ops, i))
    BY <2>1, PlaceableApply DEF Merged
  <2>3. clock \in Nat /\ \A name \in Names(part.nodes) : name[1] <= clock
    BY <2>2, ClockFacts DEF DocRecords
  <2>4. Fits(ops[i], Names(part.nodes))
    BY <2>2 DEF Placeable
  <2>5. ops[i] \in OpRecords
    OBVIOUS
  <2>6. /\ ops[i].id[1] \in Nat /\ ops[i].after[1] \in Nat
        /\ \A name \in Names(part.nodes) : name[1] \in Nat
    <3>1. ops[i].id \in Positions /\ ops[i].after \in Positions
      BY <2>5 DEF OpRecords
    <3>2. \A name \in Positions : name[1] \in Nat
      BY DEF Positions, CharNames, Start
    <3>3. Names(part.nodes) \subseteq Positions
      BY <2>2, NamesAreCharNames DEF Positions, DocRecords
    <3> QED BY <3>1, <3>2, <3>3
  <2> HIDE DEF part, clock
  <2>7. ops[i].id[1] <= clock + 1
    BY <2>3, <2>4, <2>6 DEF Fits
  <2>8. ~Misplaced(ops[i])
    BY <2>4, <2>6 DEF Fits, Misplaced
  <2> QED BY <2>7, <2>8 DEF clock, part
<1> QED BY <1>1, <1>2 DEF Verdict

\* Operations that can be placed in a document are placed, whatever it holds.
LEMMA ReadyApplyAll ==
    ASSUME NEW doc \in DocRecords, NEW ops \in Seq(OpRecords),
           \A op \in Range(ops) : Ready(doc.nodes, op)
    PROVE  /\ Names(doc.nodes) \subseteq Names(ApplyAll(doc, ops).nodes)
           /\ Gone(doc.nodes) \subseteq Gone(ApplyAll(doc, ops).nodes)
           /\ \A op \in Range(ops) : Done(ApplyAll(doc, ops).nodes, op)
           /\ Range(ApplyAll(doc, ops).held) \subseteq Range(doc.held)
<1>1. PICK g \in [0..Len(ops) -> DocRecords] :
         /\ g[0] = doc
         /\ \A k \in 1..Len(ops) : g[k] = Apply(g[k - 1], ops[k])
         /\ ApplyAll(doc, ops) = g[Len(ops)]
  BY ApplyAllRuns
<1> DEFINE N == Len(ops)
           In(k) == /\ Names(doc.nodes) \subseteq Names(g[k].nodes)
                    /\ Gone(doc.nodes) \subseteq Gone(g[k].nodes)
                    /\ \A j \in 1..k : Done(g[k].nodes, ops[j])
                    /\ Range(g[k].held) \subseteq Range(doc.held)
           S == {k \in 0..N : In(k)}
<1>2. In(0)
  BY <1>1
<1>3. ASSUME NEW k \in 1..N, In(k - 1) PROVE In(k)
  <2>1. g[k - 1] \in DocRecords /\ ops[k] \in OpRecords
    <3>1. k - 1 \in 0..Len(ops)
      OBVIOUS
    <3> QED BY <1>1, <3>1
  <2> DEFINE doc1 == g[k - 1]
             doc2 == g[k]
             op == ops[k]
             next == Integrate(doc1.nodes, op)
  <2>2. doc1.nodes \in Texts /\ doc1.held \in Seq(OpRecords) /\ Range(doc1.held) \in SUBSET OpRecords
    <3>1. doc1.nodes \in Texts /\ doc1.held \in Seq(OpRecords)
      BY <2>1 DEF DocRecords
    <3> QED BY <3>1 DEF Range
  <2>3. Ready(doc1.nodes, op)
    <3>1. Ready(doc.nodes, op)
      BY DEF Range
    <3> QED BY <1>3, <3>1 DEF Ready
  <2>4. /\ next \in Texts /\ Names(next) = Names(doc1.nodes) \cup Named(op)
        /\ Gone(next) = Gone(doc1.nodes) \cup op.delete
    BY <2>1, <2>2, <2>3, IntegrateFacts
  <2>5. Grown(next, Range(doc1.held), doc2.nodes, Range(doc2.held))
    <3>1. PICK P : /\ Kept(P)
                   /\ \A nodes, hand : <<nodes, hand>> \in P <=> Grown(next, Range(doc1.held), nodes, hand)
      BY <2>2, <2>4, GrownKeeps
    <3>2. <<next, Range(doc1.held) \cup {}>> \in P
      BY <2>2, <2>4, <3>1, GrownStart
    <3>3. <<Apply(doc1, op).nodes, Range(Apply(doc1, op).held) \cup {}>> \in P
      BY <2>1, <2>3, <3>1, <3>2, ApplyKeeps
    <3> QED BY <1>1, <3>1, <3>3
  <2>6. /\ Names(next) \subseteq Names(doc2.nodes) /\ Gone(next) \subseteq Gone(doc2.nodes)
        /\ Range(doc2.held) \subseteq Range(doc1.held)
    BY <2>5 DEF Grown
  <2>7. Done(doc2.nodes, op) /\ \A other : Done(doc1.nodes, other) => Done(doc2.nodes, other)
    BY <2>4, <2>6 DEF Done
  <2>8. \A j \in 1..k : Done(doc2.nodes, ops[j])
    <3>1. \A j \in 1..k : j = k \/ j \in 1..(k - 1)
      OBVIOUS
    <3> HIDE DEF doc1, doc2
    <3>2. \A j \in 1..(k - 1) : Done(doc1.nodes, ops[j])
      BY <1>3 DEF doc1
    <3> QED BY <2>7, <3>1, <3>2
  <2> HIDE DEF next
  <2> QED BY <1>3, <2>4, <2>6, <2>8
<1> HIDE DEF In
<1>4. 0 \in S /\ \A k \in 1..N : k - 1 \in S => k \in S
  BY <1>2, <1>3
<1>5. N \in Nat /\ In(N)
  <2>1. N \in Nat
    OBVIOUS
  <2> HIDE DEF N
  <2>2. \A k \in 0..N : k \in S
    <3> HIDE DEF S
    <3> QED BY <1>4, <2>1, Steps
  <2> QED BY <2>1, <2>2
<1>6. \A op \in Range(ops) : \E j \in 1..N : op = ops[j]
  BY DEF Range
<1> QED BY <1>1, <1>5, <1>6 DEF In

\* The operations of one edit: a deletion of characters of the text, an insertion at
\* one of them, named by the writer one ahead of the clock, or the one and then the other.
EditOf(ops, nodes, writer, prefix, removed, inserted, value) ==
    /\ nodes \in Texts /\ Distinct(nodes) /\ writer \in Writers
    /\ prefix \in Nat /\ removed \in Nat /\ prefix + removed <= Len(Visible(nodes))
    /\ value \in Nat /\ inserted \in {<<>>, <<value>>}
    /\ ops = Replace(nodes, writer, prefix, removed, inserted)

\* A local edit: at most one deletion and one insertion, under a new name, which can be placed.
LEMMA ReplaceFacts ==
    ASSUME NEW ops, NEW nodes, NEW writer, NEW prefix, NEW removed, NEW inserted, NEW value,
           EditOf(ops, nodes, writer, prefix, removed, inserted, value)
    PROVE  /\ ops \in Seq(OpRecords)
           /\ \A op \in Range(ops) :
                 /\ Fits(op, Names(nodes)) /\ Ready(nodes, op)
                 /\ IsInsert(op) => /\ op.id = <<Clock(nodes) + 1, writer>>
                                    /\ op.id \in CharNames /\ op.id \notin Names(nodes)
                                    /\ op.text = <<value>>
           /\ \A op, other \in Range(ops) : IsInsert(op) /\ IsInsert(other) => op = other
<1> USE DEF EditOf
<1> DEFINE rem  == RemoveOp(nodes, prefix, removed)
           cut  == IF removed = 0 THEN <<>> ELSE <<rem>>
           left == ApplyAll(Load(nodes), cut).nodes
           new  == InsertAfter(left, writer, prefix, inserted)
<1>1. /\ Visible(nodes) \in Texts /\ Len(Visible(nodes)) \in Nat
      /\ \A i \in 1..Len(Visible(nodes)) : Visible(nodes)[i].id \in Names(nodes)
      /\ \A i, j \in 1..Len(Visible(nodes)) : Visible(nodes)[i].id = Visible(nodes)[j].id => i = j
  <2>1. Visible(nodes) \in Texts
    BY VisibleFacts
  <2> QED BY <2>1, VisibleFacts DEF Texts
<1>2. /\ rem \in OpRecords /\ ~IsInsert(rem) /\ Ready(nodes, rem)
      /\ \A i \in 1..prefix : Visible(nodes)[i].id \notin rem.delete
  <2> DEFINE ids == {Visible(nodes)[i].id : i \in (prefix + 1)..(prefix + removed)}
  <2>0. (prefix + 1)..(prefix + removed) \subseteq 1..Len(Visible(nodes))
    BY <1>1
  <2>1. ids \subseteq Names(nodes)
    BY <1>1, <2>0
  <2>2. ids \in SUBSET CharNames
    BY <2>1, NamesAreCharNames
  <2>3. rem = [id |-> Start, after |-> Start, text |-> <<>>, delete |-> ids]
    BY DEF RemoveOp, DeleteOp
  <2>4. \A i \in 1..prefix : Visible(nodes)[i].id \notin ids
    <3> SUFFICES ASSUME NEW i \in 1..prefix, NEW j \in (prefix + 1)..(prefix + removed),
                        Visible(nodes)[i].id = Visible(nodes)[j].id
                 PROVE  FALSE
      OBVIOUS
    <3>1. i \in 1..Len(Visible(nodes)) /\ j \in 1..Len(Visible(nodes)) /\ i # j
      BY <1>1
    <3> QED BY <1>1, <3>1
  <2> HIDE DEF ids, rem
  <2> QED BY <2>1, <2>2, <2>3, <2>4 DEF OpRecords, IsInsert, Ready, Needs, Positions
<1> HIDE DEF rem
<1>3. /\ left \in Texts /\ Names(left) = Names(nodes)
      /\ prefix <= Len(Visible(left))
  <2>1. Load(nodes) \in DocRecords /\ Load(nodes).nodes = nodes /\ Load(nodes).held = <<>>
    BY DEF Load, DocRecords
  <2>2. CASE removed = 0
    <3>1. cut = <<>> /\ cut \in Seq(OpRecords) /\ Len(cut) = 0
      BY <2>2
    <3> HIDE DEF cut
    <3>2. ApplyAll(Load(nodes), cut) = Load(nodes)
      <4>1. PICK g \in [0..Len(cut) -> DocRecords] :
               /\ g[0] = Load(nodes)
               /\ \A k \in 1..Len(cut) : g[k] = Apply(g[k - 1], cut[k])
               /\ ApplyAll(Load(nodes), cut) = g[Len(cut)]
        BY <2>1, <3>1, ApplyAllRuns, Zenon
      <4> QED BY <3>1, <4>1
    <3>3. left = nodes
      BY <2>1, <3>2
    <3> HIDE DEF left
    <3> QED BY <1>1, <3>3
  <2>3. CASE removed # 0
    <3>1. cut = <<rem>> /\ cut \in Seq(OpRecords) /\ Len(cut) = 1 /\ cut[1] = rem
      BY <1>2, <2>3
    <3> HIDE DEF cut
    <3>2. ApplyAll(Load(nodes), cut) = Apply(Load(nodes), rem)
      <4>1. PICK g \in [0..1 -> DocRecords] :
               g[0] = Load(nodes) /\ g[1] = Apply(g[0], cut[1]) /\ ApplyAll(Load(nodes), cut) = g[1]
        <5>1. PICK g \in [0..1 -> DocRecords] :
                 /\ g[0] = Load(nodes)
                 /\ \A k \in 1..1 : g[k] = Apply(g[k - 1], cut[k])
                 /\ ApplyAll(Load(nodes), cut) = g[1]
          BY <2>1, <3>1, ApplyAllRuns
        <5> QED BY <5>1
      <4> QED BY <3>1, <4>1
    <3>3. left = IntegrateDelete(nodes, rem)
      BY <1>2, <2>1, <3>2, ApplyReady DEF Integrate
    <3> HIDE DEF left
    <3>4. prefix <= Len(Visible(nodes))
      BY <1>1
    <3>5. prefix <= Len(Visible(IntegrateDelete(nodes, rem)))
      BY <1>2, <3>4, VisibleBefore
    <3>6. IntegrateDelete(nodes, rem) \in Texts /\ Names(IntegrateDelete(nodes, rem)) = Names(nodes)
      BY <1>2, DeleteFacts
    <3> QED BY <3>3, <3>5, <3>6
  <2> QED BY <2>2, <2>3
<1> HIDE DEF cut, left
<1>4. /\ Clock(left) = Clock(nodes) /\ Clock(nodes) \in Nat
      /\ \A name \in Names(nodes) : name[1] <= Clock(nodes)
      /\ Clock(nodes) = 0 \/ \E name \in Names(nodes) : name[1] = Clock(nodes)
  BY <1>3, ClockFacts DEF Clock
<1>5. ASSUME inserted = <<value>>
      PROVE  /\ new \in OpRecords /\ IsInsert(new) /\ new.after \in Names(nodes) \cup {Start}
             /\ new.id = <<Clock(nodes) + 1, writer>> /\ new.id \in CharNames
             /\ new.text = <<value>>
  <2> DEFINE after == IF prefix = 0 THEN Start ELSE Visible(left)[prefix].id
  <2>1. after \in Names(nodes) \cup {Start}
    <3>1. CASE prefix = 0
      BY <3>1
    <3>2. CASE prefix # 0
      <4>1. prefix \in 1..Len(Visible(left))
        <5>1. Visible(left) \in Texts
          BY <1>3, VisibleFacts
        <5> QED BY <1>3, <3>2, <5>1 DEF Texts
      <4> QED BY <1>3, <3>2, <4>1, VisibleFacts
    <3> QED BY <3>1, <3>2
  <2>2. new = [id |-> <<Clock(nodes) + 1, writer>>, after |-> after, text |-> <<value>>,
               delete |-> {}]
    BY <1>4, <1>5 DEF InsertAfter, InsertOp
  <2>3. <<Clock(nodes) + 1, writer>> \in CharNames
    BY <1>4 DEF CharNames
  <2>4. after \in Positions /\ <<Clock(nodes) + 1, writer>> \in Positions
    BY <2>1, <2>3, NamesAreCharNames DEF Positions
  <2>5. <<value>> \in Seq(Nat) /\ Len(<<value>>) = 1 /\ <<value>> # <<>>
    OBVIOUS
  <2> HIDE DEF after, new
  <2> QED BY <2>1, <2>2, <2>3, <2>4, <2>5 DEF OpRecords, IsInsert
<1>6. /\ ops \in Seq(OpRecords)
      /\ \A op \in Range(ops) : op = rem \/ (op = new /\ inserted = <<value>>)
  <2>1. ops = IF inserted = <<>> THEN cut ELSE Append(cut, new)
    BY DEF Replace, cut, left, rem
  <2>2. cut \in Seq(OpRecords) /\ \A i \in 1..Len(cut) : cut[i] = rem
    BY <1>2 DEF cut
  <2>3. CASE inserted = <<>>
    BY <2>1, <2>2, <2>3 DEF Range
  <2>4. CASE inserted = <<value>>
    <3> HIDE DEF new
    <3>1. ops = Append(cut, new)
      BY <2>1, <2>4
    <3>2. new \in OpRecords
      BY <1>5, <2>4
    <3>3. ops \in Seq(OpRecords) /\ \A i \in 1..Len(ops) : ops[i] = rem \/ ops[i] = new
      BY <2>2, <3>1, <3>2
    <3> QED BY <2>4, <3>3 DEF Range
  <2> QED BY <2>3, <2>4
<1> HIDE DEF new
<1>7. Fits(rem, Names(nodes)) /\ Ready(nodes, rem)
  BY <1>2 DEF Fits, Ready
<1>8. ASSUME inserted = <<value>>
      PROVE  Fits(new, Names(nodes)) /\ Ready(nodes, new) /\ new.id \notin Names(nodes)
  <2>1. new.id[1] = Clock(nodes) + 1
    BY <1>5, <1>8
  <2>2. new.after[1] <= Clock(nodes) /\ new.after[1] \in Nat
    <3>1. CASE new.after = Start
      BY <1>4, <3>1 DEF Start
    <3>2. CASE new.after \in Names(nodes)
      <4>1. new.after \in CharNames
        BY <3>2, NamesAreCharNames
      <4> QED BY <1>4, <3>2, <4>1 DEF CharNames
    <3> QED BY <1>5, <1>8, <3>1, <3>2
  <2>3. Needs(new) \subseteq Names(nodes)
    BY <1>5, <1>8 DEF Needs
  <2>4. new.id[1] <= 1 \/ \E name \in Names(nodes) : new.id[1] <= name[1] + 1
    BY <1>4, <2>1
  <2>5. new.id \notin Names(nodes)
    BY <1>4, <2>1
  <2>6. new.after[1] < new.id[1]
    BY <1>4, <2>1, <2>2
  <2> QED BY <2>3, <2>4, <2>5, <2>6 DEF Fits, Ready
<1> QED BY <1>2, <1>5, <1>6, <1>7, <1>8

-----------------------------------------------------------------------------
(* The inductive invariant: what a text, a page and a request always are.  *)

PageRecords ==
    [state : {"closed", "opening", "open", "stopped"}, doc : DocRecords, queue : Seq(OpRecords),
     cursor : Nat, fetch : {"none", "asked", "answered"}, got : Texts, buffer : Seq(Changes),
     again : Nat]

RequestRecords ==
    [state : {"idle", "sent", "read", "ok", "invalid", "large"}, batch : Seq(OpRecords),
     base : Nat, read : Texts, tries : Nat]

\* Operations a text has.
Stored(nodes, ops) == \A op \in Range(ops) : Done(nodes, op)

\* What a text has, the other has as well.
Within(nodes, other) == Names(nodes) \subseteq Names(other) /\ Gone(nodes) \subseteq Gone(other)

\* The stored text, and the records of its writes.
CanvasOK(nodes, records) ==
    /\ nodes \in Texts /\ Distinct(nodes) /\ records \in Seq(Changes)
    /\ \A v \in 1..Len(records) : Stored(nodes, records[v].ops)

\* A page: it has what it has not had acknowledged, and otherwise only what the canvas has;
\* what it has not had acknowledged can be placed in the canvas.
PageOK(pg, p, nodes, version) ==
    /\ pg \in PageRecords
    /\ pg.cursor <= version /\ pg.again <= Resyncs + 1
    /\ pg.state # "stopped" => pg.again <= Resyncs
    /\ pg.state \in {"closed", "opening"} => pg.queue = <<>>
    /\ Distinct(pg.doc.nodes) /\ Distinct(pg.got)
    /\ \A op \in Range(pg.queue) : IsInsert(op) => op.id[2] = p
    /\ Given(Range(pg.queue)) \subseteq Names(pg.doc.nodes)
    /\ Names(pg.doc.nodes) \subseteq Names(nodes) \cup Given(Range(pg.queue))
    /\ Given(Range(pg.doc.held)) \subseteq Names(nodes) \cup Given(Range(pg.queue))
    /\ Within(pg.got, nodes)
    /\ \A i \in 1..Len(pg.buffer) : Stored(nodes, pg.buffer[i].ops)
    /\ Placeable(pg.queue, Names(nodes))

\* A request: its batch begins the queue; it is never refused as stale, and answered ok only
\* when the canvas has it.
RequestOK(r, queue, nodes, version) ==
    /\ r \in RequestRecords
    /\ r.tries <= Attempts - 1 /\ r.state # "invalid"
    /\ Len(r.batch) <= Len(queue) /\ r.batch = SubSeq(queue, 1, Len(r.batch))
    /\ r.state = "ok" => Stored(nodes, r.batch)
    /\ r.state = "read" =>
          /\ r.base <= version /\ (r.base = version => r.read = nodes)
          /\ Distinct(r.read) /\ Within(r.read, nodes)
          /\ Placeable(r.batch, Names(r.read))

AckedOK(chars, nodes) ==
    chars \subseteq CharNames \X Nat /\ \A c \in chars : c[1] \in Names(nodes)

Inv ==
    /\ CanvasOK(text, journal)
    /\ DOMAIN page = Pages /\ \A p \in Pages : PageOK(page[p], p, text, Version)
    /\ DOMAIN request = Pages
    /\ \A p \in Pages : RequestOK(request[p], page[p].queue, text, Version)
    /\ strays \subseteq Seq(OpRecords)
    /\ AckedOK(acked, text)
    /\ edits \in 0..MaxEdits /\ rare \in 0..MaxRare

\* A page and a request depend on the canvas only by what it has, and it only gets more.
LEMMA DoneMore ==
    ASSUME NEW nodes, NEW more, Within(nodes, more), NEW ops, Stored(nodes, ops)
    PROVE  Stored(more, ops)
BY DEF Within, Stored, Done

LEMMA PageMore ==
    ASSUME NEW pg, NEW p, NEW nodes, NEW version \in Nat, PageOK(pg, p, nodes, version),
           NEW more, Within(nodes, more), NEW later \in Nat, version <= later
    PROVE  PageOK(pg, p, more, later)
<1>1. pg.cursor <= later
  BY DEF PageOK, PageRecords
<1>2. Within(pg.got, more)
  BY DEF PageOK, Within
<1>3. Placeable(pg.queue, Names(more))
  BY PlaceableMore DEF PageOK, Within
<1>4. \A i \in 1..Len(pg.buffer) : Stored(more, pg.buffer[i].ops)
  BY DoneMore DEF PageOK
<1>5. Names(nodes) \cup Given(Range(pg.queue)) \subseteq Names(more) \cup Given(Range(pg.queue))
  BY DEF Within
<1> QED BY <1>1, <1>2, <1>3, <1>4, <1>5 DEF PageOK

LEMMA RequestMore ==
    ASSUME NEW r, NEW queue, NEW nodes, NEW version \in Nat, RequestOK(r, queue, nodes, version),
           NEW more, Within(nodes, more), NEW later \in Nat, version < later
    PROVE  RequestOK(r, queue, more, later)
<1>1. r.state = "ok" => Stored(more, r.batch)
  BY DoneMore DEF RequestOK
<1>2. r.state = "read" => r.base <= later /\ r.base # later
  BY DEF RequestOK, RequestRecords
<1>3. r.state = "read" => Within(r.read, more)
  BY DEF RequestOK, Within
<1> QED BY <1>1, <1>2, <1>3 DEF RequestOK

LEMMA AckedMore ==
    ASSUME NEW chars, NEW nodes, AckedOK(chars, nodes), NEW more, Within(nodes, more)
    PROVE  AckedOK(chars, more)
BY DEF AckedOK, Within

\* The properties a reader cares for are in it.
LEMMA InvTypeOK == Inv => TypeOK
<1> SUFFICES ASSUME Inv PROVE TypeOK
  OBVIOUS
<1>1. \A i \in DOMAIN text : text[i].id[2] \in Pages \cup {Server, Seed} /\ text[i].id[1] > 0
  <2>1. \A i \in DOMAIN text : text[i].id \in CharNames
    <3>1. text \in Texts
      BY DEF Inv, CanvasOK
    <3> QED BY <3>1, NamesAreCharNames DEF Names
  <2>2. \A name \in CharNames : name[1] > 0 /\ name[2] \in Pages \cup {Server, Seed}
    BY DEF CharNames, Writers
  <2> QED BY <2>1, <2>2
<1>2. ASSUME NEW p \in Pages
      PROVE  /\ page[p].state \in {"closed", "opening", "open", "stopped"}
             /\ page[p].fetch \in {"none", "asked", "answered"}
             /\ page[p].cursor \in 0..Version
             /\ page[p].again \in 0..(Resyncs + 1)
             /\ Distinct(page[p].doc.nodes)
             /\ \A i \in DOMAIN page[p].queue :
                    IsInsert(page[p].queue[i]) => page[p].queue[i].id[2] = p
  <2>1. PageOK(page[p], p, text, Version) /\ Version \in Nat
    BY DEF Inv, CanvasOK, Version
  <2>2. page[p] \in PageRecords
    BY <2>1 DEF PageOK
  <2>3. page[p].cursor \in 0..Version /\ page[p].again \in 0..(Resyncs + 1)
    <3>1. page[p].cursor \in Nat /\ page[p].again \in Nat
      BY <2>2 DEF PageRecords
    <3> QED BY <2>1, <3>1, CanvasTextAssumption DEF PageOK
  <2>4. \A i \in DOMAIN page[p].queue : IsInsert(page[p].queue[i]) => page[p].queue[i].id[2] = p
    BY <2>1 DEF PageOK, Range
  <2> QED BY <2>1, <2>2, <2>3, <2>4 DEF PageOK, PageRecords
<1>3. ASSUME NEW p \in Pages
      PROVE  /\ request[p].state \in {"idle", "sent", "read", "ok", "invalid", "large"}
             /\ request[p].tries \in 0..(Attempts - 1)
             /\ request[p].batch = SubSeq(page[p].queue, 1, Len(request[p].batch))
  <2>1. RequestOK(request[p], page[p].queue, text, Version)
    BY DEF Inv
  <2>2. request[p].tries \in Nat
    BY <2>1 DEF RequestOK, RequestRecords
  <2> QED BY <2>1, <2>2, CanvasTextAssumption DEF RequestOK, RequestRecords
<1> QED BY <1>1, <1>2, <1>3 DEF TypeOK, Inv, CanvasOK

-----------------------------------------------------------------------------
(* The invariant is kept: writes of the canvas.                            *)

\* What merging a batch makes of a text.
LEMMA MergedFacts ==
    ASSUME NEW nodes \in Texts, Distinct(nodes), NEW ops \in Seq(OpRecords)
    PROVE  /\ Merged(nodes, ops) \in DocRecords
           /\ Merged(nodes, ops).nodes \in Texts
           /\ Distinct(Merged(nodes, ops).nodes)
           /\ Within(nodes, Merged(nodes, ops).nodes)
           /\ Merged(nodes, ops).held = <<>> => Stored(Merged(nodes, ops).nodes, ops)
           /\ Names(Merged(nodes, ops).nodes) \subseteq Names(nodes) \cup Given(Range(ops))
           /\ Given(Range(Merged(nodes, ops).held)) \subseteq Given(Range(ops))
<1>1. Load(nodes) \in DocRecords /\ Load(nodes).nodes = nodes /\ Load(nodes).held = <<>>
  BY DEF Load, DocRecords
<1>2. Merged(nodes, ops) \in DocRecords
  BY <1>1, ApplyAllType DEF Merged
<1>3. Range(<<>>) \cup Range(ops) = Range(ops)
  BY DEF Range
<1>4. Grown(nodes, Range(ops), Merged(nodes, ops).nodes, Range(Merged(nodes, ops).held))
  BY <1>1, <1>3, ApplyAllGrows DEF Merged
<1>5. Merged(nodes, ops).held = <<>> => Range(Merged(nodes, ops).held) = {}
  BY DEF Range
<1>6. Given(Range(Merged(nodes, ops).held)) \subseteq Given(Range(ops))
  BY <1>4 DEF Grown, Given
<1> QED BY <1>2, <1>4, <1>5, <1>6 DEF Grown, Within, Stored

\* A write makes the text what it says, and its operations are in it.
LEMMA WriteKeeps ==
    ASSUME Inv, NEW nodes \in Texts, Distinct(nodes), Within(text, nodes),
           NEW ops \in Seq(OpRecords), Stored(nodes, ops), Write(nodes, ops), page' = page
    PROVE  /\ CanvasOK(text', journal') /\ text' = nodes
           /\ Version' = Version + 1 /\ Version \in Nat
           /\ \A p \in Pages : PageOK(page'[p], p, text', Version')
           /\ \A p \in Pages : RequestOK(request[p], page'[p].queue, text', Version')
           /\ AckedOK(acked, text')
           /\ rare' \in 0..MaxRare
<1>1. PICK big \in BOOLEAN : /\ Big(big) /\ text' = nodes
                             /\ journal' = Append(journal, Record(ops, big))
  BY DEF Write
<1>2. Record(ops, big) \in Changes /\ Range(Record(ops, big).ops) \subseteq Range(ops)
  <2>1. <<>> \in Seq(OpRecords) /\ Range(<<>>) = {}
    BY DEF Range
  <2>2. CASE big
    BY <2>1, <2>2 DEF Record, Changes
  <2>3. CASE ~big
    BY <2>3 DEF Record, Changes
  <2> QED BY <2>2, <2>3
<1>3. CanvasOK(text, journal)
  BY DEF Inv
<1>4. /\ journal' \in Seq(Changes) /\ Len(journal') = Len(journal) + 1 /\ Len(journal) \in Nat
      /\ \A v \in 1..Len(journal') : (v \in 1..Len(journal) /\ journal'[v] = journal[v])
                                     \/ journal'[v] = Record(ops, big)
  BY <1>1, <1>2, <1>3 DEF CanvasOK
<1>5. \A v \in 1..Len(journal') : Stored(nodes, journal'[v].ops)
  <2> TAKE v \in 1..Len(journal')
  <2>1. CASE v \in 1..Len(journal) /\ journal'[v] = journal[v]
    BY <1>3, <2>1, DoneMore DEF CanvasOK
  <2>2. CASE journal'[v] = Record(ops, big)
    BY <1>2, <2>2 DEF Stored
  <2> QED BY <1>4, <2>1, <2>2
<1>6. CanvasOK(text', journal')
  BY <1>1, <1>4, <1>5 DEF CanvasOK
<1>7. Version' = Version + 1 /\ Version \in Nat
  BY <1>4 DEF Version
<1>8. ASSUME NEW p \in Pages
      PROVE  PageOK(page'[p], p, text', Version') /\ RequestOK(request[p], page'[p].queue, text', Version')
  <2>1. PageOK(page[p], p, text, Version) /\ RequestOK(request[p], page[p].queue, text, Version)
    BY DEF Inv
  <2>2. Version' \in Nat /\ Version <= Version' /\ Version < Version'
    BY <1>7
  <2> QED BY <1>1, <1>7, <2>1, <2>2, PageMore, RequestMore
<1>9. AckedOK(acked, text')
  BY <1>1, AckedMore DEF Inv
<1>10. rare' \in 0..MaxRare
  BY <1>1, CanvasTextAssumption DEF Inv, Big, Rare
<1> QED BY <1>1, <1>6, <1>7, <1>8, <1>9, <1>10

LEMMA WritersAreWriters ==
    /\ Server \in Writers /\ Seed \in Writers /\ Pages \subseteq Writers
    /\ MaxLength \in Nat /\ MaxEdits \in Nat /\ MaxRare \in Nat /\ Resyncs \in Nat
BY CanvasTextAssumption DEF Writers

\* Operations that fit a text are in it once they are applied to it.
LEMMA AppliedFacts ==
    ASSUME NEW doc \in DocRecords, Distinct(doc.nodes), NEW ops \in Seq(OpRecords),
           \A op \in Range(ops) : Ready(doc.nodes, op)
    PROVE  /\ ApplyAll(doc, ops) \in DocRecords
           /\ ApplyAll(doc, ops).nodes \in Texts
           /\ Distinct(ApplyAll(doc, ops).nodes)
           /\ Within(doc.nodes, ApplyAll(doc, ops).nodes)
           /\ Stored(ApplyAll(doc, ops).nodes, ops)
           /\ Names(ApplyAll(doc, ops).nodes)
                 \subseteq Names(doc.nodes) \cup Given(Range(doc.held)) \cup Given(Range(ops))
           /\ Range(ApplyAll(doc, ops).held) \subseteq Range(doc.held)
<1>1. Grown(doc.nodes, Range(doc.held) \cup Range(ops),
            ApplyAll(doc, ops).nodes, Range(ApplyAll(doc, ops).held))
  BY ApplyAllGrows
<1>2. Given(Range(doc.held) \cup Range(ops)) = Given(Range(doc.held)) \cup Given(Range(ops))
  BY DEF Given
<1> QED BY <1>1, <1>2, ReadyApplyAll, ApplyAllType DEF Grown, Within, Stored

\* A write of the whole document keeps the invariant.
LEMMA SyncInv ==
    ASSUME Inv, NEW prefix \in 0..MaxLength, NEW removed \in 0..1, NEW inserted \in Runs,
           SyncCanvasText(prefix, removed, inserted)
    PROVE  Inv'
<1> DEFINE ops == Replace(text, Server, prefix, removed, inserted)
           nodes == ApplyAll(Load(text), ops).nodes
<1>1. /\ edits < MaxEdits /\ edits' = edits + 1
      /\ prefix + removed <= Len(Visible(text)) /\ Write(nodes, ops)
      /\ page' = page /\ request' = request /\ strays' = strays /\ acked' = acked
  BY DEF SyncCanvasText
<1>2. text \in Texts /\ Distinct(text) /\ edits \in Nat /\ prefix \in Nat /\ removed \in Nat
  BY WritersAreWriters DEF Inv, CanvasOK
<1>3. ops \in Seq(OpRecords) /\ \A op \in Range(ops) : Ready(text, op)
  <2>1. edits + 1 \in Nat /\ inserted \in {<<>>, <<edits + 1>>}
    BY <1>2 DEF Runs
  <2>2. ops = Replace(text, Server, prefix, removed, inserted) /\ Server \in Writers
    BY WritersAreWriters
  <2>3. EditOf(ops, text, Server, prefix, removed, inserted, edits + 1)
    BY <1>1, <1>2, <2>1, <2>2 DEF EditOf
  <2> HIDE DEF ops
  <2> QED BY <2>3, ReplaceFacts
<1> HIDE DEF ops
<1>4. Load(text) \in DocRecords /\ Load(text).nodes = text
  BY <1>2 DEF Load, DocRecords
<1>5. nodes \in Texts /\ Distinct(nodes) /\ Within(text, nodes) /\ Stored(nodes, ops)
  BY <1>2, <1>3, <1>4, AppliedFacts
<1> HIDE DEF nodes
<1>6. /\ CanvasOK(text', journal')
      /\ \A p \in Pages : PageOK(page'[p], p, text', Version')
      /\ \A p \in Pages : RequestOK(request[p], page'[p].queue, text', Version')
      /\ AckedOK(acked, text')
      /\ rare' \in 0..MaxRare
  BY <1>1, <1>3, <1>5, WriteKeeps
<1>7. edits' \in 0..MaxEdits
  BY <1>1, <1>2, WritersAreWriters
<1> QED BY <1>1, <1>6, <1>7 DEF Inv

\* What each verdict says of the batch.
LEMMA VerdictFacts ==
    ASSUME NEW nodes, NEW ops
    PROVE  /\ Verdict(nodes, ops) \in {"invalid", "ok", "large", "write"}
           /\ Verdict(nodes, ops) \in {"ok", "large", "write"} => Merged(nodes, ops).held = <<>>
           /\ Verdict(nodes, ops) = "ok" => Merged(nodes, ops).nodes = nodes
BY DEF Verdict

\* A step that changes the requests only.
LEMMA RequestStepInv ==
    ASSUME Inv, NEW p \in Pages, NEW r, request' = [request EXCEPT ![p] = r],
           RequestOK(r, page[p].queue, text, Version),
           text' = text, journal' = journal, page' = page, acked' = acked,
           strays' \subseteq Seq(OpRecords), edits' = edits, rare' \in 0..MaxRare
    PROVE  Inv'
<1>1. DOMAIN request' = Pages /\ request'[p] = r /\ \A q \in Pages \ {p} : request'[q] = request[q]
  BY DEF Inv
<1>2. Version' = Version
  BY DEF Version
<1>3. \A q \in Pages : RequestOK(request'[q], page'[q].queue, text', Version')
  <2> TAKE q \in Pages
  <2>1. CASE q = p
    BY <1>1, <1>2, <2>1
  <2>2. CASE q # p
    BY <1>1, <1>2, <2>2 DEF Inv
  <2> QED BY <2>1, <2>2
<1> QED BY <1>1, <1>2, <1>3 DEF Inv

\* A request's new state without what it read.
LEMMA AnswerOK ==
    ASSUME NEW r, NEW queue, NEW nodes, NEW version, RequestOK(r, queue, nodes, version),
           NEW s \in {"ok", "large"}, s = "ok" => Stored(nodes, r.batch)
    PROVE  RequestOK([r EXCEPT !.state = s, !.base = 0, !.read = <<>>], queue, nodes, version)
<1> DEFINE a == [r EXCEPT !.state = s, !.base = 0, !.read = <<>>]
<1>1. r \in RequestRecords
  BY DEF RequestOK
<1>2. <<>> \in Texts
  BY DEF Texts
<1>3. /\ a \in RequestRecords /\ a.state = s /\ a.batch = r.batch /\ a.tries = r.tries
  BY <1>1, <1>2 DEF RequestRecords
<1> HIDE DEF a
<1>4. s # "read" /\ s # "invalid"
  OBVIOUS
<1> QED BY <1>3, <1>4 DEF RequestOK, a

\* A request that is idle, or about to be.
LEMMA IdleOK ==
    ASSUME NEW queue \in Seq(OpRecords), NEW nodes, NEW version
    PROVE  RequestOK(Idle, queue, nodes, version)
<1>1. Idle \in RequestRecords
  BY DEF Idle, RequestRecords, Texts
<1>2. Len(<<>>) = 0 /\ <<>> = SubSeq(queue, 1, 0) /\ Len(queue) >= 0
  OBVIOUS
<1>3. 0 <= Attempts - 1
  BY CanvasTextAssumption
<1>4. Idle.state = "idle" /\ Idle.tries = 0 /\ Idle.batch = <<>>
  BY DEF Idle
<1> QED BY <1>1, <1>2, <1>3, <1>4 DEF RequestOK

\* The steps of a request keep the invariant.
LEMMA ReadInv ==
    ASSUME Inv, NEW p \in Pages, Read(p)
    PROVE  Inv'
<1> DEFINE r == [request[p] EXCEPT !.state = "read", !.base = Version, !.read = text]
<1>1. /\ CanvasOK(text, journal) /\ PageOK(page[p], p, text, Version)
      /\ RequestOK(request[p], page[p].queue, text, Version) /\ p \in DOMAIN request
      /\ Version \in Nat
  BY DEF Inv, CanvasOK, Version
<1>2. /\ request' = [request EXCEPT ![p] = r]
      /\ text' = text /\ journal' = journal /\ page' = page /\ acked' = acked
      /\ strays' = strays /\ edits' = edits /\ rare' = rare
  BY <1>1 DEF Read
<1>3. /\ r \in RequestRecords /\ r.state = "read" /\ r.base = Version /\ r.read = text
      /\ r.batch = request[p].batch /\ r.tries = request[p].tries
  BY <1>1 DEF RequestOK, RequestRecords, CanvasOK
<1>4. Placeable(r.batch, Names(text))
  <2>1. page[p].queue \in Seq(OpRecords) /\ Placeable(page[p].queue, Names(text))
    BY <1>1 DEF PageOK, PageRecords
  <2>2. r.batch = SubSeq(page[p].queue, 1, Len(r.batch)) /\ Len(r.batch) <= Len(page[p].queue)
        /\ r.batch \in Seq(OpRecords)
    BY <1>1, <1>3 DEF RequestOK, RequestRecords
  <2> QED BY <2>1, <2>2, PlaceablePart
<1>5. Within(text, text) /\ r.tries <= Attempts - 1
  BY <1>1, <1>3 DEF Within, RequestOK
<1> HIDE DEF r
<1>6. RequestOK(r, page[p].queue, text, Version)
  BY <1>1, <1>3, <1>4, <1>5 DEF RequestOK, CanvasOK
<1>7. strays \subseteq Seq(OpRecords) /\ rare \in 0..MaxRare
  BY DEF Inv
<1> QED BY <1>2, <1>6, <1>7, RequestStepInv

\* A batch that is written, or answered.
LEMMA CommitInv ==
    ASSUME Inv, NEW p \in Pages, Commit(p)
    PROVE  Inv'
<1> DEFINE r == request[p]
           verdict == Verdict(r.read, r.batch)
           merged == Merged(r.read, r.batch)
           answer(s) == [r EXCEPT !.state = s, !.base = 0, !.read = <<>>]
<1>1. /\ CanvasOK(text, journal) /\ PageOK(page[p], p, text, Version)
      /\ RequestOK(r, page[p].queue, text, Version) /\ p \in DOMAIN request
      /\ strays \subseteq Seq(OpRecords) /\ rare \in 0..MaxRare
  BY DEF Inv
<1>2. /\ r.state = "read" /\ page' = page /\ strays' = strays /\ acked' = acked /\ edits' = edits
  BY DEF Commit
<1>3. /\ r.read \in Texts /\ r.batch \in Seq(OpRecords) /\ Distinct(r.read)
      /\ Within(r.read, text) /\ Placeable(r.batch, Names(r.read))
  BY <1>1, <1>2 DEF RequestOK, RequestRecords
<1>4. verdict \in {"ok", "large", "write"} /\ merged.held = <<>>
  BY <1>3, VerdictFacts, PlaceableIsValid
<1>5. Stored(merged.nodes, r.batch)
  BY <1>3, <1>4, MergedFacts
<1>6. CASE verdict # "write" /\ Answer(p, verdict) /\ UNCHANGED <<text, journal, rare>>
  <2>1. request' = [request EXCEPT ![p] = answer(verdict)]
    BY <1>1, <1>6 DEF Answer
  <2>2. verdict = "ok" => Stored(text, r.batch)
    BY <1>3, <1>4, <1>5, VerdictFacts, DoneMore
  <2>3. RequestOK(answer(verdict), page[p].queue, text, Version)
    <3> HIDE DEF r, verdict
    <3> QED BY <1>1, <1>4, <1>6, <2>2, AnswerOK
  <2> HIDE DEF verdict, r
  <2> QED BY <1>1, <1>2, <1>6, <2>1, <2>3, RequestStepInv
<1>7. CASE /\ verdict = "write" /\ r.base = Version
           /\ Write(merged.nodes, r.batch) /\ Answer(p, "ok")
  <2>1. r.read = text
    BY <1>1, <1>2, <1>7 DEF RequestOK
  <2>2. merged.nodes \in Texts /\ Distinct(merged.nodes) /\ Within(text, merged.nodes)
    BY <1>3, <2>1, MergedFacts
  <2> HIDE DEF merged, verdict
  <2>3. /\ CanvasOK(text', journal') /\ text' = merged.nodes
        /\ \A q \in Pages : PageOK(page'[q], q, text', Version')
        /\ \A q \in Pages : RequestOK(request[q], page'[q].queue, text', Version')
        /\ AckedOK(acked, text')
        /\ rare' \in 0..MaxRare
    BY <1>2, <1>3, <1>5, <1>7, <2>2, WriteKeeps
  <2>4. /\ DOMAIN request' = Pages /\ request'[p] = answer("ok")
        /\ \A q \in Pages \ {p} : request'[q] = request[q]
    BY <1>7 DEF Answer, Inv
  <2>5. RequestOK(answer("ok"), page'[p].queue, text', Version')
    <3>1. RequestOK(r, page'[p].queue, text', Version')
      BY <2>3
    <3> HIDE DEF r
    <3> QED BY <1>5, <2>3, <3>1, AnswerOK
  <2>6. \A q \in Pages : RequestOK(request'[q], page'[q].queue, text', Version')
    <3> HIDE DEF answer
    <3> QED BY <2>3, <2>4, <2>5
  <2> QED BY <1>1, <1>2, <2>3, <2>4, <2>6 DEF Inv
<1> QED BY <1>6, <1>7 DEF Commit

\* A batch redone on the newer canvas.
LEMMA ConflictInv ==
    ASSUME Inv, NEW p \in Pages, Conflict(p)
    PROVE  Inv'
<1> DEFINE r == request[p]
           again == [r EXCEPT !.state = "sent", !.base = 0, !.read = <<>>, !.tries = @ + 1]
           next == IF r.tries + 1 < Attempts THEN again ELSE Idle
<1>1. /\ PageOK(page[p], p, text, Version)
      /\ RequestOK(r, page[p].queue, text, Version) /\ p \in DOMAIN request
      /\ strays \subseteq Seq(OpRecords) /\ rare \in 0..MaxRare
  BY DEF Inv
<1>2. /\ request' = [request EXCEPT ![p] = next]
      /\ text' = text /\ journal' = journal /\ page' = page /\ acked' = acked
      /\ strays' = strays /\ edits' = edits /\ rare' = rare
  BY <1>1 DEF Conflict
<1>3. page[p].queue \in Seq(OpRecords)
  BY <1>1 DEF PageOK, PageRecords
<1>4. CASE r.tries + 1 < Attempts
  <2>1. r \in RequestRecords /\ <<>> \in Texts
    BY <1>1 DEF RequestOK, Texts
  <2>2. /\ again \in RequestRecords /\ again.state = "sent"
        /\ again.batch = r.batch /\ again.tries = r.tries + 1 /\ r.tries \in Nat
    <3>1. r.tries \in Nat /\ r.tries + 1 \in Nat
      BY <2>1 DEF RequestRecords
    <3>2. again = [r EXCEPT !.state = "sent", !.base = 0, !.read = <<>>, !.tries = r.tries + 1]
      BY <2>1 DEF RequestRecords
    <3> HIDE DEF r, again
    <3> QED BY <2>1, <3>1, <3>2 DEF RequestRecords
  <2>3. again.tries <= Attempts - 1
    BY <1>4, <2>2, CanvasTextAssumption
  <2> HIDE DEF again, r
  <2>4. RequestOK(again, page[p].queue, text, Version)
    BY <1>1, <2>2, <2>3 DEF RequestOK
  <2> QED BY <1>1, <1>2, <1>4, <2>4, RequestStepInv
<1>5. CASE ~(r.tries + 1 < Attempts)
  <2>1. RequestOK(Idle, page[p].queue, text, Version)
    BY <1>3, IdleOK
  <2> HIDE DEF again, r
  <2> QED BY <1>1, <1>2, <1>5, <2>1, RequestStepInv
<1> QED BY <1>4, <1>5

\* A batch that arrives late.
LEMMA StrayInv ==
    ASSUME Inv, NEW ops \in strays, StrayArrives(ops)
    PROVE  Inv'
<1>1. /\ CanvasOK(text, journal) /\ ops \in Seq(OpRecords)
      /\ strays' \subseteq Seq(OpRecords)
      /\ page' = page /\ request' = request /\ acked' = acked /\ edits' = edits
  BY DEF StrayArrives, Inv
<1>2. CASE Verdict(text, ops) = "write" /\ Write(Merged(text, ops).nodes, ops)
  <2>1. Merged(text, ops).held = <<>>
    BY <1>2, VerdictFacts
  <2>2. /\ Merged(text, ops).nodes \in Texts /\ Distinct(Merged(text, ops).nodes)
        /\ Within(text, Merged(text, ops).nodes) /\ Stored(Merged(text, ops).nodes, ops)
    BY <1>1, <2>1, MergedFacts DEF CanvasOK
  <2>3. /\ CanvasOK(text', journal')
        /\ \A q \in Pages : PageOK(page'[q], q, text', Version')
        /\ \A q \in Pages : RequestOK(request[q], page'[q].queue, text', Version')
        /\ AckedOK(acked, text')
        /\ rare' \in 0..MaxRare
    BY <1>1, <1>2, <2>2, WriteKeeps
  <2> QED BY <1>1, <2>3 DEF Inv
<1>3. CASE UNCHANGED <<text, journal, rare>>
  <2>1. Version' = Version
    BY <1>3 DEF Version
  <2> QED BY <1>1, <1>3, <2>1 DEF Inv
<1> QED BY <1>2, <1>3 DEF StrayArrives

-----------------------------------------------------------------------------
(* The invariant is kept: steps of a page.                                 *)

\* g is f but for what it says of p.
Changed(f, g, p, v) == DOMAIN g = Pages /\ g[p] = v /\ \A q \in Pages \ {p} : g[q] = f[q]

\* A step that leaves the canvas alone and changes one page and its request.
LEMMA PageStepInv ==
    ASSUME Inv, NEW p \in Pages, NEW pg, NEW r,
           Changed(page, page', p, pg), Changed(request, request', p, r),
           PageOK(pg, p, text, Version), RequestOK(r, pg.queue, text, Version),
           text' = text, journal' = journal, AckedOK(acked', text),
           strays' \subseteq Seq(OpRecords), edits' \in 0..MaxEdits, rare' \in 0..MaxRare
    PROVE  Inv'
<1>1. Version' = Version
  BY DEF Version
<1>2. \A q \in Pages : PageOK(page'[q], q, text', Version')
  <2> TAKE q \in Pages
  <2>1. CASE q = p
    BY <1>1, <2>1 DEF Changed
  <2>2. CASE q # p
    BY <1>1, <2>2 DEF Changed, Inv
  <2> QED BY <2>1, <2>2
<1>3. \A q \in Pages : RequestOK(request'[q], page'[q].queue, text', Version')
  <2> TAKE q \in Pages
  <2>1. CASE q = p
    BY <1>1, <2>1 DEF Changed
  <2>2. CASE q # p
    BY <1>1, <2>2 DEF Changed, Inv
  <2> QED BY <2>1, <2>2
<1> QED BY <1>1, <1>2, <1>3 DEF Inv, Changed

\* What the invariant says of one page.
LEMMA PageFacts ==
    ASSUME Inv, NEW p \in Pages
    PROVE  /\ CanvasOK(text, journal) /\ PageOK(page[p], p, text, Version) /\ page[p] \in PageRecords
           /\ RequestOK(request[p], page[p].queue, text, Version)
           /\ p \in DOMAIN page /\ p \in DOMAIN request
           /\ Changed(request, request, p, request[p]) /\ Changed(page, page, p, page[p])
           /\ AckedOK(acked, text) /\ strays \subseteq Seq(OpRecords)
           /\ edits \in 0..MaxEdits /\ rare \in 0..MaxRare /\ Version \in Nat
<1>1. Version \in Nat
  BY DEF Inv, CanvasOK, Version
<1> QED BY <1>1 DEF Inv, PageOK, Changed

\* The steps of a page keep the invariant.
LEMMA OpenInv ==
    ASSUME Inv, NEW p \in Pages, Open(p)
    PROVE  Inv'
<1> DEFINE pg == [page[p] EXCEPT !.state = "opening", !.cursor = Version]
<1>1. PageOK(page[p], p, text, Version) /\ page[p] \in PageRecords /\ Version \in Nat
  BY PageFacts
<1>2. /\ pg \in PageRecords /\ pg.state = "opening" /\ pg.cursor = Version
      /\ pg.doc = page[p].doc /\ pg.queue = page[p].queue /\ pg.got = page[p].got
      /\ pg.buffer = page[p].buffer /\ pg.again = page[p].again
  BY <1>1 DEF PageRecords
<1>3. Changed(page, page', p, pg)
  BY DEF Open, Inv, Changed
<1>4. page[p].state = "closed"
  BY DEF Open
<1> HIDE DEF pg
<1>5. PageOK(pg, p, text, Version)
  BY <1>1, <1>2, <1>4 DEF PageOK
<1> QED BY <1>2, <1>3, <1>5, PageFacts, PageStepInv DEF Open

LEMMA RenderInv ==
    ASSUME Inv, NEW p \in Pages, Render(p)
    PROVE  Inv'
<1> DEFINE pg == [page[p] EXCEPT !.state = "open", !.doc = Load(text)]
<1>1. /\ PageOK(page[p], p, text, Version) /\ page[p] \in PageRecords
      /\ text \in Texts /\ Distinct(text)
  BY PageFacts DEF CanvasOK
<1>2. /\ Load(text) \in DocRecords /\ Load(text).nodes = text /\ Range(Load(text).held) = {}
  BY <1>1 DEF Load, DocRecords, Range
<1>3. /\ pg \in PageRecords /\ pg.state = "open" /\ pg.cursor = page[p].cursor
      /\ pg.doc = Load(text) /\ pg.queue = page[p].queue /\ pg.got = page[p].got
      /\ pg.buffer = page[p].buffer /\ pg.again = page[p].again
  BY <1>1, <1>2 DEF PageRecords
<1>4. Changed(page, page', p, pg) /\ page[p].state = "opening"
  BY DEF Render, Inv, Changed
<1> HIDE DEF pg
<1>5. page[p].queue = <<>> /\ Given(Range(<<>>)) = {} /\ Given({}) = {}
  BY <1>1, <1>4 DEF PageOK, Given, Range
<1>6. page[p].again <= Resyncs
  BY <1>1, <1>4 DEF PageOK
<1>7. PageOK(pg, p, text, Version)
  BY <1>1, <1>2, <1>3, <1>4, <1>5, <1>6 DEF PageOK
<1> QED BY <1>3, <1>4, <1>7, PageFacts, PageStepInv DEF Render

LEMMA FetchInv ==
    ASSUME Inv, NEW p \in Pages, Fetch(p)
    PROVE  Inv'
<1> DEFINE pg == [page[p] EXCEPT !.fetch = "answered", !.got = text]
<1>1. /\ PageOK(page[p], p, text, Version) /\ page[p] \in PageRecords
      /\ text \in Texts /\ Distinct(text)
  BY PageFacts DEF CanvasOK
<1>2. /\ pg \in PageRecords /\ pg.state = page[p].state /\ pg.cursor = page[p].cursor
      /\ pg.doc = page[p].doc /\ pg.queue = page[p].queue /\ pg.got = text
      /\ pg.buffer = page[p].buffer /\ pg.again = page[p].again
  BY <1>1 DEF PageRecords
<1>3. Changed(page, page', p, pg)
  BY <1>1 DEF Fetch, Inv, Changed
<1>4. Within(text, text)
  BY DEF Within
<1> HIDE DEF pg
<1>5. PageOK(pg, p, text, Version)
  BY <1>1, <1>2, <1>4 DEF PageOK
<1> QED BY <1>2, <1>3, <1>5, PageFacts, PageStepInv DEF Fetch

\* A page that stops.
LEMMA StoppedOK ==
    ASSUME NEW pg, NEW p, NEW nodes, NEW version, PageOK(pg, p, nodes, version),
           NEW fetch \in {"none", "asked", "answered"}, NEW got \in {<<>>, pg.got}
    PROVE  PageOK([pg EXCEPT !.state = "stopped", !.fetch = fetch, !.got = got], p, nodes, version)
<1> DEFINE new == [pg EXCEPT !.state = "stopped", !.fetch = fetch, !.got = got]
<1>1. pg \in PageRecords
  BY DEF PageOK
<1>2. got \in Texts /\ Distinct(got) /\ Within(got, nodes)
  <2>1. CASE got = <<>>
    BY <2>1 DEF Texts, Distinct, Within, Names, Gone
  <2>2. CASE got = pg.got
    BY <1>1, <2>2 DEF PageOK, PageRecords
  <2> QED BY <2>1, <2>2
<1>3. /\ new \in PageRecords /\ new.state = "stopped" /\ new.cursor = pg.cursor
      /\ new.doc = pg.doc /\ new.queue = pg.queue /\ new.got = got
      /\ new.buffer = pg.buffer /\ new.again = pg.again
  BY <1>1, <1>2 DEF PageRecords
<1> HIDE DEF new
<1>4. PageOK(new, p, nodes, version)
  BY <1>2, <1>3 DEF PageOK
<1> QED BY <1>4 DEF new

LEMMA FetchFailsInv ==
    ASSUME Inv, NEW p \in Pages, FetchFails(p)
    PROVE  Inv'
<1> DEFINE pg == [page[p] EXCEPT !.state = "stopped", !.fetch = "none", !.got = <<>>]
<1>1. /\ PageOK(page[p], p, text, Version) /\ page[p] \in PageRecords
  BY PageFacts
<1>2. pg.queue = page[p].queue
  BY <1>1 DEF PageRecords
<1>3. Changed(page, page', p, pg)
  BY <1>1 DEF FetchFails, Inv, Changed
<1>4. PageOK(pg, p, text, Version)
  BY <1>1, StoppedOK
<1>5. rare' \in 0..MaxRare
  BY PageFacts, WritersAreWriters DEF FetchFails, Rare
<1> HIDE DEF pg
<1> QED BY <1>2, <1>3, <1>4, <1>5, PageFacts, PageStepInv DEF FetchFails

LEMMA RefusedInv ==
    ASSUME Inv, NEW p \in Pages, Refused(p)
    PROVE  Inv'
<1> DEFINE pg == [page[p] EXCEPT !.state = "stopped"]
<1>1. /\ PageOK(page[p], p, text, Version) /\ page[p] \in PageRecords
  BY PageFacts
<1>2. pg.queue = page[p].queue /\ pg.queue \in Seq(OpRecords)
  BY <1>1 DEF PageRecords
<1>3. Changed(page, page', p, pg) /\ Changed(request, request', p, Idle)
  BY <1>1 DEF Refused, Inv, Changed
<1>4. PageOK(pg, p, text, Version)
  <2>1. pg = [page[p] EXCEPT !.state = "stopped", !.fetch = page[p].fetch, !.got = page[p].got]
    BY <1>1 DEF PageRecords
  <2>2. page[p].fetch \in {"none", "asked", "answered"}
    BY <1>1 DEF PageRecords
  <2> HIDE DEF pg
  <2> QED BY <1>1, <2>1, <2>2, StoppedOK
<1> HIDE DEF pg
<1>5. RequestOK(Idle, pg.queue, text, Version)
  BY <1>2, IdleOK
<1> QED BY <1>3, <1>4, <1>5, PageFacts, PageStepInv DEF Refused

LEMMA SendInv ==
    ASSUME Inv, NEW p \in Pages, Send(p)
    PROVE  Inv'
<1> DEFINE r == [Idle EXCEPT !.state = "sent", !.batch = page[p].queue]
<1>1. /\ page[p] \in PageRecords
  BY PageFacts
<1>2. page[p].queue \in Seq(OpRecords)
  BY <1>1 DEF PageRecords
<1>3. Changed(page, page', p, page[p]) /\ Changed(request, request', p, r)
  BY DEF Send, Inv, Changed
<1>4. /\ r \in RequestRecords /\ r.state = "sent" /\ r.batch = page[p].queue /\ r.tries = 0
  <2>1. <<>> \in Texts
    BY DEF Texts
  <2> QED BY <1>2, <2>1 DEF Idle, RequestRecords
<1>5. /\ Len(page[p].queue) <= Len(page[p].queue)
      /\ page[p].queue = SubSeq(page[p].queue, 1, Len(page[p].queue))
  BY <1>2
<1> HIDE DEF r
<1>6. RequestOK(r, page[p].queue, text, Version)
  BY <1>4, <1>5, CanvasTextAssumption DEF RequestOK
<1> QED BY <1>3, <1>6, PageFacts, PageStepInv DEF Send

LEMMA SendFailsInv ==
    ASSUME Inv, NEW p \in Pages, SendFails(p)
    PROVE  Inv'
<1>1. page[p] \in PageRecords /\ RequestOK(request[p], page[p].queue, text, Version)
  BY PageFacts
<1>2. Changed(page, page', p, page[p]) /\ Changed(request, request', p, Idle)
  BY DEF SendFails, Inv, Changed
<1>3. RequestOK(Idle, page[p].queue, text, Version)
  BY <1>1, IdleOK DEF PageRecords
<1>4. strays' \subseteq Seq(OpRecords)
  <2>1. request[p].batch \in Seq(OpRecords) /\ strays \subseteq Seq(OpRecords)
    BY <1>1, PageFacts DEF RequestOK, RequestRecords
  <2> QED BY <2>1 DEF SendFails
<1>5. rare' \in 0..MaxRare
  BY PageFacts, WritersAreWriters DEF SendFails, Rare
<1> QED BY <1>2, <1>3, <1>4, <1>5, PageFacts, PageStepInv DEF SendFails

\* Typing: what is new is queued and is in the document.
LEMMA CaptureInv ==
    ASSUME Inv, NEW p \in Pages, NEW prefix \in 0..MaxLength, NEW removed \in 0..1,
           NEW inserted \in Runs, Capture(p, prefix, removed, inserted)
    PROVE  Inv'
<1> DEFINE ops == Replace(page[p].doc.nodes, p, prefix, removed, inserted)
           doc == ApplyAll(page[p].doc, ops)
           queue == page[p].queue \o ops
           pg == [page[p] EXCEPT !.doc = doc, !.queue = queue]
<1>1. /\ PageOK(page[p], p, text, Version) /\ page[p] \in PageRecords
      /\ RequestOK(request[p], page[p].queue, text, Version)
  BY PageFacts
<1>2. /\ page[p].doc \in DocRecords /\ page[p].doc.nodes \in Texts /\ Distinct(page[p].doc.nodes)
      /\ page[p].queue \in Seq(OpRecords) /\ Placeable(page[p].queue, Names(text))
  BY <1>1 DEF PageOK, PageRecords, DocRecords
<1>3. /\ page[p].state = "open" /\ edits < MaxEdits /\ edits' = edits + 1
      /\ prefix + removed <= Len(Visible(page[p].doc.nodes))
      /\ Changed(page, page', p, pg)
      /\ text' = text /\ journal' = journal /\ request' = request
      /\ strays' = strays /\ acked' = acked /\ rare' = rare
  BY <1>1 DEF Capture, Changed, Inv
<1>4. edits \in Nat /\ edits' \in 0..MaxEdits
  BY <1>3, PageFacts, WritersAreWriters
<1>5. /\ ops \in Seq(OpRecords)
      /\ \A op \in Range(ops) : /\ Fits(op, Names(page[p].doc.nodes)) /\ Ready(page[p].doc.nodes, op)
                                /\ IsInsert(op) => op.id[2] = p
  <2>1. prefix \in Nat /\ removed \in Nat /\ p \in Writers
    BY WritersAreWriters
  <2>2. edits + 1 \in Nat /\ inserted \in {<<>>, <<edits + 1>>}
    BY <1>4 DEF Runs
  <2>3. EditOf(ops, page[p].doc.nodes, p, prefix, removed, inserted, edits + 1)
    BY <1>2, <1>3, <2>1, <2>2 DEF EditOf
  <2> HIDE DEF ops
  <2> QED BY <2>3, ReplaceFacts
<1> HIDE DEF ops
<1>6. /\ doc \in DocRecords /\ Distinct(doc.nodes)
      /\ Within(page[p].doc.nodes, doc.nodes) /\ Stored(doc.nodes, ops)
      /\ Names(doc.nodes) \subseteq Names(page[p].doc.nodes) \cup Given(Range(page[p].doc.held))
                                       \cup Given(Range(ops))
      /\ Range(doc.held) \subseteq Range(page[p].doc.held)
  BY <1>2, <1>5, AppliedFacts
<1> HIDE DEF doc
<1>7. /\ queue \in Seq(OpRecords) /\ Len(queue) = Len(page[p].queue) + Len(ops)
      /\ Range(queue) = Range(page[p].queue) \cup Range(ops)
      /\ \A n \in 0..Len(page[p].queue) : SubSeq(queue, 1, n) = SubSeq(page[p].queue, 1, n)
      /\ Placeable(queue, Names(text))
  <2>1. Names(page[p].doc.nodes) \subseteq Names(text) \cup Given(Range(page[p].queue))
    BY <1>1 DEF PageOK
  <2> QED BY <1>2, <1>5, <2>1, PlaceableAppend
<1> HIDE DEF queue
<1>8. Given(Range(queue)) = Given(Range(page[p].queue)) \cup Given(Range(ops))
  BY <1>7, GivenFacts
<1>9. Given(Range(ops)) \subseteq Names(doc.nodes)
  BY <1>6 DEF Stored, Done, Given
<1>10. Given(Range(doc.held)) \subseteq Given(Range(page[p].doc.held))
  BY <1>6, GivenFacts
<1>11. /\ pg \in PageRecords /\ pg.state = "open" /\ pg.cursor = page[p].cursor
       /\ pg.doc = doc /\ pg.queue = queue /\ pg.got = page[p].got
       /\ pg.buffer = page[p].buffer /\ pg.again = page[p].again
  BY <1>1, <1>3, <1>6, <1>7 DEF PageRecords
<1> HIDE DEF pg
<1>12. PageOK(pg, p, text, Version)
  <2>1. \A op \in Range(queue) : IsInsert(op) => op.id[2] = p
    BY <1>1, <1>5, <1>7 DEF PageOK
  <2>2. Given(Range(queue)) \subseteq Names(doc.nodes)
    BY <1>1, <1>6, <1>8, <1>9 DEF PageOK, Within
  <2>3. Names(doc.nodes) \subseteq Names(text) \cup Given(Range(queue))
    BY <1>1, <1>6, <1>8 DEF PageOK
  <2>4. Given(Range(doc.held)) \subseteq Names(text) \cup Given(Range(queue))
    BY <1>1, <1>8, <1>10 DEF PageOK
  <2>5. /\ page[p].cursor <= Version /\ page[p].again <= Resyncs + 1 /\ page[p].again <= Resyncs
        /\ Distinct(page[p].got) /\ Within(page[p].got, text)
        /\ \A i \in 1..Len(page[p].buffer) : Stored(text, page[p].buffer[i].ops)
    BY <1>1, <1>3 DEF PageOK
  <2> QED BY <1>6, <1>7, <1>11, <2>1, <2>2, <2>3, <2>4, <2>5 DEF PageOK
<1>13. RequestOK(request[p], pg.queue, text, Version)
  <2>1. request[p].batch \in Seq(OpRecords)
    BY <1>1 DEF RequestOK, RequestRecords
  <2>2. Len(request[p].batch) \in 0..Len(page[p].queue) /\ Len(request[p].batch) <= Len(queue)
    BY <1>1, <1>2, <1>5, <1>7, <2>1 DEF RequestOK
  <2>3. request[p].batch = SubSeq(queue, 1, Len(request[p].batch))
    BY <1>1, <1>7, <2>2 DEF RequestOK
  <2> QED BY <1>1, <1>11, <2>2, <2>3 DEF RequestOK
<1> QED BY <1>3, <1>4, <1>12, <1>13, PageFacts, PageStepInv

\* An answered batch: the canvas has what leaves the queue.
LEMMA SentInv ==
    ASSUME Inv, NEW p \in Pages, Sent(p)
    PROVE  Inv'
<1> DEFINE batch == request[p].batch
           rest == SubSeq(page[p].queue, Len(batch) + 1, Len(page[p].queue))
           pg == [page[p] EXCEPT !.queue = rest]
<1>1. /\ PageOK(page[p], p, text, Version) /\ page[p] \in PageRecords
      /\ RequestOK(request[p], page[p].queue, text, Version)
      /\ AckedOK(acked, text)
  BY PageFacts
<1>2. page[p].queue \in Seq(OpRecords) /\ batch \in Seq(OpRecords)
  BY <1>1 DEF PageRecords, RequestOK, RequestRecords
<1>3. /\ request[p].state = "ok" /\ Changed(page, page', p, pg) /\ Changed(request, request', p, Idle)
      /\ text' = text /\ journal' = journal /\ strays' = strays /\ edits' = edits /\ rare' = rare
      /\ acked' = acked \cup UNION {Written(batch[i]) : i \in DOMAIN batch}
  BY <1>1 DEF Sent, Inv, Changed
<1>4. Stored(text, batch) /\ Len(batch) <= Len(page[p].queue)
      /\ batch = SubSeq(page[p].queue, 1, Len(batch))
  BY <1>1, <1>3 DEF RequestOK
<1>5. Given(Range(batch)) \subseteq Names(text)
  BY <1>4 DEF Stored, Done, Given
<1>6. AckedOK(acked', text)
  <2>1. \A i \in DOMAIN batch : Written(batch[i]) \subseteq CharNames \X Nat
                                /\ \A c \in Written(batch[i]) : c[1] \in Names(text)
    <3> TAKE i \in DOMAIN batch
    <3>1. batch[i] \in OpRecords /\ Done(text, batch[i])
      BY <1>2, <1>4 DEF Stored, Range
    <3>2. CASE IsInsert(batch[i])
      BY <3>1, <3>2, NamedFacts DEF Done
    <3>3. CASE ~IsInsert(batch[i])
      BY <3>1, <3>3, NamedFacts
    <3> QED BY <3>2, <3>3
  <2>2. \A c \in acked' : c \in acked \/ \E i \in DOMAIN batch : c \in Written(batch[i])
    BY <1>3
  <2> QED BY <1>1, <2>1, <2>2 DEF AckedOK
<1> HIDE DEF rest
<1>7. /\ rest \in Seq(OpRecords) /\ Range(page[p].queue) = Range(batch) \cup Range(rest)
      /\ Placeable(rest, Names(text))
  <2>1. Placeable(page[p].queue, Names(text))
    BY <1>1 DEF PageOK
  <2>2. Leaves(page[p].queue, batch, rest)
    BY <1>2, <1>4 DEF rest, Leaves
  <2> HIDE DEF batch
  <2> QED BY <1>5, <2>1, <2>2, PlaceableRest
<1>8. Given(Range(page[p].queue)) = Given(Range(batch)) \cup Given(Range(rest))
  BY <1>7, GivenFacts
<1>9. /\ pg \in PageRecords /\ pg.state = page[p].state /\ pg.cursor = page[p].cursor
      /\ pg.doc = page[p].doc /\ pg.queue = rest /\ pg.got = page[p].got
      /\ pg.buffer = page[p].buffer /\ pg.again = page[p].again
  BY <1>1, <1>7 DEF PageRecords
<1> HIDE DEF pg
<1>10. PageOK(pg, p, text, Version)
  <2>1. \A op \in Range(rest) : IsInsert(op) => op.id[2] = p
    BY <1>1, <1>7 DEF PageOK
  <2>2. /\ Given(Range(rest)) \subseteq Names(page[p].doc.nodes)
        /\ Names(page[p].doc.nodes) \subseteq Names(text) \cup Given(Range(rest))
        /\ Given(Range(page[p].doc.held)) \subseteq Names(text) \cup Given(Range(rest))
    BY <1>1, <1>5, <1>8 DEF PageOK
  <2>3. page[p].state \in {"closed", "opening"} => rest = <<>>
    <3> SUFFICES ASSUME page[p].queue = <<>> PROVE rest = <<>>
      BY <1>1 DEF PageOK
    <3> QED BY <1>2 DEF rest
  <2> QED BY <1>1, <1>7, <1>9, <2>1, <2>2, <2>3 DEF PageOK
<1>11. RequestOK(Idle, pg.queue, text, Version)
  BY <1>7, <1>9, IdleOK
<1> QED BY <1>3, <1>6, <1>10, <1>11, PageFacts, PageStepInv

\* Records that are appended to those that were heard.
LEMMA BufferFacts ==
    ASSUME NEW buffer \in Seq(Changes), NEW change \in Changes, NEW nodes,
           \A i \in 1..Len(buffer) : Stored(nodes, buffer[i].ops), Stored(nodes, change.ops)
    PROVE  /\ Append(buffer, change) \in Seq(Changes)
           /\ \A i \in 1..Len(Append(buffer, change)) : Stored(nodes, Append(buffer, change)[i].ops)
<1>1. /\ Append(buffer, change) \in Seq(Changes)
      /\ \A i \in 1..Len(Append(buffer, change)) :
            \/ i \in 1..Len(buffer) /\ Append(buffer, change)[i] = buffer[i]
            \/ Append(buffer, change)[i] = change
  OBVIOUS
<1> QED BY <1>1

\* A write heard: kept for later, applied, or a reason to fetch.
LEMMA ReceiveInv ==
    ASSUME Inv, NEW p \in Pages, Receive(p)
    PROVE  Inv'
<1> DEFINE change == journal[page[p].cursor + 1]
           applied == ApplyAll(page[p].doc, change.ops)
           old == page[p]
           kept == [old EXCEPT !.cursor = old.cursor + 1, !.buffer = Append(old.buffer, change)]
           asks == [old EXCEPT !.cursor = old.cursor + 1, !.fetch = "asked"]
           takes == [old EXCEPT !.cursor = old.cursor + 1, !.doc = applied,
                                !.fetch = IF applied.held # <<>> THEN "asked" ELSE "none"]
<1>1. /\ PageOK(old, p, text, Version) /\ old \in PageRecords /\ CanvasOK(text, journal)
      /\ RequestOK(request[p], old.queue, text, Version) /\ Version \in Nat
  BY PageFacts
<1>2. /\ old.doc \in DocRecords /\ old.doc.nodes \in Texts /\ Distinct(old.doc.nodes)
      /\ old.queue \in Seq(OpRecords) /\ old.buffer \in Seq(Changes) /\ old.cursor \in Nat
  BY <1>1 DEF PageOK, PageRecords, DocRecords
<1>3. /\ old.state = "open" /\ old.cursor < Version
      /\ text' = text /\ journal' = journal /\ request' = request
      /\ strays' = strays /\ acked' = acked /\ edits' = edits /\ rare' = rare
  BY DEF Receive
<1>4. \E pg \in {kept, asks, takes} : Changed(page, page', p, pg)
  <2>1. CASE old.fetch # "none"
    <3>1. Changed(page, page', p, kept)
      BY <1>1, <2>1 DEF Receive, Changed, Inv, PageRecords
    <3> QED BY <3>1
  <2>2. CASE old.fetch = "none" /\ change.resync
    <3>1. Changed(page, page', p, asks)
      BY <1>1, <2>2 DEF Receive, Changed, Inv, PageRecords
    <3> QED BY <3>1
  <2>3. CASE old.fetch = "none" /\ ~change.resync
    <3>1. Changed(page, page', p, takes)
      BY <1>1, <2>3 DEF Receive, Changed, Inv, PageRecords
    <3> QED BY <3>1
  <2> QED BY <2>1, <2>2, <2>3
<1>5. old.cursor + 1 \in 1..Len(journal) /\ old.cursor + 1 <= Version /\ old.cursor + 1 \in Nat
  BY <1>1, <1>2, <1>3 DEF Version
<1>6. change \in Changes /\ change.ops \in Seq(OpRecords) /\ Stored(text, change.ops)
  <2>1. change \in Changes
    BY <1>1, <1>5 DEF CanvasOK
  <2> QED BY <1>1, <1>5, <2>1 DEF CanvasOK, Changes
<1>7. Given(Range(change.ops)) \subseteq Names(text)
  BY <1>6 DEF Stored, Done, Given
<1> HIDE DEF change
<1>8. PageOK(kept, p, text, Version) /\ kept.queue = old.queue
  <2>1. /\ Append(old.buffer, change) \in Seq(Changes)
        /\ \A i \in 1..Len(Append(old.buffer, change)) :
              Stored(text, Append(old.buffer, change)[i].ops)
    BY <1>1, <1>2, <1>6, BufferFacts DEF PageOK
  <2>2. /\ kept \in PageRecords /\ kept.state = old.state /\ kept.cursor = old.cursor + 1
        /\ kept.doc = old.doc /\ kept.queue = old.queue /\ kept.got = old.got
        /\ kept.buffer = Append(old.buffer, change) /\ kept.again = old.again
    BY <1>1, <1>5, <2>1 DEF PageRecords
  <2> HIDE DEF kept, old
  <2> QED BY <1>1, <1>5, <2>1, <2>2 DEF PageOK
<1>9. PageOK(asks, p, text, Version) /\ asks.queue = old.queue
  <2>1. /\ asks \in PageRecords /\ asks.state = old.state /\ asks.cursor = old.cursor + 1
        /\ asks.doc = old.doc /\ asks.queue = old.queue /\ asks.got = old.got
        /\ asks.buffer = old.buffer /\ asks.again = old.again
    BY <1>1, <1>5 DEF PageRecords
  <2> HIDE DEF asks, old
  <2> QED BY <1>1, <1>5, <2>1 DEF PageOK
<1>10. PageOK(takes, p, text, Version) /\ takes.queue = old.queue
  <2>1. Grown(old.doc.nodes, Range(old.doc.held) \cup Range(change.ops), applied.nodes, Range(applied.held))
    BY <1>2, <1>6, ApplyAllGrows
  <2>2. applied \in DocRecords
    BY <1>2, <1>6, ApplyAllType
  <2> HIDE DEF applied
  <2>3. Given(Range(old.doc.held) \cup Range(change.ops)) \subseteq Names(text) \cup Given(Range(old.queue))
    BY <1>1, <1>7, GivenFacts DEF PageOK
  <2>4. Given(Range(applied.held)) \subseteq Names(text) \cup Given(Range(old.queue))
    <3>1. Range(applied.held) \subseteq Range(old.doc.held) \cup Range(change.ops)
      BY <2>1 DEF Grown
    <3> QED BY <2>3, <3>1, GivenFacts
  <2>5. /\ Names(applied.nodes) \subseteq Names(text) \cup Given(Range(old.queue))
        /\ Given(Range(old.queue)) \subseteq Names(applied.nodes)
        /\ Distinct(applied.nodes)
    BY <1>1, <1>2, <2>1, <2>3 DEF Grown, PageOK
  <2>6. /\ takes \in PageRecords /\ takes.state = old.state /\ takes.cursor = old.cursor + 1
        /\ takes.doc = applied /\ takes.queue = old.queue /\ takes.got = old.got
        /\ takes.buffer = old.buffer /\ takes.again = old.again
    BY <1>1, <1>5, <2>2 DEF PageRecords
  <2> HIDE DEF takes, old
  <2> QED BY <1>1, <1>5, <2>4, <2>5, <2>6 DEF PageOK
<1>11. \A pg \in {kept, asks, takes} : PageOK(pg, p, text, Version) /\ pg.queue = old.queue
  BY <1>8, <1>9, <1>10
<1> HIDE DEF kept, asks, takes, old
<1>12. PICK pg \in {kept, asks, takes} : Changed(page, page', p, pg)
  BY <1>4
<1>13. PageOK(pg, p, text, Version) /\ pg.queue = page[p].queue
  BY <1>11 DEF old
<1> QED BY <1>3, <1>12, <1>13, PageFacts, PageStepInv

\* What was heard while the text was fetched, the canvas has.
LEMMA ToldFacts ==
    ASSUME NEW told \in Seq(Changes), NEW nodes,
           \A i \in 1..Len(told) : Stored(nodes, told[i].ops)
    PROVE  Given(Told(told)) \subseteq Names(nodes)
<1>1. DOMAIN told = 1..Len(told)
  OBVIOUS
<1> QED BY <1>1 DEF Told, Given, Stored, Done

\* The document after the text was fetched: what was fetched, what the page has not had
\* acknowledged, and what it heard since.
LEMMA FreshFacts ==
    ASSUME Inv, NEW p \in Pages, NEW fresh, Replayed(p).held = <<>>,
           fresh = CatchUp(Replayed(p), page[p].buffer)
    PROVE  /\ fresh \in DocRecords /\ Distinct(fresh.nodes)
           /\ Given(Range(page[p].queue)) \subseteq Names(fresh.nodes)
           /\ Names(fresh.nodes) \subseteq Names(text) \cup Given(Range(page[p].queue))
           /\ Given(Range(fresh.held)) \subseteq Names(text) \cup Given(Range(page[p].queue))
<1> DEFINE queue == page[p].queue
           got == page[p].got
           told == page[p].buffer
           base == Replayed(p)
<1>1. PageOK(page[p], p, text, Version) /\ page[p] \in PageRecords
  BY PageFacts
<1>2. got \in Texts /\ queue \in Seq(OpRecords) /\ told \in Seq(Changes)
  BY <1>1 DEF PageRecords
<1>3. /\ Distinct(got) /\ Within(got, text) /\ \A i \in 1..Len(told) : Stored(text, told[i].ops)
  BY <1>1 DEF PageOK
<1>4. base = ApplyAll(Load(got), queue) /\ base.held = <<>> /\ fresh = CatchUp(base, told)
  BY DEF Replayed
<1>5. Load(got) \in DocRecords /\ Load(got).nodes = got /\ Range(Load(got).held) = {}
  BY <1>2 DEF Load, DocRecords, Range
<1> HIDE DEF queue, got, told, base
<1>6. base \in DocRecords
  BY <1>2, <1>4, <1>5, ApplyAllType
<1>7. Grown(got, Range(Load(got).held) \cup Range(queue), base.nodes, Range(base.held))
  BY <1>2, <1>4, <1>5, ApplyAllGrows
<1>8. fresh \in DocRecords
  BY <1>2, <1>4, <1>6, CatchUpType
<1>9. Grown(base.nodes, Range(base.held) \cup Told(told), fresh.nodes, Range(fresh.held))
  BY <1>2, <1>4, <1>6, CatchUpGrows
<1>10. Range(base.held) = {}
  BY <1>4 DEF Range
<1>11. Given(Told(told)) \subseteq Names(text)
  BY <1>2, <1>3, ToldFacts
<1>12. /\ Distinct(base.nodes) /\ Names(base.nodes) \subseteq Names(got) \cup Given(Range(queue))
       /\ \A op \in Range(queue) : Done(base.nodes, op)
  BY <1>3, <1>5, <1>7, <1>10 DEF Grown
<1>13. Given(Range(queue)) \subseteq Names(base.nodes)
  BY <1>12 DEF Given, Done
<1>14. /\ Distinct(fresh.nodes) /\ Names(base.nodes) \subseteq Names(fresh.nodes)
       /\ Names(fresh.nodes) \subseteq Names(base.nodes) \cup Given(Told(told))
       /\ Range(fresh.held) \subseteq Told(told)
  BY <1>9, <1>10, <1>12 DEF Grown
<1>15. Given(Range(fresh.held)) \subseteq Given(Told(told))
  BY <1>14, GivenFacts
<1>16. Names(got) \subseteq Names(text)
  BY <1>3 DEF Within
<1> QED BY <1>8, <1>11, <1>12, <1>13, <1>14, <1>15, <1>16 DEF queue

\* The text fetched anew, with what is unsent and what was heard since.
LEMMA ResyncInv ==
    ASSUME Inv, NEW p \in Pages, Resync(p)
    PROVE  Inv'
<1> DEFINE told == page[p].buffer
           fresh == CatchUp(Replayed(p), told)
           more == fresh.held # <<>> \/ \E i \in DOMAIN told : told[i].resync
           again == IF more THEN page[p].again + 1 ELSE 0
           state == IF again > Resyncs THEN "stopped" ELSE "open"
           fetch == IF more /\ again <= Resyncs THEN "asked" ELSE "none"
           ended == [page[p] EXCEPT !.fetch = "none", !.got = <<>>]
           gives == [ended EXCEPT !.state = "stopped"]
           takes == [ended EXCEPT !.doc = fresh, !.buffer = <<>>, !.again = again,
                                  !.state = state, !.fetch = fetch]
<1>1. /\ PageOK(page[p], p, text, Version) /\ page[p] \in PageRecords
      /\ RequestOK(request[p], page[p].queue, text, Version) /\ Version \in Nat
  BY PageFacts
<1>2. /\ page[p].state = "open"
      /\ text' = text /\ journal' = journal /\ request' = request
      /\ strays' = strays /\ acked' = acked /\ edits' = edits /\ rare' = rare
  BY DEF Resync
<1>3. /\ ended \in PageRecords /\ ended.cursor = page[p].cursor /\ ended.got = <<>>
      /\ ended.queue = page[p].queue /\ ended.doc = page[p].doc
      /\ ended.buffer = page[p].buffer /\ ended.again = page[p].again
  <2>1. <<>> \in Texts
    BY DEF Texts
  <2> QED BY <1>1, <2>1 DEF PageRecords
<1>4. Distinct(<<>>) /\ Within(<<>>, text)
  BY DEF Distinct, Within, Names, Gone
<1>5. CASE Replayed(p).held # <<>>
  <2>1. Changed(page, page', p, gives)
    BY <1>1, <1>5 DEF Resync, Changed, Inv
  <2> HIDE DEF ended
  <2>2. /\ gives \in PageRecords /\ gives.cursor = page[p].cursor /\ gives.got = <<>>
        /\ gives.queue = page[p].queue /\ gives.doc = page[p].doc
        /\ gives.buffer = page[p].buffer /\ gives.again = page[p].again
        /\ gives.state = "stopped"
    BY <1>3 DEF PageRecords
  <2> HIDE DEF gives
  <2>3. PageOK(gives, p, text, Version)
    BY <1>1, <1>4, <2>2 DEF PageOK
  <2> QED BY <1>1, <1>2, <2>1, <2>2, <2>3, PageFacts, PageStepInv
<1>6. CASE Replayed(p).held = <<>>
  <2>1. Changed(page, page', p, takes)
    BY <1>1, <1>6 DEF Resync, Changed, Inv, PageRecords
  <2>2. fresh = CatchUp(Replayed(p), page[p].buffer)
    OBVIOUS
  <2>3. again \in Nat /\ again <= Resyncs + 1 /\ state \in {"open", "stopped"}
        /\ (state # "stopped" => again <= Resyncs) /\ fetch \in {"asked", "none"}
    <3>1. page[p].again \in Nat /\ page[p].again <= Resyncs /\ Resyncs \in Nat
      BY <1>1, <1>2, CanvasTextAssumption DEF PageOK, PageRecords
    <3> QED BY <3>1
  <2> HIDE DEF fresh, again, state, fetch
  <2>4. /\ fresh \in DocRecords /\ Distinct(fresh.nodes)
        /\ Given(Range(page[p].queue)) \subseteq Names(fresh.nodes)
        /\ Names(fresh.nodes) \subseteq Names(text) \cup Given(Range(page[p].queue))
        /\ Given(Range(fresh.held)) \subseteq Names(text) \cup Given(Range(page[p].queue))
    BY <1>6, <2>2, FreshFacts
  <2> HIDE DEF ended
  <2>5. /\ takes \in PageRecords /\ takes.state = state /\ takes.cursor = page[p].cursor
        /\ takes.doc = fresh /\ takes.queue = page[p].queue /\ takes.got = <<>>
        /\ takes.buffer = <<>> /\ takes.again = again
    <3>1. <<>> \in Seq(Changes)
      OBVIOUS
    <3> QED BY <1>3, <2>3, <2>4, <3>1 DEF PageRecords
  <2> HIDE DEF takes
  <2>6. PageOK(takes, p, text, Version)
    BY <1>1, <1>4, <2>3, <2>4, <2>5 DEF PageOK
  <2> QED BY <1>1, <1>2, <2>1, <2>5, <2>6, PageFacts, PageStepInv
<1> QED BY <1>5, <1>6

-----------------------------------------------------------------------------
(* The invariant holds in every state.                                     *)

\* A page that has heard and typed nothing.
LEMMA FirstPage ==
    ASSUME NEW pg \in PageRecords, NEW p, NEW nodes, Distinct(pg.doc.nodes),
           Names(pg.doc.nodes) \subseteq Names(nodes), Range(pg.doc.held) = {},
           pg.cursor = 0, pg.again = 0, pg.queue = <<>>, pg.got = <<>>, pg.buffer = <<>>
    PROVE  PageOK(pg, p, nodes, 0)
<1>1. /\ Range(pg.queue) = {} /\ Given(Range(pg.queue)) = {} /\ Given(Range(pg.doc.held)) = {}
  <2>1. Range(<<>>) = {}
    BY DEF Range
  <2>2. Range(pg.queue) = {}
    BY <2>1
  <2> QED BY <2>2, GivenFacts
<1>2. Distinct(pg.got) /\ Within(pg.got, nodes) /\ Placeable(pg.queue, Names(nodes))
  BY DEF Distinct, Within, Names, Gone, Placeable
<1>3. \A i \in 1..Len(pg.buffer) : Stored(nodes, pg.buffer[i].ops)
  OBVIOUS
<1>4. pg.again <= Resyncs + 1 /\ pg.again <= Resyncs /\ pg.cursor <= 0
  BY CanvasTextAssumption
<1> QED BY <1>1, <1>2, <1>3, <1>4 DEF PageOK

\* It holds at the start.
LEMMA InitInv == Init => Inv
<1> SUFFICES ASSUME Init PROVE Inv
  OBVIOUS
<1>1. Seed \in Writers /\ <<1, Seed>> \in CharNames /\ Node(<<1, Seed>>, 0) \in NodeRecords
  BY DEF Writers, CharNames, Seed, NodeRecords, Node
<1>2. /\ text \in Texts /\ Len(text) = 1 /\ DOMAIN text = {1} /\ journal = <<>> /\ Version = 0
  BY <1>1 DEF Init, Texts, Version
<1>3. Distinct(text) /\ CanvasOK(text, journal)
  BY <1>2 DEF Distinct, CanvasOK
<1>4. /\ Empty \in DocRecords /\ Load(text) \in DocRecords
      /\ Empty.nodes = <<>> /\ Load(text).nodes = text
      /\ Range(Empty.held) = {} /\ Range(Load(text).held) = {}
  BY <1>2 DEF Empty, Load, DocRecords, Texts, Range
<1>5. /\ Distinct(<<>>) /\ Within(<<>>, text) /\ Placeable(<<>>, Names(text))
      /\ Names(<<>>) = {} /\ Range(<<>>) = {} /\ Given({}) = {} /\ <<>> \in Seq(OpRecords)
      /\ <<>> \in Texts /\ <<>> \in Seq(Changes) /\ Resyncs \in Nat
  BY CanvasTextAssumption DEF Distinct, Within, Placeable, Names, Gone, Range, Given, Texts
<1>6. Closed \in PageRecords
  BY <1>4, <1>5 DEF PageRecords, Closed
<1>7. \A p \in Pages : PageOK(Closed, p, text, 0)
  <2>1. /\ Closed.cursor = 0 /\ Closed.again = 0 /\ Closed.state = "closed" /\ Closed.queue = <<>>
        /\ Closed.doc = Empty /\ Closed.got = <<>> /\ Closed.buffer = <<>>
    BY DEF Closed
  <2>2. /\ Distinct(Closed.doc.nodes) /\ Names(Closed.doc.nodes) \subseteq Names(text)
        /\ Range(Closed.doc.held) = {}
    BY <1>4, <1>5, <2>1
  <2> QED BY <1>6, <2>1, <2>2, FirstPage
<1>8. \A p \in Pages : PageOK([Closed EXCEPT !.state = "open", !.doc = Load(text)], p, text, 0)
  <2> DEFINE pg == [Closed EXCEPT !.state = "open", !.doc = Load(text)]
  <2>1. /\ pg.cursor = 0 /\ pg.again = 0 /\ pg.state = "open" /\ pg.queue = <<>>
        /\ pg.doc = Load(text) /\ pg.got = <<>> /\ pg.buffer = <<>> /\ pg \in PageRecords
    BY <1>4, <1>6 DEF Closed, PageRecords
  <2> HIDE DEF pg
  <2>2. \A p \in Pages : PageOK(pg, p, text, 0)
    BY <1>3, <1>4, <2>1, FirstPage
  <2> QED BY <2>2 DEF pg
<1>9. DOMAIN page = Pages /\ \A p \in Pages : PageOK(page[p], p, text, Version)
  BY <1>2, <1>7, <1>8 DEF Init
<1>10. DOMAIN request = Pages /\ \A p \in Pages : RequestOK(request[p], page[p].queue, text, Version)
  <2>1. \A p \in Pages : page[p].queue \in Seq(OpRecords)
    BY <1>9 DEF PageOK, PageRecords
  <2> QED BY <2>1, IdleOK DEF Init
<1>11. /\ strays \subseteq Seq(OpRecords) /\ AckedOK(acked, text)
       /\ edits \in 0..MaxEdits /\ rare \in 0..MaxRare
  BY CanvasTextAssumption DEF Init, AckedOK
<1> QED BY <1>3, <1>9, <1>10, <1>11 DEF Inv

LEMMA StutterInv ==
    ASSUME Inv, UNCHANGED vars
    PROVE  Inv'
<1>1. /\ text' = text /\ journal' = journal /\ page' = page /\ request' = request
      /\ strays' = strays /\ acked' = acked /\ edits' = edits /\ rare' = rare
  BY DEF vars
<1>2. Version' = Version
  BY <1>1 DEF Version
<1> QED BY <1>1, <1>2 DEF Inv

\* Every step keeps it.
LEMMA NextInv == Inv /\ [Next]_vars => Inv'
<1> SUFFICES ASSUME Inv, [Next]_vars PROVE Inv'
  OBVIOUS
<1>1. ASSUME NEW prefix \in 0..MaxLength, NEW removed \in 0..1, NEW inserted \in Runs,
             SyncCanvasText(prefix, removed, inserted)
      PROVE  Inv'
  BY <1>1, SyncInv
<1>2. ASSUME NEW prefix \in 0..MaxLength, NEW removed \in 0..1, NEW inserted \in Runs,
             NEW p \in Pages, Capture(p, prefix, removed, inserted)
      PROVE  Inv'
  BY <1>2, CaptureInv
<1>3. ASSUME NEW ops \in strays, StrayArrives(ops) PROVE Inv'
  BY <1>3, StrayInv
<1>4. ASSUME NEW p \in Pages, Open(p) PROVE Inv'
  BY <1>4, OpenInv
<1>5. ASSUME NEW p \in Pages, SendFails(p) PROVE Inv'
  BY <1>5, SendFailsInv
<1>6. ASSUME NEW p \in Pages, FetchFails(p) PROVE Inv'
  BY <1>6, FetchFailsInv
<1>7. ASSUME NEW p \in Pages, PageStep(p) PROVE Inv'
  <2>1. CASE Render(p)
    BY <2>1, RenderInv
  <2>2. CASE Send(p)
    BY <2>2, SendInv
  <2>3. CASE Sent(p)
    BY <2>3, SentInv
  <2>4. CASE Refused(p)
    BY <2>4, RefusedInv
  <2>5. CASE Receive(p)
    BY <2>5, ReceiveInv
  <2>6. CASE Fetch(p)
    BY <2>6, FetchInv
  <2>7. CASE Resync(p)
    BY <2>7, ResyncInv
  <2> QED BY <1>7, <2>1, <2>2, <2>3, <2>4, <2>5, <2>6, <2>7 DEF PageStep
<1>8. ASSUME NEW p \in Pages, ServerStep(p) PROVE Inv'
  <2>1. CASE Read(p)
    BY <2>1, ReadInv
  <2>2. CASE Commit(p)
    BY <2>2, CommitInv
  <2>3. CASE Conflict(p)
    BY <2>3, ConflictInv
  <2> QED BY <1>8, <2>1, <2>2, <2>3 DEF ServerStep
<1>9. CASE UNCHANGED vars
  BY <1>9, StutterInv
<1> QED BY <1>1, <1>2, <1>3, <1>4, <1>5, <1>6, <1>7, <1>8, <1>9 DEF Next

\* In every state of the canvas and its editors: what a page has that the canvas has not is
\* what it has still to send, all of which the canvas can place; what was answered ok is there.
THEOREM CanvasInvariant == Spec => []Inv
<1>1. Init => Inv
  BY InitInv
<1>2. Inv /\ [Next]_vars => Inv'
  BY NextInv
<1> QED BY <1>1, <1>2, PTL DEF Spec

\* Every character of the canvas was named by an editor or the server, no replica has one
\* twice, a page sends the beginning of its queue, and the counters stay in their bounds.
THEOREM CanvasTypeCorrect == Spec => []TypeOK
<1>1. Inv => TypeOK
  BY InvTypeOK
<1> QED BY <1>1, CanvasInvariant, PTL

LEMMA InvNothingTypedIsLost == Inv => NothingTypedIsLost
<1> SUFFICES ASSUME Inv PROVE NothingTypedIsLost
  OBVIOUS
<1>1. UnsentIsKept
  <2> SUFFICES ASSUME NEW p \in Pages, NEW i \in DOMAIN page[p].queue
               PROVE  Named(page[p].queue[i]) \subseteq Names(page[p].doc.nodes)
    BY DEF UnsentIsKept
  <2>1. Given(Range(page[p].queue)) \subseteq Names(page[p].doc.nodes)
    BY PageFacts DEF PageOK
  <2> QED BY <2>1 DEF Given, Range
<1>2. SavedUnlessReused
  <2> SUFFICES ASSUME ~Reused, NEW c \in acked PROVE c \in Chars(text)
    BY DEF SavedUnlessReused, AcknowledgedIsStored
  <2>1. c \in CharNames \X Nat /\ c[1] \in Names(text)
    BY DEF Inv, AckedOK
  <2>2. PICK i \in DOMAIN text : text[i].id = c[1]
    BY <2>1 DEF Names
  <2> DEFINE d == <<text[i].id, text[i].value>>
  <2>3. d \in Chars(text) /\ d[1] = c[1]
    BY <2>2 DEF Chars
  <2>4. c = d
    BY <2>3 DEF Reused, Everywhere
  <2> QED BY <2>3, <2>4
<1> QED BY <1>1, <1>2 DEF NothingTypedIsLost

\* What was typed on a page is in its document until the canvas has it, also after a send
\* failed, arrived late or twice, or the text was fetched anew; and once the page was told it is
\* saved it is in the canvas, as long as no two characters were given one name.
THEOREM TypedIsKept == Spec => []NothingTypedIsLost
<1>1. Inv => NothingTypedIsLost
  BY InvNothingTypedIsLost
<1> QED BY <1>1, CanvasInvariant, PTL

\* No batch of a page is ever refused as stale: whatever else was written, the canvas has what
\* its operations need and has seen clocks as high as theirs, in editCanvasText.
THEOREM NoEditIsRefused == Spec => []NothingRefused
<1>1. Inv => NothingRefused
  BY DEF Inv, RequestOK, NothingRefused
<1> QED BY <1>1, CanvasInvariant, PTL
-----------------------------------------------------------------------------
(***************************************************************************)
(* Replicas agree on the order of what they share.  Every character goes   *)
(* after a parent, and there is one order B of all the characters that are *)
(* in the canvas or still queued for it, in which a character comes after  *)
(* its parent and nothing between the two has a smaller name.  A replica   *)
(* skips greater names only, so that each has its part of that one order.  *)
(***************************************************************************)

\* B orders the characters with the start of the document, and par gives parents.
OrderOf(names, B) ==
    /\ names \subseteq CharNames
    /\ \A a \in names : <<Start, a>> \in B
    /\ \A a \in names \cup {Start} : <<a, a>> \notin B
    /\ \A a, b \in names \cup {Start} : <<a, b>> \in B \/ <<b, a>> \in B \/ a = b
    /\ \A a, b, c \in names \cup {Start} : <<a, b>> \in B /\ <<b, c>> \in B => <<a, c>> \in B

Tree(names, par, B) ==
    /\ OrderOf(names, B)
    /\ \A a \in names :
          /\ par[a] \in names \cup {Start} /\ <<par[a], a>> \in B
          /\ \A z \in names : <<par[a], z>> \in B /\ <<z, a>> \in B => Less(a, z)

\* A text that has the characters in that order, each with its parent.
Sorted(nodes, par, B) ==
    /\ \A i, j \in 1..Len(nodes) : i < j => <<nodes[i].id, nodes[j].id>> \in B
    /\ \A i \in 1..Len(nodes) : par[nodes[i].id] \in Names(nodes) \cup {Start}

\* The place of a new character below p: behind p and what has a greater name.
Behind(names, B, p, n) ==
    {a \in names \cup {Start} :
        \/ a = p \/ <<a, p>> \in B
        \/ /\ <<p, a>> \in B
           /\ \A z \in names : <<p, z>> \in B /\ (<<z, a>> \in B \/ z = a) => Less(n, z)}

\* What comes first in an order.
Beginning(names, B, cut) ==
    /\ Start \in cut /\ cut \subseteq names \cup {Start}
    /\ \A a \in cut, b \in names \cup {Start} : <<b, a>> \in B => b \in cut

\* The order with n put behind its beginning.
Put2(names, B, cut, n) ==
    {pair \in (names \cup {Start}) \X (names \cup {Start}) : pair \in B}
    \cup (cut \X {n}) \cup ({n} \X ((names \cup {Start}) \ cut))

\* The place of a new character below p is a beginning of the order.
LEMMA BehindFacts ==
    ASSUME NEW names, NEW B, OrderOf(names, B), NEW p \in names \cup {Start}, NEW n \in CharNames,
           n \notin names
    PROVE  /\ Start \in Behind(names, B, p, n) /\ p \in Behind(names, B, p, n)
           /\ Behind(names, B, p, n) \subseteq names \cup {Start}
           /\ \A a \in Behind(names, B, p, n), b \in names \cup {Start} :
                 <<b, a>> \in B => b \in Behind(names, B, p, n)
           /\ \A z \in Behind(names, B, p, n) \ {Start} : <<p, z>> \in B => Less(n, z)
           /\ \A y \in (names \cup {Start}) \ Behind(names, B, p, n) :
                 \E z \in names \ Behind(names, B, p, n) :
                    <<p, z>> \in B /\ (<<z, y>> \in B \/ z = y) /\ Less(z, n)
<1> DEFINE all == names \cup {Start}
           L == Behind(names, B, p, n)
<1>1. /\ \A a, b \in all : <<a, b>> \in B \/ <<b, a>> \in B \/ a = b
      /\ \A a, b, c \in all : <<a, b>> \in B /\ <<b, c>> \in B => <<a, c>> \in B
      /\ \A a \in names : <<Start, a>> \in B
      /\ \A a \in all : <<a, a>> \notin B
      /\ names \subseteq CharNames
  BY DEF OrderOf
<1>2. Start \in L /\ p \in L /\ L \subseteq all
  BY <1>1 DEF Behind
<1>3. ASSUME NEW a \in L, NEW b \in all, <<b, a>> \in B PROVE b \in L
  <2>0. a \in all
    BY <1>2
  <2>1. CASE a = p \/ <<a, p>> \in B
    BY <1>1, <1>3, <2>0, <2>1 DEF Behind
  <2>2. CASE ~(a = p \/ <<a, p>> \in B)
    <3>1. /\ <<p, a>> \in B
          /\ \A z \in names : <<p, z>> \in B /\ (<<z, a>> \in B \/ z = a) => Less(n, z)
      BY <2>2, Zenon DEF Behind
    <3>2. \A z \in names : <<z, b>> \in B \/ z = b => <<z, a>> \in B
      BY <1>1, <1>3, <2>0
    <3>3. \A z \in names : <<p, z>> \in B /\ (<<z, b>> \in B \/ z = b) => Less(n, z)
      BY <3>1, <3>2
    <3>4. b = p \/ <<b, p>> \in B \/ <<p, b>> \in B
      BY <1>1
    <3> QED BY <3>3, <3>4, Zenon DEF Behind
  <2> QED BY <2>1, <2>2
<1>4. ASSUME NEW z \in L \ {Start}, <<p, z>> \in B PROVE Less(n, z)
  <2>1. z \in names
    BY <1>2
  <2>2. ~(z = p \/ <<z, p>> \in B)
    BY <1>1, <1>4, <2>1
  <2> QED BY <1>4, <2>1, <2>2 DEF Behind
<1>5. ASSUME NEW y \in all \ L
      PROVE  \E z \in names \ L : <<p, z>> \in B /\ (<<z, y>> \in B \/ z = y) /\ Less(z, n)
  <2>1. <<p, y>> \in B
    BY <1>1, <1>5 DEF Behind
  <2>2. PICK z \in names : <<p, z>> \in B /\ (<<z, y>> \in B \/ z = y) /\ ~Less(n, z)
    BY <1>5, <2>1, Zenon DEF Behind
  <2>3. Less(z, n)
    BY <1>1, <2>2, LessTotal
  <2>4. z \notin L
    <3>1. z # Start
      BY <1>1, <2>2
    <3> QED BY <1>4, <2>2, <3>1
  <2> QED BY <2>2, <2>3, <2>4
<1> QED BY <1>2, <1>3, <1>4, <1>5, Zenon


\* Putting a character behind a beginning makes an order again.
LEMMA PutOrder ==
    ASSUME NEW names, NEW B, OrderOf(names, B), NEW n \in CharNames, n \notin names,
           NEW cut, Beginning(names, B, cut), NEW more, more = Put2(names, B, cut, n)
    PROVE  /\ OrderOf(names \cup {n}, more)
           /\ \A a, b \in names \cup {Start} : <<a, b>> \in more <=> <<a, b>> \in B
           /\ \A a \in names \cup {Start} :
                 (<<a, n>> \in more <=> a \in cut) /\ (<<n, a>> \in more <=> a \notin cut)
<1> DEFINE all == names \cup {Start}
<1>1. /\ \A a, b \in all : <<a, b>> \in B \/ <<b, a>> \in B \/ a = b
      /\ \A a, b, c \in all : <<a, b>> \in B /\ <<b, c>> \in B => <<a, c>> \in B
      /\ \A a \in names : <<Start, a>> \in B
      /\ \A a \in all : <<a, a>> \notin B
      /\ names \subseteq CharNames
  BY DEF OrderOf
<1>2. n \notin all /\ n # Start
  BY NamesAreCharNames
<1> USE DEF Beginning
<1>3. \A a, b : <<a, b>> \in more <=> \/ a \in all /\ b \in all /\ <<a, b>> \in B
                                      \/ a \in cut /\ b = n
                                      \/ a = n /\ b \in all \ cut
  BY DEF Put2
<1>4. /\ \A a, b \in all : <<a, b>> \in more <=> <<a, b>> \in B
      /\ \A a \in all : (<<a, n>> \in more <=> a \in cut) /\ (<<n, a>> \in more <=> a \notin cut)
      /\ <<n, n>> \notin more
  BY <1>2, <1>3
<1>5. \A a, b \in all : a \in cut /\ b \notin cut => <<a, b>> \in B
  BY <1>1
<1>6. \A a \in names \cup {n} : <<Start, a>> \in more
  BY <1>1, <1>4
<1>7. \A a \in all \cup {n} : <<a, a>> \notin more
  BY <1>1, <1>4
<1>8. \A a, b \in all \cup {n} : <<a, b>> \in more \/ <<b, a>> \in more \/ a = b
  BY <1>1, <1>4
<1>9. ASSUME NEW a \in all \cup {n}, NEW b \in all \cup {n}, NEW c \in all \cup {n},
             <<a, b>> \in more, <<b, c>> \in more
      PROVE  <<a, c>> \in more
  <2>1. CASE a \in all /\ b \in all /\ c \in all
    BY <1>1, <1>4, <1>9, <2>1
  <2>2. CASE a = n
    <3>1. b \in all \ cut
      BY <1>4, <1>9, <2>2
    <3>2. c \in all \ cut
      BY <1>3, <1>9, <3>1, <1>2
    <3> QED BY <1>4, <2>2, <3>2
  <2>3. CASE b = n
    BY <1>2, <1>4, <1>5, <1>9, <2>3
  <2>4. CASE c = n /\ a # n /\ b # n
    BY <1>4, <1>9, <2>4
  <2> QED BY <2>1, <2>2, <2>3, <2>4
<1>10. names \cup {n} \subseteq CharNames
  BY <1>1
<1>11. (names \cup {n}) \cup {Start} = all \cup {n}
  OBVIOUS
<1>12. OrderOf(names \cup {n}, more)
  <2> HIDE DEF all
  <2> QED BY <1>6, <1>7, <1>8, <1>9, <1>10, <1>11 DEF OrderOf
<1> QED BY <1>4, <1>12

\* An order and its parents with n put in below p.
Deeper(names, par, B, p, n, more, under) ==
    /\ Tree(names \cup {n}, under, more) /\ under[n] = p
    /\ \A a \in names : under[a] = par[a]
    /\ \A a, b \in names \cup {Start} : <<a, b>> \in more <=> <<a, b>> \in B

\* A new character can be put into the order, below any character there is.
LEMMA TreeGrows ==
    ASSUME NEW names, NEW par, NEW B, Tree(names, par, B), NEW p \in names \cup {Start},
           NEW n \in CharNames, n \notin names
    PROVE  \E more, under : Deeper(names, par, B, p, n, more, under)
<1> DEFINE all == names \cup {Start}
           L == Behind(names, B, p, n)
           more == Put2(names, B, L, n)
           under == [a \in names \cup {n} |-> IF a = n THEN p ELSE par[a]]
<1>1. /\ OrderOf(names, B)
      /\ \A a \in names :
            /\ par[a] \in all /\ <<par[a], a>> \in B
            /\ \A z \in names : <<par[a], z>> \in B /\ <<z, a>> \in B => Less(a, z)
  BY DEF Tree
<1>2. /\ Start \in L /\ p \in L /\ L \subseteq all
      /\ \A a \in L, b \in all : <<b, a>> \in B => b \in L
      /\ \A z \in L \ {Start} : <<p, z>> \in B => Less(n, z)
      /\ \A y \in all \ L :
           \E z \in names \ L : <<p, z>> \in B /\ (<<z, y>> \in B \/ z = y) /\ Less(z, n)
  BY <1>1, BehindFacts
<1> HIDE DEF L
<1>3. /\ OrderOf(names \cup {n}, more)
      /\ \A a, b \in all : <<a, b>> \in more <=> <<a, b>> \in B
      /\ \A a \in all : (<<a, n>> \in more <=> a \in L) /\ (<<n, a>> \in more <=> a \notin L)
  <2>1. Beginning(names, B, L) /\ more = Put2(names, B, L, n)
    BY <1>2 DEF Beginning
  <2> HIDE DEF more
  <2>2. OrderOf(names, B)
    BY <1>1
  <2> QED BY <2>1, <2>2, PutOrder, SMTT(30)
<1> HIDE DEF more
<1>4. under[n] = p /\ \A a \in names : under[a] = par[a]
  OBVIOUS
<1> HIDE DEF under
<1>5. names \subseteq CharNames /\ Start \notin names /\ Start # n
  BY <1>1, NamesAreCharNames DEF OrderOf
<1>6. ASSUME NEW a \in names \cup {n}
      PROVE  under[a] \in (names \cup {n}) \cup {Start} /\ <<under[a], a>> \in more
  <2>1. CASE a = n
    BY <1>2, <1>3, <1>4, <2>1
  <2>2. CASE a # n
    BY <1>1, <1>3, <1>4, <2>2
  <2> QED BY <2>1, <2>2
<1>7. ASSUME NEW a \in names \cup {n}, NEW z \in names \cup {n},
             <<under[a], z>> \in more, <<z, a>> \in more
      PROVE  Less(a, z)
  <2>1. CASE a = n
    <3>1. z # n
      BY <1>3, <1>7, <2>1 DEF OrderOf
    <3>2. z \in names /\ z \in L /\ <<p, z>> \in B
      BY <1>2, <1>3, <1>4, <1>7, <2>1, <3>1
    <3> QED BY <1>2, <1>5, <2>1, <3>2
  <2>2. CASE a # n /\ z # n
    <3>1. par[a] \in all /\ <<par[a], z>> \in B /\ <<z, a>> \in B
      BY <1>1, <1>3, <1>4, <1>7, <2>2
    <3> QED BY <1>1, <2>2, <3>1
  <2>3. CASE a # n /\ z = n
    <3>1. a \in names /\ a \in all \ L /\ par[a] \in L
      BY <1>1, <1>3, <1>4, <1>7, <2>3
    <3>2. PICK w \in names \ L : <<p, w>> \in B /\ (<<w, a>> \in B \/ w = a) /\ Less(w, n)
      BY <1>2, <3>1
    <3>3. <<par[a], w>> \in B
      <4>1. <<w, par[a]>> \notin B /\ w # par[a]
        BY <1>2, <3>1, <3>2
      <4> QED BY <1>1, <1>2, <3>1, <3>2, <4>1 DEF OrderOf
    <3>4. w = a \/ Less(a, w)
      BY <1>1, <3>1, <3>2, <3>3
    <3> QED BY <1>5, <2>3, <3>1, <3>2, <3>4, LessTotal
  <2> QED BY <2>1, <2>2, <2>3
<1>8. Tree(names \cup {n}, under, more)
  BY <1>3, <1>6, <1>7 DEF Tree
<1>9. Deeper(names, par, B, p, n, more, under)
  BY <1>3, <1>4, <1>8 DEF Deeper
<1> QED BY <1>9

\* A text in the order stays in it when a character is inserted behind its
\* parent and the greater names that follow (integrateInsert).
LEMMA InsertSorted ==
    ASSUME NEW names, NEW par, NEW B, Tree(names, par, B), NEW nodes \in Texts,
           Names(nodes) \subseteq names, Sorted(nodes, par, B), NEW n \in names,
           n \notin Names(nodes), par[n] \in Names(nodes) \cup {Start}, NEW value \in Nat,
           NEW more, more = InsertAt(nodes, Skip(nodes, Place(nodes, par[n]), n) + 1, Node(n, value))
    PROVE  Sorted(more, par, B)
<1> DEFINE N == Len(nodes)
           from == Place(nodes, par[n])
           k == Skip(nodes, from, n)
           id(j) == nodes[j].id
<1>1. /\ names \subseteq CharNames /\ n \in CharNames /\ N \in Nat
      /\ \A j \in 1..N : id(j) \in Names(nodes) /\ id(j) \in names /\ id(j) # n
      /\ \A a \in Names(nodes) : \E i \in 1..N : id(i) = a
  BY DEF Tree, OrderOf, Names, Texts
<1>2. from \in 0..N /\ (par[n] # Start => from # 0 /\ id(from) = par[n]) /\ (par[n] = Start => from = 0)
  BY PlaceFacts
<1>3. /\ k \in from..N
      /\ \A j \in (from + 1)..k : Less(n, id(j))
      /\ k = N \/ ~Less(n, id(k + 1))
  BY <1>1, <1>2, SkipFacts
<1> HIDE DEF from
<1>4. /\ more \in Texts /\ Len(more) = N + 1
      /\ more[k + 1] = Node(n, value)
      /\ \A j \in 1..k : more[j] = nodes[j]
      /\ \A j \in (k + 1)..N : more[j + 1] = nodes[j]
      /\ Names(more) = Names(nodes) \cup {n}
  <2>1. more = InsertAt(nodes, k + 1, Node(n, value)) /\ k \in 0..Len(nodes)
    BY <1>1, <1>2, <1>3 DEF from
  <2>2. n \in CharNames
    BY <1>1
  <2> HIDE DEF k
  <2>3. /\ more \in Texts /\ Len(more) = Len(nodes) + 1
        /\ more[k + 1] = Node(n, value)
        /\ \A j \in 1..k : more[j] = nodes[j]
        /\ \A j \in (k + 1)..Len(nodes) : more[j + 1] = nodes[j]
        /\ Names(more) = Names(nodes) \cup {n}
    BY <2>1, <2>2, InsertFacts, SMTT(30)
  <2> QED BY <2>3
<1> HIDE DEF k
<1>5. /\ \A a \in names : <<Start, a>> \in B
      /\ \A a \in names \cup {Start} : <<a, a>> \notin B
      /\ \A a, b \in names \cup {Start} : <<a, b>> \in B \/ <<b, a>> \in B \/ a = b
      /\ \A a, b, c \in names \cup {Start} : <<a, b>> \in B /\ <<b, c>> \in B => <<a, c>> \in B
      /\ \A a \in names :
          /\ par[a] \in names \cup {Start} /\ <<par[a], a>> \in B
          /\ \A z \in names : <<par[a], z>> \in B /\ <<z, a>> \in B => Less(a, z)
  BY DEF Tree, OrderOf
<1>6. /\ \A i, j \in 1..N : i < j => <<id(i), id(j)>> \in B
      /\ \A i \in 1..N : par[id(i)] \in Names(nodes) \cup {Start}
  BY DEF Sorted
<1>7. ASSUME NEW j \in 1..N, j <= from PROVE <<id(j), n>> \in B
  <2>1. from \in 1..N /\ id(from) = par[n]
    BY <1>1, <1>2, <1>7
  <2>2. CASE j = from
    BY <1>5, <2>1, <2>2
  <2>3. CASE j # from
    <3>1. <<id(j), id(from)>> \in B /\ <<id(from), n>> \in B
      BY <1>5, <1>6, <1>7, <2>1, <2>3
    <3> QED BY <1>1, <1>5, <2>1, <3>1
  <2> QED BY <2>2, <2>3
<1>8. \A j \in (from + 1)..k : <<id(j), n>> \in B
  <2> DEFINE T == {j \in (from + 1)..k : <<n, id(j)>> \in B}
  <2>1. \A j \in (from + 1)..k : j \in 1..N
    BY <1>1, <1>2, <1>3
  <2>2. ASSUME T # {} PROVE FALSE
    <3>1. T \in SUBSET Nat
      BY <1>2, <1>3
    <3>2. PICK j \in T : \A i \in T : j <= i
      BY <2>2, <3>1, Least
    <3>3. j \in (from + 1)..k /\ <<n, id(j)>> \in B /\ j \in 1..N
      BY <2>1
    <3>4. par[id(j)] \in Names(nodes) \cup {Start} /\ <<par[id(j)], id(j)>> \in B
      BY <1>1, <1>5, <1>6, <3>3
    <3>5. <<par[id(j)], n>> \in B
      <4>1. CASE par[id(j)] = Start
        BY <1>5, <4>1
      <4>2. CASE par[id(j)] \in Names(nodes)
        <5>1. PICK i \in 1..N : id(i) = par[id(j)]
          BY <1>1, <4>2
        <5>2. i < j
          <6>1. <<id(i), id(j)>> \in B /\ id(i) \in names /\ id(j) \in names
            BY <1>1, <3>3, <3>4, <5>1
          <6>2. <<id(j), id(i)>> \notin B /\ id(i) # id(j)
            <7> HIDE DEF id
            <7> QED BY <1>5, <6>1
          <6>3. ~(j < i) /\ i # j
            BY <1>6, <3>3, <6>2
          <6> QED BY <1>1, <3>3, <6>3
        <5>3. CASE i <= from
          BY <1>7, <5>1, <5>3
        <5>4. CASE ~(i <= from)
          <6>1. i \in (from + 1)..k /\ i \notin T
            BY <1>1, <1>2, <1>3, <3>2, <3>3, <5>2, <5>4
          <6> QED BY <1>1, <1>5, <5>1, <6>1
        <5> QED BY <5>3, <5>4
      <4> QED BY <3>4, <4>1, <4>2
    <3>6. Less(id(j), n)
      BY <1>1, <1>5, <3>3, <3>5
    <3> QED BY <1>1, <1>3, <3>3, <3>6, LessTotal
  <2> QED BY <1>1, <1>5, <2>1, <2>2
<1>9. \A j \in (k + 1)..N : <<n, id(j)>> \in B
  <2>1. CASE k = N
    BY <1>1, <1>3, <2>1
  <2>2. CASE k # N
    <3>1. k + 1 \in 1..N /\ ~Less(n, id(k + 1))
      BY <1>1, <1>2, <1>3, <2>2
    <3>2. <<par[n], id(k + 1)>> \in B
      <4>1. CASE par[n] = Start
        BY <1>1, <1>5, <3>1, <4>1
      <4>2. CASE par[n] # Start
        BY <1>1, <1>2, <1>3, <1>6, <3>1, <4>2
      <4> QED BY <4>1, <4>2
    <3>3. <<n, id(k + 1)>> \in B
      <4> DEFINE z == id(k + 1)
      <4>1. z \in names /\ z # n /\ ~Less(n, z) /\ <<par[n], z>> \in B
        BY <1>1, <3>1, <3>2
      <4> HIDE DEF z
      <4>2. <<z, n>> \notin B
        BY <1>5, <4>1
      <4>3. <<n, z>> \in B
        BY <1>5, <4>1, <4>2
      <4> QED BY <4>3 DEF z
    <3>4. ASSUME NEW j \in (k + 1)..N PROVE j = k + 1 \/ <<id(k + 1), id(j)>> \in B
      BY <1>1, <1>2, <1>3, <1>6, <3>1
    <3>5. \A j \in (k + 1)..N : j \in 1..N
      BY <1>1, <1>2, <1>3
    <3>6. id(k + 1) \in names /\ \A j \in (k + 1)..N : id(j) \in names
      BY <1>1, <3>1, <3>5
    <3> HIDE DEF id
    <3> QED BY <1>5, <3>3, <3>4, <3>6
  <2> QED BY <2>1, <2>2
<1>10. ASSUME NEW i \in 1..Len(more), NEW j \in 1..Len(more), i < j
       PROVE  <<more[i].id, more[j].id>> \in B
  <2>1. k \in 0..N /\ N \in Nat
    BY <1>1, <1>2, <1>3
  <2>2. more[k + 1].id = n
    BY <1>4 DEF Node
  <2>3. \A l \in (k + 2)..(N + 1) : more[l] = nodes[l - 1] /\ l - 1 \in (k + 1)..N
    BY <1>4, <2>1
  <2>4. CASE j <= k
    <3>1. i \in 1..k /\ j \in 1..k /\ i \in 1..N /\ j \in 1..N
      BY <1>10, <2>1, <2>4
    <3>2. <<id(i), id(j)>> \in B
      BY <1>6, <1>10, <3>1
    <3> QED BY <1>4, <3>1, <3>2
  <2>5. CASE j = k + 1
    <3>1. i \in 1..k /\ i \in 1..N
      BY <1>10, <2>1, <2>5
    <3>2. <<id(i), n>> \in B
      BY <1>2, <1>7, <1>8, <2>1, <3>1
    <3> QED BY <1>4, <2>2, <2>5, <3>1, <3>2
  <2>6. CASE j > k + 1
    <3>1. j \in (k + 2)..(N + 1) /\ more[j] = nodes[j - 1] /\ j - 1 \in (k + 1)..N
      BY <1>4, <2>1, <2>3, <2>6
    <3>2. CASE i <= k
      <4>1. i \in 1..k /\ i \in 1..N /\ j - 1 \in 1..N /\ i < j - 1
        BY <1>10, <2>1, <3>1, <3>2
      <4>2. <<id(i), id(j - 1)>> \in B
        BY <1>6, <4>1
      <4> QED BY <1>4, <3>1, <4>1, <4>2
    <3>3. CASE i = k + 1
      BY <1>9, <2>2, <3>1, <3>3
    <3>4. CASE i > k + 1
      <4>1. more[i] = nodes[i - 1] /\ i - 1 \in 1..N /\ j - 1 \in 1..N /\ i - 1 < j - 1
        BY <1>4, <1>10, <2>1, <2>3, <3>1, <3>4
      <4> QED BY <1>6, <3>1, <4>1
    <3> QED BY <2>1, <3>2, <3>3, <3>4
  <2> QED BY <2>1, <2>4, <2>5, <2>6
<1>11. ASSUME NEW i \in 1..Len(more) PROVE par[more[i].id] \in Names(more) \cup {Start}
  <2>1. more[i].id \in Names(more)
    BY <1>4 DEF Names, Texts
  <2>2. CASE more[i].id = n
    BY <1>4, <2>2
  <2>3. CASE more[i].id \in Names(nodes)
    BY <1>1, <1>4, <1>6, <2>3
  <2> QED BY <1>4, <2>1, <2>2, <2>3
<1> QED BY <1>10, <1>11 DEF Sorted

\* A name given to two characters, one among chars and one among others.
Clash(chars, others) == \E c \in chars, d \in others : c[1] = d[1] /\ c # d

\* More characters clash all the more.
LEMMA ClashMore ==
    ASSUME NEW chars, NEW others, Clash(chars, others), NEW more, chars \subseteq more,
           NEW yet, others \subseteq yet
    PROVE  Clash(more, yet)
BY DEF Clash

\* A text that has its part of the order, unless it has a name that another
\* character has as well.
Drawn(nodes, names, par, B, others) ==
    /\ nodes \in Texts /\ Names(nodes) \subseteq names
    /\ Clash(Chars(nodes), others) \/ Sorted(nodes, par, B)

\* An operation that inserts below the parent of what it inserts, with the same exception.
Known(op, names, par, max, others) ==
    /\ op \in OpRecords /\ Named(op) \subseteq names
    /\ IsInsert(op) => /\ op.text[1] <= max
                       /\ Clash(Written(op), others) \/ par[op.id] = op.after

\* Placing an operation keeps a text in the order.
LEMMA DrawnStep ==
    ASSUME NEW names, NEW par, NEW B, NEW max, NEW others, Tree(names, par, B),
           NEW nodes, Drawn(nodes, names, par, B, others),
           NEW op, Known(op, names, par, max, others), Ready(nodes, op)
    PROVE  Drawn(Integrate(nodes, op), names, par, B, others)
<1> DEFINE more == Integrate(nodes, op)
<1>1. /\ nodes \in Texts /\ Names(nodes) \subseteq names /\ op \in OpRecords
      /\ Named(op) \subseteq names
      /\ Clash(Chars(nodes), others) \/ Sorted(nodes, par, B)
  BY DEF Drawn, Known
<1>2. /\ more \in Texts /\ Names(more) = Names(nodes) \cup Named(op)
      /\ Chars(nodes) \subseteq Chars(more)
  BY <1>1, IntegrateFacts
<1>3. CASE Clash(Chars(nodes), others)
  BY <1>1, <1>2, <1>3, ClashMore DEF Drawn
<1>4. CASE ~IsInsert(op) /\ Sorted(nodes, par, B)
  <2>1. more = IntegrateDelete(nodes, op)
    BY <1>4 DEF Integrate
  <2>2. /\ Len(more) = Len(nodes) /\ Names(more) = Names(nodes)
        /\ \A i \in 1..Len(nodes) : more[i].id = nodes[i].id
    BY <1>1, <2>1, DeleteFacts
  <2> HIDE DEF more
  <2>3. Sorted(more, par, B)
    BY <1>4, <2>2 DEF Sorted
  <2> QED BY <1>1, <1>2, <2>3 DEF Drawn, more
<1>5. CASE IsInsert(op) /\ Sorted(nodes, par, B)
  <2>1. /\ op.id \in CharNames /\ op.text[1] \in Nat
        /\ Named(op) = {op.id} /\ Written(op) = {<<op.id, op.text[1]>>}
        /\ op.after \in Names(nodes) \cup {Start}
    BY <1>1, <1>5, NamedFacts DEF Ready, Needs
  <2>2. more = IF op.id \in Names(nodes) THEN nodes
               ELSE InsertAt(nodes, Skip(nodes, Place(nodes, op.after), op.id) + 1,
                             Node(op.id, op.text[1]))
    BY <1>1, <1>5, InsertOne DEF Integrate
  <2>3. CASE op.id \in Names(nodes)
    BY <1>1, <1>5, <2>2, <2>3 DEF Drawn
  <2>4. CASE op.id \notin Names(nodes) /\ par[op.id] = op.after
    <3>1. more = InsertAt(nodes, Skip(nodes, Place(nodes, par[op.id]), op.id) + 1,
                          Node(op.id, op.text[1]))
      BY <2>2, <2>4
    <3> HIDE DEF more
    <3>2. op.id \in names /\ par[op.id] \in Names(nodes) \cup {Start}
      BY <1>1, <2>1, <2>4
    <3>3. Sorted(more, par, B)
      BY <1>1, <1>5, <2>1, <2>4, <3>1, <3>2, InsertSorted
    <3> QED BY <1>1, <1>2, <3>3 DEF Drawn, more
  <2>5. CASE op.id \notin Names(nodes) /\ Clash(Written(op), others)
    <3> DEFINE k == Skip(nodes, Place(nodes, op.after), op.id)
    <3>1. k \in 0..Len(nodes)
      <4>1. Place(nodes, op.after) \in 0..Len(nodes)
        BY <1>1, <2>1, PlaceFacts
      <4>2. k \in Place(nodes, op.after)..Len(nodes)
        BY <1>1, <2>1, <4>1, SkipFacts
      <4> QED BY <1>1, <4>1, <4>2 DEF Texts
    <3>2. more = InsertAt(nodes, k + 1, Node(op.id, op.text[1]))
      BY <2>2, <2>5
    <3> HIDE DEF k, more
    <3>3. Chars(more) = Chars(nodes) \cup {<<op.id, op.text[1]>>}
      BY <1>1, <2>1, <3>1, <3>2, InsertFacts, SMTT(30)
    <3>4. Clash(Chars(more), others)
      BY <2>1, <2>5, <3>3, ClashMore
    <3> QED BY <1>1, <1>2, <3>4 DEF Drawn, more
  <2>6. par[op.id] = op.after \/ Clash(Written(op), others)
    BY <1>5 DEF Known
  <2> QED BY <2>3, <2>4, <2>5, <2>6
<1> QED BY <1>1, <1>3, <1>4, <1>5

\* Known operations keep a text drawn, whichever of them are placed and when.
LEMMA DrawnKeeps ==
    ASSUME NEW names, NEW par, NEW B, NEW max, NEW others, Tree(names, par, B)
    PROVE  \E P : /\ Kept(P)
                  /\ \A nodes, hand : <<nodes, hand>> \in P <=>
                        /\ Drawn(nodes, names, par, B, others)
                        /\ \A op \in hand : Known(op, names, par, max, others)
<1> DEFINE In(nodes, hand) == /\ Drawn(nodes, names, par, B, others)
                              /\ \A op \in hand : Known(op, names, par, max, others)
           P == {pair \in Texts \X SUBSET OpRecords : In(pair[1], pair[2])}
<1>1. \A nodes, hand : <<nodes, hand>> \in P <=> In(nodes, hand)
  <2> SUFFICES ASSUME NEW nodes, NEW hand, In(nodes, hand)
               PROVE  nodes \in Texts /\ hand \in SUBSET OpRecords
    OBVIOUS
  <2> QED BY DEF Drawn, Known
<1>2. ASSUME NEW nodes, NEW hand, NEW op, In(nodes, hand), op \in hand, Ready(nodes, op)
      PROVE  In(Integrate(nodes, op), hand) /\ In(Integrate(nodes, op), hand \ {op})
  <2>1. Drawn(Integrate(nodes, op), names, par, B, others)
    BY <1>2, DrawnStep
  <2> QED BY <1>2, <2>1
<1>3. \E Q : Kept(Q) /\ \A nodes, hand : <<nodes, hand>> \in Q <=> In(nodes, hand)
  <2> HIDE DEF P, In
  <2>1. Kept(P)
    BY <1>1, <1>2 DEF Kept
  <2> QED BY <1>1, <2>1
<1> QED BY <1>3

\* So does a run of operations.
LEMMA DrawnApply ==
    ASSUME NEW names, NEW par, NEW B, NEW max, NEW others, Tree(names, par, B),
           NEW doc \in DocRecords, Drawn(doc.nodes, names, par, B, others),
           NEW ops \in Seq(OpRecords),
           \A op \in Range(doc.held) \cup Range(ops) : Known(op, names, par, max, others)
    PROVE  /\ Drawn(ApplyAll(doc, ops).nodes, names, par, B, others)
           /\ \A op \in Range(ApplyAll(doc, ops).held) : Known(op, names, par, max, others)
<1>1. PICK P : /\ Kept(P)
               /\ \A nodes, hand : <<nodes, hand>> \in P <=>
                     /\ Drawn(nodes, names, par, B, others)
                     /\ \A op \in hand : Known(op, names, par, max, others)
  BY DrawnKeeps
<1>2. <<doc.nodes, Range(doc.held) \cup Range(ops) \cup {}>> \in P
  BY <1>1
<1>3. <<ApplyAll(doc, ops).nodes, Range(ApplyAll(doc, ops).held) \cup {}>> \in P
  BY <1>1, <1>2, ApplyAllKeeps
<1> QED BY <1>1, <1>3

\* So does a run of writes.
LEMMA DrawnCatchUp ==
    ASSUME NEW names, NEW par, NEW B, NEW max, NEW others, Tree(names, par, B),
           NEW doc \in DocRecords, Drawn(doc.nodes, names, par, B, others),
           NEW told \in Seq(Changes),
           \A op \in Range(doc.held) \cup Told(told) : Known(op, names, par, max, others)
    PROVE  /\ Drawn(CatchUp(doc, told).nodes, names, par, B, others)
           /\ \A op \in Range(CatchUp(doc, told).held) : Known(op, names, par, max, others)
<1>1. PICK P : /\ Kept(P)
               /\ \A nodes, hand : <<nodes, hand>> \in P <=>
                     /\ Drawn(nodes, names, par, B, others)
                     /\ \A op \in hand : Known(op, names, par, max, others)
  BY DrawnKeeps
<1>2. <<doc.nodes, Range(doc.held) \cup Told(told)>> \in P
  BY <1>1
<1>3. <<CatchUp(doc, told).nodes, Range(CatchUp(doc, told).held)>> \in P
  BY <1>1, <1>2, CatchUpKeeps
<1> QED BY <1>1, <1>3

-----------------------------------------------------------------------------
(* One order for a set of texts and operations.                            *)

\* The texts docs, of which nodes is the canvas's, and the operations ops are
\* in one order of all names; no value is above max.
OrderedBy(par, B, names, nodes, docs, ops, max) ==
    /\ Tree(names, par, B) /\ nodes \in docs /\ max \in Nat
    /\ \A d \in docs : Drawn(d, names, par, B, Chars(nodes))
    /\ \A op \in ops : Known(op, names, par, max, Chars(nodes))
    /\ \A c \in Chars(nodes) : c[2] <= max

Ordered(names, nodes, docs, ops, max) ==
    \E par, B : OrderedBy(par, B, names, nodes, docs, ops, max)

\* Fewer texts and operations are ordered as well.
LEMMA OrderFewer ==
    ASSUME NEW names, NEW nodes, NEW docs, NEW ops, NEW max, Ordered(names, nodes, docs, ops, max),
           NEW less, less \subseteq docs, nodes \in less, NEW fewer, fewer \subseteq ops
    PROVE  Ordered(names, nodes, less, fewer, max)
<1>1. PICK par, B : OrderedBy(par, B, names, nodes, docs, ops, max)
  BY DEF Ordered
<1>2. OrderedBy(par, B, names, nodes, less, fewer, max)
  BY <1>1 DEF OrderedBy
<1> QED BY <1>2 DEF Ordered

\* What is ordered is well typed.
LEMMA OrderFacts ==
    ASSUME NEW names, NEW nodes, NEW docs, NEW ops, NEW max, Ordered(names, nodes, docs, ops, max)
    PROVE  /\ names \subseteq CharNames /\ nodes \in docs /\ max \in Nat
           /\ \A d \in docs : d \in Texts /\ Names(d) \subseteq names
           /\ \A op \in ops : op \in OpRecords /\ Named(op) \subseteq names
BY DEF Ordered, OrderedBy, Tree, OrderOf, Drawn, Known

\* Operations applied to a replica.
LEMMA OrderApply ==
    ASSUME NEW names, NEW nodes, NEW docs, NEW ops, NEW max, Ordered(names, nodes, docs, ops, max),
           NEW doc \in DocRecords, doc.nodes \in docs, Range(doc.held) \subseteq ops,
           NEW todo \in Seq(OpRecords), Range(todo) \subseteq ops
    PROVE  Ordered(names, nodes, docs \cup {ApplyAll(doc, todo).nodes},
                   ops \cup Range(ApplyAll(doc, todo).held), max)
<1>1. PICK par, B : OrderedBy(par, B, names, nodes, docs, ops, max)
  BY DEF Ordered
<1> DEFINE new == ApplyAll(doc, todo)
<1>2. /\ Drawn(new.nodes, names, par, B, Chars(nodes))
      /\ \A op \in Range(new.held) : Known(op, names, par, max, Chars(nodes))
  <2>1. /\ Tree(names, par, B) /\ Drawn(doc.nodes, names, par, B, Chars(nodes))
        /\ \A op \in Range(doc.held) \cup Range(todo) : Known(op, names, par, max, Chars(nodes))
    BY <1>1 DEF OrderedBy
  <2> QED BY <2>1, DrawnApply
<1> HIDE DEF new
<1>3. OrderedBy(par, B, names, nodes, docs \cup {new.nodes}, ops \cup Range(new.held), max)
  BY <1>1, <1>2 DEF OrderedBy
<1> QED BY <1>3 DEF Ordered, new

\* So is what a run of writes leaves.
LEMMA OrderCatchUp ==
    ASSUME NEW names, NEW nodes, NEW docs, NEW ops, NEW max, Ordered(names, nodes, docs, ops, max),
           NEW doc \in DocRecords, doc.nodes \in docs, Range(doc.held) \subseteq ops,
           NEW told \in Seq(Changes), Told(told) \subseteq ops
    PROVE  Ordered(names, nodes, docs \cup {CatchUp(doc, told).nodes},
                   ops \cup Range(CatchUp(doc, told).held), max)
<1>1. PICK par, B : OrderedBy(par, B, names, nodes, docs, ops, max)
  BY DEF Ordered
<1> DEFINE new == CatchUp(doc, told)
<1>2. /\ Drawn(new.nodes, names, par, B, Chars(nodes))
      /\ \A op \in Range(new.held) : Known(op, names, par, max, Chars(nodes))
  <2>1. /\ Tree(names, par, B) /\ Drawn(doc.nodes, names, par, B, Chars(nodes))
        /\ \A op \in Range(doc.held) \cup Told(told) : Known(op, names, par, max, Chars(nodes))
    BY <1>1 DEF OrderedBy
  <2> QED BY <2>1, DrawnCatchUp
<1> HIDE DEF new
<1>3. OrderedBy(par, B, names, nodes, docs \cup {new.nodes}, ops \cup Range(new.held), max)
  BY <1>1, <1>2 DEF OrderedBy
<1> QED BY <1>3 DEF Ordered, new

\* No name of a text is another character's in a part of it.
LEMMA NoClashWithin ==
    ASSUME NEW nodes \in Texts, Distinct(nodes), NEW chars, chars \subseteq Chars(nodes)
    PROVE  ~Clash(Chars(nodes), chars)
<1> SUFFICES ASSUME NEW c \in Chars(nodes), NEW d \in Chars(nodes), c[1] = d[1], c # d PROVE FALSE
  BY DEF Clash
<1>1. PICK i \in DOMAIN nodes : c = <<nodes[i].id, nodes[i].value>>
  BY DEF Chars
<1>2. PICK j \in DOMAIN nodes : d = <<nodes[j].id, nodes[j].value>>
  BY DEF Chars
<1> QED BY <1>1, <1>2 DEF Distinct

\* Operations written to the canvas: all texts are now held against the new one.
LEMMA OrderWritten ==
    ASSUME NEW names, NEW nodes, NEW docs, NEW ops, NEW max, Ordered(names, nodes, docs, ops, max),
           Distinct(nodes), NEW todo \in Seq(OpRecords), Range(todo) \subseteq ops,
           NEW more, more = ApplyAll(Load(nodes), todo).nodes
    PROVE  Ordered(names, more, docs \cup {more}, ops, max)
<1>1. PICK par, B : OrderedBy(par, B, names, nodes, docs, ops, max)
  BY DEF Ordered
<1>2. /\ Tree(names, par, B) /\ nodes \in docs /\ max \in Nat
      /\ \A d \in docs : Drawn(d, names, par, B, Chars(nodes))
      /\ \A op \in ops : Known(op, names, par, max, Chars(nodes))
      /\ \A c \in Chars(nodes) : c[2] <= max
  BY <1>1 DEF OrderedBy
<1>3. Load(nodes) \in DocRecords /\ Load(nodes).nodes = nodes /\ Range(Load(nodes).held) = {}
  <2>1. nodes \in Texts
    BY <1>2 DEF Drawn
  <2>2. Load(nodes).held = <<>> /\ Range(<<>>) = {}
    BY DEF Load, Range
  <2> QED BY <2>1, <2>2 DEF Load, DocRecords
<1>4. Drawn(more, names, par, B, Chars(nodes))
  <2>1. \A op \in Range(Load(nodes).held) \cup Range(todo) : Known(op, names, par, max, Chars(nodes))
    BY <1>2, <1>3
  <2>2. Drawn(Load(nodes).nodes, names, par, B, Chars(nodes))
    BY <1>2, <1>3
  <2> QED BY <1>2, <1>3, <2>1, <2>2, DrawnApply
<1>5. /\ more \in Texts /\ Distinct(more)
      /\ Chars(nodes) \subseteq Chars(more)
      /\ Chars(more) \subseteq Chars(nodes) \cup Spelt(Range(todo))
  <2>1. Grown(nodes, Range(Load(nodes).held) \cup Range(todo), more,
              Range(ApplyAll(Load(nodes), todo).held))
    BY <1>3, ApplyAllGrows
  <2>2. Range(Load(nodes).held) \cup Range(todo) = Range(todo)
    BY <1>3
  <2> QED BY <2>1, <2>2 DEF Grown
<1>6. Sorted(more, par, B) /\ Names(more) \subseteq names
  BY <1>4, <1>5, NoClashWithin DEF Drawn
<1>7. ASSUME NEW d \in docs PROVE Drawn(d, names, par, B, Chars(more))
  BY <1>2, <1>5, ClashMore DEF Drawn
<1>8. Drawn(more, names, par, B, Chars(more))
  BY <1>5, <1>6 DEF Drawn
<1>9. ASSUME NEW op \in ops PROVE Known(op, names, par, max, Chars(more))
  BY <1>2, <1>5, ClashMore DEF Known
<1>10. ASSUME NEW c \in Chars(more) PROVE c[2] <= max
  <2>1. CASE c \in Chars(nodes)
    BY <1>2, <2>1
  <2>2. CASE c \in Spelt(Range(todo))
    <3>1. PICK op \in Range(todo) : c \in Written(op)
      BY <2>2 DEF Spelt
    <3>2. Known(op, names, par, max, Chars(nodes)) /\ op \in OpRecords
      BY <1>2, <3>1 DEF Known
    <3>3. IsInsert(op) /\ c = <<op.id, op.text[1]>>
      BY <3>1, <3>2, NamedFacts
    <3> QED BY <3>2, <3>3 DEF Known
  <2> QED BY <1>5, <2>1, <2>2
<1>11. OrderedBy(par, B, names, more, docs \cup {more}, ops, max)
  BY <1>2, <1>7, <1>8, <1>9, <1>10 DEF OrderedBy
<1> QED BY <1>11 DEF Ordered

\* A text in the order is in every order that agrees with it on the names there were.
LEMMA DrawnAgain ==
    ASSUME NEW names, NEW par, NEW B, NEW others, NEW nodes, Drawn(nodes, names, par, B, others),
           NEW more, names \subseteq more, NEW under, NEW C,
           \A a \in names : under[a] = par[a],
           \A a, b \in names : <<a, b>> \in B => <<a, b>> \in C
    PROVE  Drawn(nodes, more, under, C, others)
<1>1. nodes \in Texts /\ Names(nodes) \subseteq names /\ \A i \in 1..Len(nodes) : nodes[i].id \in names
  BY DEF Drawn, Names, Texts
<1>2. Sorted(nodes, par, B) => Sorted(nodes, under, C)
  BY <1>1 DEF Sorted
<1> QED BY <1>1, <1>2 DEF Drawn

\* A new edit takes its place in the order.  When its writer no longer knew a
\* name of its own and gives it again, the canvas has another character of that name.
LEMMA OrderEdit ==
    ASSUME NEW names, NEW nodes, NEW docs, NEW ops, NEW max, Ordered(names, nodes, docs, ops, max),
           NEW d, d \in docs, NEW todo, NEW writer, NEW prefix, NEW removed, NEW inserted,
           EditOf(todo, d, writer, prefix, removed, inserted, max + 1),
           \A op \in Range(todo) : IsInsert(op) /\ op.id \in names => op.id \in Names(nodes)
    PROVE  Ordered(names \cup Given(Range(todo)), nodes, docs, ops \cup Range(todo), max + 1)
<1>1. PICK par, B : OrderedBy(par, B, names, nodes, docs, ops, max)
  BY DEF Ordered
<1>2. /\ Tree(names, par, B) /\ nodes \in docs /\ max \in Nat
      /\ \A e \in docs : Drawn(e, names, par, B, Chars(nodes))
      /\ \A op \in ops : Known(op, names, par, max, Chars(nodes))
      /\ \A c \in Chars(nodes) : c[2] <= max
  BY <1>1 DEF OrderedBy
<1>3. /\ todo \in Seq(OpRecords)
      /\ \A op \in Range(todo) :
            /\ op \in OpRecords /\ Fits(op, Names(d))
            /\ IsInsert(op) => op.id \in CharNames /\ op.text = <<max + 1>>
      /\ \A op, other \in Range(todo) : IsInsert(op) /\ IsInsert(other) => op = other
  <2>1. todo \in Seq(OpRecords)
    BY ReplaceFacts
  <2>2. \A op \in Range(todo) : op \in OpRecords
    BY <2>1 DEF Range
  <2> QED BY <2>1, <2>2, ReplaceFacts
<1>4. \A e \in docs : e \in Texts /\ Names(e) \subseteq names
  BY <1>2 DEF Drawn
<1>5. ASSUME NEW c \in Chars(nodes) PROVE c[2] \in Nat /\ c[2] <= max /\ c[2] <= max + 1
  <2>1. PICK i \in DOMAIN nodes : c = <<nodes[i].id, nodes[i].value>>
    BY DEF Chars
  <2>2. nodes[i] \in NodeRecords
    BY <1>2, <1>4 DEF Texts
  <2> QED BY <1>2, <2>1, <2>2 DEF NodeRecords
<1>6. ASSUME NEW op \in ops, NEW more, names \subseteq more, NEW under, \A a \in names : under[a] = par[a]
      PROVE  Known(op, more, under, max + 1, Chars(nodes))
  <2>1. Known(op, names, par, max, Chars(nodes)) /\ op \in OpRecords /\ Named(op) \subseteq names
    BY <1>2 DEF Known
  <2>2. IsInsert(op) => op.id \in names /\ op.text[1] \in Nat
    BY <2>1, NamedFacts
  <2> QED BY <1>2, <1>6, <2>1, <2>2 DEF Known
<1>7. CASE \A op \in Range(todo) : IsInsert(op) => op.id \in names
  <2>1. ASSUME NEW op \in Range(todo)
        PROVE  Known(op, names, par, max + 1, Chars(nodes)) /\ Named(op) \subseteq names
    <3>1. CASE ~IsInsert(op)
      <4>1. op \in OpRecords /\ Named(op) = {}
        BY <1>3, <3>1, NamedFacts
      <4> QED BY <3>1, <4>1 DEF Known
    <3>2. CASE IsInsert(op)
      <4>1. /\ op \in OpRecords /\ op.id \in Names(nodes) /\ op.id \in names
            /\ op.text[1] = max + 1
            /\ Named(op) = {op.id} /\ Written(op) = {<<op.id, max + 1>>}
        BY <1>3, <1>7, <3>2, NamedFacts
      <4>2. PICK c \in Chars(nodes) : c[1] = op.id
        <5>1. PICK i \in DOMAIN nodes : nodes[i].id = op.id
          BY <4>1 DEF Names
        <5>2. <<nodes[i].id, nodes[i].value>> \in Chars(nodes)
          BY DEF Chars
        <5> QED BY <5>1, <5>2
      <4>3. c # <<op.id, max + 1>>
        BY <1>2, <1>5
      <4>4. Clash(Written(op), Chars(nodes))
        BY <4>1, <4>2, <4>3 DEF Clash
      <4> QED BY <1>2, <4>1, <4>4 DEF Known
    <3> QED BY <3>1, <3>2
  <2>2. names \cup Given(Range(todo)) = names
    BY <2>1 DEF Given
  <2>3. \A op \in ops \cup Range(todo) : Known(op, names, par, max + 1, Chars(nodes))
    BY <1>6, <2>1
  <2>4. OrderedBy(par, B, names, nodes, docs, ops \cup Range(todo), max + 1)
    BY <1>2, <1>5, <2>3 DEF OrderedBy
  <2> QED BY <2>2, <2>4 DEF Ordered
<1>8. ASSUME NEW new \in Range(todo), IsInsert(new), new.id \notin names
      PROVE  Ordered(names \cup Given(Range(todo)), nodes, docs, ops \cup Range(todo), max + 1)
  <2>1. /\ new \in OpRecords /\ new.id \in CharNames /\ new.text[1] = max + 1
        /\ Named(new) = {new.id} /\ Written(new) = {<<new.id, max + 1>>}
    BY <1>3, <1>8, NamedFacts
  <2>2. new.after \in names \cup {Start}
    <3>1. Needs(new) \subseteq Names(d)
      BY <1>3 DEF Fits
    <3> QED BY <1>4, <1>8, <3>1 DEF Needs
  <2>3. \A op \in Range(todo) : op = new \/ (op \in OpRecords /\ ~IsInsert(op) /\ Named(op) = {})
    BY <1>3, <1>8, NamedFacts
  <2>4. Given(Range(todo)) = {new.id}
    BY <2>1, <2>3 DEF Given
  <2>5. PICK C, under :
           /\ Tree(names \cup {new.id}, under, C) /\ under[new.id] = new.after
           /\ \A a \in names : under[a] = par[a]
           /\ \A a, b \in names \cup {Start} : <<a, b>> \in C <=> <<a, b>> \in B
    <3>1. \E C, under : Deeper(names, par, B, new.after, new.id, C, under)
      <4>1. Tree(names, par, B) /\ new.id \in CharNames /\ new.id \notin names
        BY <1>2, <1>8, <2>1
      <4> QED BY <2>2, <4>1, TreeGrows
    <3> QED BY <3>1, Zenon DEF Deeper
  <2> DEFINE all == names \cup {new.id}
  <2>6. \A e \in docs : Drawn(e, all, under, C, Chars(nodes))
    BY <1>2, <2>5, DrawnAgain
  <2>7. ASSUME NEW op \in ops \cup Range(todo) PROVE Known(op, all, under, max + 1, Chars(nodes))
    <3>1. CASE op \in ops
      BY <1>6, <2>5, <3>1
    <3>2. CASE op = new
      BY <1>2, <2>1, <2>5, <3>2 DEF Known
    <3>3. CASE op \in OpRecords /\ ~IsInsert(op) /\ Named(op) = {}
      BY <3>3 DEF Known
    <3> QED BY <2>3, <3>1, <3>2, <3>3
  <2>8. OrderedBy(under, C, all, nodes, docs, ops \cup Range(todo), max + 1)
    <3>1. /\ Tree(all, under, C) /\ nodes \in docs /\ max + 1 \in Nat
          /\ \A c \in Chars(nodes) : c[2] <= max + 1
      BY <1>2, <1>5, <2>5
    <3> HIDE DEF all
    <3> QED BY <2>6, <2>7, <3>1, Zenon DEF OrderedBy
  <2> QED BY <2>4, <2>8 DEF Ordered
<1> QED BY <1>7, <1>8

-----------------------------------------------------------------------------
(* The order of a state.                                                   *)

\* The names of the canvas's characters and of those that are queued for it.
Alive == Names(text) \cup (UNION {Given(Range(page[p].queue)) : p \in Pages})

\* Every replica, and what pages fetched.
Docs == {text} \cup {page[p].doc.nodes : p \in Pages} \cup {page[p].got : p \in Pages}

\* The operations a page has in hand.
Carried(pg) == Range(pg.queue) \cup Range(pg.doc.held) \cup Told(pg.buffer)

\* Every operation that somebody may still apply.
Moving ==
    Told(journal) \cup (UNION {Range(ops) : ops \in strays})
    \cup (UNION {Carried(page[p]) : p \in Pages})

OrderInv == Ordered(Alive, text, Docs, Moving, edits)

\* Two texts in one order agree on what they share.
LEMMA SortedAgree ==
    ASSUME NEW names, NEW par, NEW B, OrderOf(names, B),
           NEW one \in Texts, NEW other \in Texts, Names(one) \subseteq names,
           Sorted(one, par, B), Sorted(other, par, B)
    PROVE  Agree(one, other)
<1> SUFFICES ASSUME NEW i \in DOMAIN one, NEW j \in DOMAIN one,
                    NEW k \in DOMAIN other, NEW l \in DOMAIN other,
                    i < j, one[i].id = other[k].id, one[j].id = other[l].id
             PROVE  k < l
  BY DEF Agree
<1>1. /\ i \in 1..Len(one) /\ j \in 1..Len(one) /\ k \in 1..Len(other) /\ l \in 1..Len(other)
      /\ Len(one) \in Nat /\ Len(other) \in Nat
  BY DEF Texts
<1>2. one[i].id \in names /\ one[j].id \in names
  BY DEF Names
<1>3. <<one[i].id, one[j].id>> \in B
  BY <1>1 DEF Sorted
<1>4. one[i].id # one[j].id /\ <<one[j].id, one[i].id>> \notin B
  <2>1. <<one[i].id, one[i].id>> \notin B
    BY <1>2 DEF OrderOf
  <2>2. <<one[i].id, one[j].id>> \in B /\ <<one[j].id, one[i].id>> \in B
           => <<one[i].id, one[i].id>> \in B
    BY <1>2 DEF OrderOf
  <2> QED BY <1>3, <2>1, <2>2
<1>5. k # l
  BY <1>4
<1>6. ~(l < k)
  <2> SUFFICES ASSUME l < k PROVE FALSE
    OBVIOUS
  <2>1. <<other[l].id, other[k].id>> \in B
    BY <1>1 DEF Sorted
  <2> QED BY <1>4, <2>1
<1> QED BY <1>1, <1>5, <1>6

\* OrdersAgree follows: without a name for two characters every text is sorted.
LEMMA OrderInvAgrees == Inv /\ OrderInv => OrdersAgree
<1> SUFFICES ASSUME Inv, OrderInv, ~Reused, NEW one \in Replicas, NEW other \in Replicas
             PROVE  Agree(one, other)
  BY DEF OrdersAgree
<1>1. PICK par, B : OrderedBy(par, B, Alive, text, Docs, Moving, edits)
  BY DEF OrderInv, Ordered
<1>2. ASSUME NEW d \in Replicas
      PROVE  d \in Texts /\ Names(d) \subseteq Alive /\ Sorted(d, par, B)
  <2>1. Drawn(d, Alive, par, B, Chars(text))
    BY <1>1 DEF Replicas, Docs, OrderedBy
  <2>2. Chars(d) \subseteq Everywhere /\ Chars(text) \subseteq Everywhere
    BY DEF Replicas, Everywhere
  <2>3. ~Clash(Chars(d), Chars(text))
    BY <2>2 DEF Clash, Reused
  <2> QED BY <2>1, <2>3 DEF Drawn
<1>3. OrderOf(Alive, B)
  BY <1>1 DEF OrderedBy, Tree
<1> QED BY <1>2, <1>3, SortedAgree

-----------------------------------------------------------------------------
(* The order is kept.                                                      *)

\* Where the operations are.
LEMMA MovingFacts ==
    /\ Told(journal) \subseteq Moving
    /\ \A batch \in strays : Range(batch) \subseteq Moving
    /\ \A p \in Pages : Carried(page[p]) \subseteq Moving
<1>1. Told(journal) \subseteq Moving
  BY DEF Moving
<1>2. ASSUME NEW batch \in strays PROVE Range(batch) \subseteq Moving
  <2>1. Range(batch) \subseteq UNION {Range(ops) : ops \in strays}
    OBVIOUS
  <2> QED BY <2>1 DEF Moving
<1>3. ASSUME NEW p \in Pages PROVE Carried(page[p]) \subseteq Moving
  <2> DEFINE carried == UNION {Carried(page[q]) : q \in Pages}
  <2>1. Carried(page[p]) \subseteq carried
    OBVIOUS
  <2>2. carried \subseteq Moving
    BY Zenon DEF Moving
  <2> HIDE DEF carried
  <2> QED BY <2>1, <2>2
<1> QED BY <1>1, <1>2, <1>3

\* A step of one page, or of nobody, that leaves the canvas alone.
LEMMA OrderPage ==
    ASSUME NEW p \in Pages, NEW pg, Changed(page, page', p, pg), text' = text, journal' = journal,
           NEW names, NEW docs, NEW ops, Ordered(names, text, docs, ops, edits'),
           Docs \subseteq docs, {pg.doc.nodes, pg.got} \subseteq docs,
           Moving \subseteq ops, Range(pg.queue) \subseteq ops, Range(pg.doc.held) \subseteq ops,
           Told(pg.buffer) \subseteq ops, UNION {Range(batch) : batch \in strays'} \subseteq ops,
           names = Names(text) \cup Given(Range(pg.queue))
                      \cup (UNION {Given(Range(page[q].queue)) : q \in Pages \ {p}})
    PROVE  OrderInv'
<1>1. page'[p] = pg /\ \A q \in Pages \ {p} : page'[q] = page[q]
  BY DEF Changed
<1>2. Alive' = names
  BY <1>1 DEF Alive
<1>3. Docs' \subseteq docs /\ text' \in Docs'
  <2>1. Docs' = {text'} \cup {page'[q].doc.nodes : q \in Pages} \cup {page'[q].got : q \in Pages}
    BY DEF Docs
  <2> QED BY <1>1, <2>1 DEF Docs
<1>4. Moving' \subseteq ops
  <2>1. Moving' = Told(journal') \cup (UNION {Range(batch) : batch \in strays'})
            \cup (UNION {Carried(page'[q]) : q \in Pages})
    BY DEF Moving, Told, Range, Carried
  <2>2. ASSUME NEW q \in Pages PROVE Carried(page'[q]) \subseteq ops
    <3>1. CASE q = p
      BY <1>1, <3>1 DEF Carried
    <3>2. CASE q # p
      <4> HIDE DEF Moving
      <4> QED BY <1>1, <3>2, MovingFacts
    <3> QED BY <3>1, <3>2
  <2>3. Told(journal') \subseteq ops
    BY MovingFacts
  <2> DEFINE carried == UNION {Carried(page'[q]) : q \in Pages}
             late == UNION {Range(batch) : batch \in strays'}
  <2>4. carried \subseteq ops
    BY <2>2
  <2>5. late \subseteq ops /\ Moving' = Told(journal') \cup late \cup carried
    BY <2>1
  <2> HIDE DEF carried, late, Moving
  <2> QED BY <2>3, <2>4, <2>5
<1>5. Ordered(names, text', docs, ops, edits')
  OBVIOUS
<1> HIDE DEF Docs, Moving
<1>6. Ordered(Alive', text', Docs', Moving', edits')
  BY <1>2, <1>3, <1>4, <1>5, OrderFewer
<1> QED BY <1>6 DEF OrderInv

\* The names that are alive, seen from one page.
LEMMA AliveFrom ==
    ASSUME NEW p \in Pages
    PROVE  /\ Alive = Names(text) \cup Given(Range(page[p].queue))
                         \cup (UNION {Given(Range(page[q].queue)) : q \in Pages \ {p}})
           /\ {text, page[p].doc.nodes, page[p].got} \subseteq Docs
           /\ Told(journal) \subseteq Moving /\ Range(page[p].queue) \subseteq Moving
           /\ Range(page[p].doc.held) \subseteq Moving /\ Told(page[p].buffer) \subseteq Moving
           /\ UNION {Range(batch) : batch \in strays} \subseteq Moving
<1>1. Alive = Names(text) \cup Given(Range(page[p].queue))
                 \cup (UNION {Given(Range(page[q].queue)) : q \in Pages \ {p}})
  BY DEF Alive
<1>2. {text, page[p].doc.nodes, page[p].got} \subseteq Docs
  BY DEF Docs
<1>3. /\ Told(journal) \subseteq Moving /\ Carried(page[p]) \subseteq Moving
      /\ UNION {Range(batch) : batch \in strays} \subseteq Moving
  BY MovingFacts
<1> QED BY <1>1, <1>2, <1>3 DEF Carried

\* A step of one page that gives no name.
LEMMA OrderQuiet ==
    ASSUME OrderInv, NEW p \in Pages, NEW pg, Changed(page, page', p, pg),
           text' = text, journal' = journal, edits' = edits,
           NEW docs, NEW ops, Ordered(Alive, text, docs, ops, edits),
           Docs \subseteq docs, {pg.doc.nodes, pg.got} \subseteq docs,
           Moving \subseteq ops, Range(pg.queue) \subseteq Range(page[p].queue),
           Given(Range(page[p].queue)) \subseteq Names(text) \cup Given(Range(pg.queue)),
           Range(pg.doc.held) \subseteq ops,
           Told(pg.buffer) \subseteq ops, UNION {Range(batch) : batch \in strays'} \subseteq Moving
    PROVE  OrderInv'
<1>1. Given(Range(pg.queue)) \subseteq Given(Range(page[p].queue))
  BY GivenFacts
<1>2. Alive = Names(text) \cup Given(Range(pg.queue))
                 \cup (UNION {Given(Range(page[q].queue)) : q \in Pages \ {p}})
  BY <1>1, AliveFrom
<1>3. Range(pg.queue) \subseteq ops /\ UNION {Range(batch) : batch \in strays'} \subseteq ops
  BY AliveFrom
<1>4. Ordered(Alive, text, docs, ops, edits')
  OBVIOUS
<1> HIDE DEF Alive, Docs, Moving
<1> QED BY <1>2, <1>3, <1>4, OrderPage

\* A write to the canvas.
LEMMA OrderWrite ==
    ASSUME Inv, NEW names, NEW docs, NEW ops, Ordered(names, text, docs, ops, edits'),
           Docs \subseteq docs, Moving \subseteq ops,
           NEW todo \in Seq(OpRecords), Range(todo) \subseteq ops,
           names \subseteq Alive \cup Given(Range(todo)), Alive \subseteq names,
           NEW nodes, nodes = ApplyAll(Load(text), todo).nodes, Stored(nodes, todo),
           Write(nodes, todo), page' = page, strays' \subseteq strays
    PROVE  OrderInv'
<1>1. PICK big \in BOOLEAN : text' = nodes /\ journal' = Append(journal, Record(todo, big))
  BY DEF Write
<1>2. text \in Texts /\ Distinct(text) /\ journal \in Seq(Changes)
  BY DEF Inv, CanvasOK
<1>3. Ordered(names, nodes, docs \cup {nodes}, ops, edits')
  BY <1>2, OrderWritten
<1>4. Names(nodes) \subseteq names /\ Names(text) \subseteq Names(nodes)
  <2>1. Names(nodes) \subseteq names
    BY <1>3, OrderFacts
  <2>2. Load(text) \in DocRecords /\ Load(text).nodes = text
    BY <1>2 DEF Load, DocRecords
  <2>3. Names(text) \subseteq Names(nodes)
    BY <2>2, ApplyAllGrows DEF Grown
  <2> QED BY <2>1, <2>3
<1>5. Given(Range(todo)) \subseteq Names(nodes)
  BY DEF Stored, Done, Given
<1>6. Alive' = names
  <2>1. Alive' = Names(nodes) \cup (UNION {Given(Range(page[q].queue)) : q \in Pages})
    BY <1>1 DEF Alive
  <2> QED BY <1>4, <1>5, <2>1 DEF Alive
<1>7. Docs' \subseteq docs \cup {nodes} /\ nodes \in Docs'
  BY <1>1 DEF Docs
<1>8. Told(journal') \subseteq Told(journal) \cup Range(todo)
  <2>1. Range(Record(todo, big).ops) \subseteq Range(todo)
    BY DEF Record, Range
  <2>2. /\ DOMAIN journal' = 1..(Len(journal) + 1) /\ Len(journal) \in Nat
        /\ \A v \in 1..(Len(journal) + 1) : (v \in DOMAIN journal /\ journal'[v] = journal[v])
                                            \/ journal'[v] = Record(todo, big)
    BY <1>1, <1>2
  <2> QED BY <2>1, <2>2 DEF Told
<1>9. Moving' \subseteq ops
  <2>1. Moving' = Told(journal') \cup (UNION {Range(batch) : batch \in strays'})
            \cup (UNION {Carried(page'[q]) : q \in Pages})
    BY DEF Moving, Told, Range, Carried
  <2> QED BY <1>8, <2>1 DEF Moving
<1>10. Ordered(Alive', text', Docs', Moving', edits')
  <2>1. Ordered(names, nodes, Docs', Moving', edits')
    BY <1>3, <1>7, <1>9, OrderFewer
  <2> QED BY <1>1, <1>6, <2>1
<1> QED BY <1>10 DEF OrderInv

\* A step that changes no page and writes nothing.
LEMMA OrderSame ==
    ASSUME OrderInv, page' = page, text' = text, journal' = journal, edits' = edits,
           UNION {Range(batch) : batch \in strays'} \subseteq Moving
    PROVE  OrderInv'
<1>1. Alive' = Alive /\ Docs' = Docs
  BY DEF Alive, Docs
<1>2. Moving' \subseteq Moving
  <2> DEFINE late == UNION {Range(batch) : batch \in strays'}
  <2>1. Moving' = Told(journal) \cup late \cup (UNION {Carried(page[q]) : q \in Pages})
    BY DEF Moving, Told, Range, Carried
  <2>2. late \subseteq Moving /\ Told(journal) \subseteq Moving
    BY MovingFacts
  <2>3. UNION {Carried(page[q]) : q \in Pages} \subseteq Moving
    BY MovingFacts
  <2> HIDE DEF late, Moving
  <2> QED BY <2>1, <2>2, <2>3
<1>3. Ordered(Alive, text, Docs, Moving, edits) /\ text \in Docs
  BY DEF OrderInv, Docs
<1>4. Ordered(Alive, text, Docs, Moving', edits)
  <2> HIDE DEF Docs, Moving
  <2> QED BY <1>2, <1>3, OrderFewer
<1>5. Ordered(Alive', text', Docs', Moving', edits')
  BY <1>1, <1>4
<1> QED BY <1>5 DEF OrderInv

-----------------------------------------------------------------------------
(* What a page has not heard of.                                           *)

\* The records of writes that are on their way to a page.
Pending(pg, records) == UNION {Range(records[v].ops) : v \in (pg.cursor + 1)..Len(records)}

\* One of them was too big and makes the page fetch the text.
Missed(pg, records) == \E v \in (pg.cursor + 1)..Len(records) : records[v].resync

\* With the operations ops a text has all that nodes has.
Covers(some, ops, nodes) ==
    /\ Names(nodes) \subseteq Names(some) \cup Given(ops)
    /\ Gone(nodes) \subseteq Gone(some) \cup Cut(ops)

\* A page that is not fetching lacks only what it will be told; so does the
\* text it fetched, with what it heard meanwhile; and what it has removed, the
\* canvas has removed or is to be told.
HeardOK(pg, nodes, records) ==
    /\ pg.state \in {"closed", "opening"} => pg.fetch = "none"
    /\ pg.state = "open" =>
          /\ pg.fetch = "none" =>
                /\ pg.doc.held = <<>>
                /\ Missed(pg, records) \/ Covers(pg.doc.nodes, Pending(pg, records), nodes)
          /\ pg.fetch = "answered" =>
                \/ Missed(pg, records)
                \/ \E i \in DOMAIN pg.buffer : pg.buffer[i].resync
                \/ Covers(pg.got, Told(pg.buffer) \cup Pending(pg, records), nodes)
          /\ Gone(pg.doc.nodes) \subseteq Gone(nodes) \cup Cut(Range(pg.queue))
          /\ Cut(Range(pg.doc.held)) \subseteq Gone(nodes) \cup Cut(Range(pg.queue))

HeardInv == \A p \in Pages : HeardOK(page[p], text, journal)

\* Deletions of two sets of operations.
LEMMA CutFacts ==
    /\ Cut({}) = {}
    /\ \A one, other : Cut(one \cup other) = Cut(one) \cup Cut(other)
    /\ \A one, other : one \subseteq other => Cut(one) \subseteq Cut(other)
BY DEF Cut

\* A step of one page.
LEMMA HeardPage ==
    ASSUME HeardInv, NEW p \in Pages, NEW pg, Changed(page, page', p, pg),
           HeardOK(pg, text, journal), text' = text, journal' = journal
    PROVE  HeardInv'
BY DEF HeardInv, Changed

\* A step of no page.
LEMMA HeardSame ==
    ASSUME HeardInv, page' = page, text' = text, journal' = journal
    PROVE  HeardInv'
BY DEF HeardInv

\* A record that a write adds is one more to hear of.
LEMMA HeardMore ==
    ASSUME NEW pg, NEW nodes, NEW records \in Seq(Changes), HeardOK(pg, nodes, records),
           pg.cursor \in 0..Len(records), NEW change \in Changes,
           NEW more, Within(nodes, more),
           change.resync \/ /\ Names(more) \subseteq Names(nodes) \cup Given(Range(change.ops))
                            /\ Gone(more) \subseteq Gone(nodes) \cup Cut(Range(change.ops))
    PROVE  HeardOK(pg, more, Append(records, change))
<1> DEFINE all == Append(records, change)
<1>1. /\ Len(all) = Len(records) + 1 /\ Len(records) \in Nat
      /\ \A v \in 1..Len(records) : all[v] = records[v]
      /\ all[Len(records) + 1] = change /\ pg.cursor \in Nat /\ pg.cursor <= Len(records)
  OBVIOUS
<1> HIDE DEF all
<1>2. (pg.cursor + 1)..Len(all) = ((pg.cursor + 1)..Len(records)) \cup {Len(records) + 1}
  BY <1>1
<1>3. \A v \in (pg.cursor + 1)..Len(records) : all[v] = records[v]
  BY <1>1
<1>4. Missed(pg, all) <=> Missed(pg, records) \/ change.resync
  BY <1>1, <1>2, <1>3, Zenon DEF Missed
<1>5. Pending(pg, all) = Pending(pg, records) \cup Range(change.ops)
  <2> DEFINE at(v) == Range(all[v].ops)
             V == (pg.cursor + 1)..Len(records)
  <2>1. UNION {at(v) : v \in V \cup {Len(records) + 1}} = (UNION {at(v) : v \in V}) \cup at(Len(records) + 1)
    OBVIOUS
  <2>2. (UNION {at(v) : v \in V}) = UNION {Range(records[v].ops) : v \in V}
    BY <1>3
  <2> QED BY <1>1, <1>2, <2>1, <2>2 DEF Pending
<1>6. ASSUME NEW some, NEW ops, Covers(some, ops, nodes), ~change.resync
      PROVE  Covers(some, ops \cup Range(change.ops), more)
  BY <1>6, GivenFacts, CutFacts DEF Covers
<1>7. ASSUME Missed(pg, records) \/ Covers(pg.doc.nodes, Pending(pg, records), nodes)
      PROVE  Missed(pg, all) \/ Covers(pg.doc.nodes, Pending(pg, all), more)
  BY <1>4, <1>5, <1>6, <1>7
<1>8. ASSUME Missed(pg, records) \/ Covers(pg.got, Told(pg.buffer) \cup Pending(pg, records), nodes)
      PROVE  Missed(pg, all) \/ Covers(pg.got, Told(pg.buffer) \cup Pending(pg, all), more)
  <2>1. Told(pg.buffer) \cup Pending(pg, all)
           = (Told(pg.buffer) \cup Pending(pg, records)) \cup Range(change.ops)
    BY <1>5
  <2> QED BY <1>4, <1>6, <1>8, <2>1
<1>9. HeardOK(pg, more, all)
  BY <1>7, <1>8 DEF HeardOK, Within
<1> QED BY <1>9 DEF all

\* Every page has the record of a write to hear of.
LEMMA HeardWrite ==
    ASSUME Inv, HeardInv, NEW todo \in Seq(OpRecords),
           NEW nodes, nodes = ApplyAll(Load(text), todo).nodes, Write(nodes, todo), page' = page
    PROVE  HeardInv'
<1>1. PICK big \in BOOLEAN : text' = nodes /\ journal' = Append(journal, Record(todo, big))
  BY DEF Write
<1>2. text \in Texts /\ Distinct(text) /\ journal \in Seq(Changes)
  BY DEF Inv, CanvasOK
<1>3. Record(todo, big) \in Changes /\ (Record(todo, big).resync \/ Record(todo, big).ops = todo)
  BY DEF Record, Changes
<1>4. /\ Within(text, nodes)
      /\ Names(nodes) \subseteq Names(text) \cup Given(Range(todo))
      /\ Gone(nodes) \subseteq Gone(text) \cup Cut(Range(todo))
  <2>1. Load(text) \in DocRecords /\ Load(text).nodes = text /\ Range(Load(text).held) = {}
    BY <1>2 DEF Load, DocRecords, Range
  <2>2. Range(Load(text).held) \cup Range(todo) = Range(todo)
    BY <2>1
  <2>3. Grown(text, Range(todo), nodes, Range(ApplyAll(Load(text), todo).held))
    BY <2>1, <2>2, ApplyAllGrows
  <2> QED BY <2>3 DEF Grown, Within
<1>5. ASSUME NEW p \in Pages PROVE HeardOK(page[p], nodes, Append(journal, Record(todo, big)))
  <2>1. page[p].cursor \in 0..Len(journal) /\ HeardOK(page[p], text, journal)
    <3>1. page[p].cursor \in Nat /\ page[p].cursor <= Version
      BY PageFacts DEF PageOK, PageRecords
    <3> QED BY <1>2, <3>1 DEF HeardInv, Version
  <2> DEFINE change == Record(todo, big)
  <2>2. /\ change \in Changes
        /\ change.resync \/ /\ Names(nodes) \subseteq Names(text) \cup Given(Range(change.ops))
                            /\ Gone(nodes) \subseteq Gone(text) \cup Cut(Range(change.ops))
    BY <1>3, <1>4
  <2> HIDE DEF change
  <2>3. HeardOK(page[p], nodes, Append(journal, change))
    BY <1>2, <1>4, <2>1, <2>2, HeardMore
  <2> QED BY <2>3 DEF change
<1> QED BY <1>1, <1>5 DEF HeardInv

-----------------------------------------------------------------------------
(* Both are kept: steps of the server.                                     *)

\* A write of the whole document.
LEMMA SyncConverges ==
    ASSUME Inv, OrderInv, HeardInv, NEW prefix \in 0..MaxLength, NEW removed \in 0..1,
           NEW inserted \in Runs, SyncCanvasText(prefix, removed, inserted)
    PROVE  OrderInv' /\ HeardInv'
<1> DEFINE ops == Replace(text, Server, prefix, removed, inserted)
           nodes == ApplyAll(Load(text), ops).nodes
<1>1. /\ edits' = edits + 1 /\ prefix + removed <= Len(Visible(text)) /\ Write(nodes, ops)
      /\ page' = page /\ strays' = strays
  BY DEF SyncCanvasText
<1>2. text \in Texts /\ Distinct(text) /\ edits \in Nat /\ prefix \in Nat /\ removed \in Nat
  BY WritersAreWriters DEF Inv, CanvasOK
<1>3. EditOf(ops, text, Server, prefix, removed, inserted, edits + 1)
  <2>1. edits + 1 \in Nat /\ inserted \in {<<>>, <<edits + 1>>}
    BY <1>2 DEF Runs
  <2> QED BY <1>1, <1>2, <2>1, WritersAreWriters DEF EditOf
<1> HIDE DEF ops
<1>4. /\ ops \in Seq(OpRecords) /\ \A op \in Range(ops) : Ready(text, op)
      /\ \A op \in Range(ops) : IsInsert(op) => op.id[2] = Server
  BY <1>3, ReplaceFacts
<1>5. Load(text) \in DocRecords /\ Load(text).nodes = text
  BY <1>2 DEF Load, DocRecords
<1>6. Stored(nodes, ops)
  BY <1>2, <1>4, <1>5, AppliedFacts
<1>7. ASSUME NEW op \in Range(ops), IsInsert(op), op.id \in Alive PROVE op.id \in Names(text)
  <2> SUFFICES ASSUME NEW q \in Pages, op.id \in Given(Range(page[q].queue)) PROVE FALSE
    BY <1>7 DEF Alive
  <2>1. PICK other \in Range(page[q].queue) : op.id \in Named(other)
    BY DEF Given
  <2>2. other \in OpRecords
    <3>1. page[q].queue \in Seq(OpRecords)
      BY PageFacts DEF PageRecords
    <3> QED BY <3>1 DEF Range
  <2>3. IsInsert(other) /\ other.id = op.id
    BY <2>1, <2>2, NamedFacts
  <2>4. other.id[2] = q
    BY <2>3, PageFacts DEF PageOK
  <2> QED BY <1>4, <1>7, <2>3, <2>4, CanvasTextAssumption DEF Server
<1>8. Ordered(Alive \cup Given(Range(ops)), text, Docs, Moving \cup Range(ops), edits + 1)
  <2>1. text \in Docs /\ Ordered(Alive, text, Docs, Moving, edits)
    BY DEF Docs, OrderInv
  <2> HIDE DEF Docs, Moving, Alive
  <2> QED BY <1>3, <1>7, <2>1, OrderEdit
<1> HIDE DEF nodes
<1>9. OrderInv'
  <2> DEFINE names == Alive \cup Given(Range(ops))
             all == Moving \cup Range(ops)
  <2>1. /\ Ordered(names, text, Docs, all, edits') /\ Moving \subseteq all /\ Range(ops) \subseteq all
        /\ names \subseteq Alive \cup Given(Range(ops)) /\ Alive \subseteq names
    BY <1>1, <1>8
  <2>2. nodes = ApplyAll(Load(text), ops).nodes
    BY DEF nodes
  <2> HIDE DEF names, all, Docs, Moving, Alive
  <2> QED BY <1>1, <1>4, <1>6, <2>1, <2>2, OrderWrite
<1>10. HeardInv'
  <2>1. nodes = ApplyAll(Load(text), ops).nodes
    BY DEF nodes
  <2> QED BY <1>1, <1>4, <2>1, HeardWrite
<1> QED BY <1>9, <1>10

\* A batch that is written.
LEMMA BatchConverges ==
    ASSUME Inv, OrderInv, HeardInv, NEW ops \in Seq(OpRecords), Range(ops) \subseteq Moving,
           NEW merged, merged = Merged(text, ops), merged.held = <<>>, Write(merged.nodes, ops),
           page' = page, strays' \subseteq strays, edits' = edits
    PROVE  OrderInv' /\ HeardInv'
<1>1. text \in Texts /\ Distinct(text)
  BY DEF Inv, CanvasOK
<1>2. Stored(merged.nodes, ops)
  BY <1>1, MergedFacts
<1>3. merged.nodes = ApplyAll(Load(text), ops).nodes
  BY DEF Merged
<1>4. Ordered(Alive, text, Docs, Moving, edits')
  BY DEF OrderInv
<1>5. Given(Range(ops)) \subseteq Alive
  <2>1. \A op \in Range(ops) : Named(op) \subseteq Alive
    BY <1>4, OrderFacts
  <2> QED BY <2>1 DEF Given
<1>6. OrderInv'
  <2> HIDE DEF Docs, Moving, Alive
  <2> QED BY <1>2, <1>3, <1>4, OrderWrite
<1>7. HeardInv'
  BY <1>3, HeardWrite
<1> QED BY <1>6, <1>7

\* A step that touches neither the canvas nor a page.
LEMMA QuietConverges ==
    ASSUME OrderInv, HeardInv, page' = page, text' = text, journal' = journal, edits' = edits,
           strays' \subseteq strays
    PROVE  OrderInv' /\ HeardInv'
<1>1. UNION {Range(batch) : batch \in strays'} \subseteq Moving
  BY MovingFacts
<1> QED BY <1>1, OrderSame, HeardSame

\* A batch that is written, or answered.
LEMMA CommitConverges ==
    ASSUME Inv, OrderInv, HeardInv, NEW p \in Pages, Commit(p)
    PROVE  OrderInv' /\ HeardInv'
<1> DEFINE r == request[p]
           merged == Merged(r.read, r.batch)
<1>1. /\ r.state = "read" /\ page' = page /\ strays' = strays /\ edits' = edits
  BY DEF Commit
<1>2. CASE UNCHANGED <<text, journal, rare>>
  BY <1>1, <1>2, QuietConverges
<1>3. CASE Verdict(r.read, r.batch) = "write" /\ r.base = Version /\ Write(merged.nodes, r.batch)
  <2>1. RequestOK(r, page[p].queue, text, Version) /\ page[p].queue \in Seq(OpRecords)
    BY PageFacts DEF PageRecords
  <2>2. /\ r.read = text /\ r.batch \in Seq(OpRecords)
        /\ Len(r.batch) <= Len(page[p].queue) /\ r.batch = SubSeq(page[p].queue, 1, Len(r.batch))
    BY <1>1, <1>3, <2>1 DEF RequestOK, RequestRecords
  <2>3. Range(r.batch) \subseteq Range(page[p].queue)
    <3> HIDE DEF r
    <3>1. \A i \in 1..Len(r.batch) : r.batch[i] = page[p].queue[i] /\ i \in 1..Len(page[p].queue)
      BY <2>1, <2>2
    <3> QED BY <2>1, <2>2, <3>1 DEF Range
  <2>4. Range(r.batch) \subseteq Moving
    BY <2>3, AliveFrom
  <2>5. merged.held = <<>>
    BY <1>3, VerdictFacts
  <2>6. merged = Merged(text, r.batch)
    BY <2>2
  <2> HIDE DEF merged, r
  <2> QED BY <1>1, <1>3, <2>2, <2>4, <2>5, <2>6, BatchConverges
<1> QED BY <1>2, <1>3 DEF Commit

\* A batch that arrives late.
LEMMA StrayConverges ==
    ASSUME Inv, OrderInv, HeardInv, NEW ops \in strays, StrayArrives(ops)
    PROVE  OrderInv' /\ HeardInv'
<1>1. page' = page /\ strays' \subseteq strays /\ edits' = edits /\ ops \in Seq(OpRecords)
  BY DEF StrayArrives, Inv
<1>2. CASE Verdict(text, ops) = "write" /\ Write(Merged(text, ops).nodes, ops)
  <2>1. Merged(text, ops).held = <<>>
    BY <1>2, VerdictFacts
  <2>2. Range(ops) \subseteq Moving
    BY MovingFacts
  <2> QED BY <1>1, <1>2, <2>1, <2>2, BatchConverges
<1>3. CASE UNCHANGED <<text, journal, rare>>
  BY <1>1, <1>3, QuietConverges
<1> QED BY <1>2, <1>3 DEF StrayArrives

-----------------------------------------------------------------------------
(* Both are kept: steps of a page.                                         *)

\* A page whose replica, queue and fetched text stay as they are.
LEMMA SamePage ==
    ASSUME OrderInv, NEW p \in Pages, NEW pg, Changed(page, page', p, pg),
           text' = text, journal' = journal, edits' = edits, strays' = strays,
           pg.doc = page[p].doc, pg.queue = page[p].queue, pg.buffer = page[p].buffer,
           pg.got \in Docs \/ pg.got = page[p].got
    PROVE  OrderInv'
<1>1. Ordered(Alive, text, Docs, Moving, edits)
  BY DEF OrderInv
<1>2. /\ {page[p].doc.nodes, page[p].got} \subseteq Docs
      /\ Range(page[p].doc.held) \subseteq Moving /\ Told(page[p].buffer) \subseteq Moving
      /\ UNION {Range(batch) : batch \in strays} \subseteq Moving
  BY AliveFrom
<1> HIDE DEF Docs, Moving, Alive
<1> QED BY <1>1, <1>2, OrderQuiet

\* An empty text is in any order.
LEMMA OrderEmpty ==
    ASSUME NEW names, NEW nodes, NEW docs, NEW ops, NEW max, Ordered(names, nodes, docs, ops, max)
    PROVE  Ordered(names, nodes, docs \cup {<<>>}, ops, max)
<1>1. PICK par, B : OrderedBy(par, B, names, nodes, docs, ops, max)
  BY DEF Ordered
<1>2. Drawn(<<>>, names, par, B, Chars(nodes))
  <2>1. <<>> \in Texts /\ Names(<<>>) = {} /\ Len(<<>>) = 0
    BY DEF Texts, Names
  <2> QED BY <2>1 DEF Drawn, Sorted
<1>3. OrderedBy(par, B, names, nodes, docs \cup {<<>>}, ops, max)
  BY <1>1, <1>2 DEF OrderedBy
<1> QED BY <1>3 DEF Ordered

LEMMA OpenConverges ==
    ASSUME Inv, OrderInv, HeardInv, NEW p \in Pages, Open(p)
    PROVE  OrderInv' /\ HeardInv'
<1> DEFINE pg == [page[p] EXCEPT !.state = "opening", !.cursor = Version]
<1>1. page[p] \in PageRecords /\ page[p].state = "closed"
  BY PageFacts DEF Open
<1>2. /\ pg.state = "opening" /\ pg.doc = page[p].doc /\ pg.queue = page[p].queue
      /\ pg.got = page[p].got /\ pg.buffer = page[p].buffer /\ pg.fetch = page[p].fetch
  BY <1>1 DEF PageRecords
<1>3. Changed(page, page', p, pg)
  BY DEF Open, Inv, Changed
<1> HIDE DEF pg
<1>4. HeardOK(pg, text, journal)
  BY <1>1, <1>2 DEF HeardInv, HeardOK
<1> QED BY <1>2, <1>3, <1>4, SamePage, HeardPage DEF Open

LEMMA RenderConverges ==
    ASSUME Inv, OrderInv, HeardInv, NEW p \in Pages, Render(p)
    PROVE  OrderInv' /\ HeardInv'
<1> DEFINE pg == [page[p] EXCEPT !.state = "open", !.doc = Load(text)]
<1>1. /\ page[p] \in PageRecords /\ page[p].state = "opening"
      /\ text' = text /\ journal' = journal /\ edits' = edits /\ strays' = strays
  BY PageFacts DEF Render
<1>2. /\ pg.state = "open" /\ pg.doc = Load(text) /\ pg.queue = page[p].queue
      /\ pg.got = page[p].got /\ pg.buffer = page[p].buffer /\ pg.fetch = page[p].fetch
  BY <1>1 DEF PageRecords
<1>3. Changed(page, page', p, pg)
  BY DEF Render, Inv, Changed
<1>4. Load(text).nodes = text /\ Load(text).held = <<>> /\ Range(<<>>) = {}
  BY DEF Load, Range
<1> HIDE DEF pg
<1>5. pg.doc.nodes = text /\ pg.doc.held = <<>> /\ Range(pg.doc.held) = {}
  BY <1>2, <1>4
<1>6. HeardOK(pg, text, journal)
  <2>1. pg.fetch = "none"
    BY <1>1, <1>2 DEF HeardInv, HeardOK
  <2>2. Covers(text, Pending(pg, journal), text)
    BY DEF Covers
  <2> QED BY <1>2, <1>5, <2>1, <2>2, CutFacts DEF HeardOK
<1>7. OrderInv'
  <2>1. Ordered(Alive, text, Docs, Moving, edits) /\ text \in Docs
    BY DEF OrderInv, Docs
  <2>2. /\ page[p].got \in Docs /\ Told(page[p].buffer) \subseteq Moving
        /\ UNION {Range(batch) : batch \in strays} \subseteq Moving
    BY AliveFrom
  <2> HIDE DEF Docs, Moving, Alive
  <2> QED BY <1>1, <1>2, <1>3, <1>5, <2>1, <2>2, OrderQuiet
<1> QED BY <1>1, <1>3, <1>6, <1>7, HeardPage

LEMMA FetchConverges ==
    ASSUME Inv, OrderInv, HeardInv, NEW p \in Pages, Fetch(p)
    PROVE  OrderInv' /\ HeardInv'
<1> DEFINE pg == [page[p] EXCEPT !.fetch = "answered", !.got = text]
<1>1. /\ page[p] \in PageRecords /\ page[p].state = "open"
      /\ text' = text /\ journal' = journal /\ edits' = edits /\ strays' = strays
  BY PageFacts DEF Fetch
<1>2. /\ pg.state = "open" /\ pg.doc = page[p].doc /\ pg.queue = page[p].queue
      /\ pg.got = text /\ pg.buffer = page[p].buffer /\ pg.fetch = "answered"
  BY <1>1 DEF PageRecords
<1>3. Changed(page, page', p, pg)
  BY <1>1 DEF Fetch, Inv, Changed
<1> HIDE DEF pg
<1>4. HeardOK(pg, text, journal)
  <2>1. Covers(text, Told(pg.buffer) \cup Pending(pg, journal), text)
    BY DEF Covers
  <2> QED BY <1>1, <1>2, <2>1 DEF HeardInv, HeardOK
<1>5. text \in Docs
  BY DEF Docs
<1> QED BY <1>1, <1>2, <1>3, <1>4, <1>5, SamePage, HeardPage

\* A page that stops.
LEMMA StopConverges ==
    ASSUME Inv, OrderInv, HeardInv, NEW p \in Pages, NEW pg, Changed(page, page', p, pg),
           text' = text, journal' = journal, edits' = edits, strays' = strays,
           pg.state = "stopped", pg.doc = page[p].doc, pg.queue = page[p].queue,
           pg.buffer = page[p].buffer, pg.got \in {<<>>, page[p].got}
    PROVE  OrderInv' /\ HeardInv'
<1>1. HeardOK(pg, text, journal)
  BY DEF HeardOK
<1>2. OrderInv'
  <2> DEFINE docs == Docs \cup {<<>>}
  <2>1. Ordered(Alive, text, docs, Moving, edits)
    BY OrderEmpty DEF OrderInv
  <2>2. /\ {page[p].doc.nodes, page[p].got} \subseteq Docs
        /\ Range(page[p].doc.held) \subseteq Moving /\ Told(page[p].buffer) \subseteq Moving
        /\ UNION {Range(batch) : batch \in strays} \subseteq Moving
    BY AliveFrom
  <2>3. Docs \subseteq docs /\ {pg.doc.nodes, pg.got} \subseteq docs
    BY <2>2
  <2> HIDE DEF Docs, Moving, Alive, docs
  <2> QED BY <2>1, <2>2, <2>3, OrderQuiet
<1> QED BY <1>1, <1>2, HeardPage

LEMMA FetchFailsConverges ==
    ASSUME Inv, OrderInv, HeardInv, NEW p \in Pages, FetchFails(p)
    PROVE  OrderInv' /\ HeardInv'
<1> DEFINE pg == [page[p] EXCEPT !.state = "stopped", !.fetch = "none", !.got = <<>>]
<1>1. page[p] \in PageRecords
  BY PageFacts
<1>2. /\ pg.state = "stopped" /\ pg.doc = page[p].doc /\ pg.queue = page[p].queue
      /\ pg.got = <<>> /\ pg.buffer = page[p].buffer
  BY <1>1 DEF PageRecords
<1>3. Changed(page, page', p, pg)
  BY <1>1 DEF FetchFails, Inv, Changed
<1> HIDE DEF pg
<1> QED BY <1>2, <1>3, StopConverges DEF FetchFails

LEMMA RefusedConverges ==
    ASSUME Inv, OrderInv, HeardInv, NEW p \in Pages, Refused(p)
    PROVE  OrderInv' /\ HeardInv'
<1> DEFINE pg == [page[p] EXCEPT !.state = "stopped"]
<1>1. page[p] \in PageRecords
  BY PageFacts
<1>2. /\ pg.state = "stopped" /\ pg.doc = page[p].doc /\ pg.queue = page[p].queue
      /\ pg.got = page[p].got /\ pg.buffer = page[p].buffer
  BY <1>1 DEF PageRecords
<1>3. Changed(page, page', p, pg)
  BY <1>1 DEF Refused, Inv, Changed
<1> HIDE DEF pg
<1> QED BY <1>2, <1>3, StopConverges DEF Refused

LEMMA SendFailsConverges ==
    ASSUME Inv, OrderInv, HeardInv, NEW p \in Pages, SendFails(p)
    PROVE  OrderInv' /\ HeardInv'
<1> DEFINE batch == request[p].batch
<1>1. /\ page' = page /\ text' = text /\ journal' = journal /\ edits' = edits
      /\ strays' \subseteq strays \cup {batch}
  BY DEF SendFails
<1>2. /\ batch \in Seq(OpRecords) /\ page[p].queue \in Seq(OpRecords)
      /\ Len(batch) <= Len(page[p].queue) /\ batch = SubSeq(page[p].queue, 1, Len(batch))
  BY PageFacts DEF RequestOK, RequestRecords, PageRecords
<1> HIDE DEF batch
<1>3. Range(batch) \subseteq Range(page[p].queue)
  <2>1. \A i \in 1..Len(batch) : batch[i] = page[p].queue[i] /\ i \in 1..Len(page[p].queue)
    BY <1>2
  <2> QED BY <1>2, <2>1 DEF Range
<1>4. Range(batch) \subseteq Moving /\ UNION {Range(ops) : ops \in strays} \subseteq Moving
  BY <1>3, AliveFrom
<1>5. UNION {Range(ops) : ops \in strays'} \subseteq Moving
  <2>1. \A ops \in strays' : Range(ops) \subseteq Moving
    BY <1>1, <1>4, MovingFacts
  <2> HIDE DEF Moving
  <2> QED BY <2>1
<1> QED BY <1>1, <1>5, OrderSame, HeardSame

\* What two sequences hold together.
LEMMA RangeAppend ==
    ASSUME NEW S, NEW one \in Seq(S), NEW other \in Seq(S)
    PROVE  Range(one \o other) = Range(one) \cup Range(other)
<1> DEFINE all == one \o other
<1>1. /\ Len(all) = Len(one) + Len(other)
      /\ Len(one) \in Nat /\ Len(other) \in Nat /\ DOMAIN all = 1..Len(all)
      /\ \A i \in 1..Len(one) : all[i] = one[i]
      /\ \A i \in 1..Len(other) : all[Len(one) + i] = other[i]
      /\ DOMAIN one = 1..Len(one) /\ DOMAIN other = 1..Len(other)
  OBVIOUS
<1> HIDE DEF all
<1>2. ASSUME NEW i \in DOMAIN all PROVE all[i] \in Range(one) \cup Range(other)
  <2>1. CASE i <= Len(one)
    BY <1>1, <1>2, <2>1 DEF Range
  <2>2. CASE ~(i <= Len(one))
    <3>1. i - Len(one) \in 1..Len(other) /\ i = Len(one) + (i - Len(one))
      BY <1>1, <1>2, <2>2
    <3> QED BY <1>1, <3>1 DEF Range
  <2> QED BY <2>1, <2>2
<1>3. Range(one) \subseteq Range(all) /\ Range(other) \subseteq Range(all)
  <2>1. \A i \in 1..Len(one) : i \in DOMAIN all
    BY <1>1
  <2>2. \A i \in 1..Len(other) : Len(one) + i \in DOMAIN all
    BY <1>1
  <2> QED BY <1>1, <2>1, <2>2 DEF Range
<1>4. Range(all) \subseteq Range(one) \cup Range(other)
  BY <1>2 DEF Range
<1>5. Range(all) = Range(one) \cup Range(other)
  BY <1>3, <1>4
<1> QED BY <1>5 DEF all

\* Typing: a new character goes into the order below its parent.
LEMMA CaptureConverges ==
    ASSUME Inv, OrderInv, HeardInv, NEW p \in Pages, NEW prefix \in 0..MaxLength,
           NEW removed \in 0..1, NEW inserted \in Runs, Capture(p, prefix, removed, inserted)
    PROVE  OrderInv' /\ HeardInv'
<1> DEFINE old == page[p].doc
           ops == Replace(old.nodes, p, prefix, removed, inserted)
           doc == ApplyAll(old, ops)
           queue == page[p].queue \o ops
           pg == [page[p] EXCEPT !.doc = doc, !.queue = queue]
<1>1. /\ PageOK(page[p], p, text, Version) /\ page[p] \in PageRecords /\ edits \in Nat
      /\ HeardOK(page[p], text, journal)
  BY PageFacts DEF HeardInv
<1>2. /\ old \in DocRecords /\ old.nodes \in Texts /\ Distinct(old.nodes)
      /\ page[p].queue \in Seq(OpRecords)
  BY <1>1 DEF PageOK, PageRecords, DocRecords
<1>3. /\ page[p].state = "open" /\ edits' = edits + 1
      /\ prefix + removed <= Len(Visible(old.nodes))
      /\ Changed(page, page', p, pg)
      /\ text' = text /\ journal' = journal /\ strays' = strays
  BY <1>1 DEF Capture, Changed, Inv
<1>4. EditOf(ops, old.nodes, p, prefix, removed, inserted, edits + 1)
  <2>1. prefix \in Nat /\ removed \in Nat /\ p \in Writers
    BY WritersAreWriters
  <2>2. edits + 1 \in Nat /\ inserted \in {<<>>, <<edits + 1>>}
    BY <1>1 DEF Runs
  <2> HIDE DEF old
  <2> QED BY <1>2, <1>3, <2>1, <2>2 DEF EditOf, old
<1>5. /\ /\ pg.state = page[p].state /\ pg.cursor = page[p].cursor /\ pg.doc = doc
         /\ pg.queue = queue /\ pg.got = page[p].got /\ pg.buffer = page[p].buffer
      /\ pg.fetch = page[p].fetch
  BY <1>1 DEF PageRecords
<1> HIDE DEF pg, ops, old
<1>6. /\ ops \in Seq(OpRecords) /\ \A op \in Range(ops) : Ready(old.nodes, op)
      /\ \A op \in Range(ops) : IsInsert(op) =>
            op.id \in CharNames /\ op.id[2] = p /\ op.id \notin Names(old.nodes)
  BY <1>4, ReplaceFacts
<1>7. /\ doc \in DocRecords /\ Within(old.nodes, doc.nodes)
      /\ Range(doc.held) \subseteq Range(old.held)
  BY <1>2, <1>6, AppliedFacts
<1>8. Gone(doc.nodes) \subseteq Gone(old.nodes) \cup Cut(Range(old.held)) \cup Cut(Range(ops))
  <2>1. Grown(old.nodes, Range(old.held) \cup Range(ops), doc.nodes, Range(doc.held))
    BY <1>2, <1>6, ApplyAllGrows
  <2> QED BY <2>1, CutFacts DEF Grown
<1>9. Range(queue) = Range(page[p].queue) \cup Range(ops)
  BY <1>2, <1>6, RangeAppend
<1> HIDE DEF queue
<1>10. /\ Given(Range(queue)) = Given(Range(page[p].queue)) \cup Given(Range(ops))
       /\ Cut(Range(queue)) = Cut(Range(page[p].queue)) \cup Cut(Range(ops))
  BY <1>9, GivenFacts, CutFacts
<1>11. ASSUME NEW op \in Range(ops), IsInsert(op), op.id \in Alive PROVE op.id \in Names(text)
  <2> SUFFICES ASSUME NEW q \in Pages, op.id \in Given(Range(page[q].queue)) PROVE FALSE
    BY <1>11 DEF Alive
  <2>1. PICK other \in Range(page[q].queue) : op.id \in Named(other)
    BY DEF Given
  <2>2. other \in OpRecords
    <3>1. page[q].queue \in Seq(OpRecords)
      BY PageFacts DEF PageRecords
    <3> QED BY <3>1 DEF Range
  <2>3. IsInsert(other) /\ other.id = op.id
    BY <2>1, <2>2, NamedFacts
  <2>4. q = p
    BY <1>6, <1>11, <2>3, PageFacts DEF PageOK
  <2>5. op.id \in Names(old.nodes)
    BY <1>1, <2>4 DEF PageOK, old
  <2> QED BY <1>6, <1>11, <2>5
<1>12. /\ old.nodes \in Docs /\ Range(old.held) \subseteq Moving
       /\ {text, page[p].doc.nodes, page[p].got} \subseteq Docs
       /\ Range(page[p].queue) \subseteq Moving /\ Told(page[p].buffer) \subseteq Moving
       /\ UNION {Range(batch) : batch \in strays} \subseteq Moving
       /\ Alive = Names(text) \cup Given(Range(page[p].queue))
                         \cup (UNION {Given(Range(page[q].queue)) : q \in Pages \ {p}})
  BY AliveFrom DEF old
<1> DEFINE names == Alive \cup Given(Range(ops))
           all == Moving \cup Range(ops)
<1>13. Ordered(names, text, Docs, all, edits')
  <2>1. Ordered(Alive, text, Docs, Moving, edits)
    BY DEF OrderInv
  <2> HIDE DEF Docs, Moving, Alive
  <2>2. Ordered(Alive \cup Given(Range(ops)), text, Docs, Moving \cup Range(ops), edits + 1)
    BY <1>4, <1>11, <1>12, <2>1, OrderEdit
  <2> QED BY <1>3, <2>2
<1>14. OrderInv'
  <2>1. Range(old.held) \subseteq all /\ Range(ops) \subseteq all
    BY <1>12
  <2>2. Ordered(names, text, Docs \cup {doc.nodes}, all \cup Range(doc.held), edits')
    <3> HIDE DEF Docs, names, all, doc
    <3> QED BY <1>2, <1>6, <1>12, <1>13, <2>1, OrderApply DEF doc
  <2> DEFINE docs == Docs \cup {doc.nodes}
             more == all \cup Range(doc.held)
  <2>3. names = Names(text) \cup Given(Range(pg.queue))
                    \cup (UNION {Given(Range(page[q].queue)) : q \in Pages \ {p}})
    BY <1>5, <1>10, <1>12
  <2>4. /\ Docs \subseteq docs /\ {pg.doc.nodes, pg.got} \subseteq docs
        /\ Moving \subseteq more /\ Range(pg.queue) \subseteq more
        /\ Range(pg.doc.held) \subseteq more /\ Told(pg.buffer) \subseteq more
        /\ UNION {Range(batch) : batch \in strays'} \subseteq more
    BY <1>3, <1>5, <1>9, <1>12
  <2>5. Ordered(names, text, docs, more, edits')
    BY <2>2
  <2> HIDE DEF names, docs, more, Docs, Moving
  <2> QED BY <1>3, <2>3, <2>4, <2>5, OrderPage
<1> HIDE DEF names, all, doc
<1>15. HeardOK(pg, text, journal)
  <2>1. /\ Pending(pg, journal) = Pending(page[p], journal)
        /\ Missed(pg, journal) <=> Missed(page[p], journal)
    BY <1>5 DEF Pending, Missed
  <2>2. page[p].fetch = "none" => doc.held = <<>>
    <3> SUFFICES ASSUME old.held = <<>> PROVE doc.held = <<>>
      BY <1>1, <1>3 DEF HeardOK, old
    <3>1. Range(old.held) = {}
      BY DEF Range
    <3>2. doc.held \in Seq(OpRecords) /\ Range(doc.held) = {}
      BY <1>7, <3>1 DEF DocRecords
    <3>3. ~(Len(doc.held) >= 1)
      <4> SUFFICES ASSUME Len(doc.held) >= 1 PROVE FALSE
        OBVIOUS
      <4>1. 1 \in DOMAIN doc.held
        BY <3>2
      <4> QED BY <3>2, <4>1 DEF Range
    <3> QED BY <3>2, <3>3
  <2>3. \A rest : Covers(old.nodes, rest, text) => Covers(doc.nodes, rest, text)
    BY <1>7 DEF Within, Covers
  <2>4. /\ Gone(doc.nodes) \subseteq Gone(text) \cup Cut(Range(queue))
        /\ Cut(Range(doc.held)) \subseteq Gone(text) \cup Cut(Range(queue))
    <3>1. Cut(Range(doc.held)) \subseteq Cut(Range(old.held))
      BY <1>7, CutFacts
    <3> QED BY <1>1, <1>3, <1>8, <1>10, <3>1 DEF HeardOK, old
  <2>5. page[p].fetch = "none" =>
           Missed(page[p], journal) \/ Covers(doc.nodes, Pending(page[p], journal), text)
    BY <1>1, <1>3, <2>3 DEF HeardOK, old
  <2> QED BY <1>1, <1>3, <1>5, <2>1, <2>2, <2>4, <2>5 DEF HeardOK
<1> QED BY <1>3, <1>14, <1>15, HeardPage

\* An answered batch.
LEMMA SentConverges ==
    ASSUME Inv, OrderInv, HeardInv, NEW p \in Pages, Sent(p)
    PROVE  OrderInv' /\ HeardInv'
<1> DEFINE batch == request[p].batch
           rest == SubSeq(page[p].queue, Len(batch) + 1, Len(page[p].queue))
           pg == [page[p] EXCEPT !.queue = rest]
<1>1. /\ PageOK(page[p], p, text, Version) /\ page[p] \in PageRecords
      /\ RequestOK(request[p], page[p].queue, text, Version)
      /\ HeardOK(page[p], text, journal)
  BY PageFacts DEF HeardInv
<1>2. page[p].queue \in Seq(OpRecords) /\ batch \in Seq(OpRecords)
  BY <1>1 DEF PageRecords, RequestOK, RequestRecords
<1>3. /\ request[p].state = "ok" /\ Changed(page, page', p, pg)
      /\ text' = text /\ journal' = journal /\ strays' = strays /\ edits' = edits
  BY <1>1 DEF Sent, Inv, Changed
<1>4. Stored(text, batch) /\ Len(batch) <= Len(page[p].queue)
      /\ batch = SubSeq(page[p].queue, 1, Len(batch))
  BY <1>1, <1>3 DEF RequestOK
<1>5. Given(Range(batch)) \subseteq Names(text) /\ Cut(Range(batch)) \subseteq Gone(text)
  BY <1>4 DEF Stored, Done, Given, Cut
<1> HIDE DEF rest
<1>6. Range(page[p].queue) = Range(batch) \cup Range(rest)
  <2>1. Placeable(page[p].queue, Names(text))
    BY <1>1 DEF PageOK
  <2>2. Leaves(page[p].queue, batch, rest)
    BY <1>2, <1>4 DEF rest, Leaves
  <2> HIDE DEF batch
  <2> QED BY <1>5, <2>1, <2>2, PlaceableRest
<1>7. /\ Given(Range(page[p].queue)) = Given(Range(batch)) \cup Given(Range(rest))
      /\ Cut(Range(page[p].queue)) = Cut(Range(batch)) \cup Cut(Range(rest))
  BY <1>6, GivenFacts, CutFacts
<1>8. /\ pg.state = page[p].state /\ pg.cursor = page[p].cursor
      /\ pg.doc = page[p].doc /\ pg.queue = rest /\ pg.got = page[p].got
      /\ pg.buffer = page[p].buffer /\ pg.fetch = page[p].fetch
  BY <1>1 DEF PageRecords
<1> HIDE DEF pg, batch
<1>9. HeardOK(pg, text, journal)
  <2>1. /\ Pending(pg, journal) = Pending(page[p], journal)
        /\ Missed(pg, journal) <=> Missed(page[p], journal)
    BY <1>8 DEF Pending, Missed
  <2> QED BY <1>1, <1>5, <1>7, <1>8, <2>1 DEF HeardOK
<1>10. OrderInv'
  <2>1. Ordered(Alive, text, Docs, Moving, edits)
    BY DEF OrderInv
  <2>2. /\ {page[p].doc.nodes, page[p].got} \subseteq Docs
        /\ Range(page[p].doc.held) \subseteq Moving /\ Told(page[p].buffer) \subseteq Moving
        /\ UNION {Range(b) : b \in strays} \subseteq Moving
    BY AliveFrom
  <2>3. Range(pg.queue) \subseteq Range(page[p].queue)
    BY <1>6, <1>8
  <2>4. Given(Range(page[p].queue)) \subseteq Names(text) \cup Given(Range(pg.queue))
    BY <1>5, <1>7, <1>8
  <2> HIDE DEF Docs, Moving, Alive
  <2> QED BY <1>3, <1>8, <2>1, <2>2, <2>3, <2>4, OrderQuiet
<1> QED BY <1>3, <1>9, <1>10, HeardPage

\* One more write heard.
LEMMA PendingNext ==
    ASSUME NEW records, Len(records) \in Nat, NEW pg, NEW next, pg.cursor \in Nat,
           next.cursor = pg.cursor + 1, next.cursor <= Len(records)
    PROVE  /\ Pending(pg, records) = Range(records[next.cursor].ops) \cup Pending(next, records)
           /\ Missed(pg, records) <=> records[next.cursor].resync \/ Missed(next, records)
<1>1. \A v : v \in (pg.cursor + 1)..Len(records) <=>
                v = next.cursor \/ v \in (next.cursor + 1)..Len(records)
  OBVIOUS
<1> QED BY <1>1 DEF Pending, Missed

\* One more write kept for later.
LEMMA ToldAppend ==
    ASSUME NEW buffer \in Seq(Changes), NEW change
    PROVE  /\ Told(Append(buffer, change)) = Told(buffer) \cup Range(change.ops)
           /\ (\E i \in DOMAIN Append(buffer, change) : Append(buffer, change)[i].resync)
                 <=> (\E i \in DOMAIN buffer : buffer[i].resync) \/ change.resync
<1> DEFINE more == Append(buffer, change)
<1>1. /\ DOMAIN more = 1..(Len(buffer) + 1) /\ DOMAIN buffer = 1..Len(buffer) /\ Len(buffer) \in Nat
      /\ \A i \in 1..Len(buffer) : more[i] = buffer[i]
      /\ more[Len(buffer) + 1] = change
  OBVIOUS
<1> HIDE DEF more
<1>2. \A i : i \in DOMAIN more <=> i \in DOMAIN buffer \/ i = Len(buffer) + 1
  BY <1>1
<1>3. \A i \in DOMAIN buffer : more[i] = buffer[i]
  BY <1>1
<1>4. Told(more) = Told(buffer) \cup Range(change.ops)
  BY <1>1, <1>2, <1>3 DEF Told
<1>5. (\E i \in DOMAIN more : more[i].resync)
         <=> (\E i \in DOMAIN buffer : buffer[i].resync) \/ change.resync
  BY <1>1, <1>2, <1>3
<1> QED BY <1>4, <1>5 DEF more

\* A write heard.
LEMMA ReceiveConverges ==
    ASSUME Inv, OrderInv, HeardInv, NEW p \in Pages, Receive(p)
    PROVE  OrderInv' /\ HeardInv'
<1> DEFINE change == journal[page[p].cursor + 1]
           applied == ApplyAll(page[p].doc, change.ops)
           old == page[p]
           kept == [old EXCEPT !.cursor = old.cursor + 1, !.buffer = Append(old.buffer, change)]
           asks == [old EXCEPT !.cursor = old.cursor + 1, !.fetch = "asked"]
           takes == [old EXCEPT !.cursor = old.cursor + 1, !.doc = applied,
                                !.fetch = IF applied.held # <<>> THEN "asked" ELSE "none"]
<1>1. /\ PageOK(old, p, text, Version) /\ old \in PageRecords /\ CanvasOK(text, journal)
      /\ HeardOK(old, text, journal) /\ Version \in Nat
  BY PageFacts DEF HeardInv
<1>2. /\ old.doc \in DocRecords /\ old.doc.nodes \in Texts /\ old.cursor \in Nat
      /\ old.queue \in Seq(OpRecords) /\ old.buffer \in Seq(Changes)
  BY <1>1 DEF PageRecords, DocRecords
<1>3. /\ old.state = "open" /\ old.cursor < Version
      /\ text' = text /\ journal' = journal /\ strays' = strays /\ edits' = edits
  BY DEF Receive
<1>4. \/ Changed(page, page', p, kept) /\ old.fetch # "none"
      \/ Changed(page, page', p, asks)
      \/ Changed(page, page', p, takes) /\ old.fetch = "none" /\ ~change.resync
  <2>1. CASE old.fetch # "none"
    BY <1>1, <2>1 DEF Receive, Changed, Inv, PageRecords
  <2>2. CASE old.fetch = "none" /\ change.resync
    BY <1>1, <2>2 DEF Receive, Changed, Inv, PageRecords
  <2>3. CASE old.fetch = "none" /\ ~change.resync
    BY <1>1, <2>3 DEF Receive, Changed, Inv, PageRecords
  <2> QED BY <2>1, <2>2, <2>3
<1>5. old.cursor + 1 \in 1..Len(journal) /\ Len(journal) \in Nat
  BY <1>1, <1>2, <1>3 DEF Version
<1>6. change \in Changes /\ change.ops \in Seq(OpRecords) /\ Stored(text, change.ops)
  <2>1. change \in Changes
    BY <1>1, <1>5 DEF CanvasOK
  <2> QED BY <1>1, <1>5, <2>1 DEF CanvasOK, Changes
<1>7. Range(change.ops) \subseteq Told(journal) /\ Cut(Range(change.ops)) \subseteq Gone(text)
  <2>1. DOMAIN journal = 1..Len(journal)
    BY <1>1 DEF CanvasOK
  <2>2. Range(change.ops) \subseteq Told(journal)
    BY <1>5, <2>1 DEF Told
  <2> HIDE DEF change
  <2> QED BY <1>6, <2>2 DEF Stored, Done, Cut
<1>8. \A next : next.cursor = old.cursor + 1 =>
         /\ Pending(old, journal) = Range(change.ops) \cup Pending(next, journal)
         /\ Missed(old, journal) <=> change.resync \/ Missed(next, journal)
  <2> SUFFICES ASSUME NEW next, next.cursor = old.cursor + 1
               PROVE  /\ Pending(old, journal) = Range(change.ops) \cup Pending(next, journal)
                      /\ Missed(old, journal) <=> change.resync \/ Missed(next, journal)
    OBVIOUS
  <2>1. change = journal[next.cursor] /\ next.cursor <= Len(journal)
    BY <1>5
  <2> HIDE DEF change, old
  <2> QED BY <1>2, <1>5, <2>1, PendingNext
<1> HIDE DEF change
<1>9. /\ Ordered(Alive, text, Docs, Moving, edits)
      /\ {text, old.doc.nodes, old.got} \subseteq Docs
      /\ Told(journal) \subseteq Moving /\ Range(old.queue) \subseteq Moving
      /\ Range(old.doc.held) \subseteq Moving /\ Told(old.buffer) \subseteq Moving
      /\ UNION {Range(batch) : batch \in strays} \subseteq Moving
  BY AliveFrom DEF OrderInv
<1>10. Given(Range(old.queue)) \subseteq Names(text) \cup Given(Range(old.queue))
  OBVIOUS
<1>11. CASE Changed(page, page', p, kept) /\ old.fetch # "none"
  <2>1. /\ Told(Append(old.buffer, change)) = Told(old.buffer) \cup Range(change.ops)
        /\ (\E i \in DOMAIN Append(old.buffer, change) : Append(old.buffer, change)[i].resync)
              <=> (\E i \in DOMAIN old.buffer : old.buffer[i].resync) \/ change.resync
    BY <1>2, ToldAppend
  <2>2. /\ kept.state = old.state /\ kept.cursor = old.cursor + 1
        /\ kept.doc = old.doc /\ kept.queue = old.queue /\ kept.got = old.got
        /\ kept.buffer = Append(old.buffer, change) /\ kept.fetch = old.fetch
    BY <1>1 DEF PageRecords
  <2> HIDE DEF kept, old
  <2>3. /\ Pending(old, journal) = Range(change.ops) \cup Pending(kept, journal)
        /\ Missed(old, journal) <=> change.resync \/ Missed(kept, journal)
    BY <1>8, <2>2
  <2>4. Told(old.buffer) \cup Pending(old, journal) = Told(kept.buffer) \cup Pending(kept, journal)
    BY <2>1, <2>2, <2>3
  <2>5. HeardOK(kept, text, journal)
    BY <1>1, <1>3, <1>11, <2>1, <2>2, <2>3, <2>4 DEF HeardOK
  <2>6. OrderInv'
    <3>1. Changed(page, page', p, kept) /\ page[p] = old
      BY <1>11 DEF old
    <3> HIDE DEF Alive, Docs, Moving
    <3>2. /\ {kept.doc.nodes, kept.got} \subseteq Docs /\ Range(kept.doc.held) \subseteq Moving
          /\ Told(kept.buffer) \subseteq Moving
          /\ Range(kept.queue) \subseteq Range(page[p].queue)
          /\ Given(Range(page[p].queue)) \subseteq Names(text) \cup Given(Range(kept.queue))
      BY <1>7, <1>9, <1>10, <2>1, <2>2, <3>1
    <3> QED BY <1>3, <1>9, <3>1, <3>2, OrderQuiet
  <2> QED BY <1>3, <1>11, <2>5, <2>6, HeardPage
<1>12. CASE Changed(page, page', p, asks)
  <2>1. /\ asks.state = old.state /\ asks.cursor = old.cursor + 1
        /\ asks.doc = old.doc /\ asks.queue = old.queue /\ asks.got = old.got
        /\ asks.buffer = old.buffer /\ asks.fetch = "asked"
    BY <1>1 DEF PageRecords
  <2> HIDE DEF asks
  <2>2. OrderInv'
    <3> HIDE DEF Docs
    <3> QED BY <1>3, <1>12, <2>1, SamePage
  <2>3. HeardOK(asks, text, journal)
    BY <1>1, <1>3, <2>1 DEF HeardOK
  <2> QED BY <1>3, <1>12, <2>2, <2>3, HeardPage
<1>13. CASE Changed(page, page', p, takes) /\ old.fetch = "none" /\ ~change.resync
  <2>1. Grown(old.doc.nodes, Range(old.doc.held) \cup Range(change.ops), applied.nodes, Range(applied.held))
    BY <1>2, <1>6, ApplyAllGrows
  <2>2. Ordered(Alive, text, Docs \cup {applied.nodes}, Moving \cup Range(applied.held), edits)
    <3>1. /\ old.doc.nodes \in Docs /\ Range(old.doc.held) \subseteq Moving
          /\ Range(change.ops) \subseteq Moving
      BY <1>7, <1>9
    <3> HIDE DEF Alive, Docs, Moving
    <3> QED BY <1>2, <1>6, <1>9, <3>1, OrderApply
  <2>3. old.doc.held = <<>> /\ Range(old.doc.held) = {}
    <3>1. Range(<<>>) = {}
      BY DEF Range
    <3> HIDE DEF old
    <3> QED BY <1>1, <1>3, <1>13, <3>1 DEF HeardOK
  <2> HIDE DEF applied
  <2>4. /\ takes.state = old.state /\ takes.cursor = old.cursor + 1
        /\ takes.doc = applied /\ takes.queue = old.queue /\ takes.got = old.got
        /\ takes.buffer = old.buffer
        /\ takes.fetch = IF applied.held # <<>> THEN "asked" ELSE "none"
    BY <1>1 DEF PageRecords
  <2> HIDE DEF takes, old
  <2>5. /\ Pending(old, journal) = Range(change.ops) \cup Pending(takes, journal)
        /\ Missed(old, journal) <=> Missed(takes, journal)
    BY <1>8, <1>13, <2>4
  <2>6. applied.held = <<>> => Given(Range(change.ops)) \subseteq Names(applied.nodes)
                               /\ Cut(Range(change.ops)) \subseteq Gone(applied.nodes)
    <3> SUFFICES ASSUME applied.held = <<>>
                 PROVE  Given(Range(change.ops)) \subseteq Names(applied.nodes)
                        /\ Cut(Range(change.ops)) \subseteq Gone(applied.nodes)
      OBVIOUS
    <3>1. Range(<<>>) = {}
      BY DEF Range
    <3>2. \A op \in Range(change.ops) : Done(applied.nodes, op)
      BY <2>1, <3>1 DEF Grown
    <3> QED BY <3>2 DEF Done, Given, Cut
  <2>7. /\ Names(old.doc.nodes) \subseteq Names(applied.nodes)
        /\ Gone(old.doc.nodes) \subseteq Gone(applied.nodes)
        /\ Gone(applied.nodes) \subseteq Gone(old.doc.nodes) \cup Cut(Range(change.ops))
        /\ Cut(Range(applied.held)) \subseteq Cut(Range(change.ops))
    <3>1. /\ Range(applied.held) \subseteq Range(change.ops)
          /\ Range(old.doc.held) \cup Range(change.ops) = Range(change.ops)
      BY <2>1, <2>3 DEF Grown
    <3> QED BY <2>1, <3>1, CutFacts DEF Grown
  <2>8. takes.fetch = "none" =>
           Missed(takes, journal) \/ Covers(applied.nodes, Pending(takes, journal), text)
    <3> SUFFICES ASSUME applied.held = <<>>, ~Missed(takes, journal)
                 PROVE  Covers(applied.nodes, Pending(takes, journal), text)
      BY <2>4
    <3>1. Covers(old.doc.nodes, Range(change.ops) \cup Pending(takes, journal), text)
      BY <1>1, <1>3, <1>13, <2>5 DEF HeardOK
    <3>2. /\ Given(Range(change.ops) \cup Pending(takes, journal))
                = Given(Range(change.ops)) \cup Given(Pending(takes, journal))
          /\ Cut(Range(change.ops) \cup Pending(takes, journal))
                = Cut(Range(change.ops)) \cup Cut(Pending(takes, journal))
      BY GivenFacts, CutFacts
    <3> QED BY <2>6, <2>7, <3>1, <3>2 DEF Covers
  <2>9. takes.fetch = "none" => takes.doc.held = <<>>
    BY <2>4
  <2>10. takes.fetch # "answered"
    BY <2>4
  <2>11. HeardOK(takes, text, journal)
    BY <1>1, <1>3, <1>7, <2>4, <2>7, <2>8, <2>9, <2>10 DEF HeardOK
  <2>12. OrderInv'
    <3> DEFINE docs == Docs \cup {applied.nodes}
               ops == Moving \cup Range(applied.held)
    <3>1. Changed(page, page', p, takes) /\ page[p] = old
      BY <1>13 DEF old
    <3>2. /\ Docs \subseteq docs /\ {takes.doc.nodes, takes.got} \subseteq docs
          /\ Moving \subseteq ops /\ Range(takes.doc.held) \subseteq ops
          /\ Told(takes.buffer) \subseteq ops /\ Ordered(Alive, text, docs, ops, edits)
          /\ Range(takes.queue) \subseteq Range(page[p].queue)
          /\ Given(Range(page[p].queue)) \subseteq Names(text) \cup Given(Range(takes.queue))
      BY <1>9, <1>10, <2>2, <2>4, <3>1
    <3> HIDE DEF Alive, Docs, Moving, docs, ops
    <3> QED BY <1>3, <1>9, <3>1, <3>2, OrderQuiet
  <2> QED BY <1>3, <1>13, <2>11, <2>12, HeardPage
<1> QED BY <1>4, <1>11, <1>12, <1>13

\* The document after the text was fetched has what was fetched and what was heard meanwhile,
\* and has removed no more than that and what the page has still to send.
LEMMA FreshHeard ==
    ASSUME Inv, NEW p \in Pages, NEW fresh, Replayed(p).held = <<>>,
           fresh = CatchUp(Replayed(p), page[p].buffer)
    PROVE  /\ Names(page[p].got) \subseteq Names(fresh.nodes)
           /\ Gone(page[p].got) \subseteq Gone(fresh.nodes)
           /\ fresh.held = <<>> => /\ Given(Told(page[p].buffer)) \subseteq Names(fresh.nodes)
                                   /\ Cut(Told(page[p].buffer)) \subseteq Gone(fresh.nodes)
           /\ Gone(fresh.nodes) \subseteq Gone(text) \cup Cut(Range(page[p].queue))
           /\ Cut(Range(fresh.held)) \subseteq Gone(text)
<1> DEFINE queue == page[p].queue
           got == page[p].got
           told == page[p].buffer
           base == Replayed(p)
<1>1. PageOK(page[p], p, text, Version) /\ page[p] \in PageRecords
  BY PageFacts
<1>2. got \in Texts /\ queue \in Seq(OpRecords) /\ told \in Seq(Changes)
  BY <1>1 DEF PageRecords
<1>3. Within(got, text) /\ Cut(Told(told)) \subseteq Gone(text)
  <2>1. \A i \in 1..Len(told) : Stored(text, told[i].ops)
    BY <1>1 DEF PageOK
  <2>2. DOMAIN told = 1..Len(told)
    BY <1>2
  <2>3. Cut(Told(told)) \subseteq Gone(text)
    BY <2>1, <2>2 DEF Told, Stored, Done, Cut
  <2> QED BY <1>1, <2>3 DEF PageOK
<1>4. base = ApplyAll(Load(got), queue) /\ base.held = <<>> /\ fresh = CatchUp(base, told)
  BY DEF Replayed
<1>5. Load(got) \in DocRecords /\ Load(got).nodes = got /\ Range(Load(got).held) = {}
  BY <1>2 DEF Load, DocRecords, Range
<1> HIDE DEF queue, got, told, base
<1>6. base \in DocRecords
  BY <1>2, <1>4, <1>5, ApplyAllType
<1>7. Grown(got, Range(Load(got).held) \cup Range(queue), base.nodes, Range(base.held))
  BY <1>2, <1>4, <1>5, ApplyAllGrows
<1>8. Grown(base.nodes, Range(base.held) \cup Told(told), fresh.nodes, Range(fresh.held))
  BY <1>2, <1>4, <1>6, CatchUpGrows
<1>9. Range(<<>>) = {}
  BY DEF Range
<1>10. /\ Range(base.held) = {} /\ Range(Load(got).held) \cup Range(queue) = Range(queue)
       /\ Range(base.held) \cup Told(told) = Told(told)
  BY <1>4, <1>5, <1>9
<1>11. /\ Names(got) \subseteq Names(base.nodes) /\ Gone(got) \subseteq Gone(base.nodes)
       /\ Gone(base.nodes) \subseteq Gone(got) \cup Cut(Range(queue))
  BY <1>7, <1>10 DEF Grown
<1>12. /\ Names(base.nodes) \subseteq Names(fresh.nodes) /\ Gone(base.nodes) \subseteq Gone(fresh.nodes)
       /\ Gone(fresh.nodes) \subseteq Gone(base.nodes) \cup Cut(Told(told))
       /\ Range(fresh.held) \subseteq Told(told)
  BY <1>8, <1>10 DEF Grown
<1>13. ASSUME fresh.held = <<>>
       PROVE  Given(Told(told)) \subseteq Names(fresh.nodes) /\ Cut(Told(told)) \subseteq Gone(fresh.nodes)
  <2>1. \A op \in Told(told) : Done(fresh.nodes, op)
    BY <1>8, <1>9, <1>10, <1>13 DEF Grown
  <2> QED BY <2>1 DEF Done, Given, Cut
<1>14. Cut(Range(fresh.held)) \subseteq Cut(Told(told))
  BY <1>12, CutFacts
<1> QED BY <1>3, <1>11, <1>12, <1>13, <1>14 DEF queue, got, told, Within

\* The text fetched anew.
LEMMA ResyncConverges ==
    ASSUME Inv, OrderInv, HeardInv, NEW p \in Pages, Resync(p)
    PROVE  OrderInv' /\ HeardInv'
<1> DEFINE told == page[p].buffer
           fresh == CatchUp(Replayed(p), told)
           more == fresh.held # <<>> \/ \E i \in DOMAIN told : told[i].resync
           again == IF more THEN page[p].again + 1 ELSE 0
           state == IF again > Resyncs THEN "stopped" ELSE "open"
           fetch == IF more /\ again <= Resyncs THEN "asked" ELSE "none"
           ended == [page[p] EXCEPT !.fetch = "none", !.got = <<>>]
           gives == [ended EXCEPT !.state = "stopped"]
           takes == [ended EXCEPT !.doc = fresh, !.buffer = <<>>, !.again = again,
                                  !.state = state, !.fetch = fetch]
<1>1. /\ PageOK(page[p], p, text, Version) /\ page[p] \in PageRecords
      /\ HeardOK(page[p], text, journal)
  BY PageFacts DEF HeardInv
<1>2. /\ page[p].state = "open" /\ page[p].fetch = "answered"
      /\ text' = text /\ journal' = journal /\ strays' = strays /\ edits' = edits
  BY DEF Resync
<1>3. /\ ended \in PageRecords /\ ended.cursor = page[p].cursor /\ ended.got = <<>>
      /\ ended.queue = page[p].queue /\ ended.doc = page[p].doc
      /\ ended.buffer = page[p].buffer /\ ended.again = page[p].again
  <2>1. <<>> \in Texts
    BY DEF Texts
  <2> QED BY <1>1, <2>1 DEF PageRecords
<1>4. CASE Replayed(p).held # <<>>
  <2>1. Changed(page, page', p, gives)
    BY <1>1, <1>4 DEF Resync, Changed, Inv
  <2> HIDE DEF ended
  <2>2. /\ gives.got = <<>> /\ gives.queue = page[p].queue /\ gives.doc = page[p].doc
        /\ gives.buffer = page[p].buffer /\ gives.state = "stopped"
    BY <1>3 DEF PageRecords
  <2> HIDE DEF gives
  <2> QED BY <1>2, <2>1, <2>2, StopConverges
<1>5. CASE Replayed(p).held = <<>>
  <2>1. Changed(page, page', p, takes)
    BY <1>1, <1>5 DEF Resync, Changed, Inv, PageRecords
  <2>2. fresh = CatchUp(Replayed(p), page[p].buffer)
    OBVIOUS
  <2>3. /\ state \in {"open", "stopped"} /\ fetch \in {"asked", "none"} /\ again \in Nat
        /\ state = "open" /\ fetch = "none" => ~more
    <3>1. page[p].again \in Nat /\ page[p].again <= Resyncs /\ Resyncs \in Nat
      BY <1>1, <1>2, CanvasTextAssumption DEF PageOK, PageRecords
    <3> HIDE DEF more
    <3> QED BY <3>1
  <2> HIDE DEF again, state, fetch
  <2>4. ~more => fresh.held = <<>> /\ ~\E i \in DOMAIN told : told[i].resync
    OBVIOUS
  <2> HIDE DEF more, fresh
  <2>5. fresh \in DocRecords
    BY <1>5, <2>2, FreshFacts
  <2>6. /\ Names(page[p].got) \subseteq Names(fresh.nodes) /\ Gone(page[p].got) \subseteq Gone(fresh.nodes)
        /\ fresh.held = <<>> => /\ Given(Told(told)) \subseteq Names(fresh.nodes)
                                /\ Cut(Told(told)) \subseteq Gone(fresh.nodes)
        /\ Gone(fresh.nodes) \subseteq Gone(text) \cup Cut(Range(page[p].queue))
        /\ Cut(Range(fresh.held)) \subseteq Gone(text)
    BY <1>5, <2>2, FreshHeard
  <2> HIDE DEF ended
  <2>7. /\ takes.state = state /\ takes.cursor = page[p].cursor /\ takes.fetch = fetch
        /\ takes.doc = fresh /\ takes.queue = page[p].queue /\ takes.got = <<>>
        /\ takes.buffer = <<>>
    <3>1. <<>> \in Seq(Changes)
      OBVIOUS
    <3> QED BY <1>3, <2>3, <2>5, <3>1 DEF PageRecords
  <2> HIDE DEF takes
  <2>8. /\ Pending(takes, journal) = Pending(page[p], journal)
        /\ Missed(takes, journal) <=> Missed(page[p], journal)
    BY <2>7 DEF Pending, Missed
  <2>9. ASSUME fresh.held = <<>>, ~\E i \in DOMAIN told : told[i].resync
        PROVE  Missed(takes, journal) \/ Covers(fresh.nodes, Pending(takes, journal), text)
    <3> SUFFICES ASSUME ~Missed(takes, journal)
                 PROVE  Covers(fresh.nodes, Pending(takes, journal), text)
      OBVIOUS
    <3>1. Covers(page[p].got, Told(told) \cup Pending(takes, journal), text)
      BY <1>1, <1>2, <2>8, <2>9 DEF HeardOK
    <3>2. /\ Given(Told(told) \cup Pending(takes, journal))
                = Given(Told(told)) \cup Given(Pending(takes, journal))
          /\ Cut(Told(told) \cup Pending(takes, journal))
                = Cut(Told(told)) \cup Cut(Pending(takes, journal))
      BY GivenFacts, CutFacts
    <3> QED BY <2>6, <2>9, <3>1, <3>2 DEF Covers
  <2>10. HeardOK(takes, text, journal)
    <3>1. takes.state = "open" /\ takes.fetch = "none" =>
             /\ takes.doc.held = <<>>
             /\ Missed(takes, journal) \/ Covers(takes.doc.nodes, Pending(takes, journal), text)
      BY <2>3, <2>4, <2>7, <2>9
    <3>2. /\ takes.state \in {"open", "stopped"} /\ takes.fetch # "answered"
          /\ Gone(takes.doc.nodes) \subseteq Gone(text) \cup Cut(Range(takes.queue))
          /\ Cut(Range(takes.doc.held)) \subseteq Gone(text) \cup Cut(Range(takes.queue))
      BY <2>3, <2>6, <2>7
    <3> QED BY <3>1, <3>2 DEF HeardOK
  <2>11. OrderInv'
    <3> DEFINE base == Replayed(p)
               docs == (Docs \cup {base.nodes}) \cup {fresh.nodes}
               ops == (Moving \cup Range(base.held)) \cup Range(fresh.held)
               some == docs \cup {<<>>}
    <3>1. /\ page[p].queue \in Seq(OpRecords) /\ page[p].buffer \in Seq(Changes)
          /\ page[p].got \in Texts
      BY <1>1 DEF PageRecords
    <3>2. /\ Load(page[p].got) \in DocRecords /\ Load(page[p].got).nodes = page[p].got
          /\ Range(Load(page[p].got).held) = {}
      BY <3>1 DEF Load, DocRecords, Range
    <3>3. base = ApplyAll(Load(page[p].got), page[p].queue)
      BY DEF Replayed
    <3>4. base \in DocRecords
      BY <3>1, <3>2, <3>3, ApplyAllType
    <3> HIDE DEF base
    <3>5. /\ Ordered(Alive, text, Docs, Moving, edits) /\ page[p].got \in Docs
          /\ Range(page[p].queue) \subseteq Moving /\ Told(page[p].buffer) \subseteq Moving
          /\ UNION {Range(batch) : batch \in strays} \subseteq Moving
      BY AliveFrom DEF OrderInv
    <3> HIDE DEF Alive, Docs, Moving
    <3>6. Ordered(Alive, text, Docs \cup {base.nodes}, Moving \cup Range(base.held), edits)
      <4>1. Load(page[p].got).nodes \in Docs /\ Range(Load(page[p].got).held) \subseteq Moving
        BY <3>2, <3>5
      <4> QED BY <3>1, <3>2, <3>3, <3>5, <4>1, OrderApply
    <3>7. Ordered(Alive, text, docs, ops, edits)
      <4>1. fresh = CatchUp(base, page[p].buffer)
        BY <2>2 DEF base
      <4>2. /\ base.nodes \in Docs \cup {base.nodes}
            /\ Range(base.held) \subseteq Moving \cup Range(base.held)
            /\ Told(page[p].buffer) \subseteq Moving \cup Range(base.held)
        BY <3>5
      <4> QED BY <3>1, <3>4, <3>6, <4>1, <4>2, OrderCatchUp
    <3>8. Ordered(Alive, text, some, ops, edits)
      <4> HIDE DEF docs, ops
      <4> QED BY <3>7, OrderEmpty
    <3>9. /\ Docs \subseteq some /\ {takes.doc.nodes, takes.got} \subseteq some
          /\ Moving \subseteq ops /\ Range(takes.doc.held) \subseteq ops
          /\ Range(takes.queue) \subseteq Range(page[p].queue)
          /\ Given(Range(page[p].queue)) \subseteq Names(text) \cup Given(Range(takes.queue))
      BY <2>7
    <3>10. Told(takes.buffer) \subseteq ops
      BY <2>7 DEF Told
    <3>11. UNION {Range(batch) : batch \in strays'} \subseteq Moving
      BY <1>2, <3>5
    <3> HIDE DEF some, ops
    <3> QED BY <1>2, <2>1, <3>8, <3>9, <3>10, <3>11, OrderQuiet
  <2> QED BY <1>2, <2>1, <2>10, <2>11, HeardPage
<1> QED BY <1>4, <1>5

-----------------------------------------------------------------------------
(* The order in every state.                                               *)

\* The first states: one character, the seed, and nobody has written.
LEMMA InitConverges == Init => OrderInv /\ HeardInv
<1> SUFFICES ASSUME Init PROVE OrderInv /\ HeardInv
  OBVIOUS
<1> DEFINE seed == <<1, Seed>>
           none == <<>>
<1>1. /\ Inv /\ seed \in CharNames /\ Node(seed, 0) \in NodeRecords
      /\ text = <<Node(seed, 0)>> /\ text \in Texts /\ Len(text) = 1 /\ text[1] = Node(seed, 0)
      /\ journal = <<>> /\ strays = {} /\ edits = 0
  BY InitInv DEF Init, Writers, CharNames, Seed, NodeRecords, Node, Texts
<1>2. /\ Names(none) = {} /\ Gone(none) = {} /\ Chars(none) = {} /\ Range(none) = {}
      /\ Told(none) = {} /\ Given({}) = {} /\ Cut({}) = {} /\ none \in Texts
  BY GivenFacts, CutFacts DEF Names, Gone, Chars, Range, Told, Texts
<1>3. Names(text) = {seed} /\ Chars(text) = {<<seed, 0>>}
  <2>1. DOMAIN text = {1} /\ text[1].id = seed /\ text[1].value = 0
    BY <1>1 DEF Node
  <2> QED BY <2>1 DEF Names, Chars
<1>4. \A p \in Pages :
         /\ page[p].queue = none /\ page[p].got = none /\ page[p].buffer = none
         /\ page[p].doc.held = none /\ page[p].doc.nodes \in {none, text}
         /\ page[p].cursor = 0 /\ page[p].fetch = "none"
         /\ page[p].state = "open" => page[p].doc.nodes = text
  BY DEF Init, Closed, Empty, Load
<1>5. Alive = {seed} /\ Docs \subseteq {text, none} /\ Moving = {} /\ text \in Docs
  <2>1. \A p \in Pages : Given(Range(page[p].queue)) = {} /\ Carried(page[p]) = {}
    BY <1>2, <1>4 DEF Carried
  <2>2. Told(journal) = {}
    BY <1>1, <1>2
  <2>3. Alive = {seed}
    BY <1>3, <2>1 DEF Alive
  <2>4. Docs \subseteq {text, none} /\ text \in Docs
    BY <1>4 DEF Docs
  <2>5. Moving = {}
    BY <1>1, <2>1, <2>2 DEF Moving
  <2> QED BY <2>3, <2>4, <2>5
<1>6. OrderInv
  <2> DEFINE top == [a \in {} |-> Start]
  <2>1. Tree({}, top, {})
    BY DEF Tree, OrderOf
  <2>2. seed \notin {} /\ Start \in {} \cup {Start}
    OBVIOUS
  <2> HIDE DEF seed, top
  <2>3. PICK more, under : Deeper({}, top, {}, Start, seed, more, under)
    BY <1>1, <2>1, <2>2, TreeGrows
  <2>4. Tree({seed}, under, more) /\ under[seed] = Start
    <3>1. {} \cup {seed} = {seed}
      OBVIOUS
    <3> QED BY <2>3, <3>1 DEF Deeper
  <2>5. Sorted(text, under, more)
    <3>1. \A i \in 1..Len(text) : text[i].id = seed
      BY <1>1 DEF Node
    <3>2. ~\E i, j \in 1..Len(text) : i < j
      BY <1>1
    <3> QED BY <2>4, <3>1, <3>2 DEF Sorted
  <2>6. Sorted(none, under, more)
    BY DEF Sorted
  <2>7. \A d \in {text, none} : Drawn(d, {seed}, under, more, Chars(text))
    <3> HIDE DEF none
    <3> QED BY <1>1, <1>2, <1>3, <2>5, <2>6 DEF Drawn
  <2>8. edits \in Nat /\ \A c \in Chars(text) : c[2] <= edits
    BY <1>1, <1>3
  <2> HIDE DEF none, Alive, Docs, Moving
  <2>9. OrderedBy(under, more, {seed}, text, Docs, Moving, edits)
    BY <1>5, <2>4, <2>7, <2>8 DEF OrderedBy
  <2> QED BY <1>5, <2>9 DEF OrderInv, Ordered
<1>7. HeardInv
  <2> SUFFICES ASSUME NEW p \in Pages PROVE HeardOK(page[p], text, journal)
    BY DEF HeardInv
  <2>1. page[p].state = "open" => Covers(page[p].doc.nodes, Pending(page[p], journal), text)
    BY <1>4 DEF Covers
  <2>2. page[p].state = "open" => Gone(page[p].doc.nodes) \subseteq Gone(text)
    BY <1>4
  <2>3. Cut(Range(page[p].doc.held)) = {}
    BY <1>2, <1>4
  <2> QED BY <1>4, <2>1, <2>2, <2>3 DEF HeardOK
<1> QED BY <1>6, <1>7

\* Every step keeps it.
LEMMA NextConverges == Inv /\ OrderInv /\ HeardInv /\ [Next]_vars => OrderInv' /\ HeardInv'
<1> SUFFICES ASSUME Inv, OrderInv, HeardInv, [Next]_vars PROVE OrderInv' /\ HeardInv'
  OBVIOUS
<1>1. ASSUME NEW prefix \in 0..MaxLength, NEW removed \in 0..1, NEW inserted \in Runs,
             SyncCanvasText(prefix, removed, inserted)
      PROVE  OrderInv' /\ HeardInv'
  BY <1>1, SyncConverges
<1>2. ASSUME NEW prefix \in 0..MaxLength, NEW removed \in 0..1, NEW inserted \in Runs,
             NEW p \in Pages, Capture(p, prefix, removed, inserted)
      PROVE  OrderInv' /\ HeardInv'
  BY <1>2, CaptureConverges
<1>3. ASSUME NEW ops \in strays, StrayArrives(ops) PROVE OrderInv' /\ HeardInv'
  BY <1>3, StrayConverges
<1>4. ASSUME NEW p \in Pages, Open(p) PROVE OrderInv' /\ HeardInv'
  BY <1>4, OpenConverges
<1>5. ASSUME NEW p \in Pages, SendFails(p) PROVE OrderInv' /\ HeardInv'
  BY <1>5, SendFailsConverges
<1>6. ASSUME NEW p \in Pages, FetchFails(p) PROVE OrderInv' /\ HeardInv'
  BY <1>6, FetchFailsConverges
<1>7. ASSUME NEW p \in Pages, PageStep(p) PROVE OrderInv' /\ HeardInv'
  <2>1. CASE Render(p)
    BY <2>1, RenderConverges
  <2>2. CASE Send(p)
    <3>1. page' = page /\ text' = text /\ journal' = journal /\ edits' = edits /\ strays' = strays
      BY <2>2 DEF Send
    <3> QED BY <3>1, QuietConverges
  <2>3. CASE Sent(p)
    BY <2>3, SentConverges
  <2>4. CASE Refused(p)
    BY <2>4, RefusedConverges
  <2>5. CASE Receive(p)
    BY <2>5, ReceiveConverges
  <2>6. CASE Fetch(p)
    BY <2>6, FetchConverges
  <2>7. CASE Resync(p)
    BY <2>7, ResyncConverges
  <2> QED BY <1>7, <2>1, <2>2, <2>3, <2>4, <2>5, <2>6, <2>7 DEF PageStep
<1>8. ASSUME NEW p \in Pages, ServerStep(p) PROVE OrderInv' /\ HeardInv'
  <2>1. CASE Read(p)
    <3>1. page' = page /\ text' = text /\ journal' = journal /\ edits' = edits /\ strays' = strays
      BY <2>1 DEF Read
    <3> QED BY <3>1, QuietConverges
  <2>2. CASE Commit(p)
    BY <2>2, CommitConverges
  <2>3. CASE Conflict(p)
    <3>1. page' = page /\ text' = text /\ journal' = journal /\ edits' = edits /\ strays' = strays
      BY <2>3 DEF Conflict
    <3> QED BY <3>1, QuietConverges
  <2> QED BY <1>8, <2>1, <2>2, <2>3 DEF ServerStep
<1>9. CASE UNCHANGED vars
  <2>1. page' = page /\ text' = text /\ journal' = journal /\ edits' = edits /\ strays' = strays
    BY <1>9 DEF vars
  <2> QED BY <2>1, QuietConverges
<1> QED BY <1>1, <1>2, <1>3, <1>4, <1>5, <1>6, <1>7, <1>8, <1>9 DEF Next

-----------------------------------------------------------------------------
(* A page that has heard everything reads what the canvas reads.           *)

\* In one order, a text with the names of another begins as that one does.
LEMMA SortedBegins ==
    ASSUME NEW names, NEW par, NEW B, OrderOf(names, B),
           NEW one \in Texts, NEW other \in Texts, Names(one) \subseteq names,
           Names(one) = Names(other), Sorted(one, par, B), Sorted(other, par, B)
    PROVE  \A i \in 1..Len(one) : i <= Len(other) /\ one[i].id = other[i].id
<1> DEFINE Same(i) == i <= Len(other) /\ one[i].id = other[i].id
           S == {k \in 0..Len(one) : \A i \in 1..k : Same(i)}
<1>1. /\ Len(one) \in Nat /\ Len(other) \in Nat
      /\ DOMAIN one = 1..Len(one) /\ DOMAIN other = 1..Len(other)
  BY DEF Texts
<1>2. /\ \A i, j \in 1..Len(one) : i < j => <<one[i].id, one[j].id>> \in B
      /\ \A i, j \in 1..Len(other) : i < j => <<other[i].id, other[j].id>> \in B
  BY DEF Sorted
<1>3. /\ \A a \in Names(one) : <<a, a>> \notin B
      /\ \A a, b \in Names(one) : ~(<<a, b>> \in B /\ <<b, a>> \in B)
  BY DEF OrderOf
<1>4. /\ \A i \in 1..Len(one) : one[i].id \in Names(one) /\ \E l \in 1..Len(other) : other[l].id = one[i].id
      /\ \A i \in 1..Len(other) : other[i].id \in Names(one) /\ \E l \in 1..Len(one) : one[l].id = other[i].id
  BY <1>1 DEF Names
<1>5. ASSUME NEW k \in 1..Len(one), \A i \in 1..(k - 1) : Same(i) PROVE Same(k)
  <2>1. PICK l \in 1..Len(other) : other[l].id = one[k].id
    BY <1>4
  <2>2. ~(l < k)
    <3> SUFFICES ASSUME l < k PROVE FALSE
      OBVIOUS
    <3>1. l \in 1..Len(one) /\ l \in 1..(k - 1)
      BY <1>1
    <3>2. one[l].id = other[l].id /\ <<one[l].id, one[k].id>> \in B
      BY <1>2, <1>5, <3>1
    <3> QED BY <1>3, <1>4, <2>1, <3>2
  <2>3. CASE l = k
    BY <2>1, <2>3
  <2>4. CASE k < l
    <3>1. k \in 1..Len(other) /\ k <= Len(other)
      BY <1>1, <2>4
    <3>2. PICK m \in 1..Len(one) : one[m].id = other[k].id
      BY <1>4, <3>1
    <3>3. ~(m < k)
      <4> SUFFICES ASSUME m < k PROVE FALSE
        OBVIOUS
      <4>1. m \in 1..(k - 1) /\ m \in 1..Len(other)
        BY <1>1, <3>1
      <4>2. one[m].id = other[m].id /\ <<other[m].id, other[k].id>> \in B
        BY <1>2, <1>5, <3>1, <4>1
      <4> QED BY <1>3, <1>4, <3>1, <3>2, <4>2
    <3>4. ~(k < m)
      <4> SUFFICES ASSUME k < m PROVE FALSE
        OBVIOUS
      <4>1. <<one[k].id, one[m].id>> \in B /\ <<other[k].id, other[l].id>> \in B
        BY <1>2, <2>4, <3>1
      <4> QED BY <1>3, <1>4, <2>1, <3>2, <4>1
    <3> QED BY <1>1, <3>1, <3>2, <3>3, <3>4
  <2> QED BY <1>1, <2>2, <2>3, <2>4
<1> HIDE DEF Same
<1>6. 0 \in S
  BY <1>1
<1>7. ASSUME NEW k \in 1..Len(one), k - 1 \in S PROVE k \in S
  <2>1. \A i \in 1..(k - 1) : Same(i)
    BY <1>7
  <2>2. Same(k)
    BY <1>5, <2>1
  <2>3. \A i \in 1..k : i \in 1..(k - 1) \/ i = k
    BY <1>1
  <2> QED BY <1>1, <2>1, <2>2, <2>3
<1> HIDE DEF S
<1>8. Len(one) \in S
  <2>1. \A k \in 0..Len(one) : k \in S
    BY <1>1, <1>6, <1>7, Steps
  <2> QED BY <1>1, <2>1
<1> QED BY <1>8 DEF S, Same

\* Whoever has heard everything has the canvas's text.
LEMMA HeardAgrees == Inv /\ OrderInv /\ HeardInv => QuietPagesAgree
<1> SUFFICES ASSUME Inv, OrderInv, HeardInv, ~Reused, NEW p \in Pages, Quiet(p)
             PROVE  page[p].doc = Load(text)
  BY DEF QuietPagesAgree
<1> DEFINE nodes == page[p].doc.nodes
<1>1. /\ PageOK(page[p], p, text, Version) /\ HeardOK(page[p], text, journal)
      /\ CanvasOK(text, journal) /\ page[p] \in PageRecords
  BY PageFacts DEF HeardInv
<1>2. /\ page[p].doc \in DocRecords /\ nodes \in Texts /\ Distinct(nodes)
      /\ text \in Texts /\ Distinct(text)
  BY <1>1 DEF PageOK, PageRecords, DocRecords, CanvasOK
<1>3. /\ page[p].state = "open" /\ page[p].fetch = "none"
      /\ page[p].cursor = Len(journal) /\ page[p].queue = <<>>
  BY DEF Quiet, Version
<1>4. Given(Range(page[p].queue)) = {} /\ Cut(Range(page[p].queue)) = {}
  <2>1. Range(<<>>) = {}
    BY DEF Range
  <2> QED BY <1>3, <2>1, GivenFacts, CutFacts
<1>5. Pending(page[p], journal) = {} /\ ~Missed(page[p], journal)
  <2>1. Len(journal) \in Nat
    BY <1>1 DEF CanvasOK
  <2>2. (page[p].cursor + 1)..Len(journal) = {}
    BY <1>3, <2>1
  <2> QED BY <2>2 DEF Pending, Missed
<1>6. page[p].doc.held = <<>> /\ Covers(nodes, {}, text)
  BY <1>1, <1>3, <1>5 DEF HeardOK
<1>7. Names(nodes) = Names(text) /\ Gone(nodes) = Gone(text)
  <2>1. Names(text) \subseteq Names(nodes) /\ Gone(text) \subseteq Gone(nodes)
    BY <1>6, GivenFacts, CutFacts DEF Covers
  <2>2. Names(nodes) \subseteq Names(text)
    BY <1>1, <1>4 DEF PageOK
  <2>3. Gone(nodes) \subseteq Gone(text)
    BY <1>1, <1>3, <1>4 DEF HeardOK
  <2> QED BY <2>1, <2>2, <2>3
<1>8. PICK par, B : OrderedBy(par, B, Alive, text, Docs, Moving, edits)
  BY DEF OrderInv, Ordered
<1>9. ASSUME NEW d \in {nodes, text}
      PROVE  Names(d) \subseteq Alive /\ Sorted(d, par, B) /\ Chars(d) \subseteq Everywhere
  <2>1. d \in Docs /\ d \in Replicas
    BY DEF Docs, Replicas
  <2>2. Drawn(d, Alive, par, B, Chars(text))
    BY <1>8, <2>1 DEF OrderedBy
  <2>3. Chars(d) \subseteq Everywhere /\ Chars(text) \subseteq Everywhere
    BY <2>1 DEF Replicas, Everywhere
  <2>4. ~Clash(Chars(d), Chars(text))
    BY <2>3 DEF Clash, Reused
  <2> QED BY <2>2, <2>3, <2>4 DEF Drawn
<1>10. OrderOf(Alive, B)
  BY <1>8 DEF OrderedBy, Tree
<1> HIDE DEF nodes
<1>11. /\ \A i \in 1..Len(nodes) : i <= Len(text) /\ nodes[i].id = text[i].id
       /\ \A i \in 1..Len(text) : i <= Len(nodes) /\ text[i].id = nodes[i].id
  <2>1. /\ Names(nodes) \subseteq Alive /\ Names(text) \subseteq Alive
        /\ Sorted(nodes, par, B) /\ Sorted(text, par, B)
    BY <1>9
  <2> HIDE DEF Alive
  <2>2. \A i \in 1..Len(nodes) : i <= Len(text) /\ nodes[i].id = text[i].id
    BY <1>2, <1>7, <1>10, <2>1, SortedBegins
  <2>3. \A i \in 1..Len(text) : i <= Len(nodes) /\ text[i].id = nodes[i].id
    BY <1>2, <1>7, <1>10, <2>1, SortedBegins
  <2> QED BY <2>2, <2>3
<1>12. /\ Len(nodes) = Len(text) /\ Len(text) \in Nat
       /\ DOMAIN nodes = 1..Len(nodes) /\ DOMAIN text = 1..Len(text)
  <2>1. /\ Len(nodes) \in Nat /\ Len(text) \in Nat
        /\ DOMAIN nodes = 1..Len(nodes) /\ DOMAIN text = 1..Len(text)
    BY <1>2 DEF Texts
  <2>2. Len(nodes) <= Len(text)
    BY <1>11, <2>1
  <2>3. Len(text) <= Len(nodes)
    BY <1>11, <2>1
  <2>4. \A m, n \in Nat : m <= n /\ n <= m => m = n
    OBVIOUS
  <2>5. Len(nodes) \in Nat /\ Len(text) \in Nat
    BY <2>1
  <2>6. Len(nodes) = Len(text)
    BY <2>2, <2>3, <2>4, <2>5, Zenon
  <2> QED BY <2>1, <2>6
<1>13. ASSUME NEW i \in 1..Len(text) PROVE nodes[i] = text[i]
  <2>1. /\ i \in DOMAIN nodes /\ i \in DOMAIN text /\ nodes[i].id = text[i].id
        /\ nodes[i] \in NodeRecords /\ text[i] \in NodeRecords
    BY <1>2, <1>11, <1>12 DEF Texts
  <2>2. nodes[i].value = text[i].value
    <3>1. <<nodes[i].id, nodes[i].value>> \in Everywhere /\ <<text[i].id, text[i].value>> \in Everywhere
      BY <1>9, <2>1 DEF Chars
    <3> QED BY <2>1, <3>1 DEF Reused
  <2>3. nodes[i].deleted = text[i].deleted
    <3>1. nodes[i].deleted <=> nodes[i].id \in Gone(nodes)
      BY <1>2, <2>1 DEF Gone, Distinct
    <3>2. text[i].deleted <=> text[i].id \in Gone(text)
      BY <1>2, <2>1 DEF Gone, Distinct
    <3> QED BY <1>7, <2>1, <3>1, <3>2 DEF NodeRecords
  <2> QED BY <2>1, <2>2, <2>3 DEF NodeRecords
<1>14. nodes = text
  BY <1>2, <1>12, <1>13 DEF Texts
<1>15. page[p].doc = [nodes |-> nodes, held |-> <<>>]
  BY <1>2, <1>6 DEF DocRecords, nodes
<1> QED BY <1>14, <1>15 DEF Load

-----------------------------------------------------------------------------

\* In every state there is one order of all characters, which every replica follows unless two
\* characters got one name; and what an open page lacks it will be told (crdt Apply; receive
\* and resync of the page).
THEOREM OrderIsKept == Spec => [](Inv /\ OrderInv /\ HeardInv)
<1>1. Init => Inv /\ OrderInv /\ HeardInv
  BY InitInv, InitConverges
<1>2. Inv /\ OrderInv /\ HeardInv /\ [Next]_vars => (Inv /\ OrderInv /\ HeardInv)'
  BY NextInv, NextConverges
<1> QED BY <1>1, <1>2, PTL DEF Spec

\* Replicas merge to one text: whatever has reached whom, any two have what they share in the
\* same order, and a page that has heard of every write and has nothing left to send reads what
\* the canvas reads, character for character.
THEOREM Convergence == Spec => []ReplicasConverge
<1>1. Inv /\ OrderInv /\ HeardInv => ReplicasConverge
  BY InvTypeOK, OrderInvAgrees, HeardAgrees DEF ReplicasConverge
<1> QED BY <1>1, OrderIsKept, PTL
=============================================================================
