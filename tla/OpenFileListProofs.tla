------------------------- MODULE OpenFileListProofs -------------------------
(***************************************************************************)
(* The handles of OpenFileList are unique and its list implements the      *)
(* table of open files, for every set of names, files and commands.        *)
(***************************************************************************)
EXTENDS OpenFileList, FiniteSetTheorems, FunctionTheorems, TLAPS

\* What each position of t holds if t is s with e inserted behind p.
Inserted(t, s, p, e) ==
    /\ Len(t) = Len(s) + 1
    /\ \A i \in 1..Len(s) + 1 : t[i] =
          IF i <= p THEN s[i] ELSE IF i = p + 1 THEN e ELSE s[i - 1]

\* InsertAfter yields a sequence with the element inserted.
LEMMA InsertAfterSeq ==
    ASSUME NEW S, NEW s \in Seq(S), NEW p \in 0..Len(s), NEW e \in S
    PROVE  InsertAfter(s, p, e) \in Seq(S) /\ Inserted(InsertAfter(s, p, e), s, p, e)
<1> DEFINE t == InsertAfter(s, p, e)
<1>1. Len(s) \in Nat /\ \A i \in 1..Len(s) : s[i] \in S
  OBVIOUS
<1>2. \A i \in 1..Len(s) + 1 :
        (IF i <= p THEN s[i] ELSE IF i = p + 1 THEN e ELSE s[i - 1]) \in S
  BY <1>1
<1>3. t \in Seq(S)
  BY <1>1, <1>2 DEF InsertAfter
<1>4. Len(t) = Len(s) + 1
  BY <1>1, <1>2 DEF InsertAfter
<1> QED
  BY <1>1, <1>3, <1>4 DEF InsertAfter, Inserted

\* A sequence with an element removed: what each position holds.
LEMMA WithoutSeq ==
    ASSUME NEW S, NEW s \in Seq(S), NEW p \in 1..Len(s)
    PROVE  /\ Without(s, p) \in Seq(S)
           /\ Len(Without(s, p)) = Len(s) - 1
           /\ \A i \in 1..Len(s) - 1 :
                Without(s, p)[i] = IF i < p THEN s[i] ELSE s[i + 1]
<1> DEFINE t == Without(s, p)
<1>1. Len(s) \in Nat /\ \A i \in 1..Len(s) : s[i] \in S
  OBVIOUS
<1>2. \A i \in 1..Len(s) - 1 : (IF i < p THEN s[i] ELSE s[i + 1]) \in S
  BY <1>1
<1>3. t \in Seq(S)
  BY <1>1, <1>2 DEF Without
<1>4. Len(t) = Len(s) - 1
  BY <1>1, <1>2 DEF Without
<1> QED
  BY <1>1, <1>3, <1>4 DEF Without

(***************************************************************************)
(* What each operation does to the list and to the set of live nodes.      *)
(***************************************************************************)

\* The list variables have their types; list->num is treated below.
ListTypes ==
    /\ nodes \in Seq(Node)
    /\ dangling \in BOOLEAN
    /\ lost \in SUBSET Node

\* The inductive invariant of the list itself.
ListInv == ListTypes /\ HandlesAscend

\* Every reachable node is a node, with a positive handle.
LEMMA HandleNat ==
    ASSUME ListInv, NEW i \in 1..Len(nodes)
    PROVE  nodes[i] \in Node /\ nodes[i].fHandle \in Nat
<1>1. nodes[i] \in Node
  BY DEF ListInv, ListTypes
<1> QED
  BY <1>1, HandleAssumption DEF Node, Handles

\* Two live nodes with one handle are one node.
LEMMA UniqueHandles ==
    ASSUME ListInv
    PROVE  /\ Live \subseteq Node
           /\ \A x, y \in Live : x.fHandle = y.fHandle => x = y
<1> USE DEF ListInv, ListTypes
<1>1. Len(nodes) \in Nat /\ \A i \in 1..Len(nodes) : nodes[i] \in Node
  OBVIOUS
<1>2. Live \subseteq Node
  BY <1>1 DEF Live
<1>3. ASSUME NEW x \in Live, NEW y \in Live, x.fHandle = y.fHandle
      PROVE  x = y
  <2>1. CASE x \in lost /\ y \in lost
    BY <2>1, <1>3 DEF HandlesAscend
  <2>2. CASE x \in lost /\ y \notin lost
    <3>1. PICK j \in 1..Len(nodes) : y = nodes[j]
      BY <2>2 DEF Live
    <3>2. nodes[j].fHandle < x.fHandle
      BY <2>2 DEF HandlesAscend
    <3> QED
      BY <3>1, <3>2, <1>1, <1>2, <1>3, HandleAssumption DEF Node, Handles
  <2>3. CASE x \notin lost /\ y \in lost
    <3>1. PICK j \in 1..Len(nodes) : x = nodes[j]
      BY <2>3 DEF Live
    <3>2. nodes[j].fHandle < y.fHandle
      BY <2>3 DEF HandlesAscend
    <3> QED
      BY <3>1, <3>2, <1>1, <1>2, <1>3, HandleAssumption DEF Node, Handles
  <2>4. CASE x \notin lost /\ y \notin lost
    <3>1. PICK i \in 1..Len(nodes), j \in 1..Len(nodes) :
            x = nodes[i] /\ y = nodes[j]
      BY <2>4 DEF Live
    <3>2. /\ i < j => nodes[i].fHandle < nodes[j].fHandle
          /\ j < i => nodes[j].fHandle < nodes[i].fHandle
      BY DEF HandlesAscend
    <3>3. nodes[i].fHandle \in Int
      BY <1>1, HandleAssumption DEF Node, Handles
    <3> QED
      BY <3>1, <3>2, <3>3, <1>1, <1>3
  <2> QED
    BY <2>1, <2>2, <2>3, <2>4
<1> QED
  BY <1>2, <1>3

\* insert_openflist keeps the handles ascending and adds one node, under a
\* handle no live node has.
LEMMA InsertStep ==
    ASSUME ListInv, NEW n \in Names, NEW f \in Files,
           \A x \in Live : x.fHandle < MaxHandle,
           ~InsertReadsFreed, insert_openflist(n, f)
    PROVE  /\ ListInv'
           /\ \E new \in Node :
                 /\ new.fname = n
                 /\ \A x \in Live : x.fHandle # new.fHandle
                 /\ Live' = Live \cup {new}
<1> DEFINE node(h) == [fHandle |-> h, fname |-> n, file |-> f, fp |-> "open"]
<1> USE DEF ListInv, ListTypes
<1>1. Len(nodes) \in Nat /\ \A i \in 1..Len(nodes) : nodes[i] \in Node
  OBVIOUS
<1>2. \A i \in 1..Len(nodes) : nodes[i].fHandle \in Nat
  BY <1>1, HandleAssumption DEF Node, Handles
<1>3. UNCHANGED <<dangling, lost>>
  BY DEF insert_openflist
<1>4. CASE nodes = <<>> /\ nodes' = <<node(FS_OPENFILE_HANDLE_START)>>
  <2>1. ~dangling /\ lost = {}
    BY <1>4 DEF InsertReadsFreed, HandlesAscend
  <2>2. node(1) \in Node
    BY HandleAssumption DEF Node, Handles
  <2>3. nodes' = <<node(1)>> /\ Len(nodes') = 1 /\ nodes'[1] = node(1)
    BY <1>4 DEF FS_OPENFILE_HANDLE_START
  <2>4. ListInv'
    BY <1>3, <2>1, <2>2, <2>3 DEF HandlesAscend
  <2>5. Live = {}
    BY <1>4, <2>1 DEF Live
  <2>6. Live' = {node(1)}
    BY <2>1, <2>3, <1>3 DEF Live
  <2> QED
    BY <2>2, <2>4, <2>5, <2>6
<1>5. ASSUME NEW p \in 1..Len(nodes), StopsAt(p),
             nodes' = InsertAfter(nodes, p, node(nodes[p].fHandle + 1))
      PROVE  /\ ListInv'
             /\ \E new \in Node :
                   /\ new.fname = n
                   /\ \A x \in Live : x.fHandle # new.fHandle
                   /\ Live' = Live \cup {new}
  <2> DEFINE new == node(nodes[p].fHandle + 1)
  <2>1. nodes[p] \in Live
    BY DEF Live
  <2>2. new \in Node /\ new.fHandle = nodes[p].fHandle + 1
    BY <1>2, <2>1, HandleAssumption DEF Node, Handles
  <2> HIDE DEF new
  <2>3. /\ nodes' \in Seq(Node)
        /\ Len(nodes') = Len(nodes) + 1
        /\ \A i \in 1..Len(nodes) + 1 : nodes'[i] =
             IF i <= p THEN nodes[i] ELSE IF i = p + 1 THEN new
                                                       ELSE nodes[i - 1]
    <3>1. p \in 0..Len(nodes)
      BY <1>1
    <3>2. nodes' = InsertAfter(nodes, p, new)
      BY <1>5 DEF new
    <3>3. nodes \in Seq(Node) /\ new \in Node
      BY <2>2
    <3>4. nodes' \in Seq(Node) /\ Inserted(nodes', nodes, p, new)
      BY ONLY <3>1, <3>2, <3>3, InsertAfterSeq, Zenon
    <3> QED
      BY ONLY <3>4 DEF Inserted
  <2>4. p = Len(nodes) => lost = {}
    BY <1>5 DEF InsertReadsFreed, HandlesAscend
  <2>5. \A i \in 1..Len(nodes) : i <= p => nodes[i].fHandle < new.fHandle
    BY <1>2, <2>2 DEF HandlesAscend
  <2>6. p < Len(nodes) => nodes[p + 1].fHandle > new.fHandle
    BY <1>1, <1>2, <1>5, <2>2 DEF HandlesAscend, StopsAt
  <2>7. \A i \in 1..Len(nodes) : i > p => new.fHandle < nodes[i].fHandle
    <3> SUFFICES ASSUME NEW i \in 1..Len(nodes), i > p
                 PROVE  new.fHandle < nodes[i].fHandle
      OBVIOUS
    <3>1. p + 1 \in 1..Len(nodes) /\ new.fHandle < nodes[p + 1].fHandle
      BY <1>1, <2>6
    <3>2. i = p + 1 \/ nodes[p + 1].fHandle < nodes[i].fHandle
      BY <3>1 DEF HandlesAscend
    <3>3. new.fHandle \in Nat
      BY <2>2, HandleAssumption DEF Node, Handles
    <3> QED
      BY <1>2, <3>1, <3>2, <3>3
  <2>8. \A x \in lost : new.fHandle < x.fHandle
    <3> SUFFICES ASSUME NEW x \in lost
                 PROVE  new.fHandle < x.fHandle
      OBVIOUS
    <3>1. p + 1 \in 1..Len(nodes) /\ new.fHandle < nodes[p + 1].fHandle
      BY <1>1, <2>4, <2>6
    <3>2. nodes[p + 1].fHandle < x.fHandle
      BY <3>1 DEF HandlesAscend
    <3>3. new.fHandle \in Nat /\ x.fHandle \in Nat
      BY <2>2, HandleAssumption DEF Node, Handles
    <3> QED
      BY <1>2, <3>1, <3>2, <3>3
  <2>9. \A i, j \in 1..Len(nodes') :
          i < j => nodes'[i].fHandle < nodes'[j].fHandle
    <3> SUFFICES ASSUME NEW i \in 1..Len(nodes'), NEW j \in 1..Len(nodes'),
                        i < j
                 PROVE  nodes'[i].fHandle < nodes'[j].fHandle
      OBVIOUS
    <3>1. CASE j <= p
      <4>1. /\ i \in 1..Len(nodes) /\ j \in 1..Len(nodes)
            /\ nodes'[i] = nodes[i] /\ nodes'[j] = nodes[j]
        BY <3>1, <1>1, <2>3
      <4> QED
        BY <4>1 DEF HandlesAscend
    <3>2. CASE j = p + 1
      BY <3>2, <1>1, <2>3, <2>5
    <3>3. CASE i = p + 1
      BY <3>3, <1>1, <2>3, <2>7
    <3>4. CASE i <= p /\ j > p + 1
      BY <3>4, <1>1, <2>3 DEF HandlesAscend
    <3>5. CASE i > p + 1
      <4>1. /\ i - 1 \in 1..Len(nodes) /\ j - 1 \in 1..Len(nodes)
            /\ nodes'[i] = nodes[i - 1] /\ nodes'[j] = nodes[j - 1]
            /\ i - 1 < j - 1
        BY <3>5, <1>1, <2>3
      <4> QED
        BY <4>1 DEF HandlesAscend
    <3> QED
      BY <1>1, <3>1, <3>2, <3>3, <3>4, <3>5
  <2>10. \A x \in lost' : dangling' /\
           \A i \in 1..Len(nodes') : nodes'[i].fHandle < x.fHandle
    <3> SUFFICES ASSUME NEW x \in lost
                 PROVE  dangling /\ \A i \in 1..Len(nodes') :
                           nodes'[i].fHandle < x.fHandle
      BY <1>3
    <3>1. dangling
      BY DEF HandlesAscend
    <3>2. ASSUME NEW i \in 1..Len(nodes')
          PROVE  nodes'[i].fHandle < x.fHandle
      <4>1. nodes'[i] = new \/ \E j \in 1..Len(nodes) : nodes'[i] = nodes[j]
        BY <1>1, <2>3
      <4> QED
        BY <4>1, <2>8 DEF HandlesAscend
    <3> QED
      BY <3>1, <3>2
  <2>11. ListInv'
    BY <1>3, <2>3, <2>9, <2>10 DEF HandlesAscend
  <2>12. \A x \in Live : x.fHandle # new.fHandle
    <3>1. new.fHandle \in Nat
      BY <2>2, HandleAssumption DEF Node, Handles
    <3>2. \A x \in lost : x.fHandle # new.fHandle
      BY <2>8, <3>1
    <3>3. \A i \in 1..Len(nodes) : nodes[i].fHandle # new.fHandle
      BY <1>1, <1>2, <2>5, <2>7, <3>1
    <3> QED
      BY <3>2, <3>3 DEF Live
  <2>13. Live' = Live \cup {new}
    <3>1. \A i \in 1..Len(nodes') :
            nodes'[i] = new \/ \E j \in 1..Len(nodes) : nodes'[i] = nodes[j]
      BY <1>1, <2>3
    <3>2. \A j \in 1..Len(nodes) :
            \E i \in 1..Len(nodes') : nodes'[i] = nodes[j]
      <4> TAKE j \in 1..Len(nodes)
      <4>1. CASE j <= p
        BY <4>1, <1>1, <2>3
      <4>2. CASE j > p
        <5>1. j + 1 \in 1..Len(nodes') /\ nodes'[j + 1] = nodes[j]
          BY <4>2, <1>1, <2>3
        <5> QED
          BY <5>1
      <4> QED
        BY <4>1, <4>2
    <3>3. p + 1 \in 1..Len(nodes') /\ nodes'[p + 1] = new
      BY <1>1, <2>3
    <3>4. Live' = {nodes'[i] : i \in 1..Len(nodes')} \cup lost
      BY <1>3 DEF Live
    <3>5. {nodes'[i] : i \in 1..Len(nodes')} =
            {nodes[i] : i \in 1..Len(nodes)} \cup {new}
      <4> DEFINE A == {nodes'[i] : i \in 1..Len(nodes')}
                 B == {nodes[i] : i \in 1..Len(nodes)}
      <4>1. \A x \in A : x \in B \cup {new}
        BY <3>1
      <4>2. \A x \in B : x \in A
        BY <3>2
      <4>3. new \in A
        BY <3>3
      <4> QED
        BY <4>1, <4>2, <4>3
    <3> QED
      BY <3>4, <3>5 DEF Live
  <2>14. new.fname = n
    BY DEF new
  <2> QED
    BY <2>2, <2>11, <2>12, <2>13, <2>14
<1> QED
  BY <1>4, <1>5 DEF insert_openflist

\* remove_openflist takes exactly the node at p away.
LEMMA RemoveStep ==
    ASSUME ListInv, NEW p \in 1..Len(nodes), remove_openflist(p)
    PROVE  /\ ListInv'
           /\ Live' = Live \ {nodes[p]}
<1> USE DEF ListInv, ListTypes
<1>1. Len(nodes) \in Nat /\ \A i \in 1..Len(nodes) : nodes[i] \in Node
  OBVIOUS
<1>2. UNCHANGED <<dangling, lost>> /\ nodes' = Without(nodes, p)
  BY DEF remove_openflist
<1>3. /\ nodes' \in Seq(Node)
      /\ Len(nodes') = Len(nodes) - 1
      /\ \A i \in 1..Len(nodes) - 1 :
            nodes'[i] = IF i < p THEN nodes[i] ELSE nodes[i + 1]
  <2>1. nodes \in Seq(Node)
    OBVIOUS
  <2> HIDE DEF ListInv, ListTypes
  <2> QED
    BY <1>2, <2>1, WithoutSeq
<1>4. \A i, j \in 1..Len(nodes') :
        i < j => nodes'[i].fHandle < nodes'[j].fHandle
  <2> SUFFICES ASSUME NEW i \in 1..Len(nodes'), NEW j \in 1..Len(nodes'),
                      i < j
               PROVE  nodes'[i].fHandle < nodes'[j].fHandle
    OBVIOUS
  <2>1. \E k, l \in 1..Len(nodes) :
          k < l /\ nodes'[i] = nodes[k] /\ nodes'[j] = nodes[l]
    <3>1. CASE j < p
      BY <3>1, <1>1, <1>3
    <3>2. CASE i < p /\ p <= j
      <4>1. i \in 1..Len(nodes) /\ j + 1 \in 1..Len(nodes) /\ i < j + 1
        BY <1>1, <1>3
      <4>2. nodes'[i] = nodes[i] /\ nodes'[j] = nodes[j + 1]
        BY <3>2, <1>1, <1>3
      <4> QED
        BY <4>1, <4>2
    <3>3. CASE p <= i
      <4>1. i + 1 \in 1..Len(nodes) /\ j + 1 \in 1..Len(nodes)
        BY <1>1, <1>3
      <4>2. nodes'[i] = nodes[i + 1] /\ nodes'[j] = nodes[j + 1]
        BY <3>3, <1>1, <1>3
      <4> QED
        BY <4>1, <4>2
    <3> QED
      BY <1>1, <3>1, <3>2, <3>3
  <2> QED
    BY <2>1 DEF HandlesAscend
<1>5. \A i \in 1..Len(nodes') :
        \E k \in 1..Len(nodes) : k # p /\ nodes'[i] = nodes[k]
  <2> TAKE i \in 1..Len(nodes')
  <2>1. CASE i < p
    BY <2>1, <1>1, <1>3
  <2>2. CASE p <= i
    <3>1. i + 1 \in 1..Len(nodes) /\ i + 1 # p /\ nodes'[i] = nodes[i + 1]
      BY <2>2, <1>1, <1>3
    <3> QED
      BY <3>1
  <2> QED
    BY <1>1, <2>1, <2>2
<1>6. ListInv'
  BY <1>2, <1>3, <1>4, <1>5 DEF HandlesAscend
<1>7. \A k \in 1..Len(nodes) :
        k # p => \E i \in 1..Len(nodes') : nodes'[i] = nodes[k]
  <2> SUFFICES ASSUME NEW k \in 1..Len(nodes), k # p
               PROVE  \E i \in 1..Len(nodes') : nodes'[i] = nodes[k]
    OBVIOUS
  <2>1. CASE k < p
    BY <2>1, <1>1, <1>3
  <2>2. CASE k > p
    <3>1. k - 1 \in 1..Len(nodes') /\ nodes'[k - 1] = nodes[k]
      BY <2>2, <1>1, <1>3
    <3> QED
      BY <3>1
  <2> QED
    BY <1>1, <2>1, <2>2
<1>8. \A k \in 1..Len(nodes) : k # p => nodes[k] # nodes[p]
  <2> SUFFICES ASSUME NEW k \in 1..Len(nodes), k # p
               PROVE  nodes[k].fHandle # nodes[p].fHandle
    OBVIOUS
  <2>1. nodes[k].fHandle \in Nat /\ nodes[p].fHandle \in Nat
    BY <1>1, HandleAssumption DEF Node, Handles
  <2> QED
    BY <1>1, <2>1 DEF HandlesAscend
<1>9. nodes[p] \notin lost
  <2>1. nodes[p].fHandle \in Nat
    BY <1>1, HandleAssumption DEF Node, Handles
  <2> QED
    BY <2>1 DEF HandlesAscend
<1>10. Live' = Live \ {nodes[p]}
  <2> DEFINE A == {nodes'[i] : i \in 1..Len(nodes')}
             B == {nodes[i] : i \in 1..Len(nodes)}
  <2>1. \A x \in A : x \in B /\ x # nodes[p]
    BY <1>5, <1>8
  <2>2. \A x \in B : x # nodes[p] => x \in A
    BY <1>7
  <2>3. Live = B \cup lost /\ Live' = A \cup lost
    BY <1>2 DEF Live
  <2> HIDE DEF A, B
  <2> QED
    BY <2>1, <2>2, <2>3, <1>9
<1> QED
  BY <1>6, <1>10

\* A failed fclose changes the node at p and neither its handle nor its name.
LEMMA FailedCloseStep ==
    ASSUME ListInv, NEW p \in 1..Len(nodes),
           nodes' = [nodes EXCEPT ![p].fp = "closed"],
           UNCHANGED <<dangling, lost>>
    PROVE  /\ ListInv'
           /\ Len(nodes') = Len(nodes)
           /\ \A i \in 1..Len(nodes) :
                 /\ nodes'[i].fHandle = nodes[i].fHandle
                 /\ nodes'[i].fname = nodes[i].fname
<1> USE DEF ListInv, ListTypes
<1>1. Len(nodes) \in Nat /\ \A i \in 1..Len(nodes) : nodes[i] \in Node
  OBVIOUS
<1>2. [nodes[p] EXCEPT !.fp = "closed"] \in Node
  BY <1>1 DEF Node
<1>3. nodes' \in Seq(Node) /\ Len(nodes') = Len(nodes)
  BY <1>1, <1>2
<1>4. \A i \in 1..Len(nodes) :
        nodes'[i] = IF i = p THEN [nodes[p] EXCEPT !.fp = "closed"]
                             ELSE nodes[i]
  BY <1>1
<1>5. \A i \in 1..Len(nodes) : /\ nodes'[i].fHandle = nodes[i].fHandle
                               /\ nodes'[i].fname = nodes[i].fname
  BY <1>1, <1>4 DEF Node
<1>6. ListInv'
  BY <1>3, <1>5 DEF HandlesAscend
<1> QED
  BY <1>3, <1>5, <1>6

\* close_openflist_byFname closes exactly the files opened under the name;
\* what it cuts off has higher handles than what it leaves.
LEMMA CloseNameStep ==
    ASSUME ListInv, ~dangling, NEW n \in Names, close_openflist_byFname(n)
    PROVE  /\ ListInv'
           /\ Live' = {x \in Live : x.fname # n}
<1> USE DEF ListInv, ListTypes
<1>1. Len(nodes) \in Nat /\ \A i \in 1..Len(nodes) : nodes[i] \in Node
  OBVIOUS
<1>2. lost = {}
  BY DEF HandlesAscend
<1>3. PICK a \in 1..Len(nodes) + 1, b \in 1..Len(nodes) + 1 :
        /\ 1..a - 1 \subseteq Named(n) /\ a \notin Named(n)
        /\ a <= b /\ (a..b - 1) \cap Named(n) = {}
        /\ b <= Len(nodes) => b \in Named(n)
        /\ nodes' = SubSeq(nodes, a, b - 1)
        /\ dangling' = (b <= Len(nodes))
        /\ lost' = lost \cup {nodes[i] : i \in (b..Len(nodes)) \ Named(n)}
  BY DEF close_openflist_byFname
<1>4. /\ nodes' \in Seq(Node)
      /\ Len(nodes') = b - a
      /\ \A i \in 1..b - a : nodes'[i] = nodes[a + i - 1]
  BY <1>1, <1>3
<1>5. \A i \in 1..Len(nodes') :
        a + i - 1 \in a..b - 1 /\ a + i - 1 \in 1..Len(nodes)
  BY <1>1, <1>3, <1>4
<1>6. \A i, j \in 1..Len(nodes') :
        i < j => nodes'[i].fHandle < nodes'[j].fHandle
  <2> SUFFICES ASSUME NEW i \in 1..Len(nodes'), NEW j \in 1..Len(nodes'),
                      i < j
               PROVE  nodes'[i].fHandle < nodes'[j].fHandle
    OBVIOUS
  <2>1. a + i - 1 < a + j - 1
    BY <1>3, <1>4
  <2>2. nodes'[i] = nodes[a + i - 1] /\ nodes'[j] = nodes[a + j - 1]
    BY <1>4
  <2> QED
    BY <1>5, <2>1, <2>2 DEF HandlesAscend
<1>7. ASSUME NEW x \in lost'
      PROVE  /\ dangling' /\ x \in Node
             /\ \A i \in 1..Len(nodes') : nodes'[i].fHandle < x.fHandle
  <2>1. PICK k \in (b..Len(nodes)) \ Named(n) : x = nodes[k]
    BY <1>2, <1>3
  <2>2. k \in 1..Len(nodes) /\ b <= Len(nodes)
    BY <1>1, <1>3
  <2>3. ASSUME NEW i \in 1..Len(nodes')
        PROVE  nodes'[i].fHandle < x.fHandle
    <3>1. a + i - 1 < k
      BY <1>1, <1>3, <1>4, <2>1
    <3>2. nodes'[i] = nodes[a + i - 1]
      BY <1>4
    <3> QED
      BY <1>5, <2>1, <2>2, <3>1, <3>2 DEF HandlesAscend
  <2> QED
    BY <1>1, <1>3, <2>1, <2>2, <2>3
<1>8. ASSUME NEW x \in lost', NEW y \in lost', x.fHandle = y.fHandle
      PROVE  x = y
  <2>1. x \in Live /\ y \in Live
    <3>1. \A k \in b..Len(nodes) : k \in 1..Len(nodes)
      BY <1>1, <1>3
    <3> QED
      BY <1>2, <1>3, <3>1 DEF Live
  <2> QED
    BY <2>1, <1>8, UniqueHandles
<1>9. ListInv'
  <2>1. dangling' \in BOOLEAN /\ lost' \in SUBSET Node
    BY <1>3, <1>7
  <2> QED
    BY <2>1, <1>4, <1>6, <1>7, <1>8 DEF HandlesAscend
<1>10. Live' = {x \in Live : x.fname # n}
  <2> DEFINE A == {nodes'[i] : i \in 1..Len(nodes')}
             B == {nodes[i] : i \in 1..Len(nodes)}
  <2>1. Live = B /\ Live' = A \cup lost'
    BY <1>2 DEF Live
  <2>2. ASSUME NEW x \in A
        PROVE  x \in B /\ x.fname # n
    <3>1. PICK i \in 1..Len(nodes') : x = nodes'[i]
      OBVIOUS
    <3>2. a + i - 1 \notin Named(n) /\ x = nodes[a + i - 1]
      BY <1>3, <1>4, <1>5, <3>1
    <3> QED
      BY <1>5, <3>2 DEF Named
  <2>3. ASSUME NEW x \in lost'
        PROVE  x \in B /\ x.fname # n
    <3>1. PICK k \in (b..Len(nodes)) \ Named(n) : x = nodes[k]
      BY <1>2, <1>3
    <3>2. k \in 1..Len(nodes)
      BY <1>1, <1>3
    <3> QED
      BY <3>1, <3>2 DEF Named
  <2>4. ASSUME NEW x \in B, x.fname # n
        PROVE  x \in A \cup lost'
    <3>1. PICK k \in 1..Len(nodes) : x = nodes[k]
      OBVIOUS
    <3>2. k \notin Named(n)
      BY <3>1, <2>4 DEF Named
    <3>3. k >= a
      BY <1>1, <1>3, <3>2
    <3>4. CASE k < b
      <4>1. k - a + 1 \in 1..Len(nodes') /\ nodes'[k - a + 1] = nodes[k]
        BY <1>1, <1>3, <1>4, <3>3, <3>4
      <4> QED
        BY <3>1, <4>1
    <3>5. CASE k >= b
      BY <1>1, <1>3, <3>1, <3>2, <3>5
    <3> QED
      BY <1>1, <3>4, <3>5
  <2> HIDE DEF A, B
  <2> QED
    BY <2>1, <2>2, <2>3, <2>4
<1> QED
  BY <1>9, <1>10

(***************************************************************************)
(* One step of the specification, seen through the set of live nodes.      *)
(***************************************************************************)

\* The part of TypeOK the list does not reach.
RestTypes ==
    /\ fs \in [Names -> Files \cup {NoFile}]
    /\ walk \in SUBSET Names
    /\ fault \in {"none", "freed_node", "closed_stream"}

\* The inductive invariant of the specification.
Inv == ListInv /\ RestTypes

\* What a step does to the live nodes: nothing, ...
Same == Live' = Live /\ num' = num

\* ... one more, under an unused handle, ...
Opened ==
    \E n \in Names, new \in Node :
        /\ new.fname = n
        /\ \A x \in Live : x.fHandle # new.fHandle
        /\ Live' = Live \cup {new} /\ num' = num + 1

\* ... one less, ...
Closed == \E x \in Live : Live' = Live \ {x} /\ num' = num - 1

\* A failed fclose: one node is replaced by another with its handle.
Spoiled ==
    \E x \in Live, y \in Node :
        /\ y.fHandle = x.fHandle /\ y.fname = x.fname
        /\ Live' = (Live \ {x}) \cup {y} /\ num' = num

\* ... or all nodes of one name are gone.
ClosedByName ==
    \E n \in Names :
        /\ lost = {}
        /\ Live' = {x \in Live : x.fname # n}
        /\ num' = num - Cardinality(Named(n))

\* Every step keeps the list's invariant and is one of the five.
LEMMA StepKinds ==
    ASSUME Inv, [Next]_vars
    PROVE  Inv' /\ (Same \/ Opened \/ Closed \/ Spoiled \/ ClosedByName)
<1> USE DEF Inv
<1>1. ASSUME UNCHANGED listVars
      PROVE  ListInv' /\ Same
  BY <1>1 DEF listVars, ListInv, ListTypes, HandlesAscend, Same, Live
<1>2. ASSUME NEW k \in {"freed_node", "closed_stream"}, Fault(k)
      PROVE  Inv' /\ Same
  <2>1. UNCHANGED <<listVars, fs>> /\ walk' = {} /\ fault' = k
    BY <1>2 DEF Fault
  <2> QED
    BY <2>1, <1>1 DEF RestTypes
<1>3. ASSUME NEW n \in Names, NEW rest \in SUBSET Names,
             DeleteFile(n, rest)
      PROVE  Inv' /\ (Same \/ ClosedByName)
  <2>1. CASE Fault("freed_node") \/ Fault("closed_stream")
    BY <2>1, <1>2
  <2>2. CASE /\ ~dangling /\ close_openflist_byFname(n)
             /\ \/ /\ fs' = [fs EXCEPT ![n] = NoFile] /\ walk' = rest
                \/ walk' = {} /\ UNCHANGED fs
             /\ UNCHANGED fault
    <3>1. ListInv' /\ Live' = {x \in Live : x.fname # n}
      BY <2>2, CloseNameStep
    <3>2. num' = num - Cardinality(Named(n))
      BY <2>2 DEF close_openflist_byFname
    <3>3. lost = {}
      BY <2>2 DEF ListInv, HandlesAscend
    <3>4. RestTypes'
      BY <2>2 DEF RestTypes
    <3> QED
      BY <3>1, <3>2, <3>3, <3>4 DEF ClosedByName
  <2> QED
    BY <1>3, <2>1, <2>2 DEF DeleteFile
<1>4. ASSUME NEW n \in Names, MFOPEN(n)
      PROVE  Inv' /\ (Same \/ Opened)
  <2>1. fs' \in [Names -> Files \cup {NoFile}] /\ fs'[n] \in Files
    BY <1>4 DEF MFOPEN, RestTypes, Unused
  <2>2. UNCHANGED walk /\ \A x \in Live : x.fHandle < MaxHandle
    BY <1>4 DEF MFOPEN
  <2>3. CASE fault' = "freed_node" /\ UNCHANGED listVars
    BY <2>1, <2>2, <2>3, <1>1 DEF RestTypes
  <2>4. CASE ~InsertReadsFreed /\ insert_openflist(n, fs'[n])
             /\ UNCHANGED fault
    <3>1. /\ ListInv'
          /\ \E new \in Node :
                /\ new.fname = n
                /\ \A x \in Live : x.fHandle # new.fHandle
                /\ Live' = Live \cup {new}
      BY <2>1, <2>2, <2>4, InsertStep
    <3>2. num' = num + 1
      BY <2>4 DEF insert_openflist
    <3> QED
      BY <2>1, <2>2, <2>4, <3>1, <3>2 DEF Opened, RestTypes
  <2> QED
    BY <1>4, <2>3, <2>4 DEF MFOPEN
<1>5. ASSUME NEW n \in Names, MFPUT(n)
      PROVE  Inv' /\ Same
  <2>1. UNCHANGED <<listVars, walk, fault>>
    BY <1>5 DEF MFPUT
  <2>2. fs' \in [Names -> Files \cup {NoFile}]
    BY <1>5 DEF MFPUT, RestTypes, Unused
  <2> QED
    BY <2>1, <2>2, <1>1 DEF RestTypes
<1>6. ASSUME NEW h \in Handles, MFCLOSE(h)
      PROVE  Inv' /\ (Same \/ Closed \/ Spoiled)
  <2>1. CASE Fault("freed_node") \/ Fault("closed_stream")
    BY <2>1, <1>2
  <2>2. ASSUME NEW p \in find_openflist_byHandle(h), remove_openflist(p),
               UNCHANGED <<fs, walk, fault>>
        PROVE  Inv' /\ Closed
    <3>1. p \in 1..Len(nodes) /\ nodes[p] \in Live
      BY DEF find_openflist_byHandle, Live
    <3>2. ListInv' /\ Live' = Live \ {nodes[p]}
      BY <2>2, <3>1, RemoveStep
    <3>3. num' = num - 1
      BY <2>2 DEF remove_openflist
    <3> QED
      BY <2>2, <3>1, <3>2, <3>3 DEF Closed, RestTypes
  <2>3. ASSUME NEW p \in find_openflist_byHandle(h),
               nodes' = [nodes EXCEPT ![p].fp = "closed"],
               UNCHANGED <<dangling, lost, num, fs, walk, fault>>
        PROVE  Inv' /\ Spoiled
    <3>1. p \in 1..Len(nodes) /\ nodes[p] \in Live
      BY DEF find_openflist_byHandle, Live
    <3>2. /\ ListInv' /\ Len(nodes') = Len(nodes)
          /\ nodes'[p].fHandle = nodes[p].fHandle
          /\ nodes'[p].fname = nodes[p].fname
      BY <2>3, <3>1, FailedCloseStep
    <3>3. nodes'[p] \in Node
      BY <3>1, <3>2 DEF ListInv, ListTypes
    <3>4. \A i \in 1..Len(nodes) : i # p => nodes'[i] = nodes[i]
      BY <2>3 DEF ListInv, ListTypes
    <3>5. \A i \in 1..Len(nodes) : i # p => nodes[i] # nodes[p]
      <4> SUFFICES ASSUME NEW i \in 1..Len(nodes), i # p
                   PROVE  nodes[i].fHandle # nodes[p].fHandle
        OBVIOUS
      <4>1. nodes[i].fHandle \in Nat /\ nodes[p].fHandle \in Nat
        BY <3>1, HandleNat
      <4>2. Len(nodes) \in Nat
        BY DEF ListInv, ListTypes
      <4> QED
        BY <3>1, <4>1, <4>2 DEF ListInv, HandlesAscend
    <3>6. nodes[p] \notin lost
      <4>1. nodes[p].fHandle \in Nat
        BY <3>1, HandleNat
      <4> QED
        BY <3>1, <4>1 DEF ListInv, HandlesAscend
    <3>7. Live' = (Live \ {nodes[p]}) \cup {nodes'[p]}
      <4> DEFINE A == {nodes'[i] : i \in 1..Len(nodes')}
                 B == {nodes[i] : i \in 1..Len(nodes)}
      <4>1. Live = B \cup lost /\ Live' = A \cup lost
        BY <2>3 DEF Live
      <4>2. \A x \in A : x = nodes'[p] \/ (x \in B /\ x # nodes[p])
        BY <3>2, <3>4, <3>5
      <4>3. \A x \in B : x = nodes[p] \/ x \in A
        BY <3>2, <3>4
      <4>4. nodes'[p] \in A
        BY <3>1, <3>2
      <4> HIDE DEF A, B
      <4> QED
        BY <4>1, <4>2, <4>3, <4>4, <3>6
    <3> QED
      BY <2>3, <3>1, <3>2, <3>3, <3>7 DEF Spoiled, RestTypes
  <2> QED
    BY <1>6, <2>1, <2>2, <2>3 DEF MFCLOSE
<1>7. ASSUME NEW h \in Handles, UseHandle(h)
      PROVE  Inv' /\ Same
  BY <1>7, <1>2 DEF UseHandle
<1>8. ASSUME NEW n \in Names, MFDELETE(n)
      PROVE  Inv' /\ (Same \/ ClosedByName)
  BY <1>8, <1>3 DEF MFDELETE
<1>9. ASSUME NEW n \in Names, cm_remove_directory(n)
      PROVE  Inv' /\ (Same \/ ClosedByName)
  BY <1>9, <1>3 DEF cm_remove_directory, RestTypes
<1>10. ASSUME MFDELETE_dir
       PROVE  Inv' /\ Same
  BY <1>10, <1>1 DEF MFDELETE_dir, RestTypes
<1>11. ASSUME NEW old \in Names, NEW new \in Names, MFMOVE(old, new)
       PROVE  Inv' /\ Same
  BY <1>11, <1>1 DEF MFMOVE, RestTypes
<1>12. ASSUME UNCHANGED vars
       PROVE  Inv' /\ Same
  <2>1. UNCHANGED listVars /\ UNCHANGED <<fs, walk, fault>>
    BY <1>12 DEF vars, listVars
  <2> QED
    BY <2>1, <1>1 DEF RestTypes
<1> QED
  BY <1>4, <1>5, <1>6, <1>7, <1>8, <1>9, <1>10, <1>11, <1>12 DEF Next

(***************************************************************************)
(* The theorems.                                                           *)
(***************************************************************************)

\* The empty list satisfies the invariant.
LEMMA InitInv == Init => Inv /\ Live = {}
<1> SUFFICES ASSUME Init PROVE Inv /\ Live = {}
  OBVIOUS
<1>1. nodes = <<>> /\ lost = {} /\ Len(nodes) = 0
  BY DEF Init
<1>2. ListInv /\ Live = {}
  <2>1. nodes \in Seq(Node) /\ lost \in SUBSET Node
    BY <1>1
  <2>2. dangling = FALSE
    BY Zenon DEF Init
  <2>3. 1..Len(nodes) = {}
    BY <1>1
  <2>4. HandlesAscend
    BY <1>1, <2>3 DEF HandlesAscend
  <2>5. Live = {}
    BY <1>1, <2>3 DEF Live
  <2> QED
    BY <2>1, <2>2, <2>4, <2>5 DEF ListInv, ListTypes
<1>3. RestTypes
  BY DEF Init, RestTypes
<1> QED
  BY <1>2, <1>3 DEF Inv

\* Whatever sequence of commands was given, the handles of insert_openflist
\* ascend and no two open files share one, the nodes that
\* close_openflist_byFname cut off included.
THEOREM HandlesUnique == Spec => []HandlesAscend
<1>1. Init => Inv
  BY InitInv
<1>2. Inv /\ [Next]_vars => Inv'
  BY StepKinds
<1>3. Inv => HandlesAscend
  BY DEF Inv, ListInv
<1> QED
  BY <1>1, <1>2, <1>3, PTL DEF Spec

\* The list of cm_file_util.c implements the table of open files: each
\* command opens one file under a new handle, closes one handle, closes all
\* the handles of one name, or changes nothing.
THEOREM ListImplementsTable == Spec => ImplementsFileTable
<1> DEFINE tab == {<<x.fHandle, x.fname>> : x \in Live}
<1>1. Init => Inv /\ Table!Init
  BY InitInv DEF Table!Init
<1>2. Inv /\ [Next]_vars => Inv' /\ [Table!Next]_tab
  <2> SUFFICES ASSUME Inv, [Next]_vars
               PROVE  Inv' /\ [Table!Next]_tab
    OBVIOUS
  <2>1. Inv' /\ (Same \/ Opened \/ Closed \/ Spoiled \/ ClosedByName)
    BY StepKinds
  <2>2. /\ Live \subseteq Node
        /\ \A x, y \in Live : x.fHandle = y.fHandle => x = y
    BY UniqueHandles DEF Inv
  <2>3. CASE Same
    <3>1. tab' = tab
      BY <2>3 DEF Same
    <3> QED
      BY <2>1, <3>1
  <2>4. CASE Opened
    <3>1. PICK n \in Names, new \in Node :
            /\ new.fname = n
            /\ \A x \in Live : x.fHandle # new.fHandle
            /\ Live' = Live \cup {new}
      BY <2>4 DEF Opened
    <3>2. tab' = tab \cup {<<new.fHandle, n>>}
      BY <3>1
    <3>3. \A e \in tab : e[1] # new.fHandle
      BY <3>1
    <3>4. new.fHandle \in Handles
      BY DEF Node
    <3> QED
      BY <2>1, <3>2, <3>3, <3>4 DEF Table!Next, Table!Open
  <2>5. CASE Closed
    <3>1. PICK x \in Live : Live' = Live \ {x}
      BY <2>5 DEF Closed
    <3>2. tab' = {e \in tab : e[1] # x.fHandle}
      BY <2>2, <3>1
    <3>3. x.fHandle \in Handles
      BY <2>2 DEF Node
    <3> QED
      BY <2>1, <3>2, <3>3 DEF Table!Next, Table!Close
  <2>6. CASE Spoiled
    <3>1. PICK x \in Live, y \in Node :
            /\ y.fHandle = x.fHandle /\ y.fname = x.fname
            /\ Live' = (Live \ {x}) \cup {y}
      BY <2>6 DEF Spoiled
    <3>2. tab' = tab
      BY <3>1
    <3> QED
      BY <2>1, <3>2
  <2>7. CASE ClosedByName
    <3>1. PICK n \in Names : Live' = {x \in Live : x.fname # n}
      BY <2>7 DEF ClosedByName
    <3>2. tab' = {e \in tab : e[2] # n}
      BY <3>1
    <3> QED
      BY <2>1, <3>2 DEF Table!Next, Table!CloseName
  <2> QED
    BY <2>1, <2>3, <2>4, <2>5, <2>6, <2>7
<1> QED
  BY <1>1, <1>2, PTL DEF Spec, ImplementsFileTable, Table!Spec

\* The count and the list agree.
CountInv == IsFiniteSet(Live) /\ NumCountsNodes

\* An empty list counts no node.
LEMMA CountInit == Init => Inv /\ CountInv
<1> SUFFICES ASSUME Init PROVE Inv /\ CountInv
  OBVIOUS
<1>1. Inv /\ Live = {} /\ num = 0
  BY InitInv DEF Init
<1> QED
  BY <1>1, FS_EmptySet DEF CountInv, NumCountsNodes

\* One step changes the count by what it adds to the list or frees.
LEMMA CountStep ==
    ASSUME Inv, CountInv, [Next]_vars
    PROVE  CountInv'
<1> USE DEF CountInv, NumCountsNodes
<1>1. Same \/ Opened \/ Closed \/ Spoiled \/ ClosedByName
  BY StepKinds
<1>2. /\ Live \subseteq Node
      /\ \A x, y \in Live : x.fHandle = y.fHandle => x = y
  BY UniqueHandles DEF Inv
<1>3. CASE Same
  BY <1>3 DEF Same
<1>4. CASE Opened
  <2>1. PICK new \in Node : new \notin Live /\ Live' = Live \cup {new}
    BY <1>4 DEF Opened
  <2>2. num' = num + 1
    BY <1>4 DEF Opened
  <2> QED
    BY <2>1, <2>2, FS_AddElement
<1>5. CASE Closed
  <2>1. PICK x \in Live : Live' = Live \ {x} /\ num' = num - 1
    BY <1>5 DEF Closed
  <2> QED
    BY <2>1, FS_RemoveElement
<1>6. CASE Spoiled
  <2>1. PICK x \in Live, y \in Node :
          /\ y.fHandle = x.fHandle
          /\ Live' = (Live \ {x}) \cup {y} /\ num' = num
    BY <1>6 DEF Spoiled
  <2>2. y \notin Live \ {x}
    BY <1>2, <2>1
  <2>3. IsFiniteSet(Live \ {x})
        /\ Cardinality(Live \ {x}) = Cardinality(Live) - 1
    BY FS_RemoveElement
  <2>4. IsFiniteSet(Live') /\ Cardinality(Live') = Cardinality(Live) - 1 + 1
    BY <2>1, <2>2, <2>3, FS_AddElement
  <2>5. Cardinality(Live) \in Nat
    BY FS_CardinalityType
  <2> QED
    BY <2>1, <2>4, <2>5
<1>7. CASE ClosedByName
  <2>1. PICK n \in Names :
          /\ lost = {} /\ Live' = {x \in Live : x.fname # n}
          /\ num' = num - Cardinality(Named(n))
    BY <1>7 DEF ClosedByName
  <2> DEFINE gone == {x \in Live : x.fname = n}
             f == [i \in Named(n) |-> nodes[i]]
  <2>2. Live = {nodes[i] : i \in 1..Len(nodes)}
    BY <2>1 DEF Live
  <2>3. f \in [Named(n) -> gone] /\ \A t \in gone : \E i \in Named(n) : f[i] = t
    BY <2>2 DEF Named
  <2>4. \A i, j \in Named(n) : f[i] = f[j] => i = j
    <3> SUFFICES ASSUME NEW i \in 1..Len(nodes), NEW j \in 1..Len(nodes),
                        nodes[i] = nodes[j]
                 PROVE  i = j
      BY DEF Named
    <3>1. nodes[i].fHandle \in Nat /\ Len(nodes) \in Nat
      BY HandleNat DEF Inv, ListInv, ListTypes
    <3> QED
      BY <3>1 DEF Inv, ListInv, HandlesAscend
  <2>5. IsFiniteSet(Named(n))
    <3>1. Len(nodes) \in Nat /\ Named(n) \in SUBSET (1..Len(nodes))
      BY DEF Named, Inv, ListInv, ListTypes
    <3>2. IsFiniteSet(1..Len(nodes))
      BY <3>1, FS_Interval
    <3> QED
      BY <3>1, <3>2, FS_Subset
  <2>6. Cardinality(gone) = Cardinality(Named(n))
    <3> HIDE DEF gone, f
    <3>1. f \in Bijection(Named(n), gone)
      BY <2>3, <2>4, Fun_IsBij
    <3>2. ExistsBijection(Named(n), gone)
      BY <3>1, Fun_ExistsBij
    <3> QED
      BY <2>5, <3>2, FS_Bijection
  <2>7. Live' = Live \ gone /\ Live \cap gone = gone
    BY <2>1
  <2>8. /\ IsFiniteSet(Live \ gone)
        /\ Cardinality(Live \ gone) = Cardinality(Live) -
                                       Cardinality(Live \cap gone)
    <3> HIDE DEF gone
    <3> QED
      BY FS_Difference
  <2> QED
    BY <2>1, <2>6, <2>7, <2>8
<1> QED
  BY <1>1, <1>3, <1>4, <1>5, <1>6, <1>7

\* list->num always is the number of nodes that were inserted and not yet
\* freed, reachable or not.
THEOREM NumCorrect == Spec => []NumCountsNodes
<1>1. Init => Inv /\ CountInv
  BY CountInit
<1>2. Inv /\ CountInv /\ [Next]_vars => Inv' /\ CountInv'
  BY StepKinds, CountStep
<1>3. CountInv => NumCountsNodes
  BY DEF CountInv
<1> QED
  BY <1>1, <1>2, <1>3, PTL DEF Spec

\* Every variable keeps its type; list->num, which is unsigned, never goes
\* below zero because it counts the nodes.
THEOREM ListTypeCorrect == Spec => []TypeOK
<1>1. Init => Inv /\ CountInv
  BY CountInit
<1>2. Inv /\ CountInv /\ [Next]_vars => Inv' /\ CountInv'
  BY StepKinds, CountStep
<1>3. Inv /\ CountInv => TypeOK
  <2> SUFFICES ASSUME Inv, CountInv PROVE TypeOK
    OBVIOUS
  <2>1. num \in Nat
    BY FS_CardinalityType DEF CountInv, NumCountsNodes
  <2> QED
    BY <2>1 DEF Inv, ListInv, ListTypes, RestTypes, TypeOK
<1> QED
  BY <1>1, <1>2, <1>3, PTL DEF Spec

(***************************************************************************)
(* Deletion.                                                               *)
(***************************************************************************)

\* No two names refer to the same file; else a rename could look like a
\* removal.
NamesDistinct ==
    \A m, n \in Names : m # n /\ fs[m] # NoFile => fs[m] # fs[n]

\* Only an unused file gets a name, a rename frees the old name.
LEMMA NamesNext ==
    ASSUME Inv, NamesDistinct, [Next]_vars
    PROVE  NamesDistinct'
<1> USE DEF Inv, RestTypes
<1>1. ASSUME UNCHANGED fs PROVE NamesDistinct'
  BY <1>1 DEF NamesDistinct
<1>2. ASSUME NEW n \in Names, NEW f \in Unused, fs' = [fs EXCEPT ![n] = f]
      PROVE  NamesDistinct'
  BY <1>2, FilesAssumption DEF NamesDistinct, Unused
<1>3. ASSUME NEW n \in Names, fs' = [fs EXCEPT ![n] = NoFile]
      PROVE  NamesDistinct'
  BY <1>3 DEF NamesDistinct
<1>4. ASSUME NEW n \in Names, NEW rest, DeleteFile(n, rest)
      PROVE  NamesDistinct'
  BY <1>1, <1>3, <1>4 DEF DeleteFile, Fault
<1>5. ASSUME NEW n \in Names, MFOPEN(n) \/ MFPUT(n) PROVE NamesDistinct'
  BY <1>1, <1>2, <1>5 DEF MFOPEN, MFPUT
<1>6. ASSUME NEW h \in Handles, MFCLOSE(h) \/ UseHandle(h) PROVE NamesDistinct'
  BY <1>1, <1>6 DEF MFCLOSE, UseHandle, Fault
<1>7. ASSUME NEW n \in Names, MFDELETE(n) \/ cm_remove_directory(n)
      PROVE  NamesDistinct'
  BY <1>4, <1>7 DEF MFDELETE, cm_remove_directory
<1>8. CASE MFDELETE_dir \/ UNCHANGED vars
  BY <1>1, <1>8 DEF MFDELETE_dir, vars
<1>9. ASSUME NEW old \in Names, NEW new \in Names, MFMOVE(old, new)
      PROVE  NamesDistinct'
  <2>1. /\ fs[old] # NoFile /\ old # new
        /\ fs' = [fs EXCEPT ![old] = NoFile, ![new] = fs[old]]
    BY <1>9 DEF MFMOVE
  <2> QED BY <2>1 DEF NamesDistinct
<1> QED
  BY <1>5, <1>6, <1>7, <1>8, <1>9 DEF Next

\* A removal is the last part of DeleteFile, after the streams were closed.
LEMMA RemovalCloses ==
    ASSUME Inv, NamesDistinct, Next, NEW n \in Names, Removes(n)
    PROVE  \A x \in Live' : x.fname # n
<1> USE DEF Inv, RestTypes
<1>1. fs[n] # NoFile /\ fs'[n] = NoFile /\ \A m \in Names : m # n => fs'[m] = fs[m]
  BY DEF Removes
<1>2. ~UNCHANGED fs
  BY <1>1
<1>3. ASSUME NEW m \in Names, NEW rest, DeleteFile(m, rest)
      PROVE  \A x \in Live' : x.fname # n
  <2>1. /\ ~dangling /\ close_openflist_byFname(m)
        /\ fs' = [fs EXCEPT ![m] = NoFile]
    BY <1>2, <1>3 DEF DeleteFile, Fault
  <2>2. m = n
    BY <1>1, <2>1
  <2>3. Live' = {x \in Live : x.fname # n}
    BY <2>1, <2>2, CloseNameStep
  <2> QED BY <2>3
<1>4. ASSUME NEW m \in Names PROVE ~MFOPEN(m) /\ ~MFPUT(m)
  <2>1. ASSUME NEW f \in Unused, fs[m] = NoFile, fs' = [fs EXCEPT ![m] = f]
        PROVE  FALSE
    BY <1>1, <2>1, FilesAssumption DEF Unused
  <2> QED BY <1>2, <2>1 DEF MFOPEN, MFPUT
<1>5. ASSUME NEW h \in Handles PROVE ~MFCLOSE(h) /\ ~UseHandle(h)
  BY <1>2 DEF MFCLOSE, UseHandle, Fault
<1>6. ~MFDELETE_dir
  BY <1>2 DEF MFDELETE_dir
<1>7. ASSUME NEW old \in Names, NEW new \in Names PROVE ~MFMOVE(old, new)
  <2> SUFFICES ASSUME MFMOVE(old, new) PROVE FALSE
    OBVIOUS
  <2>1. /\ fs[old] # NoFile /\ old # new
        /\ fs' = [fs EXCEPT ![old] = NoFile, ![new] = fs[old]]
    BY DEF MFMOVE
  <2>2. fs'[new] = fs[old] /\ new # n
    BY <1>1, <2>1
  <2>3. fs[new] = fs[old]
    BY <1>1, <2>2
  <2> QED BY <2>1, <2>3 DEF NamesDistinct
<1> QED
  BY <1>3, <1>4, <1>5, <1>6, <1>7 DEF Next, MFDELETE, cm_remove_directory

\* Whenever MFDELETE removes a file, by its name or while it walks a
\* directory, every stream opened under that name is closed, wherever in the
\* list its node was.
THEOREM DeletionCloses == Spec => OpenedAsRemovedIsClosed
<1>1. Init => Inv /\ NamesDistinct
  <2>1. Init => NamesDistinct
    BY DEF Init, NamesDistinct
  <2> QED BY <2>1, InitInv
<1>2. Inv /\ NamesDistinct /\ [Next]_vars => Inv' /\ NamesDistinct'
  BY StepKinds, NamesNext
<1>3. Inv /\ NamesDistinct /\ [Next]_vars
      => [\A n \in Names : Removes(n) => \A x \in Live' : x.fname # n]_vars
  BY RemovalCloses
<1> QED
  BY <1>1, <1>2, <1>3, PTL DEF Spec, OpenedAsRemovedIsClosed
=============================================================================
