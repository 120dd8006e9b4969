---------------------------- MODULE WiringProofs ----------------------------
(***************************************************************************)
(* For all names, gates, products and attributes, and in whatever order    *)
(* the operations come: the graph that the expansion builds stays simple,  *)
(* it only grows, and the pairs of lists are never refused.                *)
(***************************************************************************)
EXTENDS Wiring, GraphProofs, FiniteSetTheorems, TLAPS

LEMMA FiniteIds ==
  ASSUME NEW n \in Nat, NEW S \in SUBSET (1..n)
  PROVE  IsFiniteSet(S) /\ Cardinality(S) \in Nat /\ Cardinality(S) <= n
<1>1. IsFiniteSet(1..n) /\ Cardinality(1..n) = n
  BY FS_Interval
<1>. QED
  BY <1>1, FS_Subset, FS_CardinalityType

(* The k-th of a set of ids is one of them, and has k - 1 below it. *)
LEMMA KthExists ==
  ASSUME NEW n \in Nat, NEW S \in SUBSET (1..n), NEW k \in 1..Cardinality(S)
  PROVE  \E v \in S : Cardinality({w \in S : w < v}) = k - 1
<1> DEFINE Below(v) == {w \in S : w < v}
           c == [v \in Nat |-> Cardinality(Below(v))]
           T == {v \in Nat : c[v] >= k}
<1>1. \A w \in S : w \in Nat /\ w >= 1 /\ w <= n
  OBVIOUS
<1>2. \A v \in Nat : IsFiniteSet(Below(v)) /\ Cardinality(Below(v)) \in Nat
  BY FiniteIds
<1>3. \A v \in Nat : c[v] = Cardinality(Below(v)) /\ c[v] \in Nat
  BY <1>2
<1>4. c[0] = 0
  <2>1. \A w \in S : ~(w < 0)
    BY <1>1
  <2>2. Below(0) = {}
    BY <2>1
  <2>. QED
    BY <2>2, <1>3, FS_EmptySet
<1>5. c[n + 1] = Cardinality(S)
  <2>1. \A w \in S : w < n + 1
    BY <1>1
  <2>2. Below(n + 1) = S
    BY <2>1
  <2>. QED
    BY <2>2, <1>3
<1>6. \A v \in Nat : v \notin S => c[v + 1] = c[v]
  <2>1. SUFFICES ASSUME NEW v \in Nat, v \notin S PROVE c[v + 1] = c[v]
    OBVIOUS
  <2>2. \A w \in S : w < v + 1 <=> w < v
    BY <1>1, <2>1
  <2>3. Below(v + 1) = Below(v)
    BY <2>2
  <2>. QED
    BY <2>3, <1>3
<1>7. \A v \in Nat : v \in S => c[v + 1] = c[v] + 1
  <2>1. SUFFICES ASSUME NEW v \in Nat, v \in S PROVE c[v + 1] = c[v] + 1
    OBVIOUS
  <2>2. \A w \in S : w < v + 1 <=> (w < v \/ w = v)
    BY <1>1
  <2>3. ~(v < v)
    OBVIOUS
  <2>4. Below(v + 1) = Below(v) \cup {v} /\ v \notin Below(v)
    BY <2>1, <2>2, <2>3
  <2>5. Cardinality(Below(v + 1)) = Cardinality(Below(v)) + 1
    BY <2>4, <1>2, FS_AddElement
  <2>. QED
    BY <2>5, <1>3
<1>8. k \in Nat /\ k >= 1 /\ Cardinality(S) >= k
  BY FiniteIds
<1> HIDE DEF c
<1>9. T \in SUBSET Nat /\ T # {}
  <2>1. n + 1 \in T
    BY <1>5, <1>8
  <2>. QED
    BY <2>1
<1>10. PICK m \in T : \A v \in T : m <= v
  BY <1>9, MinIsLeast
<1>11. m \in Nat /\ m # 0 /\ c[m] >= k
  BY <1>4, <1>8, <1>10
<1>12. PICK v \in Nat : m = v + 1
  BY <1>11
<1>13. v \notin T
  BY <1>10, <1>12
<1>14. v \in S /\ c[v] = k - 1
  <2>1. c[v] \in Nat /\ ~(c[v] >= k) /\ c[v + 1] >= k
    BY <1>3, <1>11, <1>12, <1>13
  <2>2. v \in S
    BY <2>1, <1>6
  <2>3. c[v + 1] = c[v] + 1
    BY <2>2, <1>7
  <2>. HIDE DEF T
  <2>. QED
    BY <2>1, <2>2, <2>3, <1>8
<1>. QED
  BY <1>3, <1>14

LEMMA InOrderProperties ==
  ASSUME NEW n \in Nat, NEW S \in SUBSET (1..n)
  PROVE  /\ InOrder(S) \in Seq(S)
         /\ \A k, l \in DOMAIN InOrder(S) : InOrder(S)[k] = InOrder(S)[l] => k = l
<1> DEFINE rank(v) == Cardinality({w \in S : w < v})
<1>1. \A k \in 1..Cardinality(S) : InOrder(S)[k] \in S /\ rank(InOrder(S)[k]) = k - 1
  BY KthExists DEF InOrder
<1>2. DOMAIN InOrder(S) = 1..Cardinality(S) /\ Cardinality(S) \in Nat
  BY FiniteIds DEF InOrder
<1>3. InOrder(S) \in [1..Cardinality(S) -> S]
  BY <1>1 DEF InOrder
<1>4. \A k, l \in 1..Cardinality(S) : InOrder(S)[k] = InOrder(S)[l] => k = l
  <2> HIDE DEF rank
  <2>. QED
    BY <1>1, <1>2
<1>. QED
  BY <1>2, <1>3, <1>4
----------------------------------------------------------------------------
(* Among Len(g) + 1 names "_auto[k]" one is free: add_auto_gate's loop ends. *)
LEMMA FreeAutoNameIsFree ==
  ASSUME NEW gr \in Seq(Node), NEW owner \in Names
  PROVE  /\ FreeAutoName(gr, owner) \in Names /\ FreeAutoName(gr, owner) \notin Taken(gr)
         /\ \E k \in 0..Len(gr) : FreeAutoName(gr, owner) = AutoName(owner, k)
<1> DEFINE free == {k \in 0..Len(gr) : AutoName(owner, k) \notin Taken(gr)}
<1>1. \A k \in Int : AutoName(owner, k) \in Names
  <2>1. \A k \in Int : <<AutoLabel, k>> \in Parts
    BY AutoAssumption DEF Parts
  <2>. QED
    BY <2>1 DEF AutoName, Names
<1>2. \A k, l \in Int : AutoName(owner, k) = AutoName(owner, l) => k = l
  <2>1. \A k \in Int : AutoName(owner, k)[Len(owner) + 1] = <<AutoLabel, k>>
    BY DEF AutoName, Names
  <2>2. \A k, l \in Int : <<AutoLabel, k>> = <<AutoLabel, l>> => k = l
    OBVIOUS
  <2>. QED
    BY <2>1, <2>2
<1>3. free # {}
  <2>1. SUFFICES ASSUME free = {} PROVE FALSE
    OBVIOUS
  <2> DEFINE S == 0..Len(gr)
             T == 1..Len(gr)
             f == [k \in S |-> CHOOSE i \in T : gr[i].name = AutoName(owner, k)]
  <2>2. \A k \in S : \E i \in T : gr[i].name = AutoName(owner, k)
    <3>1. DOMAIN gr = T
      OBVIOUS
    <3>. QED
      BY <2>1, <3>1 DEF Taken
  <2>3. f \in [S -> T] /\ \A k \in S : gr[f[k]].name = AutoName(owner, k)
    BY <2>2
  <2>4. Len(gr) \in Nat
    OBVIOUS
  <2>5. IsFiniteSet(T) /\ Cardinality(T) = Len(gr) /\ Cardinality(S) = Len(gr) + 1
    <3>1. IsFiniteSet(1..Len(gr)) /\ Cardinality(1..Len(gr)) = IF 1 > Len(gr) THEN 0 ELSE Len(gr) - 1 + 1
      BY <2>4, FS_Interval
    <3>2. Cardinality(0..Len(gr)) = IF 0 > Len(gr) THEN 0 ELSE Len(gr) - 0 + 1
      BY <2>4, FS_Interval
    <3>. QED
      BY <3>1, <3>2, <2>4
  <2>6. IsFiniteSet(S)
    BY <2>4, FS_Interval
  <2> HIDE DEF f, S, T
  <2>7. PICK k \in S, l \in S : k # l /\ f[k] = f[l]
    <3>1. Cardinality(T) < Cardinality(S)
      BY <2>4, <2>5
    <3>. QED
      BY <3>1, <2>3, <2>5, <2>6, FS_PigeonHole
  <2>8. AutoName(owner, k) = AutoName(owner, l)
    BY <2>3, <2>7
  <2>9. k \in Int /\ l \in Int
    BY <2>4, <2>7 DEF S
  <2>. QED
    BY <1>2, <2>7, <2>8, <2>9
<1>4. free \in SUBSET Nat
  OBVIOUS
<1>5. Min(free) \in free
  BY <1>3, <1>4, MinIsLeast
<1>6. FreeAutoName(gr, owner) = AutoName(owner, Min(free))
  BY DEF FreeAutoName
<1> HIDE DEF free
<1>7. /\ Min(free) \in Int /\ AutoName(owner, Min(free)) \notin Taken(gr)
      /\ Min(free) \in 0..Len(gr)
  BY <1>5 DEF free
<1>. QED
  BY <1>1, <1>6, <1>7

(* A node keeps its type. *)
SameTypes(old, new) == \A i \in DOMAIN old : new[i].type = old[i].type

(* What every operation does to the graph: it grows, the types stay, it is
   simple when it was, and has no other types than it had. *)
Extended(old, new) ==
  /\ IsGraph(new)
  /\ Len(old) <= Len(new)
  /\ Grown(old, new)
  /\ SameTypes(old, new)
  /\ Simple(old) => Simple(new)
  /\ PlainTypes(old) => PlainTypes(new)

(* A gate made by add_auto_gate is the new last node of the graph. *)
LEMMA AutoGateProperties ==
  ASSUME NEW gr, IsGraph(gr), NEW v \in DOMAIN gr
  PROVE  /\ Extended(gr, WithAutoGate(gr, v))
         /\ Len(WithAutoGate(gr, v)) = Len(gr) + 1
         /\ AutoGateId(gr, v) = Len(gr) + 1
         /\ AreAdjacent(WithAutoGate(gr, v), v, Len(gr) + 1)
         /\ WithAutoGate(gr, v)[Len(gr) + 1].type = "GATE"
         /\ WithAutoGate(gr, v) =
              AddEdgeId(AddNode(gr, FreeAutoName(gr, gr[v].name), "GATE"), v, Len(gr) + 1, NULL)
<1> DEFINE name == FreeAutoName(gr, gr[v].name)
           more == AddNode(gr, name, "GATE")
           last == Len(gr) + 1
           h    == AddEdgeId(more, v, last, NULL)
<1>1. gr \in Seq(Node) /\ gr[v].name \in Names /\ "GATE" \in NodeTypes
  BY NodeFields DEF IsGraph, NodeTypes
<1>2. name \in Names /\ name \notin Taken(gr)
  BY <1>1, FreeAutoNameIsFree
<1> HIDE DEF name
<1>3. /\ IsGraph(more) /\ Len(more) = last
      /\ \A i \in DOMAIN gr : more[i] = gr[i]
      /\ more[last] = [name |-> name, type |-> "GATE", adj |-> <<>>]
      /\ Symmetric(gr) => Symmetric(more)
      /\ Loopless(gr) => Loopless(more)
  BY <1>1, <1>2, AddNodeProperties
<1>4. Grown(gr, more) /\ (NoParallel(gr) => NoParallel(more))
  BY <1>1, <1>2, AddNodeGrows
<1> HIDE DEF more
<1>5. last \in DOMAIN more /\ v \in 0..Len(more) /\ last \in 0..Len(more) /\ more \in Seq(Node)
  BY <1>1, <1>3 DEF IsGraph
<1>6. NULL \in EdgeAttrs
  BY DEF EdgeAttrs
<1>7. /\ IsGraph(h) /\ Len(h) = Len(more) /\ DOMAIN h = DOMAIN more
      /\ \A i \in DOMAIN more : h[i].name = more[i].name /\ h[i].type = more[i].type
      /\ Grown(more, h)
  BY SMTT(30), <1>3, <1>5, <1>6, AddEdgeIdGraph
<1>8. Simple(more) => Simple(h)
  BY <1>3, <1>5, <1>6, AddEdgeIdSymmetric, AddEdgeIdLoopless, AddEdgeIdNoParallel DEF Simple
<1> HIDE DEF h
<1>9. more[last].name = name /\ more[last].type = "GATE"
  BY <1>3
<1>10. \A k \in DOMAIN gr : gr[k].name # name
  BY <1>2 DEF Taken
<1>11. \A k \in DOMAIN more : k \in DOMAIN gr \/ k = last
  BY <1>1, <1>3, <1>5
<1>12. FindNode(more, name) = last
  <2>1. Live(more[last])
    BY <1>9 DEF Live
  <2>2. \A k \in DOMAIN more : more[k].name = more[last].name => k = last
    BY <1>3, <1>9, <1>10, <1>11
  <2>. QED
    BY <2>1, <2>2, <1>5, <1>9, FindsTheOnlyOne
<1>13. WithAutoGate(gr, v) = h
  BY <1>12 DEF WithAutoGate, h, more, name
<1>14. FindNode(h, name) = last
  <2>1. h \in Seq(Node) /\ last \in DOMAIN h /\ h[last].name = name
    BY <1>5, <1>7, <1>9 DEF IsGraph
  <2>2. Live(h[last])
    BY <1>5, <1>7, <1>9 DEF Live
  <2>3. \A k \in DOMAIN h : h[k].name = h[last].name => k = last
    BY <1>3, <1>5, <1>7, <1>9, <1>10, <1>11
  <2>. QED
    BY <2>1, <2>2, <2>3, FindsTheOnlyOne
<1>15. AutoGateId(gr, v) = last
  BY <1>13, <1>14 DEF AutoGateId, name
<1>16. Grown(gr, h)
  BY <1>4, <1>7, GrownTwice
<1>17. SameTypes(gr, h)
  <2>1. \A i \in DOMAIN gr : i \in DOMAIN more
    BY <1>4 DEF Grown
  <2>. QED
    BY <2>1, <1>3, <1>7 DEF SameTypes
<1>18. Simple(gr) => Simple(h)
  BY <1>3, <1>4, <1>8 DEF Simple
<1>19. Len(h) = Len(gr) + 1 /\ Len(gr) <= Len(h)
  BY <1>1, <1>3, <1>7
<1>20. h[last].type = "GATE" /\ (PlainTypes(gr) => PlainTypes(h))
  <2>1. h[last].type = "GATE"
    BY <1>5, <1>7, <1>9
  <2>2. \A i \in DOMAIN h : (i \in DOMAIN gr /\ h[i].type = gr[i].type) \/ i = last
    BY <1>3, <1>7, <1>11
  <2>. QED
    BY <2>1, <2>2 DEF PlainTypes
<1>21. AreAdjacent(h, v, last)
  <2>1. v # last /\ v \in 1..Len(more) /\ last \in 1..Len(more) /\ Len(more) \in Nat
    BY <1>1, <1>3, <1>5
  <2>2. ~EdgeRefused(more, v, last)
    BY <2>1 DEF EdgeRefused
  <2>. QED
    BY <1>3, <1>5, <1>6, <2>2, AddEdgeIdConnects DEF h
<1>22. h = AddEdgeId(AddNode(gr, FreeAutoName(gr, gr[v].name), "GATE"), v, Len(gr) + 1, NULL)
  BY DEF h, more, name
<1>. QED
  BY <1>7, <1>13, <1>15, <1>16, <1>17, <1>18, <1>19, <1>20, <1>21, <1>22 DEF Extended

(* Growing twice is growing. *)
LEMMA ExtendedTwice ==
  ASSUME NEW old, NEW mid, NEW new, IsGraph(old), Extended(old, mid), Extended(mid, new)
  PROVE  Extended(old, new)
<1>1. Len(old) <= Len(new)
  <2>1. Len(old) \in Nat /\ Len(mid) \in Nat /\ Len(new) \in Nat
    BY DEF Extended, IsGraph
  <2>. QED
    BY <2>1 DEF Extended
<1>2. Grown(old, new)
  BY GrownTwice DEF Extended
<1>3. SameTypes(old, new)
  BY DEF Extended, Grown, SameTypes
<1>. QED
  BY <1>1, <1>2, <1>3 DEF Extended

(* A graph that grew has the ids of the old one. *)
LEMMA ExtendedIds ==
  ASSUME NEW old, NEW new, IsGraph(old), Extended(old, new)
  PROVE  DOMAIN old \subseteq DOMAIN new
BY DEF Extended, IsGraph

(* graph_add_node and graph_add_edge_id extend the graph. *)
LEMMA NodeExtends ==
  ASSUME NEW gr, IsGraph(gr), NEW name \in Names, NEW type \in {"NODE", "GATE"}
  PROVE  Extended(gr, AddNode(gr, name, type))
<1> DEFINE h == AddNode(gr, name, type)
<1>0. type \in NodeTypes
  BY DEF NodeTypes
<1>1. /\ IsGraph(h) /\ Len(h) = Len(gr) + 1
      /\ \A i \in DOMAIN gr : h[i] = gr[i]
      /\ Symmetric(gr) => Symmetric(h)
      /\ Loopless(gr) => Loopless(h)
      /\ h[Len(gr) + 1] = [name |-> name, type |-> type, adj |-> <<>>]
  BY <1>0, AddNodeProperties
<1>2. Grown(gr, h) /\ (NoParallel(gr) => NoParallel(h))
  BY <1>0, AddNodeGrows
<1> HIDE DEF h
<1>3. Len(gr) <= Len(h)
  BY <1>1 DEF IsGraph
<1>4. SameTypes(gr, h)
  BY <1>1 DEF SameTypes
<1>5. Simple(gr) => Simple(h)
  BY <1>1, <1>2 DEF Simple
<1>6. PlainTypes(gr) => PlainTypes(h)
  <2>1. h[Len(gr) + 1].type = type
    BY <1>1
  <2>2. \A v \in DOMAIN h : v \in DOMAIN gr \/ v = Len(gr) + 1
    BY <1>1 DEF IsGraph
  <2>. QED
    BY <1>1, <2>1, <2>2 DEF PlainTypes
<1>. QED
  BY <1>1, <1>2, <1>3, <1>4, <1>5, <1>6 DEF Extended, h

LEMMA EdgeExtends ==
  ASSUME NEW gr, IsGraph(gr), NEW a \in 0..Len(gr), NEW b \in 0..Len(gr), NEW at \in EdgeAttrs
  PROVE  Extended(gr, AddEdgeId(gr, a, b, at))
<1> DEFINE h == AddEdgeId(gr, a, b, at)
<1>1. /\ IsGraph(h) /\ Len(h) = Len(gr) /\ DOMAIN h = DOMAIN gr
      /\ \A i \in DOMAIN gr : h[i].name = gr[i].name /\ h[i].type = gr[i].type
      /\ Grown(gr, h)
  BY AddEdgeIdGraph
<1>2. Simple(gr) => Simple(h)
  BY AddEdgeIdSymmetric, AddEdgeIdLoopless, AddEdgeIdNoParallel DEF Simple
<1> HIDE DEF h
<1>3. Len(gr) <= Len(h)
  BY <1>1 DEF IsGraph
<1>4. SameTypes(gr, h) /\ (PlainTypes(gr) => PlainTypes(h))
  BY <1>1 DEF SameTypes, PlainTypes
<1>. QED
  BY <1>1, <1>2, <1>3, <1>4 DEF Extended, h

LEMMA NamedEdgeExtends ==
  ASSUME NEW gr, IsGraph(gr), NEW nameA, NEW nameB, NEW at \in EdgeAttrs
  PROVE  Extended(gr, AddEdgeName(gr, nameA, nameB, at))
<1>1. FindNode(gr, nameA) \in 0..Len(gr) /\ FindNode(gr, nameB) \in 0..Len(gr)
  BY FindNodeRange DEF IsGraph
<1>. QED
  BY <1>1, EdgeExtends DEF AddEdgeName

(* The end of an edge at v: v itself, or the new last node. *)
LEMMA EndProperties ==
  ASSUME NEW gr, IsGraph(gr), NEW v \in DOMAIN gr, NEW always \in BOOLEAN
  PROVE  LET end == End(gr, v, always)
         IN  /\ Extended(gr, end.graph)
             /\ end.id \in DOMAIN end.graph
             /\ always => end.id = Len(gr) + 1
             /\ end.id = v \/ end.id = Len(gr) + 1
<1> DEFINE end == End(gr, v, always)
<1>1. CASE NeedsAuto(gr, v, always)
  <2>1. end.graph = WithAutoGate(gr, v) /\ end.id = AutoGateId(gr, v)
    BY <1>1 DEF End
  <2> HIDE DEF end
  <2>2. Extended(gr, end.graph) /\ Len(end.graph) = Len(gr) + 1 /\ end.id = Len(gr) + 1
    BY <2>1, AutoGateProperties
  <2>3. end.id \in DOMAIN end.graph
    BY <2>2 DEF IsGraph, Extended
  <2>. QED
    BY <2>2, <2>3 DEF end
<1>2. CASE ~NeedsAuto(gr, v, always)
  <2>1. end.graph = gr /\ end.id = v /\ ~always
    BY <1>2 DEF End, NeedsAuto
  <2> HIDE DEF end
  <2>2. Extended(gr, gr)
    BY DEF Extended, Grown, SameTypes, IsGraph
  <2>. QED
    BY <2>1, <2>2 DEF end
<1>. QED
  BY <1>1, <1>2

(* Connecting two nodes extends the graph; it is refused only when a gate is
   connected to itself. *)
LEMMA LinkProperties ==
  ASSUME IsGraph(g), asked \subseteq (DOMAIN g) \X (DOMAIN g),
         NEW a \in DOMAIN g, NEW b \in DOMAIN g,
         NEW always \in BOOLEAN, NEW attrs \in EdgeAttrs,
         Link(a, b, always, attrs)
  PROVE  /\ Extended(g, g')
         /\ err' \in {"ok", "CONN"}
         /\ asked' \subseteq (DOMAIN g') \X (DOMAIN g')
         /\ always \/ a # b => err' = "ok"
<1> DEFINE left  == End(g, a, always)
           right == End(left.graph, b, always)
<1>1. /\ g' = AddEdgeId(right.graph, left.id, right.id, attrs)
      /\ IF EdgeRefused(right.graph, left.id, right.id)
         THEN err' = "CONN" /\ UNCHANGED asked
         ELSE err' = "ok" /\ asked' = asked \cup {<<a, b>>}
  BY DEF Link
<1>2. /\ Extended(g, left.graph)
      /\ left.id \in DOMAIN left.graph
      /\ left.id = a \/ left.id = Len(g) + 1
  BY EndProperties
<1>3. IsGraph(left.graph) /\ b \in DOMAIN left.graph
  BY <1>2, ExtendedIds DEF Extended
<1>4. /\ Extended(left.graph, right.graph)
      /\ right.id \in DOMAIN right.graph
      /\ always => right.id = Len(left.graph) + 1
      /\ right.id = b \/ right.id = Len(left.graph) + 1
  <2> HIDE DEF left
  <2>. QED
    BY <1>3, EndProperties
<1> HIDE DEF left, right
<1>5. IsGraph(right.graph) /\ DOMAIN left.graph \subseteq DOMAIN right.graph
  BY <1>3, <1>4, ExtendedIds DEF Extended
<1>6. left.id \in 0..Len(right.graph) /\ right.id \in 0..Len(right.graph)
  BY <1>2, <1>4, <1>5 DEF IsGraph
<1>7. Extended(right.graph, g')
  BY <1>1, <1>5, <1>6, EdgeExtends
<1>8. Extended(g, g')
  BY <1>2, <1>3, <1>4, <1>5, <1>7, ExtendedTwice
<1>9. asked' \subseteq (DOMAIN g') \X (DOMAIN g')
  BY <1>1, <1>8, ExtendedIds
<1>10. ASSUME always \/ a # b PROVE left.id # right.id
  <2>1. left.id \in 1..Len(left.graph) /\ Len(left.graph) \in Nat
    BY <1>2, <1>3 DEF IsGraph
  <2>2. CASE right.id = Len(left.graph) + 1
    BY <2>1, <2>2
  <2>3. CASE right.id = b /\ right.id # Len(left.graph) + 1
    <3>1. a # b
      BY <1>4, <1>10, <2>3
    <3>2. b \in 1..Len(g) /\ Len(g) \in Nat
      BY DEF IsGraph
    <3>. QED
      BY <1>2, <2>3, <3>1, <3>2
  <2>. QED
    BY <1>4, <2>2, <2>3
<1>11. ASSUME always \/ a # b PROVE ~EdgeRefused(right.graph, left.id, right.id)
  <2>1. /\ left.id \in 1..Len(right.graph) /\ right.id \in 1..Len(right.graph)
        /\ Len(right.graph) \in Nat
    BY <1>2, <1>4, <1>5 DEF IsGraph
  <2>. QED
    BY <1>10, <1>11, <2>1 DEF EdgeRefused
<1>. QED
  BY <1>1, <1>8, <1>9, <1>11
----------------------------------------------------------------------------
(* The inductive invariant: Link needs valid ids, and its duplicate test needs
   lists that agree. *)
WInv == TypeOK /\ GraphIsSimple

(* The kind of a job says which record it is. *)
LEMMA JobKinds ==
  ASSUME job \in {Idle} \cup GateJob \cup WireJob \cup InsertJob
  PROVE  /\ job.kind \in {"gates", "ports"} <=> job \in GateJob
         /\ job.kind \in {"alllist", "match", "line", "ring"} <=> job \in WireJob
         /\ job.kind \in {"insert_nodes", "insert_edges"} <=> job \in InsertJob
         /\ job.kind = "idle" <=> job = Idle
<1>1. CASE job = Idle
  BY <1>1 DEF Idle, GateJob, WireJob, InsertJob
<1>2. CASE job \in GateJob
  BY <1>2 DEF Idle, GateJob, WireJob, InsertJob
<1>3. CASE job \in WireJob
  BY <1>3 DEF Idle, GateJob, WireJob, InsertJob
<1>4. CASE job \in InsertJob
  BY <1>4 DEF Idle, GateJob, WireJob, InsertJob
<1>. QED
  BY <1>1, <1>2, <1>3, <1>4

(* The part of the type invariant that is not about the job. *)
Rest == err \in {"ok", "CONN", "NODE", "crash"} /\ asked \subseteq (DOMAIN g) \X (DOMAIN g)

(* The new state of a step that extends the graph is good when the job's is. *)
LEMMA StepGood ==
  ASSUME WInv, Extended(g, g'), Rest',
         job' \in {Idle} \cup GateJob \cup WireJob \cup InsertJob, JobInRange'
  PROVE  WInv'
<1>1. IsGraph(g') /\ Simple(g')
  BY DEF WInv, GraphIsSimple, Extended
<1>. QED
  BY <1>1 DEF WInv, TypeOK, GraphIsSimple, Rest

LEMMA RestGrows ==
  ASSUME WInv, Extended(g, g'), err' \in {"ok", "CONN", "NODE", "crash"}, asked' = asked
  PROVE  Rest'
<1>1. DOMAIN g \subseteq DOMAIN g'
  BY ExtendedIds DEF WInv, TypeOK
<1>. QED
  BY <1>1 DEF Rest, WInv, TypeOK

LEMMA NothingExtends ==
  ASSUME WInv, g' = g
  PROVE  Extended(g, g')
BY DEF WInv, TypeOK, Extended, Grown, SameTypes, IsGraph

(* A new path is a name, and so is the name of a gate or of an inserted node. *)
LEMMA NamesAreNames ==
  ASSUME NEW path \in Names
  PROVE  /\ \A part \in Parts : Append(path, part) \in Names
         /\ \A name \in Names : path \o name \in Names
BY DEF Names

LEMMA ExpandSimpleStep ==
  ASSUME WInv, NEW path \in Paths, NEW list \in GateLists,
         ExpandSimple(path, list) \/ ExpandCompound(path, list)
  PROVE  WInv' /\ Extended(g, g')
<1>1. path \in Names /\ list \in Seq(Parts)
  BY WiringAssumption
<1>2. Extended(g, g')
  <2>1. CASE g' = AddNode(g, path, "NODE")
    BY <1>1, <2>1, NodeExtends DEF WInv, TypeOK
  <2>2. CASE g' = g
    BY <2>2, NothingExtends
  <2>. QED
    BY <2>1, <2>2 DEF ExpandSimple, ExpandCompound
<1>3. err' \in {"ok", "CONN", "NODE", "crash"} /\ asked' = asked
  BY DEF ExpandSimple, ExpandCompound, WInv, TypeOK
<1>4. PICK kind \in {"gates", "ports"} : job' = [kind |-> kind, path |-> path, list |-> list, i |-> 1]
  BY DEF ExpandSimple, ExpandCompound
<1>5. job' \in GateJob
  BY <1>1, <1>4 DEF GateJob
<1>6. JobInRange'
  BY <1>4 DEF JobInRange, InsertJob, WireJob
<1>. QED
  BY <1>2, <1>3, <1>5, <1>6, RestGrows, StepGood

LEMMA InsertProductStep ==
  ASSUME WInv, NEW path \in Paths, NEW prod \in Products, InsertProduct(path, prod)
  PROVE  WInv' /\ Extended(g, g')
<1>1. job' = [kind |-> "insert_nodes", path |-> path, prod |-> prod, i |-> 1, j |-> 1]
  BY DEF InsertProduct
<1>2. job' \in InsertJob
  BY <1>1, WiringAssumption DEF InsertJob
<1>3. JobInRange'
  BY <1>1 DEF JobInRange, WireJob
<1>4. Extended(g, g') /\ Rest'
  BY NothingExtends, RestGrows DEF InsertProduct, WInv, TypeOK
<1>. QED
  BY <1>2, <1>3, <1>4, StepGood

(* One more gate is done; the list keeps its range. *)
LEMMA GateDone ==
  ASSUME job \in GateJob, JobInRange, job' = [job EXCEPT !.i = @ + 1]
  PROVE  job' \in GateJob /\ JobInRange'
<1>1. job' \in GateJob /\ job'.i >= 1
  BY DEF JobInRange, Idle, GateJob
<1>. QED
  BY <1>1 DEF JobInRange, InsertJob, WireJob, GateJob

LEMMA GateStepStep ==
  ASSUME WInv, GateStep
  PROVE  WInv' /\ Extended(g, g')
<1> DEFINE name == Append(job.path, job.list[job.i])
           more == AddNode(g, name, "GATE")
<1>1. job \in GateJob /\ job.i >= 1 /\ job.i <= Len(job.list) /\ job # Idle
  BY JobKinds DEF GateStep, WInv, TypeOK, JobInRange, Idle, GateJob
<1>2. name \in Names
  <2>1. job.path \in Names /\ job.list[job.i] \in Parts
    BY <1>1 DEF GateJob
  <2>. QED
    BY <2>1, NamesAreNames
<1> HIDE DEF name
<1>3. Extended(g, more) /\ IsGraph(more)
  BY <1>2, NodeExtends DEF WInv, TypeOK, Extended
<1>4. g' = more \/ g' = AddEdgeName(more, name, job.path, NULL)
  BY DEF GateStep, name, more
<1>5. Extended(g, g')
  <2>1. NULL \in EdgeAttrs
    BY DEF EdgeAttrs
  <2>2. Extended(more, AddEdgeName(more, name, job.path, NULL))
    BY <1>3, <2>1, NamedEdgeExtends
  <2> HIDE DEF more
  <2>. QED
    BY <1>3, <1>4, <2>2, ExtendedTwice DEF WInv, TypeOK
<1>6. Rest'
  <2>1. err' \in {"ok", "CONN", "NODE", "crash"} /\ asked' = asked
    BY DEF GateStep, WInv, TypeOK
  <2>. QED
    BY <1>5, <2>1, RestGrows
<1>7. job' \in GateJob /\ JobInRange'
  BY <1>1, GateDone DEF GateStep, WInv, TypeOK
<1>. QED
  BY <1>5, <1>6, <1>7, StepGood

(* The steps of graph_insert's loops change only where the loops stand. *)
LEMMA OuterCounter ==
  ASSUME NEW jb \in InsertJob, NEW n \in Nat
  PROVE  /\ [jb EXCEPT !.i = n] \in InsertJob
         /\ [jb EXCEPT !.i = n].i = n
         /\ [jb EXCEPT !.i = n].j = jb.j
BY DEF InsertJob

LEMMA InnerCounter ==
  ASSUME NEW jb \in InsertJob, NEW n \in Nat
  PROVE  /\ [jb EXCEPT !.j = n] \in InsertJob
         /\ [jb EXCEPT !.j = n].i = jb.i
         /\ [jb EXCEPT !.j = n].j = n
BY DEF InsertJob

LEMMA InnerReset ==
  ASSUME NEW jb \in InsertJob, NEW n \in Nat
  PROVE  /\ [jb EXCEPT !.i = n, !.j = 1] \in InsertJob
         /\ [jb EXCEPT !.i = n, !.j = 1].i = n
         /\ [jb EXCEPT !.i = n, !.j = 1].j = 1
BY DEF InsertJob

LEMMA SecondLoop ==
  ASSUME NEW jb \in InsertJob, NEW n \in Nat
  PROVE  /\ [jb EXCEPT !.kind = "insert_edges", !.i = n] \in InsertJob
         /\ [jb EXCEPT !.kind = "insert_edges", !.i = n].i = n
         /\ [jb EXCEPT !.kind = "insert_edges", !.i = n].j = jb.j
BY DEF InsertJob

LEMMA InsertNodeStep ==
  ASSUME WInv, InsertNode
  PROVE  WInv' /\ Extended(g, g')
<1>1. job \in InsertJob /\ job.i >= 1 /\ job.j >= 1 /\ job # Idle
  BY JobKinds DEF InsertNode, WInv, TypeOK, JobInRange, Idle, InsertJob
<1>2. IsGraph(job.prod) /\ PlainTypes(job.prod) /\ job.path \in Names
  BY <1>1, WiringAssumption DEF InsertJob
<1>3. Extended(g, g')
  <2>1. CASE job.i <= Len(job.prod)
    <3>1. job.i \in DOMAIN job.prod
      BY <1>1, <1>2, <2>1 DEF InsertJob, IsGraph
    <3>2. job.prod[job.i].name \in Names /\ job.prod[job.i].type \in {"NODE", "GATE"}
      BY <1>2, <3>1, NodeFields DEF PlainTypes
    <3>3. job.path \o job.prod[job.i].name \in Names
      BY <1>2, <3>2, NamesAreNames
    <3>4. g' = AddNode(g, job.path \o job.prod[job.i].name, job.prod[job.i].type)
      BY <2>1 DEF InsertNode
    <3>. QED
      BY <3>2, <3>3, <3>4, NodeExtends DEF WInv, TypeOK
  <2>2. CASE ~(job.i <= Len(job.prod))
    BY <2>2, NothingExtends DEF InsertNode
  <2>. QED
    BY <2>1, <2>2
<1>4. Rest'
  BY <1>3, RestGrows DEF InsertNode, WInv, TypeOK
<1>5. \/ job' = [job EXCEPT !.i = @ + 1]
      \/ job' = [job EXCEPT !.kind = "insert_edges", !.i = 1]
  BY DEF InsertNode
<1>6. job' \in InsertJob /\ job'.i >= 1 /\ job'.j >= 1
  <2>1. job.i \in Nat /\ job.j \in Nat /\ job.i + 1 \in Nat /\ job.i + 1 >= 1 /\ 1 \in Nat /\ 1 >= 1
    BY <1>1 DEF InsertJob
  <2>2. CASE job' = [job EXCEPT !.i = job.i + 1]
    <3>1. PICK n \in Nat : n >= 1 /\ job' = [job EXCEPT !.i = n]
      BY <2>1, <2>2
    <3>2. /\ [job EXCEPT !.i = n] \in InsertJob
          /\ [job EXCEPT !.i = n].i = n
          /\ [job EXCEPT !.i = n].j = job.j
      BY <1>1, OuterCounter, Zenon
    <3>. QED
      BY <1>1, <3>1, <3>2, Zenon
  <2>3. CASE job' = [job EXCEPT !.kind = "insert_edges", !.i = 1]
    <3>1. PICK n \in Nat : n >= 1 /\ job' = [job EXCEPT !.kind = "insert_edges", !.i = n]
      BY <2>1, <2>3
    <3>2. /\ [job EXCEPT !.kind = "insert_edges", !.i = n] \in InsertJob
          /\ [job EXCEPT !.kind = "insert_edges", !.i = n].i = n
          /\ [job EXCEPT !.kind = "insert_edges", !.i = n].j = job.j
      BY <1>1, SecondLoop, Zenon
    <3>. QED
      BY <1>1, <2>1, <3>1, <3>2, Zenon
  <2>. QED
    BY <1>5, <2>2, <2>3
<1>7. JobInRange'
  BY <1>6 DEF JobInRange, InsertJob, WireJob
<1>. QED
  BY <1>3, <1>4, <1>6, <1>7, StepGood

LEMMA InsertEdgeStep ==
  ASSUME WInv, InsertEdge
  PROVE  WInv' /\ Extended(g, g')
<1>1. job \in InsertJob /\ job.i >= 1 /\ job.j >= 1 /\ job # Idle
  BY JobKinds DEF InsertEdge, WInv, TypeOK, JobInRange, Idle, InsertJob
<1>2. IsGraph(job.prod)
  BY <1>1, WiringAssumption DEF InsertJob
<1> DEFINE edge == job.prod[job.i].adj[job.j]
           from == job.path \o job.prod[job.i].name
           to   == job.path \o job.prod[edge.n].name
<1>3. \/ g' = g
      \/ edge \in Edge /\ g' = AddEdgeName(g, from, to, edge.attrs)
  <2>1. CASE job.j <= Len(job.prod[job.i].adj)
    <3>1. job.i \in DOMAIN job.prod
      <4>1. job.i \in Nat /\ job.i >= 1 /\ job.prod \in Seq(Node)
        BY <1>1, <1>2 DEF InsertJob, IsGraph
      <4>2. job.i <= Len(job.prod)
        BY DEF InsertEdge
      <4>. QED
        BY <4>1, <4>2
    <3>2. job.prod[job.i].adj \in Seq(Edge)
      BY <1>2, <3>1, NodeFields
    <3>3. job.prod[job.i].adj[job.j] \in Edge
      BY <1>1, <2>1, <3>2 DEF InsertJob
    <3>4. g' = g \/ g' = AddEdgeName(g, from, to, edge.attrs)
      BY <2>1 DEF InsertEdge
    <3>. QED
      BY <3>3, <3>4
  <2>2. CASE ~(job.j <= Len(job.prod[job.i].adj))
    BY <2>2 DEF InsertEdge
  <2>. QED
    BY <2>1, <2>2
<1>4. Extended(g, g')
  <2>1. CASE g' = g
    BY <2>1, NothingExtends
  <2>2. CASE edge \in Edge /\ g' = AddEdgeName(g, from, to, edge.attrs)
    <3>1. edge.attrs \in EdgeAttrs
      BY <2>2 DEF Edge
    <3> HIDE DEF edge, from, to
    <3>. QED
      BY <2>2, <3>1, NamedEdgeExtends DEF WInv, TypeOK
  <2>. QED
    BY <1>3, <2>1, <2>2
<1>5. Rest'
  <2>1. err' \in {"ok", "CONN", "NODE", "crash"} /\ asked' = asked
    BY DEF InsertEdge, WInv, TypeOK
  <2>. QED
    BY <1>4, <2>1, RestGrows
<1>6. \/ job' = [job EXCEPT !.j = @ + 1]
      \/ job' = [job EXCEPT !.i = @ + 1, !.j = 1]
  BY DEF InsertEdge
<1>7. job' \in InsertJob /\ job'.i >= 1 /\ job'.j >= 1
  <2>1. /\ job.i \in Nat /\ job.i + 1 \in Nat /\ job.i + 1 >= 1
        /\ job.j \in Nat /\ job.j + 1 \in Nat /\ job.j + 1 >= 1 /\ 1 \in Nat /\ 1 >= 1
    BY <1>1 DEF InsertJob
  <2>2. CASE job' = [job EXCEPT !.j = job.j + 1]
    <3>1. PICK n \in Nat : n >= 1 /\ job' = [job EXCEPT !.j = n]
      BY <2>1, <2>2
    <3>2. /\ [job EXCEPT !.j = n] \in InsertJob
          /\ [job EXCEPT !.j = n].i = job.i
          /\ [job EXCEPT !.j = n].j = n
      BY <1>1, InnerCounter, Zenon
    <3>. QED
      BY <1>1, <2>1, <3>1, <3>2, Zenon
  <2>3. CASE job' = [job EXCEPT !.i = job.i + 1, !.j = 1]
    <3>1. PICK n \in Nat : n >= 1 /\ job' = [job EXCEPT !.i = n, !.j = 1]
      BY <2>1, <2>3
    <3>2. /\ [job EXCEPT !.i = n, !.j = 1] \in InsertJob
          /\ [job EXCEPT !.i = n, !.j = 1].i = n
          /\ [job EXCEPT !.i = n, !.j = 1].j = 1
      BY <1>1, InnerReset, Zenon
    <3>. QED
      BY <1>1, <2>1, <3>1, <3>2, Zenon
  <2>. QED
    BY <1>6, <2>2, <2>3
<1>8. JobInRange'
  BY <1>7 DEF JobInRange, InsertJob, WireJob
<1>. QED
  BY <1>4, <1>5, <1>7, <1>8, StepGood
LEMMA ConnectPlainStep ==
  ASSUME WInv, NEW from, NEW to, NEW attrs \in EdgeAttrs, ConnectPlain(from, to, attrs)
  PROVE  WInv' /\ Extended(g, g')
<1> DEFINE a == FindNode(g, from)
           b == FindNode(g, to)
<1>1. IsGraph(g) /\ asked \subseteq (DOMAIN g) \X (DOMAIN g)
  BY DEF WInv, TypeOK
<1>2. job = Idle /\ job' = Idle
  BY DEF ConnectPlain, Start
<1>3. JobInRange'
  BY <1>2 DEF JobInRange, Idle, InsertJob, WireJob
<1>4. Extended(g, g') /\ Rest'
  <2>1. CASE a = 0 \/ b = 0
    <3>1. g' = g /\ asked' = asked /\ err' = "CONN"
      BY <2>1 DEF ConnectPlain
    <3>2. Extended(g, g')
      BY <3>1, NothingExtends
    <3>. QED
      BY <3>1, <3>2, RestGrows
  <2>2. CASE ~(a = 0 \/ b = 0)
    <3>1. Link(a, b, FALSE, attrs)
      BY <2>2 DEF ConnectPlain
    <3>2. a \in DOMAIN g /\ b \in DOMAIN g
      BY <1>1, <2>2, FindNodeRange DEF IsGraph
    <3> HIDE DEF a, b
    <3>. QED
      BY <1>1, <3>1, <3>2, LinkProperties DEF Rest
  <2>. QED
    BY <2>1, <2>2
<1>. QED
  BY <1>2, <1>3, <1>4, StepGood

(* The ids of a line, ring or alllist are looked up before anything changes. *)
LEMMA NamedBegins ==
  ASSUME IsGraph(g), NEW shape \in {"alllist", "line", "ring"}, NEW named, NEW len \in Nat,
         DOMAIN named = 1..len, NEW attrs \in EdgeAttrs, ConnectNamed(shape, named, attrs)
  PROVE  g' = g /\ job' \in {Idle} \cup WireJob /\ JobInRange'
<1> DEFINE ids == [k \in DOMAIN named |-> FindNode(g, named[k])]
           first == IF shape = "alllist" THEN 2 ELSE 1
<1>1. g' = g /\ job = Idle
  BY DEF ConnectNamed, Start
<1>2. CASE \E k \in DOMAIN ids : ids[k] = 0
  <2>1. job' = Idle
    BY <1>1, <1>2 DEF ConnectNamed
  <2>2. JobInRange'
    BY <2>1 DEF JobInRange, Idle, InsertJob, WireJob
  <2>. QED
    BY <1>1, <2>1, <2>2
<1>3. CASE ~ \E k \in DOMAIN ids : ids[k] = 0
  <2>1. job' = [kind |-> shape, ids |-> ids, j |-> 1, attrs |-> attrs, i |-> first]
    BY <1>3 DEF ConnectNamed
  <2>2. \A k \in DOMAIN ids : ids[k] \in DOMAIN g
    <3>1. \A k \in DOMAIN named : FindNode(g, named[k]) \in 0..Len(g) /\ g \in Seq(Node)
      BY FindNodeRange DEF IsGraph
    <3>. QED
      BY <1>3, <3>1
  <2>3. DOMAIN ids = 1..len /\ \A k \in 1..len : ids[k] \in Nat \ {0}
    BY <2>2 DEF IsGraph
  <2> HIDE DEF ids
  <2>4. ids \in Seq(Nat \ {0})
    <3>1. ids = [k \in 1..len |-> ids[k]]
      BY DEF ids
    <3>. QED
      BY <2>3, <3>1
  <2>5. /\ job'.kind = shape /\ job'.ids = ids /\ job'.j = 1 /\ job'.i = first
        /\ first \in Nat /\ first >= 1 /\ (shape = "alllist" => first = 2)
    BY <2>1
  <2>6. job' \in WireJob
    BY <2>1, <2>4 DEF WireJob
  <2>7. JobInRange'
    <3>1. job' \notin InsertJob
      BY <2>6 DEF InsertJob, WireJob
    <3>2. Double' => job'.j \in 1..(job'.i - 1)
      BY <2>5 DEF Double
    <3>. QED
      BY <1>1, <2>2, <2>5, <3>1, <3>2 DEF JobInRange
  <2>. QED
    BY <1>1, <2>6, <2>7
<1>. QED
  BY <1>2, <1>3

LEMMA ConnectNamedStep ==
  ASSUME WInv, NEW shape \in {"alllist", "line", "ring"}, NEW named, NEW len \in Nat,
         DOMAIN named = 1..len, NEW attrs \in EdgeAttrs, ConnectNamed(shape, named, attrs)
  PROVE  WInv' /\ Extended(g, g')
<1>1. g' = g /\ job' \in {Idle} \cup WireJob /\ JobInRange'
  BY NamedBegins DEF WInv, TypeOK
<1>2. Extended(g, g')
  BY <1>1, NothingExtends
<1>3. err' \in {"ok", "CONN", "NODE", "crash"} /\ asked' = asked
  BY DEF ConnectNamed, WInv, TypeOK
<1>4. Rest'
  BY <1>2, <1>3, RestGrows
<1>. QED
  BY <1>1, <1>2, <1>4, StepGood

(* Those of an all-match are different. *)
LEMMA MatchingBegins ==
  ASSUME IsGraph(g), NEW pattern, NEW attrs \in EdgeAttrs, ConnectMatching(pattern, attrs)
  PROVE  g' = g /\ job' \in WireJob /\ JobInRange'
<1> DEFINE matched == {v \in DOMAIN g : g[v].name \in pattern /\ Live(g[v])}
           ids == InOrder(matched)
<1>1. g' = g
  BY DEF ConnectMatching
<1>3. job' = [kind |-> "match", ids |-> ids, i |-> 2, j |-> 1, attrs |-> attrs]
  BY DEF ConnectMatching
<1>4. matched \in SUBSET (1..Len(g)) /\ Len(g) \in Nat /\ DOMAIN g = 1..Len(g)
  BY DEF IsGraph
<1>5. /\ ids \in Seq(matched)
      /\ \A k, l \in DOMAIN ids : ids[k] = ids[l] => k = l
  <2> HIDE DEF matched
  <2>. QED
    BY <1>4, InOrderProperties
<1> HIDE DEF ids
<1>6. \A k \in DOMAIN ids : ids[k] \in matched
  <2> HIDE DEF matched
  <2>. QED
    BY <1>5
<1>7. ids \in Seq(Nat \ {0}) /\ \A k \in DOMAIN ids : ids[k] \in DOMAIN g
  <2>1. \A v \in matched : v \in DOMAIN g /\ v \in Nat \ {0}
    BY <1>4
  <2> HIDE DEF matched
  <2>. QED
    BY <1>5, <1>6, <2>1
<1>8. job' \in WireJob
  BY <1>3, <1>7 DEF WireJob
<1>9. JobInRange'
  <2>1. job' \notin InsertJob
    BY <1>8 DEF InsertJob, WireJob
  <2>. QED
    BY <1>1, <1>3, <1>5, <1>7, <2>1 DEF JobInRange, IsInjective
<1>. QED
  BY <1>1, <1>8, <1>9

LEMMA ConnectMatchingStep ==
  ASSUME WInv, NEW pattern, NEW attrs \in EdgeAttrs, ConnectMatching(pattern, attrs)
  PROVE  WInv' /\ Extended(g, g')
<1>1. g' = g /\ job' \in WireJob /\ JobInRange'
  BY MatchingBegins DEF WInv, TypeOK
<1>2. Extended(g, g')
  BY <1>1, NothingExtends
<1>3. err' \in {"ok", "CONN", "NODE", "crash"} /\ asked' = asked
  BY DEF ConnectMatching, WInv, TypeOK
<1>4. Rest'
  BY <1>2, <1>3, RestGrows
<1>. QED
  BY <1>1, <1>2, <1>4, StepGood

LEMMA JobDoneStep ==
  ASSUME WInv, JobDone
  PROVE  WInv' /\ Extended(g, g')
<1>1. job' = Idle /\ g' = g /\ asked' = asked /\ err' = err
  BY DEF JobDone
<1>2. Extended(g, g') /\ Rest'
  <2>1. Extended(g, g')
    BY <1>1, NothingExtends
  <2>. QED
    BY <1>1, <2>1, RestGrows DEF WInv, TypeOK
<1>3. JobInRange'
  BY <1>1 DEF JobInRange, Idle, InsertJob, WireJob
<1>. QED
  BY <1>1, <1>2, <1>3, StepGood

(* What the step of a list may do to its job. *)
LEMMA OuterPair ==
  ASSUME NEW jb \in WireJob, NEW n \in Nat
  PROVE  /\ [jb EXCEPT !.i = n, !.j = 1] \in WireJob
         /\ [jb EXCEPT !.i = n, !.j = 1].i = n
         /\ [jb EXCEPT !.i = n, !.j = 1].j = 1
         /\ [jb EXCEPT !.i = n, !.j = 1].ids = jb.ids
         /\ [jb EXCEPT !.i = n, !.j = 1].kind = jb.kind
BY DEF WireJob

LEMMA InnerPair ==
  ASSUME NEW jb \in WireJob, NEW n \in Nat
  PROVE  /\ [jb EXCEPT !.j = n] \in WireJob
         /\ [jb EXCEPT !.j = n].i = jb.i
         /\ [jb EXCEPT !.j = n].j = n
         /\ [jb EXCEPT !.j = n].ids = jb.ids
         /\ [jb EXCEPT !.j = n].kind = jb.kind
BY DEF WireJob

LEMMA EmptyRingPair ==
  ASSUME NEW jb \in WireJob, NEW n \in Nat
  PROVE  /\ [jb EXCEPT !.i = n] \in WireJob
         /\ [jb EXCEPT !.i = n].i = n
         /\ [jb EXCEPT !.i = n].ids = jb.ids
         /\ [jb EXCEPT !.i = n].kind = jb.kind
BY DEF WireJob

(* The ids a list has in hand are ids of the graph, and those of an all-match
   are two. *)
LEMMA PairInGraph ==
  ASSUME JobInRange, job \in WireJob, job.i <= LastPair
  PROVE  /\ PairInHand[1] \in DOMAIN g /\ PairInHand[2] \in DOMAIN g
         /\ job.kind = "match" => PairInHand[1] # PairInHand[2]
<1>1. /\ job.ids \in Seq(Nat \ {0}) /\ job.i \in Nat /\ job.j \in Nat
      /\ job.kind \in {"alllist", "match", "line", "ring"}
  BY DEF WireJob
<1>2. /\ job.i >= 1
      /\ \A k \in DOMAIN job.ids : job.ids[k] \in DOMAIN g
      /\ Double => job.j \in 1..(job.i - 1)
      /\ job.kind = "match" => IsInjective(job.ids)
  BY DEF JobInRange, Idle, WireJob
<1>3. CASE Double
  <2>1. job.i <= Len(job.ids)
    BY <1>3 DEF Double, LastPair
  <2>2. job.i \in DOMAIN job.ids /\ job.j \in DOMAIN job.ids /\ job.i # job.j
    BY SMTT(30), <1>1, <1>2, <1>3, <2>1
  <2>3. PairInHand[1] = job.ids[job.i] /\ PairInHand[2] = job.ids[job.j]
    BY <1>3 DEF PairInHand
  <2>. QED
    BY <1>2, <2>2, <2>3 DEF IsInjective
<1>4. CASE ~Double
  <2>1. job.kind = "line" \/ job.kind = "ring"
    BY <1>1, <1>4 DEF Double
  <2>2. CASE job.i < Len(job.ids)
    <3>1. job.i \in DOMAIN job.ids /\ job.i + 1 \in DOMAIN job.ids
      BY <1>1, <1>2, <2>2
    <3>2. PairInHand[1] = job.ids[job.i] /\ PairInHand[2] = job.ids[job.i + 1]
      BY <1>4, <2>2 DEF PairInHand
    <3>. QED
      BY <1>2, <2>1, <3>1, <3>2
  <2>3. CASE ~(job.i < Len(job.ids))
    <3>1. Len(job.ids) \in Nat /\ job.i <= Len(job.ids)
      BY <1>1, <2>1 DEF LastPair
    <3>2. 1 \in DOMAIN job.ids /\ Len(job.ids) \in DOMAIN job.ids
      BY <1>1, <1>2, <3>1
    <3>3. PairInHand[1] = job.ids[1] /\ PairInHand[2] = job.ids[Len(job.ids)]
      BY <1>4, <2>3 DEF PairInHand
    <3>. QED
      BY <1>2, <2>1, <3>2, <3>3
  <2>. QED
    BY <2>2, <2>3
<1>. QED
  BY <1>3, <1>4
(* The next pair of a list, as the graph grows. *)
LEMMA PairDone ==
  ASSUME IsGraph(g), job \in WireJob, JobInRange, Extended(g, g'), WireStep
  PROVE  job' \in WireJob /\ JobInRange'
<1>1. /\ job.i \in Nat /\ job.i >= 1 /\ job.i + 1 \in Nat
      /\ job.j \in Nat /\ job.j + 1 \in Nat
      /\ \A k \in DOMAIN job.ids : job.ids[k] \in DOMAIN g
      /\ Double => job.j >= 1
      /\ job.kind = "match" => IsInjective(job.ids)
  BY DEF JobInRange, Idle, WireJob
<1>2. \A k \in DOMAIN job.ids : job.ids[k] \in DOMAIN g'
  BY <1>1, ExtendedIds
<1>3. /\ job' \in WireJob /\ job'.i \in Nat /\ job'.i >= 1
      /\ job'.ids = job.ids /\ job'.kind = job.kind
      /\ Double => job'.j \in 1..(job'.i - 1)
  <2>1. CASE Double /\ job.j < job.i - 1
    <3>1. PICK n \in Nat : n = job.j + 1 /\ job' = [job EXCEPT !.j = n]
      BY <1>1, <2>1 DEF WireStep
    <3>2. /\ job' \in WireJob /\ job'.i = job.i /\ job'.j = n
          /\ job'.ids = job.ids /\ job'.kind = job.kind
      BY <3>1, InnerPair, Zenon
    <3>. QED
      BY <1>1, <2>1, <3>1, <3>2
  <2>2. CASE ~(Double /\ job.j < job.i - 1)
    <3>1. PICK n \in Nat : n = job.i + 1 /\ job' = [job EXCEPT !.i = n, !.j = 1]
      BY <1>1, <2>2 DEF WireStep
    <3>2. /\ job' \in WireJob /\ job'.i = n /\ job'.j = 1
          /\ job'.ids = job.ids /\ job'.kind = job.kind
      BY <3>1, OuterPair, Zenon
    <3>. QED
      BY <1>1, <2>2, <3>1, <3>2
  <2>. QED
    BY <2>1, <2>2
<1>4. JobInRange'
  <2>1. job' \notin InsertJob
    BY <1>3 DEF InsertJob, WireJob
  <2>2. Double' <=> Double
    BY <1>3 DEF Double
  <2>. QED
    BY <1>1, <1>2, <1>3, <2>1, <2>2 DEF JobInRange
<1>. QED
  BY <1>3, <1>4

LEMMA WireStepStep ==
  ASSUME WInv, WireStep
  PROVE  WInv' /\ Extended(g, g') /\ err' = "ok"
<1> DEFINE a == PairInHand[1]
           b == PairInHand[2]
           always == job.kind # "match"
<1>1. job \in WireJob
  BY JobKinds DEF WireStep, WInv, TypeOK
<1>2. a \in DOMAIN g /\ b \in DOMAIN g /\ (always \/ a # b)
  BY <1>1, PairInGraph DEF WireStep, WInv, TypeOK
<1>3. /\ Link(a, b, always, job.attrs) /\ job.attrs \in EdgeAttrs /\ always \in BOOLEAN
      /\ IsGraph(g) /\ asked \subseteq (DOMAIN g) \X (DOMAIN g)
  BY <1>1 DEF WireStep, WireJob, WInv, TypeOK
<1> HIDE DEF a, b, always
<1>4. Extended(g, g') /\ err' = "ok" /\ Rest'
  BY <1>2, <1>3, LinkProperties DEF Rest
<1>5. job' \in WireJob /\ JobInRange'
  BY <1>1, <1>3, <1>4, PairDone DEF WInv, TypeOK
<1>. QED
  BY <1>4, <1>5, StepGood

LEMMA RingDone ==
  ASSUME job \in WireJob, EmptyRing
  PROVE  job' \in WireJob /\ JobInRange'
<1>1. job' \in WireJob /\ job'.i = 2 /\ job'.ids = <<>> /\ job'.kind = "ring"
  <2>1. job' = [job EXCEPT !.i = 2] /\ 2 \in Nat /\ job.ids = <<>> /\ job.kind = "ring"
    BY DEF EmptyRing
  <2>. QED
    BY <2>1, EmptyRingPair, Zenon
<1>2. job' \notin InsertJob /\ job' # Idle /\ ~Double' /\ DOMAIN job'.ids = {}
  BY <1>1 DEF InsertJob, WireJob, Idle, Double
<1>. QED
  BY <1>1, <1>2 DEF JobInRange

LEMMA EmptyRingStep ==
  ASSUME WInv, EmptyRing
  PROVE  WInv' /\ Extended(g, g') /\ err' # "CONN"
<1>1. job \in WireJob /\ job.kind = "ring" /\ job.ids = <<>> /\ job.attrs \in EdgeAttrs
  <2>1. job \in WireJob
    BY JobKinds DEF EmptyRing, WInv, TypeOK
  <2>. QED
    BY <2>1 DEF EmptyRing, WireJob
<1>2. IsGraph(g) /\ asked \subseteq (DOMAIN g) \X (DOMAIN g)
  BY DEF WInv, TypeOK
<1>3. Extended(g, g') /\ Rest' /\ err' # "CONN"
  <2>1. CASE err' = "crash" /\ g' = g /\ asked' = asked
    <3>1. Extended(g, g')
      BY <2>1, NothingExtends
    <3>. QED
      BY <2>1, <3>1, RestGrows
  <2>2. CASE \E a, b \in DOMAIN g : Link(a, b, TRUE, job.attrs)
    <3>1. PICK a \in DOMAIN g, b \in DOMAIN g : Link(a, b, TRUE, job.attrs)
      BY <2>2
    <3>. QED
      BY <1>1, <1>2, <3>1, LinkProperties DEF Rest
  <2>. QED
    BY <2>1, <2>2 DEF EmptyRing
<1>4. job' \in WireJob /\ JobInRange'
  BY <1>1, RingDone
<1>. QED
  BY <1>3, <1>4, StepGood

----------------------------------------------------------------------------
LEMMA InitGood ==
  ASSUME Init
  PROVE  WInv
<1>1. IsGraph(g) /\ Simple(g)
  BY DEF Init, EmptyGraph, IsGraph, Simple, Symmetric, Loopless, NoParallel
<1>2. JobInRange
  BY DEF Init, JobInRange, Idle, InsertJob, WireJob
<1>. QED
  BY <1>1, <1>2 DEF Init, WInv, TypeOK, GraphIsSimple

(* Every step keeps the invariant, and the graph only grows. *)
LEMMA NextGood ==
  ASSUME WInv, [Next]_vars
  PROVE  WInv' /\ Extended(g, g')
<1>1. CASE \E path \in Paths, list \in GateLists :
             ExpandSimple(path, list) \/ ExpandCompound(path, list)
  BY <1>1, ExpandSimpleStep
<1>2. CASE \E path \in Paths, prod \in Products : InsertProduct(path, prod)
  BY <1>2, InsertProductStep
<1>3. CASE \E from, to \in Nameable, attrs \in EdgeAttrs : ConnectPlain(from, to, attrs)
  BY <1>3, ConnectPlainStep
<1>4. CASE \E shape \in {"alllist", "line", "ring"}, named \in Lists, attrs \in EdgeAttrs :
             ConnectNamed(shape, named, attrs)
  <2>1. PICK shape \in {"alllist", "line", "ring"}, named \in Lists, attrs \in EdgeAttrs :
          ConnectNamed(shape, named, attrs)
    BY <1>4
  <2>2. PICK len \in 0..MaxIds : named \in [1..len -> Nameable]
    BY DEF Lists
  <2>3. len \in Nat /\ DOMAIN named = 1..len
    BY <2>2, WiringAssumption
  <2>. QED
    BY <2>1, <2>3, ConnectNamedStep
<1>5. CASE \E pattern \in SUBSET Taken(g), attrs \in EdgeAttrs : ConnectMatching(pattern, attrs)
  BY <1>5, ConnectMatchingStep
<1>6. CASE GateStep
  BY <1>6, GateStepStep
<1>7. CASE InsertNode
  BY <1>7, InsertNodeStep
<1>8. CASE InsertEdge
  BY <1>8, InsertEdgeStep
<1>9. CASE WireStep
  BY <1>9, WireStepStep
<1>10. CASE EmptyRing
  BY <1>10, EmptyRingStep
<1>11. CASE JobDone
  BY <1>11, JobDoneStep
<1>12. CASE UNCHANGED vars
  <2>1. g' = g /\ job' = job /\ err' = err /\ asked' = asked
    BY <1>12 DEF vars
  <2>2. Extended(g, g')
    BY <2>1, NothingExtends
  <2>3. JobInRange' <=> JobInRange
    BY <2>1 DEF JobInRange, Double
  <2>. QED
    BY <2>1, <2>2, <2>3 DEF WInv, TypeOK, GraphIsSimple
<1>. QED
  BY <1>1, <1>2, <1>3, <1>4, <1>5, <1>6, <1>7, <1>8, <1>9, <1>10, <1>11, <1>12 DEF Next

(* The expansion reads inside its arrays and keeps every id it remembers valid,
   and graph_add_edge_id, testing one of two lists, keeps the graph simple. *)
THEOREM WiringInvariant == Spec => []WInv
<1>1. Init => WInv
  BY InitGood
<1>2. WInv /\ [Next]_vars => WInv'
  BY NextGood
<1>. QED
  BY <1>1, <1>2, PTL DEF Spec

(* Type correctness: entries, counters and remembered ids in range, for all
   definitions (topologies.c, graph_insert and the connect functions). *)
THEOREM TypeCorrect == Spec => []TypeOK
<1>1. WInv => TypeOK
  BY DEF WInv
<1>. QED
  BY <1>1, WiringInvariant, PTL

(* No loop, no double edge, and the two lists of each edge agree, whatever is
   connected to whatever (graph_add_edge_id). *)
THEOREM SimpleAlways == Spec => []GraphIsSimple
<1>1. WInv => GraphIsSimple
  BY DEF WInv
<1>. QED
  BY <1>1, WiringInvariant, PTL

(* No operation takes away a node or an edge, or renames or retypes a node. *)
THEOREM NothingIsTakenAway == Spec => OnlyAdds
<1>1. WInv /\ [Next]_vars => [Grown(g, g') /\ \A i \in DOMAIN g : g'[i].type = g[i].type]_vars
  BY NextGood DEF Extended, SameTypes
<1>. QED
  BY <1>1, WiringInvariant, PTL DEF Spec, OnlyAdds

(* The pairs of alllist, line, ring and all-match are never refused: each end
   is a gate of its own, or the ids are different. *)
THEOREM ListsAreNotRefused == Spec => ListsNeverRefused
<1>1. WInv /\ [Next]_vars => [(job \in WireJob) => err' # "CONN"]_vars
  <2>1. SUFFICES ASSUME WInv, Next, job \in WireJob
                 PROVE  err' # "CONN"
    OBVIOUS
  <2>2. job.kind \in {"alllist", "match", "line", "ring"} /\ job # Idle
    BY <2>1 DEF WireJob, Idle
  <2>3. WireStep \/ EmptyRing \/ JobDone
    BY <2>1, <2>2 DEF Next, ExpandSimple, ExpandCompound, InsertProduct, ConnectPlain,
       ConnectNamed, ConnectMatching, Start, GateStep, InsertNode, InsertEdge
  <2>4. JobDone => err' = "ok"
    BY DEF JobDone
  <2>. QED
    BY <2>1, <2>3, <2>4, WireStepStep, EmptyRingStep
<1>. QED
  BY <1>1, WiringInvariant, PTL DEF Spec, ListsNeverRefused
----------------------------------------------------------------------------
(* Asked is connected: what GatesOf and AskedIsConnected say, of any graph. *)
GatesIn(gr, v) == {x \in Neighbours(gr, v) \cup {v} : gr[x].type = "GATE"}

ConnectedIn(gr, a, b) == \E x \in GatesIn(gr, a), y \in GatesIn(gr, b) : AreAdjacent(gr, x, y)

LEMMA NeighboursKept ==
  ASSUME NEW old, NEW new, IsGraph(old), Extended(old, new), NEW v \in DOMAIN old
  PROVE  /\ Neighbours(old, v) \subseteq Neighbours(new, v)
         /\ Neighbours(old, v) \subseteq DOMAIN old
         /\ \A w : AreAdjacent(old, v, w) => AreAdjacent(new, v, w)
<1>1. \A k \in DOMAIN old[v].adj : k \in DOMAIN new[v].adj /\ new[v].adj[k] = old[v].adj[k]
  BY DEF Extended, Grown
<1>. QED
  BY <1>1 DEF Neighbours, AreAdjacent, IsGraph

LEMMA GatesKept ==
  ASSUME NEW old, NEW new, IsGraph(old), Extended(old, new), NEW v \in DOMAIN old
  PROVE  GatesIn(old, v) \subseteq GatesIn(new, v) /\ GatesIn(old, v) \subseteq DOMAIN old
<1>1. Neighbours(old, v) \subseteq Neighbours(new, v) /\ Neighbours(old, v) \subseteq DOMAIN old
  BY NeighboursKept
<1>2. \A x \in DOMAIN old : new[x].type = old[x].type
  BY DEF Extended, SameTypes
<1>. QED
  BY <1>1, <1>2 DEF GatesIn

(* What is connected stays connected. *)
LEMMA ConnectionsStay ==
  ASSUME NEW old, NEW new, IsGraph(old), Extended(old, new),
         NEW a \in DOMAIN old, NEW b \in DOMAIN old, ConnectedIn(old, a, b)
  PROVE  ConnectedIn(new, a, b)
<1>1. PICK x \in GatesIn(old, a), y \in GatesIn(old, b) : AreAdjacent(old, x, y)
  BY DEF ConnectedIn
<1>2. x \in DOMAIN old /\ x \in GatesIn(new, a) /\ y \in GatesIn(new, b)
  BY GatesKept
<1>3. AreAdjacent(new, x, y)
  BY <1>1, <1>2, NeighboursKept
<1>. QED
  BY <1>2, <1>3 DEF ConnectedIn

(* The end of an edge at v is a gate of v. *)
LEMMA EndIsGate ==
  ASSUME NEW gr, IsGraph(gr), PlainTypes(gr), NEW v \in DOMAIN gr, NEW always \in BOOLEAN
  PROVE  End(gr, v, always).id \in GatesIn(End(gr, v, always).graph, v)
<1> DEFINE end == End(gr, v, always)
<1>1. CASE NeedsAuto(gr, v, always)
  <2>1. end.graph = WithAutoGate(gr, v) /\ end.id = AutoGateId(gr, v)
    BY <1>1 DEF End
  <2> HIDE DEF end
  <2>2. /\ end.id = Len(gr) + 1 /\ AreAdjacent(end.graph, v, end.id)
        /\ end.graph[end.id].type = "GATE"
    BY <2>1, AutoGateProperties
  <2>3. end.id \in Neighbours(end.graph, v)
    BY <2>2 DEF AreAdjacent, Neighbours
  <2>. QED
    BY <2>2, <2>3 DEF GatesIn, end
<1>2. CASE ~NeedsAuto(gr, v, always)
  <2>1. end.graph = gr /\ end.id = v /\ gr[v].type = "GATE"
    BY <1>2 DEF End, NeedsAuto, PlainTypes
  <2>. QED
    BY <2>1 DEF GatesIn
<1>. QED
  BY <1>1, <1>2

(* Connecting two nodes connects them, unless it is refused. *)
LEMMA LinkConnects ==
  ASSUME IsGraph(g), PlainTypes(g), NEW a \in DOMAIN g, NEW b \in DOMAIN g,
         NEW always \in BOOLEAN, NEW attrs \in EdgeAttrs, Link(a, b, always, attrs)
  PROVE  asked' = asked \/ (asked' = asked \cup {<<a, b>>} /\ ConnectedIn(g', a, b))
<1> DEFINE left  == End(g, a, always)
           right == End(left.graph, b, always)
<1>1. /\ g' = AddEdgeId(right.graph, left.id, right.id, attrs)
      /\ IF EdgeRefused(right.graph, left.id, right.id)
         THEN err' = "CONN" /\ UNCHANGED asked
         ELSE err' = "ok" /\ asked' = asked \cup {<<a, b>>}
  BY DEF Link
<1>2. CASE EdgeRefused(right.graph, left.id, right.id)
  BY <1>1, <1>2
<1>3. CASE ~EdgeRefused(right.graph, left.id, right.id)
  <2>1. /\ Extended(g, left.graph)
        /\ left.id \in DOMAIN left.graph
        /\ left.id \in GatesIn(left.graph, a)
    BY EndProperties, EndIsGate
  <2>2. IsGraph(left.graph) /\ PlainTypes(left.graph) /\ b \in DOMAIN left.graph /\ a \in DOMAIN left.graph
    BY <2>1, ExtendedIds DEF Extended
  <2>3. /\ Extended(left.graph, right.graph)
        /\ right.id \in DOMAIN right.graph
        /\ right.id \in GatesIn(right.graph, b)
    <3> HIDE DEF left
    <3>. QED
      BY <2>2, EndProperties, EndIsGate
  <2> HIDE DEF left, right
  <2>4. IsGraph(right.graph) /\ DOMAIN left.graph \subseteq DOMAIN right.graph
    BY <2>2, <2>3, ExtendedIds DEF Extended
  <2>5. left.id \in 0..Len(right.graph) /\ right.id \in 0..Len(right.graph)
    BY <2>1, <2>3, <2>4 DEF IsGraph
  <2>6. Extended(right.graph, g') /\ AreAdjacent(g', left.id, right.id)
    BY <1>1, <1>3, <2>4, <2>5, EdgeExtends, AddEdgeIdConnects
  <2>7. right.id \in GatesIn(g', b)
    BY <2>2, <2>3, <2>4, <2>6, GatesKept
  <2>8. left.id \in GatesIn(g', a)
    BY <2>1, <2>2, <2>3, <2>4, <2>6, GatesKept
  <2>. QED
    BY <1>1, <1>3, <2>6, <2>7, <2>8 DEF ConnectedIn
<1>. QED
  BY <1>2, <1>3

(* A step asks for nothing, or connects what it asks for. *)
LEMMA AskedByLink ==
  ASSUME WInv, PlainTypes(g), [Next]_vars
  PROVE  \/ asked' = asked
         \/ \E a, b \in DOMAIN g : asked' = asked \cup {<<a, b>>} /\ ConnectedIn(g', a, b)
<1>1. IsGraph(g)
  BY DEF WInv, TypeOK
<1>2. ASSUME NEW from, NEW to, NEW attrs \in EdgeAttrs, ConnectPlain(from, to, attrs)
      PROVE  \/ asked' = asked
             \/ \E a, b \in DOMAIN g : asked' = asked \cup {<<a, b>>} /\ ConnectedIn(g', a, b)
  <2> DEFINE a == FindNode(g, from)
             b == FindNode(g, to)
  <2>1. CASE a = 0 \/ b = 0
    BY <1>2, <2>1 DEF ConnectPlain
  <2>2. CASE ~(a = 0 \/ b = 0)
    <3>1. Link(a, b, FALSE, attrs)
      BY <1>2, <2>2 DEF ConnectPlain
    <3>2. a \in DOMAIN g /\ b \in DOMAIN g
      BY <1>1, <2>2, FindNodeRange DEF IsGraph
    <3> HIDE DEF a, b
    <3>. QED
      BY <1>1, <1>2, <3>1, <3>2, LinkConnects
  <2>. QED
    BY <2>1, <2>2
<1>3. ASSUME WireStep
      PROVE  \/ asked' = asked
             \/ \E a, b \in DOMAIN g : asked' = asked \cup {<<a, b>>} /\ ConnectedIn(g', a, b)
  <2> DEFINE a == PairInHand[1]
             b == PairInHand[2]
             always == job.kind # "match"
  <2>1. job \in WireJob
    BY <1>3, JobKinds DEF WireStep, WInv, TypeOK
  <2>2. a \in DOMAIN g /\ b \in DOMAIN g
    BY <1>3, <2>1, PairInGraph DEF WireStep, WInv, TypeOK
  <2>3. Link(a, b, always, job.attrs) /\ job.attrs \in EdgeAttrs /\ always \in BOOLEAN
    BY <1>3, <2>1 DEF WireStep, WireJob
  <2> HIDE DEF a, b, always
  <2>. QED
    BY <1>1, <2>2, <2>3, LinkConnects
<1>4. ASSUME EmptyRing
      PROVE  \/ asked' = asked
             \/ \E a, b \in DOMAIN g : asked' = asked \cup {<<a, b>>} /\ ConnectedIn(g', a, b)
  <2>1. job.attrs \in EdgeAttrs
    BY <1>4, JobKinds DEF EmptyRing, WInv, TypeOK, WireJob
  <2>2. asked' = asked \/ \E a, b \in DOMAIN g : Link(a, b, TRUE, job.attrs)
    BY <1>4 DEF EmptyRing
  <2>. QED
    BY <1>1, <2>1, <2>2, LinkConnects
<1>5. ASSUME ~WireStep, ~EmptyRing,
             ~ \E from, to \in Nameable, attrs \in EdgeAttrs : ConnectPlain(from, to, attrs)
      PROVE  asked' = asked
  BY <1>5 DEF Next, vars, ExpandSimple, ExpandCompound, InsertProduct, ConnectNamed,
     ConnectMatching, GateStep, InsertNode, InsertEdge, JobDone
<1>. QED
  BY <1>2, <1>3, <1>4, <1>5

(* A pair that was connected stays connected, for all definitions and orders:
   add_auto_gate finds the gate it has made, graph_add_edge_id adds the edge
   or finds it there, and no operation takes it away. *)
THEOREM AskedStaysConnected == Spec => []AskedIsConnected
<1> DEFINE AInv == PlainTypes(g) /\ \A pair \in asked : ConnectedIn(g, pair[1], pair[2])
<1>1. Init => AInv
  BY DEF Init, EmptyGraph, PlainTypes
<1>2. WInv /\ AInv /\ [Next]_vars => AInv'
  <2>1. SUFFICES ASSUME WInv, AInv, [Next]_vars PROVE AInv'
    OBVIOUS
  <2>2. Extended(g, g') /\ IsGraph(g) /\ asked \subseteq (DOMAIN g) \X (DOMAIN g)
    BY <2>1, NextGood DEF WInv, TypeOK
  <2>3. \A pair \in asked : ConnectedIn(g', pair[1], pair[2])
    BY <2>1, <2>2, ConnectionsStay
  <2>4. \A pair \in asked' : ConnectedIn(g', pair[1], pair[2])
    BY <2>1, <2>3, AskedByLink
  <2>5. PlainTypes(g')
    BY <2>1, <2>2 DEF Extended
  <2>6. (\A pair \in asked : ConnectedIn(g, pair[1], pair[2]))' <=>
          \A pair \in asked' : ConnectedIn(g', pair[1], pair[2])
    BY DEF ConnectedIn, GatesIn, Neighbours, AreAdjacent
  <2>7. PlainTypes(g)' <=> PlainTypes(g')
    BY DEF PlainTypes
  <2>. QED
    BY <2>4, <2>5, <2>6, <2>7
<1>3. AInv => AskedIsConnected
  BY DEF ConnectedIn, GatesIn, AskedIsConnected, GatesOf
<1>. QED
  BY <1>1, <1>2, <1>3, WiringInvariant, PTL DEF Spec

----------------------------------------------------------------------------
(* What is found by its name: what AutoGatesOwned and NodesMeetThroughGates say,
   of any graph. *)
Owned(gr) ==
  \A i \in DOMAIN gr : ~NodeName(gr[i].name) /\ ~GateName(gr[i].name) =>
     /\ \A k \in DOMAIN gr : gr[k].name = gr[i].name => k = i
     /\ gr[i].adj # <<>>
     /\ \E m \in 0..Len(gr) : gr[i].name = AutoName(gr[gr[i].adj[1].n].name, m)

NodesNamed(gr) == \A i \in DOMAIN gr : gr[i].type = "NODE" => NodeName(gr[i].name)

Meet(gr) ==
  \A i \in DOMAIN gr : \A k \in Neighbours(gr, i) :
     gr[i].type = "NODE" /\ gr[k].type = "NODE" => FromProduct(gr[i].name, gr[k].name)

(* What the second of these needs of a definition: names that are apart, and
   products whose lists agree. *)
WellNamed == NamesApart /\ \A prod \in Products : Symmetric(prod)

(* A change that leaves all this true. *)
Carried(old, new) ==
  Owned(old) /\ NodesNamed(old) =>
    /\ Owned(new) /\ NodesNamed(new)
    /\ WellNamed /\ Meet(old) => Meet(new)

LEMMA CarriedTwice ==
  ASSUME NEW old, NEW mid, NEW new, Carried(old, mid), Carried(mid, new)
  PROVE  Carried(old, new)
BY DEF Carried

LEMMA FirstEntry ==
  ASSUME NEW gr, IsGraph(gr), NEW i \in DOMAIN gr, gr[i].adj # <<>>
  PROVE  1 \in DOMAIN gr[i].adj /\ gr[i].adj[1].n \in DOMAIN gr
<1>1. gr[i].adj \in Seq(Edge)
  BY NodeFields
<1>2. 1 \in DOMAIN gr[i].adj
  BY <1>1
<1>. QED
  BY <1>2 DEF IsGraph

(* An owned gate stays so while lists grow. *)
LEMMA OwnerStays ==
  ASSUME NEW old, NEW new, IsGraph(old), IsGraph(new), Grown(old, new), Len(old) <= Len(new),
         Owned(old), NEW i \in DOMAIN old, ~NodeName(old[i].name), ~GateName(old[i].name)
  PROVE  /\ new[i].adj # <<>>
         /\ \E m \in 0..Len(new) : new[i].name = AutoName(new[new[i].adj[1].n].name, m)
<1>1. /\ old[i].adj # <<>>
      /\ \E m \in 0..Len(old) : old[i].name = AutoName(old[old[i].adj[1].n].name, m)
  BY DEF Owned
<1>2. 1 \in DOMAIN old[i].adj /\ old[i].adj[1].n \in DOMAIN old
  BY <1>1, FirstEntry
<1>3. 1 \in DOMAIN new[i].adj /\ new[i].adj[1] = old[i].adj[1] /\ new[i].name = old[i].name
  BY <1>2 DEF Grown
<1>4. new[old[i].adj[1].n].name = old[old[i].adj[1].n].name
  BY <1>2 DEF Grown
<1>5. 0..Len(old) \subseteq 0..Len(new)
  BY DEF IsGraph
<1>6. new[i].adj # <<>>
  BY <1>3
<1>. QED
  BY <1>1, <1>3, <1>4, <1>5, <1>6

LEMMA NothingCarries ==
  ASSUME NEW gr
  PROVE  Carried(gr, gr)
BY DEF Carried

(* A node of a name that is given, to a NODE if it is one. *)
LEMMA NodeCarries ==
  ASSUME NEW gr, IsGraph(gr), NEW name \in Names, NEW type \in {"NODE", "GATE"},
         NodeName(name) \/ GateName(name), type = "NODE" => NodeName(name)
  PROVE  Carried(gr, AddNode(gr, name, type))
<1> DEFINE h    == AddNode(gr, name, type)
           last == Len(gr) + 1
<1>0. type \in NodeTypes
  BY DEF NodeTypes
<1>1. /\ IsGraph(h) /\ Len(h) = last
      /\ \A i \in DOMAIN gr : h[i] = gr[i]
      /\ h[last] = [name |-> name, type |-> type, adj |-> <<>>]
  BY <1>0, AddNodeProperties
<1>2. Grown(gr, h)
  BY <1>0, AddNodeGrows
<1> HIDE DEF h
<1>3. \A i \in DOMAIN h : i \in DOMAIN gr \/ i = last
  BY <1>1 DEF IsGraph
<1>4. h[last].name = name /\ h[last].type = type /\ h[last].adj = <<>>
  BY <1>1
<1>5. Len(gr) <= Len(h)
  BY <1>1 DEF IsGraph
<1>6. ASSUME Owned(gr) PROVE Owned(h)
  <2>1. SUFFICES ASSUME NEW i \in DOMAIN h, ~NodeName(h[i].name), ~GateName(h[i].name)
                 PROVE  /\ \A k \in DOMAIN h : h[k].name = h[i].name => k = i
                        /\ h[i].adj # <<>>
                        /\ \E m \in 0..Len(h) : h[i].name = AutoName(h[h[i].adj[1].n].name, m)
    BY DEF Owned
  <2>2. i \in DOMAIN gr /\ h[i] = gr[i]
    BY <1>1, <1>3, <1>4, <2>1
  <2>3. \A k \in DOMAIN gr : gr[k].name = gr[i].name => k = i
    BY <1>6, <2>1, <2>2 DEF Owned
  <2>4. \A k \in DOMAIN h : h[k].name = h[i].name => k = i
    BY <1>1, <1>3, <1>4, <2>1, <2>2, <2>3
  <2>. QED
    BY <1>1, <1>2, <1>5, <1>6, <2>1, <2>2, <2>4, OwnerStays
<1>7. ASSUME NodesNamed(gr) PROVE NodesNamed(h)
  BY <1>1, <1>3, <1>4, <1>7 DEF NodesNamed
<1>8. ASSUME Meet(gr) PROVE Meet(h)
  <2>1. SUFFICES ASSUME NEW i \in DOMAIN h, NEW k \in Neighbours(h, i), h[i].type = "NODE",
                        h[k].type = "NODE"
                 PROVE  FromProduct(h[i].name, h[k].name)
    BY DEF Meet
  <2>2. i \in DOMAIN gr
    <3>1. i # last
      BY <1>4, <2>1 DEF Neighbours
    <3>. QED
      BY <1>3, <3>1
  <2>3. k \in Neighbours(gr, i)
    BY <1>1, <2>2 DEF Neighbours
  <2>4. k \in DOMAIN gr
    BY <2>2, <2>3 DEF Neighbours, IsGraph
  <2>. QED
    BY <1>1, <1>8, <2>1, <2>2, <2>3, <2>4 DEF Meet
<1>. QED
  BY <1>6, <1>7, <1>8 DEF Carried, h

(* The only neighbours that graph_add_edge_id makes are the two ends. *)
LEMMA NewNeighbours ==
  ASSUME NEW gr, IsGraph(gr), NEW a \in 0..Len(gr), NEW b \in 0..Len(gr), NEW at \in EdgeAttrs,
         NEW x \in DOMAIN gr, NEW y \in Neighbours(AddEdgeId(gr, a, b, at), x),
         y \notin Neighbours(gr, x)
  PROVE  /\ a \in DOMAIN gr /\ b \in DOMAIN gr
         /\ (x = a /\ y = b) \/ (x = b /\ y = a)
<1>. DEFINE m == AddEdgeId(gr, a, b, at)
<1>1. m # gr
  OBVIOUS
<1>2. Joined(gr, m, a, b, at)
  BY <1>1, AddEdgeIdEffect
<1>. HIDE DEF m
<1>3. EntriesAfter(gr, m, a, b, at)
  BY <1>2, JoinedEntries
<1>4. PICK k \in DOMAIN m[x].adj : y = m[x].adj[k].n
  BY DEF Neighbours, m
<1>5. \A l \in DOMAIN gr[x].adj : m[x].adj[l] = gr[x].adj[l]
  BY <1>3 DEF EntriesAfter
<1>6. k \notin DOMAIN gr[x].adj
  BY <1>4, <1>5 DEF Neighbours
<1>7. \/ x = a /\ k = Len(gr[a].adj) + 1
      \/ x = b /\ k = Len(gr[b].adj) + 1
  BY <1>3, <1>4, <1>6 DEF EntriesAfter
<1>8. /\ m[a].adj[Len(gr[a].adj) + 1] = [n |-> b, attrs |-> at]
      /\ m[b].adj[Len(gr[b].adj) + 1] = [n |-> a, attrs |-> at]
  BY <1>3 DEF EntriesAfter
<1>9. m[a].adj[Len(gr[a].adj) + 1].n = b /\ m[b].adj[Len(gr[b].adj) + 1].n = a
  BY <1>8
<1>. QED
  BY <1>2, <1>4, <1>7, <1>9 DEF Joined

(* An edge that does not join two NODEs, or that a product has. *)
LEMMA EdgeCarries ==
  ASSUME NEW gr, IsGraph(gr), NEW a \in 0..Len(gr), NEW b \in 0..Len(gr), NEW at \in EdgeAttrs,
         ASSUME WellNamed, NodesNamed(gr), a \in DOMAIN gr, b \in DOMAIN gr,
                gr[a].type = "NODE", gr[b].type = "NODE"
         PROVE  FromProduct(gr[a].name, gr[b].name) /\ FromProduct(gr[b].name, gr[a].name)
  PROVE  Carried(gr, AddEdgeId(gr, a, b, at))
<1> DEFINE h == AddEdgeId(gr, a, b, at)
<1>1. /\ IsGraph(h) /\ Len(h) = Len(gr) /\ DOMAIN h = DOMAIN gr
      /\ \A i \in DOMAIN gr : h[i].name = gr[i].name /\ h[i].type = gr[i].type
      /\ Grown(gr, h)
  BY AddEdgeIdGraph
<1>2. \A x \in DOMAIN gr : \A y \in Neighbours(h, x) :
        \/ y \in Neighbours(gr, x)
        \/ a \in DOMAIN gr /\ b \in DOMAIN gr /\ ((x = a /\ y = b) \/ (x = b /\ y = a))
  BY NewNeighbours
<1> HIDE DEF h
<1>3. ASSUME Owned(gr) PROVE Owned(h)
  <2>1. SUFFICES ASSUME NEW i \in DOMAIN h, ~NodeName(h[i].name), ~GateName(h[i].name)
                 PROVE  /\ \A k \in DOMAIN h : h[k].name = h[i].name => k = i
                        /\ h[i].adj # <<>>
                        /\ \E m \in 0..Len(h) : h[i].name = AutoName(h[h[i].adj[1].n].name, m)
    BY DEF Owned
  <2>2. i \in DOMAIN gr /\ ~NodeName(gr[i].name) /\ ~GateName(gr[i].name)
    BY <1>1, <2>1
  <2>3. \A k \in DOMAIN gr : gr[k].name = gr[i].name => k = i
    BY <1>3, <2>2 DEF Owned
  <2>4. \A k \in DOMAIN h : h[k].name = h[i].name => k = i
    BY <1>1, <2>2, <2>3
  <2>5. Len(gr) <= Len(h)
    BY <1>1 DEF IsGraph
  <2>. QED
    BY <1>1, <1>3, <2>2, <2>4, <2>5, OwnerStays
<1>4. ASSUME NodesNamed(gr) PROVE NodesNamed(h)
  BY <1>1, <1>4 DEF NodesNamed
<1>5. ASSUME WellNamed, NodesNamed(gr), Meet(gr) PROVE Meet(h)
  <2>1. SUFFICES ASSUME NEW i \in DOMAIN h, NEW k \in Neighbours(h, i), h[i].type = "NODE",
                        h[k].type = "NODE"
                 PROVE  FromProduct(h[i].name, h[k].name)
    BY DEF Meet
  <2>2. i \in DOMAIN gr /\ k \in DOMAIN gr
    BY <1>1 DEF Neighbours, IsGraph
  <2>3. gr[i].type = "NODE" /\ gr[k].type = "NODE" /\ h[i].name = gr[i].name /\ h[k].name = gr[k].name
    BY <1>1, <2>1, <2>2
  <2>4. CASE k \in Neighbours(gr, i)
    BY <1>5, <2>2, <2>3, <2>4 DEF Meet
  <2>5. CASE k \notin Neighbours(gr, i)
    <3>1. a \in DOMAIN gr /\ b \in DOMAIN gr /\ ((i = a /\ k = b) \/ (i = b /\ k = a))
      BY <1>2, <2>2, <2>5
    <3>2. FromProduct(gr[a].name, gr[b].name) /\ FromProduct(gr[b].name, gr[a].name)
      BY <1>5, <2>3, <3>1
    <3>. QED
      BY <2>3, <3>1, <3>2
  <2>. QED
    BY <2>4, <2>5
<1>. QED
  BY <1>3, <1>4, <1>5 DEF Carried, h

(* The entry that graph_add_edge_id appends to a list without entries. *)
LEMMA FirstNeighbour ==
  ASSUME NEW gr, IsGraph(gr), NEW a \in DOMAIN gr, NEW b \in DOMAIN gr, NEW at \in EdgeAttrs,
         a # b, gr[b].adj = <<>>, AreAdjacent(AddEdgeId(gr, a, b, at), a, b), ~AreAdjacent(gr, a, b)
  PROVE  /\ AddEdgeId(gr, a, b, at)[b].adj # <<>>
         /\ AddEdgeId(gr, a, b, at)[b].adj[1].n = a
<1> DEFINE h == AddEdgeId(gr, a, b, at)
<1>0. a \in 0..Len(gr) /\ b \in 0..Len(gr)
  BY DEF IsGraph
<1>1. Joined(gr, h, a, b, at)
  BY <1>0, AddEdgeIdEffect
<1> HIDE DEF h
<1>2. EntriesAfter(gr, h, a, b, at)
  BY <1>1, JoinedEntries
<1>3. /\ Len(gr[b].adj) + 1 \in DOMAIN h[b].adj
      /\ h[b].adj[Len(gr[b].adj) + 1] = [n |-> a, attrs |-> at]
  BY <1>2 DEF EntriesAfter
<1>4. Len(gr[b].adj) + 1 = 1
  OBVIOUS
<1>5. 1 \in DOMAIN h[b].adj /\ h[b].adj[1] = [n |-> a, attrs |-> at]
  BY <1>3, <1>4
<1>6. h[b].adj # <<>> /\ h[b].adj[1].n = a
  BY <1>5
<1>. QED
  BY <1>6 DEF h

(* add_auto_gate: the gate is the only node of its name, and its first neighbour
   is the node it was made for. *)
LEMMA AutoCarries ==
  ASSUME NEW gr, IsGraph(gr), NEW v \in DOMAIN gr
  PROVE  Carried(gr, WithAutoGate(gr, v))
<1> DEFINE name == FreeAutoName(gr, gr[v].name)
           more == AddNode(gr, name, "GATE")
           last == Len(gr) + 1
           h    == WithAutoGate(gr, v)
<1>1. gr \in Seq(Node) /\ gr[v].name \in Names /\ "GATE" \in NodeTypes /\ NULL \in EdgeAttrs
  BY NodeFields DEF IsGraph, NodeTypes, EdgeAttrs
<1>2. /\ name \in Names /\ name \notin Taken(gr)
      /\ \E k \in 0..Len(gr) : name = AutoName(gr[v].name, k)
  BY <1>1, FreeAutoNameIsFree
<1>3. /\ Extended(gr, h) /\ Len(h) = last
      /\ AreAdjacent(h, v, last)
      /\ h[last].type = "GATE"
      /\ h = AddEdgeId(more, v, last, NULL)
  BY AutoGateProperties
<1> HIDE DEF name
<1>4. /\ IsGraph(more) /\ Len(more) = last
      /\ \A i \in DOMAIN gr : more[i] = gr[i]
      /\ more[last] = [name |-> name, type |-> "GATE", adj |-> <<>>]
  BY <1>1, <1>2, AddNodeProperties
<1> HIDE DEF more, h
<1>5. /\ last \in DOMAIN more /\ v \in DOMAIN more /\ v \in 0..Len(more) /\ last \in 0..Len(more)
      /\ v # last
  BY <1>1, <1>4 DEF IsGraph
<1>6. more[last].name = name /\ more[last].adj = <<>> /\ more[last].type = "GATE"
  BY <1>4
<1>7. /\ IsGraph(h) /\ DOMAIN h = DOMAIN more /\ Grown(gr, h) /\ Len(gr) <= Len(h)
      /\ \A i \in DOMAIN more : h[i].name = more[i].name /\ h[i].type = more[i].type
  BY ZenonT(30), <1>1, <1>3, <1>4, <1>5, AddEdgeIdGraph DEF Extended
<1>8. \A i \in DOMAIN h : i \in DOMAIN gr \/ i = last
  BY <1>1, <1>3, <1>7 DEF IsGraph
<1>9. \A i \in DOMAIN gr : i \in DOMAIN h /\ h[i].name = gr[i].name /\ h[i].type = gr[i].type
  BY <1>3 DEF Extended, Grown, SameTypes
<1>10. h[last].name = name /\ last \in DOMAIN h
  BY <1>5, <1>6, <1>7
<1>11. ~AreAdjacent(more, v, last)
  <2>1. \A k \in DOMAIN gr[v].adj : gr[v].adj[k].n \in 1..Len(gr)
    BY <1>1 DEF IsGraph
  <2>2. last \notin 1..Len(gr)
    BY <1>1
  <2>. QED
    BY <1>4, <2>1, <2>2 DEF AreAdjacent
<1>12. h[last].adj # <<>> /\ h[last].adj[1].n = v
  BY <1>1, <1>3, <1>4, <1>5, <1>6, <1>11, FirstNeighbour
<1>13. \A k \in DOMAIN gr : gr[k].name # name
  BY <1>2 DEF Taken
<1>14. \E m \in 0..Len(h) : h[last].name = AutoName(h[h[last].adj[1].n].name, m)
  <2>1. 0..Len(gr) \subseteq 0..Len(h)
    BY <1>1, <1>3
  <2>2. h[v].name = gr[v].name
    BY <1>9
  <2>. QED
    BY <1>2, <1>10, <1>12, <2>1, <2>2
<1>15. ASSUME Owned(gr) PROVE Owned(h)
  <2>1. SUFFICES ASSUME NEW i \in DOMAIN h, ~NodeName(h[i].name), ~GateName(h[i].name)
                 PROVE  /\ \A k \in DOMAIN h : h[k].name = h[i].name => k = i
                        /\ h[i].adj # <<>>
                        /\ \E m \in 0..Len(h) : h[i].name = AutoName(h[h[i].adj[1].n].name, m)
    BY DEF Owned
  <2>2. CASE i = last
    <3>1. \A k \in DOMAIN h : h[k].name = h[i].name => k = i
      BY <1>8, <1>9, <1>10, <1>13, <2>2
    <3>. QED
      BY <1>12, <1>14, <2>2, <3>1
  <2>3. CASE i \in DOMAIN gr
    <3>1. \A k \in DOMAIN gr : gr[k].name = gr[i].name => k = i
      BY <1>9, <1>15, <2>1, <2>3 DEF Owned
    <3>2. \A k \in DOMAIN h : h[k].name = h[i].name => k = i
      BY <1>8, <1>9, <1>10, <1>13, <2>3, <3>1
    <3>. QED
      BY <1>7, <1>9, <1>15, <2>1, <2>3, <3>2, OwnerStays
  <2>. QED
    BY <1>8, <2>2, <2>3
<1>16. ASSUME NodesNamed(gr) PROVE NodesNamed(h)
  BY <1>3, <1>8, <1>9, <1>16 DEF NodesNamed
<1>17. ASSUME Meet(gr) PROVE Meet(h)
  <2>1. SUFFICES ASSUME NEW i \in DOMAIN h, NEW k \in Neighbours(h, i), h[i].type = "NODE",
                        h[k].type = "NODE"
                 PROVE  FromProduct(h[i].name, h[k].name)
    BY DEF Meet
  <2>2. i # last /\ k # last
    BY <1>3, <2>1
  <2>3. i \in DOMAIN gr /\ i \in DOMAIN more
    BY <1>7, <1>8, <2>2
  <2>4. k \in Neighbours(more, i)
    BY <1>1, <1>3, <1>4, <1>5, <2>2, <2>3, NewNeighbours
  <2>5. k \in Neighbours(gr, i)
    BY <1>4, <2>3, <2>4 DEF Neighbours
  <2>6. k \in DOMAIN gr
    BY <2>3, <2>5 DEF Neighbours, IsGraph
  <2>. QED
    BY <1>9, <1>17, <2>1, <2>3, <2>5, <2>6 DEF Meet
<1>. QED
  BY <1>15, <1>16, <1>17 DEF Carried, h

(* The end of an edge is not a NODE. *)
LEMMA EndCarries ==
  ASSUME NEW gr, IsGraph(gr), NEW v \in DOMAIN gr, NEW always \in BOOLEAN
  PROVE  LET end == End(gr, v, always)
         IN  Carried(gr, end.graph) /\ end.graph[end.id].type # "NODE"
<1> DEFINE end == End(gr, v, always)
<1>1. CASE NeedsAuto(gr, v, always)
  <2>1. end.graph = WithAutoGate(gr, v) /\ end.id = AutoGateId(gr, v)
    BY <1>1 DEF End
  <2> HIDE DEF end
  <2>2. Carried(gr, end.graph) /\ end.id = Len(gr) + 1 /\ end.graph[end.id].type = "GATE"
    BY <2>1, AutoGateProperties, AutoCarries
  <2>. QED
    BY <2>2 DEF end
<1>2. CASE ~NeedsAuto(gr, v, always)
  <2>1. end.graph = gr /\ end.id = v /\ gr[v].type # "NODE"
    BY <1>2 DEF End, NeedsAuto
  <2> HIDE DEF end
  <2>2. Carried(gr, end.graph) /\ end.graph[end.id].type # "NODE"
    BY <2>1, NothingCarries
  <2>. QED
    BY <2>2 DEF end
<1>. QED
  BY <1>1, <1>2

(* So no connection joins two NODEs. *)
LEMMA LinkCarries ==
  ASSUME IsGraph(g), NEW a \in DOMAIN g, NEW b \in DOMAIN g,
         NEW always \in BOOLEAN, NEW attrs \in EdgeAttrs, Link(a, b, always, attrs)
  PROVE  Carried(g, g')
<1> DEFINE left  == End(g, a, always)
           right == End(left.graph, b, always)
<1>1. g' = AddEdgeId(right.graph, left.id, right.id, attrs)
  BY DEF Link
<1>2. /\ Extended(g, left.graph)
      /\ left.id \in DOMAIN left.graph
      /\ Carried(g, left.graph)
  BY EndProperties, EndCarries
<1>3. IsGraph(left.graph) /\ b \in DOMAIN left.graph
  BY <1>2, ExtendedIds DEF Extended
<1>4. /\ Extended(left.graph, right.graph)
      /\ right.id \in DOMAIN right.graph
      /\ Carried(left.graph, right.graph)
      /\ right.graph[right.id].type # "NODE"
  <2> HIDE DEF left
  <2>. QED
    BY <1>3, EndProperties, EndCarries
<1> HIDE DEF left, right
<1>5. IsGraph(right.graph) /\ DOMAIN left.graph \subseteq DOMAIN right.graph
  BY <1>3, <1>4, ExtendedIds DEF Extended
<1>6. left.id \in 0..Len(right.graph) /\ right.id \in 0..Len(right.graph)
  BY <1>2, <1>4, <1>5 DEF IsGraph
<1>7. Carried(right.graph, g')
  BY <1>1, <1>4, <1>5, <1>6, EdgeCarries
<1>. QED
  BY <1>2, <1>4, <1>7, CarriedTwice

----------------------------------------------------------------------------
(* What the running operation adds, a definition names. *)
JobGiven ==
  /\ job \in GateJob => job.path \in Paths /\ job.list \in GateLists
  /\ job \in InsertJob => job.path \in Paths

OInv == WInv /\ JobGiven /\ Owned(g) /\ NodesNamed(g)

(* The node that graph_find_node finds is a NODE only if its name is a NODE's. *)
LEMMA FoundNode ==
  ASSUME NEW gr, IsGraph(gr), NodesNamed(gr), NEW name, FindNode(gr, name) \in DOMAIN gr,
         gr[FindNode(gr, name)].type = "NODE"
  PROVE  NodeName(name)
<1>1. gr \in Seq(Node) /\ FindNode(gr, name) # 0
  BY DEF IsGraph
<1>2. gr[FindNode(gr, name)].name = name
  BY <1>1, FindNodeRange
<1>. QED
  BY <1>2 DEF NodesNamed

(* A job of another kind names nothing. *)
LEMMA WireJobGiven ==
  ASSUME job' \in WireJob \/ job' = Idle
  PROVE  JobGiven'
<1>1. job' \notin GateJob /\ job' \notin InsertJob
  BY DEF WireJob, Idle, GateJob, InsertJob
<1>2. GateJob' = GateJob /\ InsertJob' = InsertJob
  BY DEF GateJob, InsertJob
<1>. QED
  BY <1>1, <1>2 DEF JobGiven

LEMMA ExpandCarries ==
  ASSUME WInv, NEW path \in Paths, NEW list \in GateLists,
         ExpandSimple(path, list) \/ ExpandCompound(path, list)
  PROVE  Carried(g, g') /\ JobGiven'
<1>1. path \in Names /\ IsGraph(g)
  BY WiringAssumption DEF WInv, TypeOK
<1>2. NodeName(path)
  BY DEF NodeName
<1>3. Carried(g, g')
  <2>1. CASE g' = AddNode(g, path, "NODE")
    BY <1>1, <1>2, <2>1, NodeCarries
  <2>2. CASE g' = g
    BY <2>2, NothingCarries
  <2>. QED
    BY <2>1, <2>2 DEF ExpandSimple, ExpandCompound
<1>4. PICK kind \in {"gates", "ports"} : job' = [kind |-> kind, path |-> path, list |-> list, i |-> 1]
  BY DEF ExpandSimple, ExpandCompound
<1>5. job'.path = path /\ job'.list = list /\ job' \notin InsertJob
  BY <1>4 DEF InsertJob
<1>. QED
  BY <1>3, <1>5 DEF JobGiven, GateJob, InsertJob

LEMMA InsertProductCarries ==
  ASSUME WInv, NEW path \in Paths, NEW prod \in Products, InsertProduct(path, prod)
  PROVE  Carried(g, g') /\ JobGiven'
<1>1. job' = [kind |-> "insert_nodes", path |-> path, prod |-> prod, i |-> 1, j |-> 1]
  BY DEF InsertProduct
<1>2. job'.path = path /\ job' \notin GateJob
  BY <1>1 DEF GateJob
<1>3. Carried(g, g')
  BY NothingCarries DEF InsertProduct
<1>. QED
  BY <1>2, <1>3 DEF JobGiven, GateJob, InsertJob

(* A declared gate is not connected to a NODE that its name finds: there is no
   such NODE. *)
LEMMA GateCarries ==
  ASSUME OInv, GateStep
  PROVE  Carried(g, g') /\ JobGiven'
<1> DEFINE name == Append(job.path, job.list[job.i])
           more == AddNode(g, name, "GATE")
<1>1. job \in GateJob /\ job.i >= 1 /\ job.i <= Len(job.list) /\ IsGraph(g)
  BY JobKinds DEF GateStep, OInv, WInv, TypeOK, JobInRange, Idle, GateJob
<1>2. job.path \in Paths /\ job.list \in GateLists /\ job.i \in DOMAIN job.list
  BY <1>1 DEF OInv, JobGiven, GateJob
<1>3. name \in Names
  <2>1. job.path \in Names /\ job.list[job.i] \in Parts
    BY <1>1, <1>2 DEF GateJob
  <2>. QED
    BY <2>1, NamesAreNames
<1>4. GateName(name) /\ (NamesApart => ~NodeName(name))
  BY <1>2 DEF GateName, NamesApart
<1>5. g' = more \/ g' = AddEdgeName(more, name, job.path, NULL)
  BY DEF GateStep
<1> HIDE DEF name
<1>6. Carried(g, more) /\ IsGraph(more)
  BY <1>1, <1>3, <1>4, NodeCarries, NodeExtends DEF Extended
<1>7. Carried(more, AddEdgeName(more, name, job.path, NULL))
  <2> HIDE DEF more
  <2> DEFINE a == FindNode(more, name)
             b == FindNode(more, job.path)
  <2>1. a \in 0..Len(more) /\ b \in 0..Len(more) /\ NULL \in EdgeAttrs
    BY <1>6, FindNodeRange DEF IsGraph, EdgeAttrs
  <2>2. ASSUME WellNamed, NodesNamed(more), a \in DOMAIN more, b \in DOMAIN more,
               more[a].type = "NODE", more[b].type = "NODE"
        PROVE  FALSE
    BY <1>4, <1>6, <2>2, FoundNode DEF WellNamed
  <2>3. Carried(more, AddEdgeId(more, a, b, NULL))
    <3> HIDE DEF a, b
    <3>. QED
      BY <1>6, <2>1, <2>2, EdgeCarries
  <2>. QED
    BY <2>3 DEF AddEdgeName
<1>8. Carried(g, g')
  <2> HIDE DEF more
  <2>. QED
    BY <1>5, <1>6, <1>7, CarriedTwice
<1>9. job' = [job EXCEPT !.i = @ + 1]
  BY DEF GateStep
<1>10. job'.path = job.path /\ job'.list = job.list /\ job' \notin InsertJob
  BY <1>1, <1>9 DEF GateJob, InsertJob
<1>. QED
  BY <1>2, <1>8, <1>10 DEF JobGiven, GateJob, InsertJob

LEMMA InsertNodeCarries ==
  ASSUME OInv, InsertNode
  PROVE  Carried(g, g') /\ JobGiven'
<1>1. job \in InsertJob /\ job.i >= 1 /\ IsGraph(g)
  BY JobKinds DEF InsertNode, OInv, WInv, TypeOK, JobInRange, Idle, InsertJob
<1>2. job.path \in Paths /\ job.prod \in Products
  BY <1>1 DEF OInv, JobGiven, InsertJob
<1>3. IsGraph(job.prod) /\ PlainTypes(job.prod) /\ job.path \in Names
  BY <1>2, WiringAssumption
<1>4. Carried(g, g')
  <2>1. CASE job.i <= Len(job.prod)
    <3> DEFINE name == job.path \o job.prod[job.i].name
               type == job.prod[job.i].type
    <3>1. job.i \in DOMAIN job.prod
      BY <1>1, <1>3, <2>1 DEF InsertJob, IsGraph
    <3>2. job.prod[job.i].name \in Names /\ type \in {"NODE", "GATE"}
      BY <1>3, <3>1, NodeFields DEF PlainTypes
    <3>3. name \in Names
      BY <1>3, <3>2, NamesAreNames
    <3>4. g' = AddNode(g, name, type)
      BY <2>1 DEF InsertNode
    <3>5. type = "NODE" => NodeName(name)
      BY <1>2, <3>1 DEF NodeName
    <3>6. type = "GATE" => GateName(name)
      BY <1>2, <3>1 DEF GateName
    <3> HIDE DEF name, type
    <3>. QED
      BY <1>1, <3>2, <3>3, <3>4, <3>5, <3>6, NodeCarries
  <2>2. CASE ~(job.i <= Len(job.prod))
    BY <2>2, NothingCarries DEF InsertNode
  <2>. QED
    BY <2>1, <2>2
<1>5. \/ job' = [job EXCEPT !.i = @ + 1]
      \/ job' = [job EXCEPT !.kind = "insert_edges", !.i = 1]
  BY DEF InsertNode
<1>6. job'.path = job.path /\ job' \notin GateJob
  BY <1>1, <1>5 DEF GateJob, InsertJob
<1>. QED
  BY <1>2, <1>4, <1>6 DEF JobGiven, GateJob, InsertJob

(* graph_insert connects what its names find, and those are the names of two
   neighbours in the product. *)
LEMMA InsertEdgeCarries ==
  ASSUME OInv, InsertEdge
  PROVE  Carried(g, g') /\ JobGiven'
<1>1. job \in InsertJob /\ job.i >= 1 /\ job.j >= 1 /\ IsGraph(g)
  BY JobKinds DEF InsertEdge, OInv, WInv, TypeOK, JobInRange, Idle, InsertJob
<1>2. job.path \in Paths /\ job.prod \in Products
  BY <1>1 DEF OInv, JobGiven, InsertJob
<1>3. IsGraph(job.prod)
  BY <1>2, WiringAssumption
<1> DEFINE edge == job.prod[job.i].adj[job.j]
           from == job.path \o job.prod[job.i].name
           to   == job.path \o job.prod[edge.n].name
<1>4. ASSUME g' # g
      PROVE  /\ edge \in Edge /\ g' = AddEdgeName(g, from, to, edge.attrs)
             /\ job.i \in DOMAIN job.prod /\ job.j \in DOMAIN job.prod[job.i].adj
  <2>1. job.j <= Len(job.prod[job.i].adj) /\ g' = AddEdgeName(g, from, to, edge.attrs)
    BY <1>4 DEF InsertEdge
  <2>2. job.i \in DOMAIN job.prod
    BY SMTT(30), <1>1, <1>3 DEF InsertEdge, InsertJob, IsGraph
  <2>3. job.prod[job.i].adj \in Seq(Edge)
    BY <1>3, <2>2, NodeFields
  <2>4. job.j \in DOMAIN job.prod[job.i].adj
    BY <1>1, <2>1, <2>3 DEF InsertJob
  <2>5. edge \in Edge
    BY <2>3, <2>4
  <2>. QED
    BY <2>1, <2>2, <2>4, <2>5
<1>5. ASSUME g' # g, WellNamed
      PROVE  FromProduct(from, to) /\ FromProduct(to, from)
  <2>1. job.i \in DOMAIN job.prod /\ job.j \in DOMAIN job.prod[job.i].adj
    BY <1>4, <1>5
  <2>2. edge.n \in DOMAIN job.prod /\ edge.n \in Neighbours(job.prod, job.i)
    BY <1>3, <2>1 DEF IsGraph, Neighbours
  <2>3. job.i \in Neighbours(job.prod, edge.n)
    <3>1. Symmetric(job.prod)
      BY <1>2, <1>5 DEF WellNamed
    <3>2. PICK l \in DOMAIN job.prod[edge.n].adj :
            job.prod[edge.n].adj[l] = [n |-> job.i, attrs |-> edge.attrs]
      BY <2>1, <3>1 DEF Symmetric
    <3>3. job.prod[edge.n].adj[l].n = job.i
      <4>1. [n |-> job.i, attrs |-> edge.attrs].n = job.i
        OBVIOUS
      <4>. QED
        BY <3>2, <4>1, Zenon
    <3>. QED
      BY <3>2, <3>3 DEF Neighbours
  <2> HIDE DEF edge
  <2>. QED
    BY <1>2, <2>1, <2>2, <2>3 DEF FromProduct
<1>6. Carried(g, g')
  <2>1. CASE g' = g
    BY <2>1, NothingCarries
  <2>2. CASE g' # g
    <3> DEFINE a == FindNode(g, from)
               b == FindNode(g, to)
    <3>1. edge.attrs \in EdgeAttrs
      BY <1>4, <2>2 DEF Edge
    <3>2. g' = AddEdgeId(g, a, b, edge.attrs)
      BY <1>4, <2>2 DEF AddEdgeName
    <3> HIDE DEF edge, from, to
    <3>3. a \in 0..Len(g) /\ b \in 0..Len(g)
      BY <1>1, FindNodeRange DEF IsGraph
    <3>4. a \in DOMAIN g => g[a].name = from
      BY <1>1, FindNodeRange DEF IsGraph
    <3>5. b \in DOMAIN g => g[b].name = to
      BY <1>1, FindNodeRange DEF IsGraph
    <3> HIDE DEF a, b
    <3>6. ASSUME WellNamed, a \in DOMAIN g, b \in DOMAIN g
          PROVE  FromProduct(g[a].name, g[b].name) /\ FromProduct(g[b].name, g[a].name)
      BY <1>5, <2>2, <3>4, <3>5, <3>6
    <3>. QED
      BY <1>1, <3>1, <3>2, <3>3, <3>6, EdgeCarries
  <2>. QED
    BY <2>1, <2>2
<1>7. \/ job' = [job EXCEPT !.j = @ + 1]
      \/ job' = [job EXCEPT !.i = @ + 1, !.j = 1]
  BY DEF InsertEdge
<1>8. job'.path = job.path /\ job' \notin GateJob
  BY <1>1, <1>7 DEF GateJob, InsertJob
<1>. QED
  BY <1>2, <1>6, <1>8 DEF JobGiven, GateJob, InsertJob

(* The actions that connect two nodes; whatever they connect, they do it through
   Link. *)
LEMMA ConnectCarries ==
  ASSUME WInv,
         \/ \E from, to \in Nameable, attrs \in EdgeAttrs : ConnectPlain(from, to, attrs)
         \/ WireStep
         \/ EmptyRing
  PROVE  Carried(g, g') /\ JobGiven'
<1>0. IsGraph(g)
  BY DEF WInv, TypeOK
<1>1. ASSUME NEW from, NEW to, NEW attrs \in EdgeAttrs, ConnectPlain(from, to, attrs)
      PROVE  Carried(g, g') /\ job' = Idle
  <2> DEFINE a == FindNode(g, from)
             b == FindNode(g, to)
  <2>0. job' = Idle
    BY <1>1 DEF ConnectPlain, Start
  <2>1. CASE a = 0 \/ b = 0
    <3>1. g' = g
      BY <1>1, <2>1 DEF ConnectPlain
    <3>. QED
      BY <2>0, <3>1, NothingCarries
  <2>2. CASE ~(a = 0 \/ b = 0)
    <3>1. Link(a, b, FALSE, attrs)
      BY <1>1, <2>2 DEF ConnectPlain
    <3>2. a \in DOMAIN g /\ b \in DOMAIN g
      BY <1>0, <2>2, FindNodeRange DEF IsGraph
    <3> HIDE DEF a, b
    <3>. QED
      BY <1>0, <1>1, <2>0, <3>1, <3>2, LinkCarries
  <2>. QED
    BY <2>1, <2>2
<1>2. ASSUME WireStep
      PROVE  Carried(g, g') /\ job' \in WireJob
  <2> DEFINE a == PairInHand[1]
             b == PairInHand[2]
             always == job.kind # "match"
  <2>1. job \in WireJob
    BY <1>2, JobKinds DEF WireStep, WInv, TypeOK
  <2>2. a \in DOMAIN g /\ b \in DOMAIN g
    BY <1>2, <2>1, PairInGraph DEF WireStep, WInv, TypeOK
  <2>3. Link(a, b, always, job.attrs) /\ job.attrs \in EdgeAttrs /\ always \in BOOLEAN
    BY <1>2, <2>1 DEF WireStep, WireJob
  <2>4. \/ job' = [job EXCEPT !.j = @ + 1]
        \/ job' = [job EXCEPT !.i = @ + 1, !.j = 1]
    BY <1>2 DEF WireStep
  <2>5. job' \in WireJob
    <3>1. job.i + 1 \in Nat /\ job.j + 1 \in Nat
      BY <2>1 DEF WireJob
    <3>2. \E n \in Nat : job' = [job EXCEPT !.j = n] \/ job' = [job EXCEPT !.i = n, !.j = 1]
      BY <2>4, <3>1
    <3>. QED
      BY <2>1, <3>2, InnerPair, OuterPair, Zenon
  <2> HIDE DEF a, b, always
  <2>. QED
    BY <1>0, <2>2, <2>3, <2>5, LinkCarries
<1>3. ASSUME EmptyRing
      PROVE  Carried(g, g') /\ job' \in WireJob
  <2>1. job \in WireJob
    BY <1>3, JobKinds DEF EmptyRing, WInv, TypeOK
  <2>2. job.attrs \in EdgeAttrs
    BY <2>1 DEF WireJob
  <2>3. g' = g \/ \E a, b \in DOMAIN g : Link(a, b, TRUE, job.attrs)
    BY <1>3 DEF EmptyRing
  <2>4. job' \in WireJob
    <3>1. \E n \in Nat : job' = [job EXCEPT !.i = n]
      BY <1>3 DEF EmptyRing
    <3>. QED
      BY <2>1, <3>1, EmptyRingPair, Zenon
  <2>. QED
    BY <1>0, <2>2, <2>3, <2>4, LinkCarries, NothingCarries
<1>. QED
  BY <1>1, <1>2, <1>3, WireJobGiven

(* The actions that change no graph. *)
LEMMA OthersCarry ==
  ASSUME WInv, WInv', JobGiven,
         \/ \E shape \in {"alllist", "line", "ring"}, named \in Lists, attrs \in EdgeAttrs :
              ConnectNamed(shape, named, attrs)
         \/ \E pattern \in SUBSET Taken(g), attrs \in EdgeAttrs : ConnectMatching(pattern, attrs)
         \/ JobDone
         \/ UNCHANGED vars
  PROVE  Carried(g, g') /\ JobGiven'
<1>1. g' = g
  BY DEF ConnectNamed, ConnectMatching, JobDone, vars
<1>2. job' \in {Idle} \cup GateJob \cup WireJob \cup InsertJob
  BY DEF WInv, TypeOK, GateJob, WireJob, InsertJob
<1>3. job' = job \/ job' = Idle \/ job'.kind \in {"alllist", "line", "ring", "match"}
  <2>1. ASSUME NEW shape \in {"alllist", "line", "ring"}, NEW named, NEW attrs,
               ConnectNamed(shape, named, attrs)
        PROVE  job' = job \/ job'.kind = shape
    BY <2>1 DEF ConnectNamed
  <2>2. ASSUME NEW pattern, NEW attrs, ConnectMatching(pattern, attrs)
        PROVE  job'.kind = "match"
    BY <2>2 DEF ConnectMatching
  <2>3. ASSUME JobDone \/ UNCHANGED vars PROVE job' = job \/ job' = Idle
    BY <2>3 DEF JobDone, vars
  <2>. QED
    BY <2>1, <2>2, <2>3
<1>4. JobGiven'
  <2>1. CASE job' = job
    BY <2>1 DEF JobGiven, GateJob, InsertJob
  <2>2. CASE job' = Idle \/ job'.kind \in {"alllist", "line", "ring", "match"}
    <3>1. job' \notin GateJob /\ job' \notin InsertJob
      BY <2>2 DEF Idle, GateJob, InsertJob
    <3>. QED
      BY <3>1 DEF JobGiven, GateJob, InsertJob
  <2>. QED
    BY <1>3, <2>1, <2>2
<1>. QED
  BY <1>1, <1>4, NothingCarries

LEMMA StepCarries ==
  ASSUME OInv, [Next]_vars
  PROVE  OInv' /\ Carried(g, g')
<1>1. WInv /\ WInv'
  BY NextGood DEF OInv
<1>2. Carried(g, g') /\ JobGiven'
  BY <1>1, ExpandCarries, InsertProductCarries, GateCarries, InsertNodeCarries, InsertEdgeCarries,
     ConnectCarries, OthersCarry DEF Next, OInv
<1>3. Owned(g') /\ NodesNamed(g')
  BY <1>2 DEF Carried, OInv
<1>4. Owned(g)' /\ NodesNamed(g)'
  BY <1>3 DEF Owned, NodesNamed, NodeName, GateName
<1>. QED
  BY <1>1, <1>2, <1>4 DEF OInv

LEMMA InitCarried == Init => OInv
BY InitGood DEF Init, OInv, JobGiven, Owned, NodesNamed, Idle, GateJob, InsertJob, EmptyGraph

(* Nothing but what a definition names shares its name with an automatic gate,
   whose first neighbour is the node it was made for: no connection is made at
   a gate of another one (add_auto_gate, add_auto_gate_full_name). *)
THEOREM AutoGatesStayOwned == Spec => []AutoGatesOwned
<1>1. OInv /\ [Next]_vars => OInv'
  BY StepCarries
<1>2. OInv => AutoGatesOwned
  BY DEF OInv, Owned, AutoGatesOwned
<1>. QED
  BY <1>1, <1>2, InitCarried, PTL DEF Spec

(* Two NODEs are never connected directly, except as an inserted product has
   them, provided that no declared gate has a NODE's name and that the lists of
   the products agree. *)
THEOREM GatesBetweenNodes ==
  (NamesApart /\ \A prod \in Products : Symmetric(prod)) => (Spec => []NodesMeetThroughGates)
<1>. SUFFICES ASSUME WellNamed PROVE Spec => []NodesMeetThroughGates
  BY DEF WellNamed
<1>1. Init => OInv /\ Meet(g)
  BY InitCarried DEF Init, Meet, EmptyGraph
<1>2. OInv /\ Meet(g) /\ [Next]_vars => (OInv /\ Meet(g))'
  <2>1. SUFFICES ASSUME OInv, Meet(g), [Next]_vars PROVE OInv' /\ Meet(g')
    BY DEF Meet, Neighbours, FromProduct
  <2>. QED
    BY <2>1, StepCarries DEF Carried, OInv
<1>3. Meet(g) => NodesMeetThroughGates
  BY DEF Meet, NodesMeetThroughGates
<1>. QED
  BY <1>1, <1>2, <1>3, PTL DEF Spec
=============================================================================
