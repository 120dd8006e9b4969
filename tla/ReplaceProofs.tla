--------------------------- MODULE ReplaceProofs ---------------------------
(***************************************************************************)
(* For every definition: do_replace merges each replaced node with its     *)
(* successor and leaves no entry for a node that has handed over, and      *)
(* between its calls every edge between nodes that are still there is in   *)
(* both of their lists, and what connections asked for is there.           *)
(***************************************************************************)
EXTENDS Replacing, ExpandProofs, WiringProofs

----------------------------------------------------------------------------
(* The operations of Wiring, on a graph whose lists need not agree. *)

(* Two nodes that are there are neighbours from both sides or not at all. *)
BothWays(gr) ==
  \A a, b \in DOMAIN gr :
     ~Gone(gr[a]) /\ ~Gone(gr[b]) /\ AreAdjacent(gr, a, b) => AreAdjacent(gr, b, a)

(* A neighbour that is new is one from both sides. *)
Paired(old, new) ==
  \A a \in DOMAIN new : \A b \in DOMAIN new :
     AreAdjacent(new, a, b) =>
       (a \in DOMAIN old /\ AreAdjacent(old, a, b)) \/ AreAdjacent(new, b, a)

(* Nobody is marked who was not. *)
Unmarked(old, new) ==
  \A v \in DOMAIN new :
     new[v].type = "REPLACED_T" => v \in DOMAIN old /\ old[v].type = "REPLACED_T"

Wired(old, new) == Extended(old, new) /\ Paired(old, new) /\ Unmarked(old, new)

LEMMA AdjacentKept ==
  ASSUME NEW old, NEW new, Grown(old, new), NEW a \in DOMAIN old, NEW b, AreAdjacent(old, a, b)
  PROVE  AreAdjacent(new, a, b)
BY DEF Grown, AreAdjacent

LEMMA AdjacentInside ==
  ASSUME NEW gr, IsGraph(gr), NEW a \in DOMAIN gr, NEW b, AreAdjacent(gr, a, b)
  PROVE  b \in DOMAIN gr
BY DEF IsGraph, AreAdjacent

LEMMA WiredTwice ==
  ASSUME NEW old, NEW mid, NEW new, IsGraph(old), Wired(old, mid), Wired(mid, new)
  PROVE  Wired(old, new)
<1>1. /\ Extended(old, new) /\ IsGraph(mid) /\ IsGraph(new)
      /\ Unmarked(old, new)
  BY ExtendedTwice DEF Wired, Extended, Unmarked
<1>2. SUFFICES ASSUME NEW a \in DOMAIN new, NEW b \in DOMAIN new, AreAdjacent(new, a, b),
                      ~AreAdjacent(new, b, a)
               PROVE  a \in DOMAIN old /\ AreAdjacent(old, a, b)
  BY <1>1 DEF Wired, Paired
<1>3. a \in DOMAIN mid /\ AreAdjacent(mid, a, b)
  BY <1>2 DEF Wired, Paired
<1>4. b \in DOMAIN mid
  BY <1>1, <1>3, AdjacentInside
<1>5. ~AreAdjacent(mid, b, a)
  BY <1>2, <1>4, AdjacentKept DEF Wired, Extended
<1>. QED
  BY <1>3, <1>4, <1>5 DEF Wired, Paired

LEMMA WiredNot ==
  ASSUME NEW gr, IsGraph(gr)
  PROVE  Wired(gr, gr)
BY DEF Wired, Paired, Unmarked, Extended, Grown, SameTypes, IsGraph

LEMMA NodeWired ==
  ASSUME NEW gr, IsGraph(gr), NEW name \in Names, NEW type \in {"NODE", "GATE"}
  PROVE  Wired(gr, AddNode(gr, name, type))
<1> DEFINE h == AddNode(gr, name, type)
           node == [name |-> name, type |-> type, adj |-> <<>>]
<1>0. type \in NodeTypes
  BY DEF NodeTypes
<1>1. /\ IsGraph(h) /\ Len(h) = Len(gr) + 1
      /\ \A i \in DOMAIN gr : h[i] = gr[i]
      /\ h[Len(gr) + 1] = node
  BY <1>0, AddNodeProperties
<1>2. Extended(gr, h)
  BY NodeExtends
<1> HIDE DEF h
<1>3. \A a \in DOMAIN h : a \in DOMAIN gr \/ a = Len(gr) + 1
  BY <1>1 DEF IsGraph
<1>4. h[Len(gr) + 1].adj = <<>>
  BY <1>1
<1>5. Paired(gr, h)
  BY <1>1, <1>3, <1>4 DEF Paired, AreAdjacent
<1>6. h[Len(gr) + 1].type # "REPLACED_T"
  BY <1>1
<1>7. Unmarked(gr, h)
  BY <1>1, <1>3, <1>6 DEF Unmarked
<1>. QED
  BY <1>2, <1>5, <1>7 DEF Wired, h

LEMMA EdgeWired ==
  ASSUME NEW gr, IsGraph(gr), NEW a \in 0..Len(gr), NEW b \in 0..Len(gr), NEW at \in EdgeAttrs
  PROVE  Wired(gr, AddEdgeId(gr, a, b, at))
<1> DEFINE h == AddEdgeId(gr, a, b, at)
<1>1. Extended(gr, h)
  BY EdgeExtends
<1>2. h = gr \/ Joined(gr, h, a, b, at)
  BY AddEdgeIdEffect
<1> HIDE DEF h
<1>3. CASE h = gr
  BY <1>3, WiredNot DEF h
<1>4. CASE Joined(gr, h, a, b, at)
  <2>1. EntriesAfter(gr, h, a, b, at) /\ DOMAIN h = DOMAIN gr
    BY <1>4, JoinedEntries DEF Joined
  <2>2. AreAdjacent(h, a, b) /\ AreAdjacent(h, b, a)
    BY <2>1 DEF EntriesAfter, AreAdjacent
  <2>3. ASSUME NEW x \in DOMAIN h, NEW y \in DOMAIN h, AreAdjacent(h, x, y)
        PROVE  (x \in DOMAIN gr /\ AreAdjacent(gr, x, y)) \/ AreAdjacent(h, y, x)
    <3>1. PICK m \in DOMAIN h[x].adj : h[x].adj[m].n = y
      BY <2>3 DEF AreAdjacent
    <3>2. CASE m \in DOMAIN gr[x].adj
      BY <2>1, <3>1, <3>2 DEF EntriesAfter, AreAdjacent
    <3>3. CASE x = a /\ m = Len(gr[a].adj) + 1
      BY <2>1, <2>2, <3>1, <3>3 DEF EntriesAfter
    <3>4. CASE x = b /\ m = Len(gr[b].adj) + 1
      BY <2>1, <2>2, <3>1, <3>4 DEF EntriesAfter
    <3>. QED
      BY <2>1, <3>2, <3>3, <3>4 DEF EntriesAfter
  <2>4. Paired(gr, h)
    BY <2>3 DEF Paired
  <2>5. Unmarked(gr, h)
    BY <1>1, <2>1 DEF Unmarked, Extended, SameTypes, h
  <2>. QED
    BY <1>1, <2>4, <2>5 DEF Wired, h
<1>. QED
  BY <1>2, <1>3, <1>4

LEMMA NamedEdgeWired ==
  ASSUME NEW gr, IsGraph(gr), NEW nameA, NEW nameB, NEW at \in EdgeAttrs
  PROVE  Wired(gr, AddEdgeName(gr, nameA, nameB, at))
<1>1. FindNode(gr, nameA) \in 0..Len(gr) /\ FindNode(gr, nameB) \in 0..Len(gr)
  BY FindNodeRange DEF IsGraph
<1>. QED
  BY <1>1, EdgeWired DEF AddEdgeName

(* What the operations of Wiring do, they do to both lists. *)
LEMMA WiredBothWays ==
  ASSUME NEW old, NEW new, IsGraph(old), Wired(old, new), BothWays(old)
  PROVE  BothWays(new)
<1>1. SUFFICES ASSUME NEW a \in DOMAIN new, NEW b \in DOMAIN new,
                      ~Gone(new[a]), ~Gone(new[b]), AreAdjacent(new, a, b)
               PROVE  AreAdjacent(new, b, a)
  BY DEF BothWays
<1>2. CASE a \in DOMAIN old /\ AreAdjacent(old, a, b)
  <2>1. b \in DOMAIN old
    BY <1>2, AdjacentInside
  <2>2. ~Gone(old[a]) /\ ~Gone(old[b])
    BY <1>1, <1>2, <2>1 DEF Wired, Extended, Grown, SameTypes, Gone
  <2>. QED
    BY <1>2, <2>1, <2>2, AdjacentKept DEF BothWays, Wired, Extended
<1>. QED
  BY <1>1, <1>2 DEF Wired, Paired

(* A node that is marked has a name, which tells it from one that is gone. *)
MarkedNamed(gr) == \A v \in DOMAIN gr : gr[v].type = "REPLACED_T" => gr[v].name # <<>>

LEMMA WiredNamed ==
  ASSUME NEW old, NEW new, Wired(old, new), MarkedNamed(old)
  PROVE  MarkedNamed(new)
BY DEF Wired, Unmarked, MarkedNamed, Extended, Grown

LEMMA AutoGateWired ==
  ASSUME NEW gr, IsGraph(gr), NEW v \in DOMAIN gr
  PROVE  Wired(gr, WithAutoGate(gr, v))
<1> DEFINE name == FreeAutoName(gr, gr[v].name)
           more == AddNode(gr, name, "GATE")
           last == Len(gr) + 1
<1>1. WithAutoGate(gr, v) = AddEdgeId(more, v, last, NULL)
  BY AutoGateProperties
<1>2. name \in Names
  <2>1. gr \in Seq(Node) /\ gr[v].name \in Names
    BY NodeFields DEF IsGraph
  <2>. QED
    BY <2>1, FreeAutoNameIsFree
<1> HIDE DEF name
<1>3. Wired(gr, more) /\ Len(more) = last /\ IsGraph(more)
  BY <1>2, NodeWired, AddNodeProperties DEF NodeTypes
<1> HIDE DEF more
<1>4. v \in 0..Len(more) /\ last \in 0..Len(more) /\ NULL \in EdgeAttrs
  BY <1>3 DEF IsGraph, EdgeAttrs
<1>5. Wired(more, AddEdgeId(more, v, last, NULL))
  BY <1>3, <1>4, EdgeWired
<1>. QED
  BY <1>1, <1>3, <1>5, WiredTwice

LEMMA EndWired ==
  ASSUME NEW gr, IsGraph(gr), NEW v \in DOMAIN gr, NEW always \in BOOLEAN
  PROVE  Wired(gr, End(gr, v, always).graph)
BY AutoGateWired, WiredNot DEF End

LEMMA LinkWired ==
  ASSUME IsGraph(g), NEW a \in DOMAIN g, NEW b \in DOMAIN g,
         NEW always \in BOOLEAN, NEW attrs \in EdgeAttrs, Link(a, b, always, attrs)
  PROVE  Wired(g, g')
<1> DEFINE left  == End(g, a, always)
           right == End(left.graph, b, always)
<1>1. g' = AddEdgeId(right.graph, left.id, right.id, attrs)
  BY DEF Link
<1>2. Wired(g, left.graph) /\ IsGraph(left.graph) /\ left.id \in DOMAIN left.graph
  BY EndWired, EndProperties DEF Wired, Extended
<1>3. b \in DOMAIN left.graph
  BY <1>2, ExtendedIds DEF Wired
<1> HIDE DEF left
<1>4. Wired(left.graph, right.graph) /\ IsGraph(right.graph) /\ right.id \in DOMAIN right.graph
  BY <1>2, <1>3, EndWired, EndProperties DEF Wired, Extended
<1> HIDE DEF right
<1>5. left.id \in 0..Len(right.graph) /\ right.id \in 0..Len(right.graph)
  <2>1. left.id \in DOMAIN right.graph
    BY <1>2, <1>4, ExtendedIds DEF Wired
  <2>. QED
    BY <1>4, <2>1 DEF IsGraph
<1>6. Wired(right.graph, g')
  BY <1>1, <1>4, <1>5, EdgeWired
<1>. QED
  BY <1>2, <1>4, <1>6, WiredTwice

----------------------------------------------------------------------------
(* What connections asked for, in a graph where nodes may be gone. *)

(* x is there and named as a part of v. *)
PartIn(gr, v, x) == gr[x].name # <<>> /\ gr[x].name = Append(gr[v].name, Last(gr[x].name))

(* An edge that was asked of v may be at x. *)
EndAt(gr, v, x) == ~Gone(gr[x]) /\ (x = v \/ (AreAdjacent(gr, v, x) /\ PartIn(gr, v, x)))

(* What was asked of v and w is there, if they are.  An empty ring may ask for an
   edge of nodes that are gone. *)
Reaches(gr, v, w) ==
  /\ v \in DOMAIN gr /\ w \in DOMAIN gr
  /\ \/ Gone(gr[v])
     \/ Gone(gr[w])
     \/ \E x, y \in DOMAIN gr : EndAt(gr, v, x) /\ EndAt(gr, w, y) /\ AreAdjacent(gr, x, y)

(* Names and edges stay, and nobody goes or comes back. *)
Stays(old, new) ==
  \A v \in DOMAIN old :
    /\ v \in DOMAIN new /\ new[v].name = old[v].name /\ (Gone(new[v]) <=> Gone(old[v]))
    /\ \A w : AreAdjacent(old, v, w) => AreAdjacent(new, v, w)

LEMMA ExtendedStays ==
  ASSUME NEW old, NEW new, IsGraph(old), Extended(old, new)
  PROVE  Stays(old, new)
<1>1. DOMAIN old \subseteq DOMAIN new
  BY ExtendedIds
<1>2. ASSUME NEW v \in DOMAIN old
      PROVE  new[v].name = old[v].name /\ (Gone(new[v]) <=> Gone(old[v]))
  BY DEF Extended, Grown, SameTypes, Gone
<1>3. ASSUME NEW v \in DOMAIN old, NEW w, AreAdjacent(old, v, w)
      PROVE  AreAdjacent(new, v, w)
  BY <1>3, AdjacentKept DEF Extended
<1>. QED
  BY <1>1, <1>2, <1>3 DEF Stays

LEMMA EndStays ==
  ASSUME NEW old, NEW new, Stays(old, new), NEW v \in DOMAIN old, NEW x \in DOMAIN old,
         EndAt(old, v, x)
  PROVE  EndAt(new, v, x)
<1>1. /\ new[v].name = old[v].name /\ new[x].name = old[x].name
      /\ ~Gone(new[x]) /\ (AreAdjacent(old, v, x) => AreAdjacent(new, v, x))
  BY DEF Stays, EndAt
<1>. QED
  BY <1>1 DEF EndAt, PartIn

LEMMA ReachesStays ==
  ASSUME NEW old, NEW new, Stays(old, new), NEW v, NEW w, Reaches(old, v, w)
  PROVE  Reaches(new, v, w)
<1>1. v \in DOMAIN old /\ w \in DOMAIN old /\ v \in DOMAIN new /\ w \in DOMAIN new
  BY DEF Reaches, Stays
<1>2. CASE Gone(old[v]) \/ Gone(old[w])
  BY <1>1, <1>2 DEF Reaches, Stays
<1>3. CASE \E x, y \in DOMAIN old : EndAt(old, v, x) /\ EndAt(old, w, y) /\ AreAdjacent(old, x, y)
  <2>1. PICK x \in DOMAIN old, y \in DOMAIN old :
          EndAt(old, v, x) /\ EndAt(old, w, y) /\ AreAdjacent(old, x, y)
    BY <1>3
  <2>2. EndAt(new, v, x) /\ EndAt(new, w, y)
    BY <1>1, <2>1, EndStays
  <2>3. x \in DOMAIN new /\ y \in DOMAIN new /\ AreAdjacent(new, x, y)
    BY <2>1 DEF Stays
  <2>. QED
    BY <1>1, <2>2, <2>3 DEF Reaches
<1>. QED
  BY <1>2, <1>3 DEF Reaches

(* The gate that is made for an end is a part of the node it is made for. *)
LEMMA EndReached ==
  ASSUME NEW gr, IsGraph(gr), NEW v \in DOMAIN gr, ~Gone(gr[v]), NEW always \in BOOLEAN
  PROVE  EndAt(End(gr, v, always).graph, v, End(gr, v, always).id)
<1> DEFINE end == End(gr, v, always)
<1>1. CASE NeedsAuto(gr, v, always)
  <2> DEFINE name == FreeAutoName(gr, gr[v].name)
             more == AddNode(gr, name, "GATE")
             last == Len(gr) + 1
  <2>1. end.graph = WithAutoGate(gr, v) /\ end.id = AutoGateId(gr, v)
    BY <1>1 DEF End
  <2> HIDE DEF end
  <2>2. /\ end.id = last /\ AreAdjacent(end.graph, v, last)
        /\ end.graph[last].type = "GATE"
        /\ end.graph = AddEdgeId(more, v, last, NULL)
        /\ Extended(gr, end.graph)
    BY <2>1, AutoGateProperties
  <2>3. gr \in Seq(Node) /\ gr[v].name \in Names
    BY NodeFields DEF IsGraph
  <2>4. name \in Names /\ \E k \in 0..Len(gr) : name = AutoName(gr[v].name, k)
    BY <2>3, FreeAutoNameIsFree
  <2> HIDE DEF name
  <2>5. IsGraph(more) /\ Len(more) = last /\ more[last].name = name
    <3>1. "GATE" \in NodeTypes
      BY DEF NodeTypes
    <3>2. /\ IsGraph(more) /\ Len(more) = last
          /\ more[last] = [name |-> name, type |-> "GATE", adj |-> <<>>]
      BY <2>4, <3>1, AddNodeProperties
    <3> HIDE DEF more
    <3>. QED
      BY <3>2
  <2> HIDE DEF more
  <2>6. last \in DOMAIN more /\ v \in 0..Len(more) /\ last \in 0..Len(more) /\ NULL \in EdgeAttrs
    BY <2>5 DEF IsGraph, EdgeAttrs
  <2>7. end.graph[last].name = name
    <3> HIDE DEF last
    <3>1. \A i \in DOMAIN more : AddEdgeId(more, v, last, NULL)[i].name = more[i].name
      BY <2>5, <2>6, AddEdgeIdGraph
    <3>. QED
      BY <2>2, <2>5, <2>6, <3>1
  <2>8. PICK k \in 0..Len(gr) : name = Append(gr[v].name, <<AutoLabel, k>>)
    BY <2>4 DEF AutoName
  <2>9. name # <<>> /\ Last(name) = <<AutoLabel, k>>
    <3>1. gr[v].name \in Seq(Parts) /\ <<AutoLabel, k>> \in Parts
      BY <2>3, AutoAssumption DEF Names, Parts
    <3> DEFINE owner == gr[v].name
               part == <<AutoLabel, k>>
    <3> HIDE DEF owner, part
    <3>2. /\ Len(Append(owner, part)) = Len(owner) + 1 /\ Len(owner) \in Nat
          /\ Append(owner, part)[Len(owner) + 1] = part
      BY <3>1 DEF owner, part
    <3>3. name = Append(owner, part)
      BY <2>8 DEF owner, part
    <3>4. Len(<<>>) = 0
      OBVIOUS
    <3>. QED
      BY <3>2, <3>3, <3>4 DEF Last, part
  <2>10. end.graph[v].name = gr[v].name
    BY <2>2 DEF Extended, Grown
  <2>11. PartIn(end.graph, v, last)
    BY <2>7, <2>8, <2>9, <2>10 DEF PartIn
  <2>12. ~Gone(end.graph[last])
    BY <2>2 DEF Gone
  <2>. QED
    BY <2>2, <2>11, <2>12 DEF EndAt, end
<1>2. CASE ~NeedsAuto(gr, v, always)
  BY <1>2 DEF End, EndAt
<1>. QED
  BY <1>1, <1>2

(* Nothing is asked, or what is asked is there. *)
Asks ==
  \/ asked' = asked
  \/ \E a, b \in DOMAIN g : asked' = asked \cup {<<a, b>>} /\ Reaches(g', a, b)

LEMMA LinkAsks ==
  ASSUME IsGraph(g), NEW a \in DOMAIN g, NEW b \in DOMAIN g,
         NEW always \in BOOLEAN, NEW attrs \in EdgeAttrs, Link(a, b, always, attrs)
  PROVE  Asks
<1> DEFINE left  == End(g, a, always)
           right == End(left.graph, b, always)
<1>1. /\ g' = AddEdgeId(right.graph, left.id, right.id, attrs)
      /\ IF EdgeRefused(right.graph, left.id, right.id)
         THEN err' = "CONN" /\ UNCHANGED asked
         ELSE err' = "ok" /\ asked' = asked \cup {<<a, b>>}
  BY DEF Link
<1>2. CASE EdgeRefused(right.graph, left.id, right.id)
  BY <1>1, <1>2 DEF Asks
<1>3. CASE ~EdgeRefused(right.graph, left.id, right.id)
  <2>1. /\ Extended(g, left.graph) /\ left.id \in DOMAIN left.graph
        /\ ~Gone(g[a]) => EndAt(left.graph, a, left.id)
    BY EndProperties, EndReached
  <2>2. IsGraph(left.graph) /\ b \in DOMAIN left.graph /\ a \in DOMAIN left.graph
    BY <2>1, ExtendedIds DEF Extended
  <2> HIDE DEF left
  <2>3. /\ Extended(left.graph, right.graph) /\ right.id \in DOMAIN right.graph
        /\ ~Gone(left.graph[b]) => EndAt(right.graph, b, right.id)
    BY <2>2, EndProperties, EndReached
  <2> HIDE DEF right
  <2>4. IsGraph(right.graph) /\ DOMAIN left.graph \subseteq DOMAIN right.graph
    BY <2>2, <2>3, ExtendedIds DEF Extended
  <2>5. left.id \in 0..Len(right.graph) /\ right.id \in 0..Len(right.graph)
    BY <2>1, <2>3, <2>4 DEF IsGraph
  <2>6. Extended(right.graph, g') /\ AreAdjacent(g', left.id, right.id)
    BY <1>1, <1>3, <2>4, <2>5, EdgeExtends, AddEdgeIdConnects
  <2>7. Stays(g, left.graph) /\ Stays(left.graph, right.graph) /\ Stays(right.graph, g')
    BY <2>1, <2>2, <2>3, <2>4, <2>6, ExtendedStays
  <2>8. /\ a \in DOMAIN g' /\ b \in DOMAIN g' /\ left.id \in DOMAIN g' /\ right.id \in DOMAIN g'
        /\ Gone(g'[a]) <=> Gone(g[a])
        /\ Gone(g'[b]) <=> Gone(left.graph[b])
    BY <2>1, <2>2, <2>3, <2>4, <2>7 DEF Stays
  <2>9. CASE ~Gone(g[a]) /\ ~Gone(left.graph[b])
    <3>1. EndAt(g', a, left.id)
      BY <2>1, <2>2, <2>4, <2>7, <2>9, EndStays
    <3>2. EndAt(g', b, right.id)
      BY <2>2, <2>3, <2>4, <2>7, <2>9, EndStays
    <3>. QED
      BY <1>1, <1>3, <2>6, <2>8, <3>1, <3>2 DEF Reaches, Asks
  <2>10. CASE Gone(g[a]) \/ Gone(left.graph[b])
    BY <1>1, <1>3, <2>8, <2>10 DEF Reaches, Asks
  <2>. QED
    BY <2>9, <2>10
<1>. QED
  BY <1>2, <1>3

----------------------------------------------------------------------------
(* What the expansion asks of the graph, whatever the definition. *)
Connects ==
  \/ \E name \in Names, list \in Seq(Parts) : ExpandSimple(name, list) \/ ExpandCompound(name, list)
  \/ \E from, to : \E attrs \in EdgeAttrs : ConnectPlain(from, to, attrs)
  \/ \E shape \in {"alllist", "line", "ring"}, attrs \in EdgeAttrs : \E named :
       (\E len \in Nat : DOMAIN named = 1..len) /\ ConnectNamed(shape, named, attrs)
  \/ \E pattern : \E attrs \in EdgeAttrs : ConnectMatching(pattern, attrs)
  \/ GateStep \/ WireStep \/ EmptyRing \/ JobDone

Operates ==
  \/ Connects
  \/ \E names : <<>> \notin names /\ Mark(names)
  \/ HandOver \/ HandOverStep

(* FlattenSeq puts together lists, also lists of lists of no elements. *)
IsFlattening(lists, n, f) ==
  f = [k \in 1..n |-> IF k = 1 THEN lists[k] ELSE f[k - 1] \o lists[k]]

LEMMA FlatteningExists ==
  ASSUME NEW lists
  PROVE  \A n \in Nat : \E f : IsFlattening(lists, n, f)
<1>. DEFINE S == {n \in Nat : \E f : IsFlattening(lists, n, f)}
<1>1. 0 \in S
  <2>. DEFINE f == [k \in 1..0 |-> {}]
  <2>1. f = [k \in 1..0 |-> IF k = 1 THEN lists[k] ELSE f[k - 1] \o lists[k]]
    OBVIOUS
  <2>. HIDE DEF f
  <2>2. IsFlattening(lists, 0, f)
    BY <2>1 DEF IsFlattening
  <2>. QED
    BY <2>2
<1>2. ASSUME NEW n \in S PROVE n + 1 \in S
  <2>1. PICK f : IsFlattening(lists, n, f)
    OBVIOUS
  <2>. DEFINE h == [k \in 1..(n + 1) |-> IF k = 1 THEN lists[k] ELSE f[k - 1] \o lists[k]]
  <2>2. n \in Nat /\ n + 1 \in Nat
    OBVIOUS
  <2>3. ASSUME NEW k \in 1..n PROVE h[k] = f[k]
    <3>1. k \in 1..(n + 1)
      BY <2>2
    <3>2. f[k] = IF k = 1 THEN lists[k] ELSE f[k - 1] \o lists[k]
      BY <2>1 DEF IsFlattening
    <3>. QED
      BY <3>1, <3>2
  <2>4. ASSUME NEW k \in 1..(n + 1), k # 1 PROVE k - 1 \in 1..n
    BY <2>2, <2>4
  <2>5. h = [k \in 1..(n + 1) |-> IF k = 1 THEN lists[k] ELSE h[k - 1] \o lists[k]]
    <3>1. \A k \in 1..(n + 1) : k # 1 => h[k - 1] = f[k - 1]
      BY <2>3, <2>4
    <3>. QED
      BY <3>1
  <2>. HIDE DEF h
  <2>6. IsFlattening(lists, n + 1, h)
    BY <2>5 DEF IsFlattening
  <2>. QED
    BY <2>2, <2>6
<1>3. S = Nat
  <2>. HIDE DEF S
  <2>. QED
    BY <1>1, <1>2, SetInduction DEF S
<1>. QED
  BY <1>3

LEMMA FlattenedIsList ==
  ASSUME NEW S, NEW n \in Nat, NEW lists, DOMAIN lists = 1..n,
         \A k \in 1..n : lists[k] \in Seq(S), Len(lists) = n
  PROVE  FlattenSeq(lists) \in Seq(S)
<1>1. CASE n = 0
  <2>1. FlattenSeq(lists) = lists
    BY <1>1 DEF FlattenSeq
  <2>2. lists = [k \in 1..0 |-> lists[k]]
    BY <1>1, <2>1
  <2>. QED
    BY <1>1, <2>1, <2>2
<1>2. CASE n # 0
  <2>. DEFINE f == CHOOSE f : IsFlattening(lists, n, f)
  <2>1. IsFlattening(lists, n, f)
    BY FlatteningExists
  <2>2. FlattenSeq(lists) = f[n]
    BY <1>2 DEF FlattenSeq, IsFlattening
  <2>. HIDE DEF f
  <2>. DEFINE K == {k \in Nat : k + 1 \in 1..n => f[k + 1] \in Seq(S)}
  <2>3. 0 \in K
    <3>1. 1 \in 1..n
      BY <1>2
    <3>2. f[1] = lists[1]
      BY <2>1, <3>1 DEF IsFlattening
    <3>. QED
      BY <3>1, <3>2
  <2>4. ASSUME NEW k \in K PROVE k + 1 \in K
    <3>1. SUFFICES ASSUME (k + 1) + 1 \in 1..n PROVE f[(k + 1) + 1] \in Seq(S)
      OBVIOUS
    <3>2. /\ k + 1 \in 1..n /\ (k + 1) + 1 # 1 /\ ((k + 1) + 1) - 1 = k + 1
      BY <3>1
    <3>3. f[(k + 1) + 1] = f[k + 1] \o lists[(k + 1) + 1]
      <4>1. f[(k + 1) + 1] = IF (k + 1) + 1 = 1 THEN lists[(k + 1) + 1]
                             ELSE f[((k + 1) + 1) - 1] \o lists[(k + 1) + 1]
        BY <2>1, <3>1 DEF IsFlattening
      <4>. QED
        BY <3>2, <4>1
    <3>4. f[k + 1] \in Seq(S) /\ lists[(k + 1) + 1] \in Seq(S)
      BY <3>1, <3>2
    <3>. QED
      BY <3>3, <3>4
  <2>5. K = Nat
    <3>. HIDE DEF K
    <3>. QED
      BY <2>3, <2>4, SetInduction DEF K
  <2>6. n - 1 \in Nat /\ (n - 1) + 1 = n /\ n \in 1..n
    BY <1>2
  <2>7. n - 1 \in K
    BY <2>5, <2>6
  <2>8. f[(n - 1) + 1] \in Seq(S)
    BY <2>6, <2>7
  <2>. QED
    BY <2>2, <2>6, <2>8
<1>. QED
  BY <1>1, <1>2

LEMMA ElementInList ==
  ASSUME NEW S, NEW list \in Seq(S), NEW k \in DOMAIN list
  PROVE  list[k] \in S
OBVIOUS

(* The gates a module is expanded with. *)
LEMMA GatesAreParts ==
  ASSUME NEW gates \in Seq([name : Labels, size : Expr]), params \in Seq(Param)
  PROVE  GateParts(gates) \in Seq(Parts)
<1> DEFINE m == Min(BadGates(gates) \cup {Len(gates) + 1}) - 1
           good == SubSeq(gates, 1, m)
           lists == [k \in DOMAIN good |-> PartsOf(good[k])]
<1>1. /\ m \in Nat /\ m <= Len(gates)
      /\ \A k \in 1..m : k \in DOMAIN gates /\ k \notin BadGates(gates)
  <2> DEFINE S == BadGates(gates) \cup {Len(gates) + 1}
  <2>1. Len(gates) \in Nat /\ DOMAIN gates = 1..Len(gates)
    OBVIOUS
  <2>2. S \in SUBSET Nat /\ S # {} /\ (\A k \in S : k >= 1) /\ Len(gates) + 1 \in S
    BY <2>1 DEF BadGates
  <2>3. BadGates(gates) \subseteq S
    OBVIOUS
  <2> HIDE DEF S
  <2>4. Min(S) \in S /\ \A k \in S : Min(S) <= k
    BY <2>2, MinIsLeast
  <2>5. Min(S) \in Nat /\ Min(S) >= 1 /\ Min(S) <= Len(gates) + 1
    BY <2>2, <2>4
  <2>6. m = Min(S) - 1
    BY DEF S
  <2> HIDE DEF m
  <2>7. m \in Nat /\ m <= Len(gates)
    BY <2>1, <2>5, <2>6
  <2>8. ASSUME NEW k \in 1..m PROVE k \in DOMAIN gates /\ k \notin BadGates(gates)
    <3>1. k \in DOMAIN gates /\ ~(Min(S) <= k)
      BY <2>1, <2>5, <2>6, <2>7
    <3>. QED
      BY <2>3, <2>4, <3>1
  <2>. QED
    BY <2>7, <2>8
<1>2. GateParts(gates) = FlattenSeq(lists)
  BY DEF GateParts
<1> HIDE DEF m
<1>3. good = [k \in 1..m |-> gates[k]]
  BY <1>1 DEF SubSeq
<1>4. DOMAIN good = 1..m /\ \A k \in 1..m : good[k] = gates[k]
  BY <1>3
<1> HIDE DEF good
<1>5. ASSUME NEW k \in 1..m PROVE PartsOf(good[k]) \in Seq(Parts)
  <2> DEFINE gate == good[k]
             size == Eval(params, gate.size)
  <2>1. gate = gates[k] /\ k \in DOMAIN gates /\ Evaluates(params, gates[k].size)
    BY <1>1, <1>4 DEF BadGates
  <2>2. gates[k].name \in Labels /\ gates[k].size \in Expr
    <3>1. gates[k] \in [name : Labels, size : Expr]
      BY <2>1, ElementInList
    <3>. QED
      BY <3>1
  <2>3. size \in Int /\ gate.name \in Labels
    BY <2>1, <2>2, ValueOfParam
  <2>4. PartsOf(gate) = IF size = 0 THEN <<<<gate.name, -1>>>>
                        ELSE [j \in 1..size |-> <<gate.name, j - 1>>]
    BY DEF PartsOf
  <2> HIDE DEF gate, size
  <2>5. <<gate.name, -1>> \in Parts /\ \A j \in Int : <<gate.name, j - 1>> \in Parts
    BY <2>3 DEF Parts
  <2>6. ASSUME size = 0 PROVE PartsOf(gate) \in Seq(Parts)
    BY <2>4, <2>5, <2>6
  <2>7. ASSUME size # 0 PROVE PartsOf(gate) \in Seq(Parts)
    <3>1. PICK n \in Nat : 1..size = 1..n
      <4>1. CASE size \in Nat
        BY <4>1
      <4>2. CASE size \notin Nat
        <5>1. 1..size = 1..0
          BY <2>3, <4>2
        <5>. QED
          BY <5>1
      <4>. QED
        BY <4>1, <4>2
    <3>2. PartsOf(gate) = [j \in 1..n |-> <<gate.name, j - 1>>]
      BY <2>4, <2>7, <3>1
    <3>. QED
      BY <2>5, <3>2
  <2>8. PartsOf(gate) \in Seq(Parts)
    BY <2>6, <2>7
  <2>. QED
    BY <2>8 DEF gate
<1>6. DOMAIN lists = 1..m /\ \A k \in 1..m : lists[k] \in Seq(Parts)
  BY <1>4, <1>5
<1>7. Len(lists) = m
  BY <1>1, <1>4
<1> HIDE DEF lists
<1>. QED
  BY <1>1, <1>2, <1>6, <1>7, FlattenedIsList

LEMMA ExpansionOperates ==
  ASSUME IInv, IsGraph(g), ExpandNext
  PROVE  Operates \/ UNCHANGED wiring
<1>1. CASE ModuleGates
  <2>1. Top.kind = "module" /\ FrameOK(Top) /\ params \in Seq(Param) /\ path \in Names
    BY <1>1, Ready, InHand DEF ModuleGates
  <2>2. Top.node.gates \in Seq([name : Labels, size : Expr])
    BY <2>1, Arguments DEF Module
  <2>3. GateParts(Top.node.gates) \in Seq(Parts)
    BY <2>1, <2>2, GatesAreParts
  <2>. QED
    BY <1>1, <2>1, <2>3 DEF ModuleGates, Operates, Connects
<1>2. CASE NextReplace
  <2>1. CASE Top.i <= Len(Top.node.replace)
    <3> DEFINE r == Top.node.replace[Top.i]
               names == {name \in Taken(g) : Matches(path, name, r.nodes, r.atEnd)}
    <3>1. Mark(names)
      BY <1>2, <2>1 DEF NextReplace
    <3>2. <<>> \notin names
      <4>1. DOMAIN <<>> = {}
        OBVIOUS
      <4>. QED
        BY <4>1 DEF Matches
    <3>. QED
      BY <3>1, <3>2 DEF Operates
  <2>2. CASE ~(Top.i <= Len(Top.node.replace))
    BY <1>2, <2>2 DEF NextReplace
  <2>. QED
    BY <2>1, <2>2
<1>3. CASE TakeOver
  BY <1>3 DEF TakeOver, Operates
<1>4. CASE Connect
  <2>1. Top.kind = "conn" /\ Top.node.kind = "link" /\ FrameOK(Top)
    BY <1>4, Ready DEF Connect
  <2>2. Top.node.attrs \in EdgeAttrs
    BY <2>1, Arguments DEF PlainConn, LoopConn, CondConn, ListConn, MatchConn
  <2>. QED
    BY <1>4, <2>2 DEF Connect, Operates, Connects
<1>5. CASE ConnectList
  <2>1. /\ Top.kind = "conn" /\ Top.node.kind \in {"alllist", "line", "ring"} /\ FrameOK(Top)
        /\ params \in Seq(Param)
    BY <1>5, Ready, InHand DEF ConnectList
  <2>2. Top.node \in ListConn
    BY <2>1, Arguments DEF PlainConn, LoopConn, CondConn, ListConn, MatchConn
  <2>3. Top.node.attrs \in EdgeAttrs /\ Top.node.start \in Expr /\ Top.node.end \in Expr
    BY <2>2 DEF ListConn
  <2>4. CASE RangeError # "none"
    BY <1>5, <2>4 DEF ConnectList
  <2>5. CASE RangeError = "none"
    <3> DEFINE first == Eval(params, Top.node.start)
               count == Eval(params, Top.node.end) - first
               stack(k) == Enter(params, Top.node.var, first + k - 1)
               named == [k \in 1..count |-> FullName(stack(k), Top.node.nodes)]
    <3>1. \/ UNCHANGED wiring
          \/ ConnectNamed(Top.node.kind, named, Top.node.attrs)
      BY <1>5, <2>5 DEF ConnectList
    <3>2. DOMAIN named = 1..count
      OBVIOUS
    <3>3. count \in Nat
      <4>1. /\ Evaluates(params, Top.node.start) /\ Evaluates(params, Top.node.end)
            /\ ~(Eval(params, Top.node.start) > Eval(params, Top.node.end))
        BY <2>5 DEF RangeError
      <4>2. Eval(params, Top.node.start) \in Int /\ Eval(params, Top.node.end) \in Int
        BY <2>1, <2>3, <4>1, ValueOfParam
      <4>. QED
        BY <4>1, <4>2
    <3> HIDE DEF named, count
    <3>. QED
      BY <2>1, <2>3, <3>1, <3>2, <3>3 DEF Operates, Connects
  <2>. QED
    BY <2>4, <2>5
<1>6. CASE ConnectMatch
  <2>1. Top.kind = "conn" /\ Top.node.kind = "match" /\ FrameOK(Top)
    BY <1>6, Ready DEF ConnectMatch
  <2>2. Top.node.attrs \in EdgeAttrs
    BY <2>1, Arguments DEF PlainConn, LoopConn, CondConn, ListConn, MatchConn
  <2>. QED
    BY <1>6, <2>2 DEF ConnectMatch, Operates, Connects
<1>7. CASE Wire
  BY <1>7 DEF Wire, Operates, Connects
<1>8. CASE \/ FindRoot \/ EnterParam \/ ExpandRoot \/ ExpandDone
           \/ GatesMade \/ NextSub \/ NextConn \/ ModuleDone
           \/ ChooseSub \/ SubStart \/ SubSize \/ NextElement \/ ElementDone \/ SubDone
           \/ ChooseConn \/ OpenLoop \/ NextRound \/ RoundDone \/ LoopDone
  BY <1>8
  DEF FindRoot, EnterParam, ExpandRoot, ExpandDone, GatesMade, NextSub, NextConn, ModuleDone,
      ChooseSub, SubStart, SubSize, NextElement, ElementDone, SubDone,
      ChooseConn, Choose, OpenLoop, NextRound, RoundDone, LoopDone
<1>. QED
  BY <1>1, <1>2, <1>3, <1>4, <1>5, <1>6, <1>7, <1>8 DEF ExpandNext

----------------------------------------------------------------------------
(* The handing over, seen from the graph "old" at its beginning. *)

(* The node that v hands its entries to, 0 for none. *)
Follows(old, v) == IF old[v].type = "REPLACED_T" THEN FindNode(old, old[v].name) ELSE 0

Handed(old, n, v) == v < n /\ Follows(old, v) # 0

(* The node that has v's edges when the loop is at node n. *)
Cur(old, n, v) == IF Handed(old, n, v) THEN Follows(old, v) ELSE v

(* A node whose edges count: it is there, or has not handed over yet. *)
Open(old, n, v) == v \in DOMAIN old /\ ~Handed(old, n, v) /\ ~Gone(old[v])

Merged(old, n, x, y) ==
  \E v, w \in DOMAIN old : Cur(old, n, v) = x /\ Cur(old, n, w) = y /\ AreAdjacent(old, v, w)

MergedBy(old, n, x, y, attrs) ==
  \E v, w \in DOMAIN old :
     Cur(old, n, v) = x /\ Cur(old, n, w) = y /\ attrs \in Between(old, v, w)

(* What becomes of the nodes themselves. *)
Kept(old, gr, n) ==
  /\ DOMAIN gr = DOMAIN old
  /\ \A v \in DOMAIN old : Handed(old, n, v) => Gone(gr[v])
  /\ \A v \in DOMAIN old : ~Handed(old, n, v) =>
       /\ gr[v].name = old[v].name
       /\ gr[v].type = IF v < n /\ old[v].type = "REPLACED_T" THEN "REPLACED" ELSE old[v].type

(* Between two nodes of the loop the entries are those of the merged edges. *)
Settled(old, gr, n) ==
  /\ \A x \in DOMAIN gr : \A k \in DOMAIN gr[x].adj :
       Open(old, n, x) /\ Open(old, n, gr[x].adj[k].n) =>
         MergedBy(old, n, x, gr[x].adj[k].n, gr[x].adj[k].attrs)
  /\ \A x, y \in DOMAIN gr :
       Open(old, n, x) /\ Open(old, n, y) /\ Merged(old, n, x, y) => AreAdjacent(gr, x, y)

Into(i, s, v) == IF v = i THEN s ELSE v

(* w has an entry in i's list that is still to be handed over. *)
Ahead(gr, i, j, w) == \E k \in DOMAIN gr[i].adj : k >= j /\ gr[i].adj[k].n = w

(* While node i hands its entries to s, before the j-th: what the entries will
   stand for is merged already; an edge of i is ahead in its list or is one of s
   from both sides; no entry behind leads back to i; and whoever is ahead has
   an entry for i, or already for s. *)
Moving(old, gr, i, s, j) ==
  /\ \A x \in DOMAIN gr : \A k \in DOMAIN gr[x].adj :
       Open(old, i, x) /\ Open(old, i, gr[x].adj[k].n) /\ (x = i => k >= j) =>
         MergedBy(old, i + 1, Into(i, s, x), Into(i, s, gr[x].adj[k].n), gr[x].adj[k].attrs)
  /\ \A x, y \in DOMAIN gr :
       Open(old, i, x) /\ Open(old, i, y) /\ x # i /\ y # i /\ Merged(old, i, x, y) =>
         AreAdjacent(gr, x, y)
  /\ \A w \in DOMAIN gr :
       Open(old, i, w) /\ Merged(old, i, i, w) =>
         \/ Ahead(gr, i, j, w)
         \/ AreAdjacent(gr, s, Into(i, s, w)) /\ AreAdjacent(gr, Into(i, s, w), s)
  /\ \A k \in DOMAIN gr[i].adj : k < j => gr[i].adj[k].n # i
  /\ \A w \in DOMAIN gr :
       Open(old, i, w) /\ w # i /\ Ahead(gr, i, j, w) =>
         AreAdjacent(gr, w, i) \/ AreAdjacent(gr, w, s)

(* Where no list named a neighbour twice to begin with, nor one that was gone,
   each entry of a list stands for an edge of the old graph, no two for the
   same.  G names it. *)
Stands(old, n, edge, x, y) ==
  /\ edge[1] \in DOMAIN old /\ edge[2] \in DOMAIN old /\ AreAdjacent(old, edge[1], edge[2])
  /\ Cur(old, n, edge[1]) = x /\ Cur(old, n, edge[2]) = y

Tracings(old) == [DOMAIN old -> [Nat -> Nat \X Nat]]

Apart(list, F) == \A k, l \in DOMAIN list : F[k] = F[l] => k = l

Traced(old, gr, n, G) ==
  \A x \in DOMAIN gr : Open(old, n, x) =>
    /\ \A k \in DOMAIN gr[x].adj : Stands(old, n, G[x][k], x, gr[x].adj[k].n)
    /\ Apart(gr[x].adj, G[x])

(* What s has taken over from i are edges that i's list has behind. *)
TracedOn(old, gr, i, s, j, G) ==
  /\ \A x \in DOMAIN gr : Open(old, i, x) =>
       /\ \A k \in DOMAIN gr[x].adj :
            Stands(old, i + 1, G[x][k], Into(i, s, x), Into(i, s, gr[x].adj[k].n))
       /\ Apart(gr[x].adj, G[x])
  /\ \A k \in DOMAIN gr[i].adj : G[i][k][1] = i
  /\ \A k \in DOMAIN gr[s].adj :
       G[s][k][1] = i => \E m \in DOMAIN gr[i].adj : m < j /\ G[s][k] = G[i][m]

(* Nobody who counts leads to one who does not. *)
Within(old, gr, n) ==
  \A x \in DOMAIN gr : Open(old, n, x) =>
    \A k \in DOMAIN gr[x].adj : Open(old, n, gr[x].adj[k].n)

(* Only of a node that may have taken entries over are there two entries. *)
Single(old, gr, n) ==
  \A x \in DOMAIN gr : Open(old, n, x) =>
    \A k, l \in DOMAIN gr[x].adj :
      gr[x].adj[k].n = gr[x].adj[l].n /\ k # l => Live(old[gr[x].adj[k].n])

(* Who still leads to i is still ahead in its list. *)
Awaited(old, gr, i, j) ==
  \A x \in DOMAIN gr : Open(old, i, x) /\ x # i /\ AreAdjacent(gr, x, i) => Ahead(gr, i, j, x)

Clean(old, gr, i, s, j) ==
  /\ Within(old, gr, i) /\ Single(old, gr, i)
  /\ s = 0 => \E G \in Tracings(old) : Traced(old, gr, i, G)
  /\ s # 0 => Awaited(old, gr, i, j) /\ \E G \in Tracings(old) : TracedOn(old, gr, i, s, j, G)

HandsOver(gr, jb) ==
  /\ IsGraph(jb.before) /\ BothWays(jb.before) /\ MarkedNamed(jb.before)
  /\ Kept(jb.before, gr, jb.i)
  /\ jb.i \in 1..Len(gr) + 1
  /\ jb.node = 0 => Settled(jb.before, gr, jb.i)
  /\ jb.node # 0 =>
       /\ jb.i \in DOMAIN gr /\ jb.node = Follows(jb.before, jb.i)
       /\ Moving(jb.before, gr, jb.i, jb.node, jb.j)
  /\ NoParallel(jb.before) /\ NoneStale(jb.before) =>
       Clean(jb.before, gr, jb.i, jb.node, jb.j)

(* The inductive invariant. *)
RInv ==
  /\ IsGraph(g)
  /\ job \in {Idle} \cup GateJob \cup WireJob \cup HandOverJob
  /\ JobInRange
  /\ job \notin HandOverJob => BothWays(g) /\ MarkedNamed(g)
  /\ job \in HandOverJob => HandsOver(g, job)

----------------------------------------------------------------------------
LEMMA FollowsNode ==
  ASSUME NEW old, IsGraph(old), NEW v \in DOMAIN old, Follows(old, v) # 0
  PROVE  LET s == Follows(old, v)
         IN  /\ s \in DOMAIN old /\ s # v /\ Live(old[s]) /\ Follows(old, s) = 0
             /\ old[v].type = "REPLACED_T" /\ s = FindNode(old, old[v].name)
<1> DEFINE s == Follows(old, v)
<1>1. old[v].type = "REPLACED_T" /\ s = FindNode(old, old[v].name)
  BY DEF Follows
<1>2. s \in 0..Len(old) /\ Live(old[s]) /\ s # 0
  BY <1>1, FindNodeRange DEF IsGraph
<1> HIDE DEF s
<1>3. s \in DOMAIN old
  BY <1>2 DEF IsGraph
<1>4. s # v /\ Follows(old, s) = 0
  BY <1>1, <1>2 DEF Live, Follows
<1>. QED
  BY <1>1, <1>2, <1>3, <1>4 DEF s

(* Whoever takes entries over keeps its own. *)
LEMMA FollowerStays ==
  ASSUME NEW old, IsGraph(old), NEW v \in DOMAIN old, Follows(old, v) # 0, NEW n
  PROVE  /\ Open(old, n, Follows(old, v)) /\ Cur(old, n, Follows(old, v)) = Follows(old, v)
         /\ v \in Nat => Open(old, v, v)
<1>1. LET s == Follows(old, v)
      IN  /\ s \in DOMAIN old /\ Live(old[s]) /\ Follows(old, s) = 0
          /\ old[v].type = "REPLACED_T"
  BY FollowsNode
<1>2. v \in Nat => ~(v < v)
  OBVIOUS
<1>. QED
  BY <1>1, <1>2 DEF Open, Cur, Handed, Gone, Live

LEMMA CurOfOpen ==
  ASSUME NEW old, NEW n, NEW v, Open(old, n, v)
  PROVE  Cur(old, n, v) = v
BY DEF Open, Cur

(* Where a node has a successor, the loop's step hands its edges on. *)
LEMMA StepWithSuccessor ==
  ASSUME NEW old, IsGraph(old), NEW i \in DOMAIN old, Follows(old, i) # 0
  PROVE  /\ \A v \in DOMAIN old :
              Cur(old, i + 1, v) = Into(i, Follows(old, i), Cur(old, i, v))
         /\ \A v : Open(old, i + 1, v) <=> Open(old, i, v) /\ v # i
         /\ \A v \in DOMAIN old : Handed(old, i + 1, v) <=> Handed(old, i, v) \/ v = i
<1>1. \A v \in DOMAIN old : v \in Nat /\ (v < i + 1 <=> v < i \/ v = i)
  BY DEF IsGraph
<1>2. \A v \in DOMAIN old : Handed(old, i + 1, v) <=> Handed(old, i, v) \/ v = i
  BY <1>1 DEF Handed
<1>3. ~Handed(old, i, i)
  BY <1>1 DEF Handed
<1>4. ASSUME NEW v \in DOMAIN old
      PROVE  Cur(old, i + 1, v) = Into(i, Follows(old, i), Cur(old, i, v))
  <2>1. CASE v = i
    BY <1>2, <1>3, <2>1 DEF Cur, Into
  <2>2. CASE v # i /\ Handed(old, i, v)
    <3>1. Follows(old, v) # i
      <4>1. Follows(old, v) # 0
        BY <2>2 DEF Handed
      <4>. QED
        BY <4>1, FollowsNode
    <3>. QED
      BY <1>2, <2>2, <3>1 DEF Cur, Into
  <2>3. CASE v # i /\ ~Handed(old, i, v)
    BY <1>2, <2>3 DEF Cur, Into
  <2>. QED
    BY <2>1, <2>2, <2>3
<1>5. \A v : Open(old, i + 1, v) <=> Open(old, i, v) /\ v # i
  BY <1>2 DEF Open
<1>. QED
  BY <1>2, <1>4, <1>5

LEMMA StepWithoutSuccessor ==
  ASSUME NEW old, IsGraph(old), NEW i \in DOMAIN old, Follows(old, i) = 0
  PROVE  /\ \A v \in DOMAIN old : Handed(old, i + 1, v) <=> Handed(old, i, v)
         /\ \A v \in DOMAIN old : Cur(old, i + 1, v) = Cur(old, i, v)
         /\ \A v : Open(old, i + 1, v) <=> Open(old, i, v)
         /\ \A x, y : Merged(old, i + 1, x, y) <=> Merged(old, i, x, y)
         /\ \A x, y, t : MergedBy(old, i + 1, x, y, t) <=> MergedBy(old, i, x, y, t)
<1>1. \A v \in DOMAIN old : v \in Nat /\ (v < i + 1 <=> v < i \/ v = i)
  BY DEF IsGraph
<1>2. \A v \in DOMAIN old : Handed(old, i + 1, v) <=> Handed(old, i, v)
  BY <1>1 DEF Handed
<1>3. \A v \in DOMAIN old : Cur(old, i + 1, v) = Cur(old, i, v)
  BY <1>2 DEF Cur
<1>4. \A v : Open(old, i + 1, v) <=> Open(old, i, v)
  BY <1>2 DEF Open
<1>5. \A x, y : Merged(old, i + 1, x, y) <=> Merged(old, i, x, y)
  BY <1>3 DEF Merged
<1>6. \A x, y, t : MergedBy(old, i + 1, x, y, t) <=> MergedBy(old, i, x, y, t)
  BY <1>3 DEF MergedBy
<1>. QED
  BY <1>2, <1>3, <1>4, <1>5, <1>6

(* What is merged before the step is merged after it, and conversely. *)
LEMMA MergedAfter ==
  ASSUME NEW old, IsGraph(old), NEW i \in DOMAIN old, NEW s, s = Follows(old, i), s # 0
  PROVE  /\ \A x, y, t : MergedBy(old, i, x, y, t) =>
                           MergedBy(old, i + 1, Into(i, s, x), Into(i, s, y), t)
         /\ \A x, y : Merged(old, i + 1, x, y) =>
              \E p, q : Into(i, s, p) = x /\ Into(i, s, q) = y /\ Merged(old, i, p, q)
<1>1. \A v \in DOMAIN old : Cur(old, i + 1, v) = Into(i, s, Cur(old, i, v))
  BY StepWithSuccessor
<1>2. ASSUME NEW x, NEW y, NEW t, MergedBy(old, i, x, y, t)
      PROVE  MergedBy(old, i + 1, Into(i, s, x), Into(i, s, y), t)
  BY <1>1, <1>2 DEF MergedBy
<1>3. ASSUME NEW x, NEW y, Merged(old, i + 1, x, y)
      PROVE  \E p, q : Into(i, s, p) = x /\ Into(i, s, q) = y /\ Merged(old, i, p, q)
  BY <1>1, <1>3 DEF Merged
<1>. QED
  BY <1>2, <1>3

LEMMA MergedBySome ==
  ASSUME NEW old, NEW n, NEW x, NEW y, NEW t, MergedBy(old, n, x, y, t)
  PROVE  Merged(old, n, x, y)
BY DEF MergedBy, Merged, Between, AreAdjacent

LEMMA MergedBothWays ==
  ASSUME NEW old, BothWays(old), NEW n, NEW x, NEW y,
         Open(old, n, x), Open(old, n, y), Merged(old, n, x, y)
  PROVE  Merged(old, n, y, x)
<1>1. PICK v \in DOMAIN old, w \in DOMAIN old :
        Cur(old, n, v) = x /\ Cur(old, n, w) = y /\ AreAdjacent(old, v, w)
  BY DEF Merged
<1>2. ASSUME NEW u \in DOMAIN old, Open(old, n, Cur(old, n, u))
      PROVE  ~Gone(old[u])
  <2>1. CASE Handed(old, n, u)
    BY <2>1 DEF Handed, Follows, Gone
  <2>2. CASE ~Handed(old, n, u)
    BY <1>2, <2>2 DEF Cur, Open
  <2>. QED
    BY <2>1, <2>2
<1>3. AreAdjacent(old, w, v)
  BY <1>1, <1>2 DEF BothWays
<1>. QED
  BY <1>1, <1>3 DEF Merged

----------------------------------------------------------------------------
(* The nodes that are found while the loop runs are those found before it. *)
LEMMA FoundAsBefore ==
  ASSUME NEW old, IsGraph(old), NEW gr, NEW n, Kept(old, gr, n), NEW v \in DOMAIN old,
         ~Handed(old, n, v)
  PROVE  FindNode(gr, gr[v].name) = FindNode(old, old[v].name)
<1> DEFINE name == old[v].name
<1>1. DOMAIN gr = DOMAIN old /\ gr[v].name = name
  BY DEF Kept
<1> HIDE DEF name
<1>2. ASSUME NEW u \in DOMAIN old
      PROVE  gr[u].name = name /\ Live(gr[u]) <=> old[u].name = name /\ Live(old[u])
  <2>1. CASE Handed(old, n, u)
    <3>1. ~Live(old[u])
      BY <2>1 DEF Handed, Follows, Live
    <3>2. ~Live(gr[u])
      BY <2>1 DEF Kept, Gone, Live
    <3>. QED
      BY <3>1, <3>2
  <2>2. CASE ~Handed(old, n, u)
    <3>1. /\ gr[u].name = old[u].name
          /\ gr[u].type = IF u < n /\ old[u].type = "REPLACED_T" THEN "REPLACED" ELSE old[u].type
      BY <2>2 DEF Kept
    <3>2. Live(gr[u]) <=> Live(old[u])
      BY <3>1 DEF Live
    <3>. QED
      BY <3>1, <3>2
  <2>. QED
    BY <2>1, <2>2
<1>3. {u \in DOMAIN gr : gr[u].name = name /\ Live(gr[u])}
        = {u \in DOMAIN old : old[u].name = name /\ Live(old[u])}
  BY <1>1, <1>2
<1>4. FindNode(gr, name) = FindNode(old, name)
  BY <1>3 DEF FindNode
<1>. QED
  BY <1>1, <1>4 DEF name

LEMMA KeptNamed ==
  ASSUME NEW old, MarkedNamed(old), NEW gr, NEW n, Kept(old, gr, n)
  PROVE  MarkedNamed(gr)
<1>1. SUFFICES ASSUME NEW v \in DOMAIN old, gr[v].type = "REPLACED_T" PROVE gr[v].name # <<>>
  BY DEF MarkedNamed, Kept
<1>2. ~Handed(old, n, v)
  BY <1>1 DEF Kept, Gone
<1>. QED
  BY <1>1, <1>2 DEF Kept, MarkedNamed

(* do_replace begins. *)
LEMMA CleanBegins ==
  ASSUME NEW gr, IsGraph(gr), NoParallel(gr), NoneStale(gr), NEW j
  PROVE  Clean(gr, gr, 1, 0, j)
<1> DEFINE G == [x \in DOMAIN gr |->
                   [k \in Nat |-> IF k \in DOMAIN gr[x].adj THEN <<x, gr[x].adj[k].n>> ELSE <<0, 0>>]]
<1>1. \A v \in DOMAIN gr : v \in Nat /\ ~Handed(gr, 1, v)
  BY DEF IsGraph, Handed
<1>2. \A x \in DOMAIN gr : \A k \in DOMAIN gr[x].adj : k \in Nat /\ gr[x].adj[k].n \in DOMAIN gr
  BY NodeFields DEF IsGraph
<1>3. Within(gr, gr, 1)
  <2>1. ASSUME NEW x \in DOMAIN gr, Open(gr, 1, x), NEW k \in DOMAIN gr[x].adj
        PROVE  Open(gr, 1, gr[x].adj[k].n)
    <3>1. ~Gone(gr[x])
      BY <2>1 DEF Open
    <3>2. gr[x].adj[k].n \in Neighbours(gr, x)
      BY DEF Neighbours
    <3>3. ~Gone(gr[gr[x].adj[k].n])
      BY <3>1, <3>2 DEF NoneStale
    <3>. QED
      BY <1>1, <1>2, <3>3 DEF Open
  <2>. QED
    BY <2>1 DEF Within
<1>4. Single(gr, gr, 1)
  BY DEF Single, NoParallel
<1>5. ASSUME NEW x \in DOMAIN gr, NEW k \in DOMAIN gr[x].adj
      PROVE  G[x][k] = <<x, gr[x].adj[k].n>>
  BY <1>2
<1>6. G \in Tracings(gr)
  <2>1. ASSUME NEW x \in DOMAIN gr, NEW k \in Nat
        PROVE  (IF k \in DOMAIN gr[x].adj THEN <<x, gr[x].adj[k].n>> ELSE <<0, 0>>) \in Nat \X Nat
    <3>1. CASE k \in DOMAIN gr[x].adj
      BY <1>1, <1>2, <3>1
    <3>2. CASE k \notin DOMAIN gr[x].adj
      BY <3>2
    <3>. QED
      BY <3>1, <3>2
  <2>. QED
    BY <2>1 DEF Tracings
<1> HIDE DEF G
<1>7. Traced(gr, gr, 1, G)
  <2>1. ASSUME NEW x \in DOMAIN gr, NEW k \in DOMAIN gr[x].adj
        PROVE  Stands(gr, 1, G[x][k], x, gr[x].adj[k].n)
    <3>1. G[x][k][1] = x /\ G[x][k][2] = gr[x].adj[k].n /\ gr[x].adj[k].n \in DOMAIN gr
      BY <1>2, <1>5
    <3>2. AreAdjacent(gr, x, gr[x].adj[k].n)
      BY DEF AreAdjacent
    <3>3. Cur(gr, 1, x) = x /\ Cur(gr, 1, gr[x].adj[k].n) = gr[x].adj[k].n
      BY <1>1, <3>1 DEF Cur
    <3>. QED
      BY <3>1, <3>2, <3>3 DEF Stands
  <2>2. ASSUME NEW x \in DOMAIN gr, NEW k \in DOMAIN gr[x].adj, NEW l \in DOMAIN gr[x].adj,
               G[x][k] = G[x][l]
        PROVE  k = l
    <3>1. gr[x].adj[k].n = gr[x].adj[l].n
      BY <1>5, <2>2
    <3>. QED
      BY <3>1 DEF NoParallel
  <2>. QED
    BY <2>1, <2>2 DEF Traced, Apart
<1>. QED
  BY <1>3, <1>4, <1>6, <1>7 DEF Clean

LEMMA HandOverBegins ==
  ASSUME NEW gr, IsGraph(gr), BothWays(gr), MarkedNamed(gr)
  PROVE  HandsOver(gr, [kind |-> "handover", i |-> 1, j |-> 1, node |-> 0, before |-> gr])
<1> DEFINE jb == [kind |-> "handover", i |-> 1, j |-> 1, node |-> 0, before |-> gr]
<1>1. jb.i = 1 /\ jb.node = 0 /\ jb.before = gr
  OBVIOUS
<1> HIDE DEF jb
<1>2. \A v \in DOMAIN gr : ~Handed(gr, 1, v)
  BY DEF IsGraph, Handed
<1>3. Kept(gr, gr, 1)
  BY <1>2 DEF Kept, IsGraph
<1>4. 1 \in 1..Len(gr) + 1
  BY DEF IsGraph
<1>5. \A v \in DOMAIN gr : Cur(gr, 1, v) = v
  BY <1>2 DEF Cur
<1>6. Settled(gr, gr, 1)
  <2>1. ASSUME NEW x \in DOMAIN gr, NEW k \in DOMAIN gr[x].adj
        PROVE  MergedBy(gr, 1, x, gr[x].adj[k].n, gr[x].adj[k].attrs)
    <3>1. gr[x].adj[k].n \in DOMAIN gr
      BY DEF IsGraph
    <3>2. gr[x].adj[k].attrs \in Between(gr, x, gr[x].adj[k].n)
      BY DEF Between
    <3>. QED
      BY <1>5, <3>1, <3>2 DEF MergedBy
  <2>2. ASSUME NEW x \in DOMAIN gr, NEW y \in DOMAIN gr, Merged(gr, 1, x, y)
        PROVE  AreAdjacent(gr, x, y)
    BY <1>5, <2>2 DEF Merged
  <2>. QED
    BY <2>1, <2>2 DEF Settled
<1>7. NoParallel(gr) /\ NoneStale(gr) => Clean(gr, gr, 1, 0, 1)
  BY CleanBegins
<1>8. jb.j = 1
  BY DEF jb
<1>. QED
  BY <1>1, <1>3, <1>4, <1>6, <1>7, <1>8 DEF HandsOver, jb

(* A node that has no successor, or is not marked, is passed. *)
LEMMA Passed ==
  ASSUME NEW old, IsGraph(old), NEW gr, IsGraph(gr), NEW i \in DOMAIN gr,
         Kept(old, gr, i), Settled(old, gr, i),
         NEW h, h = IF gr[i].type = "REPLACED_T" THEN [gr EXCEPT ![i].type = "REPLACED"] ELSE gr,
         gr[i].type # "REPLACED_T" \/ FindNode(gr, gr[i].name) = 0
  PROVE  /\ IsGraph(h) /\ Len(h) = Len(gr) /\ Kept(old, h, i + 1) /\ Settled(old, h, i + 1)
         /\ Follows(old, i) = 0 /\ DOMAIN h = DOMAIN gr
         /\ \A v \in DOMAIN gr : h[v].adj = gr[v].adj
<1>1. i \in DOMAIN old /\ DOMAIN gr = DOMAIN old /\ ~Handed(old, i, i)
  BY DEF Kept, Handed, IsGraph
<1>2. gr[i].name = old[i].name /\ gr[i].type = old[i].type
  BY <1>1 DEF Kept, IsGraph
<1>3. Follows(old, i) = 0
  BY <1>1, <1>2, FoundAsBefore DEF Follows
<1>4. /\ IsGraph(h) /\ Len(h) = Len(gr) /\ DOMAIN h = DOMAIN gr
      /\ \A v \in DOMAIN gr : h[v].adj = gr[v].adj /\ h[v].name = gr[v].name
      /\ \A v \in DOMAIN gr : v # i => h[v] = gr[v]
      /\ h[i].type = IF gr[i].type = "REPLACED_T" THEN "REPLACED" ELSE gr[i].type
  <2>1. CASE gr[i].type # "REPLACED_T"
    BY <2>1
  <2>2. CASE gr[i].type = "REPLACED_T"
    <3> DEFINE node == [gr[i] EXCEPT !.type = "REPLACED"]
    <3>1. gr \in Seq(Node) /\ gr[i] \in Node
      BY DEF IsGraph
    <3>2. /\ node \in Node /\ node.adj = gr[i].adj /\ node.name = gr[i].name
          /\ node.type = "REPLACED"
      BY <3>1 DEF Node, NodeTypes
    <3>3. h = [gr EXCEPT ![i] = node]
      BY <2>2
    <3> HIDE DEF node
    <3>4. /\ h \in Seq(Node) /\ Len(h) = Len(gr) /\ DOMAIN h = DOMAIN gr
          /\ h[i] = node /\ \A v \in DOMAIN gr : v # i => h[v] = gr[v]
      BY <3>1, <3>2, <3>3
    <3>5. \A v \in DOMAIN gr : h[v].adj = gr[v].adj /\ h[v].name = gr[v].name
      BY <3>2, <3>4
    <3>6. IsGraph(h)
      BY <3>4, <3>5 DEF IsGraph
    <3>. QED
      BY <2>2, <3>2, <3>4, <3>5, <3>6
  <2>. QED
    BY <2>1, <2>2
<1>5. \A v \in DOMAIN old : v \in Nat /\ (v < i + 1 <=> v < i \/ v = i) /\ ~(i < i)
  BY <1>1 DEF IsGraph
<1>6. /\ \A v \in DOMAIN old : Handed(old, i + 1, v) <=> Handed(old, i, v)
      /\ \A v : Open(old, i + 1, v) <=> Open(old, i, v)
      /\ \A x, y : Merged(old, i + 1, x, y) <=> Merged(old, i, x, y)
      /\ \A x, y, t : MergedBy(old, i + 1, x, y, t) <=> MergedBy(old, i, x, y, t)
  BY <1>1, <1>3, StepWithoutSuccessor
<1>7. Kept(old, h, i + 1)
  <2>1. ASSUME NEW v \in DOMAIN old, Handed(old, i + 1, v) PROVE Gone(h[v])
    BY <1>1, <1>4, <1>6, <2>1 DEF Kept
  <2>2. ASSUME NEW v \in DOMAIN old, ~Handed(old, i + 1, v)
        PROVE  /\ h[v].name = old[v].name
               /\ h[v].type = IF v < i + 1 /\ old[v].type = "REPLACED_T" THEN "REPLACED"
                              ELSE old[v].type
    <3>1. CASE v = i
      BY <1>1, <1>2, <1>4, <1>5, <3>1
    <3>2. CASE v # i
      BY <1>1, <1>4, <1>5, <1>6, <2>2, <3>2 DEF Kept
    <3>. QED
      BY <3>1, <3>2
  <2>. QED
    BY <1>1, <1>4, <2>1, <2>2 DEF Kept
<1>8. Settled(old, h, i + 1)
  <2>1. ASSUME NEW x \in DOMAIN h, NEW k \in DOMAIN h[x].adj,
               Open(old, i + 1, x), Open(old, i + 1, h[x].adj[k].n)
        PROVE  MergedBy(old, i + 1, x, h[x].adj[k].n, h[x].adj[k].attrs)
    BY <1>4, <1>6, <2>1 DEF Settled
  <2>2. ASSUME NEW x \in DOMAIN h, NEW y \in DOMAIN h,
               Open(old, i + 1, x), Open(old, i + 1, y), Merged(old, i + 1, x, y)
        PROVE  AreAdjacent(h, x, y)
    BY <1>4, <1>6, <2>2 DEF Settled, AreAdjacent
  <2>. QED
    BY <2>1, <2>2 DEF Settled
<1>. QED
  BY <1>3, <1>4, <1>7, <1>8

(* A node that has one comes to be in hand. *)
LEMMA TakenInHand ==
  ASSUME NEW old, IsGraph(old), BothWays(old), NEW gr, IsGraph(gr), NEW i \in DOMAIN gr,
         Kept(old, gr, i), Settled(old, gr, i),
         gr[i].type = "REPLACED_T", NEW s, s = FindNode(gr, gr[i].name), s # 0
  PROVE  s = Follows(old, i) /\ Moving(old, gr, i, s, 1)
<1>1. i \in DOMAIN old /\ DOMAIN gr = DOMAIN old /\ ~Handed(old, i, i)
  BY DEF Kept, Handed, IsGraph
<1>2. gr[i].name = old[i].name /\ gr[i].type = old[i].type
  BY <1>1 DEF Kept, IsGraph
<1>3. s = Follows(old, i)
  BY <1>1, <1>2, FoundAsBefore DEF Follows
<1>4. Open(old, i, i)
  BY <1>1, <1>3, FollowerStays DEF IsGraph
<1>5. \A x \in DOMAIN gr : DOMAIN gr[x].adj \subseteq Nat \ {0}
  BY NodeFields
<1>6. ASSUME NEW x \in DOMAIN gr, NEW k \in DOMAIN gr[x].adj,
             Open(old, i, x), Open(old, i, gr[x].adj[k].n)
      PROVE  MergedBy(old, i + 1, Into(i, s, x), Into(i, s, gr[x].adj[k].n), gr[x].adj[k].attrs)
  <2>1. MergedBy(old, i, x, gr[x].adj[k].n, gr[x].adj[k].attrs)
    BY <1>6 DEF Settled
  <2>. QED
    BY <1>1, <1>3, <2>1, MergedAfter
<1>7. ASSUME NEW w \in DOMAIN gr, Open(old, i, w), Merged(old, i, i, w)
      PROVE  Ahead(gr, i, 1, w)
  <2>1. PICK k \in DOMAIN gr[i].adj : gr[i].adj[k].n = w
    BY <1>4, <1>7 DEF Settled, AreAdjacent
  <2>2. k >= 1
    BY <1>5
  <2>. QED
    BY <2>1, <2>2 DEF Ahead
<1>8. \A k \in DOMAIN gr[i].adj : ~(k < 1)
  BY <1>5
<1>9. ASSUME NEW w \in DOMAIN gr, Open(old, i, w), Ahead(gr, i, 1, w)
      PROVE  AreAdjacent(gr, w, i)
  <2>1. PICK k \in DOMAIN gr[i].adj : gr[i].adj[k].n = w
    BY <1>9 DEF Ahead
  <2>2. Merged(old, i, i, w)
    BY <1>4, <1>9, <2>1, MergedBySome DEF Settled
  <2>3. Merged(old, i, w, i)
    BY <1>4, <1>9, <2>2, MergedBothWays
  <2>. QED
    BY <1>4, <1>9, <2>3 DEF Settled
<1>10. \A x, y \in DOMAIN gr :
         Open(old, i, x) /\ Open(old, i, y) /\ x # i /\ y # i /\ Merged(old, i, x, y) =>
           AreAdjacent(gr, x, y)
  BY DEF Settled
<1>11. Moving(old, gr, i, s, 1)
  BY <1>6, <1>7, <1>8, <1>9, <1>10 DEF Moving
<1>. QED
  BY <1>3, <1>11

----------------------------------------------------------------------------
(* One entry of v's list is turned from i to s: the first. *)
TurnedAt(gr, h, v, i, s, m) ==
  /\ m \in DOMAIN gr[v].adj /\ gr[v].adj[m].n = i
  /\ \A k \in DOMAIN gr[v].adj : gr[v].adj[k].n = i => m <= k
  /\ IsGraph(h) /\ Len(h) = Len(gr) /\ DOMAIN h = DOMAIN gr
  /\ \A u \in DOMAIN gr :
       h[u].name = gr[u].name /\ h[u].type = gr[u].type /\ DOMAIN h[u].adj = DOMAIN gr[u].adj
  /\ \A u \in DOMAIN gr : \A k \in DOMAIN gr[u].adj :
       u # v \/ k # m => h[u].adj[k] = gr[u].adj[k]
  /\ h[v].adj[m].n = s /\ h[v].adj[m].attrs = gr[v].adj[m].attrs

LEMMA RedirectedEffect ==
  ASSUME NEW gr, IsGraph(gr), NEW v \in DOMAIN gr, NEW i, NEW s \in DOMAIN gr
  PROVE  LET h == Redirected(gr, v, i, s)
         IN  \/ h = gr /\ ~AreAdjacent(gr, v, i)
             \/ \E m : TurnedAt(gr, h, v, i, s, m)
<1> DEFINE h == Redirected(gr, v, i, s)
           hits == {k \in DOMAIN gr[v].adj : gr[v].adj[k].n = i}
<1>1. CASE hits = {}
  BY <1>1 DEF Redirected, AreAdjacent
<1>2. CASE hits # {}
  <2> DEFINE m == Min(hits)
  <2>1. gr \in Seq(Node) /\ gr[v] \in Node /\ gr[v].adj \in Seq(Edge)
    BY NodeFields DEF IsGraph
  <2>2. hits \in SUBSET Nat
    BY <2>1
  <2>3. m \in DOMAIN gr[v].adj /\ gr[v].adj[m].n = i
        /\ \A k \in DOMAIN gr[v].adj : gr[v].adj[k].n = i => m <= k
    <3>1. m \in hits /\ \A k \in hits : m <= k
      BY <1>2, <2>2, MinIsLeast
    <3>. QED
      BY <3>1
  <2>4. h = [gr EXCEPT ![v].adj[m].n = s]
    BY <1>2 DEF Redirected
  <2> HIDE DEF m
  <2> DEFINE entry == [gr[v].adj[m] EXCEPT !.n = s]
             list == [gr[v].adj EXCEPT ![m] = entry]
             node == [gr[v] EXCEPT !.adj = list]
  <2>5. h = [gr EXCEPT ![v] = node]
    BY <2>4
  <2>6. s \in Nat \ {0}
    BY DEF IsGraph
  <2>7. entry \in Edge /\ entry.n = s /\ entry.attrs = gr[v].adj[m].attrs
    <3>1. gr[v].adj[m] \in Edge
      BY <2>1, <2>3
    <3>. QED
      BY <2>6, <3>1 DEF Edge
  <2> HIDE DEF entry
  <2>8. /\ list \in Seq(Edge) /\ DOMAIN list = DOMAIN gr[v].adj /\ list[m] = entry
        /\ \A k \in DOMAIN gr[v].adj : k # m => list[k] = gr[v].adj[k]
    BY <2>1, <2>3, <2>7
  <2> HIDE DEF list
  <2>9. node \in Node /\ node.adj = list /\ node.name = gr[v].name /\ node.type = gr[v].type
    BY <2>1, <2>8, NodeWithList
  <2> HIDE DEF node
  <2>10. /\ h \in Seq(Node) /\ Len(h) = Len(gr) /\ DOMAIN h = DOMAIN gr
         /\ h[v] = node /\ \A u \in DOMAIN gr : u # v => h[u] = gr[u]
    BY <2>1, <2>5, <2>9
  <2> HIDE DEF h
  <2>11. \A u \in DOMAIN gr :
           h[u].name = gr[u].name /\ h[u].type = gr[u].type /\ DOMAIN h[u].adj = DOMAIN gr[u].adj
    BY <2>8, <2>9, <2>10
  <2>12. \A u \in DOMAIN gr : \A k \in DOMAIN gr[u].adj :
           u # v \/ k # m => h[u].adj[k] = gr[u].adj[k]
    BY <2>8, <2>9, <2>10
  <2>13. h[v].adj[m].n = s /\ h[v].adj[m].attrs = gr[v].adj[m].attrs
    BY <2>7, <2>8, <2>9, <2>10
  <2>14. IsGraph(h)
    <3>1. ASSUME NEW u \in DOMAIN h, NEW k \in DOMAIN h[u].adj PROVE h[u].adj[k].n \in DOMAIN h
      <4>1. u \in DOMAIN gr /\ k \in DOMAIN gr[u].adj
        BY <2>10, <2>11
      <4>2. gr[u].adj[k].n \in DOMAIN gr
        BY <4>1 DEF IsGraph
      <4>. QED
        BY <2>10, <2>12, <2>13, <4>1, <4>2
    <3>. QED
      BY <2>10, <3>1 DEF IsGraph
  <2>15. TurnedAt(gr, h, v, i, s, m)
    BY <2>3, <2>10, <2>11, <2>12, <2>13, <2>14 DEF TurnedAt
  <2>. QED
    BY <2>15 DEF h
<1>. QED
  BY <1>1, <1>2

(* What node i does with its j-th entry, for its successor s. *)
HandedOn(gr, h, i, s, j) ==
  LET w == gr[i].adj[j].n
  IN  /\ IsGraph(h) /\ Len(h) = Len(gr) /\ DOMAIN h = DOMAIN gr
      /\ \A x \in DOMAIN gr : h[x].name = gr[x].name /\ h[x].type = gr[x].type
      /\ \A x \in DOMAIN gr : \A k \in DOMAIN h[x].adj :
           \/ k \in DOMAIN gr[x].adj /\ h[x].adj[k] = gr[x].adj[k]
           \/ /\ k \in DOMAIN gr[x].adj /\ gr[x].adj[k].n = i
              /\ h[x].adj[k].n = s /\ h[x].adj[k].attrs = gr[x].adj[k].attrs
           \/ /\ x = s /\ h[x].adj[k].n = Into(i, s, w)
              /\ h[x].adj[k].attrs = gr[i].adj[j].attrs
      /\ \A x \in DOMAIN gr : \A y : y # i /\ AreAdjacent(gr, x, y) => AreAdjacent(h, x, y)
      /\ \A x \in DOMAIN gr :
           AreAdjacent(gr, x, i) => AreAdjacent(h, x, i) \/ AreAdjacent(h, x, s)
      /\ AreAdjacent(gr, w, i) => AreAdjacent(h, w, s)
      /\ AreAdjacent(h, s, Into(i, s, w))
      /\ DOMAIN h[i].adj = DOMAIN gr[i].adj
      /\ \A k \in DOMAIN gr[i].adj : k # j => h[i].adj[k] = gr[i].adj[k]
      /\ h[i].adj[j].n = Into(i, s, w)

(* The neighbour's list, before the successor's is looked at. *)
Turned(gr, mid, i, s, j) ==
  LET w == gr[i].adj[j].n
  IN  /\ IsGraph(mid) /\ Len(mid) = Len(gr) /\ DOMAIN mid = DOMAIN gr
      /\ \A x \in DOMAIN gr : mid[x].name = gr[x].name /\ mid[x].type = gr[x].type
      /\ \A x \in DOMAIN gr : DOMAIN mid[x].adj = DOMAIN gr[x].adj
      /\ \A x \in DOMAIN gr : \A k \in DOMAIN gr[x].adj :
           \/ mid[x].adj[k] = gr[x].adj[k]
           \/ /\ gr[x].adj[k].n = i
              /\ mid[x].adj[k].n = s /\ mid[x].adj[k].attrs = gr[x].adj[k].attrs
      /\ AreAdjacent(gr, w, i) =>
           \E m \in DOMAIN gr[w].adj : gr[w].adj[m].n = i /\ mid[w].adj[m].n = s
      /\ \A k \in DOMAIN gr[i].adj : k # j => mid[i].adj[k] = gr[i].adj[k]
      /\ mid[i].adj[j].n = Into(i, s, w)
      /\ mid[i].adj[j].attrs = gr[i].adj[j].attrs

(* The entry is turned in the neighbour's list ... *)
LEMMA TurnedEffect ==
  ASSUME NEW gr, IsGraph(gr), NEW i \in DOMAIN gr, NEW s \in DOMAIN gr, s # i,
         NEW j \in DOMAIN gr[i].adj, \A k \in DOMAIN gr[i].adj : k < j => gr[i].adj[k].n # i,
         NEW mid, mid = Redirected(gr, gr[i].adj[j].n, i, s)
  PROVE  Turned(gr, mid, i, s, j)
<1> DEFINE w == gr[i].adj[j].n
<1>1. w \in DOMAIN gr
  BY DEF IsGraph
<1>2. \/ mid = gr /\ ~AreAdjacent(gr, w, i)
      \/ \E m : TurnedAt(gr, mid, w, i, s, m)
  BY <1>1, RedirectedEffect
<1>3. w = i => AreAdjacent(gr, w, i)
  BY DEF AreAdjacent
<1>4. CASE mid = gr /\ ~AreAdjacent(gr, w, i)
  BY <1>3, <1>4 DEF Into, Turned
<1>5. ASSUME NEW m, TurnedAt(gr, mid, w, i, s, m)
      PROVE  /\ w = i => m = j
             /\ \E n \in DOMAIN gr[w].adj : gr[w].adj[n].n = i /\ mid[w].adj[n].n = s
  <2>1. DOMAIN gr[i].adj \subseteq Nat
    BY NodeFields
  <2>2. w = i => m = j
    BY <1>5, <2>1 DEF TurnedAt
  <2>3. \E n \in DOMAIN gr[w].adj : gr[w].adj[n].n = i /\ mid[w].adj[n].n = s
    BY <1>1, <1>5 DEF TurnedAt
  <2>. QED
    BY <2>2, <2>3
<1>6. CASE \E m : TurnedAt(gr, mid, w, i, s, m)
  <2>1. PICK m : TurnedAt(gr, mid, w, i, s, m)
    BY <1>6
  <2>2. /\ w = i => m = j
        /\ \E n \in DOMAIN gr[w].adj : gr[w].adj[n].n = i /\ mid[w].adj[n].n = s
    BY <1>5, <2>1
  <2> HIDE DEF w
  <2>3. w = gr[i].adj[j].n
    BY DEF w
  <2>4. /\ IsGraph(mid) /\ Len(mid) = Len(gr) /\ DOMAIN mid = DOMAIN gr
        /\ \A x \in DOMAIN gr : mid[x].name = gr[x].name /\ mid[x].type = gr[x].type
        /\ \A x \in DOMAIN gr : DOMAIN mid[x].adj = DOMAIN gr[x].adj
    BY <2>1 DEF TurnedAt
  <2>5. ASSUME NEW x \in DOMAIN gr, NEW k \in DOMAIN gr[x].adj
        PROVE  \/ mid[x].adj[k] = gr[x].adj[k]
               \/ /\ gr[x].adj[k].n = i
                  /\ mid[x].adj[k].n = s /\ mid[x].adj[k].attrs = gr[x].adj[k].attrs
    <3>1. CASE x = w /\ k = m
      BY <2>1, <3>1 DEF TurnedAt
    <3>2. CASE x # w \/ k # m
      BY <2>1, <3>2 DEF TurnedAt
    <3>. QED
      BY <3>1, <3>2
  <2>6. \A k \in DOMAIN gr[i].adj : k # j => mid[i].adj[k] = gr[i].adj[k]
    BY <2>1, <2>2 DEF TurnedAt
  <2>7. mid[i].adj[j].n = Into(i, s, w) /\ mid[i].adj[j].attrs = gr[i].adj[j].attrs
    <3>1. CASE w = i
      BY <2>1, <2>2, <3>1 DEF TurnedAt, Into
    <3>2. CASE w # i
      <4>1. mid[i].adj[j] = gr[i].adj[j]
        BY <2>1, <3>2 DEF TurnedAt
      <4>. QED
        BY <2>3, <3>2, <4>1 DEF Into
    <3>. QED
      BY <3>1, <3>2
  <2>. QED
    BY <2>2, <2>4, <2>5, <2>6, <2>7 DEF w, Turned
<1>. QED
  BY <1>2, <1>4, <1>6

(* s has an entry for t, its last one if it had none. *)
Taker(mid, h, s, t, at) ==
  /\ IsGraph(h) /\ Len(h) = Len(mid) /\ DOMAIN h = DOMAIN mid
  /\ \A x \in DOMAIN mid : h[x].name = mid[x].name /\ h[x].type = mid[x].type
  /\ \A x \in DOMAIN mid : x # s => h[x] = mid[x]
  /\ \A k \in DOMAIN mid[s].adj : k \in DOMAIN h[s].adj /\ h[s].adj[k] = mid[s].adj[k]
  /\ \A k \in DOMAIN h[s].adj :
       k \in DOMAIN mid[s].adj \/ (h[s].adj[k].n = t /\ h[s].adj[k].attrs = at)
  /\ \A k, l \in DOMAIN h[s].adj :
       k \notin DOMAIN mid[s].adj /\ h[s].adj[l].n = t => l = k
  /\ AreAdjacent(h, s, t)

LEMMA TakesOverEffect ==
  ASSUME NEW mid, IsGraph(mid), NEW s \in DOMAIN mid, NEW entry \in Edge, entry.n \in DOMAIN mid
  PROVE  Taker(mid, TakesOver(mid, s, entry), s, entry.n, entry.attrs)
<1> DEFINE t == entry.n
           at == entry.attrs
           h == TakesOver(mid, s, entry)
           edge == [n |-> t, attrs |-> at]
<1>1. t \in DOMAIN mid /\ at \in EdgeAttrs
  BY DEF Edge
<1>2. CASE AreAdjacent(mid, s, t)
  <2>1. h = mid
    BY <1>2 DEF TakesOver
  <2>. QED
    BY <1>2, <2>1 DEF Taker
<1>3. CASE ~AreAdjacent(mid, s, t)
  <2>1. h = AddHalf(mid, s, t, at)
    BY <1>3 DEF TakesOver
  <2> HIDE DEF h, t, at
  <2>2. /\ IsGraph(h) /\ Len(h) = Len(mid) /\ DOMAIN h = DOMAIN mid
        /\ \A x \in DOMAIN mid : h[x].name = mid[x].name /\ h[x].type = mid[x].type
        /\ \A x \in DOMAIN mid : x # s => h[x] = mid[x]
        /\ h[s].adj = Append(mid[s].adj, edge)
    BY SMTT(30), <1>1, <2>1, AddHalfProperties
  <2>3. mid[s].adj \in Seq(Edge) /\ edge \in Edge /\ edge.n = t /\ edge.attrs = at
    <3>1. mid[s].adj \in Seq(Edge)
      BY NodeFields
    <3>2. t \in Nat \ {0}
      BY <1>1 DEF IsGraph
    <3>. QED
      BY <1>1, <3>1, <3>2 DEF Edge
  <2> HIDE DEF edge
  <2>4. /\ \A k \in DOMAIN mid[s].adj : k \in DOMAIN h[s].adj /\ h[s].adj[k] = mid[s].adj[k]
        /\ Len(mid[s].adj) + 1 \in DOMAIN h[s].adj
        /\ h[s].adj[Len(mid[s].adj) + 1] = edge
        /\ \A k \in DOMAIN h[s].adj : k \in DOMAIN mid[s].adj \/ k = Len(mid[s].adj) + 1
    BY <2>2, <2>3, AppendEntries
  <2>5. AreAdjacent(h, s, t)
    BY <2>3, <2>4 DEF AreAdjacent
  <2>6. \A k \in DOMAIN h[s].adj :
          k \in DOMAIN mid[s].adj \/ (h[s].adj[k].n = t /\ h[s].adj[k].attrs = at)
    BY <2>3, <2>4
  <2>7. ASSUME NEW k \in DOMAIN h[s].adj, NEW l \in DOMAIN h[s].adj,
               k \notin DOMAIN mid[s].adj, h[s].adj[l].n = t
        PROVE  l = k
    <3>1. l \notin DOMAIN mid[s].adj
      <4>1. SUFFICES ASSUME l \in DOMAIN mid[s].adj PROVE FALSE
        OBVIOUS
      <4>2. mid[s].adj[l].n = t
        BY <2>4, <2>7, <4>1
      <4>. QED
        BY <1>3, <4>1, <4>2 DEF AreAdjacent
    <3>. QED
      BY <2>4, <2>7, <3>1
  <2>8. Taker(mid, h, s, t, at)
    BY <2>2, <2>4, <2>5, <2>6, <2>7 DEF Taker
  <2>. QED
    BY <2>8 DEF h, t, at
<1>. QED
  BY <1>2, <1>3

(* ... and appended to the successor's, unless it is there. *)
LEMMA HandEntryEffect ==
  ASSUME NEW gr, IsGraph(gr), NEW i \in DOMAIN gr, NEW s \in DOMAIN gr, s # i,
         NEW j \in DOMAIN gr[i].adj, \A k \in DOMAIN gr[i].adj : k < j => gr[i].adj[k].n # i,
         NEW mid, mid = Redirected(gr, gr[i].adj[j].n, i, s),
         NEW h, h = TakesOver(mid, s, mid[i].adj[j])
  PROVE  HandedOn(gr, h, i, s, j)
<1> DEFINE w == gr[i].adj[j].n
           t == Into(i, s, w)
           at == gr[i].adj[j].attrs
<1>0. Turned(gr, mid, i, s, j)
  BY TurnedEffect
<1>1. /\ IsGraph(mid) /\ Len(mid) = Len(gr) /\ DOMAIN mid = DOMAIN gr
      /\ \A x \in DOMAIN gr : mid[x].name = gr[x].name /\ mid[x].type = gr[x].type
      /\ \A x \in DOMAIN gr : DOMAIN mid[x].adj = DOMAIN gr[x].adj
      /\ AreAdjacent(gr, w, i) =>
           \E m \in DOMAIN gr[w].adj : gr[w].adj[m].n = i /\ mid[w].adj[m].n = s
      /\ \A k \in DOMAIN gr[i].adj : k # j => mid[i].adj[k] = gr[i].adj[k]
      /\ mid[i].adj[j].n = t
      /\ mid[i].adj[j].attrs = at
  BY <1>0 DEF Turned
<1>2. \A x \in DOMAIN gr : \A k \in DOMAIN gr[x].adj :
        \/ mid[x].adj[k] = gr[x].adj[k]
        \/ /\ gr[x].adj[k].n = i
           /\ mid[x].adj[k].n = s /\ mid[x].adj[k].attrs = gr[x].adj[k].attrs
  BY <1>0 DEF Turned
<1>3. w \in DOMAIN gr /\ t \in DOMAIN gr
  BY DEF IsGraph, Into
<1> HIDE DEF t, at, w
<1>4. Taker(mid, h, s, t, at)
  <2>1. mid[i].adj[j] \in Edge
    <3>1. mid[i].adj \in Seq(Edge) /\ j \in DOMAIN mid[i].adj
      BY <1>1, NodeFields
    <3>. QED
      BY <3>1, ElementInList
  <2>2. Taker(mid, h, s, mid[i].adj[j].n, mid[i].adj[j].attrs)
    BY <1>1, <1>3, <2>1, TakesOverEffect
  <2>. QED
    BY <1>1, <2>2
<1>5. ASSUME NEW x \in DOMAIN gr, NEW k \in DOMAIN gr[x].adj
      PROVE  k \in DOMAIN h[x].adj /\ h[x].adj[k] = mid[x].adj[k]
  <2>1. x \in DOMAIN mid /\ k \in DOMAIN mid[x].adj
    BY <1>1
  <2>2. CASE x = s
    BY <1>4, <2>1, <2>2 DEF Taker
  <2>3. CASE x # s
    <3>1. h[x] = mid[x]
      BY <1>4, <2>1, <2>3 DEF Taker
    <3>. QED
      BY <2>1, <3>1
  <2>. QED
    BY <2>2, <2>3
<1>6. ASSUME NEW x \in DOMAIN gr, NEW k \in DOMAIN h[x].adj
      PROVE  \/ k \in DOMAIN gr[x].adj
             \/ x = s /\ h[x].adj[k].n = t /\ h[x].adj[k].attrs = at
  <2>1. x \in DOMAIN mid /\ DOMAIN mid[x].adj = DOMAIN gr[x].adj
    BY <1>1
  <2>2. CASE x = s
    BY <1>4, <2>1, <2>2 DEF Taker
  <2>3. CASE x # s
    <3>1. h[x] = mid[x]
      BY <1>4, <2>1, <2>3 DEF Taker
    <3>. QED
      BY <2>1, <3>1
  <2>. QED
    BY <2>2, <2>3
<1>7. ASSUME NEW x \in DOMAIN gr, NEW k \in DOMAIN h[x].adj
      PROVE  \/ k \in DOMAIN gr[x].adj /\ h[x].adj[k] = gr[x].adj[k]
             \/ /\ k \in DOMAIN gr[x].adj /\ gr[x].adj[k].n = i
                /\ h[x].adj[k].n = s /\ h[x].adj[k].attrs = gr[x].adj[k].attrs
             \/ x = s /\ h[x].adj[k].n = t /\ h[x].adj[k].attrs = at
  <2>1. CASE k \in DOMAIN gr[x].adj
    <3>1. h[x].adj[k] = mid[x].adj[k]
      BY <1>5, <2>1
    <3>2. \/ mid[x].adj[k] = gr[x].adj[k]
          \/ /\ gr[x].adj[k].n = i
             /\ mid[x].adj[k].n = s /\ mid[x].adj[k].attrs = gr[x].adj[k].attrs
      BY <1>2, <2>1
    <3>. QED
      BY <2>1, <3>1, <3>2
  <2>2. CASE k \notin DOMAIN gr[x].adj
    BY <1>6, <2>2
  <2>. QED
    BY <2>1, <2>2
<1>8. ASSUME NEW x \in DOMAIN gr, NEW y, y # i, AreAdjacent(gr, x, y)
      PROVE  AreAdjacent(h, x, y)
  <2>1. PICK k \in DOMAIN gr[x].adj : gr[x].adj[k].n = y
    BY <1>8 DEF AreAdjacent
  <2>2. mid[x].adj[k] = gr[x].adj[k]
    BY <1>2, <1>8, <2>1
  <2>. QED
    BY <1>5, <2>1, <2>2 DEF AreAdjacent
<1>9. ASSUME NEW x \in DOMAIN gr, AreAdjacent(gr, x, i)
      PROVE  AreAdjacent(h, x, i) \/ AreAdjacent(h, x, s)
  <2>1. PICK k \in DOMAIN gr[x].adj : gr[x].adj[k].n = i
    BY <1>9 DEF AreAdjacent
  <2>2. mid[x].adj[k].n = i \/ mid[x].adj[k].n = s
    <3>1. mid[x].adj[k] = gr[x].adj[k] \/ mid[x].adj[k].n = s
      BY <1>2, <2>1
    <3>. QED
      BY <2>1, <3>1
  <2>3. k \in DOMAIN h[x].adj /\ h[x].adj[k] = mid[x].adj[k]
    BY <1>5, <2>1
  <2>4. h[x].adj[k].n = i \/ h[x].adj[k].n = s
    BY <2>2, <2>3
  <2>. QED
    BY <2>3, <2>4 DEF AreAdjacent
<1>10. ASSUME AreAdjacent(gr, w, i) PROVE AreAdjacent(h, w, s)
  <2>1. PICK k \in DOMAIN gr[w].adj : mid[w].adj[k].n = s
    BY <1>1, <1>10
  <2>2. k \in DOMAIN h[w].adj /\ h[w].adj[k].n = s
    BY <1>3, <1>5, <2>1
  <2>. QED
    BY <2>2 DEF AreAdjacent
<1>11. IsGraph(h) /\ Len(h) = Len(gr) /\ DOMAIN h = DOMAIN gr /\ AreAdjacent(h, s, t)
  BY <1>1, <1>4 DEF Taker
<1>12. ASSUME NEW x \in DOMAIN gr
       PROVE  h[x].name = gr[x].name /\ h[x].type = gr[x].type
  <2>1. x \in DOMAIN mid /\ mid[x].name = gr[x].name /\ mid[x].type = gr[x].type
    BY <1>1
  <2>2. h[x].name = mid[x].name /\ h[x].type = mid[x].type
    BY <1>4, <2>1 DEF Taker
  <2>. QED
    BY <2>1, <2>2
<1>13. h[i] = mid[i]
  BY <1>1, <1>4 DEF Taker
<1>14. /\ DOMAIN h[i].adj = DOMAIN gr[i].adj
       /\ \A k \in DOMAIN gr[i].adj : k # j => h[i].adj[k] = gr[i].adj[k]
       /\ h[i].adj[j].n = t
  BY <1>1, <1>13
<1>. QED
  BY <1>7, <1>8, <1>9, <1>10, <1>11, <1>12, <1>14 DEF HandedOn, t, at, w

(* An entry of node i is handed over, and the next one is to be. *)
LEMMA StillMoving ==
  ASSUME NEW old, IsGraph(old), NEW gr, IsGraph(gr), NEW i \in DOMAIN gr, DOMAIN gr = DOMAIN old,
         NEW s, s = Follows(old, i), s # 0, NEW j \in DOMAIN gr[i].adj,
         Moving(old, gr, i, s, j), NEW h, HandedOn(gr, h, i, s, j)
  PROVE  Moving(old, h, i, s, j + 1)
<1> DEFINE w == gr[i].adj[j].n
<1>1. s \in DOMAIN gr /\ s # i
  BY FollowsNode
<1>2. /\ DOMAIN h = DOMAIN gr /\ DOMAIN h[i].adj = DOMAIN gr[i].adj
      /\ \A k \in DOMAIN gr[i].adj : k # j => h[i].adj[k] = gr[i].adj[k]
      /\ h[i].adj[j].n = Into(i, s, w)
      /\ \A x \in DOMAIN gr : \A y : y # i /\ AreAdjacent(gr, x, y) => AreAdjacent(h, x, y)
      /\ \A x \in DOMAIN gr : AreAdjacent(gr, x, i) => AreAdjacent(h, x, i) \/ AreAdjacent(h, x, s)
      /\ AreAdjacent(gr, w, i) => AreAdjacent(h, w, s)
      /\ AreAdjacent(h, s, Into(i, s, w))
  BY DEF HandedOn
<1>3. /\ j \in Nat /\ DOMAIN gr[i].adj \subseteq Nat /\ w \in DOMAIN gr
      /\ \A k \in Nat : (k >= j + 1 <=> k >= j /\ k # j) /\ (k < j + 1 <=> k < j \/ k = j)
  <2>1. gr[i].adj \in Seq(Edge)
    BY NodeFields
  <2>2. j \in Nat /\ DOMAIN gr[i].adj \subseteq Nat
    BY <2>1
  <2>3. w \in DOMAIN gr
    BY DEF IsGraph
  <2>4. \A k \in Nat : (k >= j + 1 <=> k >= j /\ k # j) /\ (k < j + 1 <=> k < j \/ k = j)
    BY <2>2
  <2>. QED
    BY <2>2, <2>3, <2>4
<1>4. Open(old, i, s) /\ Open(old, i, i) /\ Into(i, s, s) = s /\ Into(i, s, i) = s
  <2>1. i \in Nat /\ i \in DOMAIN old /\ Follows(old, i) # 0
    BY DEF IsGraph
  <2>2. Open(old, i, s) /\ Open(old, i, i)
    BY <2>1, FollowerStays
  <2>. QED
    BY <1>1, <2>2 DEF Into
<1>5. Into(i, s, Into(i, s, w)) = Into(i, s, w) /\ Into(i, s, w) # i
  BY <1>1 DEF Into
<1>6. \A v \in DOMAIN gr : Ahead(h, i, j + 1, v) => Ahead(gr, i, j, v)
  BY <1>2, <1>3 DEF Ahead
<1>7. ASSUME NEW x \in DOMAIN h, NEW k \in DOMAIN h[x].adj,
             Open(old, i, x), Open(old, i, h[x].adj[k].n), x = i => k >= j + 1
      PROVE  MergedBy(old, i + 1, Into(i, s, x), Into(i, s, h[x].adj[k].n), h[x].adj[k].attrs)
  <2>1. x = i => k >= j
    BY <1>2, <1>3, <1>7
  <2>2. CASE k \in DOMAIN gr[x].adj /\ h[x].adj[k] = gr[x].adj[k]
    BY <1>2, <1>7, <2>1, <2>2 DEF Moving
  <2>3. CASE /\ k \in DOMAIN gr[x].adj /\ gr[x].adj[k].n = i
             /\ h[x].adj[k].n = s /\ h[x].adj[k].attrs = gr[x].adj[k].attrs
    <3>1. MergedBy(old, i + 1, Into(i, s, x), Into(i, s, i), gr[x].adj[k].attrs)
      BY <1>2, <1>4, <1>7, <2>1, <2>3 DEF Moving
    <3>. QED
      BY <1>4, <2>3, <3>1
  <2>4. CASE /\ x = s /\ h[x].adj[k].n = Into(i, s, w)
             /\ h[x].adj[k].attrs = gr[i].adj[j].attrs
    <3>1. Open(old, i, w)
      BY <1>4, <1>7, <2>4 DEF Into
    <3>2. j >= j
      BY <1>3
    <3>3. MergedBy(old, i + 1, Into(i, s, i), Into(i, s, w), gr[i].adj[j].attrs)
      BY <1>4, <3>1, <3>2 DEF Moving
    <3>. QED
      BY <1>4, <1>5, <2>4, <3>3
  <2>. QED
    BY SMTT(30), <1>2, <1>7, <2>2, <2>3, <2>4 DEF HandedOn
<1>8. ASSUME NEW x \in DOMAIN h, NEW y \in DOMAIN h,
             Open(old, i, x), Open(old, i, y), x # i, y # i, Merged(old, i, x, y)
      PROVE  AreAdjacent(h, x, y)
  BY <1>2, <1>8 DEF Moving
<1>9. ASSUME NEW v \in DOMAIN h, Open(old, i, v), Merged(old, i, i, v)
      PROVE  \/ Ahead(h, i, j + 1, v)
             \/ AreAdjacent(h, s, Into(i, s, v)) /\ AreAdjacent(h, Into(i, s, v), s)
  <2>1. Into(i, s, v) \in DOMAIN gr /\ Into(i, s, v) # i
    BY <1>1, <1>2 DEF Into
  <2>2. CASE AreAdjacent(gr, s, Into(i, s, v)) /\ AreAdjacent(gr, Into(i, s, v), s)
    BY <1>1, <1>2, <2>1, <2>2
  <2>3. CASE Ahead(gr, i, j, v)
    <3>1. PICK k \in DOMAIN gr[i].adj : k >= j /\ gr[i].adj[k].n = v
      BY <2>3 DEF Ahead
    <3>2. CASE k # j
      BY <1>2, <1>3, <3>1, <3>2 DEF Ahead
    <3>3. CASE k = j
      <4>1. w = v
        BY <3>1, <3>3
      <4>2. AreAdjacent(h, Into(i, s, v), s)
        <5>1. CASE v = i
          BY <1>2, <4>1, <5>1 DEF Into
        <5>2. CASE v # i
          <6>1. AreAdjacent(gr, v, i) \/ AreAdjacent(gr, v, s)
            BY <1>2, <1>9, <2>3, <5>2 DEF Moving
          <6>. QED
            BY <1>1, <1>2, <4>1, <5>2, <6>1 DEF Into
        <5>. QED
          BY <5>1, <5>2
      <4>. QED
        BY <1>2, <4>1, <4>2
    <3>. QED
      BY <3>2, <3>3
  <2>. QED
    BY <1>2, <1>9, <2>2, <2>3 DEF Moving
<1>10. ASSUME NEW k \in DOMAIN h[i].adj, k < j + 1 PROVE h[i].adj[k].n # i
  BY <1>2, <1>3, <1>5, <1>10 DEF Moving
<1>11. ASSUME NEW v \in DOMAIN h, Open(old, i, v), v # i, Ahead(h, i, j + 1, v)
       PROVE  AreAdjacent(h, v, i) \/ AreAdjacent(h, v, s)
  <2>1. AreAdjacent(gr, v, i) \/ AreAdjacent(gr, v, s)
    BY <1>2, <1>6, <1>11 DEF Moving
  <2>. QED
    BY <1>1, <1>2, <1>11, <2>1
<1>. QED
  BY <1>7, <1>8, <1>9, <1>10, <1>11 DEF Moving

(* The node in hand has handed over everything. *)
LEMMA Emptied ==
  ASSUME NEW old, IsGraph(old), BothWays(old), NEW gr, IsGraph(gr), NEW i \in DOMAIN gr,
         Kept(old, gr, i), NEW s, s = Follows(old, i), s # 0, NEW j \in Nat, j > Len(gr[i].adj),
         Moving(old, gr, i, s, j),
         NEW h, h = [gr EXCEPT ![i] = [name |-> <<>>, type |-> "REPLACED", adj |-> <<>>]]
  PROVE  /\ IsGraph(h) /\ Len(h) = Len(gr) /\ Kept(old, h, i + 1) /\ Settled(old, h, i + 1)
<1> DEFINE node == [name |-> <<>>, type |-> "REPLACED", adj |-> <<>>]
<1>1. DOMAIN gr = DOMAIN old /\ i \in DOMAIN old
  BY DEF Kept
<1>2. node \in Node /\ Gone(node) /\ node.adj = <<>>
  BY DEF Node, NodeTypes, Names, Gone
<1>3. h = [gr EXCEPT ![i] = node]
  OBVIOUS
<1> HIDE DEF node
<1>4. /\ h \in Seq(Node) /\ Len(h) = Len(gr) /\ DOMAIN h = DOMAIN gr
      /\ h[i] = node /\ \A v \in DOMAIN gr : v # i => h[v] = gr[v]
  BY <1>2, <1>3 DEF IsGraph
<1>5. IsGraph(h)
  <2>1. ASSUME NEW v \in DOMAIN h, NEW k \in DOMAIN h[v].adj PROVE h[v].adj[k].n \in DOMAIN h
    <3>1. v # i
      BY <1>2, <1>4, <2>1
    <3>2. h[v] = gr[v] /\ v \in DOMAIN gr
      BY <1>4, <3>1
    <3>. QED
      BY <1>4, <3>2 DEF IsGraph
  <2>. QED
    BY <1>4, <2>1 DEF IsGraph
<1>6. /\ \A v : Open(old, i + 1, v) <=> Open(old, i, v) /\ v # i
      /\ \A v \in DOMAIN old : Handed(old, i + 1, v) <=> Handed(old, i, v) \/ v = i
  BY <1>1, StepWithSuccessor
<1>7. \A v \in DOMAIN old : v \in Nat /\ (v < i + 1 <=> v < i \/ v = i)
  BY <1>1 DEF IsGraph
<1>8. Kept(old, h, i + 1)
  <2>1. ASSUME NEW v \in DOMAIN old, Handed(old, i + 1, v) PROVE Gone(h[v])
    BY <1>1, <1>2, <1>4, <1>6, <2>1 DEF Kept
  <2>2. ASSUME NEW v \in DOMAIN old, ~Handed(old, i + 1, v)
        PROVE  /\ h[v].name = old[v].name
               /\ h[v].type = IF v < i + 1 /\ old[v].type = "REPLACED_T" THEN "REPLACED"
                              ELSE old[v].type
    <3>1. v # i /\ ~Handed(old, i, v)
      BY <1>6, <2>2
    <3>2. h[v] = gr[v] /\ (v < i + 1 <=> v < i)
      BY <1>1, <1>4, <1>7, <3>1
    <3>. QED
      BY <3>1, <3>2 DEF Kept
  <2>. QED
    BY <1>1, <1>4, <2>1, <2>2 DEF Kept
<1>9. Open(old, i, i)
  <2>1. i \in Nat /\ Follows(old, i) # 0
    BY <1>1, <1>7
  <2>. QED
    BY <1>1, <2>1, FollowerStays
<1>10. \A w : ~Ahead(gr, i, j, w)
  <2>1. gr[i].adj \in Seq(Edge)
    BY NodeFields
  <2>2. \A k \in DOMAIN gr[i].adj : ~(k >= j)
    BY <2>1
  <2>. QED
    BY <2>2 DEF Ahead
<1>11. ASSUME NEW w \in DOMAIN gr, Open(old, i, w), Merged(old, i, i, w)
       PROVE  AreAdjacent(gr, s, Into(i, s, w)) /\ AreAdjacent(gr, Into(i, s, w), s)
  BY <1>10, <1>11 DEF Moving
<1>12. Settled(old, h, i + 1)
  <2>1. ASSUME NEW x \in DOMAIN h, NEW k \in DOMAIN h[x].adj,
               Open(old, i + 1, x), Open(old, i + 1, h[x].adj[k].n)
        PROVE  MergedBy(old, i + 1, x, h[x].adj[k].n, h[x].adj[k].attrs)
    <3> DEFINE y == h[x].adj[k].n
    <3>1. x # i /\ y # i /\ Open(old, i, x) /\ Open(old, i, y)
      BY <1>6, <2>1
    <3>2. h[x] = gr[x] /\ x \in DOMAIN gr /\ k \in DOMAIN gr[x].adj
      BY <1>4, <2>1, <3>1
    <3>3. MergedBy(old, i + 1, Into(i, s, x), Into(i, s, y), h[x].adj[k].attrs)
      BY <3>1, <3>2 DEF Moving
    <3>. QED
      BY <3>1, <3>3 DEF Into
  <2>2. ASSUME NEW x \in DOMAIN h, NEW y \in DOMAIN h,
               Open(old, i + 1, x), Open(old, i + 1, y), Merged(old, i + 1, x, y)
        PROVE  AreAdjacent(h, x, y)
    <3>1. x # i /\ y # i /\ Open(old, i, x) /\ Open(old, i, y) /\ x \in DOMAIN gr /\ y \in DOMAIN gr
      BY <1>4, <1>6, <2>2
    <3>2. PICK p, q : Into(i, s, p) = x /\ Into(i, s, q) = y /\ Merged(old, i, p, q)
      BY <1>1, <2>2, MergedAfter
    <3>3. (p = x \/ (p = i /\ x = s)) /\ (q = y \/ (q = i /\ y = s))
      BY <3>2 DEF Into
    <3>4. Open(old, i, p) /\ Open(old, i, q) /\ p \in DOMAIN gr /\ q \in DOMAIN gr
      BY <1>9, <3>1, <3>3
    <3>5. AreAdjacent(gr, x, y)
      <4>1. CASE p # i /\ q # i
        BY <3>1, <3>2, <3>3, <4>1 DEF Moving
      <4>2. CASE p = i
        BY <1>11, <3>1, <3>2, <3>3, <3>4, <4>2
      <4>3. CASE q = i
        <5>1. Merged(old, i, i, p)
          BY <1>9, <3>2, <3>4, <4>3, MergedBothWays
        <5>. QED
          BY <1>11, <3>1, <3>2, <3>3, <3>4, <4>3, <5>1
      <4>. QED
        BY <4>1, <4>2, <4>3
    <3>. QED
      BY <1>4, <3>1, <3>5 DEF AreAdjacent
  <2>. QED
    BY <2>1, <2>2 DEF Settled
<1>. QED
  BY <1>4, <1>5, <1>8, <1>12

(* Node x of a settled graph counts if it is there after the loop. *)
LEMMA StillOpen ==
  ASSUME NEW old, NEW gr, NEW n, Kept(old, gr, n), NEW x \in DOMAIN gr, ~Gone(gr[x])
  PROVE  Open(old, n, x)
<1>1. x \in DOMAIN old /\ ~Handed(old, n, x)
  BY DEF Kept
<1>2. /\ gr[x].name = old[x].name
      /\ gr[x].type = IF x < n /\ old[x].type = "REPLACED_T" THEN "REPLACED" ELSE old[x].type
  BY <1>1 DEF Kept
<1>3. ~Gone(old[x])
  BY <1>2 DEF Gone
<1>. QED
  BY <1>1, <1>3 DEF Open

LEMMA SettledBothWays ==
  ASSUME NEW old, BothWays(old), NEW gr, IsGraph(gr), NEW n, Kept(old, gr, n), Settled(old, gr, n)
  PROVE  BothWays(gr)
<1>1. SUFFICES ASSUME NEW x \in DOMAIN gr, NEW y \in DOMAIN gr,
                      ~Gone(gr[x]), ~Gone(gr[y]), AreAdjacent(gr, x, y)
               PROVE  AreAdjacent(gr, y, x)
  BY DEF BothWays
<1>2. Open(old, n, x) /\ Open(old, n, y)
  BY <1>1, StillOpen
<1>3. Merged(old, n, x, y)
  BY <1>1, <1>2, MergedBySome DEF Settled, AreAdjacent
<1>4. Merged(old, n, y, x)
  BY <1>2, <1>3, MergedBothWays
<1>. QED
  BY <1>2, <1>4 DEF Settled

----------------------------------------------------------------------------
(* Nothing stale: the entries of each list, and what they stand for. *)

LEMMA CleanPassed ==
  ASSUME NEW old, IsGraph(old), NEW gr, NEW i \in DOMAIN old, Follows(old, i) = 0,
         NEW j, NEW k, Clean(old, gr, i, 0, j),
         NEW h, DOMAIN h = DOMAIN gr, \A v \in DOMAIN gr : h[v].adj = gr[v].adj
  PROVE  Clean(old, h, i + 1, 0, k)
<1>1. /\ \A v : Open(old, i + 1, v) <=> Open(old, i, v)
      /\ \A v \in DOMAIN old : Cur(old, i + 1, v) = Cur(old, i, v)
  BY StepWithoutSuccessor
<1>2. PICK G \in Tracings(old) : Traced(old, gr, i, G)
  BY DEF Clean
<1>3. Within(old, h, i + 1) /\ Single(old, h, i + 1)
  BY <1>1 DEF Clean, Within, Single
<1>4. \A edge, x, y : Stands(old, i, edge, x, y) => Stands(old, i + 1, edge, x, y)
  BY <1>1 DEF Stands
<1>5. Traced(old, h, i + 1, G)
  BY <1>1, <1>2, <1>4 DEF Traced
<1>. QED
  BY <1>3, <1>5 DEF Clean

LEMMA CleanTaken ==
  ASSUME NEW old, IsGraph(old), BothWays(old), NEW gr, IsGraph(gr), DOMAIN gr = DOMAIN old,
         NEW i \in DOMAIN gr, Settled(old, gr, i), NEW s, s = Follows(old, i), s # 0,
         NEW j, Clean(old, gr, i, 0, j)
  PROVE  Clean(old, gr, i, s, 1)
<1>1. /\ s \in DOMAIN old /\ s # i /\ Live(old[s]) /\ ~Live(old[i])
      /\ \A v \in DOMAIN old : Cur(old, i + 1, v) = Into(i, s, Cur(old, i, v))
  BY FollowsNode, StepWithSuccessor DEF Live
<1>2. Open(old, i, i) /\ Open(old, i, s) /\ Cur(old, i, i) = i
  <2>1. i \in Nat
    BY DEF IsGraph
  <2>. QED
    BY <2>1, FollowerStays, CurOfOpen
<1>3. PICK G \in Tracings(old) : Traced(old, gr, i, G)
  BY DEF Clean
<1>4. \A v \in DOMAIN old : Cur(old, i, v) = i => v = i
  <2>1. ASSUME NEW v \in DOMAIN old, Cur(old, i, v) = i PROVE v = i
    <3>1. CASE Handed(old, i, v)
      <4>1. Live(old[Follows(old, v)])
        BY <3>1, FollowsNode DEF Handed
      <4>. QED
        BY <1>1, <2>1, <3>1, <4>1 DEF Cur
    <3>2. CASE ~Handed(old, i, v)
      BY <2>1, <3>2 DEF Cur
    <3>. QED
      BY <3>1, <3>2
  <2>. QED
    BY <2>1
<1>5. \A edge, x, y : Stands(old, i, edge, x, y) =>
                        Stands(old, i + 1, edge, Into(i, s, x), Into(i, s, y))
  BY <1>1 DEF Stands
<1>6. \A k \in DOMAIN gr[i].adj : G[i][k][1] = i
  BY <1>2, <1>3, <1>4 DEF Traced, Stands
<1>7. \A k \in DOMAIN gr[s].adj : G[s][k][1] # i
  BY <1>1, <1>2, <1>3 DEF Traced, Stands
<1>8. TracedOn(old, gr, i, s, 1, G)
  BY <1>3, <1>5, <1>6, <1>7 DEF Traced, TracedOn
<1>9. ASSUME NEW x \in DOMAIN gr, Open(old, i, x), AreAdjacent(gr, x, i)
      PROVE  Ahead(gr, i, 1, x)
  <2>1. Merged(old, i, x, i)
    BY <1>2, <1>9, MergedBySome DEF Settled, AreAdjacent
  <2>2. Merged(old, i, i, x)
    BY <1>2, <1>9, <2>1, MergedBothWays
  <2>3. PICK k \in DOMAIN gr[i].adj : gr[i].adj[k].n = x
    BY <1>2, <1>9, <2>2 DEF Settled, AreAdjacent
  <2>4. k >= 1
    <3>1. gr[i].adj \in Seq(Edge)
      BY NodeFields
    <3>. QED
      BY <3>1
  <2>. QED
    BY <2>3, <2>4 DEF Ahead
<1>10. Awaited(old, gr, i, 1)
  BY <1>9 DEF Awaited
<1>. QED
  BY <1>3, <1>8, <1>10 DEF Clean

(* What becomes of the entries when i hands over its j-th. *)
Shifted(gr, h, i, s, j) ==
  LET w == gr[i].adj[j].n
  IN  /\ DOMAIN h = DOMAIN gr
      /\ \A x \in DOMAIN gr : \A k \in DOMAIN gr[x].adj :
           /\ k \in DOMAIN h[x].adj
           /\ \/ h[x].adj[k].n = gr[x].adj[k].n
              \/ gr[x].adj[k].n = i /\ h[x].adj[k].n = s
      /\ \A x \in DOMAIN gr : \A k \in DOMAIN h[x].adj : k \notin DOMAIN gr[x].adj =>
           /\ x = s /\ h[x].adj[k].n = Into(i, s, w)
           /\ \A l \in DOMAIN h[x].adj : h[x].adj[l].n = Into(i, s, w) => l = k
      /\ AreAdjacent(gr, w, i) =>
           \E m \in DOMAIN gr[w].adj : gr[w].adj[m].n = i /\ h[w].adj[m].n = s

LEMMA EntriesShifted ==
  ASSUME NEW gr, IsGraph(gr), NEW i \in DOMAIN gr, NEW s \in DOMAIN gr, s # i,
         NEW j \in DOMAIN gr[i].adj, \A k \in DOMAIN gr[i].adj : k < j => gr[i].adj[k].n # i,
         NEW mid, mid = Redirected(gr, gr[i].adj[j].n, i, s),
         NEW h, h = TakesOver(mid, s, mid[i].adj[j])
  PROVE  Shifted(gr, h, i, s, j)
<1> DEFINE w == gr[i].adj[j].n
           t == Into(i, s, w)
           at == gr[i].adj[j].attrs
<1>0. Turned(gr, mid, i, s, j)
  BY TurnedEffect
<1>1. /\ IsGraph(mid) /\ DOMAIN mid = DOMAIN gr
      /\ \A x \in DOMAIN gr : DOMAIN mid[x].adj = DOMAIN gr[x].adj
      /\ AreAdjacent(gr, w, i) =>
           \E m \in DOMAIN gr[w].adj : gr[w].adj[m].n = i /\ mid[w].adj[m].n = s
      /\ mid[i].adj[j].n = t
      /\ mid[i].adj[j].attrs = at
  BY <1>0 DEF Turned
<1>2. \A x \in DOMAIN gr : \A k \in DOMAIN gr[x].adj :
        mid[x].adj[k].n = gr[x].adj[k].n \/ (gr[x].adj[k].n = i /\ mid[x].adj[k].n = s)
  <2>1. \A x \in DOMAIN gr : \A k \in DOMAIN gr[x].adj :
          mid[x].adj[k] = gr[x].adj[k] \/ (gr[x].adj[k].n = i /\ mid[x].adj[k].n = s)
    BY <1>0 DEF Turned
  <2>. QED
    BY <2>1
<1>3. w \in DOMAIN gr /\ t \in DOMAIN gr
  BY DEF IsGraph, Into
<1> HIDE DEF t, at, w
<1>4. Taker(mid, h, s, t, at)
  <2>1. mid[i].adj[j] \in Edge
    <3>1. mid[i].adj \in Seq(Edge) /\ j \in DOMAIN mid[i].adj
      BY <1>1, NodeFields
    <3>. QED
      BY <3>1, ElementInList
  <2>2. Taker(mid, h, s, mid[i].adj[j].n, mid[i].adj[j].attrs)
    BY <1>1, <1>3, <2>1, TakesOverEffect
  <2>. QED
    BY <1>1, <2>2
<1>5. ASSUME NEW x \in DOMAIN gr, NEW k \in DOMAIN gr[x].adj
      PROVE  k \in DOMAIN h[x].adj /\ h[x].adj[k] = mid[x].adj[k]
  <2>1. x \in DOMAIN mid /\ k \in DOMAIN mid[x].adj
    BY <1>1
  <2>2. CASE x = s
    BY <1>4, <2>1, <2>2 DEF Taker
  <2>3. CASE x # s
    <3>1. h[x] = mid[x]
      BY <1>4, <2>1, <2>3 DEF Taker
    <3>. QED
      BY <2>1, <3>1
  <2>. QED
    BY <2>2, <2>3
<1>6. ASSUME NEW x \in DOMAIN gr, NEW k \in DOMAIN h[x].adj, k \notin DOMAIN gr[x].adj
      PROVE  /\ x = s /\ h[x].adj[k].n = t
             /\ \A l \in DOMAIN h[x].adj : h[x].adj[l].n = t => l = k
  <2>1. x \in DOMAIN mid /\ k \notin DOMAIN mid[x].adj
    BY <1>1, <1>6
  <2>2. x = s
    <3>1. x # s => h[x] = mid[x]
      BY <1>4, <2>1 DEF Taker
    <3>. QED
      BY <2>1, <3>1
  <2>. QED
    BY <1>4, <2>1, <2>2 DEF Taker
<1>7. ASSUME AreAdjacent(gr, w, i)
      PROVE  \E m \in DOMAIN gr[w].adj : gr[w].adj[m].n = i /\ h[w].adj[m].n = s
  BY <1>1, <1>3, <1>5, <1>7
<1>8. DOMAIN h = DOMAIN gr
  BY <1>1, <1>4 DEF Taker
<1>9. ASSUME NEW x \in DOMAIN gr, NEW k \in DOMAIN gr[x].adj
      PROVE  /\ k \in DOMAIN h[x].adj
             /\ h[x].adj[k].n = gr[x].adj[k].n \/ (gr[x].adj[k].n = i /\ h[x].adj[k].n = s)
  <2>1. k \in DOMAIN h[x].adj /\ h[x].adj[k].n = mid[x].adj[k].n
    BY <1>5
  <2>. QED
    BY <1>2, <2>1
<1>. QED
  BY <1>6, <1>7, <1>8, <1>9 DEF Shifted, t, w

(* An entry of node i is handed over. *)
LEMMA CleanShifted ==
  ASSUME NEW old, IsGraph(old), NEW gr, IsGraph(gr), DOMAIN gr = DOMAIN old,
         NEW i \in DOMAIN gr, NEW s, s = Follows(old, i), s # 0, NEW j \in DOMAIN gr[i].adj,
         Clean(old, gr, i, s, j), NEW h, IsGraph(h), Shifted(gr, h, i, s, j), DOMAIN h[i].adj = DOMAIN gr[i].adj
  PROVE  Clean(old, h, i, s, j + 1)
<1> DEFINE w == gr[i].adj[j].n
<1>1. /\ s \in DOMAIN gr /\ s # i /\ Live(old[s]) /\ ~Live(old[i])
  BY FollowsNode DEF Live
<1>2. Open(old, i, i) /\ Open(old, i, s)
  <2>1. i \in Nat
    BY DEF IsGraph
  <2>. QED
    BY <2>1, FollowerStays
<1>3. w \in DOMAIN gr /\ Open(old, i, w) /\ Within(old, gr, i) /\ Single(old, gr, i)
      /\ Awaited(old, gr, i, j)
  BY <1>1, <1>2 DEF Clean, Within, IsGraph
<1>4. PICK G \in Tracings(old) : TracedOn(old, gr, i, s, j, G)
  BY <1>1 DEF Clean
<1>5. DOMAIN h = DOMAIN gr
  BY DEF Shifted
<1>6. \A x \in DOMAIN gr : DOMAIN gr[x].adj \subseteq Nat \ {0}
  BY NodeFields
<1>7. ASSUME NEW x \in DOMAIN gr, NEW k \in DOMAIN gr[x].adj
      PROVE  /\ k \in DOMAIN h[x].adj
             /\ h[x].adj[k].n = gr[x].adj[k].n \/ (gr[x].adj[k].n = i /\ h[x].adj[k].n = s)
             /\ Into(i, s, h[x].adj[k].n) = Into(i, s, gr[x].adj[k].n)
  <2>1. /\ k \in DOMAIN h[x].adj
        /\ h[x].adj[k].n = gr[x].adj[k].n \/ (gr[x].adj[k].n = i /\ h[x].adj[k].n = s)
    BY SMTT(30) DEF Shifted
  <2>. QED
    BY <1>1, <2>1 DEF Into
<1>8. ASSUME NEW x \in DOMAIN gr, NEW k \in DOMAIN h[x].adj, k \notin DOMAIN gr[x].adj
      PROVE  /\ x = s /\ h[x].adj[k].n = Into(i, s, w)
             /\ \A l \in DOMAIN h[x].adj : h[x].adj[l].n = Into(i, s, w) => l = k
  BY <1>8 DEF Shifted
<1>9. AreAdjacent(gr, w, i) => \E m \in DOMAIN gr[w].adj : gr[w].adj[m].n = i /\ h[w].adj[m].n = s
  BY DEF Shifted
<1>10. j \in Nat \ {0} /\ j + 1 \in Nat /\ \A m \in Nat : m < j + 1 <=> m < j \/ m = j
  BY <1>6
<1> HIDE DEF w
<1>11. Within(old, h, i)
  <2>1. ASSUME NEW x \in DOMAIN gr, Open(old, i, x), NEW k \in DOMAIN h[x].adj
        PROVE  Open(old, i, h[x].adj[k].n)
    <3>1. CASE k \in DOMAIN gr[x].adj
      <4>1. Open(old, i, gr[x].adj[k].n)
        BY <1>3, <2>1, <3>1 DEF Within
      <4>2. h[x].adj[k].n = gr[x].adj[k].n \/ h[x].adj[k].n = s
        BY <1>7, <3>1
      <4>. QED
        BY <1>2, <4>1, <4>2
    <3>2. CASE k \notin DOMAIN gr[x].adj
      <4>1. h[x].adj[k].n = Into(i, s, w)
        BY <1>8, <3>2
      <4>. QED
        BY <1>2, <1>3, <4>1 DEF Into
    <3>. QED
      BY <3>1, <3>2
  <2>. QED
    BY <1>5, <2>1 DEF Within
<1>12. Single(old, h, i)
  <2>1. ASSUME NEW x \in DOMAIN gr, Open(old, i, x),
               NEW k \in DOMAIN h[x].adj, NEW l \in DOMAIN h[x].adj,
               h[x].adj[k].n = h[x].adj[l].n, k # l
        PROVE  Live(old[h[x].adj[k].n])
    <3>1. k \in DOMAIN gr[x].adj /\ l \in DOMAIN gr[x].adj
      BY <1>8, <2>1
    <3>2. CASE h[x].adj[k].n = s
      BY <1>1, <3>2
    <3>3. CASE h[x].adj[k].n # s
      <4>1. h[x].adj[k].n = gr[x].adj[k].n
        BY <1>7, <3>1, <3>3
      <4>2. h[x].adj[l].n = gr[x].adj[l].n
        BY <1>7, <2>1, <3>1, <3>3
      <4>. QED
        BY <1>3, <2>1, <3>1, <4>1, <4>2 DEF Single
    <3>. QED
      BY <3>2, <3>3
  <2>. QED
    BY <1>5, <2>1 DEF Single
<1>13. Awaited(old, h, i, j + 1)
  <2>1. ASSUME NEW x \in DOMAIN gr, Open(old, i, x), x # i, AreAdjacent(h, x, i)
        PROVE  Ahead(h, i, j + 1, x)
    <3>1. PICK k \in DOMAIN h[x].adj : h[x].adj[k].n = i
      BY <2>1 DEF AreAdjacent
    <3>2. k \in DOMAIN gr[x].adj
      <4>1. Into(i, s, w) # i
        BY <1>1 DEF Into
      <4>. QED
        BY <1>8, <3>1, <4>1
    <3>3. gr[x].adj[k].n = i
      BY <1>1, <1>7, <3>1, <3>2
    <3>4. AreAdjacent(gr, x, i)
      BY <3>2, <3>3 DEF AreAdjacent
    <3>5. PICK m \in DOMAIN gr[i].adj : m >= j /\ gr[i].adj[m].n = x
      BY <1>3, <2>1, <3>4 DEF Awaited, Ahead
    <3>6. m # j
      <4>1. SUFFICES ASSUME m = j PROVE FALSE
        OBVIOUS
      <4>2. x = w
        BY <3>5, <4>1 DEF w
      <4>3. PICK u \in DOMAIN gr[x].adj : gr[x].adj[u].n = i /\ h[x].adj[u].n = s
        BY <1>9, <3>4, <4>2
      <4>4. u = k
        BY <1>1, <1>3, <2>1, <3>2, <3>3, <4>3 DEF Single
      <4>. QED
        BY <1>1, <3>1, <4>3, <4>4
    <3>7. m >= j + 1
      BY <1>6, <1>10, <3>5, <3>6
    <3>8. m \in DOMAIN h[i].adj /\ h[i].adj[m].n = x
      BY <1>7, <2>1, <3>5
    <3>. QED
      BY <3>7, <3>8 DEF Ahead
  <2>. QED
    BY <1>5, <2>1 DEF Awaited
<1> DEFINE H == [x \in DOMAIN old |->
                   [k \in Nat |-> IF k \in DOMAIN gr[x].adj THEN G[x][k] ELSE G[i][j]]]
<1>14. /\ \A x \in DOMAIN gr : \A k \in DOMAIN gr[x].adj : H[x][k] = G[x][k]
       /\ \A x \in DOMAIN gr : \A k \in Nat : k \notin DOMAIN gr[x].adj => H[x][k] = G[i][j]
  BY <1>6
<1>15. H \in Tracings(old)
  <2>1. \A x \in DOMAIN old : \A k \in Nat : G[x][k] \in Nat \X Nat
    BY DEF Tracings
  <2>2. G[i][j] \in Nat \X Nat
    BY <1>10, <2>1
  <2>. QED
    BY <2>1, <2>2 DEF Tracings
<1> HIDE DEF H
<1>16. \A x \in DOMAIN h : DOMAIN h[x].adj \subseteq Nat \ {0}
  BY NodeFields
<1>17. ASSUME NEW x \in DOMAIN gr, Open(old, i, x), NEW k \in DOMAIN h[x].adj
       PROVE  Stands(old, i + 1, H[x][k], Into(i, s, x), Into(i, s, h[x].adj[k].n))
  <2>1. CASE k \in DOMAIN gr[x].adj
    BY <1>4, <1>7, <1>14, <1>17, <2>1 DEF TracedOn
  <2>2. CASE k \notin DOMAIN gr[x].adj
    <3>1. x = s /\ h[x].adj[k].n = Into(i, s, w) /\ H[x][k] = G[i][j]
      BY <1>5, <1>8, <1>14, <1>16, <2>2
    <3>2. Stands(old, i + 1, G[i][j], Into(i, s, i), Into(i, s, w))
      BY <1>2, <1>4 DEF TracedOn, w
    <3>3. Into(i, s, i) = Into(i, s, s) /\ Into(i, s, Into(i, s, w)) = Into(i, s, w)
      BY <1>1 DEF Into
    <3>. QED
      BY <3>1, <3>2, <3>3
  <2>. QED
    BY <2>1, <2>2
<1>18. \A k \in DOMAIN gr[s].adj : G[s][k] # G[i][j]
  <2>1. SUFFICES ASSUME NEW k \in DOMAIN gr[s].adj, G[s][k] = G[i][j] PROVE FALSE
    OBVIOUS
  <2>2. G[s][k][1] = i
    BY <1>4, <2>1 DEF TracedOn
  <2>3. PICK m \in DOMAIN gr[i].adj : m < j /\ G[s][k] = G[i][m]
    BY <1>4, <2>2 DEF TracedOn
  <2>4. m = j
    BY <1>2, <1>4, <2>1, <2>3 DEF TracedOn, Apart
  <2>. QED
    BY <1>10, <2>3, <2>4
<1>19. ASSUME NEW x \in DOMAIN gr, Open(old, i, x),
              NEW k \in DOMAIN h[x].adj, NEW l \in DOMAIN h[x].adj, H[x][k] = H[x][l]
       PROVE  k = l
  <2>1. k \in Nat /\ l \in Nat
    BY <1>5, <1>16
  <2>2. CASE k \in DOMAIN gr[x].adj /\ l \in DOMAIN gr[x].adj
    BY <1>4, <1>14, <1>19, <2>2 DEF TracedOn, Apart
  <2>3. CASE k \notin DOMAIN gr[x].adj /\ l \in DOMAIN gr[x].adj
    BY <1>8, <1>14, <1>18, <1>19, <2>1, <2>3
  <2>4. CASE k \in DOMAIN gr[x].adj /\ l \notin DOMAIN gr[x].adj
    BY <1>8, <1>14, <1>18, <1>19, <2>1, <2>4
  <2>5. CASE k \notin DOMAIN gr[x].adj /\ l \notin DOMAIN gr[x].adj
    BY <1>8, <2>5
  <2>. QED
    BY <2>2, <2>3, <2>4, <2>5
<1>20. \A k \in DOMAIN h[i].adj : H[i][k][1] = i
  BY <1>4, <1>14 DEF TracedOn
<1>21. ASSUME NEW k \in DOMAIN h[s].adj, H[s][k][1] = i
       PROVE  \E m \in DOMAIN h[i].adj : m < j + 1 /\ H[s][k] = H[i][m]
  <2>1. CASE k \in DOMAIN gr[s].adj
    <3>1. H[s][k] = G[s][k]
      BY <1>1, <1>14, <2>1
    <3>2. PICK m \in DOMAIN gr[i].adj : m < j /\ G[s][k] = G[i][m]
      BY <1>4, <1>21, <2>1, <3>1 DEF TracedOn
    <3>3. m \in Nat /\ m < j + 1
      BY <1>6, <1>10, <3>2
    <3>. QED
      BY <1>14, <3>1, <3>2, <3>3
  <2>2. CASE k \notin DOMAIN gr[s].adj
    <3>1. H[s][k] = G[i][j] /\ H[i][j] = G[i][j]
      BY <1>1, <1>5, <1>14, <1>16, <2>2
    <3>. QED
      BY <1>10, <3>1
  <2>. QED
    BY <2>1, <2>2
<1>22. TracedOn(old, h, i, s, j + 1, H)
  BY <1>5, <1>17, <1>19, <1>20, <1>21 DEF TracedOn, Apart
<1>. QED
  BY <1>1, <1>11, <1>12, <1>13, <1>15, <1>22 DEF Clean

(* The last one is. *)
LEMMA CleanEmptied ==
  ASSUME NEW old, IsGraph(old), NEW gr, IsGraph(gr), DOMAIN gr = DOMAIN old,
         NEW i \in DOMAIN gr, NEW s, s = Follows(old, i), s # 0,
         NEW j \in Nat, j > Len(gr[i].adj), NEW k, Clean(old, gr, i, s, j),
         NEW h, DOMAIN h = DOMAIN gr, \A v \in DOMAIN gr : v # i => h[v] = gr[v]
  PROVE  Clean(old, h, i + 1, 0, k)
<1>1. PICK G \in Tracings(old) : TracedOn(old, gr, i, s, j, G)
  BY DEF Clean
<1>2. \A v : Open(old, i + 1, v) <=> Open(old, i, v) /\ v # i
  BY StepWithSuccessor
<1>3. \A x : ~Ahead(gr, i, j, x)
  <2>1. gr[i].adj \in Seq(Edge)
    BY NodeFields
  <2>2. \A m \in DOMAIN gr[i].adj : ~(m >= j)
    BY <2>1
  <2>. QED
    BY <2>2 DEF Ahead
<1>4. ASSUME NEW x \in DOMAIN gr, Open(old, i, x), x # i, NEW m \in DOMAIN gr[x].adj
      PROVE  gr[x].adj[m].n # i
  BY <1>3, <1>4 DEF Clean, Awaited, AreAdjacent
<1>5. Within(old, h, i + 1)
  BY <1>2, <1>4 DEF Clean, Within
<1>6. Single(old, h, i + 1)
  BY <1>2 DEF Clean, Single
<1>7. ASSUME NEW x \in DOMAIN h, Open(old, i + 1, x)
      PROVE  /\ \A m \in DOMAIN h[x].adj : Stands(old, i + 1, G[x][m], x, h[x].adj[m].n)
             /\ Apart(h[x].adj, G[x])
  <2>1. Open(old, i, x) /\ x # i /\ h[x] = gr[x]
    BY <1>2, <1>7
  <2>2. \A m \in DOMAIN gr[x].adj :
          Stands(old, i + 1, G[x][m], Into(i, s, x), Into(i, s, gr[x].adj[m].n))
    BY <1>1, <2>1 DEF TracedOn
  <2>3. Apart(gr[x].adj, G[x])
    BY <1>1, <2>1 DEF TracedOn
  <2>. QED
    BY <1>4, <2>1, <2>2, <2>3 DEF Into
<1>8. Traced(old, h, i + 1, G)
  BY <1>7 DEF Traced
<1>. QED
  BY <1>5, <1>6, <1>8 DEF Clean

----------------------------------------------------------------------------
LEMMA JobTells ==
  ASSUME job \in {Idle} \cup GateJob \cup WireJob \cup HandOverJob
  PROVE  /\ job.kind \in {"gates", "ports"} <=> job \in GateJob
         /\ job.kind \in {"alllist", "match", "line", "ring"} <=> job \in WireJob
         /\ job.kind = "handover" <=> job \in HandOverJob
         /\ job.kind = "idle" <=> job = Idle
<1>1. CASE job = Idle
  BY <1>1 DEF Idle, GateJob, WireJob, HandOverJob
<1>2. CASE job \in GateJob
  BY <1>2 DEF Idle, GateJob, WireJob, HandOverJob
<1>3. CASE job \in WireJob
  BY <1>3 DEF Idle, GateJob, WireJob, HandOverJob
<1>4. CASE job \in HandOverJob
  BY <1>4 DEF Idle, GateJob, WireJob, HandOverJob
<1>. QED
  BY <1>1, <1>2, <1>3, <1>4

LEMMA JobsApart ==
  ASSUME NEW jb \in {Idle} \cup GateJob \cup WireJob
  PROVE  jb \notin HandOverJob
BY DEF Idle, GateJob, WireJob, HandOverJob

(* A step that is not one of the handing over. *)
Rewires ==
  /\ job \notin HandOverJob /\ Wired(g, g') /\ Asks
  /\ job' \in {Idle} \cup GateJob \cup WireJob /\ JobInRange'

LEMMA RewiresKeeps ==
  ASSUME RInv, Rewires
  PROVE  RInv'
<1>1. IsGraph(g') /\ BothWays(g') /\ MarkedNamed(g')
  BY WiredBothWays, WiredNamed DEF RInv, Rewires, Wired, Extended
<1>2. job' \in {Idle} \cup GateJob \cup WireJob /\ job' \notin HandOverJob
  BY JobsApart DEF Rewires
<1>. QED
  BY <1>1, <1>2 DEF RInv, Rewires

LEMMA IdleNow ==
  ASSUME RInv, job = Idle
  PROVE  job \notin HandOverJob /\ BothWays(g) /\ MarkedNamed(g)
BY JobsApart DEF RInv

LEMMA IdleInRange ==
  ASSUME job' = Idle
  PROVE  JobInRange'
BY DEF JobInRange, Idle, InsertJob, WireJob

LEMMA ExpandRewires ==
  ASSUME RInv, NEW name \in Names, NEW list \in Seq(Parts),
         ExpandSimple(name, list) \/ ExpandCompound(name, list)
  PROVE  Rewires
<1>1. job = Idle
  BY DEF ExpandSimple, ExpandCompound, Start
<1>2. Wired(g, g')
  BY NodeWired, WiredNot DEF RInv, ExpandSimple, ExpandCompound
<1>3. PICK kind \in {"gates", "ports"} :
        job' = [kind |-> kind, path |-> name, list |-> list, i |-> 1]
  BY DEF ExpandSimple, ExpandCompound
<1>4. job' \in GateJob
  BY <1>3 DEF GateJob
<1>5. JobInRange'
  BY <1>3 DEF JobInRange, InsertJob, WireJob
<1>6. Asks
  BY DEF ExpandSimple, ExpandCompound, Asks
<1>. QED
  BY <1>1, <1>2, <1>4, <1>5, <1>6, IdleNow DEF Rewires

(* Marking changes types only, and marks nobody that is gone. *)
LEMMA MarkKeeps ==
  ASSUME RInv, NEW names, <<>> \notin names, Mark(names)
  PROVE  RInv'
<1>1. job = Idle /\ job' = Idle /\ IsGraph(g) /\ BothWays(g) /\ MarkedNamed(g)
  BY IdleNow DEF Mark, Start, RInv
<1>2. g' = [v \in DOMAIN g |-> IF g[v].name \in names
                              THEN [g[v] EXCEPT !.type = "REPLACED_T"] ELSE g[v]]
  BY DEF Mark
<1>3. g \in Seq(Node) /\ DOMAIN g = 1..Len(g) /\ Len(g) \in Nat
  BY <1>1 DEF IsGraph
<1>4. ASSUME NEW v \in DOMAIN g
      PROVE  /\ g'[v] \in Node /\ g'[v].adj = g[v].adj /\ g'[v].name = g[v].name
             /\ Gone(g[v]) => g'[v] = g[v]
  <2>1. g[v] \in Node
    BY <1>3
  <2>2. CASE g[v].name \in names
    <3>1. g'[v] = [g[v] EXCEPT !.type = "REPLACED_T"]
      BY <1>2, <2>2
    <3>2. ~Gone(g[v])
      BY <2>2 DEF Gone
    <3>. QED
      BY <2>1, <3>1, <3>2 DEF Node, NodeTypes
  <2>3. CASE g[v].name \notin names
    BY <1>2, <2>1, <2>3
  <2>. QED
    BY <2>2, <2>3
<1>5. DOMAIN g' = DOMAIN g
  BY <1>2
<1>6. g' \in Seq(Node)
  <2>1. g' = [v \in 1..Len(g) |-> g'[v]]
    BY <1>2, <1>3
  <2>. QED
    BY <1>3, <1>4, <2>1
<1>7. IsGraph(g')
  BY <1>1, <1>4, <1>5, <1>6 DEF IsGraph
<1>8. \A x, y : x \in DOMAIN g => (AreAdjacent(g', x, y) <=> AreAdjacent(g, x, y))
  BY <1>4 DEF AreAdjacent
<1>9. BothWays(g')
  BY <1>1, <1>4, <1>5, <1>8 DEF BothWays
<1>10. JobInRange' /\ job' \notin HandOverJob
  BY <1>1, IdleInRange, JobsApart
<1>11. MarkedNamed(g')
  <2>1. ASSUME NEW v \in DOMAIN g, g'[v].type = "REPLACED_T" PROVE g[v].name # <<>>
    <3>1. CASE g[v].name \in names
      BY <3>1
    <3>2. CASE g[v].name \notin names
      BY <1>1, <1>2, <2>1, <3>2 DEF MarkedNamed
    <3>. QED
      BY <3>1, <3>2
  <2>. QED
    BY <1>4, <1>5, <2>1 DEF MarkedNamed
<1>. QED
  BY <1>1, <1>7, <1>9, <1>10, <1>11 DEF RInv

LEMMA HandOverKeeps ==
  ASSUME RInv, HandOver
  PROVE  RInv'
<1> DEFINE jb == [kind |-> "handover", i |-> 1, j |-> 1, node |-> 0, before |-> g]
<1>1. job = Idle /\ job' = jb /\ g' = g /\ IsGraph(g) /\ BothWays(g) /\ MarkedNamed(g)
  BY IdleNow DEF HandOver, Start, RInv
<1>2. HandsOver(g, jb)
  BY <1>1, HandOverBegins
<1>3. jb \in HandOverJob
  BY <1>1 DEF HandOverJob, IsGraph
<1>4. JobInRange'
  BY <1>1 DEF JobInRange, InsertJob, WireJob
<1> HIDE DEF jb
<1>. QED
  BY <1>1, <1>2, <1>3, <1>4 DEF RInv

LEMMA ConnectPlainRewires ==
  ASSUME RInv, NEW from, NEW to, NEW attrs \in EdgeAttrs, ConnectPlain(from, to, attrs)
  PROVE  Rewires
<1> DEFINE a == FindNode(g, from)
           b == FindNode(g, to)
<1>1. job = Idle /\ job' = Idle /\ IsGraph(g)
  BY DEF ConnectPlain, Start, RInv
<1>2. Wired(g, g') /\ Asks
  <2>1. CASE a = 0 \/ b = 0
    BY <1>1, <2>1, WiredNot DEF ConnectPlain, Asks
  <2>2. CASE ~(a = 0 \/ b = 0)
    <3>1. Link(a, b, FALSE, attrs)
      BY <2>2 DEF ConnectPlain
    <3>2. a \in DOMAIN g /\ b \in DOMAIN g
      BY <1>1, <2>2, FindNodeRange DEF IsGraph
    <3> HIDE DEF a, b
    <3>. QED
      BY <1>1, <3>1, <3>2, LinkWired, LinkAsks
  <2>. QED
    BY <2>1, <2>2
<1>. QED
  BY <1>1, <1>2, IdleNow, IdleInRange DEF Rewires

LEMMA ListRewires ==
  ASSUME RInv, NEW attrs \in EdgeAttrs,
         \/ \E shape \in {"alllist", "line", "ring"} : \E named : \E len \in Nat :
              DOMAIN named = 1..len /\ ConnectNamed(shape, named, attrs)
         \/ \E pattern : ConnectMatching(pattern, attrs)
  PROVE  Rewires
<1>1. job = Idle /\ IsGraph(g)
  BY DEF ConnectNamed, ConnectMatching, Start, RInv
<1>2. g' = g /\ job' \in {Idle} \cup WireJob /\ JobInRange'
  BY <1>1, NamedBegins, MatchingBegins
<1>3. Asks
  BY DEF ConnectNamed, ConnectMatching, Asks
<1>. QED
  BY <1>1, <1>2, <1>3, IdleNow, WiredNot DEF Rewires

LEMMA GateRewires ==
  ASSUME RInv, GateStep
  PROVE  Rewires
<1> DEFINE name == Append(job.path, job.list[job.i])
           more == AddNode(g, name, "GATE")
<1>1. job \in GateJob /\ job \notin HandOverJob
  BY JobTells, JobsApart DEF GateStep, RInv
<1>2. name \in Names
  <2>1. job.i >= 1 /\ job.i <= Len(job.list) /\ job # Idle
    BY <1>1 DEF GateStep, RInv, JobInRange, Idle, GateJob
  <2>2. job.path \in Names /\ job.list[job.i] \in Parts
    BY <1>1, <2>1 DEF GateJob
  <2>. QED
    BY <2>2, NamesAreNames
<1> HIDE DEF name
<1>3. IsGraph(g) /\ Wired(g, more) /\ IsGraph(more)
  BY <1>2, NodeWired DEF RInv, Wired, Extended
<1>4. g' = more \/ g' = AddEdgeName(more, name, job.path, NULL)
  BY DEF GateStep, name, more
<1>5. Wired(g, g')
  <2>1. NULL \in EdgeAttrs
    BY DEF EdgeAttrs
  <2>2. Wired(more, AddEdgeName(more, name, job.path, NULL))
    BY <1>3, <2>1, NamedEdgeWired
  <2> HIDE DEF more
  <2>. QED
    BY <1>3, <1>4, <2>2, WiredTwice
<1>6. job' \in GateJob /\ JobInRange'
  BY <1>1, GateDone DEF GateStep, RInv
<1>7. Asks
  BY DEF GateStep, Asks
<1>. QED
  BY <1>1, <1>5, <1>6, <1>7 DEF Rewires

LEMMA WireRewires ==
  ASSUME RInv, WireStep
  PROVE  Rewires
<1> DEFINE a == PairInHand[1]
           b == PairInHand[2]
           always == job.kind # "match"
<1>1. job \in WireJob /\ job \notin HandOverJob /\ IsGraph(g) /\ JobInRange
  BY JobTells, JobsApart DEF WireStep, RInv
<1>2. a \in DOMAIN g /\ b \in DOMAIN g
  BY <1>1, PairInGraph DEF WireStep
<1>3. Link(a, b, always, job.attrs) /\ job.attrs \in EdgeAttrs /\ always \in BOOLEAN
  BY <1>1 DEF WireStep, WireJob
<1> HIDE DEF a, b, always
<1>4. Wired(g, g') /\ Asks
  BY <1>1, <1>2, <1>3, LinkWired, LinkAsks
<1>5. job' \in WireJob /\ JobInRange'
  BY <1>1, <1>4, PairDone DEF Wired
<1>. QED
  BY <1>1, <1>4, <1>5 DEF Rewires

LEMMA EmptyRingRewires ==
  ASSUME RInv, EmptyRing
  PROVE  Rewires
<1>1. job \in WireJob /\ job \notin HandOverJob /\ IsGraph(g) /\ job.attrs \in EdgeAttrs
  <2>1. job \in WireJob
    BY JobTells DEF EmptyRing, RInv
  <2>. QED
    BY <2>1, JobsApart DEF RInv, WireJob
<1>2. Wired(g, g') /\ Asks
  <2>1. CASE g' = g /\ asked' = asked
    BY <1>1, <2>1, WiredNot DEF Asks
  <2>2. CASE \E a, b \in DOMAIN g : Link(a, b, TRUE, job.attrs)
    BY <1>1, <2>2, LinkWired, LinkAsks
  <2>. QED
    BY <2>1, <2>2 DEF EmptyRing
<1>3. job' \in WireJob /\ JobInRange'
  BY <1>1, RingDone
<1>. QED
  BY <1>1, <1>2, <1>3 DEF Rewires

LEMMA JobDoneRewires ==
  ASSUME RInv, JobDone
  PROVE  Rewires
<1>1. job' = Idle /\ g' = g /\ IsGraph(g)
  BY DEF JobDone, RInv
<1>2. job \notin HandOverJob /\ Asks
  BY DEF JobDone, HandOverJob, Asks
<1>. QED
  BY <1>1, <1>2, WiredNot, IdleInRange DEF Rewires

----------------------------------------------------------------------------
(* What stays of the job when the loops go on. *)
LEMMA CounterOn ==
  ASSUME NEW jb \in HandOverJob, NEW n \in Nat \ {0}
  PROVE  /\ [jb EXCEPT !.i = n] \in HandOverJob
         /\ [jb EXCEPT !.i = n].i = n
         /\ [jb EXCEPT !.i = n].node = jb.node
         /\ [jb EXCEPT !.i = n].before = jb.before
BY DEF HandOverJob

LEMMA EntryOn ==
  ASSUME NEW jb \in HandOverJob, NEW n \in Nat \ {0}
  PROVE  /\ [jb EXCEPT !.j = n] \in HandOverJob
         /\ [jb EXCEPT !.j = n].i = jb.i
         /\ [jb EXCEPT !.j = n].j = n
         /\ [jb EXCEPT !.j = n].node = jb.node
         /\ [jb EXCEPT !.j = n].before = jb.before
BY DEF HandOverJob

LEMMA NodeLeft ==
  ASSUME NEW jb \in HandOverJob, NEW s \in Nat, NEW n \in Nat \ {0}
  PROVE  /\ [jb EXCEPT !.i = n, !.node = s] \in HandOverJob
         /\ [jb EXCEPT !.i = n, !.node = s].i = n
         /\ [jb EXCEPT !.i = n, !.node = s].node = s
         /\ [jb EXCEPT !.i = n, !.node = s].before = jb.before
BY DEF HandOverJob

(* The invariant during the handing over, and what follows from it. *)
LEMMA InHandOver ==
  ASSUME RInv, job.kind = "handover"
  PROVE  /\ job \in HandOverJob /\ IsGraph(g) /\ HandsOver(g, job)
         /\ job.i \in Nat \ {0} /\ job.j \in Nat \ {0} /\ job.node \in Nat
         /\ IsGraph(job.before) /\ BothWays(job.before) /\ MarkedNamed(job.before)
         /\ Kept(job.before, g, job.i)
         /\ DOMAIN g = DOMAIN job.before
         /\ job.i + 1 \in Nat \ {0} /\ job.j + 1 \in Nat \ {0}
<1>1. job \in HandOverJob /\ IsGraph(g) /\ HandsOver(g, job)
  BY JobTells DEF RInv
<1>2. job.i \in Nat \ {0} /\ job.j \in Nat \ {0} /\ job.node \in Nat
  BY <1>1 DEF HandOverJob
<1>. QED
  BY <1>1, <1>2 DEF HandsOver, Kept

LEMMA HandsOverStep ==
  ASSUME IsGraph(g'), job' \in HandOverJob, HandsOver(g', job')
  PROVE  RInv'
<1>1. job' # Idle /\ job' \notin InsertJob /\ job' \notin WireJob /\ job'.i >= 1
  BY DEF HandOverJob, InsertJob, WireJob, Idle
<1>2. JobInRange'
  BY <1>1 DEF JobInRange
<1>. QED
  BY <1>2 DEF RInv

LEMMA NextMarkedKeeps ==
  ASSUME RInv, NextMarked
  PROVE  RInv'
<1> DEFINE old == job.before
           new == FindNode(g, g[job.i].name)
<1>1. job.kind = "handover" /\ job.node = 0 /\ job.i <= Len(g)
  BY DEF NextMarked, Handing
<1>2. /\ job \in HandOverJob /\ IsGraph(g) /\ HandsOver(g, job)
      /\ IsGraph(old) /\ BothWays(old) /\ Kept(old, g, job.i)
      /\ job.i + 1 \in Nat \ {0}
  BY <1>1, InHandOver
<1>3. job.i \in DOMAIN g
  BY <1>1, <1>2 DEF HandOverJob, IsGraph
<1>4. Settled(old, g, job.i)
  BY <1>1, <1>2 DEF HandsOver
<1>5. new \in Nat
  <2>1. new \in 0..Len(g)
    BY <1>2, FindNodeRange DEF IsGraph
  <2>. QED
    BY <2>1
<1> HIDE DEF old
<1>6. CASE g[job.i].type = "REPLACED_T" /\ new # 0
  <2>1. job' = [job EXCEPT !.node = new, !.j = 1] /\ g' = g
    BY <1>6 DEF NextMarked
  <2>2. new = Follows(old, job.i) /\ Moving(old, g, job.i, new, 1)
    BY <1>2, <1>3, <1>4, <1>6, TakenInHand
  <2> HIDE DEF new
  <2>3. /\ job' \in HandOverJob /\ job'.j = 1 /\ job'.i = job.i /\ job'.node = new
        /\ job'.before = old
    <3>1. new \in Nat /\ 1 \in Nat \ {0}
      BY <1>5
    <3>2. /\ [job EXCEPT !.node = new, !.j = 1] \in HandOverJob
          /\ [job EXCEPT !.node = new, !.j = 1].i = job.i
          /\ [job EXCEPT !.node = new, !.j = 1].j = 1
          /\ [job EXCEPT !.node = new, !.j = 1].node = new
          /\ [job EXCEPT !.node = new, !.j = 1].before = job.before
      BY <1>2, <3>1 DEF HandOverJob
    <3>. QED
      BY <2>1, <3>2, Zenon DEF old
  <2>4. ASSUME NoParallel(old), NoneStale(old) PROVE Clean(old, g, job.i, new, 1)
    <3>1. Clean(old, g, job.i, 0, job.j)
      BY <1>1, <1>2, <2>4 DEF HandsOver, old
    <3>2. DOMAIN g = DOMAIN old
      BY <1>2 DEF Kept
    <3>. QED
      BY <1>2, <1>3, <1>4, <1>6, <2>2, <3>1, <3>2, CleanTaken
  <2>5. HandsOver(g', job')
    BY <1>2, <1>3, <1>6, <2>1, <2>2, <2>3, <2>4 DEF HandsOver, old
  <2>. QED
    BY <1>2, <2>1, <2>3, <2>5, HandsOverStep
<1>7. CASE ~(g[job.i].type = "REPLACED_T" /\ new # 0)
  <2> DEFINE h == IF g[job.i].type = "REPLACED_T"
                  THEN [g EXCEPT ![job.i].type = "REPLACED"] ELSE g
  <2>1. job' = [job EXCEPT !.i = job.i + 1] /\ g' = h
    BY <1>7 DEF NextMarked
  <2>2. /\ IsGraph(h) /\ Len(h) = Len(g) /\ Kept(old, h, job.i + 1)
        /\ Settled(old, h, job.i + 1)
        /\ Follows(old, job.i) = 0 /\ DOMAIN h = DOMAIN g
        /\ \A v \in DOMAIN g : h[v].adj = g[v].adj
    BY <1>2, <1>3, <1>4, <1>7, Passed
  <2> HIDE DEF h
  <2>3. /\ job' \in HandOverJob /\ job'.i = job.i + 1 /\ job'.node = job.node
        /\ job'.before = old
    <3>1. PICK n \in Nat \ {0} : n = job.i + 1 /\ job' = [job EXCEPT !.i = n]
      BY <1>2, <2>1
    <3>2. /\ job' \in HandOverJob /\ job'.i = n /\ job'.node = job.node
          /\ job'.before = job.before
      BY <1>2, <3>1, CounterOn, Zenon
    <3>. QED
      BY <3>1, <3>2, Zenon DEF old
  <2>4. job.i + 1 \in 1..Len(h) + 1
    BY <1>2, <1>3, <2>2 DEF IsGraph
  <2>5. ASSUME NoParallel(old), NoneStale(old), NEW k PROVE Clean(old, h, job.i + 1, 0, k)
    <3>1. Clean(old, g, job.i, 0, job.j)
      BY <1>1, <1>2, <2>5 DEF HandsOver, old
    <3>2. job.i \in DOMAIN old
      BY <1>2, <1>3 DEF Kept
    <3>. QED
      BY <1>2, <2>2, <3>1, <3>2, CleanPassed
  <2>6. HandsOver(g', job')
    BY <1>1, <1>2, <2>1, <2>2, <2>3, <2>4, <2>5 DEF HandsOver
  <2>. QED
    BY <2>1, <2>2, <2>3, <2>6, HandsOverStep
<1>. QED
  BY <1>6, <1>7

(* The successor of the node in hand. *)
LEMMA SuccessorInHand ==
  ASSUME RInv, job.kind = "handover", job.node # 0
  PROVE  /\ job.i \in DOMAIN g /\ job.i \in DOMAIN job.before
         /\ job.node = Follows(job.before, job.i)
         /\ job.node \in DOMAIN g /\ job.node # job.i
         /\ Moving(job.before, g, job.i, job.node, job.j)
<1>1. /\ HandsOver(g, job) /\ IsGraph(job.before) /\ DOMAIN g = DOMAIN job.before
  BY InHandOver
<1>2. /\ job.i \in DOMAIN g /\ job.node = Follows(job.before, job.i)
      /\ Moving(job.before, g, job.i, job.node, job.j)
  BY <1>1 DEF HandsOver
<1>. QED
  BY <1>1, <1>2, FollowsNode

LEMMA HandEntryKeeps ==
  ASSUME RInv, HandEntry
  PROVE  RInv'
<1> DEFINE old == job.before
           i == job.i
           j == job.j
           s == job.node
           mid == Redirected(g, g[i].adj[j].n, i, s)
<1>1. job.kind = "handover" /\ s # 0 /\ j <= Len(g[i].adj)
  BY DEF HandEntry, Handing, EntriesToHand
<1>2. /\ job \in HandOverJob /\ IsGraph(g) /\ HandsOver(g, job)
      /\ IsGraph(old) /\ BothWays(old) /\ MarkedNamed(old) /\ Kept(old, g, i)
      /\ DOMAIN g = DOMAIN old /\ j \in Nat \ {0} /\ j + 1 \in Nat \ {0}
  BY <1>1, InHandOver
<1>3. /\ i \in DOMAIN g /\ i \in DOMAIN old /\ s = Follows(old, i) /\ s \in DOMAIN g /\ s # i
      /\ Moving(old, g, i, s, j)
  BY <1>1, SuccessorInHand
<1>4. g' = TakesOver(mid, s, mid[i].adj[j]) /\ job' = [job EXCEPT !.j = j + 1]
  BY DEF HandEntry
<1>5. /\ job' \in HandOverJob /\ job'.j = j + 1 /\ job'.i = i /\ job'.node = s
      /\ job'.before = old
  <2>1. PICK n \in Nat \ {0} : n = j + 1 /\ job' = [job EXCEPT !.j = n]
    BY <1>2, <1>4
  <2>2. /\ job' \in HandOverJob /\ job'.j = n /\ job'.i = job.i /\ job'.node = job.node
        /\ job'.before = job.before
    BY <1>2, <2>1, EntryOn, Zenon
  <2>. QED
    BY <2>1, <2>2, Zenon
<1> HIDE DEF old, i, j, s
<1>6. j \in DOMAIN g[i].adj
  <2>1. g[i].adj \in Seq(Edge)
    BY <1>2, <1>3, NodeFields
  <2>. QED
    BY <1>1, <1>2, <2>1
<1>7. \A k \in DOMAIN g[i].adj : k < j => g[i].adj[k].n # i
  BY <1>3 DEF Moving
<1>8. HandedOn(g, g', i, s, j)
  <2> HIDE DEF mid
  <2>1. mid = Redirected(g, g[i].adj[j].n, i, s)
    BY DEF mid
  <2>. QED
    BY <1>2, <1>3, <1>4, <1>6, <1>7, <2>1, HandEntryEffect
<1>9. Moving(old, g', i, s, j + 1)
  BY <1>1, <1>2, <1>3, <1>6, <1>8, StillMoving
<1>10. /\ IsGraph(g') /\ Len(g') = Len(g) /\ DOMAIN g' = DOMAIN g
       /\ \A x \in DOMAIN g : g'[x].name = g[x].name /\ g'[x].type = g[x].type
  BY <1>8 DEF HandedOn
<1>11. Kept(old, g', i)
  BY <1>2, <1>10 DEF Kept, Gone
<1>12. i \in 1..Len(g') + 1
  BY <1>2, <1>10 DEF HandsOver, i
<1>13. ASSUME NoParallel(old), NoneStale(old)
       PROVE  Clean(old, g', i, s, j + 1)
  <2>1. Clean(old, g, i, s, j)
    BY <1>2, <1>13 DEF HandsOver, old, i, s, j
  <2>2. Shifted(g, g', i, s, j)
    <3> HIDE DEF mid
    <3>1. mid = Redirected(g, g[i].adj[j].n, i, s)
      BY DEF mid
    <3>. QED
      BY <1>2, <1>3, <1>4, <1>6, <1>7, <3>1, EntriesShifted
  <2>3. DOMAIN g'[i].adj = DOMAIN g[i].adj
    BY <1>8 DEF HandedOn
  <2>. QED
    BY <1>1, <1>2, <1>3, <1>6, <1>10, <2>1, <2>2, <2>3, CleanShifted
<1>14. HandsOver(g', job')
  BY <1>1, <1>2, <1>3, <1>5, <1>9, <1>10, <1>11, <1>12, <1>13 DEF HandsOver
<1>. QED
  BY <1>5, <1>10, <1>14, HandsOverStep

LEMMA NodeHandedKeeps ==
  ASSUME RInv, NodeHanded
  PROVE  RInv'
<1> DEFINE old == job.before
           i == job.i
           j == job.j
           s == job.node
<1>1. job.kind = "handover" /\ s # 0 /\ j > Len(g[i].adj)
  BY DEF NodeHanded, Handing, EntriesToHand
<1>2. /\ job \in HandOverJob /\ IsGraph(g) /\ HandsOver(g, job) /\ DOMAIN g = DOMAIN old
      /\ IsGraph(old) /\ BothWays(old) /\ MarkedNamed(old) /\ Kept(old, g, i)
      /\ j \in Nat /\ i + 1 \in Nat \ {0}
  BY <1>1, InHandOver
<1>3. i \in DOMAIN g /\ s = Follows(old, i) /\ Moving(old, g, i, s, j)
  BY <1>1, SuccessorInHand
<1>4. /\ g' = [g EXCEPT ![i] = [name |-> <<>>, type |-> "REPLACED", adj |-> <<>>]]
      /\ job' = [job EXCEPT !.i = i + 1, !.node = 0]
  BY DEF NodeHanded
<1>5. job' \in HandOverJob /\ job'.i = i + 1 /\ job'.node = 0 /\ job'.before = old
  <2>1. PICK n \in Nat \ {0} : n = i + 1 /\ job' = [job EXCEPT !.i = n, !.node = 0]
    BY <1>2, <1>4
  <2>2. 0 \in Nat
    OBVIOUS
  <2>3. /\ [job EXCEPT !.i = n, !.node = 0] \in HandOverJob
        /\ [job EXCEPT !.i = n, !.node = 0].i = n
        /\ [job EXCEPT !.i = n, !.node = 0].node = 0
        /\ [job EXCEPT !.i = n, !.node = 0].before = job.before
    BY <1>2, <2>2, NodeLeft, Zenon
  <2>. QED
    BY <2>1, <2>3, Zenon
<1> HIDE DEF old, i, j, s
<1>6. IsGraph(g') /\ Len(g') = Len(g) /\ Kept(old, g', i + 1) /\ Settled(old, g', i + 1)
  BY <1>1, <1>2, <1>3, <1>4, Emptied
<1>7. i + 1 \in 1..Len(g') + 1
  BY <1>2, <1>3, <1>6 DEF IsGraph
<1>8. ASSUME NoParallel(old), NoneStale(old)
      PROVE  Clean(old, g', i + 1, 0, job'.j)
  <2>1. Clean(old, g, i, s, j)
    BY <1>2, <1>8 DEF HandsOver, old, i, s, j
  <2>2. DOMAIN g' = DOMAIN g /\ \A v \in DOMAIN g : v # i => g'[v] = g[v]
    BY <1>4
  <2>. QED
    BY <1>1, <1>2, <1>3, <2>1, <2>2, CleanEmptied
<1>9. HandsOver(g', job')
  BY <1>2, <1>5, <1>6, <1>7, <1>8 DEF HandsOver
<1>. QED
  BY <1>5, <1>6, <1>9, HandsOverStep

LEMMA HandOverDoneKeeps ==
  ASSUME RInv, HandOverDone
  PROVE  RInv'
<1>1. job.kind = "handover" /\ job.node = 0 /\ job' = Idle /\ g' = g
  BY DEF HandOverDone, Handing
<1>2. /\ IsGraph(g) /\ HandsOver(g, job) /\ BothWays(job.before) /\ MarkedNamed(job.before)
      /\ Kept(job.before, g, job.i)
  BY <1>1, InHandOver
<1>3. Settled(job.before, g, job.i)
  BY <1>1, <1>2 DEF HandsOver
<1>4. BothWays(g)
  BY <1>2, <1>3, SettledBothWays
<1>5. MarkedNamed(g)
  BY <1>2, KeptNamed
<1>. QED
  BY <1>1, <1>2, <1>4, <1>5, IdleInRange, JobsApart DEF RInv

LEMMA ConnectsRewires ==
  ASSUME RInv, Connects
  PROVE  Rewires
<1>1. CASE \E name \in Names, list \in Seq(Parts) :
             ExpandSimple(name, list) \/ ExpandCompound(name, list)
  BY <1>1, ExpandRewires
<1>2. CASE \E from, to : \E attrs \in EdgeAttrs : ConnectPlain(from, to, attrs)
  BY <1>2, ConnectPlainRewires
<1>3. CASE \E shape \in {"alllist", "line", "ring"}, attrs \in EdgeAttrs : \E named :
             (\E len \in Nat : DOMAIN named = 1..len) /\ ConnectNamed(shape, named, attrs)
  BY <1>3, ListRewires
<1>4. CASE \E pattern : \E attrs \in EdgeAttrs : ConnectMatching(pattern, attrs)
  BY <1>4, ListRewires
<1>5. CASE GateStep \/ WireStep \/ EmptyRing \/ JobDone
  BY <1>5, GateRewires, WireRewires, EmptyRingRewires, JobDoneRewires
<1>. QED
  BY <1>1, <1>2, <1>3, <1>4, <1>5 DEF Connects

LEMMA OperationKeeps ==
  ASSUME RInv, Operates
  PROVE  RInv'
<1>1. CASE Connects
  BY <1>1, ConnectsRewires, RewiresKeeps
<1>2. CASE \E names : <<>> \notin names /\ Mark(names)
  BY <1>2, MarkKeeps
<1>3. CASE HandOver
  BY <1>3, HandOverKeeps
<1>4. CASE HandOverStep
  BY <1>4, NextMarkedKeeps, HandEntryKeeps, NodeHandedKeeps, HandOverDoneKeeps DEF HandOverStep
<1>. QED
  BY <1>1, <1>2, <1>3, <1>4 DEF Operates

LEMMA BeginsSettled ==
  ASSUME ExpandInit
  PROVE  RInv
<1>1. g = <<>> /\ job = Idle
  BY DEF ExpandInit, Init, EmptyGraph
<1>2. IsGraph(g) /\ BothWays(g) /\ MarkedNamed(g)
  BY <1>1 DEF IsGraph, BothWays, MarkedNamed
<1>3. JobInRange
  BY <1>1 DEF JobInRange, Idle, InsertJob, WireJob
<1>. QED
  BY <1>1, <1>2, <1>3, JobsApart DEF RInv

LEMMA AlwaysRInv == ExpandSpec => []RInv
<1>1. ExpandInit => RInv
  BY BeginsSettled
<1>2. IInv /\ RInv /\ [ExpandNext]_expandVars => RInv'
  <2>1. SUFFICES ASSUME IInv, RInv, [ExpandNext]_expandVars PROVE RInv'
    OBVIOUS
  <2>2. CASE Operates
    BY <2>1, <2>2, OperationKeeps
  <2>3. CASE UNCHANGED wiring
    BY <2>1, <2>3 DEF wiring, RInv, JobInRange, Double
  <2>4. Operates \/ UNCHANGED wiring
    <3>1. CASE ExpandNext
      BY <2>1, <3>1, ExpansionOperates DEF RInv
    <3>2. CASE UNCHANGED expandVars
      BY <3>2 DEF expandVars
    <3>. QED
      BY <2>1, <3>1, <3>2
  <2>. QED
    BY <2>2, <2>3, <2>4
<1>. QED
  BY <1>1, <1>2, AlwaysIInv, PTL DEF ExpandSpec

(* Between the operations of an expansion two live nodes are neighbours from
   both sides or not at all, for every definition: do_replace turns an entry in
   one list and appends one to another, by rules that do not match, and leaves
   the edges of the nodes that stay in both of their lists. *)
THEOREM ListsAgreeAlways == ExpandSpec => []LiveListsAgree
<1>1. ASSUME RInv PROVE LiveListsAgree
  <2>1. SUFFICES ASSUME job = Idle, NEW a \in LiveNodes(g),
                        NEW b \in Neighbours(g, a) \cap LiveNodes(g)
                 PROVE  AreAdjacent(g, b, a)
    BY DEF LiveListsAgree
  <2>2. BothWays(g)
    BY <1>1, <2>1, IdleNow
  <2>3. a \in DOMAIN g /\ b \in DOMAIN g /\ ~Gone(g[a]) /\ ~Gone(g[b]) /\ AreAdjacent(g, a, b)
    BY DEF LiveNodes, Live, Gone, Neighbours, AreAdjacent
  <2>. QED
    BY <2>2, <2>3 DEF BothWays
<1>. QED
  BY <1>1, AlwaysRInv, PTL

(* When the loop is over, the node with v's edges is the live node that succeeds it. *)
LEMMA CurIsSuccessor ==
  ASSUME NEW old, NEW n, \A v \in DOMAIN old : v < n, IsGraph(g), Kept(old, g, n),
         NEW c \in LiveNodes(g), NEW v \in DOMAIN old
  PROVE  Successor(old, v) = c <=> Cur(old, n, v) = c
<1>1. c \in DOMAIN g /\ Live(g[c]) /\ c # 0
  BY DEF LiveNodes, IsGraph
<1>2. Handed(old, n, v) <=> Follows(old, v) # 0
  BY DEF Handed
<1>3. CASE old[v].type # "REPLACED_T"
  BY <1>2, <1>3 DEF Successor, Cur, Follows
<1>4. CASE old[v].type = "REPLACED_T" /\ Follows(old, v) # 0
  BY <1>2, <1>4 DEF Successor, Cur, Follows
<1>5. CASE old[v].type = "REPLACED_T" /\ Follows(old, v) = 0
  <2>1. Successor(old, v) = 0 /\ Cur(old, n, v) = v
    BY <1>2, <1>5 DEF Successor, Cur, Follows
  <2>2. g[v].type = "REPLACED"
    BY <1>2, <1>5 DEF Kept
  <2>3. v # c
    BY <1>1, <2>2 DEF Live
  <2>. QED
    BY <1>1, <2>1, <2>3
<1>. QED
  BY <1>3, <1>4, <1>5

LEMMA LiveOpen ==
  ASSUME NEW old, NEW n, Kept(old, g, n), NEW c \in LiveNodes(g)
  PROVE  c \in DOMAIN g /\ Open(old, n, c)
<1>1. c \in DOMAIN g /\ ~Gone(g[c])
  BY DEF LiveNodes, Live, Gone
<1>. QED
  BY <1>1, StillOpen

(* do_replace merges each node that it replaces with its successor, for every
   graph and whatever the order of the nodes: two live nodes are neighbours
   when it is done exactly if they, or nodes they succeed, were before, and by
   an edge with an attribute that such an edge had. *)
THEOREM ReplacedNodesMerge == ExpandSpec => []HandingOverMerges
<1>1. ASSUME RInv PROVE HandingOverMerges
  <2> DEFINE old == job.before
             n == job.i
             merged(a) == {v \in DOMAIN old : Successor(old, v) = a}
  <2>1. SUFFICES ASSUME HandingEnds, NEW a \in LiveNodes(g), NEW b \in LiveNodes(g)
                 PROVE  LET found == UNION {Between(old, pair[1], pair[2]) :
                                              pair \in merged(a) \X merged(b)}
                        IN  /\ AreAdjacent(g, a, b) <=> found # {}
                            /\ Between(g, a, b) \subseteq found
    BY DEF HandingOverMerges
  <2>2. job.kind = "handover" /\ job.node = 0 /\ n > Len(g)
    BY <2>1 DEF HandingEnds
  <2>3. /\ IsGraph(g) /\ HandsOver(g, job) /\ IsGraph(old) /\ Kept(old, g, n)
        /\ DOMAIN g = DOMAIN old /\ n \in Nat
    BY <1>1, <2>2, InHandOver
  <2>4. Settled(old, g, n)
    BY <2>2, <2>3 DEF HandsOver
  <2>5. \A v \in DOMAIN old : v < n
    BY <2>2, <2>3 DEF IsGraph
  <2> HIDE DEF old, n
  <2>6. ASSUME NEW c \in LiveNodes(g), NEW v \in DOMAIN old
        PROVE  Successor(old, v) = c <=> Cur(old, n, v) = c
    BY <2>3, <2>5, CurIsSuccessor
  <2>7. ASSUME NEW c \in LiveNodes(g)
        PROVE  c \in DOMAIN g /\ Open(old, n, c)
    BY <2>3, LiveOpen
  <2> DEFINE found == UNION {Between(old, pair[1], pair[2]) : pair \in merged(a) \X merged(b)}
  <2>8. ASSUME NEW t PROVE t \in found <=> MergedBy(old, n, a, b, t)
    <3>1. ASSUME t \in found PROVE MergedBy(old, n, a, b, t)
      <4>1. PICK pair \in merged(a) \X merged(b) : t \in Between(old, pair[1], pair[2])
        BY <3>1
      <4>2. /\ pair[1] \in DOMAIN old /\ Successor(old, pair[1]) = a
            /\ pair[2] \in DOMAIN old /\ Successor(old, pair[2]) = b
        BY <4>1
      <4>. QED
        BY <2>6, <4>1, <4>2 DEF MergedBy
    <3>2. ASSUME MergedBy(old, n, a, b, t) PROVE t \in found
      <4>1. PICK v \in DOMAIN old, w \in DOMAIN old :
              Cur(old, n, v) = a /\ Cur(old, n, w) = b /\ t \in Between(old, v, w)
        BY <3>2 DEF MergedBy
      <4>2. <<v, w>> \in merged(a) \X merged(b)
        BY <2>6, <4>1
      <4>3. t \in Between(old, <<v, w>>[1], <<v, w>>[2])
        BY <4>1
      <4>. QED
        BY <4>2, <4>3
    <3>. QED
      BY <3>1, <3>2
  <2> HIDE DEF found
  <2>9. Between(g, a, b) \subseteq found
    <3>1. ASSUME NEW k \in DOMAIN g[a].adj, g[a].adj[k].n = b
          PROVE  MergedBy(old, n, a, b, g[a].adj[k].attrs)
      BY <2>4, <2>7, <3>1 DEF Settled
    <3>. QED
      BY <2>8, <3>1 DEF Between
  <2>10. AreAdjacent(g, a, b) => found # {}
    BY <2>9 DEF AreAdjacent, Between
  <2>11. ASSUME found # {} PROVE AreAdjacent(g, a, b)
    <3>1. PICK t : MergedBy(old, n, a, b, t)
      BY <2>8, <2>11
    <3>2. Merged(old, n, a, b)
      BY <3>1, MergedBySome
    <3>. QED
      BY <2>4, <2>7, <3>2 DEF Settled
  <2>. QED
    BY <2>9, <2>10, <2>11 DEF found
<1>. QED
  BY <1>1, AlwaysRInv, PTL

(* The entries of one list for one node, once the loop is over, are no more
   than the edges they stand for. *)
LEMMA EntriesCounted ==
  ASSUME NEW old, IsGraph(old), IsGraph(g), NEW n, \A v \in DOMAIN old : v < n, Kept(old, g, n),
         NEW G \in Tracings(old), Traced(old, g, n, G),
         NEW a \in LiveNodes(g), NEW b \in DOMAIN old
  PROVE  LET merged(c) == {v \in DOMAIN old : Successor(old, v) = c}
         IN  Cardinality({k \in DOMAIN g[a].adj : g[a].adj[k].n = b}) <=
               Cardinality({pair \in merged(a) \X (merged(b) \cup {b}) :
                              AreAdjacent(old, pair[1], pair[2])})
<1> DEFINE merged(c) == {v \in DOMAIN old : Successor(old, v) = c}
           S == {k \in DOMAIN g[a].adj : g[a].adj[k].n = b}
           T == {pair \in merged(a) \X (merged(b) \cup {b}) : AreAdjacent(old, pair[1], pair[2])}
           F == [k \in S |-> G[a][k]]
<1>1. a \in DOMAIN g /\ Open(old, n, a)
  BY LiveOpen
<1>2. /\ \A k \in DOMAIN g[a].adj : Stands(old, n, G[a][k], a, g[a].adj[k].n)
      /\ Apart(g[a].adj, G[a])
  BY <1>1 DEF Traced
<1>3. ASSUME NEW k \in S PROVE F[k] \in T
  <2>1. k \in DOMAIN g[a].adj /\ Stands(old, n, G[a][k], a, b)
    BY <1>2
  <2>2. G[a][k] \in Nat \X Nat
    <3>1. a \in DOMAIN old
      BY <1>1 DEF Open
    <3>2. k \in Nat
      <4>1. g[a].adj \in Seq(Edge)
        BY <1>1, NodeFields
      <4>. QED
        BY <2>1, <4>1
    <3>. QED
      BY <3>1, <3>2 DEF Tracings
  <2>3. PICK v, w : G[a][k] = <<v, w>>
    BY <2>2
  <2>4. /\ v \in DOMAIN old /\ w \in DOMAIN old /\ AreAdjacent(old, v, w)
        /\ Cur(old, n, v) = a /\ Cur(old, n, w) = b
    BY <2>1, <2>3 DEF Stands
  <2>5. v \in merged(a)
    BY <2>4, CurIsSuccessor
  <2>6. w \in merged(b) \cup {b}
    BY <2>4 DEF Cur, Handed, Follows, Successor
  <2>7. <<v, w>> \in T
    BY <2>4, <2>5, <2>6
  <2>. QED
    BY <2>3, <2>7
<1>4. F \in Injection(S, T)
  <2>1. F \in [S -> T]
    BY <1>3
  <2>2. ASSUME NEW k \in S, NEW l \in S, F[k] = F[l] PROVE k = l
    BY <1>2, <2>2 DEF Apart
  <2>. QED
    BY <2>1, <2>2 DEF Injection, IsInjective
<1>5. IsFiniteSet(T)
  <2>1. IsFiniteSet(DOMAIN old)
    <3>1. DOMAIN old = 1..Len(old) /\ Len(old) \in Nat
      BY DEF IsGraph
    <3>. QED
      BY <3>1, FS_Interval
  <2>2. IsFiniteSet((DOMAIN old) \X (DOMAIN old))
    BY <2>1, FS_Product
  <2>3. T \subseteq (DOMAIN old) \X (DOMAIN old)
    OBVIOUS
  <2>. QED
    BY <2>2, <2>3, FS_Subset
<1> HIDE DEF S, T, F
<1>6. Cardinality(S) <= Cardinality(T)
  BY <1>4, <1>5, FS_Injection
<1>. QED
  BY <1>6 DEF S, T, merged

(* do_replace leaves no entry for a node that has handed over, and no more
   entries for a node than there were edges to merge, for every graph where no
   list named a neighbour twice, or one that was gone: whoever leads to a node
   that is replaced has one entry for it, and that one is turned. *)
THEOREM NothingStaleEver == ExpandSpec => []NothingStale
<1>1. ASSUME RInv PROVE NothingStale
  <2> DEFINE old == job.before
             n == job.i
             merged(c) == {v \in DOMAIN old : Successor(old, v) = c}
  <2>1. SUFFICES ASSUME HandingEnds, NoParallel(old), NoneStale(old)
                 PROVE  /\ NoneStale(g)
                        /\ \A a \in LiveNodes(g) : \A b \in Neighbours(g, a) :
                             Cardinality({k \in DOMAIN g[a].adj : g[a].adj[k].n = b}) <=
                               Cardinality({pair \in merged(a) \X (merged(b) \cup {b}) :
                                              AreAdjacent(old, pair[1], pair[2])})
    BY DEF NothingStale
  <2>2. job.kind = "handover" /\ job.node = 0 /\ n > Len(g)
    BY <2>1 DEF HandingEnds
  <2>3. /\ IsGraph(g) /\ HandsOver(g, job) /\ IsGraph(old) /\ Kept(old, g, n)
        /\ DOMAIN g = DOMAIN old /\ n \in Nat /\ MarkedNamed(old)
    BY <1>1, <2>2, InHandOver
  <2>4. Clean(old, g, n, 0, job.j)
    BY <2>1, <2>2, <2>3 DEF HandsOver
  <2>5. \A v \in DOMAIN old : v < n
    BY <2>2, <2>3 DEF IsGraph
  <2> HIDE DEF old, n
  <2>6. ASSUME NEW v \in DOMAIN g, NEW w \in Neighbours(g, v), ~Gone(g[v]) PROVE ~Gone(g[w])
    <3>1. PICK k \in DOMAIN g[v].adj : g[v].adj[k].n = w
      BY DEF Neighbours
    <3>2. Open(old, n, w)
      BY <2>3, <2>4, <2>6, <3>1, StillOpen DEF Clean, Within
    <3>3. /\ w \in DOMAIN old /\ ~Gone(old[w]) /\ g[w].name = old[w].name
          /\ g[w].type = IF w < n /\ old[w].type = "REPLACED_T" THEN "REPLACED" ELSE old[w].type
      BY <2>3, <3>2 DEF Open, Kept
    <3>. QED
      BY <2>3, <3>3 DEF Gone, MarkedNamed
  <2>7. NoneStale(g)
    BY <2>6 DEF NoneStale
  <2>8. PICK G \in Tracings(old) : Traced(old, g, n, G)
    BY <2>4 DEF Clean
  <2>9. ASSUME NEW a \in LiveNodes(g), NEW b \in Neighbours(g, a)
        PROVE  Cardinality({k \in DOMAIN g[a].adj : g[a].adj[k].n = b}) <=
                 Cardinality({pair \in merged(a) \X (merged(b) \cup {b}) :
                                AreAdjacent(old, pair[1], pair[2])})
    <3>1. a \in DOMAIN g /\ Open(old, n, a)
      BY <2>3, LiveOpen
    <3>2. b \in DOMAIN old
      BY <2>4, <3>1 DEF Clean, Within, Neighbours, Open
    <3>. QED
      BY <2>3, <2>5, <2>8, <3>2, EntriesCounted
  <2>. QED
    BY <2>7, <2>9
<1>. QED
  BY <1>1, AlwaysRInv, PTL

----------------------------------------------------------------------------
(* What was asked: between the calls of do_replace it is there; during one it
   was there before, of nodes whose edges the nodes that are asked now have. *)
AllReached(gr, pairs) == \A pair \in pairs : Reaches(gr, pair[1], pair[2])

AllMerged(old, n, pairs) ==
  \A pair \in pairs : \E v, w \in DOMAIN old :
    pair[1] = Cur(old, n, v) /\ pair[2] = Cur(old, n, w) /\ Reaches(old, v, w)

AInv ==
  /\ job \notin HandOverJob => AllReached(g, asked)
  /\ job \in HandOverJob => AllMerged(job.before, job.i, asked)

(* Whoever has the edges of a node that was there is there, under its name. *)
LEMMA CurStays ==
  ASSUME NEW old, IsGraph(old), MarkedNamed(old), NEW gr, NEW n, Kept(old, gr, n),
         NEW v \in DOMAIN old, ~Gone(old[v])
  PROVE  LET c == Cur(old, n, v)
         IN  c \in DOMAIN gr /\ Open(old, n, c) /\ gr[c].name = old[v].name /\ ~Gone(gr[c])
<1> DEFINE c == Cur(old, n, v)
<1>1. Open(old, n, c) /\ old[c].name = old[v].name
  <2>1. CASE Handed(old, n, v)
    <3>1. c = Follows(old, v) /\ Follows(old, v) # 0
      BY <2>1 DEF Cur, Handed
    <3> HIDE DEF c
    <3>2. Open(old, n, c)
      BY <3>1, FollowerStays
    <3>3. c = FindNode(old, old[v].name)
      BY <3>1, FollowsNode
    <3>. QED
      BY <3>1, <3>2, <3>3, FindNodeRange DEF IsGraph
  <2>2. CASE ~Handed(old, n, v)
    BY <2>2 DEF Cur, Open
  <2>. QED
    BY <2>1, <2>2
<1> HIDE DEF c
<1>2. c \in DOMAIN old /\ ~Handed(old, n, c) /\ ~Gone(old[c])
  BY <1>1 DEF Open
<1>3. /\ c \in DOMAIN gr /\ gr[c].name = old[c].name
      /\ gr[c].type = IF c < n /\ old[c].type = "REPLACED_T" THEN "REPLACED" ELSE old[c].type
  BY <1>2 DEF Kept
<1>4. ~Gone(gr[c])
  BY <1>2, <1>3 DEF Gone, MarkedNamed
<1>. QED
  BY <1>1, <1>3, <1>4 DEF c

(* Handing over takes an edge that was asked of a node to its successor. *)
LEMMA EndMerged ==
  ASSUME NEW old, IsGraph(old), MarkedNamed(old), NEW gr, NEW n,
         Kept(old, gr, n), Settled(old, gr, n),
         NEW v \in DOMAIN old, ~Gone(old[v]), NEW x \in DOMAIN old, EndAt(old, v, x)
  PROVE  EndAt(gr, Cur(old, n, v), Cur(old, n, x))
<1> DEFINE a == Cur(old, n, v)
           b == Cur(old, n, x)
<1>1. ~Gone(old[x])
  BY DEF EndAt
<1>2. /\ a \in DOMAIN gr /\ Open(old, n, a) /\ gr[a].name = old[v].name
      /\ b \in DOMAIN gr /\ Open(old, n, b) /\ gr[b].name = old[x].name /\ ~Gone(gr[b])
  BY <1>1, CurStays
<1>3. CASE x = v
  BY <1>2, <1>3 DEF EndAt
<1>4. CASE x # v
  <2>1. AreAdjacent(old, v, x) /\ PartIn(old, v, x)
    BY <1>4 DEF EndAt
  <2>2. Merged(old, n, a, b)
    BY <2>1 DEF Merged
  <2> HIDE DEF a, b
  <2>3. AreAdjacent(gr, a, b)
    BY <1>2, <2>2 DEF Settled
  <2>4. PartIn(gr, a, b)
    BY <1>2, <2>1 DEF PartIn
  <2>. QED
    BY <1>2, <2>3, <2>4 DEF EndAt, a, b
<1>. QED
  BY <1>3, <1>4

LEMMA ReachesMerged ==
  ASSUME NEW old, IsGraph(old), MarkedNamed(old), NEW gr, NEW n,
         Kept(old, gr, n), Settled(old, gr, n), NEW v, NEW w, Reaches(old, v, w)
  PROVE  Reaches(gr, Cur(old, n, v), Cur(old, n, w))
<1>1. v \in DOMAIN old /\ w \in DOMAIN old
  BY DEF Reaches
<1>2. ASSUME NEW u \in DOMAIN old, Gone(old[u])
      PROVE  Cur(old, n, u) \in DOMAIN gr /\ Gone(gr[Cur(old, n, u)])
  <2>1. Cur(old, n, u) = u /\ ~Handed(old, n, u)
    BY <1>2 DEF Gone, Cur, Handed, Follows
  <2>. QED
    BY <1>2, <2>1 DEF Kept, Gone
<1>3. ASSUME NEW u \in DOMAIN old PROVE Cur(old, n, u) \in DOMAIN gr
  BY <1>2, CurStays
<1>4. CASE Gone(old[v]) \/ Gone(old[w])
  BY <1>1, <1>2, <1>3, <1>4 DEF Reaches
<1>5. CASE ~Gone(old[v]) /\ ~Gone(old[w])
  <2>1. PICK x \in DOMAIN old, y \in DOMAIN old :
          EndAt(old, v, x) /\ EndAt(old, w, y) /\ AreAdjacent(old, x, y)
    BY <1>5 DEF Reaches
  <2>2. EndAt(gr, Cur(old, n, v), Cur(old, n, x)) /\ EndAt(gr, Cur(old, n, w), Cur(old, n, y))
    BY <1>1, <1>5, <2>1, EndMerged
  <2>3. Merged(old, n, Cur(old, n, x), Cur(old, n, y))
    BY <2>1 DEF Merged
  <2>4. ~Gone(old[x]) /\ ~Gone(old[y])
    BY <2>1 DEF EndAt
  <2>5. /\ Open(old, n, Cur(old, n, x)) /\ Cur(old, n, x) \in DOMAIN gr
        /\ Open(old, n, Cur(old, n, y)) /\ Cur(old, n, y) \in DOMAIN gr
    BY <2>4, CurStays
  <2>6. AreAdjacent(gr, Cur(old, n, x), Cur(old, n, y))
    BY <2>3, <2>5 DEF Settled
  <2>. QED
    BY <1>1, <1>3, <2>2, <2>5, <2>6 DEF Reaches
<1>. QED
  BY <1>4, <1>5

LEMMA RewiresAsked ==
  ASSUME RInv, AInv, Rewires
  PROVE  AInv'
<1>1. Extended(g, g') /\ job' \notin HandOverJob /\ AllReached(g, asked) /\ IsGraph(g)
  BY JobsApart DEF Rewires, Wired, AInv, RInv
<1>2. Stays(g, g')
  BY <1>1, ExtendedStays
<1>3. \A pair \in asked : Reaches(g', pair[1], pair[2])
  BY <1>1, <1>2, ReachesStays DEF AllReached
<1>4. \A pair \in asked' : Reaches(g', pair[1], pair[2])
  <2>1. CASE asked' = asked
    BY <1>3, <2>1
  <2>2. CASE \E a, b \in DOMAIN g : asked' = asked \cup {<<a, b>>} /\ Reaches(g', a, b)
    BY <1>3, <2>2
  <2>. QED
    BY <2>1, <2>2 DEF Rewires, Asks
<1>5. AllReached(g', asked')
  BY <1>4 DEF AllReached
<1>. QED
  BY <1>1, <1>5 DEF AInv

LEMMA MarkAsked ==
  ASSUME RInv, AInv, NEW names, <<>> \notin names, Mark(names)
  PROVE  AInv'
<1>1. job = Idle /\ job' = Idle /\ asked' = asked /\ IsGraph(g) /\ AllReached(g, asked)
  BY IdleNow DEF Mark, Start, RInv, AInv
<1>2. g' = [v \in DOMAIN g |-> IF g[v].name \in names
                              THEN [g[v] EXCEPT !.type = "REPLACED_T"] ELSE g[v]]
  BY DEF Mark
<1>3. ASSUME NEW v \in DOMAIN g
      PROVE  g'[v].adj = g[v].adj /\ g'[v].name = g[v].name /\ (Gone(g'[v]) <=> Gone(g[v]))
  <2>1. g[v] \in Node
    BY <1>1 DEF IsGraph
  <2>2. CASE g[v].name \in names
    <3>1. g'[v] = [g[v] EXCEPT !.type = "REPLACED_T"]
      BY <1>2, <2>2
    <3>2. g'[v].adj = g[v].adj /\ g'[v].name = g[v].name
      BY <2>1, <3>1 DEF Node
    <3>. QED
      BY <2>2, <3>2 DEF Gone
  <2>3. CASE g[v].name \notin names
    BY <1>2, <2>3
  <2>. QED
    BY <2>2, <2>3
<1>4. Stays(g, g')
  BY <1>2, <1>3 DEF Stays, AreAdjacent
<1>5. AllReached(g', asked')
  BY <1>1, <1>4, ReachesStays DEF AllReached
<1>6. job' \notin HandOverJob
  BY <1>1, JobsApart
<1>. QED
  BY <1>5, <1>6 DEF AInv

LEMMA HandOverAsked ==
  ASSUME RInv, AInv, HandOver
  PROVE  AInv'
<1>1. /\ job' = [kind |-> "handover", i |-> 1, j |-> 1, node |-> 0, before |-> g]
      /\ asked' = asked /\ job = Idle /\ IsGraph(g) /\ AllReached(g, asked)
  BY IdleNow DEF HandOver, Start, RInv, AInv
<1>2. \A v \in DOMAIN g : Cur(g, 1, v) = v
  BY <1>1 DEF Cur, Handed, IsGraph
<1>3. AllMerged(g, 1, asked)
  BY <1>1, <1>2 DEF AllReached, AllMerged, Reaches
<1>4. job'.before = g /\ job'.i = 1
  BY <1>1
<1>5. job' \in HandOverJob
  BY <1>1 DEF HandOverJob, IsGraph
<1>. QED
  BY <1>1, <1>3, <1>4, <1>5 DEF AInv

(* Where the counter stays, or passes a node that hands nothing over. *)
LEMMA MergedStays ==
  ASSUME AInv, job \in HandOverJob, job' \in HandOverJob, job'.before = job.before,
         asked' = asked, IsGraph(job.before),
         \/ job'.i = job.i
         \/ /\ job'.i = job.i + 1 /\ job.i \in DOMAIN job.before
            /\ Follows(job.before, job.i) = 0
  PROVE  AInv'
<1>1. \A v \in DOMAIN job.before : Cur(job.before, job'.i, v) = Cur(job.before, job.i, v)
  <2>1. CASE job'.i = job.i
    BY <2>1
  <2>2. CASE /\ job'.i = job.i + 1 /\ job.i \in DOMAIN job.before
             /\ Follows(job.before, job.i) = 0
    BY <2>2, StepWithoutSuccessor
  <2>. QED
    BY <2>1, <2>2
<1>2. AllMerged(job.before, job.i, asked)
  BY DEF AInv
<1>3. AllMerged(job.before, job'.i, asked)
  BY <1>1, <1>2 DEF AllMerged
<1>4. AllMerged(job'.before, job'.i, asked')
  BY <1>3
<1>. QED
  BY <1>4 DEF AInv

LEMMA NextMarkedAsked ==
  ASSUME RInv, AInv, NextMarked
  PROVE  AInv'
<1> DEFINE new == FindNode(g, g[job.i].name)
<1>1. job.kind = "handover" /\ job.node = 0 /\ job.i <= Len(g) /\ asked' = asked
  BY DEF NextMarked, Handing
<1>2. /\ job \in HandOverJob /\ IsGraph(g) /\ HandsOver(g, job) /\ IsGraph(job.before)
      /\ Kept(job.before, g, job.i) /\ job.i \in Nat \ {0} /\ job.i + 1 \in Nat \ {0}
      /\ DOMAIN g = DOMAIN job.before
  BY <1>1, InHandOver
<1>3. job.i \in DOMAIN g /\ job.i \in DOMAIN job.before
  BY <1>1, <1>2 DEF IsGraph
<1>4. CASE g[job.i].type = "REPLACED_T" /\ new # 0
  <2>1. job' = [job EXCEPT !.node = new, !.j = 1]
    BY <1>4 DEF NextMarked
  <2>2. new \in 0..Len(g) /\ Len(g) \in Nat
    BY <1>2, FindNodeRange DEF IsGraph
  <2> HIDE DEF new
  <2>3. new \in Nat
    BY <2>2
  <2>4. /\ [job EXCEPT !.node = new, !.j = 1] \in HandOverJob
        /\ [job EXCEPT !.node = new, !.j = 1].i = job.i
        /\ [job EXCEPT !.node = new, !.j = 1].j = 1
        /\ [job EXCEPT !.node = new, !.j = 1].node = new
        /\ [job EXCEPT !.node = new, !.j = 1].before = job.before
    <3>1. new \in Nat /\ 1 \in Nat \ {0}
      BY <2>3
    <3>. QED
      BY <1>2, <3>1 DEF HandOverJob
  <2>5. job' \in HandOverJob /\ job'.i = job.i /\ job'.before = job.before
    BY <2>1, <2>4, Zenon
  <2>. QED
    BY <1>1, <1>2, <2>5, MergedStays
<1>5. CASE ~(g[job.i].type = "REPLACED_T" /\ new # 0)
  <2> DEFINE h == IF g[job.i].type = "REPLACED_T"
                  THEN [g EXCEPT ![job.i].type = "REPLACED"] ELSE g
  <2>1. job' = [job EXCEPT !.i = job.i + 1]
    BY <1>5 DEF NextMarked
  <2>2. Settled(job.before, g, job.i)
    BY <1>1, <1>2 DEF HandsOver
  <2>3. Follows(job.before, job.i) = 0
    BY <1>2, <1>3, <1>5, <2>2, Passed
  <2>4. PICK n \in Nat \ {0} : n = job.i + 1 /\ job' = [job EXCEPT !.i = n]
    BY <1>2, <2>1
  <2>5. job' \in HandOverJob /\ job'.i = n /\ job'.before = job.before
    BY <1>2, <2>4, CounterOn, Zenon
  <2>. QED
    BY <1>1, <1>2, <1>3, <2>3, <2>4, <2>5, MergedStays
<1>. QED
  BY <1>4, <1>5

LEMMA HandEntryAsked ==
  ASSUME RInv, AInv, HandEntry
  PROVE  AInv'
<1>1. job.kind = "handover" /\ asked' = asked /\ job' = [job EXCEPT !.j = job.j + 1]
  BY DEF HandEntry, Handing
<1>2. job \in HandOverJob /\ IsGraph(job.before) /\ job.j + 1 \in Nat \ {0}
  BY <1>1, InHandOver
<1>3. PICK n \in Nat \ {0} : job' = [job EXCEPT !.j = n]
  BY <1>1, <1>2
<1>4. job' \in HandOverJob /\ job'.i = job.i /\ job'.before = job.before
  BY <1>2, <1>3, EntryOn, Zenon
<1>. QED
  BY <1>1, <1>2, <1>4, MergedStays

(* What was asked of the node that is done with is asked of its successor. *)
LEMMA NodeHandedAsked ==
  ASSUME RInv, AInv, NodeHanded
  PROVE  AInv'
<1> DEFINE old == job.before
           i == job.i
           s == job.node
<1>1. job.kind = "handover" /\ s # 0
  BY DEF NodeHanded, Handing
<1>2. job \in HandOverJob /\ IsGraph(old) /\ i + 1 \in Nat \ {0}
  BY <1>1, InHandOver
<1>3. i \in DOMAIN old /\ s = Follows(old, i)
  BY <1>1, SuccessorInHand
<1>4. job' \in HandOverJob /\ job'.i = i + 1 /\ job'.before = old
  <2>1. PICK n \in Nat \ {0} : n = i + 1 /\ job' = [job EXCEPT !.i = n, !.node = 0]
    BY <1>2 DEF NodeHanded
  <2>2. 0 \in Nat
    OBVIOUS
  <2>3. /\ [job EXCEPT !.i = n, !.node = 0] \in HandOverJob
        /\ [job EXCEPT !.i = n, !.node = 0].i = n
        /\ [job EXCEPT !.i = n, !.node = 0].node = 0
        /\ [job EXCEPT !.i = n, !.node = 0].before = job.before
    BY <1>2, <2>2, NodeLeft, Zenon
  <2>. QED
    BY <2>1, <2>3, Zenon
<1>5. asked' = {<<Into(i, s, pair[1]), Into(i, s, pair[2])>> : pair \in asked}
  BY DEF NodeHanded, Into
<1>6. AllMerged(old, i, asked)
  BY <1>2 DEF AInv
<1> HIDE DEF old, i, s
<1>7. \A v \in DOMAIN old : Cur(old, i + 1, v) = Into(i, s, Cur(old, i, v))
  BY <1>1, <1>2, <1>3, StepWithSuccessor
<1>8. ASSUME NEW pair \in asked'
      PROVE  \E v, w \in DOMAIN old :
               pair[1] = Cur(old, i + 1, v) /\ pair[2] = Cur(old, i + 1, w) /\ Reaches(old, v, w)
  <2>1. PICK was \in asked : pair = <<Into(i, s, was[1]), Into(i, s, was[2])>>
    BY <1>5
  <2>2. PICK v \in DOMAIN old, w \in DOMAIN old :
          was[1] = Cur(old, i, v) /\ was[2] = Cur(old, i, w) /\ Reaches(old, v, w)
    BY <1>6 DEF AllMerged
  <2>3. pair[1] = Cur(old, i + 1, v) /\ pair[2] = Cur(old, i + 1, w)
    BY <1>7, <2>1, <2>2
  <2>. QED
    BY <2>2, <2>3
<1>9. AllMerged(old, i + 1, asked')
  BY <1>8 DEF AllMerged
<1>. QED
  BY <1>4, <1>9 DEF AInv

LEMMA HandOverDoneAsked ==
  ASSUME RInv, AInv, HandOverDone
  PROVE  AInv'
<1> DEFINE old == job.before
           n == job.i
<1>1. job.kind = "handover" /\ job.node = 0 /\ job' = Idle /\ g' = g /\ asked' = asked
  BY DEF HandOverDone, Handing
<1>2. /\ job \in HandOverJob /\ HandsOver(g, job) /\ IsGraph(old) /\ MarkedNamed(old)
      /\ Kept(old, g, n)
  BY <1>1, InHandOver
<1>3. Settled(old, g, n) /\ AllMerged(old, n, asked)
  BY <1>1, <1>2 DEF HandsOver, AInv
<1> HIDE DEF old, n
<1>4. ASSUME NEW pair \in asked PROVE Reaches(g, pair[1], pair[2])
  <2>1. PICK v \in DOMAIN old, w \in DOMAIN old :
          pair[1] = Cur(old, n, v) /\ pair[2] = Cur(old, n, w) /\ Reaches(old, v, w)
    BY <1>3 DEF AllMerged
  <2>. QED
    BY <1>2, <1>3, <2>1, ReachesMerged
<1>5. AllReached(g', asked')
  BY <1>1, <1>4 DEF AllReached
<1>6. job' \notin HandOverJob
  BY <1>1, JobsApart
<1>. QED
  BY <1>5, <1>6 DEF AInv

LEMMA OperationAsked ==
  ASSUME RInv, AInv, Operates
  PROVE  AInv'
<1>1. CASE Connects
  BY <1>1, ConnectsRewires, RewiresAsked
<1>2. CASE \E names : <<>> \notin names /\ Mark(names)
  BY <1>2, MarkAsked
<1>3. CASE HandOver
  BY <1>3, HandOverAsked
<1>4. CASE HandOverStep
  BY <1>4, NextMarkedAsked, HandEntryAsked, NodeHandedAsked, HandOverDoneAsked DEF HandOverStep
<1>. QED
  BY <1>1, <1>2, <1>3, <1>4 DEF Operates

LEMMA AlwaysAInv == ExpandSpec => []AInv
<1>1. ExpandInit => AInv
  <2>1. SUFFICES ASSUME ExpandInit PROVE AInv
    OBVIOUS
  <2>2. asked = {} /\ job = Idle
    BY <2>1 DEF ExpandInit, Init
  <2>. QED
    BY <2>2, JobsApart DEF AInv, AllReached
<1>2. IInv /\ RInv /\ AInv /\ [ExpandNext]_expandVars => AInv'
  <2>1. SUFFICES ASSUME IInv, RInv, AInv, [ExpandNext]_expandVars PROVE AInv'
    OBVIOUS
  <2>2. CASE Operates
    BY <2>1, <2>2, OperationAsked
  <2>3. CASE UNCHANGED wiring
    BY <2>1, <2>3 DEF wiring, AInv
  <2>4. Operates \/ UNCHANGED wiring
    <3>1. CASE ExpandNext
      BY <2>1, <3>1, ExpansionOperates DEF RInv
    <3>2. CASE UNCHANGED expandVars
      BY <3>2 DEF expandVars
    <3>. QED
      BY <2>1, <3>1, <3>2
  <2>. QED
    BY <2>2, <2>3, <2>4
<1>. QED
  BY <1>1, <1>2, AlwaysIInv, AlwaysRInv, PTL DEF ExpandSpec

(* What connections asked for is there between the operations of an expansion,
   for every definition and however often its ends are replaced, a gate by a
   node also: do_replace loses an edge only with a gate that has no successor. *)
THEOREM AskedSurvivesAlways == ExpandSpec => []AskedSurvives
<1>1. ASSUME RInv, AInv PROVE AskedSurvives
  <2>1. SUFFICES ASSUME job = Idle, NEW pair \in asked, Live(g[pair[1]]), Live(g[pair[2]])
                 PROVE  \/ \E x \in EndsOf(pair[1]), y \in EndsOf(pair[2]) : AreAdjacent(g, x, y)
                        \/ Lost(pair[1]) \/ Lost(pair[2])
    BY DEF AskedSurvives
  <2> DEFINE v == pair[1]
             w == pair[2]
  <2>2. Reaches(g, v, w)
    BY <1>1, <2>1, JobsApart DEF AInv, AllReached
  <2>3. ~Gone(g[v]) /\ ~Gone(g[w]) /\ Live(g[v]) /\ Live(g[w])
    BY <2>1 DEF Live, Gone
  <2> HIDE DEF v, w
  <2>4. PICK x \in DOMAIN g, y \in DOMAIN g :
          EndAt(g, v, x) /\ EndAt(g, w, y) /\ AreAdjacent(g, x, y)
    BY <2>2, <2>3 DEF Reaches
  <2>5. ASSUME NEW u, Live(g[u]), NEW z \in DOMAIN g, EndAt(g, u, z)
        PROVE  z \in EndsOf(u) \/ Lost(u)
    <3>1. CASE z = u
      BY <3>1 DEF EndsOf
    <3>2. CASE z # u
      <4>1. AreAdjacent(g, u, z) /\ PartOf(u, z)
        BY <2>5, <3>2 DEF EndAt, PartIn, PartOf
      <4>2. z \in Neighbours(g, u)
        BY <4>1 DEF AreAdjacent, Neighbours
      <4>. QED
        BY <4>1, <4>2 DEF EndsOf, Lost
    <3>. QED
      BY <3>1, <3>2
  <2>. QED
    BY <2>3, <2>4, <2>5 DEF v, w
<1>. QED
  BY <1>1, AlwaysRInv, AlwaysAInv, PTL
=============================================================================
