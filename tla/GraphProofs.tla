---------------------------- MODULE GraphProofs ----------------------------
(***************************************************************************)
(* What the operations of Graph return and preserve, for the invariance    *)
(* proofs of the modules that use them.                                    *)
(***************************************************************************)
EXTENDS Graph, WellFoundedInduction, TLAPS

(* A non-empty set of natural numbers has a least element, and Min is it. *)
LEMMA MinIsLeast ==
  ASSUME NEW S \in SUBSET Nat, S # {}
  PROVE  Min(S) \in S /\ \A k \in S : Min(S) <= k
<1> DEFINE Below == OpToRel(<, Nat)
<1>1. \E m \in S : \A k \in S : <<k, m>> \notin Below
  BY NatLessThanWellFounded, WFMin
<1>2. \A k, m \in Nat : <<k, m>> \in Below <=> k < m
  BY DEF OpToRel
<1> HIDE DEF Below
<1>3. \E m \in S : \A k \in S : m =< k
  <2>1. PICK m \in S : \A k \in S : <<k, m>> \notin Below
    BY <1>1
  <2>2. \A k \in S : ~ (k < m)
    BY <1>2, <2>1
  <2>. QED
    BY <2>2
<1>. QED
  BY <1>3 DEF Min

(* Induction, for a set of numbers. *)
LEMMA SetInduction ==
  ASSUME NEW S \in SUBSET Nat, 0 \in S, \A k \in S : k + 1 \in S
  PROVE  S = Nat
<1>1. SUFFICES ASSUME Nat \ S # {} PROVE FALSE
  OBVIOUS
<1>2. /\ Min(Nat \ S) \in Nat \ S
      /\ \A k \in Nat \ S : Min(Nat \ S) <= k
  BY <1>1, MinIsLeast
<1>. DEFINE m == Min(Nat \ S)
<1>3. m \in Nat /\ m \notin S /\ m # 0
  BY <1>2
<1>4. m - 1 \in Nat /\ m - 1 \notin S
  <2>. HIDE DEF m
  <2>1. m - 1 \in Nat /\ (m - 1) + 1 = m
    BY <1>3
  <2>. QED
    BY <1>3, <2>1
<1>5. m <= m - 1
  BY <1>2, <1>4
<1>. QED
  BY <1>3, <1>5

(* graph_find_node returns -1, here 0, or the id of a live node of the name. *)
LEMMA FindNodeRange ==
  ASSUME NEW g \in Seq(Node), NEW name
  PROVE  /\ FindNode(g, name) \in 0..Len(g)
         /\ FindNode(g, name) # 0 =>
              g[FindNode(g, name)].name = name /\ Live(g[FindNode(g, name)])
<1> DEFINE hits == {i \in DOMAIN g : g[i].name = name /\ Live(g[i])}
<1>1. hits \in SUBSET Nat /\ \A i \in hits : i \in 1..Len(g)
  OBVIOUS
<1>2. CASE hits = {}
  BY <1>2 DEF FindNode
<1>3. CASE hits # {}
  <2>1. FindNode(g, name) = Min(hits)
    BY <1>3 DEF FindNode
  <2>2. Min(hits) \in hits
    BY <1>1, <1>3, MinIsLeast
  <2>. QED
    BY <2>1, <2>2, <1>1
<1>. QED
  BY <1>2, <1>3

(* graph_add_node appends a node without neighbours and changes no other. *)
LEMMA AddNodeProperties ==
  ASSUME NEW g, IsGraph(g), NEW name \in Names, NEW type \in NodeTypes
  PROVE  /\ IsGraph(AddNode(g, name, type))
         /\ Len(AddNode(g, name, type)) = Len(g) + 1
         /\ \A i \in DOMAIN g : AddNode(g, name, type)[i] = g[i]
         /\ AddNode(g, name, type)[Len(g) + 1] = [name |-> name, type |-> type, adj |-> <<>>]
         /\ Symmetric(g) => Symmetric(AddNode(g, name, type))
         /\ Loopless(g) => Loopless(AddNode(g, name, type))
<1> DEFINE node == [name |-> name, type |-> type, adj |-> <<>>]
           h    == AddNode(g, name, type)
<1>1. g \in Seq(Node) /\ node \in Node
  BY DEF IsGraph, Node
<1>2. /\ h \in Seq(Node) /\ Len(h) = Len(g) + 1
      /\ \A i \in 1..Len(g) : h[i] = g[i]
      /\ h[Len(g) + 1] = node
  BY <1>1 DEF AddNode
<1>3. \A i \in DOMAIN h : i \in DOMAIN g \/ (i = Len(g) + 1 /\ h[i].adj = <<>>)
  BY <1>1, <1>2
<1>4. IsGraph(h)
  BY <1>1, <1>2, <1>3 DEF IsGraph
<1>5. ASSUME Symmetric(g) PROVE Symmetric(h)
  <2>1. SUFFICES ASSUME NEW i \in DOMAIN h, NEW k \in DOMAIN h[i].adj
                 PROVE  \E l \in DOMAIN h[h[i].adj[k].n].adj :
                          h[h[i].adj[k].n].adj[l] = [n |-> i, attrs |-> h[i].adj[k].attrs]
    BY DEF Symmetric
  <2>2. i \in DOMAIN g /\ h[i] = g[i]
    BY <1>1, <1>2, <1>3
  <2>3. g[i].adj[k].n \in DOMAIN g
    BY <2>2 DEF IsGraph
  <2>4. h[g[i].adj[k].n] = g[g[i].adj[k].n]
    BY <1>1, <1>2, <2>3
  <2>. QED
    BY <1>5, <2>2, <2>3, <2>4 DEF Symmetric
<1>6. Loopless(g) => Loopless(h)
  BY <1>2, <1>3 DEF Loopless
<1>. QED
  BY <1>1, <1>2, <1>4, <1>5, <1>6

(* What the type of a graph says of one node. *)
LEMMA NodeFields ==
  ASSUME NEW g, IsGraph(g), NEW i \in DOMAIN g
  PROVE  g[i].name \in Names /\ g[i].type \in NodeTypes /\ g[i].adj \in Seq(Edge)
<1>1. g[i] \in Node
  BY DEF IsGraph
<1>. QED
  BY <1>1 DEF Node

(* A node whose list is replaced keeps its name and type. *)
LEMMA NodeWithList ==
  ASSUME NEW node \in Node, NEW adj \in Seq(Edge)
  PROVE  /\ [node EXCEPT !.adj = adj] \in Node
         /\ [node EXCEPT !.adj = adj].adj = adj
         /\ [node EXCEPT !.adj = adj].name = node.name
         /\ [node EXCEPT !.adj = adj].type = node.type
BY DEF Node

(* One half of an edge: a's list grows by one entry, nothing else changes. *)
LEMMA AddHalfProperties ==
  ASSUME NEW g, IsGraph(g), NEW a \in DOMAIN g, NEW b \in DOMAIN g, NEW at \in EdgeAttrs
  PROVE  LET h == AddHalf(g, a, b, at)
         IN  /\ IsGraph(h)
             /\ Len(h) = Len(g) /\ DOMAIN h = DOMAIN g
             /\ \A i \in DOMAIN g : h[i].name = g[i].name /\ h[i].type = g[i].type
             /\ \A i \in DOMAIN g : i # a => h[i] = g[i]
             /\ h[a].adj = Append(g[a].adj, [n |-> b, attrs |-> at])
<1> DEFINE edge == [n |-> b, attrs |-> at]
           node == [g[a] EXCEPT !.adj = Append(g[a].adj, edge)]
           h    == AddHalf(g, a, b, at)
<1>1. g \in Seq(Node) /\ g[a] \in Node
  BY DEF IsGraph
<1>2. edge \in Edge
  <2>1. b \in Nat \ {0}
    BY <1>1
  <2>. QED
    BY <2>1 DEF Edge
<1>3. /\ node \in Node /\ node.adj = Append(g[a].adj, edge)
      /\ node.name = g[a].name /\ node.type = g[a].type
  <2>1. Append(g[a].adj, edge) \in Seq(Edge)
    BY <1>2, NodeFields
  <2>. QED
    BY <1>1, <2>1, NodeWithList
<1>4. h = [g EXCEPT ![a] = node]
  BY DEF AddHalf
<1>5. /\ h \in Seq(Node) /\ Len(h) = Len(g) /\ DOMAIN h = DOMAIN g
      /\ h[a] = node
      /\ \A i \in DOMAIN g : i # a => h[i] = g[i]
  BY <1>1, <1>3, <1>4
<1>6. IsGraph(h)
  <2>1. SUFFICES ASSUME NEW i \in DOMAIN h, NEW k \in DOMAIN h[i].adj
                 PROVE  h[i].adj[k].n \in DOMAIN h
    BY <1>5 DEF IsGraph
  <2>2. CASE i # a
    BY <1>5, <2>2 DEF IsGraph
  <2>3. CASE i = a
    <3>1. g[a].adj \in Seq(Edge) /\ h[a].adj = Append(g[a].adj, edge)
      BY <1>1, <1>3, <1>5 DEF Node
    <3>2. h[a].adj[k] = edge \/ (k \in DOMAIN g[a].adj /\ h[a].adj[k] = g[a].adj[k])
      BY <2>3, <3>1, <1>2
    <3>. QED
      BY <2>3, <3>2, <1>5 DEF IsGraph
  <2>. QED
    BY <2>2, <2>3
<1>. QED
  BY <1>3, <1>5, <1>6

(* An adjacency list after Append: the old entries in place, the new one last. *)
LEMMA AppendEntries ==
  ASSUME NEW adj \in Seq(Edge), NEW edge \in Edge
  PROVE  /\ \A k \in DOMAIN adj : k \in DOMAIN Append(adj, edge) /\ Append(adj, edge)[k] = adj[k]
         /\ Len(adj) + 1 \in DOMAIN Append(adj, edge)
         /\ Append(adj, edge)[Len(adj) + 1] = edge
         /\ \A k \in DOMAIN Append(adj, edge) : k \in DOMAIN adj \/ k = Len(adj) + 1
OBVIOUS

(* The effect of graph_add_edge_id when it adds: one entry at the end of the
   lists of two different nodes that were not neighbours, nothing else. *)
Joined(g, h, a, b, at) ==
  /\ a \in DOMAIN g /\ b \in DOMAIN g /\ a # b /\ ~AreAdjacent(g, a, b)
  /\ IsGraph(h) /\ Len(h) = Len(g) /\ DOMAIN h = DOMAIN g
  /\ \A i \in DOMAIN g : h[i].name = g[i].name /\ h[i].type = g[i].type
  /\ \A i \in DOMAIN g : i # a /\ i # b => h[i] = g[i]
  /\ h[a].adj = Append(g[a].adj, [n |-> b, attrs |-> at])
  /\ h[b].adj = Append(g[b].adj, [n |-> a, attrs |-> at])

(* graph_add_edge_id adds an edge or changes nothing. *)
LEMMA AddEdgeIdEffect ==
  ASSUME NEW g, IsGraph(g), NEW a \in 0..Len(g), NEW b \in 0..Len(g), NEW at \in EdgeAttrs
  PROVE  AddEdgeId(g, a, b, at) = g \/ Joined(g, AddEdgeId(g, a, b, at), a, b, at)
<1>1. CASE EdgeRefused(g, a, b) \/ AreAdjacent(g, a, b)
  BY <1>1 DEF AddEdgeId
<1>2. CASE ~EdgeRefused(g, a, b) /\ ~AreAdjacent(g, a, b)
  <2> DEFINE e1 == AddHalf(g, a, b, at)
             e2 == AddHalf(e1, b, a, at)
  <2>1. a \in DOMAIN g /\ b \in DOMAIN g /\ a # b
    BY <1>2 DEF EdgeRefused, IsGraph
  <2>2. AddEdgeId(g, a, b, at) = e2
    BY <1>2 DEF AddEdgeId
  <2>3. /\ IsGraph(e1) /\ Len(e1) = Len(g) /\ DOMAIN e1 = DOMAIN g
        /\ \A i \in DOMAIN g : e1[i].name = g[i].name /\ e1[i].type = g[i].type
        /\ \A i \in DOMAIN g : i # a => e1[i] = g[i]
        /\ e1[a].adj = Append(g[a].adj, [n |-> b, attrs |-> at])
    BY SMTT(30), <2>1, AddHalfProperties
  <2>4. /\ IsGraph(e2) /\ Len(e2) = Len(e1) /\ DOMAIN e2 = DOMAIN e1
        /\ \A i \in DOMAIN e1 : e2[i].name = e1[i].name /\ e2[i].type = e1[i].type
        /\ \A i \in DOMAIN e1 : i # b => e2[i] = e1[i]
        /\ e2[b].adj = Append(e1[b].adj, [n |-> a, attrs |-> at])
    <3> HIDE DEF e1
    <3>1. a \in DOMAIN e1 /\ b \in DOMAIN e1 /\ IsGraph(e1)
      BY <2>1, <2>3
    <3>. QED
      BY SMTT(30), <3>1, AddHalfProperties
  <2> HIDE DEF e1, e2
  <2>5. e2[a] = e1[a] /\ e1[b] = g[b]
    BY <2>1, <2>3, <2>4
  <2>6. Joined(g, e2, a, b, at)
    BY <1>2, <2>1, <2>3, <2>4, <2>5 DEF Joined
  <2>. QED
    BY <2>2, <2>6
<1>. QED
  BY <1>1, <1>2

(* The entries of every list after an edge was added: the old ones in place,
   and one more for each end. *)
EntriesAfter(g, h, a, b, at) ==
  /\ \A v \in DOMAIN g : \A m \in DOMAIN g[v].adj :
       m \in DOMAIN h[v].adj /\ h[v].adj[m] = g[v].adj[m]
  /\ \A v \in DOMAIN g : \A m \in DOMAIN h[v].adj :
       \/ m \in DOMAIN g[v].adj
       \/ v = a /\ m = Len(g[a].adj) + 1
       \/ v = b /\ m = Len(g[b].adj) + 1
  /\ Len(g[a].adj) + 1 \in DOMAIN h[a].adj
  /\ h[a].adj[Len(g[a].adj) + 1] = [n |-> b, attrs |-> at]
  /\ Len(g[b].adj) + 1 \in DOMAIN h[b].adj
  /\ h[b].adj[Len(g[b].adj) + 1] = [n |-> a, attrs |-> at]

(* These are the entries after an effective graph_add_edge_id. *)
LEMMA JoinedEntries ==
  ASSUME NEW g, NEW h, NEW a, NEW b, NEW at \in EdgeAttrs, IsGraph(g), Joined(g, h, a, b, at)
  PROVE  EntriesAfter(g, h, a, b, at)
<1>1. \A i \in DOMAIN g : g[i].adj \in Seq(Edge)
  BY NodeFields
<1>2. [n |-> b, attrs |-> at] \in Edge /\ [n |-> a, attrs |-> at] \in Edge
  BY DEF Joined, IsGraph, Edge
<1>3. a \in DOMAIN g /\ b \in DOMAIN g /\ a # b
  BY DEF Joined
<1>4. \A i \in DOMAIN g : \A k \in DOMAIN g[i].adj :
        k \in DOMAIN h[i].adj /\ h[i].adj[k] = g[i].adj[k]
  <2>1. SUFFICES ASSUME NEW i \in DOMAIN g
                 PROVE  \A k \in DOMAIN g[i].adj :
                          k \in DOMAIN h[i].adj /\ h[i].adj[k] = g[i].adj[k]
    OBVIOUS
  <2>2. CASE i = a
    BY <1>1, <1>2, <1>3, <2>2, AppendEntries DEF Joined
  <2>3. CASE i = b
    BY <1>1, <1>2, <1>3, <2>3, AppendEntries DEF Joined
  <2>4. CASE i # a /\ i # b
    BY <2>4 DEF Joined
  <2>. QED
    BY <2>2, <2>3, <2>4
<1>5. \A i \in DOMAIN g : \A k \in DOMAIN h[i].adj :
        \/ k \in DOMAIN g[i].adj
        \/ i = a /\ k = Len(g[a].adj) + 1
        \/ i = b /\ k = Len(g[b].adj) + 1
  <2>1. SUFFICES ASSUME NEW i \in DOMAIN g, NEW k \in DOMAIN h[i].adj
                 PROVE  \/ k \in DOMAIN g[i].adj
                        \/ i = a /\ k = Len(g[a].adj) + 1
                        \/ i = b /\ k = Len(g[b].adj) + 1
    OBVIOUS
  <2>2. CASE i = a
    BY <1>1, <1>2, <1>3, <2>2, AppendEntries DEF Joined
  <2>3. CASE i = b
    BY SMTT(30), <1>1, <1>2, <1>3, <2>3, AppendEntries DEF Joined
  <2>4. CASE i # a /\ i # b
    BY <2>4 DEF Joined
  <2>. QED
    BY <2>2, <2>3, <2>4
<1>6. /\ Len(g[a].adj) + 1 \in DOMAIN h[a].adj
      /\ h[a].adj[Len(g[a].adj) + 1] = [n |-> b, attrs |-> at]
  BY <1>1, <1>2, <1>3, AppendEntries DEF Joined
<1>7. /\ Len(g[b].adj) + 1 \in DOMAIN h[b].adj
      /\ h[b].adj[Len(g[b].adj) + 1] = [n |-> a, attrs |-> at]
  BY <1>1, <1>2, <1>3, AppendEntries DEF Joined
<1>. QED
  BY <1>4, <1>5, <1>6, <1>7 DEF EntriesAfter

(* graph_add_edge_id with ids that are ids of the graph, or "no such node": the
   result is a graph with the same nodes whose lists have only grown. *)
LEMMA AddEdgeIdGraph ==
  ASSUME NEW g, IsGraph(g), NEW a \in 0..Len(g), NEW b \in 0..Len(g), NEW at \in EdgeAttrs
  PROVE  LET h == AddEdgeId(g, a, b, at)
         IN  /\ IsGraph(h)
             /\ Len(h) = Len(g) /\ DOMAIN h = DOMAIN g
             /\ \A i \in DOMAIN g : h[i].name = g[i].name /\ h[i].type = g[i].type
             /\ Grown(g, h)
<1> DEFINE h == AddEdgeId(g, a, b, at)
<1>1. CASE h = g
  BY <1>1 DEF Grown
<1>2. CASE Joined(g, h, a, b, at)
  <2> HIDE DEF h
  <2>1. EntriesAfter(g, h, a, b, at)
    BY <1>2, JoinedEntries
  <2>2. /\ IsGraph(h) /\ Len(h) = Len(g) /\ DOMAIN h = DOMAIN g
        /\ \A i \in DOMAIN g : h[i].name = g[i].name /\ h[i].type = g[i].type
    BY <1>2 DEF Joined
  <2>3. Grown(g, h)
    BY <2>1, <2>2 DEF Grown, EntriesAfter
  <2>. QED
    BY <2>2, <2>3 DEF h
<1>. QED
  BY <1>1, <1>2, AddEdgeIdEffect

(* It keeps the two lists of every edge in step. *)
LEMMA AddEdgeIdSymmetric ==
  ASSUME NEW g, IsGraph(g), Symmetric(g),
         NEW a \in 0..Len(g), NEW b \in 0..Len(g), NEW at \in EdgeAttrs
  PROVE  Symmetric(AddEdgeId(g, a, b, at))
<1> DEFINE h == AddEdgeId(g, a, b, at)
<1>1. CASE h = g
  BY <1>1
<1>2. CASE Joined(g, h, a, b, at)
  <2> HIDE DEF h
  <2>1. SUFFICES ASSUME NEW i \in DOMAIN h, NEW k \in DOMAIN h[i].adj
                 PROVE  \E l \in DOMAIN h[h[i].adj[k].n].adj :
                          h[h[i].adj[k].n].adj[l] = [n |-> i, attrs |-> h[i].adj[k].attrs]
    BY DEF Symmetric, h
  <2>2. i \in DOMAIN g /\ a \in DOMAIN g /\ b \in DOMAIN g
    BY <1>2 DEF Joined
  <2>3. EntriesAfter(g, h, a, b, at)
    BY <1>2, JoinedEntries
  <2>4. CASE k \in DOMAIN g[i].adj
    <3>1. h[i].adj[k] = g[i].adj[k]
      BY <2>2, <2>3, <2>4 DEF EntriesAfter
    <3>2. g[i].adj[k].n \in DOMAIN g
      BY <2>2, <2>4 DEF IsGraph
    <3>3. PICK l \in DOMAIN g[g[i].adj[k].n].adj :
            g[g[i].adj[k].n].adj[l] = [n |-> i, attrs |-> g[i].adj[k].attrs]
      BY <2>2, <2>4 DEF Symmetric
    <3>4. /\ l \in DOMAIN h[g[i].adj[k].n].adj
          /\ h[g[i].adj[k].n].adj[l] = g[g[i].adj[k].n].adj[l]
      BY <2>3, <3>2 DEF EntriesAfter
    <3>. QED
      BY <3>1, <3>3, <3>4
  <2>5. CASE i = a /\ k = Len(g[a].adj) + 1
    <3>1. h[i].adj[k].n = b /\ h[i].adj[k].attrs = at
      BY <2>3, <2>5 DEF EntriesAfter
    <3>. QED
      BY <2>3, <2>5, <3>1 DEF EntriesAfter
  <2>6. CASE i = b /\ k = Len(g[b].adj) + 1
    <3>1. h[i].adj[k].n = a /\ h[i].adj[k].attrs = at
      BY <2>3, <2>6 DEF EntriesAfter
    <3>. QED
      BY <2>3, <2>6, <3>1 DEF EntriesAfter
  <2>. QED
    BY <2>2, <2>3, <2>4, <2>5, <2>6 DEF EntriesAfter
<1>. QED
  BY <1>1, <1>2, AddEdgeIdEffect

(* It adds no loop. *)
LEMMA AddEdgeIdLoopless ==
  ASSUME NEW g, IsGraph(g), Loopless(g),
         NEW a \in 0..Len(g), NEW b \in 0..Len(g), NEW at \in EdgeAttrs
  PROVE  Loopless(AddEdgeId(g, a, b, at))
<1> DEFINE h == AddEdgeId(g, a, b, at)
<1>1. CASE h = g
  BY <1>1
<1>2. CASE Joined(g, h, a, b, at)
  <2> HIDE DEF h
  <2>1. SUFFICES ASSUME NEW i \in DOMAIN h, NEW k \in DOMAIN h[i].adj
                 PROVE  h[i].adj[k].n # i
    BY DEF Loopless, h
  <2>2. i \in DOMAIN g /\ a # b
    BY <1>2 DEF Joined
  <2>3. EntriesAfter(g, h, a, b, at)
    BY <1>2, JoinedEntries
  <2>4. CASE k \in DOMAIN g[i].adj
    BY <2>2, <2>3, <2>4 DEF Loopless, EntriesAfter
  <2>. QED
    BY <2>2, <2>3, <2>4 DEF EntriesAfter
<1>. QED
  BY <1>1, <1>2, AddEdgeIdEffect

(* graph_add_edge_name: the ids come from graph_find_node. *)
LEMMA AddEdgeNameProperties ==
  ASSUME NEW g, IsGraph(g), NEW nameA, NEW nameB, NEW at \in EdgeAttrs
  PROVE  /\ IsGraph(AddEdgeName(g, nameA, nameB, at))
         /\ Len(AddEdgeName(g, nameA, nameB, at)) = Len(g)
         /\ Symmetric(g) => Symmetric(AddEdgeName(g, nameA, nameB, at))
         /\ Loopless(g) => Loopless(AddEdgeName(g, nameA, nameB, at))
<1>1. FindNode(g, nameA) \in 0..Len(g) /\ FindNode(g, nameB) \in 0..Len(g)
  BY FindNodeRange DEF IsGraph
<1>2. IsGraph(AddEdgeName(g, nameA, nameB, at)) /\ Len(AddEdgeName(g, nameA, nameB, at)) = Len(g)
  BY <1>1, AddEdgeIdGraph DEF AddEdgeName
<1>3. Symmetric(g) => Symmetric(AddEdgeName(g, nameA, nameB, at))
  BY <1>1, AddEdgeIdSymmetric DEF AddEdgeName
<1>4. Loopless(g) => Loopless(AddEdgeName(g, nameA, nameB, at))
  BY <1>1, AddEdgeIdLoopless DEF AddEdgeName
<1>. QED
  BY <1>2, <1>3, <1>4

(* A name that one live node has is the name of that node. *)
LEMMA FindsTheOnlyOne ==
  ASSUME NEW g \in Seq(Node), NEW i \in DOMAIN g, Live(g[i]),
         \A k \in DOMAIN g : g[k].name = g[i].name /\ Live(g[k]) => k = i
  PROVE  FindNode(g, g[i].name) = i
<1> DEFINE hits == {k \in DOMAIN g : g[k].name = g[i].name /\ Live(g[k])}
<1>1. hits = {i}
  OBVIOUS
<1>2. {i} \in SUBSET Nat /\ {i} # {}
  OBVIOUS
<1>3. Min({i}) = i
  BY <1>2, MinIsLeast
<1>. QED
  BY <1>1, <1>3 DEF FindNode

(* A node that is added changes no other, and is nobody's neighbour yet. *)
LEMMA AddNodeGrows ==
  ASSUME NEW g, IsGraph(g), NEW name \in Names, NEW type \in NodeTypes
  PROVE  /\ Grown(g, AddNode(g, name, type))
         /\ NoParallel(g) => NoParallel(AddNode(g, name, type))
<1> DEFINE h == AddNode(g, name, type)
<1>1. /\ Len(h) = Len(g) + 1 /\ h \in Seq(Node) /\ g \in Seq(Node)
      /\ \A i \in DOMAIN g : h[i] = g[i]
      /\ h[Len(g) + 1].adj = <<>>
  <2>1. h[Len(g) + 1] = [name |-> name, type |-> type, adj |-> <<>>]
    BY AddNodeProperties
  <2>2. IsGraph(h) /\ Len(h) = Len(g) + 1 /\ \A i \in DOMAIN g : h[i] = g[i]
    BY AddNodeProperties
  <2>. HIDE DEF h
  <2>3. h[Len(g) + 1].adj = <<>>
    BY <2>1
  <2>. QED
    BY <2>2, <2>3 DEF IsGraph
<1> HIDE DEF h
<1>2. \A i \in DOMAIN g : i \in DOMAIN h
  BY <1>1
<1>3. Grown(g, h)
  BY <1>1, <1>2 DEF Grown
<1>4. \A i \in DOMAIN h : i \in DOMAIN g \/ h[i].adj = <<>>
  BY <1>1
<1>5. NoParallel(g) => NoParallel(h)
  BY <1>1, <1>4 DEF NoParallel
<1>. QED
  BY <1>3, <1>5 DEF h

(* The duplicate test reads one list and decides for both: where the lists
   agree, that is enough to keep both free of duplicates. *)
LEMMA AddEdgeIdNoParallel ==
  ASSUME NEW g, IsGraph(g), Symmetric(g), NoParallel(g),
         NEW a \in 0..Len(g), NEW b \in 0..Len(g), NEW at \in EdgeAttrs
  PROVE  NoParallel(AddEdgeId(g, a, b, at))
<1> DEFINE h == AddEdgeId(g, a, b, at)
<1>1. CASE h = g
  BY <1>1
<1>2. CASE Joined(g, h, a, b, at)
  <2> HIDE DEF h
  <2>1. a \in DOMAIN g /\ b \in DOMAIN g /\ a # b /\ DOMAIN h = DOMAIN g /\ ~AreAdjacent(g, a, b)
    BY <1>2 DEF Joined
  <2>2. EntriesAfter(g, h, a, b, at)
    BY <1>2, JoinedEntries
  <2>3. \A k \in DOMAIN g[a].adj : g[a].adj[k].n # b
    BY <2>1 DEF AreAdjacent
  <2>4. \A k \in DOMAIN g[b].adj : g[b].adj[k].n # a
    <3>1. SUFFICES ASSUME NEW k \in DOMAIN g[b].adj, g[b].adj[k].n = a PROVE FALSE
      OBVIOUS
    <3>2. PICK l \in DOMAIN g[a].adj : g[a].adj[l] = [n |-> b, attrs |-> g[b].adj[k].attrs]
      BY <2>1, <3>1 DEF Symmetric
    <3>. QED
      BY <2>3, <3>2
  <2>5. SUFFICES ASSUME NEW i \in DOMAIN h, NEW k \in DOMAIN h[i].adj, NEW l \in DOMAIN h[i].adj,
                        h[i].adj[k].n = h[i].adj[l].n
                 PROVE  k = l
    BY DEF NoParallel, h
  <2>6. i \in DOMAIN g
    BY <2>1
  <2>7. CASE i = a
    <3>1. /\ \A m \in DOMAIN h[a].adj : m \in DOMAIN g[a].adj \/ m = Len(g[a].adj) + 1
          /\ \A m \in DOMAIN g[a].adj : h[a].adj[m] = g[a].adj[m]
          /\ h[a].adj[Len(g[a].adj) + 1].n = b
      BY <2>1, <2>2 DEF EntriesAfter
    <3>. QED
      BY <3>1, <2>1, <2>3, <2>5, <2>7 DEF NoParallel
  <2>8. CASE i = b
    <3>1. /\ \A m \in DOMAIN h[b].adj : m \in DOMAIN g[b].adj \/ m = Len(g[b].adj) + 1
          /\ \A m \in DOMAIN g[b].adj : h[b].adj[m] = g[b].adj[m]
          /\ h[b].adj[Len(g[b].adj) + 1].n = a
      BY <2>1, <2>2 DEF EntriesAfter
    <3>. QED
      BY <3>1, <2>1, <2>4, <2>5, <2>8 DEF NoParallel
  <2>9. CASE i # a /\ i # b
    <3>1. h[i] = g[i]
      BY <1>2, <2>6, <2>9 DEF Joined
    <3>. QED
      BY <3>1, <2>5, <2>6 DEF NoParallel
  <2>. QED
    BY <2>7, <2>8, <2>9
<1>. QED
  BY <1>1, <1>2, AddEdgeIdEffect

(* What is not refused is there afterwards. *)
LEMMA AddEdgeIdConnects ==
  ASSUME NEW g, IsGraph(g), NEW a \in 0..Len(g), NEW b \in 0..Len(g), NEW at \in EdgeAttrs,
         ~EdgeRefused(g, a, b)
  PROVE  AreAdjacent(AddEdgeId(g, a, b, at), a, b)
<1> DEFINE h == AddEdgeId(g, a, b, at)
<1>1. CASE AreAdjacent(g, a, b)
  BY <1>1 DEF AddEdgeId
<1>2. CASE ~AreAdjacent(g, a, b)
  <2>1. a \in DOMAIN g /\ b \in DOMAIN g /\ a # b
    BY DEF EdgeRefused, IsGraph
  <2>2. h = AddHalf(AddHalf(g, a, b, at), b, a, at)
    BY <1>2 DEF AddEdgeId
  <2>3. /\ IsGraph(AddHalf(g, a, b, at)) /\ DOMAIN AddHalf(g, a, b, at) = DOMAIN g
        /\ AddHalf(g, a, b, at)[a].adj = Append(g[a].adj, [n |-> b, attrs |-> at])
    BY <2>1, AddHalfProperties
  <2>4. h[a] = AddHalf(g, a, b, at)[a]
    <3> DEFINE e == AddHalf(g, a, b, at)
    <3> HIDE DEF e
    <3>1. IsGraph(e) /\ a \in DOMAIN e /\ b \in DOMAIN e
      BY <2>1, <2>3 DEF e
    <3>2. \A i \in DOMAIN e : i # b => AddHalf(e, b, a, at)[i] = e[i]
      BY <3>1, AddHalfProperties
    <3>. QED
      BY <2>1, <2>2, <3>1, <3>2 DEF e
  <2>5. g[a].adj \in Seq(Edge) /\ [n |-> b, attrs |-> at] \in Edge
    <3>1. b \in Nat \ {0}
      BY <2>1
    <3>. QED
      BY <2>1, <3>1, NodeFields DEF Edge
  <2> HIDE DEF h
  <2>6. Len(g[a].adj) + 1 \in DOMAIN h[a].adj /\ h[a].adj[Len(g[a].adj) + 1].n = b
    BY <2>3, <2>4, <2>5, AppendEntries
  <2>. QED
    BY <2>6 DEF AreAdjacent, h
<1>. QED
  BY <1>1, <1>2

(* A graph that grew twice has grown. *)
LEMMA GrownTwice ==
  ASSUME NEW old, NEW mid, NEW new, Grown(old, mid), Grown(mid, new)
  PROVE  Grown(old, new)
BY DEF Grown
=============================================================================
