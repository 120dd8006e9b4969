---------------------------- MODULE BridgeProofs ----------------------------
(***************************************************************************)
(* The scan of topologies_graph_compact finds every link of its input, and *)
(* no other, or fails for one of the causes that Bridge names.             *)
(*                                                                         *)
(* The invariant says what the program knows of its input when it is in    *)
(* the middle of a walk.  A is the graph of the call, h the graph as       *)
(* marked and extended by then.                                            *)
(***************************************************************************)
EXTENDS CompactRefinement, CompactProofs, FiniteSetTheorems

-----------------------------------------------------------------------------
(* What the recursive definition of ChainsFrom computes, for every graph: the
   least set of gates that contains the gates around a node and, with a gate,
   the gates around that gate. *)

(* The function that ChainsFrom defines by recursion, up to n. *)
IsWithin(graph, v, n, f) ==
  f = [k \in 0..n |-> IF k = 0 THEN GatesAround(graph, {v})
                      ELSE f[k - 1] \cup GatesAround(graph, f[k - 1])]

LEMMA WithinExists ==
  ASSUME NEW graph, NEW v
  PROVE  \A n \in Nat : \E f : IsWithin(graph, v, n, f)
<1>. DEFINE S == {n \in Nat : \E f : IsWithin(graph, v, n, f)}
<1>1. 0 \in S
  <2>. DEFINE f == [k \in 0..0 |-> GatesAround(graph, {v})]
  <2>1. f = [k \in 0..0 |-> IF k = 0 THEN GatesAround(graph, {v})
                            ELSE f[k - 1] \cup GatesAround(graph, f[k - 1])]
    OBVIOUS
  <2>. HIDE DEF f
  <2>2. IsWithin(graph, v, 0, f)
    BY <2>1 DEF IsWithin
  <2>. QED
    BY <2>2
<1>2. ASSUME NEW n \in S PROVE n + 1 \in S
  <2>1. PICK f : IsWithin(graph, v, n, f)
    OBVIOUS
  <2>. DEFINE h == [k \in 0..(n + 1) |-> IF k = 0 THEN GatesAround(graph, {v})
                                         ELSE f[k - 1] \cup GatesAround(graph, f[k - 1])]
  <2>2. n \in Nat /\ n + 1 \in Nat
    OBVIOUS
  <2>3. ASSUME NEW k \in 0..n PROVE h[k] = f[k]
    <3>1. k \in 0..(n + 1)
      BY <2>2
    <3>2. f[k] = IF k = 0 THEN GatesAround(graph, {v})
                 ELSE f[k - 1] \cup GatesAround(graph, f[k - 1])
      BY <2>1 DEF IsWithin
    <3>. QED
      BY <3>1, <3>2
  <2>4. ASSUME NEW k \in 0..(n + 1), k # 0 PROVE k - 1 \in 0..n
    BY <2>2, <2>4
  <2>5. h = [k \in 0..(n + 1) |-> IF k = 0 THEN GatesAround(graph, {v})
                                  ELSE h[k - 1] \cup GatesAround(graph, h[k - 1])]
    <3>1. \A k \in 0..(n + 1) : k # 0 => h[k - 1] = f[k - 1]
      BY <2>3, <2>4
    <3>. QED
      BY <3>1
  <2>. HIDE DEF h
  <2>6. IsWithin(graph, v, n + 1, h)
    BY <2>5 DEF IsWithin
  <2>. QED
    BY <2>2, <2>6
<1>3. S = Nat
  <2>. HIDE DEF S
  <2>. QED
    BY <1>1, <1>2, SetInduction DEF S
<1>. QED
  BY <1>3

LEMMA ChainsFromIsWithin ==
  ASSUME NEW graph, NEW v, Len(graph) \in Nat
  PROVE  \E f : IsWithin(graph, v, Len(graph), f) /\ ChainsFrom(graph, v) = f[Len(graph)]
<1>. DEFINE f == CHOOSE f : IsWithin(graph, v, Len(graph), f)
<1>1. IsWithin(graph, v, Len(graph), f)
  BY WithinExists
<1>2. ChainsFrom(graph, v) = f[Len(graph)]
  BY DEF ChainsFrom, IsWithin
<1>. QED
  BY <1>1, <1>2

(* The gates around a set are those around its members. *)
LEMMA AroundMembers ==
  ASSUME NEW graph, NEW S, NEW x
  PROVE  x \in GatesAround(graph, S) <=>
           x \in Gates(graph) /\ \E y \in S : x \in Neighbours(graph, y)
BY DEF GatesAround

LEMMA AroundMore ==
  ASSUME NEW graph, NEW S, NEW T, S \subseteq T
  PROVE  GatesAround(graph, S) \subseteq GatesAround(graph, T)
BY AroundMembers

(* Every set that is closed under going on to the next gate, and has the first
   gates, has all gates of the chains. *)
LEMMA ChainsLeast ==
  ASSUME NEW graph, NEW v, Len(graph) \in Nat,
         NEW S, GatesAround(graph, {v}) \subseteq S, GatesAround(graph, S) \subseteq S
  PROVE  ChainsFrom(graph, v) \subseteq S
<1>1. PICK f : IsWithin(graph, v, Len(graph), f) /\ ChainsFrom(graph, v) = f[Len(graph)]
  BY ChainsFromIsWithin
<1>. DEFINE n == Len(graph)
            K == {k \in Nat : k <= n => f[k] \subseteq S}
<1>2. ASSUME NEW k \in 0..n
      PROVE  f[k] = IF k = 0 THEN GatesAround(graph, {v})
                    ELSE f[k - 1] \cup GatesAround(graph, f[k - 1])
  BY <1>1 DEF IsWithin
<1>3. 0 \in K
  <2>1. 0 \in 0..n
    OBVIOUS
  <2>2. f[0] = GatesAround(graph, {v})
    BY <1>2, <2>1
  <2>. QED
    BY <2>2
<1>4. ASSUME NEW k \in K PROVE k + 1 \in K
  <2>1. SUFFICES ASSUME k + 1 <= n PROVE f[k + 1] \subseteq S
    OBVIOUS
  <2>2. f[k] \subseteq S
    BY <2>1
  <2>3. f[k + 1] = f[k] \cup GatesAround(graph, f[k])
    <3>1. k + 1 \in 0..n /\ k + 1 # 0 /\ (k + 1) - 1 = k
      BY <2>1
    <3>. QED
      BY <1>2, <3>1
  <2>4. GatesAround(graph, f[k]) \subseteq S
    BY <2>2, AroundMore
  <2>. QED
    BY <2>2, <2>3, <2>4
<1>5. K = Nat
  <2>. HIDE DEF K
  <2>. QED
    BY <1>3, <1>4, SetInduction DEF K
<1>. QED
  BY <1>1, <1>5

(* ChainsFrom is such a set itself: as many rounds as there are nodes are
   enough, because every round but the last finds a gate. *)
LEMMA ChainsClosed ==
  ASSUME NEW graph, IsGraph(graph), NEW v
  PROVE  /\ ChainsFrom(graph, v) \subseteq Gates(graph)
         /\ GatesAround(graph, {v}) \subseteq ChainsFrom(graph, v)
         /\ GatesAround(graph, ChainsFrom(graph, v)) \subseteq ChainsFrom(graph, v)
<1>. DEFINE n == Len(graph)
<1>0. n \in Nat /\ DOMAIN graph = 1..n
  BY DEF IsGraph
<1>1. PICK f : IsWithin(graph, v, n, f) /\ ChainsFrom(graph, v) = f[n]
  BY <1>0, ChainsFromIsWithin
<1>2. ASSUME NEW k \in 0..n
      PROVE  f[k] = IF k = 0 THEN GatesAround(graph, {v})
                    ELSE f[k - 1] \cup GatesAround(graph, f[k - 1])
  BY <1>1 DEF IsWithin
<1>3. \A S : GatesAround(graph, S) \subseteq Gates(graph)
  BY DEF GatesAround
<1>4. Gates(graph) \subseteq 1..n
  BY <1>0 DEF Gates
<1>. DEFINE Closed(S) == GatesAround(graph, S) \subseteq S
            Good(k) == /\ f[k] \subseteq Gates(graph)
                       /\ GatesAround(graph, {v}) \subseteq f[k]
                       /\ Closed(f[k]) \/ Cardinality(f[k]) > k
            K == {k \in Nat : k <= n => Good(k)}
<1>. HIDE DEF n
<1>5. \A S : S \subseteq Gates(graph) => IsFiniteSet(S) /\ Cardinality(S) \in 0..n
  <2>1. IsFiniteSet(1..n) /\ Cardinality(1..n) = n
    BY <1>0, FS_Interval
  <2>. QED
    BY <1>0, <1>4, <2>1, FS_Subset, FS_CardinalityType
<1>6. 0 \in K
  <2>1. f[0] = GatesAround(graph, {v})
    <3>1. 0 \in 0..n
      BY <1>0
    <3>. QED
      BY <1>2, <3>1
  <2>2. CASE f[0] = {}
    <3>1. GatesAround(graph, f[0]) = {}
      BY <2>2, AroundMembers
    <3>. QED
      BY <1>3, <2>1, <3>1
  <2>3. CASE f[0] # {}
    <3>1. Cardinality(f[0]) # 0 /\ Cardinality(f[0]) \in Nat
      BY <1>3, <1>5, <2>1, <2>3, FS_EmptySet
    <3>2. Cardinality(f[0]) > 0
      BY <3>1
    <3>. QED
      BY <1>3, <2>1, <3>2
  <2>. QED
    BY <2>2, <2>3
<1>7. ASSUME NEW k \in K PROVE k + 1 \in K
  <2>0. k \in Nat /\ (k <= n => Good(k))
    OBVIOUS
  <2>1. SUFFICES ASSUME k + 1 <= n PROVE Good(k + 1)
    <3>. HIDE DEF Good
    <3>. QED
      BY <2>0
  <2>2. /\ k \in Nat /\ f[k] \subseteq Gates(graph) /\ GatesAround(graph, {v}) \subseteq f[k]
        /\ Closed(f[k]) \/ Cardinality(f[k]) > k
    <3>1. Good(k)
      <4>. HIDE DEF Good
      <4>. QED
        BY <1>0, <2>0, <2>1
    <3>. QED
      BY <2>0, <3>1
  <2>3. f[k + 1] = f[k] \cup GatesAround(graph, f[k])
    <3>1. k + 1 \in 0..n /\ k + 1 # 0 /\ (k + 1) - 1 = k
      BY <1>0, <2>1
    <3>. QED
      BY <1>2, <3>1
  <2>4. f[k + 1] \subseteq Gates(graph) /\ GatesAround(graph, {v}) \subseteq f[k + 1]
    BY <1>3, <2>2, <2>3
  <2>5. CASE Closed(f[k])
    <3>1. f[k + 1] = f[k]
      BY <2>3, <2>5
    <3>. QED
      BY <2>4, <2>5, <3>1
  <2>6. CASE ~Closed(f[k])
    <3>1. f[k] \subseteq f[k + 1] /\ f[k] # f[k + 1]
      BY <2>3, <2>6
    <3>2. Cardinality(f[k]) < Cardinality(f[k + 1])
      BY <1>5, <2>4, <3>1, FS_Subset
    <3>3. Cardinality(f[k]) > k /\ Cardinality(f[k]) \in Nat /\ Cardinality(f[k + 1]) \in Nat
      BY <1>0, <1>5, <2>2, <2>4, <2>6
    <3>4. Cardinality(f[k + 1]) > k + 1
      BY <2>2, <3>2, <3>3
    <3>. QED
      BY <2>4, <3>4
  <2>. QED
    BY <2>5, <2>6
<1>8. K = Nat
  <2>. HIDE DEF K
  <2>. QED
    BY <1>6, <1>7, SetInduction DEF K
<1>9. n \in K
  BY <1>0, <1>8
<1>10. /\ f[n] \subseteq Gates(graph) /\ GatesAround(graph, {v}) \subseteq f[n]
       /\ Closed(f[n]) \/ Cardinality(f[n]) > n
  <2>1. Good(n)
    <3>. HIDE DEF Good
    <3>. QED
      BY <1>0, <1>9
  <2>. QED
    BY <2>1
<1>11. ~ (Cardinality(f[n]) > n)
  BY <1>0, <1>5, <1>10
<1>. QED
  BY <1>1, <1>10, <1>11

(* The same facts, gate by gate. *)
LEMMA ChainStart ==
  ASSUME NEW graph, IsGraph(graph), NEW v,
         NEW x \in Gates(graph), x \in Neighbours(graph, v)
  PROVE  x \in ChainsFrom(graph, v)
<1>1. x \in GatesAround(graph, {v})
  BY AroundMembers
<1>. QED
  BY <1>1, ChainsClosed

LEMMA ChainNext ==
  ASSUME NEW graph, IsGraph(graph), NEW v, NEW x \in ChainsFrom(graph, v),
         NEW y \in Gates(graph), y \in Neighbours(graph, x)
  PROVE  y \in ChainsFrom(graph, v)
<1>1. y \in GatesAround(graph, ChainsFrom(graph, v))
  BY AroundMembers
<1>. QED
  BY <1>1, ChainsClosed

LEMMA ChainsWithin ==
  ASSUME NEW graph, IsGraph(graph), NEW v, NEW S,
         \A x \in Gates(graph) : x \in Neighbours(graph, v) => x \in S,
         \A y \in S : \A x \in Gates(graph) : x \in Neighbours(graph, y) => x \in S
  PROVE  ChainsFrom(graph, v) \subseteq S
<1>1. Len(graph) \in Nat
  BY DEF IsGraph
<1>2. GatesAround(graph, {v}) \subseteq S
  BY AroundMembers
<1>3. GatesAround(graph, S) \subseteq S
  BY AroundMembers
<1>. QED
  BY <1>1, <1>2, <1>3, ChainsLeast

(* The neighbours of a node are the nodes it is adjacent to, and where the lists
   agree, they have it as a neighbour. *)
LEMMA Adjacency ==
  ASSUME NEW graph, NEW a, NEW b
  PROVE  AreAdjacent(graph, a, b) <=> b \in Neighbours(graph, a)
BY DEF AreAdjacent, Neighbours

LEMMA NeighboursAgree ==
  ASSUME NEW graph, IsGraph(graph), Symmetric(graph), NEW a \in DOMAIN graph,
         NEW b \in Neighbours(graph, a)
  PROVE  b \in DOMAIN graph /\ a \in Neighbours(graph, b)
<1>1. PICK k \in DOMAIN graph[a].adj : b = graph[a].adj[k].n
  BY DEF Neighbours
<1>2. b \in DOMAIN graph
  BY <1>1 DEF IsGraph
<1>3. PICK l \in DOMAIN graph[b].adj : graph[b].adj[l] = [n |-> a, attrs |-> graph[a].adj[k].attrs]
  BY <1>1 DEF Symmetric
<1>4. graph[b].adj[l].n = a
  BY <1>3
<1>. QED
  BY <1>2, <1>4 DEF Neighbours

(* What it takes for a set to be a link. *)
LEMMA DirectLinkMembers ==
  ASSUME NEW graph, NEW link
  PROVE  link \in DirectLinks(graph) <=>
           \E v, w \in Nodes(graph) : link = {v, w} /\ w \in Neighbours(graph, v)
<1>1. link \in DirectLinks(graph) <=>
        \E e \in Nodes(graph) \X Nodes(graph) : link = {e[1], e[2]} /\ AreAdjacent(graph, e[1], e[2])
  BY Zenon DEF DirectLinks
<1>2. ASSUME NEW v \in Nodes(graph), NEW w \in Nodes(graph), link = {v, w}, AreAdjacent(graph, v, w)
      PROVE  \E e \in Nodes(graph) \X Nodes(graph) : link = {e[1], e[2]} /\ AreAdjacent(graph, e[1], e[2])
  <2>1. <<v, w>> \in Nodes(graph) \X Nodes(graph) /\ <<v, w>>[1] = v /\ <<v, w>>[2] = w
    OBVIOUS
  <2>. QED
    BY <1>2, <2>1, Zenon
<1>3. ASSUME NEW e \in Nodes(graph) \X Nodes(graph), link = {e[1], e[2]}, AreAdjacent(graph, e[1], e[2])
      PROVE  \E v, w \in Nodes(graph) : link = {v, w} /\ AreAdjacent(graph, v, w)
  <2>1. e[1] \in Nodes(graph) /\ e[2] \in Nodes(graph)
    OBVIOUS
  <2>. QED
    BY <1>3, <2>1, Zenon
<1>4. link \in DirectLinks(graph) <=>
        \E v, w \in Nodes(graph) : link = {v, w} /\ AreAdjacent(graph, v, w)
  BY <1>1, <1>2, <1>3, Zenon
<1>. QED
  BY <1>4, Adjacency

LEMMA ChainLinkMembers ==
  ASSUME NEW graph, NEW link
  PROVE  link \in ChainLinks(graph) <=>
           \E v, w \in Nodes(graph) :
             /\ link = {v, w} /\ v # w
             /\ \E x \in ChainsFrom(graph, v) : w \in Neighbours(graph, x)
<1>. DEFINE Chained(v, w) == v # w /\ \E x \in ChainsFrom(graph, v) : AreAdjacent(graph, x, w)
<1>0. ChainLinks(graph) =
        {{e[1], e[2]} : e \in {e \in Nodes(graph) \X Nodes(graph) : Chained(e[1], e[2])}}
  BY DEF ChainLinks
<1>. HIDE DEF Chained
<1>1. link \in ChainLinks(graph) <=>
        \E e \in Nodes(graph) \X Nodes(graph) : link = {e[1], e[2]} /\ Chained(e[1], e[2])
  BY <1>0, Zenon
<1>2. ASSUME NEW v \in Nodes(graph), NEW w \in Nodes(graph), link = {v, w}, Chained(v, w)
      PROVE  \E e \in Nodes(graph) \X Nodes(graph) : link = {e[1], e[2]} /\ Chained(e[1], e[2])
  <2>1. <<v, w>> \in Nodes(graph) \X Nodes(graph) /\ <<v, w>>[1] = v /\ <<v, w>>[2] = w
    OBVIOUS
  <2>. QED
    BY <1>2, <2>1, Zenon
<1>3. ASSUME NEW e \in Nodes(graph) \X Nodes(graph), link = {e[1], e[2]}, Chained(e[1], e[2])
      PROVE  \E v, w \in Nodes(graph) : link = {v, w} /\ Chained(v, w)
  <2>1. e[1] \in Nodes(graph) /\ e[2] \in Nodes(graph)
    OBVIOUS
  <2>. QED
    BY <1>3, <2>1, Zenon
<1>4. link \in ChainLinks(graph) <=> \E v, w \in Nodes(graph) : link = {v, w} /\ Chained(v, w)
  BY <1>1, <1>2, <1>3, Zenon
<1>. QED
  BY <1>4, Adjacency DEF Chained

-----------------------------------------------------------------------------
Marked(h, x) == h[x].type = "GATE_VISITED"

(* What the walks leave of the input: all nodes and edges.  Gates may be marked,
   lists may have grown, but only lists that had an entry. *)
Kept(A, h) ==
  /\ Grown(A, h) /\ Len(h) = Len(A)
  /\ \A v \in DOMAIN h : \/ h[v].type = A[v].type
                         \/ A[v].type = "GATE" /\ Marked(h, v)
  /\ \A v \in DOMAIN h : A[v].adj = <<>> => h[v].adj = <<>>

Scanning == pc \in {"scan", "walk", "link"}

(* A gate at the end of a dangling chain that became the neighbour of the NODE
   the chain leads from.  It is the k-th entry of that NODE's list, the scan is
   not past it, and a walk that starts there comes back. *)
PendingAt(v, k) ==
  /\ i \in DOMAIN g /\ g[i].type = "NODE"
  /\ k \in DOMAIN g[i].adj /\ g[i].adj[k].n = v
  /\ IF pc = "scan" THEN j <= k ELSE j < k \/ (j = k /\ pc = "walk" /\ cur = v)
  /\ v \in ChainsFrom(input, i)
  /\ Len(g[v].adj) = 2
  /\ Marked(g, g[v].adj[1].n)
  /\ g[v].adj[2].n = i

(* An unmarked gate whose list has grown. *)
Changed(v) == g[v].type = "GATE" /\ g[v].adj # input[v].adj

SomeChanged == \E v \in DOMAIN g : Changed(v)

ChangesArePending ==
  Scanning => \A v \in DOMAIN g : Changed(v) => \E k \in DOMAIN g[i].adj : PendingAt(v, k)

ChangesHaveCause == SomeChanged => Dangles(input)

(* The walk is on a chain of the input, and came from the NODE or a marked gate. *)
OnChain ==
  /\ pc \in {"walk", "link"} => j \in DOMAIN g[i].adj
  /\ pc = "walk" =>
       /\ cur \in ChainsFrom(input, i)
       /\ \E w \in Neighbours(g, cur) : w = i \/ Marked(g, w)

(* Where a walk can end: at a NODE linked to the one it began at, back at that
   NODE, at a dead end, or at something that is not printed. *)
EndOfWalk ==
  pc = "link" =>
    /\ g[cur].adj # <<>>
    /\ g[cur].type = "NODE" /\ cur # i => {cur, i} \in ChainLinks(input)
    /\ cur = i => Dangles(input) \/ LeadsBack(input)
    /\ g[cur].type = "GATE" =>
         /\ cur \in ChainsFrom(input, i)
         /\ Len(g[cur].adj) = 1
         /\ AreAdjacent(g, cur, i) \/ Marked(g, g[cur].adj[1].n)

FoundAreLinks == DirectLinks(g) \subseteq Links(input)

SInv ==
  /\ IInv
  /\ input \in Inputs
  /\ Kept(input, g)
  /\ ChangesArePending
  /\ ChangesHaveCause
  /\ OnChain
  /\ EndOfWalk
  /\ FoundAreLinks

----------------------------------------------------------------------------
(* What has been found when a chain is done. *)

(* A gate that neither branches nor ends a chain of gates. *)
Tidy(A, y) == Len(A[y].adj) <= 2 /\ (Len(A[y].adj) = 1 => A[A[y].adj[1].n].type # "GATE")

(* A set W of marked gates from which gates lead only to W and S, and NODEs are
   only in E. *)
Trail(A, h, W, S, E) ==
  \A y \in W : /\ y \in Gates(A) /\ Marked(h, y) /\ Tidy(A, y)
               /\ \A z \in Neighbours(A, y) : /\ z \in Gates(A) => z \in W \cup S
                                              /\ z \in Nodes(A) => z \in E

(* A chain that was walked from one end to the other, and its ends linked. *)
Complete(A, h, C) ==
  \E E \in SUBSET Nodes(A) :
    /\ Trail(A, h, C, {}, E)
    /\ \A v, w \in E : v = w \/ AreAdjacent(h, v, w)

Done(A, h, x) == \E C \in SUBSET Gates(A) : x \in C /\ Complete(A, h, C)

(* All marked gates are on such chains, or on the one that is being walked. *)
AllDone(A, h, W) == \A x \in Gates(A) : Marked(h, x) => x \in W \/ Done(A, h, x)

(* The chain of gates that x is on. *)
ChainOf(A, x) == {x} \cup ChainsFrom(A, x)

Lonely(A, x, v) == Len(A[x].adj) = 1 /\ A[x].adj[1].n = v

(* The entries that the scan has passed. *)
Scanned(A, h, m, n) ==
  \A v \in Nodes(A) : \A k \in DOMAIN A[v].adj :
    (v < m \/ (v = m /\ k < n)) /\ A[v].adj[k].n \in Gates(A) =>
      Marked(h, A[v].adj[k].n) \/ Lonely(A, A[v].adj[k].n, v)

(* The attribute that the walk has is one of the gates W, if they have any. *)
Reads(W) ==
  PlainEnds(input) =>
    /\ attrs # NULL => attrs \in AttrsOf(input, W)
    /\ attrs = NULL => \A y \in W : \A k \in DOMAIN input[y].adj : input[y].adj[k].attrs = NULL

(* The gates W are behind the walk, which is at a gate next to the last of them,
   or next to the NODE when there are none. *)
Walking(W) ==
  /\ Trail(input, g, W, {cur}, {i})
  /\ AllDone(input, g, W)
  /\ W = {} => cur = g[i].adj[j].n /\ i \in Neighbours(input, cur)
  /\ W # {} => g[i].adj[j].n \in W /\ \E w \in W : w \in Neighbours(input, cur)
  /\ W \subseteq ChainOf(input, g[i].adj[j].n)
  /\ i \in Neighbours(input, g[i].adj[j].n)
  /\ Reads(W)

Ended(W) ==
  /\ Trail(input, g, W, {}, {i, cur})
  /\ AllDone(input, g, W)
  /\ Marked(g, g[i].adj[j].n) \/ Lonely(input, g[i].adj[j].n, i)
  /\ cur \in Nodes(input) /\ cur # i =>
       /\ W = ChainOf(input, g[i].adj[j].n)
       /\ i \in Neighbours(input, g[i].adj[j].n) /\ \E w \in W : w \in Neighbours(input, cur)
       /\ Reads(W)

(* Edges between NODEs have the attributes they should have. *)
AttrsKnown ==
  PlainEnds(input) =>
    \A v, w \in Nodes(input) : \A k \in DOMAIN g[v].adj :
      g[v].adj[k].n = w => g[v].adj[k].attrs \in ExpectedAttrs(v, w)

Progress ==
  /\ Scanned(input, g, i, j)
  /\ AttrsKnown
  /\ pc = "scan" => AllDone(input, g, {})
  /\ pc = "walk" => \E W \in SUBSET Gates(input) : Walking(W)
  /\ pc = "link" => \E W \in SUBSET Gates(input) : Ended(W)

(* From these states the call fails. *)
Doomed ==
  \/ SomeChanged
  \/ pc = "link" /\ g[cur].type = "GATE" /\ ~AreAdjacent(g, cur, i)
  \/ pc = "link" /\ cur = i

(* When the scan is over, all links are found and nothing was wrong. *)
ScanIsComplete ==
  pc \in {"copy_nodes", "copy_edges", "done"} =>
    ~Branches(input) /\ ~Dangles(input) /\ DirectLinks(g) = Links(input) /\ AttrsKnown

LInv ==
  /\ SInv
  /\ Scanning => Doomed \/ Progress
  /\ ScanIsComplete

----------------------------------------------------------------------------
(* Facts about Kept and Done that do not look at the state. *)

LEMMA KeptFacts ==
  ASSUME NEW A, NEW h, IsGraph(A), IsGraph(h), Kept(A, h),
         \A v \in DOMAIN A : A[v].type # "GATE_VISITED"
  PROVE  /\ DOMAIN h = DOMAIN A
         /\ Nodes(h) = Nodes(A)
         /\ \A v \in DOMAIN h : h[v].type = "GATE" \/ Marked(h, v) <=> v \in Gates(A)
         /\ \A v \in DOMAIN h : h[v].type = "NODE" <=> v \in Nodes(A)
         /\ \A v \in DOMAIN h : Neighbours(A, v) \subseteq Neighbours(h, v)
<1>1. DOMAIN h = DOMAIN A
  BY DEF Kept, IsGraph
<1>2. \A v \in DOMAIN h : h[v].type = "NODE" <=> A[v].type = "NODE"
  BY DEF Kept, Marked
<1>3. \A v \in DOMAIN h : h[v].type = "GATE" \/ Marked(h, v) <=> A[v].type = "GATE"
  BY <1>1 DEF Kept, Marked
<1>4. ASSUME NEW v \in DOMAIN h PROVE Neighbours(A, v) \subseteq Neighbours(h, v)
  <2>1. \A k \in DOMAIN A[v].adj : k \in DOMAIN h[v].adj /\ h[v].adj[k] = A[v].adj[k]
    BY <1>1 DEF Kept, Grown
  <2>. QED
    BY <2>1 DEF Neighbours
<1>. QED
  BY <1>1, <1>2, <1>3, <1>4 DEF Nodes, Gates

(* Growing and marking more leaves done what was done. *)
LEMMA DoneStays ==
  ASSUME NEW A, NEW h, NEW m, DOMAIN h = DOMAIN A, Grown(h, m),
         \A v \in DOMAIN h : Marked(h, v) => Marked(m, v),
         NEW x, Done(A, h, x)
  PROVE  Done(A, m, x)
<1>1. PICK C \in SUBSET Gates(A) : x \in C /\ Complete(A, h, C)
  BY DEF Done
<1>2. PICK E \in SUBSET Nodes(A) : /\ Trail(A, h, C, {}, E)
                                   /\ \A v, w \in E : v = w \/ AreAdjacent(h, v, w)
  BY <1>1 DEF Complete
<1>3. Trail(A, m, C, {}, E)
  BY <1>2 DEF Trail, Gates
<1>4. ASSUME NEW v \in E, NEW w \in E, v # w PROVE AreAdjacent(m, v, w)
  <2>1. v \in DOMAIN h /\ AreAdjacent(h, v, w)
    BY <1>2, <1>4 DEF Nodes
  <2>. QED
    BY <2>1 DEF AreAdjacent, Grown
<1>5. Complete(A, m, C)
  BY <1>3, <1>4 DEF Complete
<1>. QED
  BY <1>1, <1>5 DEF Done

LEMMA AllDoneStays ==
  ASSUME NEW A, NEW h, NEW m, DOMAIN h = DOMAIN A, Grown(h, m),
         \A v \in DOMAIN h : Marked(h, v) => Marked(m, v),
         NEW W, AllDone(A, h, W),
         NEW T, \A v \in DOMAIN h : v \in W \/ (Marked(m, v) /\ ~Marked(h, v)) => v \in T
  PROVE  AllDone(A, m, T)
<1>1. SUFFICES ASSUME NEW x \in Gates(A), Marked(m, x), x \notin T PROVE Done(A, m, x)
  BY DEF AllDone
<1>2. x \in DOMAIN h
  BY DEF Gates
<1>3. Marked(h, x) /\ x \notin W
  BY <1>1, <1>2
<1>4. Done(A, h, x)
  BY <1>3 DEF AllDone
<1>. QED
  BY <1>4, DoneStays

(* From a chain that is done, no gate leads to one that is not marked. *)
LEMMA DoneIsClosed ==
  ASSUME NEW A, NEW h, NEW x, Done(A, h, x), NEW y \in Gates(A), y \in Neighbours(A, x)
  PROVE  Marked(h, y)
<1>1. PICK C \in SUBSET Gates(A) : x \in C /\ Complete(A, h, C)
  BY DEF Done
<1>2. PICK E \in SUBSET Nodes(A) : Trail(A, h, C, {}, E)
  BY <1>1 DEF Complete
<1>3. y \in C
  BY <1>1, <1>2 DEF Trail
<1>. QED
  BY <1>2, <1>3 DEF Trail

LEMMA ScannedStays ==
  ASSUME NEW A, NEW h, NEW m, DOMAIN h = DOMAIN A,
         \A v \in DOMAIN h : Marked(h, v) => Marked(m, v),
         NEW a, NEW b, Scanned(A, h, a, b)
  PROVE  Scanned(A, m, a, b)
BY DEF Scanned, Gates

(* A chain is what gates lead to from one of its gates, from whichever. *)
LEMMA ChainOfLeast ==
  ASSUME NEW A, IsGraph(A), NEW x \in Gates(A), NEW S, x \in S,
         \A y \in S : \A z \in Gates(A) : z \in Neighbours(A, y) => z \in S
  PROVE  ChainOf(A, x) \subseteq S
BY ChainsWithin DEF ChainOf

LEMMA ChainOfClosed ==
  ASSUME NEW A, IsGraph(A), NEW x \in Gates(A)
  PROVE  /\ ChainOf(A, x) \subseteq Gates(A) /\ x \in ChainOf(A, x)
         /\ \A y \in ChainOf(A, x) : \A z \in Gates(A) :
              z \in Neighbours(A, y) => z \in ChainOf(A, x)
<1>1. ChainsFrom(A, x) \subseteq Gates(A)
  BY ChainsClosed
<1>2. ASSUME NEW y \in ChainOf(A, x), NEW z \in Gates(A), z \in Neighbours(A, y)
      PROVE  z \in ChainsFrom(A, x)
  <2>1. CASE y = x
    BY <1>2, <2>1, ChainStart
  <2>2. CASE y \in ChainsFrom(A, x)
    BY <1>2, <2>2, ChainNext
  <2>. QED
    BY <2>1, <2>2 DEF ChainOf
<1>. QED
  BY <1>1, <1>2 DEF ChainOf

LEMMA ChainOfSame ==
  ASSUME NEW A, IsGraph(A), Symmetric(A), NEW x \in Gates(A), NEW y \in ChainOf(A, x)
  PROVE  ChainOf(A, y) = ChainOf(A, x)
<1>1. y \in Gates(A)
  BY ChainOfClosed
<1>2. \A u \in Gates(A) : \A z \in ChainOf(A, u) : ChainOf(A, z) \subseteq ChainOf(A, u)
  <2>1. SUFFICES ASSUME NEW u \in Gates(A), NEW z \in ChainOf(A, u)
                 PROVE  ChainOf(A, z) \subseteq ChainOf(A, u)
    OBVIOUS
  <2>2. /\ z \in Gates(A)
        /\ \A v \in ChainOf(A, u) : \A w \in Gates(A) :
             w \in Neighbours(A, v) => w \in ChainOf(A, u)
    BY ChainOfClosed
  <2>. QED
    BY <2>2, ChainOfLeast
<1>. DEFINE S == {z \in Gates(A) : x \in ChainOf(A, z)}
<1>3. ASSUME NEW z \in S, NEW u \in Gates(A), u \in Neighbours(A, z) PROVE u \in S
  <2>1. z \in Gates(A) /\ x \in ChainOf(A, z)
    OBVIOUS
  <2>2. z \in Neighbours(A, u)
    BY <1>3, <2>1, NeighboursAgree DEF Gates
  <2>3. z \in ChainOf(A, u)
    BY <2>1, <2>2, ChainOfClosed
  <2>. QED
    BY <1>2, <2>1, <2>3
<1>4. x \in S
  BY ChainOfClosed
<1>. HIDE DEF S
<1>5. y \in S
  BY <1>3, <1>4, ChainOfLeast
<1>6. x \in ChainOf(A, y)
  BY <1>5 DEF S
<1>. QED
  BY <1>1, <1>2, <1>6

LEMMA AttrsOfMembers ==
  ASSUME NEW A, NEW S, NEW t
  PROVE  t \in AttrsOf(A, S) <=> \E v \in S : \E k \in DOMAIN A[v].adj : t = A[v].adj[k].attrs
BY DEF AttrsOf

(* A gate's edge to a NODE has no attribute in its own list either. *)
LEMMA PlainGates ==
  ASSUME NEW A, IsGraph(A), Symmetric(A), PlainEnds(A), NEW x \in Gates(A),
         NEW k \in DOMAIN A[x].adj, A[x].adj[k].n \in Nodes(A)
  PROVE  A[x].adj[k].attrs = NULL
<1>. DEFINE v == A[x].adj[k].n
<1>1. x \in DOMAIN A
  BY DEF Gates
<1>2. PICK l \in DOMAIN A[v].adj : A[v].adj[l] = [n |-> x, attrs |-> A[x].adj[k].attrs]
  BY <1>1 DEF Symmetric
<1>3. A[v].adj[l].n = x /\ A[v].adj[l].attrs = A[x].adj[k].attrs
  BY <1>2
<1>. QED
  BY <1>3 DEF PlainEnds

----------------------------------------------------------------------------
(* What every state of the invariant knows of the two graphs. *)
LEMMA StateFacts ==
  ASSUME SInv
  PROVE  /\ IsGraph(input) /\ Symmetric(input) /\ Loopless(input)
         /\ \A v \in DOMAIN input : input[v].type # "GATE_VISITED"
         /\ IsGraph(g) /\ Symmetric(g) /\ Loopless(g)
         /\ DOMAIN g = DOMAIN input
         /\ Nodes(g) = Nodes(input)
         /\ \A v \in DOMAIN g : g[v].type = "GATE" \/ Marked(g, v) <=> v \in Gates(input)
         /\ \A v \in DOMAIN g : g[v].type = "NODE" <=> v \in Nodes(input)
         /\ \A v \in DOMAIN g : Neighbours(input, v) \subseteq Neighbours(g, v)
<1>1. /\ IsGraph(input) /\ Symmetric(input) /\ Loopless(input)
      /\ \A v \in DOMAIN input : input[v].type # "GATE_VISITED"
  BY InputsAssumption DEF SInv
<1>2. IsGraph(g) /\ Symmetric(g) /\ Loopless(g) /\ Kept(input, g)
  BY DEF SInv, IInv, TypeOK, ListsAgree
<1>. QED
  BY <1>1, <1>2, KeptFacts

(* A gate that has not changed is next to the same nodes as in the input. *)
LEMMA UnchangedGate ==
  ASSUME SInv, NEW v \in DOMAIN g, g[v].type = "GATE", ~Changed(v)
  PROVE  g[v].adj = input[v].adj /\ Neighbours(g, v) = Neighbours(input, v)
BY DEF Changed, Neighbours

(* A changed gate is pending: its neighbours are the NODE and a marked gate. *)
LEMMA ChangedFacts ==
  ASSUME SInv, Scanning, NEW v \in DOMAIN g, Changed(v)
  PROVE  /\ \E k \in DOMAIN g[i].adj : PendingAt(v, k)
         /\ v \in ChainsFrom(input, i)
         /\ Len(g[v].adj) = 2
         /\ Marked(g, g[v].adj[1].n)
         /\ g[v].adj[2].n = i
         /\ g[i].type = "NODE"
<1>1. PICK k \in DOMAIN g[i].adj : PendingAt(v, k)
  BY DEF SInv, ChangesArePending
<1>. QED
  BY <1>1 DEF PendingAt

----------------------------------------------------------------------------
(* The scan. *)

(* An entry of the list of a NODE, as the scan looks at it. *)
LEMMA EntryFacts ==
  ASSUME SInv, AtEntry
  PROVE  /\ i \in DOMAIN g /\ i \in Nodes(input) /\ g[i].type = "NODE"
         /\ j \in DOMAIN g[i].adj
         /\ g[i].adj[j].n \in DOMAIN g
         /\ g[i].adj[j].n \in Neighbours(g, i)
         /\ i \in Neighbours(g, g[i].adj[j].n)
<1>1. IsGraph(g) /\ Symmetric(g) /\ Len(g) \in Nat /\ DOMAIN g = 1..Len(g)
  BY DEF SInv, IInv, TypeOK, ListsAgree, IsGraph
<1>2. i \in DOMAIN g /\ g[i].type = "NODE"
  BY <1>1 DEF AtEntry, SInv, IInv, TypeOK
<1>3. g[i].adj \in Seq(Edge)
  BY <1>1, <1>2, NodeFields
<1>4. j \in DOMAIN g[i].adj
  BY <1>3 DEF AtEntry, SInv, IInv, TypeOK
<1>5. g[i].adj[j].n \in DOMAIN g
  BY <1>1, <1>2, <1>4 DEF IsGraph
<1>6. g[i].adj[j].n \in Neighbours(g, i)
  BY <1>4 DEF Neighbours
<1>7. i \in Neighbours(g, g[i].adj[j].n)
  BY <1>1, <1>2, <1>6, NeighboursAgree
<1>8. i \in Nodes(input)
  BY <1>2, StateFacts
<1>. QED
  BY <1>2, <1>4, <1>5, <1>6, <1>7, <1>8

(* A step that leaves the graphs alone, and in the scan or outside of it, needs
   only the pending changes looked at. *)
LEMMA SameGraphs ==
  ASSUME SInv, IInv', UNCHANGED <<input, g>>, pc' \notin {"walk", "link"},
         ChangesArePending'
  PROVE  SInv'
<1>1. input' \in Inputs /\ Kept(input', g')
  BY DEF SInv
<1>2. ChangesHaveCause'
  BY DEF SInv, ChangesHaveCause, SomeChanged, Changed
<1>3. OnChain' /\ EndOfWalk'
  BY DEF OnChain, EndOfWalk
<1>4. FoundAreLinks'
  BY DEF SInv, FoundAreLinks
<1>. QED
  BY <1>1, <1>2, <1>3, <1>4 DEF SInv

LEMMA ScanNextSInv ==
  ASSUME SInv, ScanNext
  PROVE  SInv' /\ ~SomeChanged /\ i \in DOMAIN g
<1>1. /\ pc = "scan" /\ i <= Len(g)
      /\ g[i].type # "NODE" \/ j > Len(g[i].adj)
      /\ i' = i + 1 /\ UNCHANGED <<input, g, pc>>
  BY DEF ScanNext
<1>2. IsGraph(g) /\ i \in DOMAIN g /\ g[i].adj \in Seq(Edge) /\ j \in Nat
  <2>1. IsGraph(g) /\ Len(g) \in Nat /\ i \in 1..(Len(g) + 1) /\ j \in Nat
    BY DEF SInv, IInv, TypeOK, IsGraph
  <2>2. i \in DOMAIN g
    BY <1>1, <2>1 DEF IsGraph
  <2>. QED
    BY <2>1, <2>2, NodeFields
<1>3. ASSUME NEW v, NEW k, PendingAt(v, k) PROVE FALSE
  <2>1. g[i].type = "NODE" /\ k \in DOMAIN g[i].adj /\ j <= k
    BY <1>1, <1>3 DEF PendingAt
  <2>2. k \in Nat /\ k <= Len(g[i].adj) /\ Len(g[i].adj) \in Nat
    BY <1>2, <2>1
  <2>. QED
    BY <1>1, <1>2, <2>1, <2>2
<1>4. ~SomeChanged
  BY <1>1, <1>3 DEF SInv, ChangesArePending, SomeChanged, Scanning
<1>5. ChangesArePending'
  BY <1>1, <1>4 DEF ChangesArePending, SomeChanged, Changed
<1>6. IInv'
  BY ScanStep DEF Scan, SInv
<1>. QED
  BY <1>1, <1>2, <1>4, <1>5, <1>6, SameGraphs

LEMMA ScanSkipSInv ==
  ASSUME SInv, ScanSkip
  PROVE  SInv'
<1>1. /\ pc = "scan" /\ AtEntry /\ g[g[i].adj[j].n].type # "GATE"
      /\ j' = j + 1 /\ UNCHANGED <<input, g, pc, i, cur>>
  BY DEF ScanSkip, AtEntry
<1>2. j \in Nat
  BY DEF SInv, IInv, TypeOK
<1>3. ASSUME NEW v \in DOMAIN g, Changed(v), NEW k \in DOMAIN g[i].adj, PendingAt(v, k)
      PROVE  PendingAt(v, k)'
  <2>1. g[g[i].adj[k].n].type = "GATE" /\ j <= k
    BY <1>1, <1>3 DEF PendingAt, Changed
  <2>2. k # j
    BY <1>1, <2>1
  <2>3. k \in Nat
    <3>1. g[i].adj \in Seq(Edge)
      BY <1>1, EntryFacts, NodeFields DEF SInv, IInv, TypeOK
    <3>. QED
      BY <3>1
  <2>4. j' <= k
    BY <1>1, <1>2, <2>1, <2>2, <2>3
  <2>. QED
    BY <1>1, <1>3, <2>4 DEF PendingAt
<1>4. ChangesArePending'
  BY <1>1, <1>3 DEF SInv, ChangesArePending, Scanning, Changed
<1>5. IInv'
  BY ScanStep DEF Scan, SInv
<1>. QED
  BY <1>1, <1>4, <1>5, SameGraphs

LEMMA ScanGateSInv ==
  ASSUME SInv, ScanGate
  PROVE  SInv'
<1>1. /\ pc = "scan" /\ AtEntry /\ g[g[i].adj[j].n].type = "GATE"
      /\ cur' = g[i].adj[j].n /\ pc' = "walk" /\ UNCHANGED <<input, g, i, j>>
  BY DEF ScanGate, AtEntry
<1>. DEFINE x == g[i].adj[j].n
<1>2. /\ i \in DOMAIN g /\ i \in Nodes(input) /\ g[i].type = "NODE" /\ j \in DOMAIN g[i].adj
      /\ x \in DOMAIN g /\ x \in Neighbours(g, i) /\ i \in Neighbours(g, x)
  BY <1>1, EntryFacts
<1>. HIDE DEF x
<1>3. j \in Nat /\ \A k \in DOMAIN g[i].adj : k \in Nat
  <2>1. g[i].adj \in Seq(Edge)
    BY <1>2, NodeFields DEF SInv, IInv, TypeOK
  <2>. QED
    BY <2>1 DEF SInv, IInv, TypeOK
<1>4. ASSUME NEW v \in DOMAIN g, NEW k \in DOMAIN g[i].adj, PendingAt(v, k)
      PROVE  PendingAt(v, k)'
  <2>1. j <= k /\ v = g[i].adj[k].n
    BY <1>1, <1>4 DEF PendingAt
  <2>2. j < k \/ (j = k /\ cur' = v)
    BY <1>1, <1>3, <2>1
  <2>. QED
    BY <1>1, <1>4, <2>2 DEF PendingAt
<1>5. ChangesArePending'
  BY <1>1, <1>4 DEF SInv, ChangesArePending, Scanning, Changed
<1>6. cur' \in ChainsFrom(input, i)
  <2>1. CASE Changed(x)
    BY <1>1, <1>2, <2>1, ChangedFacts DEF Scanning, x
  <2>2. CASE ~Changed(x)
    <3>1. g[x].type = "GATE"
      BY <1>1 DEF x
    <3>2. i \in Neighbours(input, x) /\ x \in Gates(input)
      BY <1>2, <2>2, <3>1, UnchangedGate, StateFacts
    <3>3. x \in Neighbours(input, i)
      <4>1. IsGraph(input) /\ Symmetric(input) /\ x \in DOMAIN input
        BY <3>2, StateFacts DEF Gates
      <4>. QED
        BY <3>2, <4>1, NeighboursAgree
    <3>. QED
      BY <1>1, <3>2, <3>3, ChainStart, StateFacts DEF x
  <2>. QED
    BY <2>1, <2>2
<1>7. OnChain'
  BY <1>1, <1>2, <1>6 DEF OnChain, x
<1>8. EndOfWalk'
  BY <1>1 DEF EndOfWalk
<1>9. IInv'
  BY ScanStep DEF Scan, SInv
<1>10. input' \in Inputs /\ Kept(input', g') /\ ChangesHaveCause' /\ FoundAreLinks'
  BY <1>1 DEF SInv, ChangesHaveCause, SomeChanged, Changed, FoundAreLinks
<1>. QED
  BY <1>5, <1>7, <1>8, <1>9, <1>10 DEF SInv

LEMMA ScanDoneSInv ==
  ASSUME SInv, ScanDone
  PROVE  SInv' /\ ~SomeChanged
<1>1. pc = "scan" /\ i > Len(g) /\ pc' = "copy_nodes" /\ UNCHANGED <<input, g>>
  BY DEF ScanDone
<1>2. i \notin DOMAIN g
  <2>1. Len(g) \in Nat /\ DOMAIN g = 1..Len(g) /\ i \in Nat
    BY DEF SInv, IInv, TypeOK, IsGraph
  <2>. QED
    BY <1>1, <2>1
<1>3. ~SomeChanged
  BY <1>1, <1>2 DEF SInv, ChangesArePending, SomeChanged, Scanning, PendingAt
<1>4. ChangesArePending'
  BY <1>1 DEF ChangesArePending, Scanning
<1>5. IInv'
  BY ScanStep DEF Scan, SInv
<1>. QED
  BY <1>1, <1>3, <1>4, <1>5, SameGraphs

----------------------------------------------------------------------------
(* The walk. *)

LEMMA WalkFacts ==
  ASSUME SInv, pc = "walk"
  PROVE  /\ cur \in DOMAIN g /\ g[cur].type = "GATE" /\ cur \in Gates(input)
         /\ i \in DOMAIN g /\ g[i].type = "NODE" /\ i \in Nodes(input) /\ i # cur
         /\ g[cur].adj \in Seq(Edge)
         /\ cur \in ChainsFrom(input, i)
         /\ \E k \in DOMAIN g[cur].adj : g[cur].adj[k].n = i \/ Marked(g, g[cur].adj[k].n)
         /\ \A k \in DOMAIN g[cur].adj :
              LET y == g[cur].adj[k].n
              IN  y \in DOMAIN g /\ y # cur /\ y \in Neighbours(g, cur) /\ cur \in Neighbours(g, y)
<1>1. cur \in DOMAIN g /\ g[cur].type = "GATE" /\ i \in DOMAIN g /\ g[i].type = "NODE"
  BY DEF SInv, IInv, WalkStaysInside
<1>2. cur \in Gates(input) /\ i \in Nodes(input)
  BY <1>1, StateFacts
<1>3. IsGraph(g) /\ Symmetric(g) /\ Loopless(g)
  BY StateFacts
<1>4. g[cur].adj \in Seq(Edge)
  BY <1>1, <1>3, NodeFields
<1>5. /\ cur \in ChainsFrom(input, i)
      /\ \E w \in Neighbours(g, cur) : w = i \/ Marked(g, w)
  BY DEF SInv, OnChain
<1>6. \E k \in DOMAIN g[cur].adj : g[cur].adj[k].n = i \/ Marked(g, g[cur].adj[k].n)
  BY <1>5 DEF Neighbours
<1>7. ASSUME NEW k \in DOMAIN g[cur].adj
      PROVE  LET y == g[cur].adj[k].n
             IN  y \in DOMAIN g /\ y # cur /\ y \in Neighbours(g, cur) /\ cur \in Neighbours(g, y)
  <2>. DEFINE y == g[cur].adj[k].n
  <2>1. y # cur
    BY <1>1, <1>3 DEF Loopless
  <2>2. y \in Neighbours(g, cur)
    BY DEF Neighbours
  <2>3. y \in DOMAIN g /\ cur \in Neighbours(g, y)
    BY <1>1, <1>3, <2>2, NeighboursAgree
  <2>. QED
    BY <2>1, <2>2, <2>3
<1>8. i # cur
  BY <1>1
<1>. QED
  BY <1>1, <1>2, <1>4, <1>5, <1>6, <1>7, <1>8

(* What marking a gate leaves alone. *)
LEMMA FollowFacts ==
  ASSUME SInv, pc = "walk", NEW k \in DOMAIN g[cur].adj, NEW next, Follow(k, next)
  PROVE  /\ g' = [g EXCEPT ![cur].type = "GATE_VISITED"]
         /\ cur' = g[cur].adj[k].n /\ pc' = next /\ UNCHANGED <<input, i, j>>
         /\ DOMAIN g' = DOMAIN g /\ Len(g') = Len(g)
         /\ \A v \in DOMAIN g : g'[v].adj = g[v].adj /\ g'[v].name = g[v].name
         /\ \A v \in DOMAIN g : v # cur => g'[v].type = g[v].type
         /\ Marked(g', cur)
         /\ \A v \in DOMAIN g : Marked(g, v) => Marked(g', v)
         /\ Grown(g, g')
         /\ \A v \in DOMAIN g : Changed(v)' => v # cur /\ Changed(v)
<1>1. /\ g' = [g EXCEPT ![cur].type = "GATE_VISITED"]
      /\ cur' = g[cur].adj[k].n /\ pc' = next /\ UNCHANGED <<input, i, j>>
  BY DEF Follow
<1>2. IsGraph(g) /\ cur \in DOMAIN g
  BY StateFacts, WalkFacts
<1>3. /\ DOMAIN g' = DOMAIN g /\ Len(g') = Len(g)
      /\ \A v \in DOMAIN g : g'[v].adj = g[v].adj /\ g'[v].name = g[v].name
      /\ \A v \in DOMAIN g : v # cur => g'[v].type = g[v].type
      /\ g'[cur].type = "GATE_VISITED"
      /\ Grown(g, g')
  BY <1>1, <1>2, MarkProperties
<1>4. Marked(g', cur) /\ \A v \in DOMAIN g : Marked(g, v) => Marked(g', v)
  BY <1>3 DEF Marked
<1>5. \A v \in DOMAIN g : Changed(v)' => v # cur /\ Changed(v)
  BY <1>1, <1>3 DEF Changed
<1>. QED
  BY <1>1, <1>3, <1>4, <1>5

LEMMA FollowSInv ==
  ASSUME SInv, pc = "walk", NEW k \in DOMAIN g[cur].adj, NEW next \in {"walk", "link"},
         next = "walk" <=> g[g[cur].adj[k].n].type = "GATE",
         g[cur].adj[k].n = i => Dangles(input) \/ LeadsBack(input),
         Changed(cur) => g[cur].adj[k].n = i,
         Follow(k, next)
  PROVE  SInv'
<1>. DEFINE y == g[cur].adj[k].n
<1>1. /\ cur \in DOMAIN g /\ g[cur].type = "GATE" /\ cur \in Gates(input)
      /\ i \in DOMAIN g /\ g[i].type = "NODE" /\ i \in Nodes(input) /\ i # cur
      /\ cur \in ChainsFrom(input, i)
      /\ y \in DOMAIN g /\ y # cur /\ y \in Neighbours(g, cur) /\ cur \in Neighbours(g, y)
  BY WalkFacts
<1>2. /\ cur' = y /\ pc' = next /\ input' = input /\ i' = i /\ j' = j
      /\ DOMAIN g' = DOMAIN g /\ Len(g') = Len(g)
      /\ \A v \in DOMAIN g : g'[v].adj = g[v].adj /\ g'[v].name = g[v].name
      /\ \A v \in DOMAIN g : v # cur => g'[v].type = g[v].type
      /\ Marked(g', cur)
      /\ \A v \in DOMAIN g : Marked(g, v) => Marked(g', v)
      /\ Grown(g, g')
      /\ \A v \in DOMAIN g : Changed(v)' => v # cur /\ Changed(v)
  BY FollowFacts
<1>3. IInv'
  BY FollowStep DEF SInv
<1>4. Kept(input', g')
  <2>1. Kept(input, g)
    BY DEF SInv
  <2>2. Grown(input, g') /\ Len(g') = Len(input)
    BY <1>2, <2>1, GrownTwice DEF Kept
  <2>3. input[cur].type = "GATE"
    BY <1>1 DEF Gates
  <2>. QED
    BY <1>1, <1>2, <2>1, <2>2, <2>3 DEF Kept, Marked
<1>5. ChangesArePending'
  <2>1. SUFFICES ASSUME NEW v \in DOMAIN g, Changed(v)'
                 PROVE  \E l \in DOMAIN g[i].adj : PendingAt(v, l)'
    BY <1>1, <1>2 DEF ChangesArePending
  <2>2. v # cur /\ Changed(v)
    BY <1>2, <2>1
  <2>3. PICK l \in DOMAIN g[i].adj : PendingAt(v, l)
    BY <2>2, ChangedFacts DEF Scanning
  <2>4. j < l
    BY <2>2, <2>3 DEF PendingAt
  <2>5. g[v].adj[1].n \in DOMAIN g
    <3>1. IsGraph(g) /\ Len(g[v].adj) = 2
      BY <2>3, StateFacts DEF PendingAt
    <3>2. 1 \in DOMAIN g[v].adj
      BY <3>1, NodeFields
    <3>. QED
      BY <3>1, <3>2 DEF IsGraph
  <2>. QED
    BY <1>1, <1>2, <2>3, <2>4, <2>5 DEF PendingAt
<1>6. ChangesHaveCause'
  BY <1>2 DEF SInv, ChangesHaveCause, SomeChanged
<1>7. y # i => y \in Neighbours(input, cur)
  <2>1. Changed(cur) => y = i
    OBVIOUS
  <2>. QED
    BY <1>1, <2>1, UnchangedGate
<1>8. OnChain'
  <2>1. j \in DOMAIN g[i].adj
    BY DEF SInv, OnChain
  <2>2. CASE next = "link"
    BY <1>1, <1>2, <2>1, <2>2 DEF OnChain
  <2>3. CASE next = "walk"
    <3>1. y \in Gates(input) /\ y # i
      BY <1>1, <2>3, StateFacts
    <3>2. y \in ChainsFrom(input, i)
      BY <1>1, <1>7, <3>1, ChainNext, StateFacts
    <3>3. Neighbours(g', y) = Neighbours(g, y)
      BY <1>1, <1>2 DEF Neighbours
    <3>4. cur \in Neighbours(g', y) /\ Marked(g', cur)
      BY <1>1, <1>2, <3>3
    <3>. HIDE DEF y
    <3>5. \E w \in Neighbours(g', cur') : w = i' \/ Marked(g', w)
      BY <1>2, <3>4
    <3>. QED
      BY <1>1, <1>2, <2>1, <2>3, <3>2, <3>5 DEF OnChain
  <2>. QED
    BY <2>2, <2>3
<1>9. EndOfWalk'
  <2>1. SUFFICES ASSUME next = "link"
                 PROVE  /\ g[y].adj # <<>>
                        /\ g[y].type = "NODE" /\ y # i => {y, i} \in ChainLinks(input)
                        /\ y = i => Dangles(input) \/ LeadsBack(input)
                        /\ g[y].type # "GATE"
    BY <1>1, <1>2 DEF EndOfWalk
  <2>2. g[y].adj # <<>>
    BY <1>1 DEF Neighbours
  <2>3. ASSUME g[y].type = "NODE", y # i PROVE {y, i} \in ChainLinks(input)
    <3>1. y \in Nodes(input)
      BY <1>1, <2>3, StateFacts
    <3>2. y \in Neighbours(input, cur)
      BY <1>7, <2>3
    <3>3. {y, i} = {i, y} /\ i # y
      BY <2>3
    <3>. QED
      BY <1>1, <3>1, <3>2, <3>3, ChainLinkMembers
  <2>. QED
    BY <2>1, <2>2, <2>3
<1>10. FoundAreLinks'
  <2>1. Nodes(g') = Nodes(g)
    BY <1>1, <1>2 DEF Nodes, Marked
  <2>2. \A v \in DOMAIN g : Neighbours(g', v) = Neighbours(g, v)
    BY <1>2 DEF Neighbours
  <2>3. DirectLinks(g') \subseteq DirectLinks(g)
    BY <2>1, <2>2, DirectLinkMembers DEF Nodes
  <2>. QED
    BY <1>2, <2>3 DEF SInv, FoundAreLinks
<1>11. input' \in Inputs
  BY <1>2 DEF SInv
<1>. QED
  BY <1>3, <1>4, <1>5, <1>6, <1>8, <1>9, <1>10, <1>11 DEF SInv

(* A marked gate next to the one the walk is at was marked by this walk. *)
LEMMA MarkedNeighbour ==
  ASSUME SInv, pc = "walk", ~Changed(cur), NEW W, AllDone(input, g, W),
         NEW z \in Neighbours(g, cur), Marked(g, z)
  PROVE  z \in W
<1>1. cur \in DOMAIN g /\ g[cur].type = "GATE" /\ cur \in Gates(input)
  BY WalkFacts
<1>2. z \in Neighbours(input, cur)
  BY <1>1, UnchangedGate
<1>3. IsGraph(input) /\ Symmetric(input) /\ cur \in DOMAIN input /\ DOMAIN g = DOMAIN input
  BY <1>1, StateFacts
<1>4. z \in DOMAIN g /\ cur \in Neighbours(input, z)
  BY <1>2, <1>3, NeighboursAgree
<1>5. z \in Gates(input)
  BY <1>4, StateFacts
<1>6. SUFFICES ASSUME Done(input, g, z) PROVE FALSE
  BY <1>5 DEF AllDone
<1>7. Marked(g, cur)
  BY <1>1, <1>4, <1>6, DoneIsClosed
<1>. QED
  BY <1>1, <1>7 DEF Marked

(* The gates behind the walk after a step through a gate with two entries, one
   of which is where the walk came from. *)
LEMMA WalkTrail ==
  ASSUME SInv, pc = "walk", ~Changed(cur), NEW W \in SUBSET Gates(input), Walking(W),
         NEW k \in DOMAIN g[cur].adj, Len(g[cur].adj) = 2,
         \A l \in DOMAIN g[cur].adj :
           l # k => g[cur].adj[l].n = i \/ g[g[cur].adj[l].n].type \notin {"GATE", "NODE"},
         NEW next, Follow(k, next)
  PROVE  LET y == g[cur].adj[k].n
             T == W \cup {cur}
         IN  /\ Trail(input, g', T, IF g[y].type = "GATE" THEN {y} ELSE {}, {i, y})
             /\ AllDone(input, g', T)
             /\ g[i].adj[j].n \in T
             /\ cur \in Neighbours(input, y)
<1>. DEFINE y == g[cur].adj[k].n
            T == W \cup {cur}
            S == IF g[y].type = "GATE" THEN {y} ELSE {}
<1>1. /\ cur \in DOMAIN g /\ g[cur].type = "GATE" /\ cur \in Gates(input)
      /\ i \in DOMAIN g /\ g[i].type = "NODE" /\ i \in Nodes(input) /\ i # cur
      /\ y \in DOMAIN g /\ y \in Neighbours(g, cur)
  BY WalkFacts
<1>2. /\ DOMAIN g' = DOMAIN g /\ Marked(g', cur) /\ Grown(g, g')
      /\ \A v \in DOMAIN g : v # cur => g'[v].type = g[v].type
      /\ \A v \in DOMAIN g : Marked(g, v) => Marked(g', v)
  BY FollowFacts
<1>3. g[cur].adj = input[cur].adj /\ Neighbours(g, cur) = Neighbours(input, cur)
  BY <1>1, UnchangedGate
<1>4. /\ Trail(input, g, W, {cur}, {i})
      /\ AllDone(input, g, W)
  BY DEF Walking
<1>5. ASSUME NEW z \in Neighbours(input, cur)
      PROVE  /\ z \in Gates(input) => z \in T \cup S
             /\ z \in Nodes(input) => z \in {i, y}
  <2>1. PICK l \in DOMAIN g[cur].adj : z = g[cur].adj[l].n
    BY <1>3 DEF Neighbours
  <2>2. z \in DOMAIN g /\ z \in Neighbours(g, cur)
    BY <2>1, WalkFacts
  <2>3. ASSUME z \in Gates(input) PROVE z \in T \cup S
    <3>1. g[z].type = "GATE" \/ Marked(g, z)
      BY <2>2, <2>3, StateFacts
    <3>2. CASE Marked(g, z)
      BY <1>4, <2>2, <3>2, MarkedNeighbour
    <3>3. CASE g[z].type = "GATE"
      <4>1. l = k
        BY <1>1, <2>1, <3>3
      <4>. QED
        BY <2>1, <3>3, <4>1
    <3>. QED
      BY <3>1, <3>2, <3>3
  <2>4. ASSUME z \in Nodes(input) PROVE z \in {i, y}
    <3>1. g[z].type = "NODE"
      BY <2>2, <2>4, StateFacts
    <3>. QED
      BY <2>1, <3>1
  <2>. QED
    BY <2>3, <2>4
<1>6. Tidy(input, cur)
  <2>1. Len(input[cur].adj) = 2
    BY <1>3
  <2>. QED
    BY <2>1 DEF Tidy
<1>7. Trail(input, g', T, S, {i, y})
  <2>. HIDE DEF S, y
  <2>1. ASSUME NEW x \in T
        PROVE  /\ x \in Gates(input) /\ Marked(g', x) /\ Tidy(input, x)
               /\ \A z \in Neighbours(input, x) : /\ z \in Gates(input) => z \in T \cup S
                                                  /\ z \in Nodes(input) => z \in {i, y}
    <3>1. CASE x \in W
      <4>1. x \in DOMAIN g
        BY <3>1, StateFacts DEF Gates
      <4>. QED
        BY <1>2, <1>4, <3>1, <4>1 DEF Trail
    <3>2. CASE x = cur
      BY <1>1, <1>2, <1>5, <1>6, <3>2
    <3>. QED
      BY <3>1, <3>2
  <2>. QED
    BY <2>1 DEF Trail
<1>8. AllDone(input, g', T)
  <2>1. DOMAIN g = DOMAIN input
    BY StateFacts
  <2>2. \A v \in DOMAIN g : v \in W \/ (Marked(g', v) /\ ~Marked(g, v)) => v \in T
    BY <1>2 DEF Marked
  <2>. HIDE DEF T
  <2>. QED
    BY <1>2, <1>4, <2>1, <2>2, AllDoneStays
<1>9. g[i].adj[j].n \in T
  BY DEF Walking
<1>10. cur \in Neighbours(input, y)
  <2>1. IsGraph(input) /\ Symmetric(input) /\ cur \in DOMAIN input
    BY <1>1, StateFacts
  <2>. QED
    BY <1>1, <1>3, <2>1, NeighboursAgree
<1>. QED
  BY <1>7, <1>8, <1>9, <1>10

(* The walk is on the chain of the gate that it began at. *)
LEMMA WalkChain ==
  ASSUME SInv, pc = "walk", NEW W \in SUBSET Gates(input), Walking(W)
  PROVE  /\ g[i].adj[j].n \in Gates(input)
         /\ W \cup {cur} \subseteq ChainOf(input, g[i].adj[j].n)
<1>. DEFINE x == g[i].adj[j].n
<1>1. cur \in Gates(input) /\ IsGraph(input) /\ Symmetric(input) /\ cur \in DOMAIN input
  BY WalkFacts, StateFacts
<1>2. x \in Gates(input) /\ W \subseteq ChainOf(input, x)
  BY <1>1 DEF Walking
<1>3. cur \in ChainOf(input, x)
  <2>1. CASE W = {}
    <3>1. cur = x
      BY <2>1 DEF Walking
    <3>. QED
      BY <3>1 DEF ChainOf
  <2>2. CASE W # {}
    <3>1. PICK w \in W : w \in Neighbours(input, cur)
      BY <2>2 DEF Walking
    <3>2. cur \in Neighbours(input, w)
      BY <1>1, <3>1, NeighboursAgree
    <3>. HIDE DEF x
    <3>. QED
      BY <1>1, <1>2, <3>2, ChainOfClosed
  <2>. QED
    BY <2>1, <2>2
<1>. QED
  BY <1>2, <1>3

(* A gate that the walk passes has two entries: the one that is read, and the
   one where the walk came from, which was read there or has no attribute. *)
LEMMA WalkReads ==
  ASSUME SInv, pc = "walk", ~Changed(cur), NEW W \in SUBSET Gates(input), Walking(W),
         NEW k \in DOMAIN g[cur].adj, Len(g[cur].adj) = 2,
         g[cur].adj[k].n # i, g[g[cur].adj[k].n].type \in {"GATE", "NODE"},
         NEW next, Follow(k, next), NEW T, T = W \cup {cur}
  PROVE  Reads(T)'
<1>. DEFINE at == g[cur].adj[k].attrs
<1>1. /\ cur \in DOMAIN g /\ g[cur].type = "GATE" /\ cur \in Gates(input)
      /\ g[cur].adj \in Seq(Edge)
      /\ \E l \in DOMAIN g[cur].adj : g[cur].adj[l].n = i \/ Marked(g, g[cur].adj[l].n)
      /\ i \in Nodes(input)
  BY WalkFacts
<1>2. g[cur].adj = input[cur].adj
  BY <1>1, UnchangedGate
<1>3. IsGraph(input) /\ Symmetric(input) /\ cur \in DOMAIN input
  BY <1>1, StateFacts
<1>4. input' = input /\ attrs' = IF at # NULL THEN at ELSE attrs
  BY DEF Follow
<1>5. SUFFICES ASSUME PlainEnds(input)
               PROVE  /\ attrs' # NULL => attrs' \in AttrsOf(input, T)
                      /\ attrs' = NULL =>
                           \A y \in T : \A l \in DOMAIN input[y].adj : input[y].adj[l].attrs = NULL
  BY <1>4 DEF Reads
<1>6. /\ attrs # NULL => attrs \in AttrsOf(input, W)
      /\ attrs = NULL => \A y \in W : \A l \in DOMAIN input[y].adj : input[y].adj[l].attrs = NULL
  BY <1>5 DEF Walking, Reads
<1>7. at \in AttrsOf(input, T)
  BY <1>2, AttrsOfMembers
<1>8. attrs # NULL => attrs \in AttrsOf(input, T)
  BY <1>6, AttrsOfMembers
<1>9. ASSUME attrs' = NULL, NEW l \in DOMAIN g[cur].adj PROVE g[cur].adj[l].attrs = NULL
  <2>1. at = NULL /\ attrs = NULL
    BY <1>4, <1>9
  <2>2. SUFFICES ASSUME l # k PROVE g[cur].adj[l].attrs = NULL
    BY <2>1
  <2>3. PICK m \in DOMAIN g[cur].adj : g[cur].adj[m].n = i \/ Marked(g, g[cur].adj[m].n)
    BY <1>1
  <2>4. m # k
    BY <2>3 DEF Marked
  <2>5. m = l
    <3>1. DOMAIN g[cur].adj = 1..2
      BY <1>1
    <3>. QED
      BY <2>2, <2>4, <3>1
  <2>6. CASE g[cur].adj[l].n = i
    BY <1>1, <1>2, <1>3, <1>5, <2>6, PlainGates
  <2>7. CASE Marked(g, g[cur].adj[l].n)
    <3>1. g[cur].adj[l].n \in Neighbours(g, cur)
      BY DEF Neighbours
    <3>2. g[cur].adj[l].n \in W
      BY <2>7, <3>1, MarkedNeighbour DEF Walking
    <3>3. PICK q \in DOMAIN input[g[cur].adj[l].n].adj :
            input[g[cur].adj[l].n].adj[q] = [n |-> cur, attrs |-> g[cur].adj[l].attrs]
      BY <1>2, <1>3 DEF Symmetric
    <3>4. input[g[cur].adj[l].n].adj[q].attrs = g[cur].adj[l].attrs
      BY <3>3
    <3>. QED
      BY <1>6, <2>1, <3>2, <3>4
  <2>. QED
    BY <2>3, <2>5, <2>6, <2>7
<1>. QED
  BY <1>2, <1>4, <1>6, <1>7, <1>8, <1>9

(* What an edge should have for an attribute depends on the input alone. *)
LEMMA ExpectedStays ==
  ASSUME input' = input, NEW v, NEW w
  PROVE  ExpectedAttrs(v, w)' = ExpectedAttrs(v, w)
BY DEF ExpectedAttrs, ChainAttrs

LEMMA KnownStays ==
  ASSUME AttrsKnown, input' = input, \A v \in Nodes(input) : g'[v].adj = g[v].adj
  PROVE  AttrsKnown'
<1>1. SUFFICES ASSUME PlainEnds(input), NEW v \in Nodes(input), NEW w \in Nodes(input),
                      NEW k \in DOMAIN g'[v].adj, g'[v].adj[k].n = w
               PROVE  g'[v].adj[k].attrs \in ExpectedAttrs(v, w)'
  BY DEF AttrsKnown
<1>. QED
  BY <1>1, ExpectedStays DEF AttrsKnown

(* A step of the walk keeps what is known of its progress. *)
LEMMA FollowProgress ==
  ASSUME SInv, pc = "walk", ~Changed(cur), NEW W \in SUBSET Gates(input), Walking(W),
         Scanned(input, g, i, j), AttrsKnown,
         NEW k \in DOMAIN g[cur].adj, Len(g[cur].adj) = 2,
         \A l \in DOMAIN g[cur].adj :
           l # k => g[cur].adj[l].n = i \/ g[g[cur].adj[l].n].type \notin {"GATE", "NODE"},
         NEW next \in {"walk", "link"},
         next = "walk" <=> g[g[cur].adj[k].n].type = "GATE",
         Follow(k, next)
  PROVE  Progress'
<1>. DEFINE y == g[cur].adj[k].n
            S == IF g[y].type = "GATE" THEN {y} ELSE {}
<1>0. PICK T : T = W \cup {cur}
  OBVIOUS
<1>1. /\ Trail(input, g', T, S, {i, y})
      /\ AllDone(input, g', T)
      /\ g[i].adj[j].n \in T
      /\ cur \in Neighbours(input, y)
  BY <1>0, WalkTrail
<1>2. /\ cur' = y /\ pc' = next /\ UNCHANGED <<input, i, j>>
      /\ DOMAIN g' = DOMAIN g
      /\ \A v \in DOMAIN g : g'[v].adj = g[v].adj
      /\ \A v \in DOMAIN g : v # cur => g'[v].type = g[v].type
      /\ \A v \in DOMAIN g : Marked(g, v) => Marked(g', v)
  BY FollowFacts
<1>3. cur \in Gates(input) /\ T \in SUBSET Gates(input) /\ i \in DOMAIN g
  BY <1>0, WalkFacts
<1>4. Scanned(input, g, i, j)'
  BY <1>2, StateFacts, ScannedStays
<1>5. g'[i].adj[j].n \in T
  BY <1>1, <1>2, <1>3
<1>6. AttrsKnown'
  <2>1. Nodes(input) \subseteq DOMAIN g
    BY StateFacts DEF Nodes
  <2>. QED
    BY <1>2, <2>1, KnownStays
<1>7. /\ g[i].adj[j].n \in Gates(input) /\ i \in Neighbours(input, g[i].adj[j].n)
      /\ T \subseteq ChainOf(input, g[i].adj[j].n)
  BY <1>0, WalkChain DEF Walking
<1>8. y # i /\ g[y].type \in {"GATE", "NODE"} => Reads(T)'
  BY <1>0, WalkReads
<1>9. CASE next = "walk"
  <2>1. y \in DOMAIN g /\ y # cur /\ i # y
    BY <1>9, WalkFacts
  <2>2. S = {y} /\ y \in Gates(input)
    BY <1>9, <2>1, StateFacts
  <2>3. \A x \in T : \A z \in Neighbours(input, x) : z \in Nodes(input) /\ z \in {i, y} => z = i
    BY <2>2 DEF Gates, Nodes
  <2>4. Trail(input, g', T, {y}, {i})
    <3>. HIDE DEF y
    <3>. QED
      BY <1>1, <2>2, <2>3 DEF Trail
  <2>5. Walking(T)'
    <3>1. T # {} /\ \E w \in T : w \in Neighbours(input, y)
      BY <1>0, <1>1
    <3>2. Reads(T)'
      BY <1>8, <1>9, <2>1
    <3>. HIDE DEF y
    <3>. QED
      BY <1>1, <1>2, <1>3, <1>5, <1>7, <2>4, <3>1, <3>2 DEF Walking
  <2>. QED
    BY <1>2, <1>3, <1>4, <1>6, <1>9, <2>5 DEF Progress
<1>10. CASE next = "link"
  <2>1. S = {}
    BY <1>10
  <2>2. Marked(g', g'[i].adj[j].n)
    BY <1>1, <1>5 DEF Trail
  <2>3. ASSUME y \in Nodes(input), y # i
        PROVE  /\ T = ChainOf(input, g[i].adj[j].n)
               /\ \E w \in T : w \in Neighbours(input, y)
               /\ Reads(T)'
    <3>1. g[y].type = "NODE"
      BY <2>3, StateFacts DEF Nodes
    <3>2. \A u \in T : \A z \in Gates(input) : z \in Neighbours(input, u) => z \in T
      BY <1>1, <2>1 DEF Trail
    <3>3. ChainOf(input, g[i].adj[j].n) \subseteq T
      BY <1>1, <1>7, <3>2, ChainOfLeast, StateFacts
    <3>. QED
      BY <1>0, <1>1, <1>7, <1>8, <2>3, <3>1, <3>3
  <2>. HIDE DEF S, y
  <2>4. Ended(T)'
    BY <1>1, <1>2, <1>3, <1>7, <2>1, <2>2, <2>3 DEF Ended
  <2>. QED
    BY <1>2, <1>3, <1>4, <1>6, <1>10, <2>4 DEF Progress
<1>. QED
  BY <1>9, <1>10

(* Where a walk comes back to the NODE it began at, it leads nowhere else. *)
LEMMA WalkLeadsBack ==
  ASSUME SInv, pc = "walk", ~Changed(cur), NEW W \in SUBSET Gates(input), Walking(W),
         Len(g[cur].adj) = 2, g[cur].adj[2].n = i,
         g[cur].adj[1].n = i \/ g[g[cur].adj[1].n].type \notin {"GATE", "NODE"},
         NEW next, Follow(2, next)
  PROVE  LeadsBack(input)
<1>1. /\ cur \in DOMAIN g /\ g[cur].type = "GATE" /\ cur \in Gates(input)
      /\ i \in DOMAIN g /\ g[i].type = "NODE" /\ i \in Nodes(input)
      /\ g[cur].adj \in Seq(Edge) /\ cur \in ChainsFrom(input, i)
  BY WalkFacts
<1>2. DOMAIN g[cur].adj = {1, 2}
  BY <1>1
<1>. DEFINE T == W \cup {cur}
<1>3. Trail(input, g', T, {}, {i})
  <2>1. 2 \in DOMAIN g[cur].adj
    BY <1>2
  <2>2. \A l \in DOMAIN g[cur].adj :
          l # 2 => g[cur].adj[l].n = i \/ g[g[cur].adj[l].n].type \notin {"GATE", "NODE"}
    BY <1>2
  <2>3. Trail(input, g', T, IF g[i].type = "GATE" THEN {i} ELSE {}, {i, i})
    BY <2>1, <2>2, WalkTrail
  <2>4. (IF g[i].type = "GATE" THEN {i} ELSE {}) = {} /\ {i, i} = {i}
    BY <1>1
  <2>. HIDE DEF T
  <2>. QED
    BY <2>3, <2>4
<1>. HIDE DEF T
<1>4. ChainsFrom(input, cur) \subseteq T
  <2>1. cur \in T
    BY DEF T
  <2>2. \A y \in T : \A x \in Gates(input) : x \in Neighbours(input, y) => x \in T
    BY <1>3 DEF Trail
  <2>. QED
    BY <2>1, <2>2, ChainsWithin, StateFacts
<1>5. \A y \in {cur} \cup ChainsFrom(input, cur) : Neighbours(input, y) \cap Nodes(input) \subseteq {i}
  <2>1. cur \in T
    BY DEF T
  <2>. QED
    BY <1>3, <1>4, <2>1 DEF Trail
<1>6. Len(input[cur].adj) = 2 /\ input[cur].adj[2].n = i
  BY <1>1, UnchangedGate
<1>. QED
  BY <1>1, <1>5, <1>6 DEF LeadsBack

LEMMA FollowLInv ==
  ASSUME LInv, pc = "walk", NEW k \in DOMAIN g[cur].adj, Len(g[cur].adj) = 2,
         \A l \in DOMAIN g[cur].adj :
           l # k => g[cur].adj[l].n = i \/ g[g[cur].adj[l].n].type \notin {"GATE", "NODE"},
         g[cur].adj[k].n = i => k = 2,
         Changed(cur) => g[cur].adj[k].n = i,
         NEW next \in {"walk", "link"},
         next = "walk" <=> g[g[cur].adj[k].n].type = "GATE",
         Follow(k, next)
  PROVE  LInv'
<1>. DEFINE y == g[cur].adj[k].n
<1>1. SInv /\ (Doomed \/ Progress)
  BY DEF LInv, Scanning
<1>2. /\ cur \in DOMAIN g /\ i \in DOMAIN g /\ g[i].type = "NODE" /\ i # cur
      /\ g[cur].adj \in Seq(Edge)
  BY <1>1, WalkFacts
<1>3. /\ cur' = y /\ pc' = next /\ UNCHANGED <<input, i, j>>
      /\ DOMAIN g' = DOMAIN g
      /\ \A v \in DOMAIN g : g'[v].adj = g[v].adj
      /\ \A v \in DOMAIN g : v # cur => g'[v].type = g[v].type
  BY <1>1, FollowFacts
<1>4. ScanIsComplete'
  BY <1>3 DEF ScanIsComplete
<1>5. CASE SomeChanged
  <2>1. Dangles(input)
    BY <1>1, <1>5 DEF SInv, ChangesHaveCause
  <2>2. SInv'
    BY <1>1, <2>1, FollowSInv
  <2>3. Doomed'
    <3>1. CASE Changed(cur)
      <4>1. y = i /\ next = "link"
        BY <1>2, <3>1
      <4>. QED
        BY <1>3, <4>1 DEF Doomed
    <3>2. CASE ~Changed(cur)
      <4>1. PICK v \in DOMAIN g : Changed(v) /\ v # cur
        BY <1>5, <3>2 DEF SomeChanged
      <4>2. Changed(v)'
        BY <1>3, <4>1 DEF Changed
      <4>. QED
        BY <1>3, <4>1, <4>2 DEF Doomed, SomeChanged
    <3>. QED
      BY <3>1, <3>2
  <2>. QED
    BY <1>4, <2>2, <2>3 DEF LInv
<1>6. CASE ~SomeChanged
  <2>1. ~Changed(cur)
    BY <1>2, <1>6 DEF SomeChanged
  <2>2. Progress
    BY <1>1, <1>6 DEF Doomed
  <2>3. Scanned(input, g, i, j)
    BY <2>2 DEF Progress
  <2>4. PICK W \in SUBSET Gates(input) : Walking(W)
    BY <2>2 DEF Progress
  <2>5. y = i => LeadsBack(input)
    <3>1. SUFFICES ASSUME y = i PROVE LeadsBack(input)
      OBVIOUS
    <3>2. k = 2 /\ 1 \in DOMAIN g[cur].adj /\ 1 # k
      BY <1>2, <3>1
    <3>3. g[cur].adj[1].n = i \/ g[g[cur].adj[1].n].type \notin {"GATE", "NODE"}
      BY <3>2
    <3>4. g[cur].adj[2].n = i /\ Follow(2, next)
      BY <3>1, <3>2
    <3>. QED
      BY <1>1, <2>1, <2>4, <3>3, <3>4, WalkLeadsBack
  <2>6. SInv'
    BY <1>1, <2>5, FollowSInv
  <2>7. Progress'
    BY <1>1, <2>1, <2>2, <2>3, <2>4, FollowProgress DEF Progress
  <2>. QED
    BY <1>4, <2>6, <2>7 DEF LInv
<1>. QED
  BY <1>5, <1>6

LEMMA TwoEntries ==
  ASSUME NEW n \in Nat, NEW k \in 1..n, n <= 2
  PROVE  n = 1 \/ n = 2
OBVIOUS

LEMMA WalkFirstLInv ==
  ASSUME LInv, WalkFirstGate \/ WalkFirstNode
  PROVE  LInv'
<1>. DEFINE y == g[cur].adj[1].n
<1>1. SInv /\ pc = "walk"
  BY DEF LInv, WalkFirstGate, WalkFirstNode, AtGate
<1>2. /\ cur \in DOMAIN g /\ g[cur].type = "GATE" /\ g[cur].adj \in Seq(Edge)
      /\ i \in DOMAIN g /\ g[i].type = "NODE"
      /\ \E k \in DOMAIN g[cur].adj : g[cur].adj[k].n = i \/ Marked(g, g[cur].adj[k].n)
  BY <1>1, WalkFacts
<1>3. Len(g[cur].adj) <= 2
  BY <1>2 DEF WalkFirstGate, WalkFirstNode, AtGate
<1>4. y # i /\ g[y].type \in {"GATE", "NODE"}
  BY <1>2 DEF WalkFirstGate, WalkFirstNode, TypeAt, OtherNodeFirst
<1>5. PICK k \in DOMAIN g[cur].adj : g[cur].adj[k].n = i \/ Marked(g, g[cur].adj[k].n)
  BY <1>2
<1>6. k # 1
  BY <1>4, <1>5 DEF Marked
<1>7. Len(g[cur].adj) = 2 /\ k = 2 /\ 1 \in DOMAIN g[cur].adj /\ DOMAIN g[cur].adj = {1, 2}
  <2>1. Len(g[cur].adj) \in Nat /\ DOMAIN g[cur].adj = 1..Len(g[cur].adj)
    BY <1>2
  <2>2. k \in 1..Len(g[cur].adj)
    BY <2>1
  <2>3. Len(g[cur].adj) = 1 \/ Len(g[cur].adj) = 2
    BY <1>3, <2>1, <2>2, TwoEntries
  <2>4. Len(g[cur].adj) # 1
    BY <1>6, <2>2
  <2>5. k \in 1..2
    BY <2>2, <2>3, <2>4
  <2>6. DOMAIN g[cur].adj = 1..2
    BY <2>1, <2>3, <2>4
  <2>. QED
    BY <1>6, <2>3, <2>4, <2>5, <2>6
<1>8. \A l \in DOMAIN g[cur].adj :
        l # 1 => g[cur].adj[l].n = i \/ g[g[cur].adj[l].n].type \notin {"GATE", "NODE"}
  BY <1>5, <1>7 DEF Marked
<1>9. ~Changed(cur)
  BY <1>1, <1>2, <1>4, ChangedFacts DEF Scanning, Marked
<1>10. CASE WalkFirstGate
  <2>1. g[y].type = "GATE" /\ Follow(1, "walk")
    BY <1>10 DEF WalkFirstGate, TypeAt
  <2>. QED
    BY <1>1, <1>4, <1>7, <1>8, <1>9, <2>1, FollowLInv
<1>11. CASE WalkFirstNode
  <2>1. g[y].type = "NODE" /\ Follow(1, "link")
    BY <1>11 DEF WalkFirstNode, OtherNodeFirst, TypeAt
  <2>. QED
    BY <1>1, <1>4, <1>7, <1>8, <1>9, <2>1, FollowLInv
<1>. QED
  BY <1>10, <1>11

LEMMA WalkSecondLInv ==
  ASSUME LInv, WalkSecond
  PROVE  LInv'
<1>1. SInv /\ pc = "walk"
  BY DEF LInv, WalkSecond, AtGate
<1>2. /\ cur \in DOMAIN g /\ g[cur].type = "GATE" /\ g[cur].adj \in Seq(Edge)
      /\ i \in DOMAIN g /\ g[i].type = "NODE"
      /\ \E k \in DOMAIN g[cur].adj : g[cur].adj[k].n = i \/ Marked(g, g[cur].adj[k].n)
  BY <1>1, WalkFacts
<1>3. Len(g[cur].adj) = 2 /\ DOMAIN g[cur].adj = {1, 2}
  <2>1. Len(g[cur].adj) <= 2 /\ Len(g[cur].adj) # 1
    BY <1>2 DEF WalkSecond, AtGate
  <2>2. Len(g[cur].adj) \in Nat /\ DOMAIN g[cur].adj = 1..Len(g[cur].adj)
    BY <1>2
  <2>3. PICK k \in DOMAIN g[cur].adj : TRUE
    BY <1>2
  <2>4. Len(g[cur].adj) = 2
    BY <2>1, <2>2, <2>3, TwoEntries
  <2>5. DOMAIN g[cur].adj = 1..2
    BY <2>2, <2>4
  <2>. QED
    BY <2>4, <2>5
<1>4. g[cur].adj[1].n = i \/ g[g[cur].adj[1].n].type \notin {"GATE", "NODE"}
  BY DEF WalkSecond, CameFromFirst, OtherNodeFirst, TypeAt
<1>5. \A l \in DOMAIN g[cur].adj :
        l # 2 => g[cur].adj[l].n = i \/ g[g[cur].adj[l].n].type \notin {"GATE", "NODE"}
  BY <1>3, <1>4
<1>6. Changed(cur) => g[cur].adj[2].n = i
  BY <1>1, <1>2, ChangedFacts DEF Scanning
<1>7. PICK next \in {"walk", "link"} :
        /\ next = "walk" <=> g[g[cur].adj[2].n].type = "GATE"
        /\ Follow(2, next)
  <2>1. Follow(2, IF g[g[cur].adj[2].n].type = "GATE" THEN "walk" ELSE "link")
    BY DEF WalkSecond, TypeAt
  <2>2. CASE g[g[cur].adj[2].n].type = "GATE"
    BY <2>1, <2>2
  <2>3. CASE g[g[cur].adj[2].n].type # "GATE"
    BY <2>1, <2>3
  <2>. QED
    BY <2>2, <2>3
<1>8. 2 \in DOMAIN g[cur].adj
  BY <1>3
<1>. QED
  BY <1>1, <1>3, <1>5, <1>6, <1>7, <1>8, FollowLInv

LEMMA WalkDeadEndLInv ==
  ASSUME LInv, WalkDeadEnd
  PROVE  LInv'
<1>. DEFINE z == g[cur].adj[1].n
<1>1. /\ SInv /\ pc = "walk" /\ (Doomed \/ Progress)
      /\ Len(g[cur].adj) = 1
      /\ pc' = "link" /\ UNCHANGED <<input, g, i, j, cur>>
  BY DEF LInv, WalkDeadEnd, AtGate, Scanning
<1>2. /\ cur \in DOMAIN g /\ g[cur].type = "GATE" /\ cur \in Gates(input)
      /\ g[cur].adj \in Seq(Edge) /\ cur \in ChainsFrom(input, i) /\ cur # i
      /\ \E k \in DOMAIN g[cur].adj : g[cur].adj[k].n = i \/ Marked(g, g[cur].adj[k].n)
  BY <1>1, WalkFacts
<1>3. DOMAIN g[cur].adj = {1}
  <2>1. DOMAIN g[cur].adj = 1..1
    BY <1>1, <1>2
  <2>. QED
    BY <2>1
<1>4. z = i \/ Marked(g, z)
  BY <1>2, <1>3
<1>5. AreAdjacent(g, cur, i) <=> z = i
  BY <1>3 DEF AreAdjacent
<1>6. ~Changed(cur)
  BY <1>1, <1>2, ChangedFacts DEF Scanning
<1>7. SInv'
  <2>1. ChangesArePending'
    <3>1. SUFFICES ASSUME NEW v \in DOMAIN g, Changed(v)
                   PROVE  \E k \in DOMAIN g[i].adj : PendingAt(v, k)'
      BY <1>1 DEF ChangesArePending, Changed
    <3>2. PICK k \in DOMAIN g[i].adj : PendingAt(v, k)
      BY <1>1, <3>1, ChangedFacts DEF Scanning
    <3>3. v # cur
      BY <1>6, <3>1
    <3>. QED
      BY <1>1, <3>2, <3>3 DEF PendingAt
  <2>2. OnChain'
    BY <1>1 DEF SInv, OnChain
  <2>3. g[cur].adj # <<>>
    BY <1>3
  <2>4. EndOfWalk'
    BY <1>1, <1>2, <1>4, <1>5, <2>3 DEF EndOfWalk
  <2>5. IInv'
    BY <1>1, WalkStep DEF SInv, Walk
  <2>6. input' \in Inputs /\ Kept(input', g') /\ ChangesHaveCause' /\ FoundAreLinks'
    BY <1>1 DEF SInv, ChangesHaveCause, SomeChanged, Changed, FoundAreLinks
  <2>. QED
    BY <2>1, <2>2, <2>4, <2>5, <2>6 DEF SInv
<1>8. CASE SomeChanged \/ ~AreAdjacent(g, cur, i)
  <2>1. Doomed'
    BY <1>1, <1>2, <1>8 DEF Doomed, SomeChanged, Changed
  <2>. QED
    BY <1>1, <1>7, <2>1 DEF LInv, ScanIsComplete
<1>9. CASE ~SomeChanged /\ AreAdjacent(g, cur, i)
  <2>1. Progress
    BY <1>1, <1>9 DEF Doomed
  <2>2. PICK W \in SUBSET Gates(input) : Walking(W)
    BY <1>1, <2>1 DEF Progress
  <2>3. z = i
    BY <1>5, <1>9
  <2>4. input[cur].adj = g[cur].adj /\ Neighbours(input, cur) = Neighbours(g, cur)
    BY <1>1, <1>2, <1>6, UnchangedGate
  <2>5. Neighbours(input, cur) = {i}
    BY <1>3, <2>3, <2>4 DEF Neighbours
  <2>6. i \notin W
    <3>1. i \in Nodes(input)
      BY <1>1, WalkFacts
    <3>. QED
      BY <3>1 DEF Gates, Nodes
  <2>7. W = {}
    BY <2>2, <2>5, <2>6 DEF Walking
  <2>8. cur = g[i].adj[j].n /\ AllDone(input, g, {})
    BY <2>2, <2>7 DEF Walking
  <2>9. Lonely(input, cur, i)
    BY <1>1, <2>3, <2>4 DEF Lonely
  <2>10. Trail(input, g, {}, {}, {i, cur})
    BY DEF Trail
  <2>11. Ended({})'
    <3>1. cur \notin Nodes(input)
      BY <1>2 DEF Gates, Nodes
    <3>. QED
      BY <1>1, <2>8, <2>9, <2>10, <3>1 DEF Ended
  <2>12. Progress'
    BY <1>1, <2>1, <2>11, KnownStays DEF Progress
  <2>. QED
    BY <1>1, <1>7, <2>12 DEF LInv, ScanIsComplete
<1>. QED
  BY <1>8, <1>9

----------------------------------------------------------------------------
(* The edge that replaces a chain. *)

LEMMA LinkFacts ==
  ASSUME SInv, pc = "link"
  PROVE  /\ cur \in DOMAIN g /\ i \in DOMAIN g /\ g[i].type = "NODE" /\ i \in Nodes(input)
         /\ j \in DOMAIN g[i].adj /\ g[cur].adj # <<>> /\ g[i].adj # <<>>
         /\ g[cur].adj \in Seq(Edge) /\ g[i].adj \in Seq(Edge)
         /\ attrs \in EdgeAttrs /\ j \in Nat /\ Len(g[i].adj) \in Nat
<1>1. cur \in DOMAIN g /\ i \in DOMAIN g /\ g[i].type = "NODE" /\ attrs \in EdgeAttrs /\ j \in Nat
  BY DEF SInv, IInv, WalkStaysInside, TypeOK
<1>2. j \in DOMAIN g[i].adj /\ g[cur].adj # <<>>
  BY DEF SInv, OnChain, EndOfWalk
<1>3. i \in Nodes(input)
  BY <1>1, StateFacts
<1>4. g[cur].adj \in Seq(Edge) /\ g[i].adj \in Seq(Edge)
  BY <1>1, StateFacts, NodeFields
<1>. QED
  BY <1>1, <1>2, <1>3, <1>4

(* With its ends linked, the chain that was walked is done. *)
LEMMA LinkProgress ==
  ASSUME SInv, pc = "link", NEW W \in SUBSET Gates(input), Ended(W),
         Scanned(input, g, i, j),
         NEW m, DOMAIN m = DOMAIN g, Grown(g, m), \A v \in DOMAIN g : m[v].type = g[v].type,
         AreAdjacent(m, cur, i), AreAdjacent(m, i, cur)
  PROVE  AllDone(input, m, {}) /\ Scanned(input, m, i, j + 1)
<1>1. /\ cur \in DOMAIN g /\ i \in DOMAIN g /\ i \in Nodes(input) /\ j \in Nat
  BY LinkFacts
<1>2. DOMAIN g = DOMAIN input /\ Kept(input, g)
  BY StateFacts DEF SInv
<1>3. \A v \in DOMAIN g : Marked(g, v) <=> Marked(m, v)
  BY DEF Marked
<1>4. /\ Trail(input, g, W, {}, {i, cur})
      /\ AllDone(input, g, W)
      /\ Marked(g, g[i].adj[j].n) \/ Lonely(input, g[i].adj[j].n, i)
  BY DEF Ended
<1>. DEFINE E == {i, cur} \cap Nodes(input)
<1>5. Trail(input, m, W, {}, E)
  BY <1>2, <1>3, <1>4 DEF Trail, Gates
<1>6. \A v, w \in E : v = w \/ AreAdjacent(m, v, w)
  OBVIOUS
<1>7. Complete(input, m, W)
  <2>1. E \in SUBSET Nodes(input)
    OBVIOUS
  <2>. HIDE DEF E
  <2>. QED
    BY <1>5, <1>6, <2>1 DEF Complete
<1>8. AllDone(input, m, {})
  <2>1. AllDone(input, m, W)
    BY <1>2, <1>3, <1>4, AllDoneStays
  <2>. QED
    BY <1>7, <2>1 DEF AllDone, Done
<1>9. Scanned(input, m, i, j + 1)
  <2>1. SUFFICES ASSUME NEW v \in Nodes(input), NEW k \in DOMAIN input[v].adj,
                        v < i \/ (v = i /\ k < j + 1), input[v].adj[k].n \in Gates(input)
                 PROVE  Marked(m, input[v].adj[k].n) \/ Lonely(input, input[v].adj[k].n, v)
    BY DEF Scanned
  <2>2. input[v].adj[k].n \in DOMAIN g
    BY <1>2, <2>1 DEF Gates
  <2>3. CASE v < i \/ (v = i /\ k < j)
    BY <1>3, <2>1, <2>2, <2>3 DEF Scanned
  <2>4. CASE v = i /\ k = j
    <3>1. input[i].adj[j] = g[i].adj[j]
      BY <1>1, <1>2, <2>4 DEF Kept, Grown
    <3>. QED
      BY <1>3, <1>4, <2>2, <2>4, <3>1
  <2>5. k \in Nat
    <3>1. input[v].adj \in Seq(Edge)
      BY StateFacts, NodeFields DEF Nodes
    <3>. QED
      BY <3>1
  <2>. QED
    BY <1>1, <2>1, <2>3, <2>4, <2>5
<1>. QED
  BY <1>8, <1>9

(* The ends of the walk are neighbours already. *)
LEMMA LinkOldLInv ==
  ASSUME LInv, LinkEnd, AreAdjacent(g, cur, i)
  PROVE  LInv'
<1>1. /\ SInv /\ pc = "link" /\ (Doomed \/ Progress)
      /\ g' = g /\ j' = j + 1 /\ pc' = "scan" /\ UNCHANGED <<input, i, cur>>
  BY DEF LInv, LinkEnd, Scanning
<1>2. /\ cur \in DOMAIN g /\ i \in DOMAIN g /\ j \in Nat /\ g[i].adj \in Seq(Edge)
      /\ IsGraph(g) /\ Symmetric(g) /\ Loopless(g)
  BY <1>1, LinkFacts, StateFacts
<1>3. ChangesArePending'
  <2>1. SUFFICES ASSUME NEW v \in DOMAIN g, Changed(v)
                 PROVE  \E k \in DOMAIN g[i].adj : PendingAt(v, k)'
    BY <1>1 DEF ChangesArePending, Changed
  <2>2. PICK k \in DOMAIN g[i].adj : PendingAt(v, k)
    BY <1>1, <2>1, ChangedFacts DEF Scanning
  <2>3. k \in Nat
    BY <1>2
  <2>4. j + 1 <= k
    BY <1>1, <1>2, <2>2, <2>3 DEF PendingAt
  <2>. QED
    BY <1>1, <2>2, <2>4 DEF PendingAt
<1>4. SInv'
  <2>1. IInv'
    BY <1>1, JoinStep DEF SInv, Join
  <2>. QED
    BY <1>1, <1>3, <2>1, SameGraphs
<1>5. CASE SomeChanged
  <2>1. Doomed'
    BY <1>1, <1>5 DEF Doomed, SomeChanged, Changed
  <2>. QED
    BY <1>1, <1>4, <2>1 DEF LInv, ScanIsComplete
<1>6. CASE ~SomeChanged
  <2>1. cur # i
    BY <1>2 DEF AreAdjacent, Loopless
  <2>2. Progress
    BY <1>1, <1>6, <2>1 DEF Doomed
  <2>3. PICK W \in SUBSET Gates(input) : Ended(W)
    BY <1>1, <2>2 DEF Progress
  <2>4. AreAdjacent(g, i, cur)
    BY <1>2, Adjacency, NeighboursAgree
  <2>5. Grown(g, g)
    BY DEF Grown
  <2>6. AllDone(input, g, {}) /\ Scanned(input, g, i, j + 1)
    BY <1>1, <2>2, <2>3, <2>4, <2>5, LinkProgress DEF Progress
  <2>7. Progress'
    BY <1>1, <2>2, <2>6, KnownStays DEF Progress
  <2>. QED
    BY <1>1, <1>4, <2>7 DEF LInv, ScanIsComplete
<1>. QED
  BY <1>5, <1>6

(* What the new edge changes. *)
LEMMA LinkNewFacts ==
  ASSUME SInv, LinkEnd, ~AreAdjacent(g, cur, i)
  PROVE  /\ pc = "link" /\ j' = j + 1 /\ pc' = "scan" /\ UNCHANGED <<input, i, cur>>
         /\ Joined(g, g', cur, i, attrs)
         /\ EntriesAfter(g, g', cur, i, attrs)
         /\ Grown(g, g')
         /\ cur # i
         /\ AreAdjacent(g', cur, i) /\ AreAdjacent(g', i, cur)
<1>1. /\ pc = "link" /\ j' = j + 1 /\ pc' = "scan" /\ UNCHANGED <<input, i, cur>>
      /\ g' = AddEdgeId(g, cur, i, attrs) /\ ~EdgeRefused(g, cur, i)
  BY DEF LinkEnd, LinkRefused
<1>2. IsGraph(g) /\ cur \in DOMAIN g /\ i \in DOMAIN g /\ attrs \in EdgeAttrs
  BY <1>1, LinkFacts, StateFacts
<1>3. cur \in 0..Len(g) /\ i \in 0..Len(g)
  <2>1. Len(g) \in Nat /\ DOMAIN g = 1..Len(g)
    BY <1>2 DEF IsGraph
  <2>. QED
    BY <1>2, <2>1
<1>4. AreAdjacent(g', cur, i)
  BY <1>1, <1>2, <1>3, AddEdgeIdConnects
<1>5. Joined(g, g', cur, i, attrs)
  BY <1>1, <1>2, <1>3, <1>4, AddEdgeIdEffect
<1>6. EntriesAfter(g, g', cur, i, attrs)
  BY <1>2, <1>5, JoinedEntries
<1>7. Grown(g, g')
  BY <1>1, <1>2, <1>3, AddEdgeIdGraph
<1>8. AreAdjacent(g', i, cur)
  BY <1>6 DEF AreAdjacent, EntriesAfter
<1>9. cur # i
  BY <1>5 DEF Joined
<1>. QED
  BY <1>1, <1>4, <1>5, <1>6, <1>7, <1>8, <1>9

(* The attribute of the new edge is one of the chain. *)
LEMMA LinkAttrs ==
  ASSUME SInv, LinkEnd, ~AreAdjacent(g, cur, i), AttrsKnown,
         NEW W \in SUBSET Gates(input), Ended(W)
  PROVE  AttrsKnown'
<1>. DEFINE x == g[i].adj[j].n
<1>1. /\ pc = "link" /\ input' = input /\ cur # i
      /\ EntriesAfter(g, g', cur, i, attrs)
  BY LinkNewFacts
<1>2. /\ cur \in DOMAIN g /\ i \in DOMAIN g /\ i \in Nodes(input)
      /\ IsGraph(g) /\ Symmetric(g) /\ IsGraph(input) /\ Symmetric(input) /\ DOMAIN g = DOMAIN input
      /\ \A v \in DOMAIN g : Neighbours(input, v) \subseteq Neighbours(g, v)
  BY <1>1, LinkFacts, StateFacts
<1>3. i \notin Neighbours(g, cur) /\ cur \notin Neighbours(g, i)
  BY <1>2, Adjacency, NeighboursAgree
<1>4. ASSUME PlainEnds(input), cur \in Nodes(input)
      PROVE  attrs \in ExpectedAttrs(cur, i) /\ attrs \in ExpectedAttrs(i, cur)
  <2>1. /\ W = ChainOf(input, x) /\ i \in Neighbours(input, x)
        /\ \E w \in W : w \in Neighbours(input, cur)
        /\ Reads(W)
    BY <1>1, <1>4 DEF Ended
  <2>2. PICK w \in W : w \in Neighbours(input, cur)
    BY <2>1
  <2>3. x \in Gates(input) /\ w \in Gates(input)
    BY <2>1 DEF ChainOf
  <2>4. W = ChainOf(input, w)
    BY <1>2, <2>1, <2>3, ChainOfSame
  <2>5. x \in W /\ x \in DOMAIN input /\ w \in DOMAIN input
    BY <2>1, <2>3 DEF ChainOf, Gates
  <2>6. cur \in Neighbours(input, w) /\ x \in Neighbours(input, i)
    BY <1>2, <2>1, <2>2, <2>5, NeighboursAgree
  <2> HIDE DEF x
  <2>7. attrs \in ChainAttrs(W)
    <3>1. CASE attrs # NULL
      BY <1>4, <2>1, <3>1 DEF Reads, ChainAttrs
    <3>2. CASE attrs = NULL
      <4>1. AttrsOf(input, W) \subseteq {NULL}
        BY <1>4, <2>1, <3>2, AttrsOfMembers DEF Reads
      <4>. QED
        BY <3>2, <4>1 DEF ChainAttrs
    <3>. QED
      BY <3>1, <3>2
  <2>8. W \in ChainsBetween(input, i, cur)
    <3>1. x \in GatesAround(input, {i})
      BY <2>3, <2>6, AroundMembers
    <3>2. AreAdjacent(input, w, cur)
      BY <2>6, Adjacency
    <3>. QED
      BY <2>1, <3>1, <3>2 DEF ChainsBetween, ChainOf
  <2>9. W \in ChainsBetween(input, cur, i)
    <3>1. w \in GatesAround(input, {cur})
      BY <2>2, <2>3, AroundMembers
    <3>2. AreAdjacent(input, x, i)
      BY <2>1, Adjacency
    <3>. QED
      BY <2>4, <2>5, <3>1, <3>2 DEF ChainsBetween, ChainOf
  <2>10. ~AreAdjacent(input, cur, i) /\ ~AreAdjacent(input, i, cur)
    BY <1>2, <1>3, Adjacency
  <2>. QED
    BY <2>7, <2>8, <2>9, <2>10 DEF ExpectedAttrs
<1>5. SUFFICES ASSUME PlainEnds(input), NEW v \in Nodes(input), NEW w \in Nodes(input),
                      NEW k \in DOMAIN g'[v].adj, g'[v].adj[k].n = w
               PROVE  g'[v].adj[k].attrs \in ExpectedAttrs(v, w)
  BY <1>1, ExpectedStays DEF AttrsKnown
<1>6. v \in DOMAIN g
  BY <1>2 DEF Nodes
<1>7. CASE k \in DOMAIN g[v].adj
  <2>1. g'[v].adj[k] = g[v].adj[k]
    BY <1>1, <1>6, <1>7 DEF EntriesAfter
  <2>. QED
    BY <1>5, <1>7, <2>1 DEF AttrsKnown
<1>8. CASE v = cur /\ k = Len(g[cur].adj) + 1
  <2>1. g'[v].adj[k] = [n |-> i, attrs |-> attrs]
    BY <1>1, <1>8 DEF EntriesAfter
  <2>. QED
    BY <1>4, <1>5, <1>8, <2>1
<1>9. CASE v = i /\ k = Len(g[i].adj) + 1
  <2>1. g'[v].adj[k] = [n |-> cur, attrs |-> attrs]
    BY <1>1, <1>9 DEF EntriesAfter
  <2>. QED
    BY <1>4, <1>5, <1>9, <2>1
<1>. QED
  BY <1>1, <1>6, <1>7, <1>8, <1>9 DEF EntriesAfter

LEMMA LinkNewPending ==
  ASSUME SInv, LinkEnd, ~AreAdjacent(g, cur, i)
  PROVE  ChangesArePending'
<1>1. /\ pc = "link" /\ j' = j + 1 /\ pc' = "scan" /\ UNCHANGED <<input, i, cur>>
      /\ Joined(g, g', cur, i, attrs) /\ EntriesAfter(g, g', cur, i, attrs)
      /\ Grown(g, g') /\ cur # i
  BY LinkNewFacts
<1>2. /\ cur \in DOMAIN g /\ i \in DOMAIN g /\ g[i].type = "NODE" /\ j \in DOMAIN g[i].adj
      /\ j \in Nat /\ g[i].adj \in Seq(Edge) /\ g[cur].adj \in Seq(Edge)
      /\ Len(g[i].adj) \in Nat /\ IsGraph(g)
  BY <1>1, LinkFacts, StateFacts
<1>3. /\ DOMAIN g' = DOMAIN g
      /\ \A v \in DOMAIN g : g'[v].type = g[v].type
      /\ \A v \in DOMAIN g : v # cur /\ v # i => g'[v] = g[v]
      /\ g'[cur].adj = Append(g[cur].adj, [n |-> i, attrs |-> attrs])
  BY <1>1 DEF Joined
<1>4. SUFFICES ASSUME NEW v \in DOMAIN g, Changed(v)'
               PROVE  \E k \in DOMAIN g'[i].adj : PendingAt(v, k)'
  BY <1>1, <1>3 DEF ChangesArePending
<1>5. v # i /\ g[v].type = "GATE"
  BY <1>2, <1>3, <1>4 DEF Changed
<1>6. CASE v = cur
  <2>0. PICK k : k = Len(g[i].adj) + 1
    OBVIOUS
  <2>1. k \in DOMAIN g'[i].adj /\ g'[i].adj[k] = [n |-> cur, attrs |-> attrs]
    BY <1>1, <2>0 DEF EntriesAfter
  <2>2. j + 1 <= k
    <3>1. j \in 1..Len(g[i].adj)
      BY <1>2
    <3>. QED
      BY <1>2, <2>0, <3>1
  <2>3. Len(g[cur].adj) = 1 /\ Marked(g, g[cur].adj[1].n) /\ cur \in ChainsFrom(input, i)
    BY <1>1, <1>5, <1>6 DEF SInv, EndOfWalk
  <2>4. Len(g'[cur].adj) = 2 /\ g'[cur].adj[1] = g[cur].adj[1] /\ g'[cur].adj[2].n = i
    <3>1. [n |-> i, attrs |-> attrs] \in Edge
      BY <1>2, LinkFacts, <1>1 DEF Edge, IsGraph
    <3>2. /\ g'[cur].adj[2] = [n |-> i, attrs |-> attrs]
          /\ Len(g'[cur].adj) = 2 /\ g'[cur].adj[1] = g[cur].adj[1]
      BY <1>2, <1>3, <2>3, <3>1
    <3>. QED
      BY <3>2
  <2>5. g[cur].adj[1].n \in DOMAIN g
    BY <1>2, <2>3 DEF IsGraph
  <2>6. Marked(g', g'[cur].adj[1].n)
    BY <1>3, <2>3, <2>4, <2>5 DEF Marked
  <2>7. g'[i].adj[k].n = cur
    BY <2>1
  <2>8. PendingAt(v, k)'
    BY <1>1, <1>2, <1>3, <1>6, <2>1, <2>2, <2>3, <2>4, <2>6, <2>7 DEF PendingAt
  <2>. QED
    BY <2>1, <2>8
<1>7. CASE v # cur
  <2>1. g'[v] = g[v] /\ Changed(v)
    BY <1>1, <1>3, <1>4, <1>5, <1>7 DEF Changed
  <2>2. PICK k \in DOMAIN g[i].adj : PendingAt(v, k)
    BY <1>1, <2>1, ChangedFacts DEF Scanning
  <2>3. k \in Nat
    BY <1>2
  <2>4. j + 1 <= k
    BY <1>1, <1>2, <2>2, <2>3 DEF PendingAt
  <2>5. k \in DOMAIN g'[i].adj /\ g'[i].adj[k] = g[i].adj[k]
    BY <1>1, <1>2 DEF Grown
  <2>6. g[v].adj[1].n \in DOMAIN g
    <3>1. Len(g[v].adj) = 2 /\ g[v].adj \in Seq(Edge)
      BY <1>2, <2>2, NodeFields DEF PendingAt
    <3>2. 1 \in DOMAIN g[v].adj
      BY <3>1
    <3>. QED
      BY <1>2, <3>2 DEF IsGraph
  <2>7. Marked(g', g'[v].adj[1].n)
    BY <1>3, <2>1, <2>2, <2>6 DEF PendingAt, Marked
  <2>8. PendingAt(v, k)'
    BY <1>1, <1>2, <1>3, <2>1, <2>2, <2>4, <2>5, <2>7 DEF PendingAt
  <2>. QED
    BY <2>5, <2>8
<1>. QED
  BY <1>6, <1>7

LEMMA LinkNewSInv ==
  ASSUME SInv, LinkEnd, ~AreAdjacent(g, cur, i)
  PROVE  SInv'
<1>1. /\ pc = "link" /\ j' = j + 1 /\ pc' = "scan" /\ UNCHANGED <<input, i, cur>>
      /\ Joined(g, g', cur, i, attrs) /\ EntriesAfter(g, g', cur, i, attrs)
      /\ Grown(g, g') /\ cur # i
  BY LinkNewFacts
<1>2. /\ cur \in DOMAIN g /\ i \in DOMAIN g /\ i \in Nodes(input) /\ g[i].type = "NODE"
      /\ g[i].adj # <<>> /\ g[cur].adj # <<>>
  BY <1>1, LinkFacts
<1>3. /\ DOMAIN g' = DOMAIN g /\ Len(g') = Len(g)
      /\ \A v \in DOMAIN g : g'[v].type = g[v].type
      /\ \A v \in DOMAIN g : v # cur /\ v # i => g'[v] = g[v]
  BY <1>1 DEF Joined
<1>4. Kept(input, g')
  <2>1. Kept(input, g)
    BY DEF SInv
  <2>2. Grown(input, g') /\ Len(g') = Len(input)
    BY <1>1, <1>3, <2>1, GrownTwice DEF Kept
  <2>3. ASSUME NEW v \in DOMAIN g, input[v].adj = <<>> PROVE g'[v].adj = <<>>
    <3>1. g[v].adj = <<>>
      BY <2>1, <2>3 DEF Kept
    <3>. QED
      BY <1>2, <1>3, <3>1
  <2>. QED
    BY <1>3, <2>1, <2>2, <2>3 DEF Kept, Marked
<1>5. ChangesHaveCause'
  <2>1. SUFFICES ASSUME ~SomeChanged, SomeChanged' PROVE Dangles(input)
    BY <1>1 DEF SInv, ChangesHaveCause
  <2>2. PICK v \in DOMAIN g : Changed(v)'
    BY <1>3, <2>1 DEF SomeChanged
  <2>3. v = cur /\ g[cur].type = "GATE"
    BY <1>1, <1>2, <1>3, <2>1, <2>2 DEF SomeChanged, Changed
  <2>4. ~Changed(cur)
    BY <1>2, <2>1 DEF SomeChanged
  <2>5. input[cur].adj = g[cur].adj
    BY <2>3, <2>4 DEF Changed
  <2>6. Len(g[cur].adj) = 1 /\ Marked(g, g[cur].adj[1].n) /\ cur \in ChainsFrom(input, i)
    BY <1>1, <2>3 DEF SInv, EndOfWalk
  <2>7. g[cur].adj[1].n \in DOMAIN g
    <3>1. IsGraph(g) /\ g[cur].adj \in Seq(Edge)
      BY <1>1, LinkFacts, StateFacts
    <3>2. 1 \in DOMAIN g[cur].adj
      BY <2>6, <3>1
    <3>. QED
      BY <1>2, <3>1, <3>2 DEF IsGraph
  <2>8. input[g[cur].adj[1].n].type = "GATE"
    BY <2>6, <2>7, StateFacts DEF Gates
  <2>9. cur \in GatesInUse(input)
    BY <1>2, <2>6 DEF GatesInUse
  <2>. QED
    BY <2>5, <2>6, <2>8, <2>9 DEF Dangles
<1>6. FoundAreLinks'
  <2>1. SUFFICES ASSUME NEW link \in DirectLinks(g') PROVE link \in Links(input)
    BY <1>1 DEF FoundAreLinks
  <2>2. PICK v \in Nodes(g'), w \in Nodes(g') : link = {v, w} /\ w \in Neighbours(g', v)
    BY DirectLinkMembers
  <2>3. v \in Nodes(g) /\ w \in Nodes(g) /\ v \in DOMAIN g
    BY <1>3 DEF Nodes
  <2>4. CASE w \in Neighbours(g, v)
    <3>1. link \in DirectLinks(g)
      BY <2>2, <2>3, <2>4, DirectLinkMembers
    <3>. QED
      BY <3>1 DEF SInv, FoundAreLinks
  <2>5. CASE w \notin Neighbours(g, v)
    <3>1. PICK k \in DOMAIN g'[v].adj : w = g'[v].adj[k].n
      BY <2>2 DEF Neighbours
    <3>2. \A m \in DOMAIN g[v].adj : m \in DOMAIN g'[v].adj /\ g'[v].adj[m] = g[v].adj[m]
      BY <1>1, <2>3 DEF EntriesAfter
    <3>3. k \notin DOMAIN g[v].adj
      BY <2>5, <3>1, <3>2 DEF Neighbours
    <3>4. \/ v = cur /\ k = Len(g[cur].adj) + 1
          \/ v = i /\ k = Len(g[i].adj) + 1
      BY <1>1, <2>3, <3>1, <3>3 DEF EntriesAfter
    <3>5. /\ g'[cur].adj[Len(g[cur].adj) + 1] = [n |-> i, attrs |-> attrs]
          /\ g'[i].adj[Len(g[i].adj) + 1] = [n |-> cur, attrs |-> attrs]
      BY <1>1 DEF EntriesAfter
    <3>6. /\ g'[cur].adj[Len(g[cur].adj) + 1].n = i
          /\ g'[i].adj[Len(g[i].adj) + 1].n = cur
      BY <3>5
    <3>7. (v = cur /\ w = i) \/ (v = i /\ w = cur)
      BY <3>1, <3>4, <3>6
    <3>8. link = {cur, i}
      BY <2>2, <3>7
    <3>9. g[cur].type = "NODE"
      BY <2>3, <3>7 DEF Nodes
    <3>10. {cur, i} \in ChainLinks(input)
      BY <1>1, <3>9 DEF SInv, EndOfWalk
    <3>. QED
      BY <3>8, <3>10 DEF Links
  <2>. QED
    BY <2>4, <2>5
<1>7. OnChain' /\ EndOfWalk'
  BY <1>1 DEF OnChain, EndOfWalk
<1>8. IInv'
  BY JoinStep DEF SInv, Join
<1>9. ChangesArePending' /\ input' \in Inputs
  BY <1>1, LinkNewPending DEF SInv
<1>. QED
  BY <1>1, <1>4, <1>5, <1>6, <1>7, <1>8, <1>9 DEF SInv

LEMMA LinkNewLInv ==
  ASSUME LInv, LinkEnd, ~AreAdjacent(g, cur, i)
  PROVE  LInv'
<1>1. SInv /\ (Doomed \/ Progress)
  BY DEF LInv, LinkEnd, Scanning
<1>2. /\ pc = "link" /\ j' = j + 1 /\ pc' = "scan" /\ UNCHANGED <<input, i, cur>>
      /\ Joined(g, g', cur, i, attrs) /\ Grown(g, g') /\ cur # i
      /\ AreAdjacent(g', cur, i) /\ AreAdjacent(g', i, cur)
  BY <1>1, LinkNewFacts
<1>3. /\ cur \in DOMAIN g /\ g[cur].adj \in Seq(Edge)
      /\ DOMAIN g' = DOMAIN g
      /\ \A v \in DOMAIN g : g'[v].type = g[v].type
      /\ \A v \in DOMAIN g : v # cur /\ v # i => g'[v] = g[v]
      /\ g'[cur].adj = Append(g[cur].adj, [n |-> i, attrs |-> attrs])
      /\ i \in DOMAIN g /\ g[i].type = "NODE" /\ i \in Nat \ {0} /\ attrs \in EdgeAttrs
  BY <1>1, <1>2, LinkFacts, StateFacts DEF Joined, IsGraph
<1>4. SInv' /\ ScanIsComplete'
  BY <1>1, <1>2, LinkNewSInv DEF ScanIsComplete
<1>5. CASE SomeChanged
  <2>1. PICK v \in DOMAIN g : Changed(v)
    BY <1>5 DEF SomeChanged
  <2>2. v # cur /\ v # i
    <3>1. v # i
      BY <1>3, <2>1 DEF Changed
    <3>2. v = cur => Len(g[v].adj) = 1
      BY <1>1, <1>2, <2>1 DEF SInv, EndOfWalk, Changed
    <3>3. Len(g[v].adj) = 2
      BY <1>1, <1>2, <2>1, ChangedFacts DEF Scanning
    <3>. QED
      BY <3>1, <3>2, <3>3
  <2>3. Changed(v)'
    BY <1>2, <1>3, <2>1, <2>2 DEF Changed
  <2>4. Doomed'
    BY <1>3, <2>3 DEF Doomed, SomeChanged
  <2>. QED
    BY <1>4, <2>4 DEF LInv
<1>6. CASE ~SomeChanged /\ g[cur].type = "GATE"
  <2>1. input[cur].adj = g[cur].adj
    BY <1>3, <1>6 DEF SomeChanged, Changed
  <2>2. g'[cur].adj # g[cur].adj
    <3>1. [n |-> i, attrs |-> attrs] \in Edge
      BY <1>3 DEF Edge
    <3>2. Len(g'[cur].adj) = Len(g[cur].adj) + 1 /\ Len(g[cur].adj) \in Nat
      BY <1>3, <3>1
    <3>. QED
      BY <3>2
  <2>3. Changed(cur)'
    BY <1>2, <1>3, <1>6, <2>1, <2>2 DEF Changed
  <2>4. Doomed'
    BY <1>2, <1>3, <2>3 DEF Doomed, SomeChanged
  <2>. QED
    BY <1>4, <2>4 DEF LInv
<1>7. CASE ~SomeChanged /\ g[cur].type # "GATE"
  <2>1. Progress
    BY <1>1, <1>2, <1>7 DEF Doomed
  <2>2. PICK W \in SUBSET Gates(input) : Ended(W)
    BY <1>2, <2>1 DEF Progress
  <2>3. AllDone(input, g', {}) /\ Scanned(input, g', i, j + 1)
    BY <1>1, <1>2, <1>3, <2>1, <2>2, LinkProgress DEF Progress
  <2>4. AttrsKnown'
    BY <1>1, <2>1, <2>2, LinkAttrs DEF Progress
  <2>5. Progress'
    BY <1>2, <2>3, <2>4 DEF Progress
  <2>. QED
    BY <1>4, <2>5 DEF LInv
<1>. QED
  BY <1>5, <1>6, <1>7

----------------------------------------------------------------------------
(* The progress of the scan. *)

LEMMA ScanNextLInv ==
  ASSUME LInv, ScanNext
  PROVE  LInv'
<1>1. /\ SInv /\ pc = "scan" /\ (Doomed \/ Progress)
      /\ g[i].type # "NODE" \/ j > Len(g[i].adj)
      /\ i' = i + 1 /\ j' = 1 /\ UNCHANGED <<input, g, pc>>
  BY DEF LInv, ScanNext, Scanning
<1>2. SInv' /\ ~SomeChanged /\ i \in DOMAIN g
  BY <1>1, ScanNextSInv
<1>3. Progress
  BY <1>1, <1>2 DEF Doomed
<1>4. Scanned(input, g, i + 1, 1)
  <2>1. SUFFICES ASSUME NEW v \in Nodes(input), NEW k \in DOMAIN input[v].adj,
                        v < i + 1 \/ (v = i + 1 /\ k < 1), input[v].adj[k].n \in Gates(input)
                 PROVE  v < i \/ (v = i /\ k < j)
    BY <1>3 DEF Scanned, Progress
  <2>2. IsGraph(input) /\ IsGraph(g) /\ DOMAIN g = DOMAIN input /\ v \in DOMAIN g
    BY <1>1, StateFacts DEF Nodes
  <2>3. v \in Nat /\ i \in Nat /\ j \in Nat
    BY <1>1, <2>2 DEF IsGraph, SInv, IInv, TypeOK
  <2>4. k \in DOMAIN g[v].adj
    BY <1>1, <2>2 DEF SInv, Kept, Grown
  <2>5. k \in Nat \ {0} /\ k <= Len(g[v].adj) /\ Len(g[v].adj) \in Nat
    <3>1. g[v].adj \in Seq(Edge)
      BY <2>2, NodeFields
    <3>2. Len(g[v].adj) \in Nat /\ DOMAIN g[v].adj = 1..Len(g[v].adj)
      BY <3>1
    <3>. QED
      BY <2>4, <3>2
  <2>6. v < i \/ v = i
    BY <2>1, <2>3, <2>5
  <2>7. CASE v = i
    <3>1. g[i].type = "NODE"
      BY <1>1, <2>2, <2>7, StateFacts
    <3>. QED
      BY <1>1, <2>3, <2>5, <2>7, <3>1
  <2>. QED
    BY <2>6, <2>7
<1>5. Progress'
  BY <1>1, <1>3, <1>4, KnownStays DEF Progress
<1>. QED
  BY <1>1, <1>2, <1>5 DEF LInv, ScanIsComplete

LEMMA ScanSkipLInv ==
  ASSUME LInv, ScanSkip
  PROVE  LInv'
<1>1. /\ SInv /\ pc = "scan" /\ (Doomed \/ Progress)
      /\ AtEntry /\ g[g[i].adj[j].n].type # "GATE"
      /\ j' = j + 1 /\ UNCHANGED <<input, g, pc, i, cur>>
  BY DEF LInv, ScanSkip, AtEntry, Scanning
<1>2. SInv' /\ ScanIsComplete'
  BY <1>1, ScanSkipSInv DEF ScanIsComplete
<1>3. CASE SomeChanged
  <2>1. Doomed'
    BY <1>1, <1>3 DEF Doomed, SomeChanged, Changed
  <2>. QED
    BY <1>2, <2>1 DEF LInv
<1>4. CASE ~SomeChanged
  <2>1. Progress
    BY <1>1, <1>4 DEF Doomed
  <2>2. Scanned(input, g, i, j + 1)
    <3>1. SUFFICES ASSUME NEW v \in Nodes(input), NEW k \in DOMAIN input[v].adj,
                          v < i \/ (v = i /\ k < j + 1), input[v].adj[k].n \in Gates(input)
                   PROVE  v < i \/ (v = i /\ k < j) \/ Marked(g, input[v].adj[k].n)
      BY <2>1 DEF Scanned, Progress
    <3>2. k \in Nat /\ j \in Nat
      <4>1. input[v].adj \in Seq(Edge)
        BY <1>1, StateFacts, NodeFields DEF Nodes
      <4>. QED
        BY <1>1, <4>1 DEF SInv, IInv, TypeOK
    <3>3. CASE v = i /\ k = j
      <4>1. input[i].adj[j] = g[i].adj[j]
        BY <1>1, <3>3 DEF SInv, Kept, Grown, Nodes
      <4>2. g[i].adj[j].n \in DOMAIN g
        BY <1>1, EntryFacts
      <4>. QED
        BY <1>1, <3>1, <3>3, <4>1, <4>2, StateFacts
    <3>. QED
      BY <3>1, <3>2, <3>3
  <2>3. Progress'
    BY <1>1, <2>1, <2>2, KnownStays DEF Progress
  <2>. QED
    BY <1>2, <2>3 DEF LInv
<1>. QED
  BY <1>3, <1>4

LEMMA ScanGateLInv ==
  ASSUME LInv, ScanGate
  PROVE  LInv'
<1>1. /\ SInv /\ pc = "scan" /\ (Doomed \/ Progress)
      /\ AtEntry /\ g[g[i].adj[j].n].type = "GATE"
      /\ cur' = g[i].adj[j].n /\ pc' = "walk" /\ attrs' = NULL /\ UNCHANGED <<input, g, i, j>>
  BY DEF LInv, ScanGate, AtEntry, Scanning
<1>2. SInv' /\ ScanIsComplete'
  BY <1>1, ScanGateSInv DEF ScanIsComplete
<1>3. CASE SomeChanged
  <2>1. Doomed'
    BY <1>1, <1>3 DEF Doomed, SomeChanged, Changed
  <2>. QED
    BY <1>2, <2>1 DEF LInv
<1>4. CASE ~SomeChanged
  <2>1. Progress
    BY <1>1, <1>4 DEF Doomed
  <2>2. cur' \in DOMAIN g /\ i \in Neighbours(g, cur')
    BY <1>1, EntryFacts
  <2>3. i \in Neighbours(input, cur')
    BY <1>1, <1>4, <2>2, UnchangedGate DEF SomeChanged
  <2>4. Trail(input, g, {}, {cur'}, {i})
    BY DEF Trail
  <2>5. Walking({})'
    BY <1>1, <2>1, <2>3, <2>4 DEF Walking, Progress, Reads
  <2>6. Progress'
    BY <1>1, <2>1, <2>5, KnownStays DEF Progress
  <2>. QED
    BY <1>2, <2>6 DEF LInv
<1>. QED
  BY <1>3, <1>4

(* Once every entry of every NODE was looked at, a gate of a chain is alone, or
   on a chain that is done and begins at that NODE. *)
LEMMA ChainsAreDone ==
  ASSUME NEW A, NEW h, IsGraph(A), AllDone(A, h, {}),
         NEW v \in Nodes(A),
         \A x \in Gates(A) : x \in Neighbours(A, v) => Marked(h, x) \/ Lonely(A, x, v),
         NEW x \in ChainsFrom(A, v)
  PROVE  \/ Lonely(A, x, v)
         \/ \E C \in SUBSET Gates(A) : /\ Complete(A, h, C) /\ x \in C
                                       /\ \E y \in C : y \in Neighbours(A, v)
<1>. DEFINE S == {y \in Gates(A) :
                    \/ Lonely(A, y, v)
                    \/ \E C \in SUBSET Gates(A) : /\ Complete(A, h, C) /\ y \in C
                                                  /\ \E z \in C : z \in Neighbours(A, v)}
<1>1. ASSUME NEW y \in Gates(A), y \in Neighbours(A, v) PROVE y \in S
  BY <1>1 DEF AllDone, Done
<1>2. ASSUME NEW y \in S, NEW z \in Gates(A), z \in Neighbours(A, y) PROVE z \in S
  <2>1. CASE Lonely(A, y, v)
    <3>1. A[y].adj \in Seq(Edge)
      BY NodeFields DEF Gates
    <3>2. z = v
      BY <1>2, <2>1, <3>1 DEF Lonely, Neighbours
    <3>. QED
      BY <3>2 DEF Gates, Nodes
  <2>2. ASSUME NEW C \in SUBSET Gates(A), Complete(A, h, C), y \in C,
               \E u \in C : u \in Neighbours(A, v)
        PROVE  z \in S
    <3>1. z \in C
      BY <1>2, <2>2 DEF Complete, Trail
    <3>. QED
      BY <2>2, <3>1
  <2>. QED
    BY <2>1, <2>2
<1>. HIDE DEF S
<1>3. ChainsFrom(A, v) \subseteq S
  BY <1>1, <1>2, ChainsWithin
<1>. QED
  BY <1>3 DEF S

LEMMA AllChainsDone ==
  ASSUME NEW A, NEW h, IsGraph(A), Symmetric(A), IsGraph(h), DOMAIN h = DOMAIN A,
         Nodes(h) = Nodes(A),
         \A v \in DOMAIN A : Neighbours(A, v) \subseteq Neighbours(h, v),
         AllDone(A, h, {}),
         \A v \in Nodes(A) : \A x \in Gates(A) :
           x \in Neighbours(A, v) => Marked(h, x) \/ Lonely(A, x, v)
  PROVE  ~Branches(A) /\ ~Dangles(A) /\ Links(A) \subseteq DirectLinks(h)
<1>1. ASSUME NEW v \in Nodes(A), NEW x \in ChainsFrom(A, v)
      PROVE  Lonely(A, x, v) \/ Tidy(A, x)
  <2>1. CASE Lonely(A, x, v)
    BY <2>1
  <2>2. ASSUME NEW C \in SUBSET Gates(A), Complete(A, h, C), x \in C
        PROVE  Tidy(A, x)
    BY <2>2 DEF Complete, Trail
  <2>. QED
    BY <2>1, <2>2, ChainsAreDone
<1>2. ASSUME NEW v \in Nodes(A), NEW x \in ChainsFrom(A, v) PROVE x \in DOMAIN A /\ Len(A[x].adj) \in Nat
  <2>1. x \in DOMAIN A
    BY ChainsClosed DEF Gates
  <2>2. A[x].adj \in Seq(Edge)
    BY <2>1, NodeFields
  <2>. QED
    BY <2>1, <2>2
<1>3. ~Branches(A)
  <2>1. SUFFICES ASSUME NEW v \in Nodes(A), NEW x \in ChainsFrom(A, v) PROVE ~(Len(A[x].adj) > 2)
    BY DEF Branches, GatesInUse
  <2>2. Len(A[x].adj) = 1 \/ Len(A[x].adj) <= 2
    BY <1>1 DEF Lonely, Tidy
  <2>3. Len(A[x].adj) \in Nat
    BY <1>2
  <2>4. ASSUME NEW n \in Nat, n = 1 \/ n <= 2 PROVE ~(n > 2)
    BY <2>4
  <2>. QED
    BY <2>2, <2>3, <2>4
<1>4. ~Dangles(A)
  <2>1. SUFFICES ASSUME NEW v \in Nodes(A), NEW x \in ChainsFrom(A, v), Len(A[x].adj) = 1
                 PROVE  A[A[x].adj[1].n].type # "GATE"
    BY DEF Dangles, GatesInUse
  <2>. QED
    BY <1>1, <2>1 DEF Lonely, Tidy, Nodes
<1>5. ASSUME NEW link \in DirectLinks(A) PROVE link \in DirectLinks(h)
  <2>1. PICK v \in Nodes(A), w \in Nodes(A) : link = {v, w} /\ w \in Neighbours(A, v)
    BY DirectLinkMembers
  <2>2. w \in Neighbours(h, v)
    BY <2>1 DEF Nodes
  <2>. QED
    BY <2>1, <2>2, DirectLinkMembers
<1>6. ASSUME NEW link \in ChainLinks(A) PROVE link \in DirectLinks(h)
  <2>1. PICK v \in Nodes(A), w \in Nodes(A) :
          link = {v, w} /\ v # w /\ \E x \in ChainsFrom(A, v) : w \in Neighbours(A, x)
    BY ChainLinkMembers
  <2>2. PICK x \in ChainsFrom(A, v) : w \in Neighbours(A, x)
    BY <2>1
  <2>3. ~Lonely(A, x, v)
    <3>1. A[x].adj \in Seq(Edge)
      BY <1>2, NodeFields
    <3>. QED
      BY <2>1, <2>2, <3>1 DEF Lonely, Neighbours
  <2>4. PICK C \in SUBSET Gates(A) : /\ Complete(A, h, C) /\ x \in C
                                     /\ \E y \in C : y \in Neighbours(A, v)
    BY <2>3, ChainsAreDone
  <2>5. PICK y \in C : y \in Neighbours(A, v)
    BY <2>4
  <2>6. v \in Neighbours(A, y)
    BY <2>5, NeighboursAgree DEF Nodes
  <2>7. PICK E \in SUBSET Nodes(A) : /\ Trail(A, h, C, {}, E)
                                     /\ \A a, b \in E : a = b \/ AreAdjacent(h, a, b)
    BY <2>4 DEF Complete
  <2>8. v \in E /\ w \in E
    BY <2>2, <2>4, <2>5, <2>6, <2>7 DEF Trail
  <2>9. w \in Neighbours(h, v)
    BY <2>1, <2>7, <2>8, Adjacency
  <2>. QED
    BY <2>1, <2>9, DirectLinkMembers
<1>. QED
  BY <1>3, <1>4, <1>5, <1>6 DEF Links

LEMMA ScanDoneLInv ==
  ASSUME LInv, ScanDone
  PROVE  LInv'
<1>1. /\ SInv /\ pc = "scan" /\ (Doomed \/ Progress)
      /\ i > Len(g) /\ pc' = "copy_nodes" /\ UNCHANGED <<input, g>>
  BY DEF LInv, ScanDone, Scanning
<1>2. SInv' /\ ~SomeChanged
  BY <1>1, ScanDoneSInv
<1>3. Progress
  BY <1>1, <1>2 DEF Doomed
<1>4. /\ IsGraph(input) /\ Symmetric(input) /\ IsGraph(g)
      /\ DOMAIN g = DOMAIN input /\ Nodes(g) = Nodes(input)
      /\ \A v \in DOMAIN g : Neighbours(input, v) \subseteq Neighbours(g, v)
  BY <1>1, StateFacts
<1>5. ASSUME NEW v \in Nodes(input), NEW x \in Gates(input), x \in Neighbours(input, v)
      PROVE  Marked(g, x) \/ Lonely(input, x, v)
  <2>1. PICK k \in DOMAIN input[v].adj : x = input[v].adj[k].n
    BY <1>5 DEF Neighbours
  <2>2. v < i
    <3>1. Len(g) \in Nat /\ DOMAIN g = 1..Len(g) /\ v \in DOMAIN g /\ i \in Nat
      BY <1>1, <1>4 DEF IsGraph, Nodes, SInv, IInv, TypeOK
    <3>. QED
      BY <1>1, <3>1
  <2>. QED
    BY <1>3, <2>1, <2>2 DEF Progress, Scanned
<1>6. ~Branches(input) /\ ~Dangles(input) /\ Links(input) \subseteq DirectLinks(g)
  BY <1>1, <1>3, <1>4, <1>5, AllChainsDone DEF Progress
<1>7. DirectLinks(g) \subseteq Links(input)
  BY <1>1 DEF SInv, FoundAreLinks
<1>8. AttrsKnown'
  BY <1>1, <1>3, KnownStays DEF Progress
<1>9. ScanIsComplete'
  BY <1>1, <1>6, <1>7, <1>8 DEF ScanIsComplete
<1>. QED
  BY <1>1, <1>2, <1>9 DEF LInv, Scanning

LEMMA FailLInv ==
  ASSUME LInv, NEW error \in {"BADGATE", "CONN"}, Fail(error)
  PROVE  LInv'
<1>1. SInv /\ pc' = "failed" /\ UNCHANGED <<input, g>>
  BY DEF LInv, Fail
<1>2. IInv'
  BY FailStep DEF LInv, SInv
<1>3. SInv'
  BY <1>1, <1>2, SameGraphs DEF ChangesArePending, Scanning
<1>. QED
  BY <1>1, <1>3 DEF LInv, Scanning, ScanIsComplete

LEMMA CopyLInv ==
  ASSUME LInv, Copy
  PROVE  LInv'
<1>1. /\ SInv /\ ScanIsComplete
      /\ pc \in {"copy_nodes", "copy_edges"}
      /\ pc' \in {"copy_nodes", "copy_edges", "done"} /\ UNCHANGED <<input, g>>
  BY DEF LInv, Copy, CopyNode, CopyNodesDone, CopyNext, CopyEdge, CopyDone
<1>2. IInv'
  BY CopyStep DEF LInv, SInv
<1>3. SInv'
  BY <1>1, <1>2, SameGraphs DEF ChangesArePending, Scanning
<1>4. AttrsKnown'
  BY <1>1, KnownStays DEF ScanIsComplete
<1>. QED
  BY <1>1, <1>3, <1>4 DEF LInv, Scanning, ScanIsComplete

----------------------------------------------------------------------------
LEMMA InitLInv == Init => LInv
<1>. SUFFICES ASSUME Init PROVE LInv
  OBVIOUS
<1>1. input \in Inputs /\ g = input /\ pc = "scan" /\ i = 1 /\ j = 1
  BY DEF Init
<1>2. IInv
  BY InitIInv
<1>3. IsGraph(input) /\ \A v \in DOMAIN input : input[v].type # "GATE_VISITED"
  BY <1>1, InputsAssumption
<1>4. Kept(input, g)
  BY <1>1 DEF Kept, Grown
<1>5. ~SomeChanged
  BY <1>1 DEF SomeChanged, Changed
<1>6. ChangesArePending /\ ChangesHaveCause
  BY <1>5 DEF ChangesArePending, ChangesHaveCause, SomeChanged
<1>7. OnChain /\ EndOfWalk /\ FoundAreLinks
  BY <1>1 DEF OnChain, EndOfWalk, FoundAreLinks, Links
<1>8. Progress
  <2>1. Scanned(input, g, 1, 1)
    <3>1. SUFFICES ASSUME NEW v \in Nodes(input), NEW k \in DOMAIN input[v].adj,
                          v < 1 \/ (v = 1 /\ k < 1)
                   PROVE  FALSE
      BY DEF Scanned
    <3>2. v \in Nat \ {0}
      BY <1>3 DEF IsGraph, Nodes
    <3>3. k \in Nat \ {0}
      <4>1. input[v].adj \in Seq(Edge)
        BY <1>3, NodeFields DEF Nodes
      <4>. QED
        BY <4>1
    <3>. QED
      BY <3>1, <3>2, <3>3
  <2>2. AllDone(input, g, {})
    BY <1>1, <1>3 DEF AllDone, Marked, Gates
  <2>3. AttrsKnown
    BY <1>1 DEF AttrsKnown, ExpectedAttrs, AreAdjacent
  <2>. QED
    BY <1>1, <2>1, <2>2, <2>3 DEF Progress
<1>9. ScanIsComplete
  BY <1>1 DEF ScanIsComplete
<1>. QED
  BY <1>1, <1>2, <1>4, <1>6, <1>7, <1>8, <1>9 DEF LInv, SInv

LEMMA StepLInv == LInv /\ [Next]_vars => LInv'
<1>. SUFFICES ASSUME LInv, [Next]_vars PROVE LInv'
  OBVIOUS
<1>1. CASE Scan
  BY <1>1, ScanNextLInv, ScanSkipLInv, ScanGateLInv, ScanDoneLInv DEF Scan
<1>2. CASE Walk
  BY <1>2, FailLInv, WalkFirstLInv, WalkDeadEndLInv, WalkSecondLInv DEF Walk, WalkBadGate
<1>3. CASE Join
  BY <1>3, FailLInv, LinkOldLInv, LinkNewLInv DEF Join, LinkFails
<1>4. CASE Copy
  BY <1>4, CopyLInv
<1>5. CASE UNCHANGED vars
  <2>1. UNCHANGED <<input, g, pc, i, j, cur, attrs>>
    BY <1>5 DEF vars
  <2>2. IInv'
    BY StepIInv DEF LInv, SInv
  <2>3. ChangesArePending' /\ ChangesHaveCause' /\ OnChain' /\ EndOfWalk' /\ FoundAreLinks'
    BY <2>1 DEF LInv, SInv, ChangesArePending, ChangesHaveCause, SomeChanged, Changed,
                PendingAt, OnChain, EndOfWalk, FoundAreLinks, Scanning
  <2>4. AttrsKnown => AttrsKnown'
    BY <2>1, KnownStays
  <2>5. (Doomed \/ Progress) => (Doomed \/ Progress)'
    BY <2>1, <2>4 DEF Doomed, SomeChanged, Changed, Progress, Walking, Ended, Reads
  <2>. QED
    BY <2>1, <2>2, <2>3, <2>4, <2>5 DEF LInv, SInv, Scanning, ScanIsComplete
<1>. QED
  BY <1>1, <1>2, <1>3, <1>4, <1>5 DEF Next

LEMMA LInvariance == Spec => []LInv
  BY InitLInv, StepLInv, PTL DEF Spec
=============================================================================
