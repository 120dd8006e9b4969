----------------------------- MODULE CopyProofs -----------------------------
(***************************************************************************)
(* The second half of compaction: what the copy has of the graph that the  *)
(* walks left, and with it the refinement of Bridge.                       *)
(***************************************************************************)
EXTENDS BridgeProofs, FunctionTheorems

(* f takes every node of the copy to the node it was made from: those before m
   that are copied, in their order. *)
CopyOf(f, m) ==
  /\ f \in [DOMAIN new_g -> DOMAIN g]
  /\ \A u \in DOMAIN new_g : /\ f[u] < m /\ Copied(g[f[u]])
                             /\ new_g[u].name = g[f[u]].name
                             /\ new_g[u].type = g[f[u]].type
  /\ \A v \in DOMAIN g : v < m /\ Copied(g[v]) => \E u \in DOMAIN new_g : f[u] = v
  /\ \A u, w \in DOMAIN new_g : u < w => f[u] < f[w]

(* An entry for w that the copy has passed in the list of v. *)
Seen(v, w) == \E k \in DOMAIN g[v].adj : g[v].adj[k].n = w /\ (v < i \/ (v = i /\ k < j))

(* An edge is copied when it is met at its lower end. *)
Entered(v, w) == (v < w /\ Seen(v, w)) \/ (w < v /\ Seen(w, v))

EdgesOf(f) ==
  \A u, w \in Nodes(new_g) : w \in Neighbours(new_g, u) <=> Entered(f[u], f[w])

CInv ==
  /\ NoParallel(new_g)
  /\ Scanning => new_g = EmptyGraph
  /\ pc = "copy_nodes" =>
       \E f : CopyOf(f, i) /\ \A u \in DOMAIN new_g : new_g[u].adj = <<>>
  /\ pc \in {"copy_edges", "done"} =>
       \E f : CopyOf(f, Len(g) + 1) /\ (NamesTell(input) => EdgesOf(f))
  /\ pc = "done" => i > Len(g)

----------------------------------------------------------------------------
LEMMA CopyFacts ==
  ASSUME LInv
  PROVE  /\ IsGraph(g) /\ Symmetric(g) /\ Loopless(g) /\ Len(g) \in Nat /\ DOMAIN g = 1..Len(g)
         /\ IsGraph(new_g) /\ Symmetric(new_g) /\ Loopless(new_g)
         /\ Len(new_g) \in Nat /\ DOMAIN new_g = 1..Len(new_g)
         /\ i \in Nat \ {0} /\ j \in Nat \ {0}
         /\ DOMAIN g = DOMAIN input /\ Nodes(g) = Nodes(input)
         /\ \A v \in DOMAIN g : /\ input[v].name = g[v].name
                                /\ input[v].adj = <<>> <=> g[v].adj = <<>>
<1>1. SInv
  BY DEF LInv
<1>2. /\ IsGraph(g) /\ Symmetric(g) /\ Loopless(g)
      /\ IsGraph(new_g) /\ Symmetric(new_g) /\ Loopless(new_g)
      /\ i \in 1..(Len(g) + 1) /\ j \in Nat \ {0}
  BY <1>1 DEF SInv, IInv, TypeOK, ListsAgree
<1>3. Len(g) \in Nat /\ DOMAIN g = 1..Len(g) /\ Len(new_g) \in Nat /\ DOMAIN new_g = 1..Len(new_g)
  BY <1>2 DEF IsGraph
<1>4. i \in Nat \ {0}
  BY <1>2, <1>3
<1>5. DOMAIN g = DOMAIN input /\ Nodes(g) = Nodes(input) /\ IsGraph(input) /\ Kept(input, g)
  BY <1>1, StateFacts DEF SInv
<1>6. ASSUME NEW v \in DOMAIN g
      PROVE  input[v].name = g[v].name /\ (input[v].adj = <<>> <=> g[v].adj = <<>>)
  <2>1. input[v].adj = <<>> => g[v].adj = <<>>
    BY <1>5 DEF Kept
  <2>2. ASSUME input[v].adj # <<>> PROVE g[v].adj # <<>>
    <3>1. input[v].adj \in Seq(Edge)
      BY <1>5, NodeFields
    <3>2. 1 \in DOMAIN input[v].adj
      BY <2>2, <3>1
    <3>3. 1 \in DOMAIN g[v].adj
      BY <1>5, <3>2 DEF Kept, Grown
    <3>. QED
      BY <3>3
  <2>3. input[v].name = g[v].name
    BY <1>5 DEF Kept, Grown
  <2>. QED
    BY <2>1, <2>2, <2>3
<1>. QED
  BY <1>2, <1>3, <1>4, <1>5, <1>6

(* The name of a copied node finds a NODE of the copy exactly if that is its
   copy. *)
LEMMA FindsCopy ==
  ASSUME LInv, NamesTell(input), NEW f, CopyOf(f, Len(g) + 1),
         NEW v \in DOMAIN g, Copied(g[v]), NEW u \in Nodes(new_g)
  PROVE  FindNode(new_g, g[v].name) = u <=> f[u] = v
<1>1. /\ IsGraph(new_g) /\ new_g \in Seq(Node) /\ u \in DOMAIN new_g /\ f[u] \in DOMAIN g
      /\ new_g[u].type = "NODE" /\ g[f[u]].type = "NODE"
      /\ g[f[u]].name = new_g[u].name /\ g[f[u]].adj # <<>> /\ g[v].adj # <<>>
  BY CopyFacts DEF CopyOf, Copied, Nodes, IsGraph
<1>2. \A w \in DOMAIN g : /\ input[w].name = g[w].name
                          /\ input[w].adj = <<>> <=> g[w].adj = <<>>
  BY CopyFacts
<1>3. f[u] \in Nodes(input) /\ DOMAIN g = DOMAIN input
  BY <1>1, CopyFacts DEF Nodes
<1>4. ASSUME NEW w \in DOMAIN g, g[w].adj # <<>>, g[w].name = g[f[u]].name PROVE w = f[u]
  BY <1>1, <1>2, <1>3, <1>4 DEF NamesTell
<1>5. ASSUME FindNode(new_g, g[v].name) = u PROVE f[u] = v
  <2>1. u # 0
    BY <1>1
  <2>2. new_g[u].name = g[v].name
    BY <1>1, <1>5, <2>1, FindNodeRange
  <2>. QED
    BY <1>1, <1>4, <2>2
<1>6. ASSUME f[u] = v PROVE FindNode(new_g, g[v].name) = u
  <2>1. Live(new_g[u])
    BY <1>1 DEF Live
  <2>2. ASSUME NEW w \in DOMAIN new_g, new_g[w].name = new_g[u].name PROVE w = u
    <3>1. f[w] \in DOMAIN g /\ g[f[w]].adj # <<>> /\ g[f[w]].name = new_g[w].name
      BY DEF CopyOf, Copied
    <3>2. f[w] = f[u]
      BY <1>1, <1>4, <2>2, <3>1
    <3>3. u \in Nat /\ w \in Nat /\ f[u] \in Nat
      BY <1>1, CopyFacts
    <3>4. ~(w < u) /\ ~(u < w)
      BY <1>1, <3>2, <3>3 DEF CopyOf
    <3>. QED
      BY <3>3, <3>4
  <2>. QED
    BY <1>1, <1>6, <2>1, <2>2, FindsTheOnlyOne
<1>. QED
  BY <1>5, <1>6

(* Whose neighbours graph_add_edge_id makes neighbours. *)
LEMMA AddEdgeIdNeighbours ==
  ASSUME NEW h, IsGraph(h), Symmetric(h), NEW a \in 0..Len(h), NEW b \in 0..Len(h),
         NEW at \in EdgeAttrs, NEW x \in DOMAIN h, NEW y \in DOMAIN h
  PROVE  y \in Neighbours(AddEdgeId(h, a, b, at), x) <=>
           \/ y \in Neighbours(h, x)
           \/ a # b /\ ((x = a /\ y = b) \/ (x = b /\ y = a))
<1>. DEFINE m == AddEdgeId(h, a, b, at)
<1>1. CASE m = h
  <2>1. ASSUME a # b, a \in DOMAIN h, b \in DOMAIN h PROVE AreAdjacent(h, a, b)
    <3>1. Len(h) \in Nat /\ DOMAIN h = 1..Len(h)
      BY DEF IsGraph
    <3>2. ~EdgeRefused(h, a, b)
      BY <2>1, <3>1 DEF EdgeRefused
    <3>3. AreAdjacent(m, a, b)
      BY <3>2, AddEdgeIdConnects
    <3>. QED
      BY <1>1, <3>3
  <2>2. ASSUME a # b, a \in DOMAIN h, b \in DOMAIN h
        PROVE  b \in Neighbours(h, a) /\ a \in Neighbours(h, b)
    BY <2>1, <2>2, Adjacency, NeighboursAgree
  <2>. QED
    BY <1>1, <2>2
<1>2. CASE Joined(h, m, a, b, at)
  <2>. HIDE DEF m
  <2>1. EntriesAfter(h, m, a, b, at)
    BY <1>2, JoinedEntries
  <2>2. a # b /\ a \in DOMAIN h /\ b \in DOMAIN h
    BY <1>2 DEF Joined
  <2>3. ASSUME y \in Neighbours(h, x) PROVE y \in Neighbours(m, x)
    BY <2>1, <2>3 DEF EntriesAfter, Neighbours
  <2>4. /\ m[a].adj[Len(h[a].adj) + 1].n = b /\ Len(h[a].adj) + 1 \in DOMAIN m[a].adj
        /\ m[b].adj[Len(h[b].adj) + 1].n = a /\ Len(h[b].adj) + 1 \in DOMAIN m[b].adj
    <3>1. /\ m[a].adj[Len(h[a].adj) + 1] = [n |-> b, attrs |-> at]
          /\ m[b].adj[Len(h[b].adj) + 1] = [n |-> a, attrs |-> at]
          /\ Len(h[a].adj) + 1 \in DOMAIN m[a].adj
          /\ Len(h[b].adj) + 1 \in DOMAIN m[b].adj
      BY <2>1 DEF EntriesAfter
    <3>. QED
      BY <3>1
  <2>5. ASSUME (x = a /\ y = b) \/ (x = b /\ y = a) PROVE y \in Neighbours(m, x)
    BY <2>4, <2>5 DEF Neighbours
  <2>6. ASSUME y \in Neighbours(m, x), y \notin Neighbours(h, x)
        PROVE  (x = a /\ y = b) \/ (x = b /\ y = a)
    <3>1. PICK k \in DOMAIN m[x].adj : y = m[x].adj[k].n
      BY <2>6 DEF Neighbours
    <3>2. \A l \in DOMAIN h[x].adj : m[x].adj[l] = h[x].adj[l]
      BY <2>1 DEF EntriesAfter
    <3>3. k \notin DOMAIN h[x].adj
      BY <2>6, <3>1, <3>2 DEF Neighbours
    <3>4. \/ x = a /\ k = Len(h[a].adj) + 1
          \/ x = b /\ k = Len(h[b].adj) + 1
      BY <2>1, <3>1, <3>3 DEF EntriesAfter
    <3>. QED
      BY <2>4, <3>1, <3>4
  <2>. QED
    BY <2>2, <2>3, <2>5, <2>6 DEF m
<1>. QED
  BY <1>1, <1>2, AddEdgeIdEffect

----------------------------------------------------------------------------
LEMMA InitCInv == Init => CInv
<1>. SUFFICES ASSUME Init PROVE CInv
  OBVIOUS
<1>1. pc = "scan" /\ new_g = EmptyGraph
  BY DEF Init
<1>. QED
  BY <1>1 DEF CInv, NoParallel, EmptyGraph

(* Before the copy begins, nothing is in it. *)
LEMMA ScanningCInv ==
  ASSUME CInv, Scanning, Scanning' \/ pc' = "failed", new_g' = new_g \/ new_g' = EmptyGraph
  PROVE  CInv'
<1>1. new_g' = EmptyGraph
  BY DEF CInv
<1>2. NoParallel(new_g')
  BY <1>1 DEF NoParallel, EmptyGraph
<1>. QED
  BY <1>1, <1>2 DEF CInv, Scanning

LEMMA ScanDoneCInv ==
  ASSUME LInv, CInv, ScanDone
  PROVE  CInv'
<1>1. pc = "scan" /\ pc' = "copy_nodes" /\ i' = 1 /\ UNCHANGED <<g, new_g, input>>
  BY DEF ScanDone
<1>2. new_g = <<>> /\ NoParallel(new_g)
  BY <1>1 DEF CInv, Scanning, EmptyGraph
<1>3. \A v \in DOMAIN g : ~(v < 1)
  BY CopyFacts
<1>. DEFINE f == [u \in {} |-> 0]
<1>4. CopyOf(f, i)'
  BY <1>1, <1>2, <1>3 DEF CopyOf
<1>5. \A u \in DOMAIN new_g : new_g[u].adj = <<>>
  BY <1>2
<1>. HIDE DEF f
<1>. QED
  BY <1>1, <1>2, <1>4, <1>5 DEF CInv, Scanning

LEMMA CopyNodeCInv ==
  ASSUME LInv, CInv, CopyNode
  PROVE  CInv'
<1>1. /\ pc = "copy_nodes" /\ i <= Len(g) /\ i' = i + 1 /\ UNCHANGED <<g, input, pc>>
      /\ new_g' = IF Copied(g[i]) THEN AddNode(new_g, g[i].name, g[i].type) ELSE new_g
  BY DEF CopyNode
<1>2. PICK f : CopyOf(f, i) /\ \A u \in DOMAIN new_g : new_g[u].adj = <<>>
  BY <1>1 DEF CInv
<1>3. /\ IsGraph(g) /\ Len(g) \in Nat /\ DOMAIN g = 1..Len(g) /\ i \in Nat \ {0}
      /\ IsGraph(new_g) /\ Len(new_g) \in Nat /\ DOMAIN new_g = 1..Len(new_g)
  BY CopyFacts
<1>4. i \in DOMAIN g
  BY <1>1, <1>3
<1>5. \A v \in DOMAIN g : v < i + 1 <=> v < i \/ v = i
  BY <1>3
<1>6. /\ f \in [DOMAIN new_g -> DOMAIN g]
      /\ \A u \in DOMAIN new_g : /\ f[u] < i /\ Copied(g[f[u]])
                                 /\ new_g[u].name = g[f[u]].name
                                 /\ new_g[u].type = g[f[u]].type
      /\ \A v \in DOMAIN g : v < i /\ Copied(g[v]) => \E u \in DOMAIN new_g : f[u] = v
      /\ \A u, w \in DOMAIN new_g : u < w => f[u] < f[w]
  BY <1>2 DEF CopyOf
<1>7. CASE ~Copied(g[i])
  <2>1. CopyOf(f, i)'
    BY <1>1, <1>5, <1>6, <1>7 DEF CopyOf, Copied
  <2>. QED
    BY <1>1, <1>2, <1>7, <2>1 DEF CInv, Scanning
<1>8. CASE Copied(g[i])
  <2>. DEFINE n == Len(new_g) + 1
  <2>1. g[i].name \in Names /\ g[i].type \in NodeTypes
    BY <1>3, <1>4, NodeFields
  <2>2. /\ IsGraph(new_g') /\ Len(new_g') = n
        /\ \A u \in DOMAIN new_g : new_g'[u] = new_g[u]
        /\ new_g'[n] = [name |-> g[i].name, type |-> g[i].type, adj |-> <<>>]
    BY <1>1, <1>3, <1>8, <2>1, AddNodeProperties
  <2>3. NoParallel(new_g')
    BY <1>1, <1>3, <1>8, <2>1, AddNodeGrows DEF CInv
  <2>4. DOMAIN new_g' = DOMAIN new_g \cup {n} /\ n \notin DOMAIN new_g
    <3>1. DOMAIN new_g' = 1..n
      BY <2>2 DEF IsGraph
    <3>. QED
      BY <1>3, <3>1
  <2>5. new_g'[n].name = g[i].name /\ new_g'[n].type = g[i].type /\ new_g'[n].adj = <<>>
    BY <2>2
  <2>6. \A u \in DOMAIN new_g : u < n /\ ~(n < u)
    BY <1>3
  <2>7. n \in Nat /\ ~(n < n) /\ i < i + 1 /\ ~(i < i)
    BY <1>3
  <2>. HIDE DEF n
  <2>8. PICK e : e = [u \in DOMAIN new_g \cup {n} |-> IF u = n THEN i ELSE f[u]]
    OBVIOUS
  <2>9. e[n] = i /\ \A u \in DOMAIN new_g : e[u] = f[u]
    BY <2>4, <2>8
  <2>10. CopyOf(e, i)'
    <3>1. e \in [DOMAIN new_g' -> DOMAIN g]
      BY <1>4, <1>6, <2>4, <2>8
    <3>2. ASSUME NEW u \in DOMAIN new_g'
          PROVE  /\ e[u] < i + 1 /\ Copied(g[e[u]])
                 /\ new_g'[u].name = g[e[u]].name
                 /\ new_g'[u].type = g[e[u]].type
      <4>1. CASE u = n
        BY <1>8, <2>5, <2>7, <2>9, <4>1
      <4>2. CASE u \in DOMAIN new_g
        <5>1. f[u] \in DOMAIN g
          BY <1>6, <4>2
        <5>2. f[u] < i + 1
          BY <1>5, <1>6, <4>2, <5>1
        <5>. QED
          BY <1>6, <2>2, <2>9, <4>2, <5>2
      <4>. QED
        BY <2>4, <4>1, <4>2
    <3>3. ASSUME NEW v \in DOMAIN g, v < i + 1, Copied(g[v]) PROVE \E u \in DOMAIN new_g' : e[u] = v
      <4>1. CASE v = i
        BY <2>4, <2>9, <4>1
      <4>2. CASE v < i
        BY <1>6, <2>4, <2>9, <3>3, <4>2
      <4>. QED
        BY <1>5, <3>3, <4>1, <4>2
    <3>4. ASSUME NEW u \in DOMAIN new_g', NEW w \in DOMAIN new_g', u < w PROVE e[u] < e[w]
      <4>1. u \in DOMAIN new_g
        BY <2>4, <2>6, <2>7, <3>4
      <4>2. CASE w = n
        BY <1>6, <2>9, <4>1, <4>2
      <4>3. CASE w \in DOMAIN new_g
        BY <1>6, <2>9, <3>4, <4>1, <4>3
      <4>. QED
        BY <2>4, <4>2, <4>3
    <3>. QED
      BY <1>1, <3>1, <3>2, <3>3, <3>4 DEF CopyOf
  <2>11. \A u \in DOMAIN new_g' : new_g'[u].adj = <<>>
    BY <1>2, <2>2, <2>4, <2>5
  <2>. QED
    BY <1>1, <2>3, <2>10, <2>11 DEF CInv, Scanning
<1>. QED
  BY <1>7, <1>8

LEMMA CopyNodesDoneCInv ==
  ASSUME LInv, CInv, CopyNodesDone
  PROVE  CInv'
<1>1. /\ pc = "copy_nodes" /\ i > Len(g) /\ pc' = "copy_edges" /\ i' = 1 /\ j' = 1
      /\ UNCHANGED <<g, new_g, input>>
  BY DEF CopyNodesDone
<1>2. PICK f : CopyOf(f, i) /\ \A u \in DOMAIN new_g : new_g[u].adj = <<>>
  BY <1>1 DEF CInv
<1>3. /\ IsGraph(g) /\ Len(g) \in Nat /\ DOMAIN g = 1..Len(g) /\ i \in Nat \ {0}
  BY CopyFacts
<1>4. \A v \in DOMAIN g : v < i /\ v < Len(g) + 1
  BY <1>1, <1>3
<1>5. CopyOf(f, Len(g) + 1)
  BY <1>2, <1>4 DEF CopyOf
<1>6. ASSUME NEW v \in DOMAIN g, NEW w PROVE ~Seen(v, w)'
  <2>1. ASSUME NEW k \in DOMAIN g[v].adj PROVE ~(k < 1)
    <3>1. g[v].adj \in Seq(Edge)
      BY <1>3, NodeFields
    <3>. QED
      BY <3>1
  <2>2. ~(v < 1)
    BY <1>3
  <2>. QED
    BY <1>1, <2>1, <2>2 DEF Seen
<1>7. EdgesOf(f)'
  <2>1. ASSUME NEW u \in Nodes(new_g), NEW w \in Nodes(new_g)
        PROVE  w \notin Neighbours(new_g, u) /\ ~Entered(f[u], f[w])'
    <3>1. f[u] \in DOMAIN g /\ f[w] \in DOMAIN g
      BY <1>5 DEF CopyOf, Nodes
    <3>2. w \notin Neighbours(new_g, u)
      BY <1>2 DEF Nodes, Neighbours
    <3>. QED
      BY <1>6, <3>1, <3>2 DEF Entered
  <2>. QED
    BY <1>1, <2>1 DEF EdgesOf
<1>8. CopyOf(f, Len(g) + 1)'
  BY <1>1, <1>5 DEF CopyOf
<1>. QED
  BY <1>1, <1>7, <1>8 DEF CInv, Scanning

LEMMA CopyNextCInv ==
  ASSUME LInv, CInv, CopyNext
  PROVE  CInv'
<1>1. /\ pc = "copy_edges" /\ i <= Len(g) /\ i' = i + 1 /\ j' = 1
      /\ g[i].type = "GATE_VISITED" \/ j > Len(g[i].adj)
      /\ UNCHANGED <<g, new_g, input, pc>>
  BY DEF CopyNext
<1>2. PICK f : CopyOf(f, Len(g) + 1) /\ (NamesTell(input) => EdgesOf(f))
  BY <1>1 DEF CInv
<1>3. /\ IsGraph(g) /\ Len(g) \in Nat /\ DOMAIN g = 1..Len(g) /\ i \in Nat \ {0} /\ j \in Nat
  BY CopyFacts
<1>4. ASSUME NEW v \in DOMAIN g, Copied(g[v]), NEW w PROVE Seen(v, w)' <=> Seen(v, w)
  <2>1. ASSUME NEW k \in DOMAIN g[v].adj
        PROVE  (v < i + 1 \/ (v = i + 1 /\ k < 1)) <=> (v < i \/ (v = i /\ k < j))
    <3>1. g[v].adj \in Seq(Edge)
      BY <1>3, NodeFields
    <3>2. Len(g[v].adj) \in Nat /\ DOMAIN g[v].adj = 1..Len(g[v].adj)
      BY <3>1
    <3>3. k \in Nat \ {0} /\ k <= Len(g[v].adj)
      BY <3>2
    <3>4. v = i => k < j
      BY <1>1, <1>3, <1>4, <3>2, <3>3 DEF Copied
    <3>. QED
      BY <1>3, <3>3, <3>4
  <2>. QED
    BY <1>1, <2>1 DEF Seen
<1>5. CopyOf(f, Len(g) + 1)'
  BY <1>1, <1>2 DEF CopyOf
<1>6. ASSUME NEW u \in Nodes(new_g), NEW w \in Nodes(new_g)
      PROVE  Entered(f[u], f[w])' <=> Entered(f[u], f[w])
  <2>1. /\ f[u] \in DOMAIN g /\ f[w] \in DOMAIN g
        /\ Copied(g[f[u]]) /\ Copied(g[f[w]])
    BY <1>2 DEF CopyOf, Nodes
  <2>. QED
    BY <1>4, <2>1 DEF Entered
<1>7. NamesTell(input) => EdgesOf(f)'
  BY <1>1, <1>2, <1>6 DEF EdgesOf
<1>. QED
  BY <1>1, <1>5, <1>7 DEF CInv, Scanning

(* The entries that are passed after a step over the j-th entry of i. *)
LEMMA SeenStep ==
  ASSUME LInv, pc = "copy_edges", i \in DOMAIN g, j \in DOMAIN g[i].adj,
         g' = g, i' = i, j' = j + 1, NEW v \in DOMAIN g, NEW w
  PROVE  Seen(v, w)' <=> Seen(v, w) \/ (v = i /\ w = g[i].adj[j].n)
<1>1. ASSUME NEW k \in DOMAIN g[v].adj
      PROVE  (v < i \/ (v = i /\ k < j + 1)) <=> (v < i \/ (v = i /\ k < j) \/ (v = i /\ k = j))
  <2>1. g[v].adj \in Seq(Edge)
    BY CopyFacts, NodeFields
  <2>2. k \in Nat /\ j \in Nat
    BY <2>1, CopyFacts
  <2>. QED
    BY <2>2
<1>. QED
  BY <1>1 DEF Seen

(* What the names of the ends of an edge find. *)
LEMMA CopyEdgeEnds ==
  ASSUME LInv, CInv, CopyEdge
  PROVE  /\ pc = "copy_edges" /\ i' = i /\ j' = j + 1 /\ UNCHANGED <<g, input, pc>>
         /\ i \in DOMAIN g /\ j \in DOMAIN g[i].adj /\ Copied(g[i])
         /\ g[i].adj[j].n \in DOMAIN g /\ g[i].adj[j].attrs \in EdgeAttrs
         /\ g[g[i].adj[j].n].type # "GATE_VISITED" => Copied(g[g[i].adj[j].n])
<1>1. /\ pc = "copy_edges" /\ i <= Len(g) /\ j' = j + 1 /\ UNCHANGED <<g, input, pc, i>>
      /\ g[i].type # "GATE_VISITED" /\ j <= Len(g[i].adj)
  BY DEF CopyEdge
<1>2. /\ IsGraph(g) /\ Symmetric(g) /\ Loopless(g) /\ Len(g) \in Nat /\ DOMAIN g = 1..Len(g)
      /\ i \in Nat \ {0} /\ j \in Nat \ {0}
  BY CopyFacts
<1>3. i \in DOMAIN g
  BY <1>1, <1>2
<1>4. g[i].adj \in Seq(Edge)
  BY <1>2, <1>3, NodeFields
<1>5. j \in DOMAIN g[i].adj
  <2>1. Len(g[i].adj) \in Nat /\ DOMAIN g[i].adj = 1..Len(g[i].adj)
    BY <1>4
  <2>. QED
    BY <1>1, <1>2, <2>1
<1>6. /\ g[i].adj[j].n \in DOMAIN g /\ g[i].adj[j].attrs \in EdgeAttrs
      /\ Len(g[g[i].adj[j].n].adj) >= 1
  BY <1>2, <1>3, <1>5, NeighbourProperties
<1>7. g[i].adj # <<>> /\ g[g[i].adj[j].n].adj # <<>>
  BY <1>5, <1>6
<1>. QED
  BY <1>1, <1>3, <1>5, <1>6, <1>7 DEF Copied

LEMMA CopyEdgeCInv ==
  ASSUME LInv, CInv, CopyEdge
  PROVE  CInv'
<1>. DEFINE w0 == g[i].adj[j].n
            a  == FindNode(new_g, g[i].name)
            b  == FindNode(new_g, g[w0].name)
            at == g[i].adj[j].attrs
<1>1. /\ pc = "copy_edges" /\ i' = i /\ j' = j + 1 /\ UNCHANGED <<g, input, pc>>
      /\ i \in DOMAIN g /\ j \in DOMAIN g[i].adj /\ Copied(g[i])
      /\ w0 \in DOMAIN g /\ at \in EdgeAttrs
      /\ g[w0].type # "GATE_VISITED" => Copied(g[w0])
  BY CopyEdgeEnds
<1>2. new_g' = IF i < w0 /\ g[w0].type # "GATE_VISITED" THEN AddEdgeId(new_g, a, b, at) ELSE new_g
  BY DEF CopyEdge, AddEdgeName
<1>3. /\ IsGraph(g) /\ Loopless(g) /\ Len(g) \in Nat /\ DOMAIN g = 1..Len(g) /\ i \in Nat
      /\ IsGraph(new_g) /\ Symmetric(new_g) /\ NoParallel(new_g) /\ new_g \in Seq(Node)
  BY CopyFacts DEF CInv, IsGraph
<1>4. PICK f : CopyOf(f, Len(g) + 1) /\ (NamesTell(input) => EdgesOf(f))
  BY <1>1 DEF CInv
<1>5. a \in 0..Len(new_g) /\ b \in 0..Len(new_g)
  BY <1>3, FindNodeRange
<1>. HIDE DEF w0, a, b, at
<1>6. /\ DOMAIN new_g' = DOMAIN new_g
      /\ \A u \in DOMAIN new_g : new_g'[u].name = new_g[u].name /\ new_g'[u].type = new_g[u].type
  <2>1. new_g' = AddEdgeId(new_g, a, b, at) \/ new_g' = new_g
    BY <1>2
  <2>2. CASE new_g' = AddEdgeId(new_g, a, b, at)
    <3>1. LET h == AddEdgeId(new_g, a, b, at)
          IN  /\ DOMAIN h = DOMAIN new_g
              /\ \A u \in DOMAIN new_g : h[u].name = new_g[u].name /\ h[u].type = new_g[u].type
      BY <1>1, <1>3, <1>5, AddEdgeIdGraph
    <3>. QED
      BY <2>2, <3>1
  <2>3. CASE new_g' = new_g
    BY <2>3
  <2>. QED
    BY <2>1, <2>2, <2>3
<1>7. NoParallel(new_g')
  BY <1>1, <1>2, <1>3, <1>5, AddEdgeIdNoParallel
<1>8. CopyOf(f, Len(g) + 1)'
  BY <1>1, <1>4, <1>6 DEF CopyOf
<1>9. Nodes(new_g') = Nodes(new_g)
  BY <1>6 DEF Nodes
<1>10. ASSUME NamesTell(input), NEW u \in Nodes(new_g), NEW w \in Nodes(new_g)
       PROVE  w \in Neighbours(new_g', u) <=> Entered(f[u], f[w])'
  <2>1. /\ u \in DOMAIN new_g /\ w \in DOMAIN new_g
        /\ f[u] \in DOMAIN g /\ f[w] \in DOMAIN g
        /\ Copied(g[f[u]]) /\ Copied(g[f[w]])
    BY <1>4 DEF CopyOf, Nodes
  <2>2. w \in Neighbours(new_g, u) <=> Entered(f[u], f[w])
    BY <1>4, <1>10 DEF EdgesOf
  <2>3. /\ Seen(f[u], f[w])' <=> Seen(f[u], f[w]) \/ (f[u] = i /\ f[w] = w0)
        /\ Seen(f[w], f[u])' <=> Seen(f[w], f[u]) \/ (f[w] = i /\ f[u] = w0)
    BY <1>1, <2>1, SeenStep DEF w0
  <2>4. Entered(f[u], f[w])' <=> \/ Entered(f[u], f[w])
                                 \/ i < w0 /\ ((f[u] = i /\ f[w] = w0) \/ (f[w] = i /\ f[u] = w0))
    BY <2>3 DEF Entered
  <2>5. CASE i < w0 /\ g[w0].type # "GATE_VISITED"
    <3>1. /\ w \in Neighbours(new_g', u) <=>
               \/ w \in Neighbours(new_g, u)
               \/ a # b /\ ((u = a /\ w = b) \/ (u = b /\ w = a))
      BY <1>1, <1>2, <1>3, <1>5, <2>1, <2>5, AddEdgeIdNeighbours
    <3>2. /\ a = u <=> f[u] = i
          /\ a = w <=> f[w] = i
      BY <1>1, <1>4, <1>10, FindsCopy DEF a
    <3>3. /\ b = u <=> f[u] = w0
          /\ b = w <=> f[w] = w0
      BY <1>1, <1>4, <1>10, <2>5, FindsCopy DEF b
    <3>4. i # w0
      BY <1>3, <2>5
    <3>. QED
      BY <2>2, <2>4, <2>5, <3>1, <3>2, <3>3, <3>4
  <2>6. CASE ~(i < w0 /\ g[w0].type # "GATE_VISITED")
    <3>1. new_g' = new_g
      BY <1>2, <2>6
    <3>2. ~(i < w0 /\ ((f[u] = i /\ f[w] = w0) \/ (f[w] = i /\ f[u] = w0)))
      BY <2>1, <2>6 DEF Copied
    <3>. QED
      BY <2>2, <2>4, <3>1, <3>2
  <2>. QED
    BY <2>5, <2>6
<1>11. NamesTell(input) => EdgesOf(f)'
  BY <1>9, <1>10 DEF EdgesOf
<1>. QED
  BY <1>1, <1>7, <1>8, <1>11 DEF CInv, Scanning

LEMMA CopyDoneCInv ==
  ASSUME LInv, CInv, CopyDone
  PROVE  CInv'
<1>1. /\ pc = "copy_edges" /\ i > Len(g) /\ pc' = "done"
      /\ UNCHANGED <<g, new_g, input, i, j>>
  BY DEF CopyDone
<1>2. PICK f : CopyOf(f, Len(g) + 1) /\ (NamesTell(input) => EdgesOf(f))
  BY <1>1 DEF CInv
<1>3. CopyOf(f, Len(g) + 1)' /\ (EdgesOf(f) => EdgesOf(f)')
  BY <1>1, <1>2 DEF CopyOf, EdgesOf, Entered, Seen
<1>. QED
  BY <1>1, <1>2, <1>3 DEF CInv, Scanning

LEMMA StepCInv == LInv /\ CInv /\ [Next]_vars => CInv'
<1>. SUFFICES ASSUME LInv, CInv, [Next]_vars PROVE CInv'
  OBVIOUS
<1>1. CASE ScanNext \/ ScanSkip \/ ScanGate
  BY <1>1, ScanningCInv DEF ScanNext, ScanSkip, AtEntry, ScanGate, Scanning
<1>2. CASE ScanDone
  BY <1>2, ScanDoneCInv
<1>3. CASE Walk
  BY <1>3, ScanningCInv
     DEF Walk, WalkBadGate, WalkFirstGate, WalkFirstNode, WalkDeadEnd, WalkSecond, AtGate,
         Follow, Fail, Scanning
<1>4. CASE Join
  BY <1>4, ScanningCInv DEF Join, LinkEnd, LinkFails, Fail, Scanning
<1>5. CASE Copy
  BY <1>5, CopyNodeCInv, CopyNodesDoneCInv, CopyNextCInv, CopyEdgeCInv, CopyDoneCInv DEF Copy
<1>6. CASE UNCHANGED vars
  <2>1. UNCHANGED <<input, g, new_g, pc, i, j>>
    BY <1>6 DEF vars
  <2>2. NoParallel(new_g') /\ (Scanning' => new_g' = EmptyGraph) /\ (pc' = "done" => i' > Len(g'))
    BY <2>1 DEF CInv, Scanning
  <2>3. \A f, m : CopyOf(f, m) => CopyOf(f, m)'
    BY <2>1 DEF CopyOf
  <2>4. \A f : EdgesOf(f) => EdgesOf(f)'
    BY <2>1 DEF EdgesOf, Entered, Seen
  <2>5. pc' = "copy_nodes" => \E f : CopyOf(f, i)' /\ \A u \in DOMAIN new_g' : new_g'[u].adj = <<>>
    <3>1. SUFFICES ASSUME pc = "copy_nodes"
                   PROVE  \E f : CopyOf(f, i)' /\ \A u \in DOMAIN new_g' : new_g'[u].adj = <<>>
      BY <2>1
    <3>2. PICK f : CopyOf(f, i) /\ \A u \in DOMAIN new_g : new_g[u].adj = <<>>
      BY <3>1 DEF CInv
    <3>3. CopyOf(f, i)'
      BY <2>1, <3>2 DEF CopyOf
    <3>. QED
      BY <2>1, <3>2, <3>3
  <2>6. pc' \in {"copy_edges", "done"} =>
          \E f : CopyOf(f, Len(g) + 1)' /\ (NamesTell(input') => EdgesOf(f)')
    <3>1. SUFFICES ASSUME pc \in {"copy_edges", "done"}
                   PROVE  \E f : CopyOf(f, Len(g) + 1)' /\ (NamesTell(input') => EdgesOf(f)')
      BY <2>1
    <3>2. PICK f : CopyOf(f, Len(g) + 1) /\ (NamesTell(input) => EdgesOf(f))
      BY <3>1 DEF CInv
    <3>3. CopyOf(f, Len(g) + 1)' /\ (EdgesOf(f) => EdgesOf(f)')
      BY <2>1, <3>2 DEF CopyOf, EdgesOf, Entered, Seen
    <3>. QED
      BY <2>1, <3>2, <3>3
  <2>. QED
    BY <2>2, <2>5, <2>6 DEF CInv
<1>. QED
  BY <1>1, <1>2, <1>3, <1>4, <1>5, <1>6 DEF Next, Scan

LEMMA CInvariance == Spec => [](LInv /\ CInv)
<1>1. LInv /\ CInv /\ [Next]_vars => (LInv /\ CInv)'
  BY StepLInv, StepCInv
<1>. QED
  BY <1>1, InitLInv, InitCInv, PTL DEF Spec

----------------------------------------------------------------------------
(* Every NODE that had neighbours is in the copy once, in its place and under
   its name, and nothing in the copy is marked; names play no part in that. *)
THEOREM Survival == Spec => []NodesSurvive
<1>1. LInv /\ CInv => NodesSurvive
  <2>. SUFFICES ASSUME LInv, CInv, pc \in {"copy_edges", "done"} PROVE NodesSurvive
    BY DEF NodesSurvive
  <2>1. PICK f : CopyOf(f, Len(g) + 1)
    BY DEF CInv
  <2>2. /\ Len(g) \in Nat /\ DOMAIN g = 1..Len(g) /\ DOMAIN g = DOMAIN input
        /\ Nodes(g) = Nodes(input)
        /\ \A v \in DOMAIN g : /\ input[v].name = g[v].name
                               /\ input[v].adj = <<>> <=> g[v].adj = <<>>
    BY CopyFacts
  <2>3. /\ f \in [DOMAIN new_g -> DOMAIN g]
        /\ \A u \in DOMAIN new_g : /\ Copied(g[f[u]])
                                   /\ new_g[u].name = g[f[u]].name
                                   /\ new_g[u].type = g[f[u]].type
        /\ \A v \in DOMAIN g : v < Len(g) + 1 /\ Copied(g[v]) => \E u \in DOMAIN new_g : f[u] = v
        /\ \A u, w \in DOMAIN new_g : u < w => f[u] < f[w]
    BY <2>1 DEF CopyOf
  <2>. DEFINE linked == {v \in DOMAIN input : input[v].type = "NODE" /\ input[v].adj # <<>>}
              kept   == {v \in DOMAIN new_g : new_g[v].type = "NODE"}
  <2>4. PICK was : was = [u \in kept |-> f[u]]
    OBVIOUS
  <2>5. ASSUME NEW u \in kept PROVE was[u] = f[u] /\ was[u] \in linked /\ new_g[u].name = input[was[u]].name
    <3>1. f[u] \in DOMAIN g /\ g[f[u]].type = "NODE" /\ g[f[u]].adj # <<>> /\ new_g[u].name = g[f[u]].name
      BY <2>3 DEF Copied
    <3>2. input[f[u]].type = "NODE"
      BY <2>2, <3>1 DEF Nodes
    <3>. QED
      BY <2>2, <2>4, <3>1, <3>2
  <2>6. ASSUME NEW w \in linked PROVE \E u \in kept : was[u] = w
    <3>1. w \in DOMAIN g /\ g[w].type = "NODE" /\ g[w].adj # <<>> /\ w < Len(g) + 1
      BY <2>2 DEF Nodes
    <3>2. PICK u \in DOMAIN new_g : f[u] = w
      BY <2>3, <3>1 DEF Copied
    <3>3. u \in kept
      BY <2>3, <3>1, <3>2
    <3>. QED
      BY <2>5, <3>2, <3>3
  <2>7. was \in [kept -> linked]
    BY <2>4, <2>5
  <2>8. \A v, w \in kept : v < w => was[v] < was[w]
    BY <2>3, <2>5
  <2>9. \A u \in DOMAIN new_g : new_g[u].type # "GATE_VISITED"
    BY <2>3 DEF Copied
  <2>. HIDE DEF linked, kept
  <2>10. \E e \in [kept -> linked] :
           /\ \A w \in linked : \E v \in kept : e[v] = w
           /\ \A v, w \in kept : v < w => e[v] < e[w]
           /\ \A v \in kept : new_g[v].name = input[e[v]].name
    BY <2>5, <2>6, <2>7, <2>8
  <2>. QED
    BY <2>9, <2>10 DEF NodesSurvive, linked, kept
<1>. QED
  BY <1>1, CInvariance, PTL

----------------------------------------------------------------------------
(* When all edges are copied, NODEs are neighbours in the copy if and only if
   the NODEs they were made from are. *)
LEMMA CopyIsFaithful ==
  ASSUME LInv, CInv, NamesTell(input), pc \in {"copy_edges", "done"}, i > Len(g)
  PROVE  \E f :
           /\ f \in [DOMAIN new_g -> DOMAIN g]
           /\ \A u \in Nodes(new_g) : f[u] \in Nodes(g) /\ new_g[u].name = input[f[u]].name
           /\ \A v \in Nodes(g) : g[v].adj # <<>> => \E u \in Nodes(new_g) : f[u] = v
           /\ \A u, w \in DOMAIN new_g : u < w => f[u] < f[w]
           /\ \A u, w \in Nodes(new_g) :
                w \in Neighbours(new_g, u) <=> f[w] \in Neighbours(g, f[u])
<1>1. PICK f : CopyOf(f, Len(g) + 1) /\ EdgesOf(f)
  BY DEF CInv
<1>2. /\ IsGraph(g) /\ Symmetric(g) /\ Loopless(g)
      /\ Len(g) \in Nat /\ DOMAIN g = 1..Len(g) /\ i \in Nat
      /\ \A v \in DOMAIN g : input[v].name = g[v].name
  BY CopyFacts
<1>3. ASSUME NEW v \in DOMAIN g, NEW w PROVE Seen(v, w) <=> w \in Neighbours(g, v)
  <2>1. v < i
    BY <1>2
  <2>. QED
    BY <2>1 DEF Seen, Neighbours
<1>4. ASSUME NEW v \in DOMAIN g, NEW w \in DOMAIN g
      PROVE  Entered(v, w) <=> w \in Neighbours(g, v)
  <2>1. w \in Neighbours(g, v) <=> v \in Neighbours(g, w)
    BY <1>2, NeighboursAgree
  <2>2. v = w => w \notin Neighbours(g, v)
    BY <1>2 DEF Loopless, Neighbours
  <2>3. v < w \/ w < v \/ v = w
    BY <1>2
  <2>. QED
    BY <1>3, <2>1, <2>2, <2>3 DEF Entered
<1>5. ASSUME NEW u \in Nodes(new_g)
      PROVE  f[u] \in Nodes(g) /\ new_g[u].name = input[f[u]].name
  BY <1>1, <1>2 DEF CopyOf, Nodes
<1>6. ASSUME NEW v \in Nodes(g), g[v].adj # <<>> PROVE \E u \in Nodes(new_g) : f[u] = v
  <2>1. v \in DOMAIN g /\ v < Len(g) + 1 /\ Copied(g[v])
    BY <1>2, <1>6 DEF Nodes, Copied
  <2>2. PICK u \in DOMAIN new_g : f[u] = v
    BY <1>1, <2>1 DEF CopyOf
  <2>3. u \in Nodes(new_g)
    BY <1>1, <2>2 DEF CopyOf, Nodes
  <2>. QED
    BY <2>2, <2>3
<1>7. ASSUME NEW u \in Nodes(new_g), NEW w \in Nodes(new_g)
      PROVE  w \in Neighbours(new_g, u) <=> f[w] \in Neighbours(g, f[u])
  <2>1. f[u] \in DOMAIN g /\ f[w] \in DOMAIN g
    BY <1>5 DEF Nodes
  <2>. QED
    BY <1>1, <1>4, <2>1 DEF EdgesOf
<1>8. /\ f \in [DOMAIN new_g -> DOMAIN g]
      /\ \A u, w \in DOMAIN new_g : u < w => f[u] < f[w]
  BY <1>1 DEF CopyOf
<1>. QED
  BY <1>5, <1>6, <1>7, <1>8

(* The names of two nodes. *)
LEMMA PairNames ==
  ASSUME NEW h, NEW u, NEW w
  PROVE  {h[v].name : v \in {u, w}} = {h[u].name, h[w].name}
OBVIOUS

(* The links of the copy, by the names of their ends. *)
LEMMA LinksByName ==
  ASSUME LInv, CInv, NamesTell(input), pc \in {"copy_edges", "done"}, i > Len(g)
  PROVE  LinkNames(new_g) = {{input[v].name : v \in link} : link \in Links(input)}
<1>1. PICK f :
        /\ f \in [DOMAIN new_g -> DOMAIN g]
        /\ \A u \in Nodes(new_g) : f[u] \in Nodes(g) /\ new_g[u].name = input[f[u]].name
        /\ \A v \in Nodes(g) : g[v].adj # <<>> => \E u \in Nodes(new_g) : f[u] = v
        /\ \A u, w \in Nodes(new_g) :
             w \in Neighbours(new_g, u) <=> f[w] \in Neighbours(g, f[u])
  BY CopyIsFaithful
<1>2. DirectLinks(g) = Links(input)
  <2>1. pc \in {"copy_nodes", "copy_edges", "done"}
    OBVIOUS
  <2>. QED
    BY <2>1 DEF LInv, ScanIsComplete
<1>3. ASSUME NEW link \in DirectLinks(new_g)
      PROVE  \E l \in DirectLinks(g) : {new_g[v].name : v \in link} = {input[v].name : v \in l}
  <2>1. PICK u \in Nodes(new_g), w \in Nodes(new_g) : link = {u, w} /\ w \in Neighbours(new_g, u)
    BY DirectLinkMembers
  <2>2. f[u] \in Nodes(g) /\ f[w] \in Nodes(g) /\ f[w] \in Neighbours(g, f[u])
    BY <1>1, <2>1
  <2>3. {f[u], f[w]} \in DirectLinks(g)
    BY <2>2, DirectLinkMembers
  <2>4. {new_g[v].name : v \in link} = {input[v].name : v \in {f[u], f[w]}}
    BY <1>1, <2>1, PairNames
  <2>. QED
    BY <2>3, <2>4
<1>4. ASSUME NEW l \in DirectLinks(g)
      PROVE  \E link \in DirectLinks(new_g) : {new_g[v].name : v \in link} = {input[v].name : v \in l}
  <2>1. PICK v \in Nodes(g), x \in Nodes(g) : l = {v, x} /\ x \in Neighbours(g, v)
    BY DirectLinkMembers
  <2>2. v \in Neighbours(g, x)
    BY <2>1, NeighboursAgree, CopyFacts DEF Nodes
  <2>3. g[v].adj # <<>> /\ g[x].adj # <<>>
    BY <2>1, <2>2 DEF Neighbours
  <2>4. PICK u \in Nodes(new_g) : f[u] = v
    BY <1>1, <2>3
  <2>5. PICK w \in Nodes(new_g) : f[w] = x
    BY <1>1, <2>3
  <2>6. {u, w} \in DirectLinks(new_g)
    BY <1>1, <2>1, <2>4, <2>5, DirectLinkMembers
  <2>7. {new_g[y].name : y \in {u, w}} = {input[y].name : y \in l}
    BY <1>1, <2>1, <2>4, <2>5, PairNames
  <2>. QED
    BY <2>6, <2>7
<1>. DEFINE Copies(link) == {new_g[v].name : v \in link}
            Given(link) == {input[v].name : v \in link}
<1>5. /\ \A link \in DirectLinks(new_g) : \E l \in DirectLinks(g) : Copies(link) = Given(l)
      /\ \A l \in DirectLinks(g) : \E link \in DirectLinks(new_g) : Copies(link) = Given(l)
  BY <1>3, <1>4
<1>6. LinkNames(new_g) = {Copies(link) : link \in DirectLinks(new_g)}
  BY DEF LinkNames
<1>. HIDE DEF Copies, Given
<1>7. {Copies(link) : link \in DirectLinks(new_g)} = {Given(link) : link \in DirectLinks(g)}
  BY <1>5
<1>. QED
  BY <1>2, <1>6, <1>7 DEF Given

----------------------------------------------------------------------------
(* The steps of Bridge that the steps of compaction are. *)

(* Marking a gate removes and adds no link. *)
LEMMA FollowLinks ==
  ASSUME LInv, pc = "walk", NEW k \in DOMAIN g[cur].adj, NEW next, Follow(k, next)
  PROVE  DirectLinks(g') = DirectLinks(g)
<1>1. /\ cur \in DOMAIN g /\ g[cur].type = "GATE"
      /\ DOMAIN g' = DOMAIN g
      /\ \A v \in DOMAIN g : g'[v].adj = g[v].adj
      /\ \A v \in DOMAIN g : v # cur => g'[v].type = g[v].type
      /\ g'[cur].type = "GATE_VISITED"
  BY WalkFacts, FollowFacts DEF LInv, Marked
<1>2. Nodes(g') = Nodes(g)
  BY <1>1 DEF Nodes
<1>3. \A v, w \in Nodes(g) : w \in Neighbours(g', v) <=> w \in Neighbours(g, v)
  BY <1>1 DEF Nodes, Neighbours
<1>4. \A link : link \in DirectLinks(g') <=> link \in DirectLinks(g)
  BY <1>2, <1>3, DirectLinkMembers
<1>. QED
  BY <1>4 DEF DirectLinks

(* The edge at the end of a walk adds one link, or none. *)
LEMMA JoinedLinks ==
  ASSUME LInv, LinkEnd
  PROVE  /\ DirectLinks(g) \subseteq DirectLinks(g')
         /\ DirectLinks(g') \subseteq DirectLinks(g) \cup {{cur, i}}
<1>1. CASE AreAdjacent(g, cur, i)
  BY <1>1 DEF LinkEnd
<1>2. CASE ~AreAdjacent(g, cur, i)
  <2>1. /\ Joined(g, g', cur, i, attrs) /\ EntriesAfter(g, g', cur, i, attrs)
    BY <1>2, LinkNewFacts DEF LInv
  <2>2. Nodes(g') = Nodes(g)
    BY <2>1 DEF Joined, Nodes
  <2>3. ASSUME NEW v \in DOMAIN g, NEW w \in Neighbours(g, v) PROVE w \in Neighbours(g', v)
    BY <2>1 DEF EntriesAfter, Neighbours
  <2>4. ASSUME NEW v \in DOMAIN g, NEW w \in Neighbours(g', v), w \notin Neighbours(g, v)
        PROVE  {v, w} = {cur, i}
    <3>1. PICK k \in DOMAIN g'[v].adj : w = g'[v].adj[k].n
      BY DEF Neighbours
    <3>2. \A m \in DOMAIN g[v].adj : g'[v].adj[m] = g[v].adj[m]
      BY <2>1 DEF EntriesAfter
    <3>3. k \notin DOMAIN g[v].adj
      BY <2>4, <3>1, <3>2 DEF Neighbours
    <3>4. \/ v = cur /\ k = Len(g[cur].adj) + 1
          \/ v = i /\ k = Len(g[i].adj) + 1
      BY <2>1, <3>1, <3>3 DEF EntriesAfter
    <3>5. /\ g'[cur].adj[Len(g[cur].adj) + 1] = [n |-> i, attrs |-> attrs]
          /\ g'[i].adj[Len(g[i].adj) + 1] = [n |-> cur, attrs |-> attrs]
      BY <2>1 DEF EntriesAfter
    <3>6. /\ g'[cur].adj[Len(g[cur].adj) + 1].n = i
          /\ g'[i].adj[Len(g[i].adj) + 1].n = cur
      BY <3>5
    <3>7. (v = cur /\ w = i) \/ (v = i /\ w = cur)
      BY <3>1, <3>4, <3>6
    <3>. QED
      BY <3>7
  <2>5. ASSUME NEW link \in DirectLinks(g) PROVE link \in DirectLinks(g')
    <3>1. PICK v \in Nodes(g), w \in Nodes(g) : link = {v, w} /\ w \in Neighbours(g, v)
      BY DirectLinkMembers
    <3>2. w \in Neighbours(g', v)
      BY <2>3, <3>1 DEF Nodes
    <3>. QED
      BY <2>2, <3>1, <3>2, DirectLinkMembers
  <2>6. ASSUME NEW link \in DirectLinks(g') PROVE link \in DirectLinks(g) \cup {{cur, i}}
    <3>1. PICK v \in Nodes(g), w \in Nodes(g) : link = {v, w} /\ w \in Neighbours(g', v)
      BY <2>2, DirectLinkMembers
    <3>2. CASE w \in Neighbours(g, v)
      BY <3>1, <3>2, DirectLinkMembers
    <3>3. CASE w \notin Neighbours(g, v)
      BY <2>4, <3>1, <3>3 DEF Nodes
    <3>. QED
      BY <3>2, <3>3
  <2>. QED
    BY <2>5, <2>6
<1>. QED
  BY <1>1, <1>2

(* A call fails only on an input that gives it cause. *)
LEMMA FailuresHaveCause ==
  ASSUME LInv, WalkBadGate \/ LinkFails
  PROVE  Branches(input) \/ Dangles(input) \/ LeadsBack(input)
<1>1. SInv
  BY DEF LInv
<1>2. CASE WalkBadGate
  <2>1. pc = "walk" /\ Len(g[cur].adj) > 2
    BY <1>2 DEF WalkBadGate
  <2>2. /\ cur \in DOMAIN g /\ g[cur].type = "GATE" /\ i \in Nodes(input)
        /\ cur \in ChainsFrom(input, i)
    BY <1>1, <2>1, WalkFacts
  <2>3. ~Changed(cur)
    <3>1. Changed(cur) => Len(g[cur].adj) = 2
      BY <1>1, <2>1, <2>2, ChangedFacts DEF Scanning
    <3>2. Len(g[cur].adj) \in Nat
      BY <1>1, <2>1, WalkFacts
    <3>3. ASSUME NEW n \in Nat, n > 2 PROVE n # 2
      BY <3>3
    <3>4. Len(g[cur].adj) # 2
      BY <2>1, <3>2, <3>3
    <3>. QED
      BY <3>1, <3>4
  <2>4. Len(input[cur].adj) > 2
    BY <1>1, <2>1, <2>2, <2>3, UnchangedGate
  <2>. QED
    BY <2>2, <2>4 DEF Branches, GatesInUse
<1>3. CASE LinkFails
  <2>1. pc = "link" /\ EdgeRefused(g, cur, i)
    BY <1>3 DEF LinkFails, LinkRefused
  <2>2. cur \in DOMAIN g /\ i \in DOMAIN g /\ IsGraph(g)
    BY <1>1, <2>1, LinkFacts, StateFacts
  <2>3. cur \in 1..Len(g) /\ i \in 1..Len(g) /\ Len(g) \in Nat
    BY <2>2 DEF IsGraph
  <2>4. cur = i
    BY <2>1, <2>3 DEF EdgeRefused
  <2>. QED
    BY <1>1, <2>1, <2>4 DEF SInv, EndOfWalk
<1>. QED
  BY <1>2, <1>3

(* Bridge says the same of a graph. *)
LEMMA SameMeaning ==
  ASSUME NEW graph
  PROVE  /\ B!IsGraph(graph) <=> IsGraph(graph)
         /\ B!DirectLinks(graph) = DirectLinks(graph)
         /\ B!Links(graph) = Links(graph)
         /\ B!Branches(graph) <=> Branches(graph)
         /\ B!Dangles(graph) <=> Dangles(graph)
         /\ B!LeadsBack(graph) <=> LeadsBack(graph)
<1>1. B!IsGraph(graph) <=> IsGraph(graph)
  BY DEF B!IsGraph, IsGraph, B!Node, Node, B!Names, Names, B!Parts, Parts, B!NodeTypes, NodeTypes,
         B!Edge, Edge, B!EdgeAttrs, EdgeAttrs
<1>2. /\ B!Nodes(graph) = Nodes(graph)
      /\ B!Gates(graph) = Gates(graph)
      /\ \A v : B!Neighbours(graph, v) = Neighbours(graph, v)
      /\ \A v, w : B!AreAdjacent(graph, v, w) <=> AreAdjacent(graph, v, w)
  BY DEF B!Nodes, Nodes, B!Gates, Gates, B!Neighbours, Neighbours, B!AreAdjacent, AreAdjacent
<1>3. \A S : B!GatesAround(graph, S) = GatesAround(graph, S)
  BY DEF B!GatesAround, GatesAround, B!Gates, Gates, B!Neighbours, Neighbours
<1>4. \A v : B!ChainsFrom(graph, v) = ChainsFrom(graph, v)
  BY DEF B!ChainsFrom, ChainsFrom, B!GatesAround, GatesAround, B!Gates, Gates, B!Neighbours, Neighbours
<1>5. B!DirectLinks(graph) = DirectLinks(graph)
  BY <1>2 DEF B!DirectLinks, DirectLinks
<1>6. B!ChainLinks(graph) = ChainLinks(graph)
  BY <1>2, <1>4 DEF B!ChainLinks, ChainLinks
<1>7. B!Links(graph) = Links(graph)
  BY <1>5, <1>6 DEF B!Links, Links
<1>8. B!GatesInUse(graph) = GatesInUse(graph)
  BY <1>2, <1>4 DEF B!GatesInUse, GatesInUse
<1>9. (B!Branches(graph) <=> Branches(graph)) /\ (B!Dangles(graph) <=> Dangles(graph))
  BY <1>8 DEF B!Branches, Branches, B!Dangles, Dangles
<1>10. B!LeadsBack(graph) <=> LeadsBack(graph)
  BY <1>2, <1>4 DEF B!LeadsBack, LeadsBack
<1>. QED
  BY <1>1, <1>5, <1>7, <1>9, <1>10

----------------------------------------------------------------------------
LEMMA InitRefines == Init => B!Init
<1>. SUFFICES ASSUME Init PROVE B!Init
  OBVIOUS
<1>1. input \in Inputs /\ g = input /\ pc = "scan"
  BY DEF Init
<1>2. IsGraph(input)
  BY <1>1, InputsAssumption
<1>. QED
  BY <1>1, <1>2, SameMeaning DEF B!Init

(* A step that leaves the call running and adds at most one link. *)
LEMMA RunningRefines ==
  ASSUME LInv, LInv', pc \notin {"done", "failed"}, pc' \notin {"done", "failed"}, input' = input,
         DirectLinks(g) \subseteq DirectLinks(g'),
         NEW link, DirectLinks(g') \subseteq DirectLinks(g) \cup {link}
  PROVE  B!Discover \/ UNCHANGED B!vars
<1>1. DirectLinks(g') \subseteq Links(input)
  BY DEF LInv, SInv, FoundAreLinks
<1>2. CASE DirectLinks(g') = DirectLinks(g)
  BY <1>2 DEF B!vars
<1>3. CASE DirectLinks(g') # DirectLinks(g)
  <2>1. /\ link \in Links(input) \ DirectLinks(g)
        /\ DirectLinks(g') = DirectLinks(g) \cup {link}
    BY <1>1, <1>3
  <2>2. link \in B!Links(input) \ DirectLinks(g)
    BY <2>1, SameMeaning
  <2>. QED
    BY <2>1, <2>2 DEF B!Discover
<1>. QED
  BY <1>2, <1>3

LEMMA FailureRefines ==
  ASSUME LInv, WalkBadGate \/ LinkFails
  PROVE  B!Fail
<1>1. /\ pc \notin {"done", "failed"} /\ pc' = "failed" /\ UNCHANGED <<input, g>>
  BY DEF WalkBadGate, LinkFails, Fail
<1>2. B!Troubled \/ B!LeadsBack(input)
  BY FailuresHaveCause, SameMeaning DEF B!Troubled
<1>. QED
  BY <1>1, <1>2 DEF B!Fail

LEMMA SuccessRefines ==
  ASSUME LInv, CInv, NamesTell(input), CopyDone
  PROVE  B!Succeed
<1>1. /\ pc = "copy_edges" /\ i > Len(g) /\ pc' = "done" /\ UNCHANGED <<input, g, new_g>>
  BY DEF CopyDone
<1>2. ~Branches(input) /\ ~Dangles(input) /\ DirectLinks(g) = Links(input)
  BY <1>1 DEF LInv, ScanIsComplete
<1>3. LinkNames(new_g) = {{input[v].name : v \in link} : link \in Links(input)}
  BY <1>1, LinksByName
<1>4. ~B!Troubled /\ DirectLinks(g) = B!Links(input)
  BY <1>2, SameMeaning DEF B!Troubled
<1>5. LinkNames(new_g') = {{input[v].name : v \in link} : link \in B!Links(input)}
  BY <1>1, <1>3, SameMeaning
<1>. QED
  BY <1>1, <1>4, <1>5 DEF B!Succeed

LEMMA StepRefines ==
  ASSUME LInv, LInv', CInv, NamesTell(input), [Next]_vars
  PROVE  [B!Next]_(B!vars)
<1>1. CASE Scan
  <2>1. /\ pc = "scan" /\ pc' \in {"scan", "walk", "copy_nodes"} /\ UNCHANGED <<input, g>>
    BY <1>1 DEF Scan, ScanNext, ScanSkip, ScanGate, AtEntry, ScanDone
  <2>. QED
    BY <2>1, RunningRefines DEF B!Next
<1>2. CASE WalkBadGate \/ LinkFails
  BY <1>2, FailureRefines DEF B!Next
<1>3. CASE WalkFirstGate \/ WalkFirstNode \/ WalkSecond
  <2>1. PICK k \in DOMAIN g[cur].adj, next \in {"walk", "link"} : pc = "walk" /\ Follow(k, next)
    <3>1. pc = "walk"
      BY <1>3 DEF WalkFirstGate, WalkFirstNode, WalkSecond, AtGate
    <3>2. g[cur].adj \in Seq(Edge) /\ Len(g[cur].adj) >= 1
      BY <3>1, WalkFacts DEF LInv, SInv, IInv, WalkStaysInside
    <3>3. 1 \in DOMAIN g[cur].adj
      BY <3>2
    <3>4. WalkSecond => 2 \in DOMAIN g[cur].adj
      <4>1. WalkSecond => Len(g[cur].adj) # 1
        BY DEF WalkSecond
      <4>2. Len(g[cur].adj) \in Nat /\ DOMAIN g[cur].adj = 1..Len(g[cur].adj)
        BY <3>2
      <4>3. ASSUME NEW n \in Nat, n >= 1, n # 1 PROVE 2 \in 1..n
        BY <4>3
      <4>. QED
        BY <3>2, <4>1, <4>2, <4>3
    <3>. QED
      BY <1>3, <3>1, <3>3, <3>4 DEF WalkFirstGate, WalkFirstNode, WalkSecond
  <2>2. DirectLinks(g') = DirectLinks(g)
    BY <2>1, FollowLinks
  <2>3. pc' \in {"walk", "link"} /\ input' = input
    BY <2>1 DEF Follow
  <2>. QED
    BY <2>1, <2>2, <2>3, RunningRefines DEF B!Next
<1>4. CASE WalkDeadEnd
  <2>1. pc = "walk" /\ pc' = "link" /\ UNCHANGED <<input, g>>
    BY <1>4 DEF WalkDeadEnd, AtGate
  <2>. QED
    BY <2>1, RunningRefines DEF B!Next
<1>5. CASE LinkEnd
  <2>1. pc = "link" /\ pc' = "scan" /\ input' = input
    BY <1>5 DEF LinkEnd
  <2>2. /\ DirectLinks(g) \subseteq DirectLinks(g')
        /\ DirectLinks(g') \subseteq DirectLinks(g) \cup {{cur, i}}
    BY <1>5, JoinedLinks
  <2>. QED
    BY <2>1, <2>2, RunningRefines DEF B!Next
<1>6. CASE CopyNode \/ CopyNodesDone \/ CopyNext \/ CopyEdge
  <2>1. /\ pc \in {"copy_nodes", "copy_edges"} /\ pc' \in {"copy_nodes", "copy_edges"}
        /\ UNCHANGED <<input, g>>
    BY <1>6 DEF CopyNode, CopyNodesDone, CopyNext, CopyEdge
  <2>. QED
    BY <2>1, RunningRefines DEF B!Next
<1>7. CASE CopyDone
  BY <1>7, SuccessRefines DEF B!Next
<1>8. CASE UNCHANGED vars
  BY <1>8 DEF vars, B!vars
<1>. QED
  BY <1>1, <1>2, <1>3, <1>4, <1>5, <1>6, <1>7, <1>8 DEF Next, Walk, Join, Copy

(* The graph of the call stays what it was. *)
LEMMA InputKept == [Next]_vars => input' = input
BY DEF Next, Scan, ScanNext, ScanSkip, ScanGate, ScanDone, Walk, WalkBadGate, WalkFirstGate,
       WalkFirstNode, WalkDeadEnd, WalkSecond, Follow, Join, LinkEnd, LinkFails, Fail, Copy,
       CopyNode, CopyNodesDone, CopyNext, CopyEdge, CopyDone, vars

LEMMA InputStays == NamesTell(input) /\ [Next]_vars => NamesTell(input)'
BY InputKept

(* topologies_graph_compact finds links and nothing but links, fails only on a
   gate in use that branches or a chain that leads nowhere or back to where it
   began, and otherwise returns exactly the links of its input, under the names
   of their ends.  The copy finds the ends by name, so those have to tell. *)
THEOREM Refinement == Spec /\ NamesTell(input) => ImplementsBridge
<1>1. NamesTell(input) /\ [Next]_vars => NamesTell(input)'
  BY InputStays
<1>2. LInv /\ LInv' /\ CInv /\ NamesTell(input) /\ [Next]_vars => [B!Next]_(B!vars)
  BY StepRefines
<1>. QED
  BY <1>1, <1>2, InitRefines, CInvariance, PTL DEF Spec, ImplementsBridge, B!Spec

----------------------------------------------------------------------------
(* The edges that are written. *)
LEMMA DotEdgeMembers ==
  ASSUME NEW h, NEW e
  PROVE  e \in DotEdges(h, FALSE) <=>
           \E u \in Nodes(h) : \E k \in DOMAIN h[u].adj :
             /\ e = <<u, k>> /\ u <= h[u].adj[k].n
             /\ h[h[u].adj[k].n].type = "NODE"
<1>. DEFINE Written(u, k) == u <= h[u].adj[k].n /\ h[h[u].adj[k].n].type = "NODE"
            All == UNION {{u} \X DOMAIN h[u].adj : u \in Nodes(h)}
<1>1. DotEdges(h, FALSE) = {d \in All : Written(d[1], d[2])}
  BY DEF DotEdges, DotNodes, Printed, Nodes
<1>2. e \in All <=> \E u \in Nodes(h) : \E k \in DOMAIN h[u].adj : e = <<u, k>>
  <2>1. ASSUME NEW u \in Nodes(h)
        PROVE  e \in {u} \X DOMAIN h[u].adj <=> \E k \in DOMAIN h[u].adj : e = <<u, k>>
    OBVIOUS
  <2>. QED
    BY <2>1
<1>3. \A u, k : <<u, k>>[1] = u /\ <<u, k>>[2] = k
  OBVIOUS
<1>. HIDE DEF Written, All
<1>4. e \in DotEdges(h, FALSE) <=>
        \E u \in Nodes(h) : \E k \in DOMAIN h[u].adj : e = <<u, k>> /\ Written(u, k)
  BY ZenonT(30), <1>1, <1>2, <1>3
<1>. QED
  BY <1>4 DEF Written

(* Where two pairs of numbers in ascending order have the same members, they
   are the same. *)
LEMMA OrderedPairs ==
  ASSUME NEW v \in Nat, NEW w \in Nat, NEW x \in Nat, NEW y \in Nat,
         v < w, x < y, {v, w} = {x, y}
  PROVE  v = x /\ w = y
<1>1. (v = x \/ v = y) /\ (w = x \/ w = y)
  OBVIOUS
<1>. QED
  BY <1>1

LEMMA DotIsFaithful ==
  ASSUME LInv, CInv, NamesTell(input)
  PROVE  DotOutputIsTheLinks
<1>. SUFFICES ASSUME pc = "done" PROVE DotOutputIsTheLinks
  BY DEF DotOutputIsTheLinks
<1>1. /\ i > Len(g) /\ NoParallel(new_g) /\ DirectLinks(g) = Links(input)
  BY DEF CInv, LInv, ScanIsComplete
<1>2. PICK f :
        /\ f \in [DOMAIN new_g -> DOMAIN g]
        /\ \A u \in Nodes(new_g) : f[u] \in Nodes(g) /\ new_g[u].name = input[f[u]].name
        /\ \A v \in Nodes(g) : g[v].adj # <<>> => \E u \in Nodes(new_g) : f[u] = v
        /\ \A u, w \in DOMAIN new_g : u < w => f[u] < f[w]
        /\ \A u, w \in Nodes(new_g) :
             w \in Neighbours(new_g, u) <=> f[w] \in Neighbours(g, f[u])
  BY <1>1, CopyIsFaithful
<1>3. /\ IsGraph(g) /\ Symmetric(g) /\ Loopless(g) /\ Len(g) \in Nat /\ DOMAIN g = 1..Len(g)
      /\ IsGraph(new_g) /\ Symmetric(new_g) /\ Loopless(new_g)
      /\ Len(new_g) \in Nat /\ DOMAIN new_g = 1..Len(new_g)
  BY CopyFacts
<1>. DEFINE edges == DotEdges(new_g, FALSE)
            Other(e) == new_g[e[1]].adj[e[2]].n
            LinkOf(e) == {f[e[1]], f[Other(e)]}
<1>4. ASSUME NEW e \in edges
      PROVE  /\ e[1] \in Nodes(new_g) /\ Other(e) \in Nodes(new_g) /\ e[2] \in DOMAIN new_g[e[1]].adj
             /\ e = <<e[1], e[2]>>
             /\ Other(e) \in Neighbours(new_g, e[1])
             /\ e[1] < Other(e) /\ f[e[1]] < f[Other(e)]
             /\ f[e[1]] \in Nat /\ f[Other(e)] \in Nat
             /\ LinkOf(e) \in DirectLinks(g)
  <2>0. PICK u \in Nodes(new_g) : \E k \in DOMAIN new_g[u].adj :
          e = <<u, k>> /\ u <= new_g[u].adj[k].n /\ new_g[new_g[u].adj[k].n].type = "NODE"
    BY DotEdgeMembers
  <2>1. PICK k \in DOMAIN new_g[u].adj :
          e = <<u, k>> /\ u <= new_g[u].adj[k].n /\ new_g[new_g[u].adj[k].n].type = "NODE"
    BY <2>0
  <2>2. e[1] = u /\ e[2] = k
    BY <2>1
  <2>3. Other(e) = new_g[u].adj[k].n
    BY <2>2
  <2>4. u \in DOMAIN new_g /\ Other(e) \in DOMAIN new_g /\ Other(e) # u
    BY <1>3, <2>3 DEF Nodes, IsGraph, Loopless
  <2>. HIDE DEF Other
  <2>5. Other(e) \in Nodes(new_g) /\ Other(e) \in Neighbours(new_g, u)
    BY <2>1, <2>3, <2>4 DEF Nodes, Neighbours
  <2>6. u < Other(e)
    BY <1>3, <2>1, <2>3, <2>4
  <2>7. f[u] < f[Other(e)] /\ f[u] \in Nodes(g) /\ f[Other(e)] \in Nodes(g)
    BY <1>2, <2>4, <2>5, <2>6
  <2>8. f[u] \in Nat /\ f[Other(e)] \in Nat
    BY <1>3, <2>7 DEF Nodes
  <2>9. {f[u], f[Other(e)]} \in DirectLinks(g)
    BY <1>2, <2>5, <2>7, DirectLinkMembers
  <2>. QED
    BY <2>1, <2>2, <2>5, <2>6, <2>7, <2>8, <2>9
<1>5. ASSUME NEW link \in DirectLinks(g) PROVE \E e \in edges : LinkOf(e) = link
  <2>1. PICK v \in Nodes(g), x \in Nodes(g) : link = {v, x} /\ x \in Neighbours(g, v)
    BY DirectLinkMembers
  <2>2. v \in Neighbours(g, x)
    BY <1>3, <2>1, NeighboursAgree DEF Nodes
  <2>3. g[v].adj # <<>> /\ g[x].adj # <<>>
    BY <2>1, <2>2 DEF Neighbours
  <2>4. PICK u \in Nodes(new_g) : f[u] = v
    BY <1>2, <2>3
  <2>5. PICK w \in Nodes(new_g) : f[w] = x
    BY <1>2, <2>3
  <2>6. w \in Neighbours(new_g, u) /\ u \in Neighbours(new_g, w)
    BY <1>2, <2>1, <2>2, <2>4, <2>5
  <2>7. ASSUME NEW y \in Nodes(new_g), NEW z \in Nodes(new_g), y <= z, z \in Neighbours(new_g, y)
        PROVE  \E e \in edges : LinkOf(e) = {f[y], f[z]}
    <3>1. PICK k \in DOMAIN new_g[y].adj : z = new_g[y].adj[k].n
      BY <2>7 DEF Neighbours
    <3>2. <<y, k>> \in edges
      BY <2>7, <3>1, DotEdgeMembers DEF Nodes
    <3>3. LinkOf(<<y, k>>) = {f[y], f[z]}
      BY <3>1
    <3>. QED
      BY <3>2, <3>3
  <2>8. u \in Nat /\ w \in Nat
    BY <1>3 DEF Nodes
  <2>9. u <= w \/ w <= u
    BY <2>8
  <2>10. {f[u], f[w]} = link /\ {f[w], f[u]} = link
    BY <2>1, <2>4, <2>5
  <2>. HIDE DEF edges, LinkOf
  <2>. QED
    BY <2>6, <2>7, <2>9, <2>10
<1>6. ASSUME NEW d \in edges, NEW e \in edges, LinkOf(d) = LinkOf(e) PROVE d = e
  <2>1. f[d[1]] = f[e[1]] /\ f[Other(d)] = f[Other(e)]
    <3>1. /\ f[d[1]] \in Nat /\ f[Other(d)] \in Nat /\ f[d[1]] < f[Other(d)]
          /\ f[e[1]] \in Nat /\ f[Other(e)] \in Nat /\ f[e[1]] < f[Other(e)]
      BY <1>4
    <3>2. {f[d[1]], f[Other(d)]} = {f[e[1]], f[Other(e)]}
      BY <1>6
    <3>. HIDE DEF Other
    <3>. QED
      BY <3>1, <3>2, OrderedPairs
  <2>2. ASSUME NEW u \in Nodes(new_g), NEW w \in Nodes(new_g), f[u] = f[w] PROVE u = w
    <3>1. u \in DOMAIN new_g /\ w \in DOMAIN new_g /\ u \in Nat /\ w \in Nat
      BY <1>3 DEF Nodes
    <3>2. f[u] \in Nat
      BY <1>2, <1>3, <3>1
    <3>3. ~(f[u] < f[w]) /\ ~(f[w] < f[u])
      BY <2>2, <3>2
    <3>4. ~(u < w) /\ ~(w < u)
      BY <1>2, <3>1, <3>3
    <3>. QED
      BY <3>1, <3>4
  <2>3. d[1] = e[1] /\ Other(d) = Other(e)
    BY <1>4, <2>1, <2>2
  <2>4. d[2] = e[2]
    <3>1. d[1] \in DOMAIN new_g /\ d[2] \in DOMAIN new_g[d[1]].adj /\ e[2] \in DOMAIN new_g[d[1]].adj
      BY <1>4, <2>3 DEF Nodes
    <3>2. new_g[d[1]].adj[d[2]].n = new_g[d[1]].adj[e[2]].n
      BY <2>3
    <3>. QED
      BY <1>1, <3>1, <3>2 DEF NoParallel
  <2>. QED
    BY <1>4, <2>3, <2>4
<1>. HIDE DEF edges
<1>7. IsFiniteSet(DirectLinks(g)) /\ Cardinality(DirectLinks(g)) = Cardinality(edges)
  <2>1. IsFiniteSet(DirectLinks(g))
    <3>1. IsFiniteSet(DOMAIN g)
      BY <1>3, FS_Interval
    <3>2. DirectLinks(g) \subseteq SUBSET DOMAIN g
      BY DirectLinkMembers DEF Nodes
    <3>. QED
      BY <3>1, <3>2, FS_SUBSET, FS_Subset
  <2>. DEFINE bij == [e \in edges |-> LinkOf(e)]
  <2>2. bij \in [edges -> DirectLinks(g)]
    BY <1>4
  <2>3. \A e \in edges : bij[e] = LinkOf(e)
    OBVIOUS
  <2>. HIDE DEF bij, LinkOf
  <2>4. bij \in Bijection(edges, DirectLinks(g))
    BY <1>5, <1>6, <2>2, <2>3 DEF Bijection, Injection, Surjection, IsInjective
  <2>5. ExistsBijection(DirectLinks(g), edges)
    BY <2>4, Fun_ExistsBijSymmetric DEF ExistsBijection
  <2>. QED
    BY <2>1, <2>5, FS_Bijection
<1>. DEFINE NamesOf(e) == {new_g[e[1]].name, new_g[Other(e)].name}
            Given(link) == {input[v].name : v \in link}
<1>8. ASSUME NEW e \in edges PROVE NamesOf(e) = Given(LinkOf(e))
  <2>1. /\ new_g[e[1]].name = input[f[e[1]]].name
        /\ new_g[Other(e)].name = input[f[Other(e)]].name
    BY <1>2, <1>4
  <2>. HIDE DEF Other
  <2>. QED
    BY <2>1, PairNames
<1>9. {NamesOf(e) : e \in edges} = {Given(link) : link \in DirectLinks(g)}
  <2>1. \A e \in edges : LinkOf(e) \in DirectLinks(g) /\ NamesOf(e) = Given(LinkOf(e))
    BY <1>4, <1>8
  <2>. HIDE DEF NamesOf, Given, LinkOf
  <2>. QED
    BY <1>5, <2>1
<1>10. /\ {NamesOf(e) : e \in edges} = {Given(link) : link \in Links(input)}
       /\ Cardinality(edges) = Cardinality(Links(input))
  BY <1>1, <1>7, <1>9
<1>. QED
  BY <1>10 DEF DotOutputIsTheLinks, edges

(* The text that is written of a compacted graph has one edge for each link of
   the input and no other. *)
THEOREM DotOutput == Spec /\ NamesTell(input) => []DotOutputIsTheLinks
<1>1. NamesTell(input) /\ [Next]_vars => NamesTell(input)'
  BY InputStays
<1>2. LInv /\ CInv /\ NamesTell(input) => DotOutputIsTheLinks
  BY DotIsFaithful
<1>. QED
  BY <1>1, <1>2, CInvariance, PTL DEF Spec

----------------------------------------------------------------------------
(* An edge between nodes of these names may have this attribute. *)
Granted(nameV, nameW, at) ==
  \E x, y \in Nodes(input) :
     input[x].name = nameV /\ input[y].name = nameW /\ at \in ExpectedAttrs(x, y)

(* All edges between NODEs that the copy has so far have an attribute they may have. *)
AllGranted ==
  \A v \in Nodes(new_g) : \A k \in DOMAIN new_g[v].adj :
    new_g[v].adj[k].n \in Nodes(new_g) =>
      Granted(new_g[v].name, new_g[new_g[v].adj[k].n].name, new_g[v].adj[k].attrs)

AttrsInv ==
  pc \in {"copy_edges", "done"} /\ NamesTell(input) /\ PlainEnds(input) => AllGranted

LEMMA GrantedStays ==
  ASSUME input' = input, NEW v, NEW w, NEW at, Granted(v, w, at)
  PROVE  Granted(v, w, at)'
<1>1. PICK x \in Nodes(input), y \in Nodes(input) :
        input[x].name = v /\ input[y].name = w /\ at \in ExpectedAttrs(x, y)
  BY DEF Granted
<1>2. ExpectedAttrs(x, y)' = ExpectedAttrs(x, y)
  BY ExpectedStays
<1>. QED
  BY <1>1, <1>2 DEF Granted

LEMMA AllGrantedStays ==
  ASSUME AllGranted, input' = input, new_g' = new_g
  PROVE  AllGranted'
BY GrantedStays DEF AllGranted

(* An edge of the walked graph between NODEs may have its attribute, both ways. *)
LEMMA EdgeGranted ==
  ASSUME LInv, pc \in {"copy_nodes", "copy_edges", "done"}, PlainEnds(input),
         NEW v \in Nodes(input), NEW k \in DOMAIN g[v].adj, g[v].adj[k].n \in Nodes(input)
  PROVE  /\ Granted(g[v].name, g[g[v].adj[k].n].name, g[v].adj[k].attrs)
         /\ Granted(g[g[v].adj[k].n].name, g[v].name, g[v].adj[k].attrs)
<1>. DEFINE w  == g[v].adj[k].n
            at == g[v].adj[k].attrs
<1>1. AttrsKnown
  BY DEF LInv, ScanIsComplete
<1>2. /\ v \in DOMAIN g /\ w \in DOMAIN g /\ Symmetric(g)
      /\ input[v].name = g[v].name /\ input[w].name = g[w].name
  BY CopyFacts DEF Nodes
<1>3. at \in ExpectedAttrs(v, w)
  BY <1>1 DEF AttrsKnown
<1>4. PICK l \in DOMAIN g[w].adj : g[w].adj[l] = [n |-> v, attrs |-> at]
  BY <1>2 DEF Symmetric
<1>5. g[w].adj[l].n = v /\ g[w].adj[l].attrs = at
  BY <1>4
<1>6. at \in ExpectedAttrs(w, v)
  BY <1>1, <1>5 DEF AttrsKnown
<1>. QED
  BY <1>2, <1>3, <1>6 DEF Granted

LEMMA CopyEdgeGranted ==
  ASSUME LInv, CInv, CopyEdge, NamesTell(input), PlainEnds(input), AllGranted
  PROVE  AllGranted'
<1>. DEFINE w0 == g[i].adj[j].n
            a  == FindNode(new_g, g[i].name)
            b  == FindNode(new_g, g[w0].name)
            at == g[i].adj[j].attrs
            h  == AddEdgeId(new_g, a, b, at)
<1>1. /\ pc = "copy_edges" /\ UNCHANGED <<g, input>>
      /\ i \in DOMAIN g /\ j \in DOMAIN g[i].adj /\ Copied(g[i])
      /\ w0 \in DOMAIN g /\ at \in EdgeAttrs
      /\ g[w0].type # "GATE_VISITED" => Copied(g[w0])
  BY CopyEdgeEnds
<1>2. new_g' = IF i < w0 /\ g[w0].type # "GATE_VISITED" THEN h ELSE new_g
  BY DEF CopyEdge, AddEdgeName
<1>3. IsGraph(new_g) /\ Nodes(g) = Nodes(input)
  BY CopyFacts
<1>4. a \in 0..Len(new_g) /\ b \in 0..Len(new_g)
  BY <1>3, FindNodeRange DEF IsGraph
<1>5. PICK f : CopyOf(f, Len(g) + 1)
  BY <1>1 DEF CInv
<1>6. i \in Nodes(input) /\ w0 \in Nodes(input) =>
        Granted(g[i].name, g[w0].name, at) /\ Granted(g[w0].name, g[i].name, at)
  BY <1>1, EdgeGranted
<1>7. ASSUME NEW u \in Nodes(new_g)
      PROVE  /\ u = a => i \in Nodes(input) /\ new_g[u].name = g[i].name
             /\ u = b /\ g[w0].type # "GATE_VISITED" =>
                  w0 \in Nodes(input) /\ new_g[u].name = g[w0].name
  <2>1. /\ f[u] \in DOMAIN g /\ g[f[u]].type = "NODE" /\ new_g[u].name = g[f[u]].name
    BY <1>5 DEF CopyOf, Nodes
  <2>2. u = a => f[u] = i
    BY <1>1, <1>5, FindsCopy
  <2>3. u = b /\ g[w0].type # "GATE_VISITED" => f[u] = w0
    BY <1>1, <1>5, FindsCopy
  <2>. QED
    BY <1>3, <2>1, <2>2, <2>3 DEF Nodes
<1>. HIDE DEF w0, a, b, at
<1>8. CASE ~(i < w0 /\ g[w0].type # "GATE_VISITED") \/ h = new_g
  BY <1>1, <1>2, <1>8, AllGrantedStays
<1>9. CASE i < w0 /\ g[w0].type # "GATE_VISITED" /\ Joined(new_g, h, a, b, at)
  <2>. HIDE DEF h
  <2>1. new_g' = h
    BY <1>2, <1>9
  <2>2. EntriesAfter(new_g, h, a, b, at)
    BY <1>1, <1>3, <1>9, JoinedEntries
  <2>3. Nodes(h) = Nodes(new_g) /\ \A u \in DOMAIN new_g : h[u].name = new_g[u].name
    BY <1>9 DEF Joined, Nodes
  <2>4. SUFFICES ASSUME NEW v \in Nodes(new_g), NEW k \in DOMAIN h[v].adj,
                        h[v].adj[k].n \in Nodes(new_g)
                 PROVE  Granted(new_g[v].name, new_g[h[v].adj[k].n].name, h[v].adj[k].attrs)
    <3>1. \A u \in Nodes(new_g) : h[u].name = new_g[u].name
      BY <2>3 DEF Nodes
    <3>. QED
      BY <1>1, <2>1, <2>3, <3>1, GrantedStays DEF AllGranted
  <2>5. v \in DOMAIN new_g
    BY DEF Nodes
  <2>6. CASE k \in DOMAIN new_g[v].adj
    <3>1. h[v].adj[k] = new_g[v].adj[k]
      BY <2>2, <2>5, <2>6 DEF EntriesAfter
    <3>. QED
      BY <2>4, <2>6, <3>1 DEF AllGranted
  <2>7. CASE v = a /\ k = Len(new_g[a].adj) + 1
    <3>1. h[v].adj[k] = [n |-> b, attrs |-> at]
      BY <2>2, <2>7 DEF EntriesAfter
    <3>. QED
      BY <1>6, <1>7, <1>9, <2>4, <2>7, <3>1
  <2>8. CASE v = b /\ k = Len(new_g[b].adj) + 1
    <3>1. h[v].adj[k] = [n |-> a, attrs |-> at]
      BY <2>2, <2>8 DEF EntriesAfter
    <3>. QED
      BY <1>6, <1>7, <1>9, <2>4, <2>8, <3>1
  <2>. QED
    BY <2>2, <2>5, <2>6, <2>7, <2>8 DEF EntriesAfter
<1>. QED
  BY <1>1, <1>3, <1>4, <1>8, <1>9, AddEdgeIdEffect

LEMMA StepAttrsInv == LInv /\ CInv /\ AttrsInv /\ [Next]_vars => AttrsInv'
<1>. SUFFICES ASSUME LInv, CInv, AttrsInv, [Next]_vars, pc' \in {"copy_edges", "done"},
                     NamesTell(input'), PlainEnds(input')
              PROVE  AllGranted'
  BY DEF AttrsInv
<1>1. input' = input
  BY InputKept
<1>2. CASE CopyNodesDone
  <2>1. pc = "copy_nodes" /\ new_g' = new_g
    BY <1>2 DEF CopyNodesDone
  <2>2. \A u \in DOMAIN new_g : new_g[u].adj = <<>>
    BY <2>1 DEF CInv
  <2>. QED
    BY <2>1, <2>2 DEF AllGranted, Nodes
<1>3. CASE CopyEdge
  <2>1. AllGranted
    BY <1>1, <1>3 DEF AttrsInv, CopyEdge
  <2>. QED
    BY <1>1, <1>3, <2>1, CopyEdgeGranted
<1>4. CASE CopyNext \/ CopyDone \/ UNCHANGED vars
  <2>1. new_g' = new_g /\ pc \in {"copy_edges", "done"}
    BY <1>4 DEF CopyNext, CopyDone, vars
  <2>2. AllGranted
    BY <1>1, <2>1 DEF AttrsInv
  <2>. QED
    BY <1>1, <2>1, <2>2, AllGrantedStays
<1>5. CASE CopyNode
  BY <1>5 DEF CopyNode
<1>6. CASE Scan
  BY <1>6 DEF LInv, Scan, ScanNext, ScanSkip, AtEntry, ScanGate, ScanDone
<1>7. CASE Walk
  BY <1>7 DEF Walk, WalkBadGate, WalkFirstGate, WalkFirstNode, WalkDeadEnd, WalkSecond,
              AtGate, Follow, Fail
<1>8. CASE Join
  BY <1>8 DEF Join, LinkEnd, LinkFails, Fail
<1>. QED
  BY <1>2, <1>3, <1>4, <1>5, <1>6, <1>7, <1>8 DEF Next, Copy

(* An edge of the result that links NODEs has the attribute of the edge of the
   input between NODEs of their names or, where gates linked them, one that a
   chain between them carries, and none only if some chain carries none:
   graph_find_end_and_mark does not lose an attribute at a later gate without
   one, and the copy gives each edge its own.  Gates have to be tied to NODEs by
   edges without attributes, as add_gate and add_auto_gate tie them. *)
THEOREM AttrsOfTheChains == Spec /\ NamesTell(input) /\ PlainEnds(input) => []AttrsComeFromTheChain
<1>1. NamesTell(input) /\ PlainEnds(input) /\ [Next]_vars => NamesTell(input)' /\ PlainEnds(input)'
  BY InputKept
<1>2. Init => AttrsInv
  BY DEF Init, AttrsInv
<1>3. LInv /\ CInv /\ AttrsInv /\ NamesTell(input) /\ PlainEnds(input) => AttrsComeFromTheChain
  <2>1. SUFFICES ASSUME LInv, AllGranted, pc = "done",
                        NEW v \in Nodes(new_g), NEW k \in DOMAIN new_g[v].adj,
                        new_g[new_g[v].adj[k].n].type = "NODE"
                 PROVE  Granted(new_g[v].name, new_g[new_g[v].adj[k].n].name, new_g[v].adj[k].attrs)
    BY DEF AttrsInv, AttrsComeFromTheChain, Granted
  <2>2. new_g[v].adj[k].n \in Nodes(new_g)
    BY <2>1, CopyFacts, NeighbourProperties DEF Nodes
  <2>. QED
    BY <2>1, <2>2 DEF AllGranted
<1>. QED
  BY <1>1, <1>2, <1>3, CInvariance, StepAttrsInv, PTL DEF Spec
=============================================================================
