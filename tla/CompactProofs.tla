--------------------------- MODULE CompactProofs ---------------------------
(***************************************************************************)
(* For every set of inputs: compaction keeps its types, its walk never     *)
(* leaves the lists it reads, the lists of every edge stay in step, and it *)
(* marks nothing but gates and removes no edge.                            *)
(***************************************************************************)
EXTENDS Compact, GraphProofs

(* The inductive invariant.  None of its parts is inductive alone: that the
   walk finds a second entry needs the lists to agree, that they still agree
   after a link needs the ends of the link to be ids of the graph, and that
   the next gate is unmarked needs gates not to be their own neighbours. *)
IInv == TypeOK /\ WalkStaysInside /\ ListsAgree

(* A call starts in a state of the invariant. *)
LEMMA InitIInv == Init => IInv
<1>1. SUFFICES ASSUME Init PROVE IInv
  OBVIOUS
<1>2. IsGraph(input) /\ Symmetric(input) /\ Loopless(input)
  BY <1>1, InputsAssumption DEF Init
<1>3. IsGraph(EmptyGraph) /\ Symmetric(EmptyGraph) /\ Loopless(EmptyGraph)
  BY DEF IsGraph, Symmetric, Loopless, EmptyGraph
<1>4. Len(input) \in Nat
  BY <1>2 DEF IsGraph
<1>5. TypeOK
  BY <1>1, <1>2, <1>3, <1>4 DEF Init, TypeOK, EdgeAttrs
<1>6. WalkStaysInside
  BY <1>1 DEF Init, WalkStaysInside
<1>7. ListsAgree
  BY <1>1, <1>2, <1>3 DEF Init, ListsAgree
<1>. QED
  BY <1>5, <1>6, <1>7 DEF IInv

(* Marking a node changes its type and nothing else. *)
LEMMA MarkProperties ==
  ASSUME NEW h, IsGraph(h), NEW v \in DOMAIN h
  PROVE  LET m == [h EXCEPT ![v].type = "GATE_VISITED"]
         IN  /\ IsGraph(m) /\ Len(m) = Len(h) /\ DOMAIN m = DOMAIN h
             /\ \A x \in DOMAIN h : m[x].adj = h[x].adj /\ m[x].name = h[x].name
             /\ \A x \in DOMAIN h : x # v => m[x].type = h[x].type
             /\ m[v].type = "GATE_VISITED"
             /\ Symmetric(h) => Symmetric(m)
             /\ Loopless(h) => Loopless(m)
             /\ Grown(h, m)
<1> DEFINE node == [h[v] EXCEPT !.type = "GATE_VISITED"]
           m    == [h EXCEPT ![v].type = "GATE_VISITED"]
<1>1. h \in Seq(Node) /\ h[v] \in Node
  BY DEF IsGraph
<1>2. /\ node \in Node /\ node.adj = h[v].adj /\ node.name = h[v].name
      /\ node.type = "GATE_VISITED"
  BY <1>1 DEF Node, NodeTypes
<1>3. m = [h EXCEPT ![v] = node]
  OBVIOUS
<1>4. /\ m \in Seq(Node) /\ Len(m) = Len(h) /\ DOMAIN m = DOMAIN h
      /\ m[v] = node
      /\ \A x \in DOMAIN h : x # v => m[x] = h[x]
  BY <1>1, <1>2, <1>3
<1> HIDE DEF m, node
<1>5. \A x \in DOMAIN h : m[x].adj = h[x].adj /\ m[x].name = h[x].name
  BY <1>2, <1>4
<1>6. IsGraph(m)
  BY <1>4, <1>5 DEF IsGraph
<1>7. ASSUME Symmetric(h) PROVE Symmetric(m)
  <2>1. SUFFICES ASSUME NEW x \in DOMAIN m, NEW k \in DOMAIN m[x].adj
                 PROVE  \E l \in DOMAIN m[m[x].adj[k].n].adj :
                          m[m[x].adj[k].n].adj[l] = [n |-> x, attrs |-> m[x].adj[k].attrs]
    BY DEF Symmetric
  <2>2. x \in DOMAIN h /\ m[x].adj = h[x].adj /\ k \in DOMAIN h[x].adj
    BY <1>4, <1>5
  <2>3. h[x].adj[k].n \in DOMAIN h
    BY <2>2 DEF IsGraph
  <2>4. m[h[x].adj[k].n].adj = h[h[x].adj[k].n].adj
    BY <1>5, <2>3
  <2>5. PICK l \in DOMAIN h[h[x].adj[k].n].adj :
               h[h[x].adj[k].n].adj[l] = [n |-> x, attrs |-> h[x].adj[k].attrs]
    BY <1>7, <2>2 DEF Symmetric
  <2>. QED
    BY <2>2, <2>4, <2>5
<1>8. Loopless(h) => Loopless(m)
  BY <1>4, <1>5 DEF Loopless
<1>9. Grown(h, m)
  BY <1>4, <1>5 DEF Grown
<1>. QED
  BY <1>2, <1>4, <1>5, <1>6, <1>7, <1>8, <1>9 DEF m

(* The neighbour of a node is a node, has that node in its list, and differs. *)
LEMMA NeighbourProperties ==
  ASSUME NEW h, IsGraph(h), Symmetric(h), Loopless(h),
         NEW v \in DOMAIN h, NEW k \in DOMAIN h[v].adj
  PROVE  /\ h[v].adj[k].n \in DOMAIN h /\ h[v].adj[k].n # v
         /\ Len(h[h[v].adj[k].n].adj) >= 1
         /\ h[v].adj[k].attrs \in EdgeAttrs
<1>1. h[v].adj[k].n \in DOMAIN h /\ h[v].adj[k].n # v
  BY DEF IsGraph, Loopless
<1>2. PICK l \in DOMAIN h[h[v].adj[k].n].adj : TRUE
  BY DEF Symmetric
<1>3. h[h[v].adj[k].n].adj \in Seq(Edge) /\ h[v].adj \in Seq(Edge)
  BY <1>1, NodeFields
<1>4. Len(h[h[v].adj[k].n].adj) >= 1
  BY <1>2, <1>3
<1>5. h[v].adj[k] \in Edge
  BY <1>3
<1>. QED
  BY <1>1, <1>4, <1>5 DEF Edge

(* Following an edge of a gate: the shared part of three actions of the walk. *)
LEMMA FollowStep ==
  ASSUME IInv, pc = "walk", NEW k \in DOMAIN g[cur].adj, NEW next \in {"walk", "link"},
         next = "walk" => g[g[cur].adj[k].n].type = "GATE",
         Follow(k, next)
  PROVE  /\ IInv'
         /\ OnlyGatesMarked
<1>1. /\ IsGraph(g) /\ Symmetric(g) /\ Loopless(g)
      /\ cur \in DOMAIN g /\ g[cur].type = "GATE" /\ i \in DOMAIN g /\ g[i].type = "NODE"
  BY DEF IInv, TypeOK, WalkStaysInside, ListsAgree
<1>2. /\ cur' = g[cur].adj[k].n /\ g' = [g EXCEPT ![cur].type = "GATE_VISITED"]
      /\ attrs' = IF g[cur].adj[k].attrs # NULL THEN g[cur].adj[k].attrs ELSE attrs
      /\ pc' = next
      /\ UNCHANGED <<input, new_g, i, j, res>>
  BY DEF Follow
<1>3. /\ cur' \in DOMAIN g /\ cur' # cur /\ Len(g[cur'].adj) >= 1
      /\ g[cur].adj[k].attrs \in EdgeAttrs
  BY <1>1, <1>2, NeighbourProperties
<1>4. /\ IsGraph(g') /\ Len(g') = Len(g) /\ DOMAIN g' = DOMAIN g
      /\ \A x \in DOMAIN g : g'[x].adj = g[x].adj /\ g'[x].name = g[x].name
      /\ \A x \in DOMAIN g : x # cur => g'[x].type = g[x].type
      /\ g'[cur].type = "GATE_VISITED"
      /\ Symmetric(g') /\ Loopless(g') /\ Grown(g, g')
  BY <1>1, <1>2, MarkProperties
<1>5. TypeOK'
  <2>1. cur' \in 0..Len(g')
    BY <1>1, <1>3, <1>4 DEF IsGraph
  <2>2. attrs' \in EdgeAttrs
    BY <1>2, <1>3 DEF IInv, TypeOK
  <2>. QED
    BY <1>2, <1>4, <2>1, <2>2 DEF IInv, TypeOK
<1>6. WalkStaysInside'
  <2>1. g'[cur'].adj = g[cur'].adj /\ g'[cur'].type = g[cur'].type /\ g'[i].type = "NODE"
    BY <1>1, <1>3, <1>4
  <2>2. cur' \in DOMAIN g' /\ i' \in DOMAIN g' /\ g'[i'].type = "NODE"
    BY <1>1, <1>2, <1>3, <1>4, <2>1
  <2>3. pc' = "walk" => g'[cur'].type = "GATE"
    BY <1>2, <2>1
  <2>4. Len(g'[cur'].adj) >= 1
    BY <1>3, <2>1
  <2>. QED
    BY <2>2, <2>3, <2>4 DEF WalkStaysInside
<1>7. ListsAgree'
  BY <1>2, <1>4 DEF IInv, ListsAgree
<1>8. OnlyGatesMarked
  BY <1>1, <1>4 DEF OnlyGatesMarked
<1>. QED
  BY <1>5, <1>6, <1>7, <1>8 DEF IInv

(* An error return touches neither graph the caller keeps nor the counters. *)
LEMMA FailStep ==
  ASSUME IInv, NEW error \in {"BADGATE", "CONN"}, Fail(error)
  PROVE  IInv' /\ OnlyGatesMarked
<1>1. /\ res' = error /\ pc' = "failed" /\ new_g' = EmptyGraph
      /\ UNCHANGED <<input, g, i, j, cur, attrs>>
  BY DEF Fail
<1>2. IsGraph(EmptyGraph) /\ Symmetric(EmptyGraph) /\ Loopless(EmptyGraph)
  BY DEF IsGraph, Symmetric, Loopless, EmptyGraph
<1>3. TypeOK'
  BY <1>1, <1>2 DEF IInv, TypeOK
<1>4. WalkStaysInside'
  BY <1>1 DEF WalkStaysInside
<1>5. ListsAgree'
  BY <1>1, <1>2 DEF IInv, ListsAgree
<1>6. OnlyGatesMarked
  BY <1>1 DEF OnlyGatesMarked, Grown
<1>. QED
  BY <1>3, <1>4, <1>5, <1>6 DEF IInv

(* The scan changes neither graph. *)
LEMMA ScanStep ==
  ASSUME IInv, Scan
  PROVE  IInv' /\ OnlyGatesMarked
<1>1. UNCHANGED <<input, g, new_g, res>> /\ IsGraph(g) /\ Len(g) \in Nat
  BY DEF Scan, ScanNext, ScanSkip, ScanGate, ScanDone, IInv, TypeOK, IsGraph
<1>2. ListsAgree' /\ OnlyGatesMarked
  BY <1>1 DEF IInv, ListsAgree, OnlyGatesMarked, Grown
<1>3. TypeOK' /\ WalkStaysInside'
  <2>1. CASE ScanNext
    BY <1>1, <2>1 DEF ScanNext, IInv, TypeOK, WalkStaysInside
  <2>2. CASE ScanSkip
    BY <1>1, <2>2 DEF ScanSkip, AtEntry, IInv, TypeOK, WalkStaysInside
  <2>3. CASE ScanGate
    <3>1. i \in DOMAIN g /\ g[i].type = "NODE" /\ j \in DOMAIN g[i].adj
      <4>1. i \in DOMAIN g
        BY <1>1, <2>3 DEF ScanGate, AtEntry, IInv, TypeOK, IsGraph
      <4>2. g[i].adj \in Seq(Edge)
        BY <1>1, <4>1, NodeFields
      <4>. QED
        BY <2>3, <4>1, <4>2 DEF ScanGate, AtEntry, IInv, TypeOK
    <3>2. /\ cur' = g[i].adj[j].n /\ g[cur'].type = "GATE" /\ attrs' = NULL
          /\ pc' = "walk" /\ UNCHANGED <<i, j>>
      BY <2>3 DEF ScanGate
    <3>3. cur' \in DOMAIN g /\ Len(g[cur'].adj) >= 1
      BY <1>1, <3>1, <3>2, NeighbourProperties DEF IInv, ListsAgree
    <3>4. TypeOK'
      BY <1>1, <3>2, <3>3 DEF IInv, TypeOK, EdgeAttrs, IsGraph
    <3>5. WalkStaysInside'
      BY <1>1, <3>1, <3>2, <3>3 DEF WalkStaysInside
    <3>. QED
      BY <3>4, <3>5
  <2>4. CASE ScanDone
    BY <1>1, <2>4 DEF ScanDone, IInv, TypeOK, WalkStaysInside
  <2>. QED
    BY <2>1, <2>2, <2>3, <2>4 DEF Scan
<1>. QED
  BY <1>2, <1>3 DEF IInv

(* One iteration of graph_find_end_and_mark. *)
LEMMA WalkStep ==
  ASSUME IInv, Walk
  PROVE  IInv' /\ OnlyGatesMarked
<1>1. /\ pc = "walk" /\ cur \in DOMAIN g /\ g[cur].type = "GATE"
      /\ Len(g[cur].adj) >= 1 /\ g[cur].adj \in Seq(Edge)
  <2>1. pc = "walk"
    BY DEF Walk, WalkBadGate, WalkFirstGate, WalkFirstNode, WalkDeadEnd, WalkSecond, AtGate
  <2>2. cur \in DOMAIN g /\ g[cur].type = "GATE" /\ Len(g[cur].adj) >= 1
    BY <2>1 DEF IInv, WalkStaysInside
  <2>. QED
    BY <2>1, <2>2, NodeFields DEF IInv, TypeOK
<1>2. CASE WalkBadGate
  BY <1>2, FailStep DEF WalkBadGate
<1>3. CASE WalkFirstGate
  <2>1. 1 \in DOMAIN g[cur].adj
    BY <1>1
  <2>2. g[g[cur].adj[1].n].type = "GATE" /\ Follow(1, "walk")
    BY <1>3 DEF WalkFirstGate, TypeAt
  <2>. QED
    BY <1>1, <2>1, <2>2, FollowStep
<1>4. CASE WalkFirstNode
  <2>1. 1 \in DOMAIN g[cur].adj
    BY <1>1
  <2>2. Follow(1, "link")
    BY <1>4 DEF WalkFirstNode
  <2>. QED
    BY <1>1, <2>1, <2>2, FollowStep
<1>5. CASE WalkDeadEnd
  <2>1. pc' = "link" /\ UNCHANGED <<input, g, new_g, i, j, cur, attrs, res>>
    BY <1>5 DEF WalkDeadEnd
  <2>2. TypeOK' /\ ListsAgree'
    BY <2>1 DEF IInv, TypeOK, ListsAgree
  <2>3. WalkStaysInside'
    BY <1>1, <2>1 DEF IInv, WalkStaysInside
  <2>4. OnlyGatesMarked
    BY <2>1 DEF OnlyGatesMarked, Grown
  <2>. QED
    BY <2>2, <2>3, <2>4 DEF IInv
<1>6. CASE WalkSecond
  <2>1. 2 \in DOMAIN g[cur].adj
    <3>1. Len(g[cur].adj) # 1
      BY <1>6 DEF WalkSecond
    <3>2. Len(g[cur].adj) \in Nat /\ DOMAIN g[cur].adj = 1..Len(g[cur].adj)
      BY <1>1
    <3>3. ASSUME NEW len \in Nat, len >= 1, len # 1 PROVE 2 \in 1..len
      BY <3>3
    <3>. QED
      BY <1>1, <3>1, <3>2, <3>3
  <2>2. Follow(2, IF g[g[cur].adj[2].n].type = "GATE" THEN "walk" ELSE "link")
    BY <1>6 DEF WalkSecond, TypeAt
  <2>3. CASE g[g[cur].adj[2].n].type = "GATE"
    <3>1. Follow(2, "walk")
      BY <2>2, <2>3
    <3>. QED
      BY <1>1, <2>1, <2>3, <3>1, FollowStep
  <2>4. CASE g[g[cur].adj[2].n].type # "GATE"
    <3>1. Follow(2, "link")
      BY <2>2, <2>4
    <3>. QED
      BY <1>1, <2>1, <3>1, FollowStep
  <2>. QED
    BY <2>3, <2>4
<1>. QED
  BY <1>2, <1>3, <1>4, <1>5, <1>6 DEF Walk

(* Joining the end of a chain to the NODE the walk started from. *)
LEMMA JoinStep ==
  ASSUME IInv, Join
  PROVE  IInv' /\ OnlyGatesMarked
<1>1. CASE LinkFails
  BY <1>1, FailStep DEF LinkFails
<1>2. CASE LinkEnd
  <2>1. /\ pc = "link" /\ IsGraph(g) /\ Symmetric(g) /\ Loopless(g)
        /\ i \in DOMAIN g /\ cur \in 0..Len(g) /\ attrs \in EdgeAttrs
        /\ j \in Nat \ {0}
    BY <1>2 DEF LinkEnd, IInv, TypeOK, WalkStaysInside, ListsAgree
  <2>2. /\ g' = g \/ g' = AddEdgeId(g, cur, i, attrs)
        /\ j' = j + 1 /\ pc' = "scan"
        /\ UNCHANGED <<input, new_g, i, cur, attrs, res>>
    BY <1>2 DEF LinkEnd
  <2>3. /\ IsGraph(g') /\ Len(g') = Len(g) /\ DOMAIN g' = DOMAIN g
        /\ \A v \in DOMAIN g : g'[v].type = g[v].type
        /\ Grown(g, g') /\ Symmetric(g') /\ Loopless(g')
    <3>1. i \in 0..Len(g)
      BY <2>1 DEF IsGraph
    <3>2. CASE g' = g
      BY <2>1, <3>2 DEF Grown
    <3>3. CASE g' = AddEdgeId(g, cur, i, attrs)
      <4>1. LET h == AddEdgeId(g, cur, i, attrs)
            IN  /\ IsGraph(h) /\ Len(h) = Len(g) /\ DOMAIN h = DOMAIN g
                /\ \A v \in DOMAIN g : h[v].name = g[v].name /\ h[v].type = g[v].type
                /\ Grown(g, h)
        BY SMTT(30), <2>1, <3>1, AddEdgeIdGraph
      <4>2. /\ Symmetric(AddEdgeId(g, cur, i, attrs))
            /\ Loopless(AddEdgeId(g, cur, i, attrs))
        BY <2>1, <3>1, AddEdgeIdSymmetric, AddEdgeIdLoopless
      <4>. QED
        BY <3>3, <4>1, <4>2
    <3>. QED
      BY <2>2, <3>2, <3>3
  <2>4. TypeOK'
    BY <2>1, <2>2, <2>3 DEF IInv, TypeOK
  <2>5. WalkStaysInside'
    BY <2>2 DEF WalkStaysInside
  <2>6. ListsAgree'
    BY <2>2, <2>3 DEF IInv, ListsAgree
  <2>7. OnlyGatesMarked
    BY <2>3 DEF OnlyGatesMarked
  <2>. QED
    BY <2>4, <2>5, <2>6, <2>7 DEF IInv
<1>. QED
  BY <1>1, <1>2 DEF Join

(* Copying to the new graph. *)
LEMMA CopyStep ==
  ASSUME IInv, Copy
  PROVE  IInv' /\ OnlyGatesMarked
<1>1. /\ UNCHANGED <<input, g, cur, attrs, res>>
      /\ IsGraph(g) /\ Len(g) \in Nat /\ IsGraph(new_g)
      /\ Symmetric(new_g) /\ Loopless(new_g)
  BY DEF Copy, CopyNode, CopyNodesDone, CopyNext, CopyEdge, CopyDone,
         IInv, TypeOK, ListsAgree, IsGraph
<1>2. OnlyGatesMarked
  BY <1>1 DEF OnlyGatesMarked, Grown
<1>3. /\ pc' \in {"copy_nodes", "copy_edges", "done"}
      /\ i' \in 1..(Len(g) + 1) /\ j' \in Nat \ {0}
  <2>1. i \in 1..(Len(g) + 1) /\ j \in Nat \ {0}
    BY DEF IInv, TypeOK
  <2>. QED
    BY <1>1, <2>1 DEF Copy, CopyNode, CopyNodesDone, CopyNext, CopyEdge, CopyDone
<1>4. IsGraph(new_g') /\ Symmetric(new_g') /\ Loopless(new_g')
  <2>1. CASE new_g' = new_g
    BY <1>1, <2>1
  <2>2. CASE CopyNode
    <3>1. i \in DOMAIN g
      BY <1>1, <2>2 DEF CopyNode, IInv, TypeOK, IsGraph
    <3>2. g[i].name \in Names /\ g[i].type \in NodeTypes
      BY <1>1, <3>1, NodeFields
    <3>3. CASE new_g' = AddNode(new_g, g[i].name, g[i].type)
      BY <1>1, <3>2, <3>3, AddNodeProperties
    <3>. QED
      BY <2>1, <2>2, <3>3 DEF CopyNode
  <2>3. CASE CopyEdge
    <3>1. i \in DOMAIN g /\ g[i].adj \in Seq(Edge)
      <4>1. i \in DOMAIN g
        BY <1>1, <2>3 DEF CopyEdge, IInv, TypeOK, IsGraph
      <4>. QED
        BY <1>1, <4>1, NodeFields
    <3>2. j \in DOMAIN g[i].adj
      BY <2>3, <3>1 DEF CopyEdge, IInv, TypeOK
    <3>3. g[i].adj[j].attrs \in EdgeAttrs
      <4>1. g[i].adj[j] \in Edge
        BY <3>1, <3>2
      <4>. QED
        BY <4>1 DEF Edge
    <3>4. CASE new_g' = AddEdgeName(new_g, g[i].name, g[g[i].adj[j].n].name, g[i].adj[j].attrs)
      BY <1>1, <3>3, <3>4, AddEdgeNameProperties
    <3>. QED
      BY <2>1, <2>3, <3>4 DEF CopyEdge
  <2>4. CASE CopyNodesDone \/ CopyNext \/ CopyDone
    BY <2>1, <2>4 DEF CopyNodesDone, CopyNext, CopyDone
  <2>. QED
    BY <2>2, <2>3, <2>4 DEF Copy
<1>5. TypeOK'
  BY <1>1, <1>3, <1>4 DEF IInv, TypeOK
<1>6. WalkStaysInside'
  BY <1>3 DEF WalkStaysInside
<1>7. ListsAgree'
  BY <1>1, <1>4 DEF IInv, ListsAgree
<1>. QED
  BY <1>2, <1>5, <1>6, <1>7 DEF IInv

(* Every step keeps the inductive invariant, and marks only gates. *)
LEMMA StepIInv == IInv /\ [Next]_vars => IInv' /\ [OnlyGatesMarked]_vars
<1>1. SUFFICES ASSUME IInv, [Next]_vars PROVE IInv' /\ [OnlyGatesMarked]_vars
  OBVIOUS
<1>2. CASE Scan
  BY <1>1, <1>2, ScanStep
<1>3. CASE Walk
  BY <1>1, <1>3, WalkStep
<1>4. CASE Join
  BY <1>1, <1>4, JoinStep
<1>5. CASE Copy
  BY <1>1, <1>5, CopyStep
<1>6. CASE UNCHANGED vars
  BY <1>1, <1>6 DEF vars, IInv, TypeOK, WalkStaysInside, ListsAgree
<1>. QED
  BY <1>1, <1>2, <1>3, <1>4, <1>5, <1>6 DEF Next

(* The invariant holds in every state of every compaction. *)
LEMMA Invariance == Spec => []IInv
  BY InitIInv, StepIInv, PTL DEF Spec

(* The state of a compaction is always of its type; in particular every entry
   of every adjacency list, of either graph, is the id of one of its nodes. *)
THEOREM TypeCorrect == Spec => []TypeOK
<1>1. IInv => TypeOK
  BY DEF IInv
<1>. QED
  BY <1>1, Invariance, PTL

(* graph_find_end_and_mark reads adj[0] and adj[1] of no node that lacks them,
   however long the chain and whatever was marked and linked before. *)
THEOREM WalkSafe == Spec => []WalkStaysInside
<1>1. IInv => WalkStaysInside
  BY DEF IInv
<1>. QED
  BY <1>1, Invariance, PTL

(* Linking while scanning and copying by name never leave half an edge, nor an
   edge from a node to itself, in the caller's graph or in the copy. *)
THEOREM ListsStayInStep == Spec => []ListsAgree
<1>1. IInv => ListsAgree
  BY DEF IInv
<1>. QED
  BY <1>1, Invariance, PTL

(* No step of a compaction, failing ones included, changes the type of a node
   other than from gate to marked gate, nor removes, moves or changes an edge. *)
THEOREM Marking == Spec => MarksOnlyGates
  BY Invariance, StepIInv, PTL DEF Spec, MarksOnlyGates
=============================================================================
