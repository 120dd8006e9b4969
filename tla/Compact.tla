------------------------------- MODULE Compact -------------------------------
(***************************************************************************)
(* topologies_graph_compact and graph_find_end_and_mark (topologies.c):    *)
(* the chains of gates between NODEs are replaced by edges.  The program   *)
(* first walks the gates behind every NODE, marking them and adding to the *)
(* same graph an edge to the end of each chain; it then copies what is not *)
(* marked to a new graph.  One action is one iteration of one of its loops.*)
(***************************************************************************)
EXTENDS Graph

CONSTANT Inputs   \* the graphs that compaction is called on

(* The two lists of every edge agree, no node is its own neighbour, and no gate
   is marked yet. *)
ASSUME InputsAssumption ==
  \A graph \in Inputs : /\ IsGraph(graph)
                        /\ Symmetric(graph)
                        /\ Loopless(graph)
                        /\ \A i \in DOMAIN graph : graph[i].type # "GATE_VISITED"

VARIABLES input,   \* history: the graph of the call
          g,       \* the caller's graph, extended and marked in place
          new_g,   \* the graph the live part is copied to
          pc,      \* the loop the program is in
          i, j,    \* the loop counters: a node, an entry of its list
          cur,     \* node_tmp of graph_find_end_and_mark
          attrs,   \* the attribute the walk has picked up
          res      \* the result of the call

vars == <<input, g, new_g, pc, i, j, cur, attrs, res>>

Init ==
  /\ input \in Inputs
  /\ g = input
  /\ new_g = EmptyGraph
  /\ pc = "scan"
  /\ i = 1
  /\ j = 1
  /\ cur = 0
  /\ attrs = NULL
  /\ res = "ok"

(* The call returns an error: new_g is destroyed, g stays as it is by then. *)
Fail(error) ==
  /\ res' = error
  /\ pc' = "failed"
  /\ new_g' = EmptyGraph
  /\ UNCHANGED <<input, g, i, j, cur, attrs>>

----------------------------------------------------------------------------
(* The first pair of loops: the neighbours of every NODE. *)

ScanNext ==
  /\ pc = "scan"
  /\ i <= Len(g)
  /\ g[i].type # "NODE" \/ j > Len(g[i].adj)
  /\ i' = i + 1
  /\ j' = 1
  /\ UNCHANGED <<input, g, new_g, pc, cur, attrs, res>>

AtEntry == pc = "scan" /\ i <= Len(g) /\ g[i].type = "NODE" /\ j <= Len(g[i].adj)

ScanSkip ==
  /\ AtEntry
  /\ g[g[i].adj[j].n].type # "GATE"
  /\ j' = j + 1
  /\ UNCHANGED <<input, g, new_g, pc, i, cur, attrs, res>>

(* Slip: the walk also starts at a gate that is marked. *)
ScanAnyGate ==
  /\ AtEntry
  /\ g[g[i].adj[j].n].type # "NODE"
  /\ cur' = g[i].adj[j].n
  /\ attrs' = NULL
  /\ pc' = "walk"
  /\ UNCHANGED <<input, g, new_g, i, j, res>>

ScanGate ==
  /\ AtEntry
  /\ g[g[i].adj[j].n].type = "GATE"
  /\ cur' = g[i].adj[j].n
  /\ attrs' = NULL
  /\ pc' = "walk"
  /\ UNCHANGED <<input, g, new_g, i, j, res>>

ScanDone ==
  /\ pc = "scan"
  /\ i > Len(g)
  /\ pc' = "copy_nodes"
  /\ i' = 1
  /\ UNCHANGED <<input, g, new_g, j, cur, attrs, res>>

----------------------------------------------------------------------------
(* graph_find_end_and_mark: at most two entries of a gate are looked at, the
   second when the first is where the walk came from. *)

TypeAt(k) == g[g[cur].adj[k].n].type

AtGate == pc = "walk" /\ (g[cur].type = "NODE" \/ Len(g[cur].adj) <= 2)

WalkBadGate ==
  /\ pc = "walk"
  /\ g[cur].type # "NODE"
  /\ Len(g[cur].adj) > 2
  /\ Fail("BADGATE")

(* Slips: the neighbour is marked; nothing is; the last entry decides the
   attribute, even when it has none. *)
FollowMarkingNext(k, next) ==
  /\ g' = [g EXCEPT ![g[cur].adj[k].n].type = "GATE_VISITED"]
  /\ cur' = g[cur].adj[k].n
  /\ attrs' = IF g[cur].adj[k].attrs # NULL THEN g[cur].adj[k].attrs ELSE attrs
  /\ pc' = next
  /\ UNCHANGED <<input, new_g, i, j, res>>

FollowUnmarked(k, next) ==
  /\ cur' = g[cur].adj[k].n
  /\ attrs' = IF g[cur].adj[k].attrs # NULL THEN g[cur].adj[k].attrs ELSE attrs
  /\ pc' = next
  /\ UNCHANGED <<input, g, new_g, i, j, res>>

FollowLastAttrs(k, next) ==
  /\ g' = [g EXCEPT ![cur].type = "GATE_VISITED"]
  /\ cur' = g[cur].adj[k].n
  /\ attrs' = g[cur].adj[k].attrs
  /\ pc' = next
  /\ UNCHANGED <<input, new_g, i, j, res>>

(* Mark the gate and go on with its k-th neighbour, to another gate or, at
   "link", to the end of the chain. *)
Follow(k, next) ==
  /\ g' = [g EXCEPT ![cur].type = "GATE_VISITED"]
  /\ cur' = g[cur].adj[k].n
  /\ attrs' = IF g[cur].adj[k].attrs # NULL THEN g[cur].adj[k].attrs ELSE attrs
  /\ pc' = next
  /\ UNCHANGED <<input, new_g, i, j, res>>

WalkFirstGate == AtGate /\ TypeAt(1) = "GATE" /\ Follow(1, "walk")

(* Slip: the node the walk came from counts as the end of the chain. *)
AnyNodeFirst == TypeAt(1) = "NODE"

OtherNodeFirst == TypeAt(1) = "NODE" /\ g[cur].adj[1].n # i

WalkFirstNode == AtGate /\ OtherNodeFirst /\ Follow(1, "link")

CameFromFirst == TypeAt(1) # "GATE" /\ ~OtherNodeFirst

(* A gate with nothing behind it ends the walk and is not marked. *)
WalkDeadEnd ==
  /\ AtGate
  /\ CameFromFirst
  /\ Len(g[cur].adj) = 1
  /\ pc' = "link"
  /\ UNCHANGED <<input, g, new_g, i, j, cur, attrs, res>>

WalkSecond ==
  /\ AtGate
  /\ CameFromFirst
  /\ Len(g[cur].adj) # 1
  /\ Follow(2, IF TypeAt(2) = "GATE" THEN "walk" ELSE "link")

(* The end of the chain and the NODE become neighbours, unless they are. *)
LinkRefused == ~AreAdjacent(g, cur, i) /\ EdgeRefused(g, cur, i)

(* Slip: the edge is entered in the NODE's list only. *)
LinkStart ==
  /\ pc = "link"
  /\ ~LinkRefused
  /\ g' = IF AreAdjacent(g, cur, i) THEN g ELSE AddHalf(g, i, cur, attrs)
  /\ j' = j + 1
  /\ pc' = "scan"
  /\ UNCHANGED <<input, new_g, i, cur, attrs, res>>

LinkEnd ==
  /\ pc = "link"
  /\ ~LinkRefused
  /\ g' = IF AreAdjacent(g, cur, i) THEN g ELSE AddEdgeId(g, cur, i, attrs)
  /\ j' = j + 1
  /\ pc' = "scan"
  /\ UNCHANGED <<input, new_g, i, cur, attrs, res>>

LinkFails ==
  /\ pc = "link"
  /\ LinkRefused
  /\ Fail("CONN")

----------------------------------------------------------------------------
(* The copy: marked gates and nodes without neighbours are left out. *)

(* Slip: nodes without neighbours are copied. *)
CopiedIfUnmarked(node) == node.type # "GATE_VISITED"

Copied(node) == node.type # "GATE_VISITED" /\ node.adj # <<>>

CopyNode ==
  /\ pc = "copy_nodes"
  /\ i <= Len(g)
  /\ new_g' = IF Copied(g[i]) THEN AddNode(new_g, g[i].name, g[i].type) ELSE new_g
  /\ i' = i + 1
  /\ UNCHANGED <<input, g, pc, j, cur, attrs, res>>

CopyNodesDone ==
  /\ pc = "copy_nodes"
  /\ i > Len(g)
  /\ pc' = "copy_edges"
  /\ i' = 1
  /\ j' = 1
  /\ UNCHANGED <<input, g, new_g, cur, attrs, res>>

CopyNext ==
  /\ pc = "copy_edges"
  /\ i <= Len(g)
  /\ g[i].type = "GATE_VISITED" \/ j > Len(g[i].adj)
  /\ i' = i + 1
  /\ j' = 1
  /\ UNCHANGED <<input, g, new_g, pc, cur, attrs, res>>

(* Both ends are found by name in the new graph; what graph_add_edge_id says
   of it is not looked at. *)
CopyEdge ==
  /\ pc = "copy_edges"
  /\ i <= Len(g)
  /\ g[i].type # "GATE_VISITED"
  /\ j <= Len(g[i].adj)
  /\ LET edge == g[i].adj[j]
     IN  new_g' = IF i < edge.n /\ g[edge.n].type # "GATE_VISITED"
                  THEN AddEdgeName(new_g, g[i].name, g[edge.n].name, edge.attrs)
                  ELSE new_g
  /\ j' = j + 1
  /\ UNCHANGED <<input, g, pc, i, cur, attrs, res>>

CopyDone ==
  /\ pc = "copy_edges"
  /\ i > Len(g)
  /\ pc' = "done"
  /\ UNCHANGED <<input, g, new_g, i, j, cur, attrs, res>>

----------------------------------------------------------------------------
Scan == ScanNext \/ ScanSkip \/ ScanGate \/ ScanDone

Walk == WalkBadGate \/ WalkFirstGate \/ WalkFirstNode \/ WalkDeadEnd \/ WalkSecond

Join == LinkEnd \/ LinkFails

Copy == CopyNode \/ CopyNodesDone \/ CopyNext \/ CopyEdge \/ CopyDone

Next == Scan \/ Walk \/ Join \/ Copy

Spec == Init /\ [][Next]_vars /\ WF_vars(Next)

----------------------------------------------------------------------------
(* Type invariant. *)
TypeOK ==
  /\ IsGraph(input) /\ IsGraph(g) /\ IsGraph(new_g)
  /\ Len(g) = Len(input)
  /\ pc \in {"scan", "walk", "link", "copy_nodes", "copy_edges", "done", "failed"}
  /\ i \in 1..(Len(g) + 1)
  /\ j \in Nat \ {0}
  /\ cur \in 0..Len(g)
  /\ attrs \in EdgeAttrs
  /\ res \in {"ok", "BADGATE", "CONN"}

(* The walk is always at an unmarked gate that has a neighbour, so the entries
   it reads unchecked exist: adj[0], and adj[1] where n_adj is neither 1 nor
   more than 2. *)
WalkStaysInside ==
  /\ pc = "walk" => /\ cur \in DOMAIN g
                    /\ g[cur].type = "GATE"
                    /\ Len(g[cur].adj) >= 1
  /\ pc \in {"walk", "link"} => i \in DOMAIN g /\ g[i].type = "NODE"
  /\ pc = "link" => cur \in DOMAIN g

(* The caller's graph and the copy keep the two lists of every edge in step and
   get no loop, although compaction appends to lists it is looping over, and
   the copy looks its ends up by name. *)
ListsAgree ==
  /\ Symmetric(g) /\ Symmetric(new_g)
  /\ Loopless(g) /\ Loopless(new_g)

OnlyGatesMarked ==
  /\ Grown(g, g')
  /\ \A v \in DOMAIN g : g'[v].type # g[v].type =>
       g[v].type = "GATE" /\ g'[v].type = "GATE_VISITED"

(* Walking marks gates and only gates, never unmarks one, and removes no edge:
   a caller that goes on after an error still has all it had. *)
MarksOnlyGates == [][OnlyGatesMarked]_vars

(* The copy has the NODEs that had neighbours, in their old order, once each,
   under their names, and nothing that is marked. *)
NodesSurvive ==
  LET linked == {v \in DOMAIN input : input[v].type = "NODE" /\ input[v].adj # <<>>}
      kept   == {v \in DOMAIN new_g : new_g[v].type = "NODE"}
  IN  pc \in {"copy_edges", "done"} =>
        /\ \E was \in [kept -> linked] :
             /\ \A w \in linked : \E v \in kept : was[v] = w
             /\ \A v, w \in kept : v < w => was[v] < was[w]
             /\ \A v \in kept : new_g[v].name = input[was[v]].name
        /\ \A v \in DOMAIN new_g : new_g[v].type # "GATE_VISITED"

(* Compaction returns: every walk ends, although its chain may be a cycle, and
   the scan ends, although it lengthens the lists it runs over. *)
Returns == <>(pc \in {"done", "failed"})
=============================================================================
