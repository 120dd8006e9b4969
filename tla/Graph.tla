------------------------------- MODULE Graph -------------------------------
(***************************************************************************)
(* The graph of graph.c: an array of nodes, each with a name, a type and   *)
(* an adjacency list.  A graph value is a sequence of node records; the    *)
(* program's id i is position i + 1 here, and its -1 ("no such node") is   *)
(* 0.  An undirected edge is kept twice, once in the list of either end.   *)
(* Node attributes (DOT options that are only carried along) are left out; *)
(* edge attributes are kept, because which of the attributes of a chain    *)
(* reaches the output is something the properties talk about.              *)
(***************************************************************************)
EXTENDS Integers, Sequences, FiniteSetsExt

CONSTANTS Labels,  \* the component names that occur in node names
          Attrs,   \* the edge attributes a definition can carry
          NULL     \* an absent attribute

ASSUME NullAssumption == NULL \notin Attrs

(* A full name "n.row[2].p" is the sequence of its parts: label and index,
   -1 where the program prints no index. *)
Parts == Labels \X Int

Names == Seq(Parts)

NodeTypes == {"NODE", "GATE", "GATE_VISITED", "REPLACED_T", "REPLACED"}

EdgeAttrs == Attrs \cup {NULL}

Edge == [n : Nat \ {0}, attrs : EdgeAttrs]

Node == [name : Names, type : NodeTypes, adj : Seq(Edge)]

(* A graph all of whose adjacency entries name existing nodes. *)
IsGraph(g) ==
  /\ g \in Seq(Node)
  /\ \A i \in DOMAIN g : \A k \in DOMAIN g[i].adj : g[i].adj[k].n \in DOMAIN g

EmptyGraph == <<>>

AddNode(g, name, type) ==
  Append(g, [name |-> name, type |-> type, adj |-> <<>>])

Live(node) == node.type \notin {"REPLACED", "REPLACED_T"}

(* Slip: the last node of that name. *)
FindLastNode(g, name) ==
  LET hits == {i \in DOMAIN g : g[i].name = name /\ Live(g[i])}
  IN  IF hits = {} THEN 0 ELSE Max(hits)

(* graph_find_node: the first live node of that name, 0 when there is none. *)
FindNode(g, name) ==
  LET hits == {i \in DOMAIN g : g[i].name = name /\ Live(g[i])}
  IN  IF hits = {} THEN 0 ELSE Min(hits)

(* graph_are_adjacent looks at one side only: at the list of a. *)
AreAdjacent(g, a, b) == \E k \in DOMAIN g[a].adj : g[a].adj[k].n = b

(* Slip: the second id is not tested for "no such node". *)
EdgeRefusedByFirst(g, a, b) == a < 1 \/ a = b \/ a > Len(g) + 1 \/ b > Len(g) + 1

(* The test at the top of graph_add_edge_id.  The program compares a 0-based
   id with n_nodes by ">", so the id one past the last node is let through. *)
EdgeRefused(g, a, b) == a < 1 \/ b < 1 \/ a = b \/ a > Len(g) + 1 \/ b > Len(g) + 1

(* Slip: the new entry is written over the last one. *)
AddHalfOverLast(g, a, b, attrs) ==
  LET adj  == g[a].adj
      kept == SubSeq(adj, 1, Len(adj) - 1)
  IN  [g EXCEPT ![a].adj = Append(kept, [n |-> b, attrs |-> attrs])]

AddHalf(g, a, b, attrs) ==
  [g EXCEPT ![a].adj = Append(@, [n |-> b, attrs |-> attrs])]

(* Slip: the duplicate test is missing. *)
AddEdgeIdTwice(g, a, b, attrs) ==
  IF EdgeRefused(g, a, b)
  THEN g
  ELSE AddHalf(AddHalf(g, a, b, attrs), b, a, attrs)

(* graph_add_edge_id.  Its result is TOP_E_CONN exactly when EdgeRefused; the
   duplicate test reads a's list and decides for both halves. *)
AddEdgeId(g, a, b, attrs) ==
  IF EdgeRefused(g, a, b) \/ AreAdjacent(g, a, b)
  THEN g
  ELSE AddHalf(AddHalf(g, a, b, attrs), b, a, attrs)

AddEdgeNameRefused(g, nameA, nameB) ==
  EdgeRefused(g, FindNode(g, nameA), FindNode(g, nameB))

AddEdgeName(g, nameA, nameB, attrs) ==
  AddEdgeId(g, FindNode(g, nameA), FindNode(g, nameB), attrs)

----------------------------------------------------------------------------
(* What topologies_graph_print and topologies_graph_string write, the names
   standing for the labels: an edge is written from its lower end, and only
   between NODEs unless the gates are asked for. *)
Printed(g, i, gates) == g[i].type = "NODE" \/ gates

DotNodes(g, gates) == {i \in DOMAIN g : Printed(g, i, gates)}

(* Slip: an edge is written from both ends. *)
DotEntries(g, gates) ==
  {e \in UNION {{i} \X DOMAIN g[i].adj : i \in DotNodes(g, gates)} :
     Printed(g, g[e[1]].adj[e[2]].n, gates)}

DotEdges(g, gates) ==
  {e \in UNION {{i} \X DOMAIN g[i].adj : i \in DotNodes(g, gates)} :
     LET other == g[e[1]].adj[e[2]].n
     IN  e[1] <= other /\ Printed(g, other, gates)}

----------------------------------------------------------------------------
(* What the rest of the program takes for granted about a graph. *)

Neighbours(g, i) == {g[i].adj[k].n : k \in DOMAIN g[i].adj}

(* Every edge is in both lists, with the same attribute. *)
Symmetric(g) ==
  \A i \in DOMAIN g : \A k \in DOMAIN g[i].adj :
     \E l \in DOMAIN g[g[i].adj[k].n].adj :
        g[g[i].adj[k].n].adj[l] = [n |-> i, attrs |-> g[i].adj[k].attrs]

Loopless(g) == \A i \in DOMAIN g : \A k \in DOMAIN g[i].adj : g[i].adj[k].n # i

NoParallel(g) ==
  \A i \in DOMAIN g : \A k, l \in DOMAIN g[i].adj :
     g[i].adj[k].n = g[i].adj[l].n => k = l

Simple(g) == Symmetric(g) /\ Loopless(g) /\ NoParallel(g)

(* new has the nodes of old, under their ids and names, and their edges at the
   same place in their lists; only types may differ. *)
Grown(old, new) ==
  \A i \in DOMAIN old :
     /\ i \in DOMAIN new
     /\ new[i].name = old[i].name
     /\ \A k \in DOMAIN old[i].adj :
          k \in DOMAIN new[i].adj /\ new[i].adj[k] = old[i].adj[k]

UniqueLiveNames(g) ==
  \A i, k \in DOMAIN g :
     Live(g[i]) /\ Live(g[k]) /\ g[i].name = g[k].name => i = k
=============================================================================
