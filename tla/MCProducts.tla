----------------------------- MODULE MCProducts -----------------------------
(***************************************************************************)
(* The operands products are checked on, as compaction leaves them: no     *)
(* NODE without neighbours, and gates that lead nowhere next to a NODE.    *)
(***************************************************************************)
EXTENDS Products

CONSTANTS x, y, z, t, p, w1, w2, w3

NodesOn(labels) ==
  [k \in DOMAIN labels |-> [name |-> <<<<labels[k], -1>>>>, type |-> "NODE", adj |-> <<>>]]

Join(h, edges) == FoldLeft(LAMBDA graph, e : AddEdgeId(graph, e[1], e[2], e[3]), h, edges)

GateAt(h, v, at) ==
  AddEdgeId(AddNode(h, Append(h[v].name, <<p, -1>>), "GATE"), v, Len(h) + 1, at)

Two   == Join(NodesOn(<<x, y>>), <<<<1, 2, <<w1>>>>>>)
Path  == Join(NodesOn(<<x, y, z>>), <<<<1, 2, <<w1>>>>, <<3, 2, NULL>>>>)
Back  == Join(NodesOn(<<x, y, z>>), <<<<3, 1, <<w2>>>>, <<1, 2, <<w3>>>>>>)
Cycle == Join(NodesOn(<<x, y, z>>), <<<<1, 2, NULL>>, <<2, 3, <<w2>>>>, <<3, 1, <<w3>>>>>>)
Star  == Join(NodesOn(<<x, y, z, t>>), <<<<2, 1, <<w1>>>>, <<2, 3, NULL>>, <<2, 4, <<w2>>>>>>)

(* A gate behind the edges of its NODE, before them, and on both ends. *)
Late  == GateAt(Two, 2, NULL)
Early == Join(GateAt(NodesOn(<<x, y>>), 1, <<w3>>), <<<<1, 2, <<w1>>>>>>)
Both  == GateAt(Early, 2, NULL)

(* A compaction that failed leaves a marked gate. *)
Half  == [Late EXCEPT ![3].type = "GATE_VISITED"]

(* Two nodes of one name. *)
Twins == Join(NodesOn(<<x, x>>), <<<<1, 2, <<w1>>>>>>)

MCOperands == {EmptyGraph, Two, Path, Back, Cycle, Star, Late, Early, Both, Half, Twins}

MCRoots == {<<<<x, -1>>>>, <<<<y, -1>>>>, <<<<z, -1>>>>}

MCAttrs == {<<w1>>, <<w2>>, <<w3>>} \cup {<<u, v>> : <<u, v>> \in {w1, w2, w3} \X {w1, w2, w3}}
=============================================================================
