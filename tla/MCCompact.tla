------------------------------ MODULE MCCompact ------------------------------
(***************************************************************************)
(* The graphs compaction is checked on: a definition with two nodes that   *)
(* have a gate each, a third without, and two gates of the compound module *)
(* around them, under wirings by two or three connections.                 *)
(***************************************************************************)
EXTENDS CompactRefinement, AutoGates, SequencesExt

CONSTANTS n, a, b, c, p, q, r

Name(label) == <<<<n, -1>>, <<label, -1>>>>

GateOf(graph, owner) ==
  AddEdgeId(AddNode(graph, Append(graph[owner].name, <<p, -1>>), "GATE"), Len(graph) + 1, owner, NULL)

Submodule(graph, label) == AddNode(graph, Name(label), "NODE")

Ports == AddNode(AddNode(EmptyGraph, Name(q), "GATE"), Name(r), "GATE")

WithA == GateOf(Submodule(Ports, a), 3)

WithB == GateOf(Submodule(WithA, b), 5)

(* Ids: q 1, r 2, a 3, a.p 4, b 5, b.p 6, c 7. *)
Plain == Submodule(WithB, c)

(* The same, with an edge of an inserted product between a and c, and with two
   nodes of one name. *)
Direct == AddEdgeId(Plain, 3, 7, "w0")

SameName == [Plain EXCEPT ![7].name = Name(a)]

(* c after it was replaced by a submodule that has no node of its name. *)
WithoutC(graph) == [graph EXCEPT ![7].type = "REPLACED"]

Ends == {<<v, w>> \in (1..7) \X (1..7) : v < w \/ (v = w /\ v \in {3, 5, 7})}

(* graph_eval_and_add_edge on the ids of the two ends. *)
Connect(graph, ends, at) ==
  LET left  == End(graph, ends[1], FALSE)
      right == End(left.graph, ends[2], FALSE)
  IN  AddEdgeId(right.graph, left.id, right.id, at)

AttrOf(k) == IF k = 1 THEN "w1" ELSE IF k = 2 THEN NULL ELSE "w3"

Wired(base, wiring) ==
  FoldLeft(LAMBDA graph, k : Connect(graph, wiring[k], AttrOf(k)),
           base, [k \in DOMAIN wiring |-> k])

Wirings(max, ends) == UNION {[1..k -> ends] : k \in 0..max}

(* Every wiring by two connections, and by three where they make long chains
   through the gates of the compound module. *)
LongEnds == {e \in Ends : {e[1], e[2]} \subseteq {1, 2, 4, 6}} \cup {<<1, 3>>, <<3, 3>>, <<3, 5>>}

Unique ==
  {Wired(Plain, wiring) : wiring \in Wirings(2, Ends)}
    \cup {Wired(Plain, wiring) : wiring \in Wirings(3, LongEnds)}
    \cup {Wired(Direct, wiring) : wiring \in Wirings(2, LongEnds)}
    \cup {WithoutC(Wired(Direct, wiring)) : wiring \in Wirings(2, Ends)}

ASSUME UniqueTells == \A graph \in Unique : NamesTell(graph) /\ PlainEnds(graph)

AnyNames == Unique \cup {Wired(SameName, wiring) : wiring \in Wirings(2, LongEnds)}
=============================================================================
