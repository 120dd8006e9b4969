----------------------------- MODULE AutoGates -----------------------------
(***************************************************************************)
(* The gates that topologies.c makes for itself when a connection names a  *)
(* node: "<owner>._auto[k]", with the first k that is free.                *)
(***************************************************************************)
EXTENDS Graph

CONSTANT AutoLabel   \* the label "_auto"

ASSUME AutoAssumption == AutoLabel \in Labels

AutoName(owner, k) == Append(owner, <<AutoLabel, k>>)

Taken(graph) == {graph[i].name : i \in DOMAIN graph}

(* Slip: always "_auto[0]". *)
FirstAutoName(graph, owner) == AutoName(owner, 0)

(* The first "_auto[k]" under the owner's name that no node has, live or not. *)
FreeAutoName(graph, owner) ==
  AutoName(owner, Min({k \in 0..Len(graph) : AutoName(owner, k) \notin Taken(graph)}))

(* add_auto_gate and add_auto_gate_full_name: the gate is appended, looked up
   by its name and connected to the owner, whose list gets the edge first. *)
WithAutoGate(graph, owner) ==
  LET name == FreeAutoName(graph, graph[owner].name)
      more == AddNode(graph, name, "GATE")
  IN  AddEdgeId(more, owner, FindNode(more, name), NULL)

AutoGateId(graph, owner) ==
  FindNode(WithAutoGate(graph, owner), FreeAutoName(graph, graph[owner].name))

(* Slips: a NODE gets no gate in a plain connection; a gate gets none ever. *)
NeedsAutoInLists(graph, v, always) == always

NeedsAutoIfNode(graph, v, always) == graph[v].type = "NODE"

(* alllist, line and ring give every end an automatic gate; a plain connection
   and an all-match give one to a NODE and use a gate as it is. *)
NeedsAuto(graph, v, always) == always \/ graph[v].type = "NODE"

End(graph, v, always) ==
  IF NeedsAuto(graph, v, always)
  THEN [graph |-> WithAutoGate(graph, v), id |-> AutoGateId(graph, v)]
  ELSE [graph |-> graph, id |-> v]
=============================================================================
