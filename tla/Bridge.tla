------------------------------- MODULE Bridge -------------------------------
(***************************************************************************)
(* What topologies_graph_compact promises its callers: links are found in  *)
(* any order, nothing but links is found, and the call ends either with    *)
(* exactly the links of its input as edges between the nodes of the same   *)
(* names, or with an error, and that only when some gate in use branches,  *)
(* a chain of gates leads nowhere, or one leads back to where it began     *)
(* (which it may do without an error: that depends on the order of the     *)
(* lists).                                                                 *)
(***************************************************************************)
EXTENDS Chains

VARIABLES input,    \* the graph of the call
          linked,   \* the links found so far
          outcome,  \* "running", "ok" or "failed"
          result    \* the edges of the graph returned, by the names of their ends

vars == <<input, linked, outcome, result>>

Troubled == Branches(input) \/ Dangles(input)

Init ==
  /\ IsGraph(input)
  /\ linked = DirectLinks(input)
  /\ outcome = "running"
  /\ result = {}

Discover ==
  /\ outcome = "running"
  /\ \E link \in Links(input) \ linked : linked' = linked \cup {link}
  /\ UNCHANGED <<input, outcome, result>>

Succeed ==
  /\ outcome = "running"
  /\ ~Troubled
  /\ linked = Links(input)
  /\ outcome' = "ok"
  /\ result' = {{input[v].name : v \in link} : link \in Links(input)}
  /\ UNCHANGED <<input, linked>>

Fail ==
  /\ outcome = "running"
  /\ Troubled \/ LeadsBack(input)
  /\ outcome' = "failed"
  /\ UNCHANGED <<input, linked, result>>

Next == Discover \/ Succeed \/ Fail

Spec == Init /\ [][Next]_vars
=============================================================================
