------------------------------ MODULE Replace ------------------------------
(***************************************************************************)
(* What do_replace (topologies.c) does to the graph, beyond the expansion  *)
(* of the submodule it puts in: the nodes to be replaced are marked; when  *)
(* the submodule is there, each of them hands its edges to the new node of *)
(* its name.  The handing over is a job like those of Wiring, one entry of *)
(* one list at a time, for it edits lists it is looping over.              *)
(***************************************************************************)
EXTENDS Wiring

(* i is the marked node and j its entry in hand; node is the new node of its
   name, 0 between two nodes.  before is history: the graph at the beginning. *)
HandOverJob == [kind : {"handover"}, i : Nat \ {0}, j : Nat \ {0}, node : Nat,
                before : Seq(Node)]

(* Slip: gates are passed over. *)
MarkNodes(names) ==
  /\ Start
  /\ g' = [v \in DOMAIN g |-> IF g[v].name \in names /\ g[v].type = "NODE"
                             THEN [g[v] EXCEPT !.type = "REPLACED_T"] ELSE g[v]]
  /\ UNCHANGED <<job, err, asked>>

(* The nodes and gates of these names are no longer found.  A node that an
   earlier replacement has left without a successor is marked again. *)
Mark(names) ==
  /\ Start
  /\ g' = [v \in DOMAIN g |-> IF g[v].name \in names
                             THEN [g[v] EXCEPT !.type = "REPLACED_T"] ELSE g[v]]
  /\ UNCHANGED <<job, err, asked>>

HandOver ==
  /\ Start
  /\ job' = [kind |-> "handover", i |-> 1, j |-> 1, node |-> 0, before |-> g]
  /\ UNCHANGED <<g, err, asked>>

----------------------------------------------------------------------------
Handing == err = "ok" /\ job.kind = "handover"

(* The loop over all nodes, those also that an enclosing do_replace has marked.
   A node whose name nobody has taken up is gone, but not from any list. *)
NextMarked ==
  /\ Handing /\ job.node = 0 /\ job.i <= Len(g)
  /\ LET new == FindNode(g, g[job.i].name)
     IN  IF g[job.i].type = "REPLACED_T" /\ new # 0
         THEN job' = [job EXCEPT !.node = new, !.j = 1] /\ UNCHANGED g
         ELSE /\ job' = [job EXCEPT !.i = @ + 1]
              /\ g' = IF g[job.i].type = "REPLACED_T"
                      THEN [g EXCEPT ![job.i].type = "REPLACED"] ELSE g
  /\ UNCHANGED <<err, asked>>

(* Slip: the last entry is left out. *)
AllButLast == Len(g[job.i].adj) - 1

EntriesToHand == Len(g[job.i].adj)

(* Slip: the neighbour's list is left alone. *)
NotRedirected(graph, v, old, new) == graph

(* The first entry for old in v's list becomes one for new. *)
Redirected(graph, v, old, new) ==
  LET hits == {k \in DOMAIN graph[v].adj : graph[v].adj[k].n = old}
  IN  IF hits = {} THEN graph ELSE [graph EXCEPT ![v].adj[Min(hits)].n = new]

(* Slip: the new node's list is left alone. *)
NotTaken(graph, new, edge) == graph

(* An entry that the new node does not have yet is appended to its list. *)
TakesOver(graph, new, edge) ==
  IF AreAdjacent(graph, new, edge.n) THEN graph ELSE AddHalf(graph, new, edge.n, edge.attrs)

HandEntry ==
  /\ Handing /\ job.node # 0 /\ job.j <= EntriesToHand
  /\ LET turned == Redirected(g, g[job.i].adj[job.j].n, job.i, job.node)
     IN  g' = TakesOver(turned, job.node, turned[job.i].adj[job.j])
  /\ job' = [job EXCEPT !.j = @ + 1]
  /\ UNCHANGED <<err, asked>>

(* The node that has handed over everything loses name and list.  What was
   asked of it is now asked of its successor. *)
NodeHanded ==
  /\ Handing /\ job.node # 0 /\ job.j > EntriesToHand
  /\ g' = [g EXCEPT ![job.i] = [name |-> <<>>, type |-> "REPLACED", adj |-> <<>>]]
  /\ LET now(v) == IF v = job.i THEN job.node ELSE v
     IN  asked' = {<<now(pair[1]), now(pair[2])>> : pair \in asked}
  /\ job' = [job EXCEPT !.i = @ + 1, !.node = 0]
  /\ UNCHANGED err

HandOverDone ==
  /\ Handing /\ job.node = 0 /\ job.i > Len(g)
  /\ job' = Idle
  /\ UNCHANGED <<g, err, asked>>

HandOverStep == NextMarked \/ HandEntry \/ NodeHanded \/ HandOverDone
=============================================================================
