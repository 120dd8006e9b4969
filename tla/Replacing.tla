----------------------------- MODULE Replacing -----------------------------
(***************************************************************************)
(* What a replacement should do to the connections of the network, stated  *)
(* about the expansion with do_replace in its place.                       *)
(***************************************************************************)
EXTENDS Expand

LiveNodes(graph) == {v \in DOMAIN graph : Live(graph[v])}

(* The live node that v's edges belong to after the handing over, or 0. *)
Successor(graph, v) ==
  IF graph[v].type = "REPLACED_T" THEN FindNode(graph, graph[v].name) ELSE v

Between(graph, v, w) ==
  {graph[v].adj[k].attrs : k \in {k \in DOMAIN graph[v].adj : graph[v].adj[k].n = w}}

HandingEnds == job.kind = "handover" /\ job.node = 0 /\ job.i > Len(g)

(* Handing over merges every replaced node with its successor: two live nodes
   are neighbours afterwards exactly if they, or nodes they succeed, were
   before, and by an edge with an attribute that such an edge had.  Nothing is
   lost to the order in which the nodes are dealt with, and nothing made up;
   two nodes of one name that were connected make their successor its own
   neighbour. *)
HandingOverMerges ==
  HandingEnds =>
    LET old == job.before
        merged(a) == {v \in DOMAIN old : Successor(old, v) = a}
    IN  \A a, b \in LiveNodes(g) :
          LET found == UNION {Between(old, pair[1], pair[2]) : pair \in merged(a) \X merged(b)}
          IN  /\ AreAdjacent(g, a, b) <=> found # {}
              /\ Between(g, a, b) \subseteq found

(* A node that has handed over everything. *)
Gone(node) == node.type = "REPLACED" /\ node.name = <<>>

NoneStale(graph) ==
  \A v \in DOMAIN graph : \A w \in Neighbours(graph, v) : Gone(graph[w]) => Gone(graph[v])

(* A node that is there leads to one that has handed over only if a list named
   a neighbour twice before, of two such entries the first alone is turned, or
   if there was such an entry already.  Otherwise a live node has as many
   entries for another node as there were edges that are merged into this one,
   at most. *)
NothingStale ==
  HandingEnds /\ NoParallel(job.before) /\ NoneStale(job.before) =>
    /\ NoneStale(g)
    /\ \A a \in LiveNodes(g) : \A b \in Neighbours(g, a) :
         LET old == job.before
             merged(c) == {v \in DOMAIN old : Successor(old, v) = c}
         IN  Cardinality({k \in DOMAIN g[a].adj : g[a].adj[k].n = b}) <=
               Cardinality({pair \in merged(a) \X (merged(b) \cup {b}) :
                              AreAdjacent(old, pair[1], pair[2])})

(* Outside the handing over, two live nodes are neighbours from both sides or
   not at all, although do_replace edits the two lists of an edge by different
   rules and later connections look at one of them only. *)
LiveListsAgree ==
  job = Idle =>
    \A a \in LiveNodes(g) : \A b \in Neighbours(g, a) \cap LiveNodes(g) :
       AreAdjacent(g, b, a)

(* x is named as a part of v, as a gate of v is. *)
PartOf(v, x) == g[x].name # <<>> /\ g[x].name = Append(g[v].name, Last(g[x].name))

(* Where an edge that was asked of v is: at v itself, also if a node has taken
   the place of a gate, or at a gate of v. *)
EndsOf(v) == {v} \cup {x \in Neighbours(g, v) : Live(g[x]) /\ PartOf(v, x)}

Lost(v) == \E x \in DOMAIN g : ~Live(g[x]) /\ PartOf(v, x)

(* Between the calls of do_replace, what connections asked for is there, also
   where one of the two nodes, or both, have been replaced since; unless a gate
   of one of them was taken away and has no successor, or none yet. *)
AskedSurvives ==
  job = Idle =>
    \A pair \in asked : Live(g[pair[1]]) /\ Live(g[pair[2]]) =>
       \/ \E x \in EndsOf(pair[1]), y \in EndsOf(pair[2]) : AreAdjacent(g, x, y)
       \/ Lost(pair[1]) \/ Lost(pair[2])
=============================================================================
