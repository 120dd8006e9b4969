------------------------- MODULE CompactRefinement -------------------------
(***************************************************************************)
(* The loops of Compact implement the promise of Bridge.  The links found  *)
(* so far are the edges between NODEs in the caller's graph.               *)
(***************************************************************************)
EXTENDS Compact, Chains

B == INSTANCE Bridge
       WITH linked  <- DirectLinks(g),
            outcome <- CASE pc = "done" -> "ok" [] pc = "failed" -> "failed"
                         [] OTHER -> "running",
            result  <- IF pc = "done" THEN LinkNames(new_g) ELSE {}

(* topologies_graph_compact links exactly the NODEs its input links, by gates
   or directly, returns them under their names, and fails only on a gate that
   branches or a chain that leads nowhere, or back to where it began. *)
ImplementsBridge == B!Spec

(* The copy looks nodes up by name: no NODE that has neighbours shares its name
   with another node that has. *)
NamesTell(graph) ==
  \A v \in Nodes(graph) : \A w \in DOMAIN graph :
    graph[v].adj # <<>> /\ graph[w].adj # <<>> /\ graph[v].name = graph[w].name => v = w

(* A gate of a NODE is tied to it by an edge without an attribute. *)
PlainEnds(graph) ==
  \A v \in Nodes(graph) : \A k \in DOMAIN graph[v].adj :
    graph[v].adj[k].n \in Gates(graph) => graph[v].adj[k].attrs = NULL

(* The attribute of an edge between two NODEs of the result is that of the edge
   in the input between NODEs of their names; or, where gates linked them, one
   that a chain between them carries, and none only if some chain carries none. *)
ChainAttrs(chain) ==
  LET found == AttrsOf(input, chain) \ {NULL} IN IF found = {} THEN {NULL} ELSE found

ExpectedAttrs(x, y) ==
  IF AreAdjacent(input, x, y)
  THEN {input[x].adj[k].attrs : k \in {k \in DOMAIN input[x].adj : input[x].adj[k].n = y}}
  ELSE UNION {ChainAttrs(chain) : chain \in ChainsBetween(input, x, y)}

AttrsComeFromTheChain ==
  pc = "done" =>
    \A v \in Nodes(new_g) : \A k \in DOMAIN new_g[v].adj :
      LET w == new_g[v].adj[k].n
      IN  new_g[w].type = "NODE" =>
            \E x, y \in Nodes(input) :
               /\ input[x].name = new_g[v].name /\ input[y].name = new_g[w].name
               /\ new_g[v].adj[k].attrs \in ExpectedAttrs(x, y)

(* The DOT text of the result (topologies_graph_print without gates) has one
   edge for each link of the input, under the names of its ends, and no other:
   nothing is written twice, lost between a gate and a NODE, or unreadable
   because one of the two lists of an edge lacks it. *)
DotOutputIsTheLinks ==
  pc = "done" =>
    LET edges    == DotEdges(new_g, FALSE)
        names(e) == {new_g[e[1]].name, new_g[new_g[e[1]].adj[e[2]].n].name}
    IN  /\ {names(e) : e \in edges} = {{input[v].name : v \in link} : link \in Links(input)}
        /\ Cardinality(edges) = Cardinality(Links(input))
=============================================================================
