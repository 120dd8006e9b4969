------------------------------- MODULE Chains -------------------------------
(***************************************************************************)
(* What a graph of nodes and gates means, independently of how compaction  *)
(* computes it: two NODEs are linked when they are neighbours or when a    *)
(* path of gates leads from one to the other.                              *)
(***************************************************************************)
EXTENDS Graph

Nodes(graph) == {v \in DOMAIN graph : graph[v].type = "NODE"}

Gates(graph) == {v \in DOMAIN graph : graph[v].type = "GATE"}

GatesAround(graph, S) == Gates(graph) \cap UNION {Neighbours(graph, v) : v \in S}

(* All gates on gate paths that begin at v. *)
ChainsFrom(graph, v) ==
  LET within[k \in 0..Len(graph)] ==
        IF k = 0 THEN GatesAround(graph, {v})
        ELSE LET nearer == within[k - 1] IN nearer \cup GatesAround(graph, nearer)
  IN  within[Len(graph)]

DirectLinks(graph) ==
  {{e[1], e[2]} : e \in {e \in Nodes(graph) \X Nodes(graph) : AreAdjacent(graph, e[1], e[2])}}

ChainLinks(graph) ==
  {{e[1], e[2]} : e \in
     {e \in Nodes(graph) \X Nodes(graph) :
        e[1] # e[2] /\ \E x \in ChainsFrom(graph, e[1]) : AreAdjacent(graph, x, e[2])}}

Links(graph) == DirectLinks(graph) \cup ChainLinks(graph)

LinkNames(graph) == {{graph[v].name : v \in link} : link \in DirectLinks(graph)}

GatesInUse(graph) == UNION {ChainsFrom(graph, v) : v \in Nodes(graph)}

(* A gate in use must not branch. *)
Branches(graph) == \E x \in GatesInUse(graph) : Len(graph[x].adj) > 2

(* A chain of two or more gates that leads from a NODE to nothing. *)
Dangles(graph) ==
  \E x \in GatesInUse(graph) :
     Len(graph[x].adj) = 1 /\ graph[graph[x].adj[1].n].type = "GATE"

(* A gate whose second entry is the NODE that its chain begins at, where the
   chain leads to no other NODE. *)
LeadsBack(graph) ==
  \E v \in Nodes(graph) : \E x \in ChainsFrom(graph, v) :
     /\ Len(graph[x].adj) = 2 /\ graph[x].adj[2].n = v
     /\ \A y \in {x} \cup ChainsFrom(graph, x) :
          Neighbours(graph, y) \cap Nodes(graph) \subseteq {v}

(* The attributes on the lists of the nodes in S. *)
AttrsOf(graph, S) ==
  UNION {{graph[v].adj[k].attrs : k \in DOMAIN graph[v].adj} : v \in S}

(* The gate chains that lead from v to w, each as its set of gates. *)
ChainsBetween(graph, v, w) ==
  {chain \in {{x} \cup ChainsFrom(graph, x) : x \in GatesAround(graph, {v})} :
     \E x \in chain : AreAdjacent(graph, x, w)}
=============================================================================
