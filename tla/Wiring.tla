------------------------------- MODULE Wiring -------------------------------
(***************************************************************************)
(* How the expansion of a definition builds the graph (topologies.c): the  *)
(* nodes and gates of modules, product graphs that are inserted, and the   *)
(* connections, each of which reaches a NODE through an automatic gate     *)
(* made for it.  One operation runs at a time; an operation that loops is  *)
(* a job and takes one step per iteration.  The order of operations is     *)
(* free, because the nesting of modules, loops and conditions can produce  *)
(* any order.                                                              *)
(***************************************************************************)
EXTENDS AutoGates, SequencesExt

CONSTANTS Paths,      \* bound: the full names submodules are expanded under
          GateLists,  \* bound: the gate lists of the modules that are expanded
          Products,   \* bound: the product graphs that are inserted
          MaxNodes,   \* bound: no operation starts on a graph of this size
          MaxIds      \* bound: the number of nodes a line, ring or list names

(* What the expansion and products.c make: marks come later, or elsewhere. *)
PlainTypes(graph) == \A v \in DOMAIN graph : graph[v].type \in {"NODE", "GATE"}

ASSUME WiringAssumption ==
  /\ Paths \subseteq Names
  /\ \A list \in GateLists : list \in Seq(Parts)
  /\ \A prod \in Products : IsGraph(prod) /\ PlainTypes(prod)
  /\ MaxNodes \in Nat
  /\ MaxIds \in Nat

VARIABLES g,      \* the graph under construction
          job,    \* the operation that is running
          err,    \* "ok", or the error expansion stopped with
          asked   \* history: the pairs of ids that were connected

vars == <<g, job, err, asked>>

Idle == [kind |-> "idle"]

(* add_gate over the gates of a module; the gates of a compound module, the
   "ports", have no owner to be connected to. *)
GateJob == [kind : {"gates", "ports"}, path : Names, list : Seq(Parts), i : Nat]

(* The double loop of alllist and all-match and the single one of line, ring. *)
WireJob == [kind : {"alllist", "match", "line", "ring"}, ids : Seq(Nat \ {0}),
            i : Nat, j : Nat, attrs : EdgeAttrs]

(* graph_insert: first the nodes of the product, then its edges. *)
InsertJob == [kind : {"insert_nodes", "insert_edges"}, path : Names,
              prod : Products, i : Nat, j : Nat]

Init ==
  /\ g = EmptyGraph
  /\ job = Idle
  /\ err = "ok"
  /\ asked = {}

Start == err = "ok" /\ job = Idle /\ Len(g) < MaxNodes

----------------------------------------------------------------------------
(* Slip: what graph_add_edge_id says is not looked at. *)
LinkUnchecked(a, b, always, attrs) ==
  LET left  == End(g, a, always)
      right == End(left.graph, b, always)
  IN  /\ g' = AddEdgeId(right.graph, left.id, right.id, attrs)
      /\ err' = "ok"
      /\ asked' = asked \cup {<<a, b>>}

(* Connecting a and b: the gate of a, the gate of b, the edge between them. *)
Link(a, b, always, attrs) ==
  \E left \in {End(g, a, always)} : \E right \in {End(left.graph, b, always)} :
     /\ g' = AddEdgeId(right.graph, left.id, right.id, attrs)
     /\ IF EdgeRefused(right.graph, left.id, right.id)
        THEN err' = "CONN" /\ UNCHANGED asked
        ELSE err' = "ok" /\ asked' = asked \cup {<<a, b>>}

----------------------------------------------------------------------------
(* expand_module on a simple module: the NODE, then its gates. *)
ExpandSimple(path, list) ==
  /\ Start
  /\ g' = AddNode(g, path, "NODE")
  /\ job' = [kind |-> "gates", path |-> path, list |-> list, i |-> 1]
  /\ UNCHANGED <<err, asked>>

(* expand_module on a compound module: its own gates come first. *)
ExpandCompound(path, list) ==
  /\ Start
  /\ job' = [kind |-> "ports", path |-> path, list |-> list, i |-> 1]
  /\ UNCHANGED <<g, err, asked>>

(* One iteration of the loop over the gates: for a simple module the new gate
   and the module's node are connected by name. *)
GateStep ==
  /\ err = "ok"
  /\ job.kind \in {"gates", "ports"}
  /\ job.i <= Len(job.list)
  /\ LET name == Append(job.path, job.list[job.i])
         more == AddNode(g, name, "GATE")
     IN  IF job.kind = "ports"
         THEN g' = more /\ UNCHANGED err
         ELSE /\ g' = AddEdgeName(more, name, job.path, NULL)
              /\ err' = IF AddEdgeNameRefused(more, name, job.path) THEN "CONN" ELSE "ok"
  /\ job' = [job EXCEPT !.i = @ + 1]
  /\ UNCHANGED asked

----------------------------------------------------------------------------
(* graph_insert of a product graph under the path of the enclosing module. *)
InsertProduct(path, prod) ==
  /\ Start
  /\ job' = [kind |-> "insert_nodes", path |-> path, prod |-> prod, i |-> 1, j |-> 1]
  /\ UNCHANGED <<g, err, asked>>

InsertNode ==
  /\ err = "ok"
  /\ job.kind = "insert_nodes"
  /\ IF job.i <= Len(job.prod)
     THEN /\ g' = AddNode(g, job.path \o job.prod[job.i].name, job.prod[job.i].type)
          /\ job' = [job EXCEPT !.i = @ + 1]
     ELSE job' = [job EXCEPT !.kind = "insert_edges", !.i = 1] /\ UNCHANGED g
  /\ UNCHANGED <<err, asked>>

(* Each product edge is added by the names of its ends, from its higher end. *)
InsertEdge ==
  /\ err = "ok"
  /\ job.kind = "insert_edges"
  /\ job.i <= Len(job.prod)
  /\ IF job.j <= Len(job.prod[job.i].adj)
     THEN LET edge == job.prod[job.i].adj[job.j]
              from == job.path \o job.prod[job.i].name
              to   == job.path \o job.prod[edge.n].name
          IN  /\ job' = [job EXCEPT !.j = @ + 1]
              /\ IF job.i < edge.n
                 THEN UNCHANGED <<g, err>>
                 ELSE /\ g' = AddEdgeName(g, from, to, edge.attrs)
                      /\ err' = IF AddEdgeNameRefused(g, from, to) THEN "CONN" ELSE "ok"
     ELSE job' = [job EXCEPT !.i = @ + 1, !.j = 1] /\ UNCHANGED <<g, err>>
  /\ UNCHANGED asked

----------------------------------------------------------------------------
(* graph_eval_and_add_edge: both names are looked up before anything changes. *)
ConnectPlain(from, to, attrs) ==
  /\ Start
  /\ LET a == FindNode(g, from)
         b == FindNode(g, to)
     IN  IF a = 0 \/ b = 0
         THEN err' = "CONN" /\ UNCHANGED <<g, asked>>
         ELSE Link(a, b, FALSE, attrs)
  /\ UNCHANGED job

(* Slip: a name that is not found is not reported. *)
ConnectNamedUnchecked(shape, named, attrs) ==
  /\ Start
  /\ job' = [kind |-> shape, ids |-> [k \in DOMAIN named |-> FindNode(g, named[k])],
             j |-> 1, attrs |-> attrs, i |-> IF shape = "alllist" THEN 2 ELSE 1]
  /\ UNCHANGED <<g, err, asked>>

(* The ids of the nodes a line, ring or alllist names are looked up first, and
   stay in nodes_to_connect while the loop below adds nodes to the graph. *)
ConnectNamed(shape, named, attrs) ==
  /\ Start
  /\ LET ids == [k \in DOMAIN named |-> FindNode(g, named[k])]
     IN  IF \E k \in DOMAIN ids : ids[k] = 0
         THEN err' = "NODE" /\ UNCHANGED job
         ELSE /\ job' = [kind |-> shape, ids |-> ids, j |-> 1, attrs |-> attrs,
                         i |-> IF shape = "alllist" THEN 2 ELSE 1]
              /\ UNCHANGED err
  /\ UNCHANGED <<g, asked>>

(* The k-th of a set of ids, in ascending order. *)
InOrder(ids) ==
  [k \in 1..Cardinality(ids) |-> CHOOSE v \in ids : Cardinality({w \in ids : w < v}) = k - 1]

(* all-match: the live nodes whose name the pattern matches, in id order.  A
   pattern is the set of names it matches. *)
ConnectMatching(pattern, attrs) ==
  /\ Start
  /\ LET matched == {v \in DOMAIN g : g[v].name \in pattern /\ Live(g[v])}
     IN  job' = [kind |-> "match", ids |-> InOrder(matched), i |-> 2, j |-> 1, attrs |-> attrs]
  /\ UNCHANGED <<g, err, asked>>

Double == job.kind \in {"alllist", "match"}

LastPair == IF job.kind = "line" THEN Len(job.ids) - 1 ELSE Len(job.ids)

(* The iteration's two ends; the last one of a ring closes it. *)
PairInHand ==
  IF Double THEN <<job.ids[job.i], job.ids[job.j]>>
  ELSE IF job.i < Len(job.ids) THEN <<job.ids[job.i], job.ids[job.i + 1]>>
  ELSE <<job.ids[1], job.ids[Len(job.ids)]>>

WireStep ==
  /\ err = "ok"
  /\ job.kind \in {"alllist", "match", "line", "ring"}
  /\ job.i <= LastPair
  /\ Link(PairInHand[1], PairInHand[2], job.kind # "match", job.attrs)
  /\ job' = IF Double /\ job.j < job.i - 1
            THEN [job EXCEPT !.j = @ + 1]
            ELSE [job EXCEPT !.i = @ + 1, !.j = 1]

(* A ring over an empty range passes the "start > end" test and then reads
   nodes_to_connect[0] and [-1] of an empty array: a crash, or any two ids. *)
EmptyRing ==
  /\ err = "ok"
  /\ job.kind = "ring"
  /\ job.ids = <<>>
  /\ job.i = 1
  /\ job' = [job EXCEPT !.i = 2]
  /\ \/ err' = "crash" /\ UNCHANGED <<g, asked>>
     \/ \E a, b \in DOMAIN g : Link(a, b, TRUE, job.attrs)

(* The loop of the running operation ends. *)
JobDone ==
  /\ err = "ok"
  /\ \/ job.kind \in {"gates", "ports"} /\ job.i > Len(job.list)
     \/ job.kind = "insert_edges" /\ job.i > Len(job.prod)
     \/ job.kind \in {"alllist", "match", "line"} /\ job.i > LastPair
     \/ job.kind = "ring" /\ job.i > LastPair /\ (job.ids = <<>> => job.i = 2)
  /\ job' = Idle
  /\ UNCHANGED <<g, err, asked>>

----------------------------------------------------------------------------
Nameable == Taken(g) \cup Paths

Lists == UNION {[1..k -> Nameable] : k \in 0..MaxIds}

Next ==
  \/ \E path \in Paths, list \in GateLists :
       ExpandSimple(path, list) \/ ExpandCompound(path, list)
  \/ \E path \in Paths, prod \in Products : InsertProduct(path, prod)
  \/ \E from, to \in Nameable, attrs \in EdgeAttrs : ConnectPlain(from, to, attrs)
  \/ \E shape \in {"alllist", "line", "ring"}, named \in Lists, attrs \in EdgeAttrs :
       ConnectNamed(shape, named, attrs)
  \/ \E pattern \in SUBSET Taken(g), attrs \in EdgeAttrs : ConnectMatching(pattern, attrs)
  \/ GateStep
  \/ InsertNode
  \/ InsertEdge
  \/ WireStep
  \/ EmptyRing
  \/ JobDone

Spec == Init /\ [][Next]_vars

----------------------------------------------------------------------------
(* The loops of the running operation read inside their arrays, the ids kept in
   nodes_to_connect are valid, and those of an all-match are different. *)
JobInRange ==
  /\ job # Idle => job.i >= 1
  /\ job \in InsertJob => job.j >= 1
  /\ job \in WireJob =>
       /\ \A k \in DOMAIN job.ids : job.ids[k] \in DOMAIN g
       /\ Double => job.j \in 1..(job.i - 1)
       /\ job.kind = "match" => IsInjective(job.ids)

(* Type invariant: every adjacency entry names an existing node, and the running
   operation stays in range while the graph it adds to grows. *)
TypeOK ==
  /\ IsGraph(g)
  /\ job \in {Idle} \cup GateJob \cup WireJob \cup InsertJob
  /\ JobInRange
  /\ err \in {"ok", "CONN", "NODE", "crash"}
  /\ asked \subseteq (DOMAIN g) \X (DOMAIN g)

(* graph_add_edge_id tests one list for a duplicate and appends to two: the
   lists of the two ends never disagree, no pair is adjacent twice, and no
   node is its own neighbour. *)
GraphIsSimple == Simple(g)

(* An edge between nodes of these names is one of a product. *)
FromProduct(one, other) ==
  \E path \in Paths, prod \in Products : \E p \in DOMAIN prod : \E q \in Neighbours(prod, p) :
     one = path \o prod[p].name /\ other = path \o prod[q].name

(* NODEs are connected through gates: two NODEs are neighbours only where a
   product that was inserted has that edge. *)
NodesMeetThroughGates ==
  \A i \in DOMAIN g : \A k \in Neighbours(g, i) :
     g[i].type = "NODE" /\ g[k].type = "NODE" => FromProduct(g[i].name, g[k].name)

(* The names a definition gives, to NODEs and to gates. *)
NodeName(name) ==
  \/ name \in Paths
  \/ \E path \in Paths, prod \in Products : \E p \in DOMAIN prod :
       prod[p].type = "NODE" /\ name = path \o prod[p].name

GateName(name) ==
  \/ \E path \in Paths, list \in GateLists : \E k \in DOMAIN list : name = Append(path, list[k])
  \/ \E path \in Paths, prod \in Products : \E p \in DOMAIN prod :
       prod[p].type = "GATE" /\ name = path \o prod[p].name

(* No gate that a simple module declares has the name of a NODE, which the
   module's own node would be connected to instead. *)
NamesApart ==
  \A path \in Paths, list \in GateLists : \A k \in DOMAIN list : ~NodeName(Append(path, list[k]))

(* The automatic gates an operation made are its own: what a definition does not
   name is found by its name, which nothing else has, and the first neighbour of
   each is the node it was made for.  (A definition may itself declare a gate
   called "_auto".) *)
AutoGatesOwned ==
  \A i \in DOMAIN g : ~NodeName(g[i].name) /\ ~GateName(g[i].name) =>
     /\ \A k \in DOMAIN g : g[k].name = g[i].name => k = i
     /\ g[i].adj # <<>>
     /\ \E m \in 0..Len(g) : g[i].name = AutoName(g[g[i].adj[1].n].name, m)

(* A pair that was connected stays connected: some gate of the one (the one
   itself when it is a gate) is a neighbour of some gate of the other. *)
GatesOf(v) ==
  {x \in Neighbours(g, v) \cup {v} : g[x].type = "GATE"}

AskedIsConnected ==
  \A pair \in asked : \E x \in GatesOf(pair[1]), y \in GatesOf(pair[2]) :
     AreAdjacent(g, x, y)

(* Expansion only adds: a node keeps its id, name and type, and its adjacency
   list is only appended to. *)
OnlyAdds ==
  [][Grown(g, g') /\ \A i \in DOMAIN g : g'[i].type = g[i].type]_vars

(* The edge of an alllist, line, ring or all-match is never refused, whatever
   nodes it names and however often: its two gates are different. *)
ListsNeverRefused ==
  [][(job \in WireJob) => err' # "CONN"]_vars
=============================================================================
