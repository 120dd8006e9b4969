------------------------------- MODULE Output -------------------------------
(***************************************************************************)
(* What a program of Pipeline means, from its operations alone: the nodes, *)
(* their gates, and which nodes are linked.  Automatic gates, ids, marks   *)
(* and chains do not occur in it.  And what should be printed therefore.   *)
(***************************************************************************)
EXTENDS Pipeline

(* nodes and gates by name, each gate with its node; the gates that a connection
   has used; the links.  clean: no gate is used twice, no node is connected with
   itself, no name is given twice, and no product tests the wrong neighbour. *)
Nothing == [nodes |-> {}, gates |-> {}, used |-> {}, links |-> {}, clean |-> TRUE, fails |-> FALSE]

WithNode(m, name, gates) ==
  [m EXCEPT !.nodes = @ \cup {name},
            !.gates = @ \cup {<<Append(name, gates[k]), name>> : k \in DOMAIN gates},
            !.clean = @ /\ name \notin m.nodes]

OwnersOf(m, name) == (m.nodes \cap {name}) \cup {gate[2] : gate \in {x \in m.gates : x[1] = name}}

WithLink(m, from, to) ==
  LET ends == OwnersOf(m, from) \X OwnersOf(m, to)
  IN  [m EXCEPT !.links = @ \cup {{e[1], e[2]} : e \in ends},
                !.used = @ \cup ({from, to} \ m.nodes),
                !.clean = @ /\ {from, to} \cap m.used = {} /\ \A e \in ends : e[1] # e[2],
                !.fails = @ \/ ends = {}]

PairsOfList(shape, n) ==
  LET line == [k \in 1..n - 1 |-> <<k, k + 1>>]
  IN  CASE shape = "line" -> line
        [] shape = "ring" -> Append(line, <<1, n>>)
        [] shape = "alllist" -> SetToSeq({<<k, l>> \in (1..n) \X (1..n) : k < l})

(* What compaction leaves of a graph: the nodes that have neighbours, and the
   gates that nothing is connected to. *)
Kept(m) == UNION m.links \cup {gate[2] : gate \in m.gates}

FreeGates(m) == {gate \in m.gates : m.clean => gate[1] \notin m.used}

TextbookLink(type, at, a, b, c, d) ==
  LET first  == {c[1], d[1]} \in a.links /\ c[1] # d[1]
      second == {c[2], d[2]} \in b.links /\ c[2] # d[2]
      sides  == (first /\ c[2] = d[2]) \/ (c[1] = d[1] /\ second)
  IN  CASE type = "cart"   -> sides
        [] type = "tens"   -> first /\ second
        [] type = "lex"    -> first \/ (c[1] = d[1] /\ second)
        [] type = "strong" -> sides \/ (first /\ second)
        [] type = "root"   -> (first /\ c[2] = at /\ d[2] = at) \/ (c[1] = d[1] /\ second)

ProductOf(type, at, a, b) ==
  LET cells == Kept(a) \X Kept(b)
  IN  [nodes |-> {P!Pair(c[1], c[2]) : c \in cells},
       gates |-> {<<P!Pair(c[1], c[2]) \o gate[1], P!Pair(c[1], c[2])>> :
                    <<c, gate>> \in {x \in cells \X (FreeGates(a) \cup FreeGates(b)) :
                                       \/ x[2] \in FreeGates(a) /\ x[2][2] = x[1][1]
                                       \/ x[2] \in FreeGates(b) /\ x[2][2] = x[1][2]}},
       used  |-> {},
       links |-> {{P!Pair(e[1][1], e[1][2]), P!Pair(e[2][1], e[2][2])} :
                    e \in {x \in cells \X cells : TextbookLink(type, at, a, b, x[1], x[2])}},
       clean |-> a.clean /\ b.clean /\ (type \in {"cart", "root"} \/ FreeGates(b) = {}),
       fails |-> a.fails \/ b.fails \/ (type = "root" /\ at \notin Kept(b))]

Under(prefix, m) ==
  [m EXCEPT !.nodes = {prefix \o name : name \in @},
            !.gates = {<<prefix \o gate[1], prefix \o gate[2]>> : gate \in @},
            !.links = {{prefix \o name : name \in link} : link \in @}]

Together(m, n) ==
  [nodes |-> m.nodes \cup n.nodes, gates |-> m.gates \cup n.gates, used |-> m.used,
   links |-> m.links \cup n.links, clean |-> m.clean /\ n.clean /\ m.nodes \cap n.nodes = {},
   fails |-> m.fails \/ n.fails]

RECURSIVE MeaningOf(_, _)
MeaningOf(operations, stack) ==
  LET meaning(m, op) ==
        CASE op.op = "node" -> WithNode(m, stack \o op.name, op.gates)
          [] op.op = "link" -> WithLink(m, stack \o op.from, stack \o op.to)
          [] op.op = "list" ->
               FoldLeft(LAMBDA mm, e : WithLink(mm, stack \o op.names[e[1]], stack \o op.names[e[2]]),
                        m, PairsOfList(op.shape, Len(op.names)))
          [] op.op = "product" ->
               Together(m, Under(NameOfStack(stack \o op.under),
                                 ProductOf(op.kind, op.root, MeaningOf(op.a, <<>>),
                                           MeaningOf(op.b, <<>>))))
  IN  FoldLeft(meaning, Nothing, operations)

Meant == MeaningOf(program, <<<<Root, -1>>>>)

----------------------------------------------------------------------------
Prints == stage = "end" /\ result = "ok"

NodesPrinted == {c_new[v].name : v \in DotNodes(c_new, FALSE)}

LinksPrinted ==
  {{c_new[e[1]].name, c_new[c_new[e[1]].adj[e[2]].n].name} : e \in DotEdges(c_new, FALSE)}

(* The whole program prints the network that its definition means, each node
   and each link once: products of what the operands' gates come to, connected
   with the rest through gates, and nodes that are connected with nothing left
   out wherever a graph was compacted. *)
PrintsTheMeaning ==
  Prints /\ Meant.clean =>
    /\ NodesPrinted = Kept(Meant)
    /\ LinksPrinted = Meant.links
    /\ Cardinality(DotNodes(c_new, FALSE)) = Cardinality(NodesPrinted)
    /\ Cardinality(DotEdges(c_new, FALSE)) = Cardinality(LinksPrinted)

(* Whatever is wrong with an operand, and add_submodule does not look whether it
   could be compacted, links are lost by it and none is made up. *)
NothingMadeUp == Prints => LinksPrinted \subseteq Meant.links

(* The program ends with an error exactly if something is wrong with the
   definition, unless that is something only compaction could have told. *)
FailsWithCause ==
  stage = "end" => /\ result # "ok" => Meant.fails \/ ~Meant.clean
                   /\ result = "ok" => ~Meant.fails \/ ~Meant.clean
=============================================================================
