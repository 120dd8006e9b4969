------------------------------ MODULE Products ------------------------------
(***************************************************************************)
(* products.c: the Cartesian, tensor, lexicographic, strong and rooted     *)
(* product of two graphs.  All five first make the nodes, one for each     *)
(* pair of NODEs with copies of the gates of both, and then the edges,     *)
(* whose ends they look up by name.  The loops over the operands are       *)
(* sequences of cells and of calls; one step handles one of them.          *)
(***************************************************************************)
EXTENDS Graph, SequencesExt

CONSTANTS Operands,            \* the graphs a product is taken of
          Kinds,               \* "cart", "tens", "lex", "strong", "root"
          Roots,               \* the root names a definition gives
          Open, Comma, Close   \* the punctuation of the name "(x,y)"

(* Beyond adj[n_adj] the program reads what graph_add_node zeroed, up to the
   capacity of a list.  Operands are such that it reads no further. *)
AdjBlock == 8

ASSUME ProductsAssumption ==
  /\ \A h \in Operands : IsGraph(h) /\ \A i \in DOMAIN h : Len(h[i].adj) <= AdjBlock
  /\ \A h \in Operands : \A i \in DOMAIN h : h[i].type = "GATE" => h[i].name # <<>>
  /\ Kinds \subseteq {"cart", "tens", "lex", "strong", "root"}
  /\ {Open, Comma, Close} \subseteq Labels

VARIABLES g_a, g_b,    \* the operands
          kind, root,  \* which product, and the root of a rooted one
          g_prod,      \* the product under construction
          pc, todo,    \* the phase, and the cells or calls left in it
          res          \* the result of the call

vars == <<g_a, g_b, kind, root, g_prod, pc, todo, res>>

operands == <<g_a, g_b, kind, root>>

----------------------------------------------------------------------------
Pair(x, y) == <<<<Open, -1>>>> \o x \o <<<<Comma, -1>>>> \o y \o <<<<Close, -1>>>>

PairName(c) == Pair(g_a[c[1]].name, g_b[c[2]].name)

(* for (x in seq) Body(x), as the sequence of what the bodies yield. *)
ForEach(seq, Body(_)) == FlattenSeq([k \in DOMAIN seq |-> Body(seq[k])])

(* The same with "if (!Test(x)) continue" for a body. *)
Where(seq, Test(_)) == ForEach(seq, LAMBDA x : IF Test(x) THEN <<x>> ELSE <<>>)

NodeIds(h) == Where([i \in DOMAIN h |-> i], LAMBDA i : h[i].type = "NODE")

Cells ==
  ForEach(NodeIds(g_a), LAMBDA i : [j \in DOMAIN NodeIds(g_b) |-> <<i, NodeIds(g_b)[j]>>])

(* The entries of v's list that lead to nodes of that type. *)
Entries(h, v, type) == Where(h[v].adj, LAMBDA e : h[e.n].type = type)

----------------------------------------------------------------------------
(* graphs_cart_product_nodes: the pair, then the gates of either component,
   each added and connected to the pair by name. *)

AddGate(made, gate) ==
  LET full == made.name \o gate.name
      more == AddNode(made.graph, full, "GATE")
  IN  IF made.refused THEN made
      ELSE [graph   |-> AddEdgeName(more, made.name, full, gate.attrs),
            name    |-> made.name,
            refused |-> AddEdgeNameRefused(more, made.name, full)]

GatesOf(h, v) ==
  LET found == Entries(h, v, "GATE")
  IN  [k \in DOMAIN found |-> [name |-> h[found[k].n].name, attrs |-> found[k].attrs]]

CellGates(c) == GatesOf(g_a, c[1]) \o GatesOf(g_b, c[2])

(* Slip: only the first component's gates are copied. *)
CellWithGatesOfA(c) ==
  FoldLeft(AddGate,
           [graph |-> AddNode(g_prod, PairName(c), "NODE"), name |-> PairName(c), refused |-> FALSE],
           GatesOf(g_a, c[1]))

Cell(c) ==
  FoldLeft(AddGate,
           [graph |-> AddNode(g_prod, PairName(c), "NODE"), name |-> PairName(c), refused |-> FALSE],
           CellGates(c))

----------------------------------------------------------------------------
(* The edges each product asks for at cell c, in the order of its loops. *)

Call(c, i, j, attrs) == [from |-> PairName(c), to |-> PairName(<<i, j>>), attrs |-> attrs]

(* One component moves along an edge; where an operand's list is scanned for
   higher ids only, once for both ends. *)
MovesOfA(c, higher) ==
  LET es == Where(Entries(g_a, c[1], "NODE"), LAMBDA e : higher => e.n >= c[1])
  IN  [k \in DOMAIN es |-> Call(c, es[k].n, c[2], es[k].attrs)]

(* Slip: the neighbour is compared with the other component's id. *)
MovesOfBAgainstA(c, higher) ==
  LET es == Where(Entries(g_b, c[2], "NODE"), LAMBDA e : higher => e.n >= c[1])
  IN  [k \in DOMAIN es |-> Call(c, c[1], es[k].n, es[k].attrs)]

MovesOfB(c, higher) ==
  LET es == Where(Entries(g_b, c[2], "NODE"), LAMBDA e : higher => e.n >= c[2])
  IN  [k \in DOMAIN es |-> Call(c, c[1], es[k].n, es[k].attrs)]

(* adj[k] of node v, where k may run over another node's list. *)
EntryAt(h, v, k) == IF k \in DOMAIN h[v].adj THEN h[v].adj[k] ELSE [n |-> 1, attrs |-> NULL]

(* The entries of the first component that the tensor, strong and lexicographic
   products use.  The type tested for the second component is that of its own
   k-th neighbour, and not of the neighbour the edge will lead to. *)
Crossed(c) ==
  Where([k \in DOMAIN g_a[c[1]].adj |-> k],
        LAMBDA k : /\ g_a[g_a[c[1]].adj[k].n].type = "NODE"
                   /\ g_b[EntryAt(g_b, c[2], k).n].type = "NODE")

(* "a, b" when both are there. *)
JoinedAttrs(a, b) ==
  IF a # NULL /\ b # NULL THEN a \o b ELSE IF a # NULL THEN a ELSE b

(* Attrs has the joined attributes that operands can bring about. *)
ASSUME JoinAssumption ==
  \A h, m \in Operands : \A i \in DOMAIN h, j \in DOMAIN m :
    \A k \in DOMAIN h[i].adj, l \in DOMAIN m[j].adj :
      JoinedAttrs(h[i].adj[k].attrs, m[j].adj[l].attrs) \in EdgeAttrs

(* Slip: the tensor product passes on what the strong product does. *)
DiagonalsOfStrong(c) ==
  ForEach(Crossed(c), LAMBDA k :
    [l \in DOMAIN g_b[c[2]].adj |->
       Call(c, g_a[c[1]].adj[k].n, g_b[c[2]].adj[l].n, EntryAt(g_b, c[2], k).attrs)])

(* Both components move.  The tensor product joins the attributes of the two
   edges; the strong product joins them too, and then passes on the attribute
   of another edge, the k-th of the second component. *)
Diagonals(c) ==
  ForEach(Crossed(c), LAMBDA k :
    LET a == g_a[c[1]].adj[k]
    IN  [l \in DOMAIN g_b[c[2]].adj |->
           LET b == g_b[c[2]].adj[l]
           IN  Call(c, a.n, b.n, IF kind = "strong" THEN EntryAt(g_b, c[2], k).attrs
                                 ELSE JoinedAttrs(a.attrs, b.attrs))])

(* The first component moves and the second is any node, or gate, whatever. *)
Jumps(c) ==
  ForEach(Crossed(c), LAMBDA k :
    [l \in DOMAIN g_b |-> Call(c, g_a[c[1]].adj[k].n, l, EntryAt(g_b, c[2], k).attrs)])

RootId == FindNode(g_b, root)

RootCells == [i \in DOMAIN NodeIds(g_a) |-> <<NodeIds(g_a)[i], RootId>>]

Sides(c) == MovesOfA(c, TRUE) \o MovesOfB(c, TRUE)

Calls ==
  CASE kind = "cart"   -> ForEach(Cells, Sides)
    [] kind = "tens"   -> ForEach(Cells, Diagonals)
    [] kind = "lex"    -> ForEach(Cells, LAMBDA c : Jumps(c) \o MovesOfB(c, FALSE))
    [] kind = "strong" -> ForEach(Cells, Diagonals) \o ForEach(Cells, Sides)
    [] kind = "root"   -> ForEach(RootCells, LAMBDA c : MovesOfA(c, FALSE))
                            \o ForEach(Cells, LAMBDA c : MovesOfB(c, FALSE))

RootMissing == kind = "root" /\ \A v \in DOMAIN g_b : v = RootId => g_b[v].type # "NODE"

----------------------------------------------------------------------------
Init ==
  /\ g_a \in Operands
  /\ g_b \in Operands
  /\ kind \in Kinds
  /\ root \in IF kind = "root" THEN Roots ELSE {<<>>}
  /\ g_prod = EmptyGraph
  /\ pc = "nodes"
  /\ todo = Cells
  /\ res = "ok"

(* An error ends the making of the nodes, but the callers do not look at it. *)
AddCell ==
  /\ pc = "nodes"
  /\ todo # <<>>
  /\ LET made == Cell(Head(todo))
     IN  /\ g_prod' = made.graph
         /\ todo' = IF made.refused THEN <<>> ELSE Tail(todo)
  /\ UNCHANGED <<operands, pc, res>>

CellsDone ==
  /\ pc = "nodes"
  /\ todo = <<>>
  /\ ~RootMissing
  /\ todo' = Calls
  /\ pc' = "edges"
  /\ UNCHANGED <<operands, g_prod, res>>

NoRoot ==
  /\ pc = "nodes"
  /\ todo = <<>>
  /\ RootMissing
  /\ res' = "ROOT"
  /\ pc' = "done"
  /\ UNCHANGED <<operands, g_prod, todo>>

AddEdge ==
  /\ pc = "edges"
  /\ todo # <<>>
  /\ LET call == Head(todo)
     IN  /\ g_prod' = AddEdgeName(g_prod, call.from, call.to, call.attrs)
         /\ IF AddEdgeNameRefused(g_prod, call.from, call.to)
            THEN res' = "CONN" /\ pc' = "done"
            ELSE UNCHANGED <<res, pc>>
  /\ todo' = Tail(todo)
  /\ UNCHANGED operands

EdgesDone ==
  /\ pc = "edges"
  /\ todo = <<>>
  /\ pc' = "done"
  /\ UNCHANGED <<operands, g_prod, todo, res>>

Next == AddCell \/ CellsDone \/ NoRoot \/ AddEdge \/ EdgesDone

Spec == Init /\ [][Next]_vars

----------------------------------------------------------------------------
(* Type invariant. *)
TypeOK ==
  /\ {g_a, g_b} \subseteq Operands
  /\ IsGraph(g_prod)
  /\ pc \in {"nodes", "edges", "done"}
  /\ todo \in IF pc = "nodes" THEN Seq(Nat \X Nat)
             ELSE Seq([from : Names, to : Names, attrs : EdgeAttrs])
  /\ res \in {"ok", "ROOT", "CONN"}

(* What graph_insert takes for granted: edges in both lists, with the same
   attribute, none of them double or a loop, and nothing but NODEs and gates. *)
ProductIsSimple ==
  Simple(g_prod) /\ \A v \in DOMAIN g_prod : g_prod[v].type \in {"NODE", "GATE"}

AllNodes(h) == \A i \in DOMAIN h : h[i].type = "NODE"

CellSet == Range(Cells)

(* A pair is told by its name, from other pairs and from the gates of any. *)
NamesTell ==
  /\ \A c, d \in CellSet : PairName(c) = PairName(d) => c = d
  /\ \A c \in CellSet, d \in (DOMAIN g_a) \X (DOMAIN g_b) :
       \A gate \in Range(CellGates(c)) : PairName(c) \o gate.name # PairName(d)

(* Where the type of the wrong neighbour is never tested: in the products that
   do not test it, and when all that it can be is a NODE. *)
Sound ==
  /\ NamesTell
  /\ Simple(g_a) /\ Simple(g_b)
  /\ kind \in {"cart", "root"} \/ AllNodes(g_b)
  /\ ~RootMissing

(* The textbook definition of each product, on the NODEs of its operands. *)
Related(c, d) ==
  LET a     == AreAdjacent(g_a, c[1], d[1])
      b     == AreAdjacent(g_b, c[2], d[2])
      sides == (a /\ c[2] = d[2]) \/ (c[1] = d[1] /\ b)
  IN  CASE kind = "cart"   -> sides
        [] kind = "tens"   -> a /\ b
        [] kind = "lex"    -> a \/ (c[1] = d[1] /\ b)
        [] kind = "strong" -> sides \/ (a /\ b)
        [] kind = "root"   -> (a /\ c[2] = RootId /\ d[2] = RootId) \/ (c[1] = d[1] /\ b)

Made(c) == FindNode(g_prod, PairName(c))

(* The product has exactly the edges of its textbook definition, and taking it
   succeeds, gates or no gates; for the tensor, strong and lexicographic
   products this is claimed of a second operand without gates. *)
ProductIsTextbook ==
  pc = "done" /\ Sound =>
    /\ res = "ok"
    /\ \A c, d \in CellSet : AreAdjacent(g_prod, Made(c), Made(d)) <=> Related(c, d)

AttrOf(h, v, w) ==
  LET k == Min({l \in DOMAIN h[v].adj : h[v].adj[l].n = w}) IN h[v].adj[k].attrs

(* An edge carries the attribute of the edge it comes from, or the attributes
   of both, whichever of its ends it was added from.  (The lexicographic and
   strong products are not claimed: they take the attribute of another edge.) *)
AttrsFollow ==
  pc = "done" /\ Sound /\ kind \in {"cart", "tens", "root"} =>
    \A c, d \in CellSet : AreAdjacent(g_prod, Made(c), Made(d)) =>
      AttrOf(g_prod, Made(c), Made(d)) =
        IF c[2] = d[2] THEN AttrOf(g_a, c[1], d[1])
        ELSE IF c[1] = d[1] THEN AttrOf(g_b, c[2], d[2])
        ELSE JoinedAttrs(AttrOf(g_a, c[1], d[1]), AttrOf(g_b, c[2], d[2]))

(* Making the nodes never fails, though nobody would notice: there is a NODE for
   each pair, in the order of the operands, and its gates are those of its two
   components; an edge phase that fails takes none of it back. *)
PairsKeepTheirGates ==
  pc # "nodes" =>
    /\ LET made == NodeIds(g_prod)
       IN  [k \in DOMAIN made |-> g_prod[made[k]].name] =
             [k \in DOMAIN Cells |-> PairName(Cells[k])]
    /\ NamesTell =>
         \A c \in CellSet :
           {g_prod[x].name : x \in {y \in Neighbours(g_prod, Made(c)) : g_prod[y].type = "GATE"}} =
             {PairName(c) \o gate.name : gate \in Range(CellGates(c))}

(* graph_insert copies the product edge by edge, by name: every node that has
   an edge is the one that its name finds, so that none of its edges can be
   refused there or moved to another node. *)
FoundByName ==
  \A v \in DOMAIN g_prod : g_prod[v].adj # <<>> => FindNode(g_prod, g_prod[v].name) = v
=============================================================================
