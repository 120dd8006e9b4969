------------------------------ MODULE MCExpand ------------------------------
(***************************************************************************)
(* Small definitions: a tree that recurs with a decreasing parameter (as   *)
(* config_gft.json does), rows of nodes connected as list, line and ring   *)
(* over every small range, parameters that shadow and that hide others,    *)
(* and one definition for each way an expansion can fail.                  *)
(***************************************************************************)
EXTENDS Meaning

C(val) == [var |-> NoVar, plus |-> val]
V(x) == [var |-> x, plus |-> 0]
Plus(x, val) == [var |-> x, plus |-> val]

MCLabels == {"n", "x", "xy", "prev", "p", "q", "_auto"}

MCVars == {"h", "k", "lo", "hi", "i", "in", "index", "z"}

MCBegins ==
  {<<s, s>> : s \in MCLabels \cup MCVars} \cup {<<"x", "xy">>, <<"i", "in">>, <<"i", "index">>}

LinkConn(from, to) == [kind |-> "link", from |-> from, to |-> to, attrs |-> NULL]
Loop(x, end, conn) ==
  [kind |-> "loop", var |-> x, start |-> C(0), end |-> end, conn |-> conn]
If(test, then, else) == [kind |-> "if", test |-> test, then |-> then, else |-> else]
List(shape, start, end, nodes) ==
  [kind |-> shape, var |-> "i", start |-> start, end |-> end, nodes |-> nodes, attrs |-> NULL]
Match(labels) == [kind |-> "match", nodes |-> labels, attrs |-> NULL]

Sub(name, module, size, raw) ==
  [kind |-> "plain", name |-> name, module |-> module, size |-> size, params |-> raw]
Cond(test, then, else) == [kind |-> "cond", test |-> test, then |-> then, else |-> else]
Par(x, e) == [name |-> x, value |-> e]
Gate(name, size) == [name |-> name, size |-> size]

SimpleModule(name, gates) ==
  [kind |-> "simple", name |-> name, params |-> <<>>, gates |-> gates,
   subs |-> <<>>, conns |-> <<>>, replace |-> <<>>]
CompoundModule(name, raw, gates, subs, conns) ==
  [kind |-> "compound", name |-> name, params |-> raw, gates |-> gates,
   subs |-> subs, conns |-> conns, replace |-> <<>>]
Net(module, raw, modules) ==
  [kind |-> "network", module |-> module, params |-> raw, modules |-> modules]

Leaf == SimpleModule("leaf", <<>>)
Ported == SimpleModule("ported", <<Gate("p", C(0)), Gate("q", C(2))>>)

(* The recursion of config_gft.json. *)
TreeSub == Sub("prev", "tree", V("k"), <<Par("h", Plus("h", -1))>>)
TreeNode == Sub("x", "leaf", None, <<>>)
TreeCond == Cond(V("h"), TreeSub, None)
TreeLink == LinkConn(<<<<"prev", V("i")>>, <<"x", None>>>>, <<<<"x", None>>>>)
TreeLoop == Loop("i", V("k"), TreeLink)
TreeConn == If(V("h"), TreeLoop, None)
Tree == CompoundModule("tree", <<>>, <<>>, <<TreeNode, TreeCond>>, <<TreeConn>>)
Trees == {Net("tree", <<Par("h", C(hh)), Par("k", C(kk))>>, <<Leaf, Tree>>) :
            hh \in 0..2, kk \in -1..2}

(* A vector of k nodes, connected in a shape between lo and hi. *)
RowSub == Sub("x", "leaf", V("k"), <<>>)
RowConn(shape) == List(shape, V("lo"), V("hi"), <<<<"x", V("i")>>>>)
Row(shape) == CompoundModule("row", <<>>, <<>>, <<RowSub>>, <<RowConn(shape)>>)
Rows == {Net("row", <<Par("k", C(kk)), Par("lo", C(from)), Par("hi", C(to))>>,
             <<Leaf, Row(shape)>>) :
           kk \in {1, 3}, from \in -1..1, to \in 0..3, shape \in {"alllist", "line", "ring"}}

(* A module whose own parameter replaces the one its submodule is given. *)
ShadowSub == Sub("x", "shadow", C(2), <<Par("k", C(1)), Par("z", V("k"))>>)
Shadow == CompoundModule("shadow", <<Par("k", Plus("z", 1))>>, <<Gate("p", V("k"))>>, <<>>, <<>>)
Shadows == {Net("top", <<Par("k", C(0))>>,
                <<Shadow, CompoundModule("top", <<>>, <<Gate("q", V("k"))>>, <<ShadowSub>>, <<>>)>>)}

(* Parameters whose name begins that of the index, or of a loop's variable. *)
HiddenUser(x) == SimpleModule("user", <<Gate("q", C(0)), Gate("p", V(x))>>)
HiddenSub(size) == Sub("x", "user", size, <<>>)
Hiding == {Net("top", <<Par(x, C(1)), Par("z", V(x))>>,
               <<HiddenUser(x), CompoundModule("top", <<>>, <<>>, <<HiddenSub(size)>>, <<>>)>>) :
             x \in {"i", "in", "h"}, size \in {None, C(1), V("k")}}
HidingList == List("line", C(0), C(1), <<<<"x", V("h")>>>>)

(* Single connections in a module with a node, a node with gates, and a gate. *)
PlainSubs == <<Sub("x", "ported", None, <<>>), Sub("xy", "ported", C(2), <<>>)>>
Singles ==
  {LinkConn(a, b) : a, b \in {<<<<"x", None>>>>, <<<<"x", None>>, <<"q", C(1)>>>>,
                          <<<<"xy", C(-1)>>>>, <<<<"p", None>>>>, <<<<"x", V("z")>>>>}}
    \cup {Match({"x"}), Match({"x", "q"}), If(V("z"), Match({"p"}), None),
          List("line", C(2), C(0), <<>>), List("ring", C(0), C(2), <<<<"xy", V("h")>>>>),
          List("alllist", V("z"), C(1), <<>>), HidingList}
Outer(conn) ==
  Loop("i", C(1), If(Plus("i", 1), conn, Match({"q"})))
OuterElse(conn) == If(C(0), Match({"q"}), conn)
Connections ==
  {Net("top", <<>>, <<Ported, CompoundModule("top", <<>>, <<Gate("p", C(0))>>, PlainSubs, <<conn>>)>>) :
     conn \in Singles \cup {Outer(c) : c \in Singles} \cup {OuterElse(c) : c \in Singles}
                \cup {Loop("i", C(-1), c) : c \in Singles} \cup {Loop("i", V("z"), c) : c \in Singles}}

(* An all-match inside "x", with a sibling whose name begins with an x. *)
Inside == CompoundModule("inside", <<>>, <<>>, <<Sub("p", "leaf", None, <<>>), Sub("q", "leaf", C(1), <<>>)>>,
                   <<Match({"x"})>>)
SiblingSubs == <<Sub("xy", "leaf", C(2), <<>>), Sub("x", "inside", None, <<>>)>>
Siblings == {Net("top", <<>>, <<Leaf, Inside, CompoundModule("top", <<>>, <<>>, SiblingSubs, <<>>)>>)}

(* A loop whose rounds do nothing. *)
Turns == {Net("top", <<>>, <<CompoundModule("top", <<>>, <<>>, <<>>,
                              <<Loop("i", C(2), If(C(0), TreeLink, None))>>)>>)}

(* Definitions that cannot be expanded. *)
LostSubs == {Sub("x", "gone", size, <<>>) : size \in {None, C(2)}}
              \cup {Sub("x", "leaf", V("z"), <<>>), Sub("x", "leaf", None, <<Par("h", V("z"))>>),
                    Cond(V("z"), TreeNode, None), Cond(C(0), TreeNode, RowSub)}
Failing ==
  {Net("gone", <<>>, <<Leaf>>), Net("leaf", <<Par("h", V("z"))>>, <<Leaf>>),
   Net("leaf", <<Par("h", C(1))>>, <<SimpleModule("leaf", <<Gate("p", V("h")), Gate("q", V("z"))>>)>>)}
  \cup {Net("top", <<>>, <<Leaf, CompoundModule("top", <<>>, <<>>, <<sub>>, <<>>)>>) : sub \in LostSubs}

MCNetworks ==
  Trees \cup Rows \cup Shadows \cup Hiding \cup Connections \cup Siblings \cup Turns \cup Failing

(* For termination: recursion, loops, vectors and failures on small graphs. *)
MCEnding ==
  {d \in Trees : d.params[1].value.plus + d.params[2].value.plus <= 2}
    \cup {d \in Rows : d.params[1].value.plus = 3 /\ d.params[3].value.plus = 1}
    \cup Turns \cup Shadows \cup Hiding \cup Failing

Elements(seqs) == UNION {ToSet(s) : s \in seqs}

MCModules == Elements({d.modules : d \in MCNetworks})
MCSubs == Elements({m.subs : m \in MCModules}) \cup {TreeSub, TreeNode, RowSub}
ConnsOf(cs) ==
  LET of(kind) == {c \in cs : c.kind = kind}
  IN  cs \cup {c.conn : c \in of("loop")}
         \cup (({c.then : c \in of("if")} \cup {c.else : c \in of("if")}) \ {None})
MCConns == ConnsOf(ConnsOf(ConnsOf(Elements({m.conns : m \in MCModules}))))
MCModuleNames == {"leaf", "ported", "tree", "row", "shadow", "user", "top", "inside", "gone"}
=============================================================================
