----------------------------- MODULE MCReplace -----------------------------
(***************************************************************************)
(* Small definitions with replacements: of nodes with and without gates,   *)
(* of a compound, of a vector, of the nodes of a sibling; one after the    *)
(* other and one inside the other; before and after connections; and with  *)
(* a submodule that cannot be expanded.                                    *)
(***************************************************************************)
EXTENDS MCExpand, Replacing

Swap(labels, atEnd, sub) == [nodes |-> labels, atEnd |-> atEnd, sub |-> sub]
With(module, swaps) == [module EXCEPT !.replace = swaps]
Put(name, module) == Sub(name, module, None, <<>>)
Top2(name, subs, conns, swaps) == With(CompoundModule(name, <<>>, <<>>, subs, conns), swaps)
Nets(modules, top) == Net(top, <<Par("k", C(2))>>, modules)

End1(x) == <<<<x, None>>>>
End2(x, y) == <<<<x, None>>, <<y, None>>>>

(* Two modules with gates, connected in every way, replaced twice. *)
Ends == {End1("x"), End2("x", "p"), End1("xy"), End2("xy", "p")}
Wires == {LinkConn(a, b) : a \in {End1("x"), End2("x", "p")}, b \in {End1("xy"), End2("xy", "p")}}
           \cup {LinkConn(End1("x"), End2("x", "p")), Match({"p"}), Match({"x", "xy"})}
Gated == SimpleModule("ported", <<Gate("p", C(0))>>)
Both == <<Put("x", "ported"), Put("xy", "ported")>>
Swaps == {Swap({"x"}, atEnd, Put("x", m)) : atEnd \in BOOLEAN, m \in {"ported", "leaf"}}
  \cup {Swap({"x", "xy"}, FALSE, Put("xy", "ported")), Swap({"p"}, TRUE, Put("x", "ported")),
        Swap({"x"}, FALSE, Cond(C(0), Put("x", "leaf"), None))}
Upto(n1, S) == UNION {[1..k -> S] : k \in 1..n1}
Flat == {Nets(<<Leaf, Gated, Top2("top", Both, conns, swaps)>>, "top") :
           conns \in Upto(2, Wires), swaps \in Upto(2, Swaps)}

(* A compound of two nodes joined at their gates, with a gate of its own. *)
Joined == CompoundModule("inside", <<>>, <<Gate("q", C(0))>>, Both,
                         <<LinkConn(End2("x", "p"), End2("xy", "p")), LinkConn(End1("x"), End1("q"))>>)
Deep == {Nets(<<Leaf, Gated, Joined,
                Top2("top", <<Put("x", "inside"), Put("p", "ported")>>,
                     <<LinkConn(End2("x", "q"), other)>>, swaps)>>, "top") :
           other \in {End1("p"), End2("p", "p")},
           swaps \in Upto(2, {Swap({l}, atEnd, Put("x", m)) :
                              l \in {"x", "p"}, atEnd \in BOOLEAN, m \in {"inside", "ported"}})}

(* A module that replaces its own nodes, in a module that connects it, then
   replaces it, perhaps by itself. *)
Renewed(swaps) == Top2("inside", Both, <<LinkConn(End1("x"), End2("xy", "p"))>>, swaps)
Renewals == Upto(1, {Swap({x}, atEnd, Put(x, m)) :
                     x \in {"x", "xy"}, atEnd \in BOOLEAN, m \in {"ported", "leaf"}})
NestedAs(name) ==
  {Nets(<<Leaf, Gated, Renewed(inner),
          Top2("top", <<Put("xy", "leaf"), Put(name, "inside")>>,
               <<LinkConn(End2(name, "x"), End1("xy")), wire>>, outer)>>, "top") :
     inner \in Renewals, wire \in {Match({"x"}), LinkConn(End2(name, "x"), End2(name, "xy"))},
     outer \in {<<>>} \cup Upto(1, {Swap({l}, atEnd, Put(name, "inside")) :
                                    l \in {"x", "p", "xy"}, atEnd \in BOOLEAN})}
Nested == NestedAs("x") \cup NestedAs("q")

(* A vector replaced by a shorter one, and nodes of one name. *)
Vectors ==
  {Nets(<<Leaf, Top2("top", subs, <<Match({"x"}), List("ring", C(0), V("k"), <<<<"x", V("i")>>>>)>>,
                     swaps)>>, "top") :
     subs \in {<<Sub("x", "leaf", V("k"), <<>>)>>,
               <<Sub("x", "leaf", V("k"), <<>>), Sub("x", "leaf", V("k"), <<>>)>>},
     swaps \in Upto(2, {Swap({"x"}, atEnd, Sub("x", "leaf", size, <<>>)) :
                        atEnd \in BOOLEAN, size \in {C(1), V("k"), V("z")}})}

(* Gates of one name, replaced three times: a list that names a node twice after
   the first time leads to one that has handed over after the second. *)
Hollow == CompoundModule("inside", <<>>, <<Gate("q", C(0))>>, <<>>, <<>>)
Thrice ==
  {Nets(<<Leaf, Gated, Hollow,
          Top2("top", <<Put("x", "inside"), Put("x", "inside"), Put("xy", "ported")>>,
               <<Match({"p", "q"})>>,
               [k \in 1..times |-> Swap({"x"}, FALSE, Put("x", "inside"))])>>, "top") :
     times \in 1..3}

(* A node that takes the place of a gate. *)
Holder == CompoundModule("inside", <<>>, <<>>, <<Put("p", "leaf")>>, <<>>)
Promoted ==
  {Nets(<<Leaf, Gated, Holder,
          Top2("top", <<Put("x", "ported"), Put("xy", "leaf")>>,
               <<LinkConn(End2("x", "p"), End1("xy"))>>,
               <<Swap({l}, atEnd, Put("x", "inside"))>>)>>, "top") :
     l \in {"p", "x"}, atEnd \in BOOLEAN}

Lacking == {Nets(<<Leaf, Gated, Top2("top", Both, <<>>, <<Swap({"x"}, TRUE, Put("x", "gone"))>>)>>, "top")}

MCReplaceNetworks == MCNetworks \cup Flat \cup Deep \cup Nested \cup Vectors \cup Thrice \cup Promoted
                       \cup Lacking

(* For termination: these, and the definitions of MCExpand for it. *)
MCReplaceEnding == MCEnding \cup Lacking
  \cup {Nets(<<Leaf, Top2("top", <<Put("x", "leaf"), Put("xy", "leaf")>>, <<LinkConn(End1("x"), End1("xy"))>>,
                          <<Swap({"x"}, atEnd, Put("x", "leaf"))>>)>>, "top") : atEnd \in BOOLEAN}

RModules == Elements({d.modules : d \in MCReplaceNetworks \cup MCReplaceEnding})
RSubs == Elements({m.subs : m \in RModules}) \cup MCSubs
           \cup {r.sub : r \in Elements({m.replace : m \in RModules})} \cup {Put("x", "leaf")}
RConns == MCConns \cup ConnsOf(ConnsOf(ConnsOf(Elements({m.conns : m \in RModules}))))
=============================================================================
