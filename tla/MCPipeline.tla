----------------------------- MODULE MCPipeline -----------------------------
(***************************************************************************)
(* Small networks with a product: of two nodes, a line, a ring, operands   *)
(* joined through declared gates, with gates left over, with a node that   *)
(* is connected with nothing, with a gate used twice, with an error in     *)
(* them, and that are products themselves; connected with a node outside.  *)
(***************************************************************************)
EXTENDS Output

CONSTANTS m, x, y, z, p, q

In(label) == <<<<m, -1>>, <<label, -1>>>>
At(name, gate) == Append(name, <<gate, -1>>)
Nd(label, gates) == NodeOp(In(label), [k \in DOMAIN gates |-> <<gates[k], -1>>])

Two == <<Nd(x, <<>>), Nd(y, <<>>), LinkOp(In(x), In(y))>>
Ring == <<Nd(x, <<>>), Nd(y, <<>>), Nd(z, <<>>), ListOp("ring", <<In(x), In(y), In(z)>>)>>
Ported == <<Nd(x, <<p>>), Nd(y, <<p, q>>), LinkOp(At(In(x), p), At(In(y), p))>>
Lone == <<Nd(x, <<>>), Nd(z, <<>>), Nd(y, <<>>), LinkOp(In(y), In(x))>>
Star == <<Nd(x, <<p>>), Nd(y, <<p>>), Nd(z, <<>>), LinkOp(At(In(x), p), At(In(y), p)),
          LinkOp(In(x), In(z)), LinkOp(At(In(x), p), In(z))>>
Single(gates) == <<NodeOp(<<<<m, -1>>>>, gates)>>
Missing == <<Nd(x, <<>>), LinkOp(In(x), In(z))>>
Square == <<ProductOp(<<>>, "cart", <<>>, Two, Two)>>
Nested == <<Nd(x, <<>>), ProductOp(<<<<m, -1>>>>, "tens", <<>>, Two, Ring),
            LinkOp(In(x), <<<<m, -1>>>> \o P!Pair(In(x), In(y)))>>

FirstOperands == {Two, Ring, Ported, Lone, Star, Single(<<>>), Missing, Square, Nested}
SecondOperands == {Two, Ring, Ported, Lone, Star, Single(<<<<p, -1>>>>), Square}

ProductOps(first, second) ==
  {ProductOp(<<>>, k, <<>>, first, second) : k \in {"cart", "tens", "lex", "strong"}}
    \cup {ProductOp(<<>>, "root", r, first, second) : r \in {In(x), In(q)}}

Alone == {<<prod>> : prod \in UNION {ProductOps(f, s) : f \in FirstOperands, s \in SecondOperands}}

Cell == P!Pair(In(x), In(y))
Outside(prod) ==
  {<<NodeOp(<<<<z, -1>>>>, <<<<p, -1>>>>), prod>> \o after :
     after \in {<<LinkOp(<<<<z, -1>>>>, Cell)>>,
                <<LinkOp(<<<<z, -1>>, <<p, -1>>>>, Cell \o At(In(y), q))>>,
                <<ListOp("line", <<Cell, <<<<z, -1>>>>, P!Pair(In(y), In(y))>>)>>,
                <<LinkOp(Cell, P!Pair(In(y), In(x))), LinkOp(Cell, P!Pair(In(x), In(x)))>>}}

Connected == UNION {Outside(prod) : prod \in UNION {ProductOps(f, s) : f \in {Two, Ported, Star},
                                                                       s \in {Two, Ported}}}

MCPrograms == Alone \cup Connected
=============================================================================
