------------------------------ MODULE MCWiring ------------------------------
(***************************************************************************)
(* A small instance of Wiring: two submodule names; modules with one gate, *)
(* without any, and with a gate named like an automatic one; and a product *)
(* of two nodes with an attribute on its edge.                             *)
(***************************************************************************)
EXTENDS Wiring

CONSTANTS n, u, v, p, x, y

MCPaths == {<<<<n, -1>>, <<u, -1>>>>, <<<<n, -1>>, <<v, -1>>>>}

MCGateLists == {<<>>, <<<<p, -1>>>>, <<<<AutoLabel, 0>>>>}

(* The graph of graphs_cart_product for an edge between x and y. *)
MCProduct ==
  <<[name |-> <<<<x, -1>>>>, type |-> "NODE", adj |-> <<[n |-> 2, attrs |-> "w"]>>],
    [name |-> <<<<y, -1>>>>, type |-> "NODE", adj |-> <<[n |-> 1, attrs |-> "w"]>>]>>

MCProducts == {MCProduct}

ASSUME NamesAreApart == NamesApart /\ \A prod \in Products : Symmetric(prod)
=============================================================================
