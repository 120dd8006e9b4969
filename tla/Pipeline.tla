------------------------------ MODULE Pipeline ------------------------------
(***************************************************************************)
(* From a definition to what is printed (main.c), with submodules that are *)
(* products (add_submodule in topologies.c): each operand is expanded into *)
(* a graph of its own and compacted there, the product of the two is made  *)
(* and inserted into the graph of the enclosing module, and that graph is  *)
(* compacted and printed when the expansion is over.  The steps are those  *)
(* of Wiring, Compact and Products, which hand their graphs to each other  *)
(* here.  How a definition comes to the operations that are the input of   *)
(* this module is what Expand is about.                                    *)
(***************************************************************************)
EXTENDS AutoGates, SequencesExt

CONSTANTS Programs,            \* bound: the expansions, as sequences of operations
          Root,                \* the label "n" of the outermost module
          Blank,               \* the empty name of an operand's name stack
          Open, Comma, Close,  \* see Products
          MaxNodes, MaxIds     \* see Wiring

VARIABLES program,   \* history: the operations of the whole expansion
          ops,       \* the operations left of the graph under construction
          path,      \* the name stack they began with, <<>> for that of an operand
          calls,     \* the products that are being added, the innermost last
          stage,     \* what the innermost of them, or main, is at
          result,    \* "run", "ok", or the error the program ends with
          g, job, err, asked,                                          \* see Wiring
          c_input, c_g, c_new, c_pc, c_i, c_j, c_cur, c_attrs, c_res,  \* see Compact
          g_a, g_b, kind, root, g_prod, p_pc, p_todo, p_res            \* see Products

W == INSTANCE Wiring WITH Paths <- {}, GateLists <- {}, Products <- {}

C == INSTANCE Compact WITH Inputs <- {}, input <- c_input, g <- c_g, new_g <- c_new, pc <- c_pc,
                           i <- c_i, j <- c_j, cur <- c_cur, attrs <- c_attrs, res <- c_res

P == INSTANCE Products WITH Operands <- {}, Kinds <- {}, Roots <- {},
                            pc <- p_pc, todo <- p_todo, res <- p_res

control == <<program, ops, path, calls, stage, result>>
wiring == <<g, job, err, asked>>
compaction == <<c_input, c_g, c_new, c_pc, c_i, c_j, c_cur, c_attrs, c_res>>
product == <<g_a, g_b, kind, root, g_prod, p_pc, p_todo, p_res>>
vars == <<control, wiring, compaction, product>>

(* The operations: a simple module, a connection, a list, and the product of
   two expansions, added in a module with the name stack "under".  Names are
   relative to the path. *)
NodeOp(name, gates) == [op |-> "node", name |-> name, gates |-> gates]

LinkOp(from, to) == [op |-> "link", from |-> from, to |-> to]

ListOp(shape, names) == [op |-> "list", shape |-> shape, names |-> names]

ProductOp(under, type, at, a, b) ==
  [op |-> "product", under |-> under, kind |-> type, root |-> at, a |-> a, b |-> b]

ASSUME PipelineAssumption == {Root, Blank, Open, Comma, Close} \subseteq Labels

Init ==
  /\ program \in Programs
  /\ ops = program
  /\ path = <<<<Root, -1>>>>
  /\ calls = <<>>
  /\ stage = "expand"
  /\ result = "run"
  /\ W!Init
  /\ c_input = <<>> /\ c_g = <<>> /\ c_new = <<>> /\ c_pc = "done" /\ c_i = 1 /\ c_j = 1
  /\ c_cur = 0 /\ c_attrs = NULL /\ c_res = "ok"
  /\ g_a = <<>> /\ g_b = <<>> /\ kind = "cart" /\ root = <<>> /\ g_prod = <<>>
  /\ p_pc = "done" /\ p_todo = <<>> /\ p_res = "ok"

Ends(with) == stage' = "end" /\ result' = with

----------------------------------------------------------------------------
(* The operations of the graph in hand, one after the other. *)
Ready == stage = "expand" /\ err = "ok" /\ job = W!Idle

AtOp(op) == Ready /\ ops # <<>> /\ Head(ops).op = op

GoesOn ==
  /\ ops' = Tail(ops)
  /\ UNCHANGED <<program, path, calls, stage, result, compaction, product>>

AddModule ==
  /\ AtOp("node")
  /\ W!ExpandSimple(path \o Head(ops).name, Head(ops).gates)
  /\ GoesOn

Connect ==
  /\ AtOp("link")
  /\ W!ConnectPlain(path \o Head(ops).from, path \o Head(ops).to, NULL)
  /\ GoesOn

ConnectList ==
  /\ AtOp("list")
  /\ W!ConnectNamed(Head(ops).shape,
                    [k \in DOMAIN Head(ops).names |-> path \o Head(ops).names[k]], NULL)
  /\ GoesOn

(* A step of the operation, or of the insertion of a product. *)
Wire ==
  /\ stage = "expand"
  /\ W!GateStep \/ W!InsertNode \/ W!InsertEdge \/ W!WireStep \/ W!JobDone
  /\ UNCHANGED <<control, compaction, product>>

(* Whoever is in the call hands the error out, up to main. *)
WireFails ==
  /\ stage = "expand" /\ err # "ok"
  /\ Ends(err)
  /\ UNCHANGED <<program, ops, path, calls, wiring, compaction, product>>

----------------------------------------------------------------------------
(* add_submodule of a product.  The graph of the caller waits in the call. *)
Call == Last(calls)

(* Slip: the second operand is expanded into the graph of the first. *)
GraphOfBoth == IF calls = <<>> THEN EmptyGraph ELSE g

GraphOfOperand == EmptyGraph

Operand(operand) ==
  /\ ops' = operand
  /\ path' = <<>>
  /\ stage' = "expand"
  /\ g' = GraphOfOperand
  /\ asked' = {}
  /\ UNCHANGED <<program, result, job, err, compaction, product>>

FirstOperand ==
  /\ AtOp("product")
  /\ calls' = Append(calls, [prod |-> Head(ops), first |-> <<>>, graph |-> g, asked |-> asked,
                             ops |-> Tail(ops), path |-> path])
  /\ Operand(Head(ops).a)

(* topologies_graph_compact, on an operand's graph or, from main, on the whole. *)
Compact ==
  /\ Ready /\ ops = <<>>
  /\ stage' = "compact"
  /\ c_input' = g /\ c_g' = g /\ c_new' = EmptyGraph /\ c_pc' = "scan" /\ c_i' = 1 /\ c_j' = 1
  /\ c_cur' = 0 /\ c_attrs' = NULL /\ c_res' = "ok"
  /\ UNCHANGED <<program, ops, path, calls, result, wiring, product>>

CompactStep ==
  /\ stage = "compact"
  /\ C!Next
  /\ UNCHANGED <<control, wiring, product>>

Compacted == stage = "compact" /\ c_pc \in {"done", "failed"}

(* Slip: the graph is passed on as it was. *)
UncompactedGraph == c_g

(* The pointer to the graph is moved only when compaction succeeds; add_submodule
   does not look at its result and takes what there is. *)
CompactedGraph == IF c_pc = "done" THEN c_new ELSE c_g

SecondOperand ==
  /\ Compacted /\ calls # <<>> /\ Call.first = <<>>
  /\ calls' = [calls EXCEPT ![Len(calls)].first = <<CompactedGraph>>]
  /\ Operand(Call.prod.b)

MakeProduct ==
  /\ Compacted /\ calls # <<>> /\ Call.first # <<>>
  /\ stage' = "product"
  /\ g_a' = Call.first[1]
  /\ g_b' = CompactedGraph
  /\ kind' = Call.prod.kind
  /\ root' = Call.prod.root
  /\ g_prod' = EmptyGraph
  /\ p_pc' = "nodes"
  /\ p_todo' = P!Cells'
  /\ p_res' = "ok"
  /\ UNCHANGED <<program, ops, path, calls, result, wiring, compaction>>

ProductStep ==
  /\ stage = "product"
  /\ P!Next
  /\ UNCHANGED <<control, wiring, compaction>>

ProductFails ==
  /\ stage = "product" /\ p_pc = "done" /\ p_res # "ok"
  /\ Ends(p_res)
  /\ UNCHANGED <<program, ops, path, calls, wiring, compaction, product>>

(* Both operands are given back, and the caller's graph is in hand again. *)
TakeUp ==
  /\ stage = "product" /\ p_pc = "done" /\ p_res = "ok"
  /\ g' = Call.graph
  /\ asked' = Call.asked
  /\ path' = Call.path
  /\ stage' = "insert"
  /\ UNCHANGED <<program, ops, calls, result, job, err, compaction, product>>

(* name_stack_name: the empty name of an operand's stack is printed only where
   it is the last. *)
NameOfStack(stack) == IF stack = <<>> THEN <<<<Blank, -1>>>> ELSE stack

InsertProduct ==
  /\ stage = "insert"
  /\ W!InsertProduct(NameOfStack(path \o Call.prod.under), g_prod)
  /\ ops' = Call.ops
  /\ calls' = Front(calls)
  /\ stage' = "expand"
  /\ UNCHANGED <<program, path, result, compaction, product>>

----------------------------------------------------------------------------
(* main: the graph is printed if it can be compacted. *)
Finish ==
  /\ Compacted /\ calls = <<>>
  /\ Ends(c_res)
  /\ UNCHANGED <<program, ops, path, calls, wiring, compaction, product>>

Next ==
  \/ AddModule \/ Connect \/ ConnectList \/ Wire \/ WireFails
  \/ FirstOperand \/ SecondOperand \/ Compact \/ CompactStep
  \/ MakeProduct \/ ProductStep \/ ProductFails \/ TakeUp \/ InsertProduct
  \/ Finish

Spec == Init /\ [][Next]_vars
=============================================================================
