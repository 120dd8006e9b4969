------------------------------ MODULE Teardown ------------------------------
(***************************************************************************)
(* The structures of a definition in memory, and how topologies.c gives    *)
(* them back.  What a teardown does is a pair: the number of blocks it     *)
(* frees, and whether it reads through a NULL pointer on the way.          *)
(***************************************************************************)
EXTENDS Integers, SequencesExt

Null == <<>>

ZeroSubmodule == [type |-> "SUBM_HAS_SUBM", ptr |-> Null]
ZeroConnection == [type |-> "CONN_HAS_CONN", ptr |-> Null]
ZeroReplace ==
  [text |-> [x \in {"nodes"} |-> Null], sub |-> [x \in {"with"} |-> Null]]
ZeroGate == [name |-> Null, size |-> Null]
ZeroModule ==
  [type |-> "MODULE_COMPOUND", text |-> [x \in {"name", "attributes"} |-> Null],
   params |-> <<>>, gates |-> <<>>, submodules |-> <<>>, connections |-> <<>>,
   replace |-> <<>>]

----------------------------------------------------------------------------
Torn(frees, null) == [frees |-> frees, null |-> null]

Nothing == Torn(0, FALSE)

(* One teardown after the other. *)
Then(a, b) == Torn(a.frees + b.frees, a.null \/ b.null)

ThenAll(sequence, Tear(_)) ==
  FoldLeft(LAMBDA torn, x : Then(torn, Tear(x)), Nothing, sequence)

(* free of a pointer: nothing if it is NULL. *)
Free(pointer) == IF pointer = Null THEN Nothing ELSE Torn(1, FALSE)

(* Reading through a NULL pointer ends the program. *)
Through(pointer, Tear(_)) == IF pointer = Null THEN Torn(0, TRUE) ELSE Tear(pointer[1])

FreeTexts(text) ==
  Torn(Cardinality({x \in DOMAIN text : text[x] # Null}), FALSE)

FreePairs(pairs, text) ==
  ThenAll(pairs, LAMBDA pair : Then(Free(pair.name), Free(pair[text])))

(* An array of the module or of the network: no block if it is empty. *)
FreeArray(array) == IF array = <<>> THEN Nothing ELSE Torn(1, FALSE)

(* The params of a submodule: with none of them, the block is kept. *)
FreeSubParams(params) ==
  IF params = Null THEN Nothing
  ELSE IF params[1] = <<>> THEN Nothing
  ELSE Then(FreePairs(params[1], "value"), Torn(1, FALSE))

RECURSIVE FreeSubmodule(_)

(* Slip: the wrapper of a nested submodule is kept. *)
FreeNestedSubOnly(pointer) == Through(pointer, LAMBDA sub : FreeSubmodule(sub))

(* A nested submodule, and the wrapper that it is in. *)
FreeNestedSub(pointer) ==
  Then(Through(pointer, LAMBDA sub : FreeSubmodule(sub)), Free(pointer))

(* free_submodule: what the wrapper points to, not the wrapper. *)
FreeSubmodule(wrapper) ==
  Through(wrapper.ptr, LAMBDA node :
    Then(Then(FreeTexts(node.text), Torn(1, FALSE)),
         CASE wrapper.type = "SUBM_HAS_SUBM" -> FreeSubParams(node.params)
           [] wrapper.type = "SUBM_HAS_COND" ->
                Then(FreeNestedSub(node.sub["then"]),
                     IF node.sub["else"] = Null THEN Nothing ELSE FreeNestedSub(node.sub["else"]))
           [] wrapper.type = "SUBM_HAS_PROD" ->
                Then(FreeNestedSub(node.sub["a"]), FreeNestedSub(node.sub["b"]))))

RECURSIVE FreeConnection(_)

FreeNestedConn(pointer) ==
  Then(Through(pointer, LAMBDA conn : FreeConnection(conn)), Free(pointer))

(* free_connection *)
FreeConnection(wrapper) ==
  Through(wrapper.ptr, LAMBDA node :
    Then(Then(FreeTexts(node.text), Torn(1, FALSE)),
         CASE wrapper.type = "CONN_HAS_COND" ->
                Then(FreeNestedConn(node.sub["then"]),
                     IF node.sub["else"] = Null THEN Nothing ELSE FreeNestedConn(node.sub["else"]))
           [] wrapper.type = "CONN_HAS_LOOP" -> FreeNestedConn(node.sub["conn"])
           [] OTHER -> Nothing))

FreeReplace(replace) ==
  Then(Free(replace.text["nodes"]), FreeNestedSub(replace.sub["with"]))

FreeModule(m) ==
  Then(Then(FreeTexts(m.text), Then(FreePairs(m.params, "value"), FreeArray(m.params))),
  Then(Then(ThenAll(m.replace, FreeReplace), FreeArray(m.replace)),
  Then(Then(ThenAll(m.submodules, LAMBDA sub : FreeSubmodule(sub)), FreeArray(m.submodules)),
  Then(Then(FreePairs(m.gates, "size"), FreeArray(m.gates)),
       Then(ThenAll(m.connections, LAMBDA conn : FreeConnection(conn)),
            FreeArray(m.connections))))))

FreeNetwork(network) ==
  Then(Then(FreePairs(network.params, "value"), FreeArray(network.params)),
       Then(Free(network.module), Torn(1, FALSE)))

(* topologies_network_destroy.  Slots past n_modules are not looked at. *)
TearDown(net) ==
  LET modules == IF net.array = "NULL" THEN Nothing
                 ELSE Then(ThenAll(SubSeq(net.modules, 1, net.n_modules), FreeModule), Torn(1, FALSE))
      network == IF net.network = Null THEN Nothing ELSE FreeNetwork(net.network[1])
  IN Then(Then(modules, network), Torn(1, FALSE))
=============================================================================
