------------------------------- MODULE Parser -------------------------------
(***************************************************************************)
(* parser.c: from the tokens of one file after the other to a definition.  *)
(* json_deserialize is a state machine, an action for each branch of its   *)
(* loop; parse_submodule, parse_connection and parse_replace, which it     *)
(* calls, are recursive operators.  Their loops over the keys of an object *)
(* count the keys but find their place by going from token to token: what  *)
(* they read is right only if both stay in step.                           *)
(*                                                                         *)
(* A pointer is <<>> for NULL, and <<x>> when it points to x.  A block of  *)
(* the program's structures is the fields it has: texts by the JSON key    *)
(* they are read from (var and nodes of a ring are under "ring", "conn"),  *)
(* and pointers to nested structures.                                      *)
(***************************************************************************)
EXTENDS Json, Teardown

CONSTANT Inputs   \* the sequences of documents a program may be given

VARIABLES files,    \* the documents, in the order of the arguments
          k,        \* how many were read
          toks,     \* the tokens of the one being read
          walk,     \* the variables of json_deserialize
          net,      \* the definition
          blocks,   \* the number of blocks of memory the definition holds
          stage     \* what the caller is doing

vars == <<files, k, toks, walk, net, blocks, stage>>

----------------------------------------------------------------------------
(* The text of token p if it is a string: json_str_eq matches nothing else. *)
KeyAt(tokens, p) ==
  IF p <= Len(tokens) /\ tokens[p].type = "STRING" THEN tokens[p].text ELSE ""

Is(tokens, p, type) == p <= Len(tokens) /\ tokens[p].type = type

(* What a parsing function has done so far: the position *i, the block it
   fills, how many blocks it has allocated, and whether it goes on.  "beyond"
   is a decision on a token past the last one. *)
Begin(p, node) == [pos |-> p, node |-> node, blocks |-> 1, verdict |-> "ok"]

Bad(tokens, acc) ==
  [acc EXCEPT !.verdict = IF acc.pos <= Len(tokens) THEN "bad" ELSE "beyond"]

Node(texts, subs) ==
  [text |-> [key \in texts |-> Null], sub |-> [key \in subs |-> Null],
   params |-> Null, prod |-> ""]

(* Slip: a key that was read before is read again. *)
TextKeyAgain(tokens, acc, key) ==
  [acc EXCEPT !.node.text[key] = <<tokens[acc.pos + 1].text>>, !.pos = @ + 2,
              !.blocks = @ + 1]

(* A key whose value is copied: bad when it was read before. *)
TextKey(tokens, acc, key) ==
  IF acc.node.text[key] # Null THEN Bad(tokens, acc)
  ELSE [acc EXCEPT !.node.text[key] = <<tokens[acc.pos + 1].text>>,
                   !.pos = @ + 2, !.blocks = @ + 1]

(* A key whose value is an object of its own, which parses to sub: "else"
   comes after "then". *)
NestedKey(tokens, acc, key, sub) ==
  IF \/ ~Is(tokens, acc.pos + 1, "OBJECT")
     \/ acc.node.sub[key] # Null
     \/ (key = "else" /\ acc.node.sub["then"] = Null)
  THEN Bad(tokens, acc)
  ELSE [acc EXCEPT !.node.sub[key] = <<sub.wrapper>>, !.pos = sub.pos,
                   !.blocks = @ + 1 + sub.blocks, !.verdict = sub.verdict]

(* One iteration of a loop over the keys of an object. *)
ReadKey(tokens, acc, sub) ==
  LET key == KeyAt(tokens, acc.pos)
  IN CASE acc.verdict # "ok" -> acc
       [] acc.verdict = "ok" /\ key \in DOMAIN acc.node.text -> TextKey(tokens, acc, key)
       [] acc.verdict = "ok" /\ key \in DOMAIN acc.node.sub ->
            NestedKey(tokens, acc, key, sub)
       [] OTHER -> Bad(tokens, acc)

Wrapped(type, acc) ==
  [wrapper |-> [type |-> type, ptr |-> <<acc.node>>], pos |-> acc.pos,
   blocks |-> acc.blocks, verdict |-> acc.verdict]

----------------------------------------------------------------------------
(* The params of a submodule, a module or the network: objects of one pair of
   strings.  p is the array's token; the result has as many entries as the
   array, those that were not reached without name and value. *)
ReadParam(tokens, acc, j) ==
  IF acc.verdict # "ok" THEN acc
  ELSE IF /\ Is(tokens, acc.pos, "OBJECT") /\ tokens[acc.pos].size = 1
          /\ Is(tokens, acc.pos + 1, "STRING") /\ Is(tokens, acc.pos + 2, "STRING")
  THEN [acc EXCEPT !.node[j] = [name |-> <<tokens[acc.pos + 1].text>>,
                                value |-> <<tokens[acc.pos + 2].text>>],
                   !.pos = @ + 3, !.blocks = @ + 2]
  ELSE Bad(tokens, acc)

ReadParams(tokens, p) ==
  LET size == tokens[p].size
  IN FoldLeft(LAMBDA acc, j : ReadParam(tokens, acc, j),
              Begin(p + 1, [j \in 1..size |-> [name |-> Null, value |-> Null]]),
              [j \in 1..size |-> j])

(* parse_submodule_params: an empty array is a block all the same. *)
SubParams(tokens, acc) ==
  IF ~Is(tokens, acc.pos + 1, "ARRAY") \/ acc.node.params # Null
  THEN Bad(tokens, acc)
  ELSE LET read == ReadParams(tokens, acc.pos + 1)
       IN [acc EXCEPT !.node.params = <<read.node>>, !.pos = read.pos,
                      !.blocks = @ + read.blocks, !.verdict = read.verdict]

----------------------------------------------------------------------------
Conditional == {"if", "then", "else"}

ProductType(name) ==
  CASE name = "cartesian" -> "PROD_IS_CART"
    [] name = "tensor" -> "PROD_IS_TENS"
    [] name = "lexicographical" -> "PROD_IS_LEX"
    [] name = "strong" -> "PROD_IS_STRONG"
    [] name \in {"root", "rooted"} -> "PROD_IS_ROOT"
    [] OTHER -> ""

RootText(tokens, acc) ==
  IF Is(tokens, acc.pos + 1, "STRING")
  THEN [acc EXCEPT !.node.text["root"] = <<tokens[acc.pos + 1].text>>,
                   !.pos = @ + 2, !.blocks = @ + 1]
  ELSE Bad(tokens, acc)

(* The name of the product at acc.pos; its root may come before "rooted",
   never before "root". *)
ProductHead(tokens, acc) ==
  LET name == KeyAt(tokens, acc.pos)
      named == [acc EXCEPT !.node.prod = ProductType(name)]
      rooted == RootText(tokens, named)
  IN IF ProductType(name) = "" THEN Bad(tokens, acc)
     ELSE IF name # "root" \/ rooted.verdict # "ok"
     THEN IF name = "root" THEN rooted ELSE named
     ELSE IF KeyAt(tokens, rooted.pos) = "rooted" THEN rooted
     ELSE Bad(tokens, rooted)

(* The root of a rooted product that was not named before its operands. *)
ProductTail(tokens, acc) ==
  IF acc.verdict # "ok" \/ acc.node.prod # "PROD_IS_ROOT" \/ acc.node.text["root"] # Null
  THEN acc
  ELSE IF KeyAt(tokens, acc.pos) = "root" THEN RootText(tokens, acc)
  ELSE Bad(tokens, acc)

(* The operand x of a product, which parses to sub. *)
Operand(tokens, acc, x, sub) ==
  IF acc.verdict # "ok" THEN acc
  ELSE IF ~Is(tokens, acc.pos, "OBJECT") THEN Bad(tokens, acc)
  ELSE [acc EXCEPT !.node.sub[x] = <<sub.wrapper>>, !.pos = sub.pos,
                   !.blocks = @ + sub.blocks, !.verdict = sub.verdict]

(* Both operands' wrappers are allocated before the first is parsed. *)
Operands(tokens, acc) ==
  IF acc.verdict # "ok" THEN acc
  ELSE IF ~Is(tokens, acc.pos + 1, "ARRAY") \/ tokens[acc.pos + 1].size # 2
  THEN Bad(tokens, acc)
  ELSE [acc EXCEPT !.pos = @ + 2, !.blocks = @ + 2,
                   !.node.sub = [x \in {"a", "b"} |-> <<ZeroSubmodule>>]]

(* What the loop over the keys of the object at p runs through. *)
EachKey(tokens, p) == [j \in 1..tokens[p].size |-> j]

RECURSIVE ParseSubmodule(_, _)

ProductSub(tokens, p) ==
  LET start == Begin(p + 1, [Node({"root"}, {"a", "b"}) EXCEPT !.prod = "PROD_IS_CART"])
      both == Operands(tokens, ProductHead(tokens, start))
      one == Operand(tokens, both, "a", ParseSubmodule(tokens, both.pos))
      two == Operand(tokens, one, "b", ParseSubmodule(tokens, one.pos))
  IN Wrapped("SUBM_HAS_PROD", ProductTail(tokens, two))

CondSub(tokens, p) ==
  Wrapped("SUBM_HAS_COND",
          FoldLeft(LAMBDA acc, j : ReadKey(tokens, acc, ParseSubmodule(tokens, acc.pos + 1)),
                   Begin(p + 1, Node({"if"}, {"then", "else"})), EachKey(tokens, p)))

PlainSub(tokens, p) ==
  Wrapped("SUBM_HAS_SUBM",
          FoldLeft(LAMBDA acc, j : IF acc.verdict = "ok" /\ KeyAt(tokens, acc.pos) = "params"
                                   THEN SubParams(tokens, acc)
                                   ELSE ReadKey(tokens, acc, Null),
                   Begin(p + 1, Node({"name", "module", "size"}, {})), EachKey(tokens, p)))

(* parse_submodule: the number of keys and the first of them decide. *)
ParseSubmodule(tokens, p) ==
  LET size == tokens[p].size
      first == KeyAt(tokens, p + 1)
  IN IF size = 1 \/ (size = 2 /\ first \in {"root", "rooted"}) THEN ProductSub(tokens, p)
     ELSE IF size \in {2, 3} /\ first \in Conditional THEN CondSub(tokens, p)
     ELSE PlainSub(tokens, p)

(* parse_replace *)
ParseReplace(tokens, p) ==
  IF tokens[p].size # 2
  THEN [node |-> ZeroReplace, pos |-> p, blocks |-> 0, verdict |-> "bad"]
  ELSE FoldLeft(LAMBDA acc, j : ReadKey(tokens, acc, ParseSubmodule(tokens, acc.pos + 1)),
                [Begin(p + 1, ZeroReplace) EXCEPT !.blocks = 0], EachKey(tokens, p))

----------------------------------------------------------------------------
(* The kinds of connection.  The fields that each has are those that are
   looked for, and a key that is none of them is bad. *)
PlainFields == Node({"from", "to", "attributes"}, {})
CondFields == Node({"if"}, {"then", "else"})
LoopFields == Node({"loop", "start", "end"}, {"conn"})
AllListFields == Node({"all", "start", "end", "conn", "attributes"}, {})
RingFields == Node({"ring", "start", "end", "conn", "attributes"}, {})
LineFields == Node({"line", "start", "end", "conn", "attributes"}, {})
AllFields == Node({"all-match", "attributes"}, {})

(* Slip: a connection of four or five keys is a loop unless it has attributes. *)
ListTypeBySize(tokens, p) ==
  IF tokens[p - 1].size = 4 THEN "CONN_HAS_LOOP" ELSE "CONN_HAS_ALLLIST"

(* What a connection of four or five keys is.  The search for the key that
   says so goes over the keys without ever leaving the first. *)
ListType(tokens, p) ==
  IF Is(tokens, p + 1, "OBJECT") THEN "CONN_HAS_LOOP"
  ELSE CASE KeyAt(tokens, p) = "ring" -> "CONN_HAS_RING"
         [] KeyAt(tokens, p) = "line" -> "CONN_HAS_LINE"
         [] KeyAt(tokens, p) = "all" -> "CONN_HAS_ALLLIST"
         [] OTHER -> "CONN_HAS_LOOP"

ListFields(type) ==
  CASE type = "CONN_HAS_RING" -> RingFields
    [] type = "CONN_HAS_LINE" -> LineFields
    [] type = "CONN_HAS_ALLLIST" -> AllListFields
    [] type = "CONN_HAS_LOOP" -> LoopFields

RECURSIVE ParseConnection(_, _)

ConnOf(tokens, p, type, fields) ==
  Wrapped(type, FoldLeft(LAMBDA acc, j : ReadKey(tokens, acc, ParseConnection(tokens, acc.pos + 1)),
                         Begin(p + 1, fields), EachKey(tokens, p)))

NoConn(tokens, p) ==
  [wrapper |-> ZeroConnection, pos |-> p, blocks |-> 0,
   verdict |-> IF p <= Len(tokens) THEN "bad" ELSE "beyond"]

(* parse_connection: the number of keys and the first of them decide. *)
ParseConnection(tokens, p) ==
  LET size == tokens[p].size
      first == KeyAt(tokens, p + 1)
  IN CASE size > 5 -> NoConn(tokens, p)
       [] size \in {2, 3} /\ first \in {"attributes", "from", "to"} ->
            ConnOf(tokens, p, "CONN_HAS_CONN", PlainFields)
       [] size \in {2, 3} /\ first \in Conditional ->
            ConnOf(tokens, p, "CONN_HAS_COND", CondFields)
       [] size \in {4, 5} ->
            ConnOf(tokens, p, ListType(tokens, p + 1), ListFields(ListType(tokens, p + 1)))
       [] size \in {1, 2} /\ first = "all-match" ->
            ConnOf(tokens, p, "CONN_HAS_ALL", AllFields)
       [] OTHER -> NoConn(tokens, p + 1)

----------------------------------------------------------------------------
(* json_deserialize.  i, m_i and the loops are variables of the program; base,
   how many modules there were before this file, is read by no action. *)
Walk ==
  [state |-> "STATE_START", i |-> 1, m_i |-> 0, base |-> 0, obj_i |-> 0, obj_n |-> 0,
   arr_i |-> 0, arr_n |-> 0, subobj_i |-> 0, subobj_n |-> 0]

ParserInit ==
  /\ files \in Inputs
  /\ k = 0
  /\ toks = <<>>
  /\ walk = Walk
  /\ net = [modules |-> <<>>, n_modules |-> 0, array |-> "NULL", network |-> Null]
  /\ blocks = 1
  /\ stage = "idle"

(* topologies_network_read_file or _read_string, json_read_file. *)
ReadFile ==
  /\ stage = "idle" /\ k < Len(files)
  /\ toks' = Tokens(files[k + 1].tree)
  /\ walk' = Walk
  /\ stage' = "reading"
  /\ UNCHANGED <<files, k, net, blocks>>

At(state) == stage = "reading" /\ walk.state = state

Key == KeyAt(toks, walk.i)

(* The end of an iteration: the loop goes on while there are tokens, and the
   function returns success in whatever state it is when there are none. *)
Continue(w) ==
  /\ walk' = w
  /\ stage' = IF w.i <= Len(toks) THEN "reading" ELSE "idle"
  /\ k' = IF w.i <= Len(toks) THEN k ELSE k + 1
  /\ UNCHANGED <<files, toks>>

(* bad_token *)
Refuse(verdict) ==
  /\ stage' = IF verdict = "beyond" THEN "undefined" ELSE "TOP_E_TOKEN"
  /\ UNCHANGED <<files, k, toks, walk>>

(* Slip: the modules of this file are put over the last one there was. *)
FirstSlotOver(n_modules) == IF n_modules = 0 THEN 0 ELSE n_modules - 1

(* Slip: the counter of modules begins at the number there are. *)
FirstSlotAfter(n_modules) == n_modules + 1

FirstSlot(n_modules) == n_modules

(* The array of modules grows by the elements of the file, the network among
   them.  Of a block that exists, realloc to nothing makes none (as glibc has
   it), which is taken for exhausted memory. *)
Start ==
  /\ At("STATE_START")
  /\ LET size == toks[1].size
         kept == SubSeq(net.modules, 1, net.n_modules)
     IN IF toks[1].type # "ARRAY"
        THEN Refuse("bad") /\ UNCHANGED <<net, blocks>>
        ELSE IF net.n_modules + size = 0 /\ net.array = "block"
        THEN /\ stage' = "TOP_E_ALLOC"
             /\ net' = [net EXCEPT !.array = "freed"]
             /\ blocks' = blocks - 1
             /\ UNCHANGED <<files, k, toks, walk>>
        ELSE /\ net' = [net EXCEPT !.modules = kept \o [j \in 1..size |-> ZeroModule],
                                   !.n_modules = @ + size, !.array = "block"]
             /\ blocks' = IF net.array = "NULL" THEN blocks + 1 ELSE blocks
             /\ Continue([walk EXCEPT !.state = "STATE_BETWEEN", !.i = 2,
                                      !.m_i = FirstSlot(net.n_modules),
                                      !.base = net.n_modules])

IsElement == Is(toks, walk.i, "OBJECT") /\ toks[walk.i].size = 1

ModuleKinds == {"module", "simplemodule"}

BadElement ==
  /\ At("STATE_BETWEEN")
  /\ ~(IsElement /\ KeyAt(toks, walk.i + 1) \in ModuleKinds \cup {"network"})
  /\ Refuse("bad")
  /\ UNCHANGED <<net, blocks>>

(* After its key, an element's value must be an object: its pairs come next. *)
OpenObject(w, state) ==
  [w EXCEPT !.state = state, !.i = @ + 3, !.obj_i = 0, !.obj_n = toks[walk.i + 2].size]

OpenModule ==
  /\ At("STATE_BETWEEN") /\ IsElement
  /\ KeyAt(toks, walk.i + 1) \in ModuleKinds
  /\ net' = [net EXCEPT !.modules[walk.m_i + 1].type =
               IF KeyAt(toks, walk.i + 1) = "module" THEN "MODULE_COMPOUND" ELSE "MODULE_SIMPLE"]
  /\ IF Is(toks, walk.i + 2, "OBJECT")
     THEN Continue(OpenObject([walk EXCEPT !.m_i = @ + 1], "STATE_MODULE"))
     ELSE Refuse("bad")
  /\ UNCHANGED blocks

(* The network takes back the slot it was counted for. *)
OpenNetwork ==
  /\ At("STATE_BETWEEN") /\ IsElement
  /\ KeyAt(toks, walk.i + 1) = "network"
  /\ IF Is(toks, walk.i + 2, "OBJECT") /\ net.network = Null
     THEN /\ net' = [net EXCEPT !.n_modules = @ - 1,
                                !.network = <<[module |-> Null, params |-> <<>>]>>]
          /\ blocks' = blocks + 1
          /\ Continue(OpenObject(walk, "STATE_NETWORK"))
     ELSE /\ net' = [net EXCEPT !.n_modules = @ - 1]
          /\ Refuse("bad")
          /\ UNCHANGED blocks

----------------------------------------------------------------------------
(* The pairs of a module.  The module being read, and what it becomes. *)
M == net.modules[walk.m_i]

Becomes(m) == net' = [net EXCEPT !.modules[walk.m_i] = m]

ObjectDone(w) == [w EXCEPT !.state = "STATE_BETWEEN"]

ModuleDone ==
  /\ At("STATE_MODULE") /\ walk.obj_i = walk.obj_n
  /\ Continue(ObjectDone(walk))
  /\ UNCHANGED <<net, blocks>>

InModule == At("STATE_MODULE") /\ walk.obj_i # walk.obj_n

ModuleTexts == IF M.type = "MODULE_SIMPLE" THEN {"name", "attributes"} ELSE {"name"}

ModuleText ==
  /\ InModule /\ Key \in ModuleTexts
  /\ IF M.text[Key] # Null \/ ~Is(toks, walk.i + 1, "STRING")
     THEN Refuse("bad") /\ UNCHANGED <<net, blocks>>
     ELSE /\ Becomes([M EXCEPT !.text[Key] = <<toks[walk.i + 1].text>>])
          /\ blocks' = blocks + 1
          /\ Continue([walk EXCEPT !.obj_i = @ + 1, !.i = @ + 2])

ArrayOf(key) ==
  CASE key = "submodules" -> [zero |-> ZeroSubmodule, state |-> "STATE_MODULE_SUBMODULES_BETWEEN"]
    [] key = "replace" -> [zero |-> ZeroReplace, state |-> "STATE_MODULE_REPLACE_BETWEEN"]
    [] key = "connections" -> [zero |-> ZeroConnection, state |-> "STATE_MODULE_CONNECTIONS_BETWEEN"]
    [] key = "gates" -> [zero |-> ZeroGate, state |-> "STATE_MODULE_GATES_BETWEEN"]

ArrayKeys == {"submodules", "replace", "connections", "gates"}

(* An array is bad when there was one before, unless that was empty: then
   there is no block yet. *)
ModuleArray ==
  /\ InModule /\ Key \in ArrayKeys
  /\ LET size == toks[walk.i + 1].size
     IN IF ~Is(toks, walk.i + 1, "ARRAY") \/ M[Key] # <<>>
        THEN Refuse("bad") /\ UNCHANGED <<net, blocks>>
        ELSE /\ Becomes([M EXCEPT ![Key] = [j \in 1..size |-> ArrayOf(Key).zero]])
             /\ blocks' = IF size > 0 THEN blocks + 1 ELSE blocks
             /\ Continue([walk EXCEPT !.state = ArrayOf(Key).state, !.obj_i = @ + 1, !.i = @ + 2,
                                      !.arr_i = 0, !.arr_n = size])

(* The params of a module or of the network are read in a state of their own. *)
OpenParams(here, state) ==
  /\ here /\ Key = "params"
  /\ IF Is(toks, walk.i + 1, "ARRAY")
     THEN Continue([walk EXCEPT !.state = state, !.obj_i = @ + 1, !.i = @ + 1])
     ELSE Refuse("bad")
  /\ UNCHANGED <<net, blocks>>

ModuleParams == OpenParams(InModule, "STATE_MODULE_PARAMS")

BadModuleKey ==
  /\ InModule /\ Key \notin ModuleTexts \cup ArrayKeys \cup {"params"}
  /\ Refuse("bad")
  /\ UNCHANGED <<net, blocks>>

(* What is read at once goes on in state after, if it could be read. *)
ContinueWith(read, w) ==
  IF read.verdict = "ok" THEN Continue([w EXCEPT !.i = read.pos]) ELSE Refuse(read.verdict)

(* An empty array of params is no block. *)
ReadModuleParams ==
  /\ At("STATE_MODULE_PARAMS")
  /\ LET read == ReadParams(toks, walk.i)
     IN IF M.params # <<>>
        THEN Refuse("bad") /\ UNCHANGED <<net, blocks>>
        ELSE /\ Becomes([M EXCEPT !.params = read.node])
             /\ blocks' = blocks + (IF read.node = <<>> THEN 0 ELSE read.blocks)
             /\ ContinueWith(read, [walk EXCEPT !.state = "STATE_MODULE"])

----------------------------------------------------------------------------
(* The elements of the module's arrays.  After the last, the module goes on. *)
Betweens ==
  {"STATE_MODULE_SUBMODULES_BETWEEN", "STATE_MODULE_REPLACE_BETWEEN",
   "STATE_MODULE_CONNECTIONS_BETWEEN", "STATE_MODULE_GATES_BETWEEN"}

(* Slip: the state stays when the array is at its end. *)
ArrayStays(w) == w

ArrayDone(w) == [w EXCEPT !.state = "STATE_MODULE"]

LeaveArray ==
  /\ stage = "reading" /\ walk.state \in Betweens /\ walk.arr_i = walk.arr_n
  /\ Continue(ArrayDone(walk))
  /\ UNCHANGED <<net, blocks>>

ElementState(state) ==
  CASE state = "STATE_MODULE_SUBMODULES_BETWEEN" -> "STATE_MODULE_SUBMODULE"
    [] state = "STATE_MODULE_REPLACE_BETWEEN" -> "STATE_MODULE_REPLACE"
    [] state = "STATE_MODULE_CONNECTIONS_BETWEEN" -> "STATE_MODULE_CONNECTION"
    [] state = "STATE_MODULE_GATES_BETWEEN" -> "STATE_MODULE_GATE"

EnterElement ==
  /\ stage = "reading" /\ walk.state \in Betweens /\ walk.arr_i # walk.arr_n
  /\ IF ~Is(toks, walk.i, "OBJECT") THEN Refuse("bad")
     ELSE Continue([walk EXCEPT !.state = ElementState(@),
                               !.i = IF walk.state = "STATE_MODULE_GATES_BETWEEN" THEN @ + 1 ELSE @,
                               !.subobj_i = 0, !.subobj_n = toks[walk.i].size])
  /\ UNCHANGED <<net, blocks>>

(* An element that a function of its own reads, from the token of its object. *)
ReadElement(state, array, read, element, between) ==
  /\ At(state)
  /\ Becomes([M EXCEPT ![array][walk.arr_i + 1] = element])
  /\ blocks' = blocks + read.blocks
  /\ ContinueWith(read, [walk EXCEPT !.state = between, !.arr_i = @ + 1])

ReadSubmodule ==
  LET read == ParseSubmodule(toks, walk.i)
  IN ReadElement("STATE_MODULE_SUBMODULE", "submodules", read, read.wrapper,
                 "STATE_MODULE_SUBMODULES_BETWEEN")

ReadConnection ==
  LET read == ParseConnection(toks, walk.i)
  IN ReadElement("STATE_MODULE_CONNECTION", "connections", read, read.wrapper,
                 "STATE_MODULE_CONNECTIONS_BETWEEN")

ReadReplace ==
  LET read == ParseReplace(toks, walk.i)
  IN ReadElement("STATE_MODULE_REPLACE", "replace", read, read.node,
                 "STATE_MODULE_REPLACE_BETWEEN")

(* A gate is an object of one pair, its name and size.  The program goes over
   all pairs there are: each is put in the place of the one before, whose two
   texts are lost. *)
GatePair ==
  /\ At("STATE_MODULE_GATE") /\ walk.subobj_i # walk.subobj_n
  /\ Becomes([M EXCEPT !.gates[walk.arr_i + 1] =
              [name |-> <<toks[walk.i].text>>, size |-> <<toks[walk.i + 1].text>>]])
  /\ blocks' = blocks + 2
  /\ Continue([walk EXCEPT !.i = @ + 2, !.subobj_i = @ + 1])

GateDone ==
  /\ At("STATE_MODULE_GATE") /\ walk.subobj_i = walk.subobj_n
  /\ Continue([walk EXCEPT !.state = "STATE_MODULE_GATES_BETWEEN", !.arr_i = @ + 1])
  /\ UNCHANGED <<net, blocks>>

----------------------------------------------------------------------------
(* The pairs of the network. *)
NetworkDone ==
  /\ At("STATE_NETWORK") /\ walk.obj_i = walk.obj_n
  /\ Continue(ObjectDone(walk))
  /\ UNCHANGED <<net, blocks>>

InNetwork == At("STATE_NETWORK") /\ walk.obj_i # walk.obj_n

NetworkModule ==
  /\ InNetwork /\ Key = "module"
  /\ IF net.network[1].module # Null
     THEN Refuse("bad") /\ UNCHANGED <<net, blocks>>
     ELSE /\ net' = [net EXCEPT !.network[1].module = <<toks[walk.i + 1].text>>]
          /\ blocks' = blocks + 1
          /\ Continue([walk EXCEPT !.obj_i = @ + 1, !.i = @ + 2])

NetworkParams == OpenParams(InNetwork, "STATE_NETWORK_PARAMS")

BadNetworkKey ==
  /\ InNetwork /\ Key \notin {"module", "params"}
  /\ Refuse("bad")
  /\ UNCHANGED <<net, blocks>>

ReadNetworkParams ==
  /\ At("STATE_NETWORK_PARAMS")
  /\ LET read == ReadParams(toks, walk.i)
     IN IF net.network[1].params # <<>>
        THEN Refuse("bad") /\ UNCHANGED <<net, blocks>>
        ELSE /\ net' = [net EXCEPT !.network[1].params = read.node]
             /\ blocks' = blocks + (IF read.node = <<>> THEN 0 ELSE read.blocks)
             /\ ContinueWith(read, [walk EXCEPT !.state = "STATE_NETWORK"])

----------------------------------------------------------------------------
(* The caller destroys the definition when it is done with it, which is after
   all files were read: after an error it stops, and leaves it. *)
Destroy ==
  /\ stage = "idle" /\ k = Len(files)
  /\ LET torn == TearDown(net)
     IN /\ stage' = IF torn.null THEN "crashed" ELSE "destroyed"
        /\ blocks' = blocks - torn.frees
  /\ UNCHANGED <<files, k, toks, walk, net>>

ParserNext ==
  \/ ReadFile \/ Start \/ BadElement \/ OpenModule \/ OpenNetwork
  \/ ModuleDone \/ ModuleText \/ ModuleArray \/ ModuleParams \/ BadModuleKey \/ ReadModuleParams
  \/ LeaveArray \/ EnterElement \/ ReadSubmodule \/ ReadConnection \/ ReadReplace
  \/ GatePair \/ GateDone
  \/ NetworkDone \/ NetworkModule \/ NetworkParams \/ BadNetworkKey \/ ReadNetworkParams
  \/ Destroy

(* The program is sequential: a call that can go on does. *)
ParserSpec == ParserInit /\ [][ParserNext]_vars /\ WF_vars(ParserNext)
=============================================================================
