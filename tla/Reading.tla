------------------------------- MODULE Reading -------------------------------
(***************************************************************************)
(* What a document defines, read off the tree: an object is a partial      *)
(* function from keys to values, without positions, tokens or counters.    *)
(* Properties of Parser that compare with it.                              *)
(*                                                                         *)
(* What a document may be is stated with a set of rules.  Without any it   *)
(* is what can be read with nothing mixed up, each rule adds what          *)
(* grammar.ebnf demands besides, and with all of Rules it is the grammar,  *)
(* apart from the order of keys and elements.                              *)
(***************************************************************************)
EXTENDS Parser

Rules ==
  {"gates",        \* a gate is one pair
   "ends",         \* a plain connection has from and to
   "conditions",   \* a condition has an if
   "lists",        \* a ring, line or all has start, end and conn
   "submodules",   \* a plain submodule has a name and a module
   "modules",      \* a module has a name
   "sections",     \* a simple module has name, attributes and gates at most
   "once",         \* an array is given once
   "network",      \* the network has a module
   "words"}        \* a text is a quoted word

KeysOf(obj) == {obj.items[j].key : j \in DOMAIN obj.items}

Has(obj, key) == key \in KeysOf(obj)

(* The value of a key; of a key that comes more than once, the last. *)
Value(obj, key) ==
  obj.items[CHOOSE j \in DOMAIN obj.items :
              /\ obj.items[j].key = key
              /\ \A n \in j + 1..Len(obj.items) : obj.items[n].key # key].val

Text(obj, key) == IF Has(obj, key) THEN <<Value(obj, key).text>> ELSE Null

Values(arr) == [j \in DOMAIN arr.items |-> arr.items[j].val]

ValuesOf(obj, key) == IF Has(obj, key) THEN Values(Value(obj, key)) ELSE <<>>

AllOf(obj, key, OK(_, _), rules) ==
  \A j \in DOMAIN ValuesOf(obj, key) : OK(ValuesOf(obj, key)[j], rules)

(* No keys but these; the required ones, where there is a rule for it. *)
HasKeys(obj, required, optional, ruled) ==
  KeysOf(obj) \subseteq required \cup optional /\ (ruled => required \subseteq KeysOf(obj))

(* Each key once.  Of these arrays one may come again after an empty one. *)
Once(obj, arrays) ==
  \A j, n \in DOMAIN obj.items :
    j < n /\ obj.items[j].key = obj.items[n].key =>
      obj.items[j].key \in arrays /\ obj.items[j].val.items = <<>>

ArraysAt(obj, arrays) ==
  \A j \in DOMAIN obj.items : obj.items[j].key \in arrays => obj.items[j].val.type = "ARRAY"

(* The values that are taken for texts have nothing inside: their tokens would
   be taken for keys. *)
TextsOK(obj, keys, rules) ==
  \A j \in DOMAIN obj.items :
    obj.items[j].key \in keys =>
      /\ obj.items[j].val.items = <<>>
      /\ "words" \in rules => obj.items[j].val.type = "STRING"

IsObj(val) == val.type = "OBJECT"

First(obj) == obj.items[1].key

(* Some place of the object has a before b. *)
Before(obj, a, b) ==
  \E j, n \in DOMAIN obj.items : j < n /\ obj.items[j].key = a /\ obj.items[n].key = b

ParamOK(val, rules) == IsObj(val) /\ Len(val.items) = 1 /\ val.items[1].val.type = "STRING"

ParamOf(val) == [name |-> <<First(val)>>, value |-> <<val.items[1].val.text>>]

ParamsOf(obj) == [j \in DOMAIN ValuesOf(obj, "params") |-> ParamOf(ValuesOf(obj, "params")[j])]

(* "else" needs a "then", and that before it. *)
ElseOK(obj) == Has(obj, "else") => Before(obj, "then", "else")

Fields(obj, texts) == [key \in texts |-> Text(obj, key)]

----------------------------------------------------------------------------
Products == {"cartesian", "tensor", "lexicographical", "strong"}

RECURSIVE SubOK(_, _)
SubOK(val, rules) ==
  /\ IsObj(val) /\ Once(val, {})
  /\ LET Pairs(key) == Value(val, key).type = "ARRAY" /\ Len(Value(val, key).items) = 2
                         /\ AllOf(val, key, SubOK, rules)
     IN \/ \E key \in Products : KeysOf(val) = {key} /\ Pairs(key)
        \/ /\ KeysOf(val) = {"rooted", "root"} /\ Pairs("rooted")
           /\ Value(val, "root").type = "STRING"
        \/ /\ HasKeys(val, {"if", "then"}, {"else"}, "conditions" \in rules)
           /\ Len(val.items) > 1 /\ ElseOK(val)
           /\ \A key \in KeysOf(val) \ {"if"} : SubOK(Value(val, key), rules)
           /\ TextsOK(val, {"if"}, rules)
        \/ /\ HasKeys(val, {"name", "module"}, {"size", "params"}, "submodules" \in rules)
           /\ Len(val.items) # 1
           /\ ArraysAt(val, {"params"}) /\ AllOf(val, "params", ParamOK, rules)
           /\ TextsOK(val, {"name", "module", "size"}, rules)

RECURSIVE SubOf(_)
SubOf(val) ==
  LET Nested(key) == IF Has(val, key) THEN <<SubOf(Value(val, key))>> ELSE Null
      Wrap(type, texts, sub, params, prod) ==
        [type |-> type,
         ptr |-> <<[text |-> Fields(val, texts), sub |-> sub, params |-> params, prod |-> prod]>>]
      Product(key) ==
        Wrap("SUBM_HAS_PROD", {"root"},
             [x \in {"a", "b"} |-> <<SubOf(ValuesOf(val, key)[IF x = "a" THEN 1 ELSE 2])>>],
             Null, ProductType(key))
      prodKeys == KeysOf(val) \cap (Products \cup {"rooted"})
  IN IF prodKeys # {} THEN Product(CHOOSE key \in prodKeys : TRUE)
     ELSE IF KeysOf(val) \cap {"if", "then", "else"} # {}
     THEN Wrap("SUBM_HAS_COND", {"if"}, [key \in {"then", "else"} |-> Nested(key)], Null, "")
     ELSE Wrap("SUBM_HAS_SUBM", {"name", "module", "size"}, <<>>,
               IF Has(val, "params") THEN <<ParamsOf(val)>> ELSE Null, "")

----------------------------------------------------------------------------
Lists == {"ring", "line", "all"}
ListTexts(key) == {key, "start", "end", "conn", "attributes"}

ListTypeOf(key) ==
  CASE key = "ring" -> "CONN_HAS_RING" [] key = "line" -> "CONN_HAS_LINE"
    [] key = "all" -> "CONN_HAS_ALLLIST"

(* The key that tells the kind of a list, and of an all-match, comes first. *)
RECURSIVE ConnOK(_, _)
ConnOK(val, rules) ==
  /\ IsObj(val) /\ Once(val, {})
  /\ LET size == Len(val.items)
     IN \/ /\ size > 1 /\ HasKeys(val, {"from", "to"}, {"attributes"}, "ends" \in rules)
           /\ TextsOK(val, KeysOf(val), rules)
        \/ /\ size > 1 /\ ElseOK(val)
           /\ HasKeys(val, {"if", "then"}, {"else"}, "conditions" \in rules)
           /\ \A key \in KeysOf(val) \ {"if"} : ConnOK(Value(val, key), rules)
           /\ TextsOK(val, {"if"}, rules)
        \/ /\ KeysOf(val) = {"loop", "start", "end", "conn"}
           /\ ConnOK(Value(val, "conn"), rules)
           /\ TextsOK(val, {"loop", "start", "end"}, rules)
        \/ \E key \in Lists :
             /\ size \in 4..5 /\ First(val) = key /\ val.items[1].val.type # "OBJECT"
             /\ HasKeys(val, ListTexts(key) \ {"attributes"}, {"attributes"}, "lists" \in rules)
             /\ TextsOK(val, KeysOf(val), rules)
        \/ /\ size \in 1..2 /\ First(val) = "all-match"
           /\ KeysOf(val) \subseteq {"all-match", "attributes"}
           /\ TextsOK(val, KeysOf(val), rules)

RECURSIVE ConnectionOf(_)
ConnectionOf(val) ==
  LET Nested(key) == IF Has(val, key) THEN <<ConnectionOf(Value(val, key))>> ELSE Null
      Wrap(type, texts, subs) ==
        [type |-> type,
         ptr |-> <<[text |-> Fields(val, texts), sub |-> [key \in subs |-> Nested(key)],
                    params |-> Null, prod |-> ""]>>]
      lists == KeysOf(val) \cap Lists
  IN IF lists # {}
     THEN LET key == CHOOSE list \in lists : TRUE IN Wrap(ListTypeOf(key), ListTexts(key), {})
     ELSE IF Has(val, "loop") THEN Wrap("CONN_HAS_LOOP", {"loop", "start", "end"}, {"conn"})
     ELSE IF Has(val, "all-match") THEN Wrap("CONN_HAS_ALL", {"all-match", "attributes"}, {})
     ELSE IF KeysOf(val) \cap {"if", "then", "else"} # {}
     THEN Wrap("CONN_HAS_COND", {"if"}, {"then", "else"})
     ELSE Wrap("CONN_HAS_CONN", {"from", "to", "attributes"}, {})

----------------------------------------------------------------------------
ReplaceOK(val, rules) ==
  /\ IsObj(val) /\ Len(val.items) = 2 /\ KeysOf(val) = {"nodes", "with"}
  /\ TextsOK(val, {"nodes"}, rules) /\ SubOK(Value(val, "with"), rules)

ReplaceOf(val) ==
  [text |-> Fields(val, {"nodes"}), sub |-> [x \in {"with"} |-> <<SubOf(Value(val, "with"))>>]]

GateOK(val, rules) ==
  /\ IsObj(val) /\ TextsOK(val, KeysOf(val), rules)
  /\ "gates" \in rules => Len(val.items) = 1

GateOf(val) == [name |-> <<First(val)>>, size |-> <<val.items[1].val.text>>]

Element(val) == val.items[1].val
ElementKind(val) == IF IsObj(val) /\ Len(val.items) = 1 THEN First(val) ELSE ""

ModuleOK(val, rules) ==
  LET m == Element(val)
      simple == ElementKind(val) = "simplemodule"
      texts == IF simple THEN {"name", "attributes"} ELSE {"name"}
      all == ArrayKeys \cup {"params"}
      arrays == IF simple /\ "sections" \in rules THEN {"gates"} ELSE all
  IN /\ ElementKind(val) \in ModuleKinds
     /\ IsObj(m)
     /\ HasKeys(m, {"name"}, texts \cup arrays, "modules" \in rules)
     /\ Once(m, IF "once" \in rules THEN {} ELSE all) /\ ArraysAt(m, all)
     /\ \A j \in DOMAIN m.items : m.items[j].key \in texts => m.items[j].val.type = "STRING"
     /\ AllOf(m, "params", ParamOK, rules) /\ AllOf(m, "gates", GateOK, rules)
     /\ AllOf(m, "submodules", SubOK, rules) /\ AllOf(m, "connections", ConnOK, rules)
     /\ AllOf(m, "replace", ReplaceOK, rules)

ModuleOf(val) ==
  LET m == Element(val)
      Each(key, Of(_)) == [j \in DOMAIN ValuesOf(m, key) |-> Of(ValuesOf(m, key)[j])]
  IN [type |-> IF ElementKind(val) = "module" THEN "MODULE_COMPOUND" ELSE "MODULE_SIMPLE",
      text |-> Fields(m, {"name", "attributes"}),
      params |-> ParamsOf(m), gates |-> Each("gates", GateOf),
      submodules |-> Each("submodules", SubOf), connections |-> Each("connections", ConnectionOf),
      replace |-> Each("replace", ReplaceOf)]

NetworkOK(val, rules) ==
  LET m == Element(val)
  IN /\ ElementKind(val) = "network"
     /\ IsObj(m) /\ HasKeys(m, {"module"}, {"params"}, "network" \in rules)
     /\ TextsOK(m, {"module"}, rules)
     /\ Once(m, IF "once" \in rules THEN {} ELSE {"params"})
     /\ ArraysAt(m, {"params"}) /\ AllOf(m, "params", ParamOK, rules)

NetworkOf(val) == [module |-> Text(Element(val), "module"), params |-> ParamsOf(Element(val))]

----------------------------------------------------------------------------
(* The first n files together, as one list of elements. *)
Elements(n) == FlattenSeq([j \in 1..n |-> Values(files[j].tree)])

IsModule(val) == ElementKind(val) \in ModuleKinds
IsNetwork(val) == ElementKind(val) = "network"

(* An empty file after files without a module: realloc(p, 0). *)
EmptyAgain(n) == \E j \in 2..n : files[j].tree.items = <<>> /\ SelectSeq(Elements(j), IsModule) = <<>>

FilesAre(n, rules) ==
  /\ \A j \in 1..n : files[j].tree.type = "ARRAY"
  /\ \A j \in DOMAIN Elements(n) :
       ModuleOK(Elements(n)[j], rules) \/ NetworkOK(Elements(n)[j], rules)
  /\ Len(SelectSeq(Elements(n), IsNetwork)) <= 1
  /\ ~EmptyAgain(n)

Defined(n) ==
  LET modules == SelectSeq(Elements(n), IsModule)
      networks == SelectSeq(Elements(n), IsNetwork)
  IN [modules |-> [j \in DOMAIN modules |-> ModuleOf(modules[j])],
      network |-> [j \in DOMAIN networks |-> NetworkOf(networks[j])]]

----------------------------------------------------------------------------
(* The places of a walk exist: the module that is being read has a slot. *)
ParserTypeOK ==
  /\ k \in 0..Len(files)
  /\ stage \in {"idle", "reading", "TOP_E_TOKEN", "TOP_E_ALLOC", "undefined", "destroyed", "crashed"}
  /\ walk.i \in 1..Len(toks) + 1
  /\ walk.m_i \in 0..Len(net.modules)
  /\ net.n_modules \in 0..Len(net.modules)
  /\ walk.obj_i \in 0..walk.obj_n /\ walk.arr_i \in 0..walk.arr_n /\ walk.subobj_i \in 0..walk.subobj_n

(* What the program takes is what the documents define, wherever the keys
   stand and however the values nest: no key is missed, none is read into the
   structure of another object, files add up, and no text that was given is
   replaced by another of the same key.  A key that was left out is NULL.
   Documents that break rules of the grammar are taken, too, all of Rules
   (TakenIsGrammatical).  Nothing says which gate an object of two pairs is, so
   files with one are not compared: the program drops all pairs but the last. *)
AcceptedIsMeant ==
  stage = "idle" =>
    /\ FilesAre(k, {})
    /\ FilesAre(k, {"gates"}) =>
         Defined(k) = [modules |-> SubSeq(net.modules, 1, net.n_modules), network |-> net.network]

(* A document is refused only if something is wrong with it, and no rule that
   the program could do without is: a key nobody knows, one given twice, a value
   of another type, or the key that tells the kind of a list, or of an
   all-match, behind others, and "else" before "then", where the grammar has
   them first. *)
RefusedWithCause == stage \in {"TOP_E_TOKEN", "TOP_E_ALLOC", "undefined"} => ~FilesAre(k + 1, {})

(* Reading a file leaves the modules of the files before, and their network. *)
FilesAddUp ==
  [][stage = "reading" /\ walk.state # "STATE_START" =>
       /\ SubSeq(net'.modules, 1, walk.base) = SubSeq(net.modules, 1, walk.base)
       /\ net.network # Null /\ ~At("STATE_NETWORK") /\ ~At("STATE_NETWORK_PARAMS") =>
            net'.network = net.network]_vars

(* The calls of a program come to an end. *)
ReadingEnds == <>(stage \notin {"idle", "reading"})

(* What is never given back: the block of an empty array of params in a
   submodule, and the texts of gates that another pair of their object
   replaced. *)
RECURSIVE EmptyParams(_)
EmptyParams(wrapper) ==
  LET node == wrapper.ptr[1]
      Nested(x) == IF node.sub[x] = Null THEN 0 ELSE EmptyParams(node.sub[x][1])
  IN (IF node.params = <<<<>>>> THEN 1 ELSE 0) + MapThenSumSet(Nested, DOMAIN node.sub)

LostIn(val) ==
  LET m == Element(val)
      gates == ValuesOf(m, "gates")
      Texts(j) == IF gates[j].items = <<>> THEN 0 ELSE 2 * (Len(gates[j].items) - 1)
      Of(sub) == EmptyParams(SubOf(sub))
      subs == ValuesOf(m, "submodules") \o
                [j \in DOMAIN ValuesOf(m, "replace") |-> Value(ValuesOf(m, "replace")[j], "with")]
  IN MapThenSumSet(Texts, DOMAIN gates) + MapThenSumSet(LAMBDA j : Of(subs[j]), DOMAIN subs)

Lost(n) == FoldLeft(LAMBDA sum, val : sum + LostIn(val), 0, SelectSeq(Elements(n), IsModule))

(* Destroying what was read goes through no NULL pointer, whatever keys were
   left out, and gives every block back but those. *)
GivesBack ==
  /\ stage # "crashed"
  /\ stage = "destroyed" => blocks = Lost(k)

----------------------------------------------------------------------------
(* What grammar.ebnf and the comments of jsmn.h say and the code does not do. *)

(* grammar.ebnf: a rooted product may be called "root" or "rooted". *)
GrammarRooted(val) ==
  /\ IsObj(val) /\ Len(val.items) = 2
  /\ First(val) \in {"root", "rooted"} /\ val.items[2].key = "root"
  /\ val.items[2].val.type = "STRING"
  /\ Len(val.items[1].val.items) = 2
  /\ \A j \in 1..2 : SubOK(val.items[1].val.items[j].val, Rules)

SubmodulesOf(n) ==
  UNION {Range(ValuesOf(Element(val), "submodules")) :
           val \in Range(SelectSeq(Elements(n), IsModule))}

(* A rooted product as the grammar has it is read. *)
BothRootNames ==
  stage = "TOP_E_TOKEN" => \E val \in SubmodulesOf(k + 1) : ~GrammarRooted(val)

(* grammar.ebnf: what is taken obeys every one of its rules. *)
TakenIsGrammatical == stage = "destroyed" => FilesAre(k, Rules)

(* A document that breaks off is refused: jsmn.h has an error for it. *)
WholeDocuments == stage = "destroyed" => \A j \in DOMAIN files : files[j].whole
=============================================================================
