------------------------------ MODULE MCParser ------------------------------
(***************************************************************************)
(* Documents with every construct of the grammar, each document with every *)
(* single change that a writer may make to it at any depth, documents that *)
(* break off, and several of them one after the other.                     *)
(***************************************************************************)
EXTENDS Reading

S(key, text) == Pair(key, Str(text))
Params(pairs) == Pair("params", Arr(pairs))
One(key, text) == Obj(<<S(key, text)>>)

Plain(name) == Obj(<<S("name", name), S("module", "leaf")>>)
Vector == Obj(<<S("name", "v"), S("module", "leaf"), S("size", "k"), Params(<<One("h", "1")>>)>>)
IfSub == Obj(<<S("if", "h"), Pair("then", Plain("x")), Pair("else", Vector)>>)
Prod(name) == Obj(<<Pair(name, Arr(<<Plain("x"), Plain("y")>>))>>)
Rooted(b) == Obj(<<Pair("rooted", Arr(<<Plain("x"), b>>)), S("root", "y")>>)

Link == Obj(<<S("from", "x"), S("to", "y"), S("attributes", "w")>>)
Short == Obj(<<S("from", "x"), S("to", "y")>>)
LoopOf(conn) == Obj(<<S("loop", "i"), S("start", "0"), S("end", "k"), Pair("conn", conn)>>)
List(kind) ==
  Obj(<<S(kind, "i"), S("start", "0"), S("end", "k"), S("conn", "v"), S("attributes", "w")>>)
Match == Obj(<<S("all-match", "r"), S("attributes", "w")>>)
IfConn(a, b) == Obj(<<S("if", "h"), Pair("then", a), Pair("else", b)>>)

Mod(pairs) == Obj(<<Pair("module", Obj(<<S("name", "m")>> \o pairs))>>)
Simple(pairs) == Obj(<<Pair("simplemodule", Obj(<<S("name", "leaf")>> \o pairs))>>)
Net(pairs) == Obj(<<Pair("network", Obj(<<S("module", "m")>> \o pairs))>>)

Subs(subs) == Mod(<<Pair("submodules", Arr(subs))>>)
Conns(conns) == Mod(<<Pair("connections", Arr(conns))>>)
Gates(pairs) == Pair("gates", Arr(pairs))

(* Documents as the grammar has them. *)
Bases ==
  {Arr(<<Simple(<<S("attributes", "w"), Gates(<<One("p", "2"), One("q", "n")>>)>>),
         Net(<<Params(<<One("k", "3"), One("h", "2")>>)>>)>>),
   Arr(<<Mod(<<Params(<<One("k", "3")>>), Gates(<<One("p", "k")>>),
               Pair("submodules", Arr(<<Plain("x")>>)), Pair("connections", Arr(<<Short>>)),
               Pair("replace", Arr(<<Obj(<<S("nodes", "r"), Pair("with", Plain("z"))>>)>>))>>)>>),
   Arr(<<Subs(<<Vector, Plain("x")>>)>>), Arr(<<Subs(<<IfSub>>)>>),
   Arr(<<Subs(<<Prod("cartesian")>>)>>), Arr(<<Subs(<<Prod("strong"), Prod("tensor")>>)>>),
   Arr(<<Subs(<<Rooted(Rooted(Plain("z")))>>)>>), Arr(<<Subs(<<Rooted(Prod("lexicographical"))>>)>>),
   Arr(<<Conns(<<Link, Short>>)>>), Arr(<<Conns(<<LoopOf(Link)>>)>>),
   Arr(<<Conns(<<LoopOf(LoopOf(Match))>>)>>), Arr(<<Conns(<<IfConn(Link, Match)>>)>>),
   Arr(<<Conns(<<List("ring")>>)>>), Arr(<<Conns(<<IfConn(List("line"), List("all"))>>)>>),
   Arr(<<Mod(<<Pair("connections", Arr(<<>>)), Gates(<<One("p", "k")>>)>>), Net(<<Params(<<>>)>>)>>),
   Arr(<<Net(<<>>)>>), Arr(<<>>)}

(* The changes: a pair or element left out, given twice, or moved behind the
   next; a key or a value in the place of another. *)
Words == {"name", "size", "attributes", "to", "conn", "start", "then", "else", "if", "root",
          "rooted", "ring", "all-match", "params", "gates", "module", "q"}
Fillers == {Str("x"), Arr(<<>>), Obj(<<>>), One("to", "x"), One("module", "x")}

Without(items) == {RemoveAt(items, j) : j \in DOMAIN items}
Twice(items) == {Append(items, items[j]) : j \in DOMAIN items}
Swapped(items) ==
  {[items EXCEPT ![j] = items[j + 1], ![j + 1] = items[j]] : j \in 1..Len(items) - 1}
Renamed(items) == {[items EXCEPT ![j].key = word] : j \in DOMAIN items, word \in Words}
Refilled(items) == {[items EXCEPT ![j].val = val] : j \in DOMAIN items, val \in Fillers}

RECURSIVE Changed(_)
Changed(val) ==
  LET here == Without(val.items) \cup Twice(val.items) \cup Swapped(val.items)
                \cup Refilled(val.items)
                \cup IF val.type = "OBJECT" THEN Renamed(val.items) ELSE {}
      below(j) == {[val.items EXCEPT ![j].val = other] : other \in Changed(val.items[j].val)}
  IN {[val EXCEPT !.items = items] : items \in here \cup UNION {below(j) : j \in DOMAIN val.items}}

Doc(tree) == [tree |-> tree, whole |-> TRUE]
Broken(tree) == [tree |-> tree, whole |-> FALSE]

MCSingles == {<<Doc(tree)>> : tree \in Bases \cup UNION {Changed(base) : base \in Bases}}

(* Several files, in any order and number up to three. *)
Small ==
  {Arr(<<>>), Arr(<<Net(<<>>)>>), Arr(<<Simple(<<>>)>>), Arr(<<Net(<<>>), Mod(<<>>)>>),
   Arr(<<Subs(<<Plain("x")>>), Net(<<Params(<<One("k", "3")>>)>>), Simple(<<>>)>>)}

MCSequences ==
  {<<>>} \cup {<<Doc(a), Doc(b)>> : a, b \in Small} \cup {<<Doc(a), Doc(b), Doc(c)>> : a, b, c \in Small}

MCInputs == MCSingles \cup MCSequences

(* Enough to come through every state of the loop. *)
Every ==
  Arr(<<Simple(<<Gates(<<One("p", "2"), Obj(<<>>)>>)>>),
        Mod(<<Params(<<One("k", "3")>>), Pair("submodules", Arr(<<Plain("x"), Plain("y")>>)),
              Pair("connections", Arr(<<Short, Obj(<<S("all-match", "r")>>)>>)), Pair("replace", Arr(<<>>))>>),
        Net(<<Params(<<One("k", "3"), One("h", "2")>>)>>)>>)

MCShort == MCSequences \cup {<<Doc(tree)>> : tree \in Cuts(Every)}

(* Where the code and the grammar differ. *)
RootNamed(name) == Obj(<<Pair(name, Arr(<<Plain("x"), Plain("y")>>)), S("root", "y")>>)
MCRooted == {<<Doc(Arr(<<Subs(<<RootNamed(name)>>)>>))>> : name \in {"root", "rooted"}}

(* A document for each rule that breaks it and no other. *)
Unruly ==
  [gates      |-> Simple(<<Gates(<<Obj(<<S("p", "2"), S("q", "n")>>)>>)>>),
   ends       |-> Conns(<<Obj(<<S("from", "x"), S("attributes", "w")>>)>>),
   conditions |-> Subs(<<Obj(<<Pair("then", Plain("x")), Pair("else", Plain("y"))>>)>>),
   lists      |-> Conns(<<Obj(<<S("ring", "i"), S("start", "0"), S("end", "k"), S("attributes", "w")>>)>>),
   submodules |-> Subs(<<Obj(<<S("name", "x"), S("size", "k")>>)>>),
   modules    |-> Obj(<<Pair("module", Obj(<<>>))>>),
   sections   |-> Simple(<<Pair("submodules", Arr(<<Plain("x")>>))>>),
   once       |-> Mod(<<Gates(<<>>), Gates(<<One("p", "2")>>)>>),
   network    |-> Obj(<<Pair("network", Obj(<<>>))>>),
   words      |-> Conns(<<Obj(<<S("from", "x"), Pair("to", Arr(<<>>))>>)>>)]

Obeys(element, rules) == ModuleOK(element, rules) \/ NetworkOK(element, rules)

ASSUME BasesObeyTheGrammar ==
  \A base \in Bases : \A j \in DOMAIN base.items : Obeys(base.items[j].val, Rules)

ASSUME UnrulyBreakOneRule ==
  /\ DOMAIN Unruly = Rules
  /\ \A rule \in Rules : Obeys(Unruly[rule], Rules \ {rule}) /\ ~Obeys(Unruly[rule], {rule})

(* Documents that obey the grammar, and one with all of those elements,    *)
(* the network last.                                                       *)
UnrulyOrder ==
  <<"gates", "ends", "conditions", "lists", "submodules",
    "modules", "sections", "once", "words", "network">>

MCGrammar ==
  {<<Doc(base)>> : base \in Bases}
    \cup {<<Doc(Arr([j \in DOMAIN UnrulyOrder |-> Unruly[UnrulyOrder[j]]]))>>}

MCBroken == {<<Broken(cut)>> : cut \in UNION {Cuts(base) \ {base} : base \in Bases}}
=============================================================================
