------------------------------ MODULE Meaning ------------------------------
(***************************************************************************)
(* What a definition means, said without stacks: by recursion over the     *)
(* definition, in an environment that maps each visible parameter to its   *)
(* value.  A parameter declared further inside replaces one of its name.   *)
(* A meaning is the set of nodes and gates of the network, the pairs of    *)
(* names that are to be connected, the names that a plain connection joins *)
(* to themselves ("loops"), the names that must exist ("uses"), whether    *)
(* every part of the definition makes sense ("ok"), whether a replacement   *)
(* is in it ("swaps"), and whether it is within what is described here     *)
(* ("plain": no all-match, no ring over nothing, no replacement inside     *)
(* one or for the nodes of a sibling, no new node beside an old one of its *)
(* name).                                                                  *)
(***************************************************************************)
EXTENDS Expand, TLC

Nothing == [ok |-> TRUE, plain |-> TRUE, swaps |-> FALSE, nodes |-> {},
            links |-> {}, loops |-> {}, uses |-> {}]

Broken == [Nothing EXCEPT !.ok = FALSE]

All(meanings) ==
  [ok    |-> \A m \in meanings : m.ok,
   plain |-> \A m \in meanings : m.plain,
   swaps |-> \E m \in meanings : m.swaps,
   nodes |-> UNION {m.nodes : m \in meanings},
   links |-> UNION {m.links : m \in meanings},
   loops |-> UNION {m.loops : m \in meanings},
   uses  |-> UNION {m.uses : m \in meanings}]

Known(env, e) == e.var \in DOMAIN env \cup {NoVar}

Val(env, e) == e.plus + IF e.var = NoVar THEN 0 ELSE env[e.var]

Bind(env, x, val) == x :> val @@ env

(* The environment after some parameters, each of which sees those before it. *)
WithParams(env, raw) ==
  LET add(acc, p) == IF acc.ok /\ Known(acc.env, p.value)
                     THEN [acc EXCEPT !.env = Bind(acc.env, p.name, Val(acc.env, p.value))]
                     ELSE [acc EXCEPT !.ok = FALSE]
  IN  FoldLeft(add, [ok |-> TRUE, env |-> env], raw)

NameKnown(env, pattern) ==
  \A k \in DOMAIN pattern : pattern[k][2] = None \/ Known(env, pattern[k][2])

Named(env, at, pattern) ==
  at \o [k \in DOMAIN pattern |->
           <<pattern[k][1],
             IF pattern[k][2] = None THEN -1 ELSE IndexPart(Val(env, pattern[k][2]))>>]

GatesMeaning(gates, at, env) ==
  IF \E k \in DOMAIN gates : ~Known(env, gates[k].size) THEN Broken
  ELSE LET indices(size) == IF size = 0 THEN {-1} ELSE 0..size - 1
           gatesOf(gate) == {<<Append(at, <<gate.name, k>>), "GATE">> :
                               k \in indices(Val(env, gate.size))}
       IN  [Nothing EXCEPT !.nodes = UNION {gatesOf(gates[k]) : k \in DOMAIN gates}]

----------------------------------------------------------------------------
RECURSIVE ModuleMeaning(_, _, _), SubMeaning(_, _, _), ConnMeaning(_, _, _)

(* Whether the names that a module uses are there, before anything in it is
   replaced, and no gate is joined to itself. *)
Connectable(m) ==
  LET of(type) == {node[1] : node \in {x \in m.nodes : x[2] = type}}
  IN  m.uses \subseteq of("NODE") \cup of("GATE") /\ m.loops \cap of("GATE") = {}

(* The nodes of these names make way for those of the submodule. *)
Swapped(whole, r, at, sub) ==
  LET stay == {node \in whole.nodes : ~Matches(at, node[1], r.nodes, r.atEnd)}
      both == All({whole, sub})
  IN  [both EXCEPT !.nodes = stay \cup sub.nodes, !.swaps = TRUE,
                   !.plain = /\ @ /\ ~sub.swaps
                             /\ {x[1] : x \in stay} \cap {x[1] : x \in sub.nodes} = {}
                             /\ Last(at)[2] = -1 =>
                                  \A l \in Labels : <<Last(at)[1], l>> \in Begins => l = Last(at)[1]]

ModuleMeaning(name, at, env) ==
  IF Hits(net, name) = {} THEN Broken
  ELSE LET module == FindModule(net, name)
           bound  == WithParams(env, module.params)
           gates  == GatesMeaning(module.gates, at, bound.env)
           subs   == {SubMeaning(module.subs[k], at, bound.env) : k \in DOMAIN module.subs}
           conns  == {ConnMeaning(module.conns[k], at, bound.env) : k \in DOMAIN module.conns}
           whole  == All({gates} \cup subs \cup conns)
       IN  IF ~bound.ok THEN Broken
           ELSE IF module.kind = "simple"
           THEN [gates EXCEPT !.nodes = @ \cup {<<at, "NODE">>}]
           ELSE FoldLeft(LAMBDA m, r : Swapped(m, r, at, SubMeaning(r.sub, at, bound.env)),
                         [whole EXCEPT !.ok = @ /\ Connectable(whole), !.uses = {}, !.loops = {}],
                         module.replace)

SubMeaning(sub, at, env) ==
  IF sub.kind = "cond"
  THEN IF ~Known(env, sub.test) THEN Broken
       ELSE LET branch == IF Val(env, sub.test) # 0 THEN sub.then ELSE sub.else
            IN  IF branch = None THEN Nothing ELSE SubMeaning(branch, at, env)
  ELSE LET bound == WithParams(env, sub.params)
           size  == IF sub.size = None THEN 0 ELSE Val(bound.env, sub.size)
           one(j) == Append(at, <<sub.name, j>>)
       IN  IF ~bound.ok \/ (sub.size # None /\ ~Known(bound.env, sub.size)) THEN Broken
           ELSE IF size <= 0 THEN ModuleMeaning(sub.module, one(-1), bound.env)
           ELSE All({ModuleMeaning(sub.module, one(j), Bind(bound.env, Index, j)) :
                       j \in 0..size - 1})

(* The pairs of a list that its shape connects. *)
Pairs(shape, count) ==
  CASE shape = "alllist" -> {p \in (1..count) \X (1..count) : p[1] < p[2]}
    [] shape = "line"    -> {<<k, k + 1>> : k \in 1..count - 1}
    [] shape = "ring"    -> {<<k, (k % count) + 1>> : k \in 1..count}

ConnMeaning(conn, at, env) ==
  CASE conn.kind = "match" -> [Nothing EXCEPT !.plain = FALSE]
    [] conn.kind = "link" ->
         IF NameKnown(env, conn.from) /\ NameKnown(env, conn.to)
         THEN LET from == Named(env, at, conn.from)
                  to   == Named(env, at, conn.to)
              IN  [Nothing EXCEPT !.links = {{from, to}}, !.loops = {from} \cap {to},
                                 !.uses = {from, to}]
         ELSE Broken
    [] conn.kind = "if" ->
         IF ~Known(env, conn.test) THEN Broken
         ELSE LET branch == IF Val(env, conn.test) # 0 THEN conn.then ELSE conn.else
              IN  IF branch = None THEN Nothing ELSE ConnMeaning(branch, at, env)
    [] OTHER ->
         IF ~Known(env, conn.start) \/ ~Known(env, conn.end) THEN Broken
         ELSE LET count  == Val(env, conn.end) - Val(env, conn.start)
                  inner(k) == Bind(env, conn.var, Val(env, conn.start) + k - 1)
              IN  IF count < 0 THEN Broken
                  ELSE IF conn.kind = "loop"
                  THEN All({ConnMeaning(conn.conn, at, inner(k)) : k \in 1..count})
                  ELSE IF count > 0 /\ ~NameKnown(inner(1), conn.nodes) THEN Broken
                  ELSE IF count = 0 THEN [Nothing EXCEPT !.plain = conn.kind # "ring"]
                  ELSE LET named(k) == Named(inner(k), at, conn.nodes)
                           pairs == Pairs(conn.kind, count)
                       IN  [Nothing EXCEPT !.links = {{named(p[1]), named(p[2])} : p \in pairs},
                                           !.uses = {named(k) : k \in 1..count}]

NetworkMeaning ==
  LET bound == WithParams([x \in {} |-> 0], net.params)
  IN  IF bound.ok THEN ModuleMeaning(net.module, <<<<Root, -1>>>>, bound.env) ELSE Broken

----------------------------------------------------------------------------
(* The nodes and gates of the graph other than the automatic ones and those
   that were replaced. *)
Expanded == {i \in DOMAIN g : Live(g[i]) /\ Last(g[i].name)[1] # AutoLabel}

(* An expansion that succeeds was of a definition that makes sense; it made the
   nodes and gates that the definition means, each once, and connected the pairs
   it means, no more and no fewer: each expression was evaluated with the
   innermost value of its variable, each name under its module's path. *)
BuildsTheMeaning ==
  res = "ok" =>
    LET meaning == NetworkMeaning
    IN  meaning.plain =>
          /\ meaning.ok
          /\ {<<g[i].name, g[i].type>> : i \in Expanded} = meaning.nodes
          /\ Cardinality(Expanded) = Cardinality(meaning.nodes)
          /\ {{g[pair[1]].name, g[pair[2]].name} : pair \in asked} = meaning.links

(* The names in scope when the function in hand evaluates something. *)
InScope ==
  [k \in DOMAIN params |-> params[k].name]
    \o IF calls # <<>> /\ Top.node.kind \in {"alllist", "line", "ring"}
       THEN <<Top.node.var>> ELSE <<>>

(* A definition that makes sense is rejected for one reason only: a parameter
   that is in scope cannot be seen, because the name of a later one begins with
   its name.  No other sensible definition fails. *)
RejectsWithCause ==
  (res \notin {"run", "ok"} \/ err # "ok") /\ NetworkMeaning.ok /\ NetworkMeaning.plain =>
     /\ res = "EVAL"
     /\ \E k, l \in DOMAIN InScope :
          k < l /\ InScope[k] # InScope[l] /\ <<InScope[k], InScope[l]>> \in Begins
=============================================================================
