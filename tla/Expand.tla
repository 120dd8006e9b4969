------------------------------- MODULE Expand -------------------------------
(***************************************************************************)
(* The expansion of a definition (topologies.c): topologies_definition_    *)
(* to_graph, expand_module, add_submodule, enter_and_expand_module and     *)
(* traverse_and_add_conns and do_replace as an interpreter whose call      *)
(* stack is a variable.  What it does to the graph are the operations of   *)
(* Wiring and Replace, called with the names that the two stacks           *)
(* (parameters and path) give at that moment.  Products are not part of    *)
(* this module.                                                            *)
(***************************************************************************)
EXTENDS Replace, Scope

CONSTANTS Networks,    \* bound: the definitions that are expanded
          Modules,     \* the modules, submodules and connections in them
          Subs,
          Conns,
          ModuleNames,
          Index,       \* the parameter "index" of a vector of submodules
          Root,        \* the label "n" of the outermost module
          None         \* an absent size, or an absent else

VARIABLES net,     \* the definition
          calls,   \* the call stack, innermost call last
          params,  \* the parameter stack
          path,    \* the name stack
          res      \* "run" while expanding, "ok", or the error of a definition

wiring == <<g, job, err, asked>>   \* see Wiring

expandVars == <<net, calls, params, path, res, wiring>>

(* A name in a connection: labels with an index expression or None. *)
NamePattern == Seq(Labels \X (Expr \cup {None}))

(* A pattern is the set of labels it finds, anywhere in a name or at its end. *)
Replacement == [nodes : SUBSET Labels, atEnd : BOOLEAN, sub : Subs]

Module == [kind : {"simple", "compound"}, name : ModuleNames, params : Seq(RawParam),
           gates : Seq([name : Labels, size : Expr]), subs : Seq(Subs), conns : Seq(Conns),
           replace : Seq(Replacement)]

Network == [kind : {"network"}, module : ModuleNames, params : Seq(RawParam),
            modules : Seq(Modules)]

PlainSub == [kind : {"plain"}, name : Labels, module : ModuleNames,
             size : Expr \cup {None}, params : Seq(RawParam)]

CondSub == [kind : {"cond"}, test : Expr, then : Subs, else : Subs \cup {None}]

PlainConn == [kind : {"link"}, from : NamePattern, to : NamePattern, attrs : EdgeAttrs]

LoopConn == [kind : {"loop"}, var : Vars, start : Expr, end : Expr, conn : Conns]

CondConn == [kind : {"if"}, test : Expr, then : Conns, else : Conns \cup {None}]

ListConn == [kind : {"alllist", "line", "ring"}, var : Vars, start : Expr, end : Expr,
             nodes : NamePattern, attrs : EdgeAttrs]

(* An all-match; its pattern is the set of labels it finds in a name. *)
MatchConn == [kind : {"match"}, nodes : SUBSET Labels, attrs : EdgeAttrs]

ASSUME ExpandAssumption ==
  /\ \A m \in Modules : m \in Module
  /\ \A d \in Networks : d \in Network
  /\ \A s \in Subs : s \in PlainSub \cup CondSub
  /\ \A c \in Conns : c \in PlainConn \cup LoopConn \cup CondConn \cup ListConn \cup MatchConn
  /\ None \notin Subs \cup Conns \cup Expr
  /\ Index \in Vars
  /\ Root \in Labels

----------------------------------------------------------------------------
(* A frame of the call stack: the function ("kind"), its argument, how far it
   is, its loop counter and limit, and how many parameters it has on the
   stack.  base and depth are history: how long the two stacks were when the
   function was called. *)
Frame(kind, node, at, stack, names) ==
  [kind |-> kind, node |-> node, at |-> at, i |-> 1, last |-> 0, held |-> 0,
   base |-> Len(stack), depth |-> Len(names)]

ExpandInit ==
  /\ Init
  /\ net \in Networks
  /\ params = <<>>
  /\ path = <<<<Root, -1>>>>
  /\ calls = <<Frame("network", net, "start", params, path)>>
  /\ res = "run"

Top == Last(calls)

Running(kind, at) ==
  /\ res = "run" /\ err = "ok" /\ job = Idle
  /\ Top.kind = kind /\ Top.at = at

Becomes(frame) == calls' = [calls EXCEPT ![Len(calls)] = frame]

(* The function in hand goes on as "frame" when the function it calls returns. *)
Calls(frame, callee) == calls' = Append([calls EXCEPT ![Len(calls)] = frame], callee)

Returns == calls' = Front(calls)

(* The functions on the call stack hand the error out.  What they still do (they
   take their names off the path, and leave the parameters) is not modelled:
   both stacks are then freed. *)
Fail(code) == res' = code /\ UNCHANGED <<calls, params, path>>

GoesOn == UNCHANGED <<net, res>>

----------------------------------------------------------------------------
(* find_module: the first module of that name. *)
Hits(def, name) == {k \in DOMAIN def.modules : def.modules[k].name = name}

FindModule(def, name) == def.modules[Min(Hits(def, name))]

FindRoot ==
  /\ Running("network", "start")
  /\ IF Hits(Top.node, Top.node.module) = {}
     THEN Fail("NOMOD")
     ELSE Becomes([Top EXCEPT !.at = "params"]) /\ UNCHANGED <<params, path, res>>
  /\ UNCHANGED <<net, wiring>>

(* One param_stack_enter of the loops over the parameters of the network, of a
   submodule or of a module. *)
EnterParam ==
  /\ \E kind \in {"network", "sub", "module"} : Running(kind, "params")
  /\ Top.held < Len(Top.node.params)
  /\ LET raw == Top.node.params[Top.held + 1]
     IN  IF Evaluates(params, raw.value)
         THEN /\ params' = Enter(params, raw.name, Eval(params, raw.value))
              /\ Becomes([Top EXCEPT !.held = @ + 1])
              /\ UNCHANGED <<path, res>>
         ELSE Fail("EVAL")
  /\ UNCHANGED <<net, wiring>>

ParamsEntered == Top.held = Len(Top.node.params)

ExpandRoot ==
  /\ Running("network", "params") /\ ParamsEntered
  /\ Calls([Top EXCEPT !.at = "inside"],
           Frame("module", FindModule(Top.node, Top.node.module), "params", params, path))
  /\ UNCHANGED <<params, path, wiring>> /\ GoesOn

ExpandDone ==
  /\ Running("network", "inside")
  /\ params' = Leave(params, Top.held)
  /\ res' = "ok"
  /\ Returns
  /\ UNCHANGED <<net, path, wiring>>

----------------------------------------------------------------------------
(* expand_module.  The sizes of the gates are evaluated one after the other,
   and the gates before one that fails are made. *)
BadGates(gates) == {k \in DOMAIN gates : ~Evaluates(params, gates[k].size)}

PartsOf(gate) ==
  LET size == Eval(params, gate.size)
  IN  IF size = 0 THEN <<<<gate.name, -1>>>> ELSE [j \in 1..size |-> <<gate.name, j - 1>>]

GateParts(gates) ==
  LET good == SubSeq(gates, 1, Min(BadGates(gates) \cup {Len(gates) + 1}) - 1)
  IN  FlattenSeq([k \in DOMAIN good |-> PartsOf(good[k])])

ModuleGates ==
  /\ Running("module", "params") /\ ParamsEntered
  /\ IF Top.node.kind = "simple"
     THEN ExpandSimple(path, GateParts(Top.node.gates))
     ELSE ExpandCompound(path, GateParts(Top.node.gates))
  /\ Becomes([Top EXCEPT !.at = "gates"])
  /\ UNCHANGED <<params, path>> /\ GoesOn

GatesMade ==
  /\ Running("module", "gates")
  /\ IF BadGates(Top.node.gates) # {}
     THEN Fail("EVAL")
     ELSE /\ Becomes([Top EXCEPT !.at = IF Top.node.kind = "simple" THEN "end" ELSE "subs"])
          /\ UNCHANGED <<params, path, res>>
  /\ UNCHANGED <<net, wiring>>

NextSub ==
  /\ Running("module", "subs")
  /\ IF Top.i <= Len(Top.node.subs)
     THEN Calls([Top EXCEPT !.i = @ + 1],
                Frame("sub", Top.node.subs[Top.i], "start", params, path))
     ELSE Becomes([Top EXCEPT !.at = "conns", !.i = 1])
  /\ UNCHANGED <<params, path, wiring>> /\ GoesOn

NextConn ==
  /\ Running("module", "conns")
  /\ IF Top.i <= Len(Top.node.conns)
     THEN Calls([Top EXCEPT !.i = @ + 1],
                Frame("conn", Top.node.conns[Top.i], "start", params, path))
     ELSE Becomes([Top EXCEPT !.at = "replace", !.i = 1])
  /\ UNCHANGED <<params, path, wiring>> /\ GoesOn

(* strncmp of the path with the beginning of a name: a sibling whose name only
   begins with the name of the module counts as inside. *)
StringInside(at, name) ==
  LET k == Len(at)
  IN  /\ k <= Len(name)
      /\ SubSeq(name, 1, k - 1) = Front(at)
      /\ IF Last(at)[2] = -1
         THEN <<Last(at)[1], name[k][1]>> \in Begins
         ELSE Last(at) = name[k]

(* Slip: the path is not asked for. *)
MatchesAnywhere(at, name, labels, atEnd) ==
  \E k \in DOMAIN name : name[k][1] \in labels /\ (atEnd => k = Len(name))

(* What an all-match and a replacement ask of a name. *)
Matches(at, name, labels, atEnd) ==
  /\ StringInside(at, name)
  /\ \E k \in DOMAIN name : name[k][1] \in labels /\ (atEnd => k = Len(name))

(* do_replace: the marking, the submodule, the handing over. *)
NextReplace ==
  /\ Running("module", "replace")
  /\ IF Top.i <= Len(Top.node.replace)
     THEN LET r == Top.node.replace[Top.i]
          IN  /\ Mark({name \in Taken(g) : Matches(path, name, r.nodes, r.atEnd)})
              /\ Calls([Top EXCEPT !.at = "handover"],
                       Frame("sub", r.sub, "start", params, path))
     ELSE Becomes([Top EXCEPT !.at = "end"]) /\ UNCHANGED wiring
  /\ UNCHANGED <<params, path>> /\ GoesOn

TakeOver ==
  /\ Running("module", "handover")
  /\ HandOver
  /\ Becomes([Top EXCEPT !.at = "replace", !.i = @ + 1])
  /\ UNCHANGED <<params, path>> /\ GoesOn

ModuleDone ==
  /\ Running("module", "end")
  /\ params' = Leave(params, Top.held)
  /\ Returns
  /\ UNCHANGED <<path, wiring>> /\ GoesOn

----------------------------------------------------------------------------
(* The branch of a condition, or None; both add_submodule and
   traverse_and_add_conns then call themselves on it and return. *)
Branch(node) == IF Eval(params, node.test) # 0 THEN node.then ELSE node.else

Choose(kind, cond) ==
  /\ Running(kind, "start")
  /\ Top.node.kind = cond
  /\ IF ~Evaluates(params, Top.node.test) THEN Fail("EVAL")
     ELSE /\ IF Branch(Top.node) = None
             THEN Returns
             ELSE Becomes(Frame(kind, Branch(Top.node), "start", params, path))
          /\ UNCHANGED <<params, path, res>>
  /\ UNCHANGED <<net, wiring>>

ChooseSub == Choose("sub", "cond")

ChooseConn == Choose("conn", "if")

----------------------------------------------------------------------------
(* add_submodule of a plain submodule: one module, or a vector of them. *)
SubStart ==
  /\ Running("sub", "start")
  /\ Top.node.kind = "plain"
  /\ Becomes([Top EXCEPT !.at = "params"])
  /\ UNCHANGED <<params, path, wiring>> /\ GoesOn

SubSize ==
  /\ Running("sub", "params") /\ ParamsEntered
  /\ LET size == Top.node.size
     IN  IF size # None /\ ~Evaluates(params, size) THEN Fail("EVAL")
         ELSE /\ Becomes([Top EXCEPT !.at = "vector",
                          !.last = IF size = None THEN 0 ELSE Eval(params, size)])
              /\ UNCHANGED <<params, path, res>>
  /\ UNCHANGED <<net, wiring>>

IsVector == Top.last > 0

(* Slip: the index of a vector is taken off the stack for a single module too. *)
IndexHeldAlways == 1

IndexHeld == IF IsVector THEN 1 ELSE 0

(* name_stack_enter and name_stack_leave; an index below zero is not printed. *)
EnterName(names, label, j) == Append(names, <<label, IF j < 0 THEN -1 ELSE j>>)

LeaveName(names) == Front(names)

(* enter_and_expand_module; an element of a vector has its index as a parameter. *)
NextElement ==
  /\ Running("sub", "vector")
  /\ Top.i <= IF IsVector THEN Top.last ELSE 1
  /\ LET stack == IF IsVector THEN Enter(params, Index, Top.i - 1) ELSE params
         names == EnterName(path, Top.node.name, IF IsVector THEN Top.i - 1 ELSE -1)
         inside == [Top EXCEPT !.at = "inside", !.held = @ + Len(stack) - Len(params)]
     IN  /\ params' = stack
         /\ IF Hits(net, Top.node.module) = {}
            THEN /\ res' = "NOMOD"
                 /\ Becomes([inside EXCEPT !.at = "lost"])
                 /\ UNCHANGED path
            ELSE /\ Calls(inside, Frame("module", FindModule(net, Top.node.module), "params",
                                        stack, names))
                 /\ path' = names
                 /\ UNCHANGED res
  /\ UNCHANGED <<net, wiring>>

ElementDone ==
  /\ Running("sub", "inside")
  /\ params' = Leave(params, IndexHeld)
  /\ Becomes([Top EXCEPT !.at = "vector", !.i = @ + 1, !.held = @ - IndexHeld])
  /\ path' = LeaveName(path)
  /\ UNCHANGED wiring /\ GoesOn

SubDone ==
  /\ Running("sub", "vector")
  /\ Top.i > IF IsVector THEN Top.last ELSE 1
  /\ params' = Leave(params, Top.held)
  /\ Returns
  /\ UNCHANGED <<path, wiring>> /\ GoesOn

----------------------------------------------------------------------------
(* eval_conn_name and get_full_name.  A part without an index is -1, so that
   the index that prints as "[-1]" is -2 here, and so on. *)
NameEvaluates(stack, pattern) ==
  \A k \in DOMAIN pattern : pattern[k][2] = None \/ Evaluates(stack, pattern[k][2])

IndexPart(val) == IF val < 0 THEN val - 1 ELSE val

FullName(stack, pattern) ==
  path \o [k \in DOMAIN pattern |->
             <<pattern[k][1],
               IF pattern[k][2] = None THEN -1 ELSE IndexPart(Eval(stack, pattern[k][2]))>>]

(* graph_eval_and_add_edge *)
Connect ==
  /\ Running("conn", "start")
  /\ Top.node.kind = "link"
  /\ IF NameEvaluates(params, Top.node.from) /\ NameEvaluates(params, Top.node.to)
     THEN /\ ConnectPlain(FullName(params, Top.node.from),
                            FullName(params, Top.node.to), Top.node.attrs)
          /\ Returns
          /\ UNCHANGED <<params, path, res>>
     ELSE Fail("EVAL") /\ UNCHANGED wiring
  /\ UNCHANGED net

(* Slip: an empty range is an error. *)
RangeErrorIfEmpty ==
  IF ~Evaluates(params, Top.node.start) \/ ~Evaluates(params, Top.node.end) THEN "EVAL"
  ELSE IF Eval(params, Top.node.start) >= Eval(params, Top.node.end) THEN "LOOP"
  ELSE "none"

(* The beginning that loops, lists, lines and rings have in common. *)
RangeError ==
  IF ~Evaluates(params, Top.node.start) \/ ~Evaluates(params, Top.node.end) THEN "EVAL"
  ELSE IF Eval(params, Top.node.start) > Eval(params, Top.node.end) THEN "LOOP"
  ELSE "none"

OpenLoop ==
  /\ Running("conn", "start")
  /\ Top.node.kind = "loop"
  /\ IF RangeError # "none" THEN Fail(RangeError)
     ELSE /\ Becomes([Top EXCEPT !.at = "loop", !.i = Eval(params, Top.node.start),
                      !.last = Eval(params, Top.node.end)])
          /\ UNCHANGED <<params, path, res>>
  /\ UNCHANGED <<net, wiring>>

NextRound ==
  /\ Running("conn", "loop")
  /\ Top.i < Top.last
  /\ params' = Enter(params, Top.node.var, Top.i)
  /\ Calls([Top EXCEPT !.at = "round", !.held = 1],
           Frame("conn", Top.node.conn, "start", params', path))
  /\ UNCHANGED <<path, wiring>> /\ GoesOn

(* Slip: the variable is not counted up. *)
SameRound == Top.i

RoundAfter == Top.i + 1

RoundDone ==
  /\ Running("conn", "round")
  /\ params' = Leave(params, 1)
  /\ Becomes([Top EXCEPT !.at = "loop", !.i = RoundAfter, !.held = 0])
  /\ UNCHANGED <<path, wiring>> /\ GoesOn

LoopDone ==
  /\ Running("conn", "loop")
  /\ Top.i >= Top.last
  /\ Returns
  /\ UNCHANGED <<params, path, wiring>> /\ GoesOn

(* alllist, line and ring: the names are evaluated one by one, with the
   variable on the stack for each; then Wiring takes over. *)
ConnectList ==
  /\ Running("conn", "start")
  /\ Top.node.kind \in {"alllist", "line", "ring"}
  /\ IF RangeError # "none" THEN Fail(RangeError) /\ UNCHANGED wiring
     ELSE LET first == Eval(params, Top.node.start)
              count == Eval(params, Top.node.end) - first
              stack(k) == Enter(params, Top.node.var, first + k - 1)
          IN  /\ count <= MaxIds
              /\ IF count > 0 /\ ~NameEvaluates(stack(1), Top.node.nodes)
                 THEN Fail("EVAL") /\ UNCHANGED wiring
                 ELSE /\ ConnectNamed(Top.node.kind,
                                        [k \in 1..count |-> FullName(stack(k), Top.node.nodes)],
                                        Top.node.attrs)
                      /\ Returns
                      /\ UNCHANGED <<params, path, res>>
  /\ UNCHANGED net

ConnectMatch ==
  /\ Running("conn", "start")
  /\ Top.node.kind = "match"
  /\ ConnectMatching({name \in Taken(g) : Matches(path, name, Top.node.nodes, FALSE)},
                       Top.node.attrs)
  /\ Returns
  /\ UNCHANGED <<params, path>> /\ GoesOn

(* A step of the operation on the graph that is running. *)
Wire ==
  /\ res = "run"
  /\ GateStep \/ WireStep \/ EmptyRing \/ JobDone \/ HandOverStep
  /\ UNCHANGED <<net, calls, params, path, res>>

ExpandNext ==
  \/ FindRoot \/ EnterParam \/ ExpandRoot \/ ExpandDone
  \/ ModuleGates \/ GatesMade \/ NextSub \/ NextConn \/ NextReplace \/ TakeOver \/ ModuleDone
  \/ ChooseSub \/ SubStart \/ SubSize \/ NextElement \/ ElementDone \/ SubDone
  \/ Connect \/ ChooseConn \/ OpenLoop \/ NextRound \/ RoundDone \/ LoopDone
  \/ ConnectList \/ ConnectMatch
  \/ Wire

ExpandSpec == ExpandInit /\ [][ExpandNext]_expandVars /\ WF_expandVars(ExpandNext)

----------------------------------------------------------------------------
(* Type invariant: a frame calls only what the definition contains, what it
   keeps on the parameter stack is there, and values stay integers. *)
Stages == {"start", "params", "gates", "subs", "conns", "replace", "handover", "end",
           "vector", "lost", "inside", "loop", "round"}

Frames == [kind : {"network", "module", "sub", "conn"}, at : Stages,
           node : Networks \cup Modules \cup Subs \cup Conns,
           i : Int, last : Int, held : Nat, base : Nat, depth : Nat]

ExpandTypeOK ==
  /\ net \in Networks
  /\ calls \in Seq(Frames)
  /\ params \in Seq(Param)
  /\ path \in Names
  /\ res \in {"run", "ok", "EVAL", "NOMOD", "LOOP"}
  /\ res = "run" => calls # <<>>

(* What a frame at stage "inside" has added to the path. *)
Deeper(frame) == IF frame.kind = "sub" /\ frame.at = "inside" THEN 1 ELSE 0

DeclaredBy(frame, h) ==
  IF frame.kind = "conn" THEN frame.node.var
  ELSE IF h <= Len(frame.node.params) THEN frame.node.params[h].name
  ELSE Index

(* The lengths of the stacks are what the functions on the call stack account
   for, from the outermost to the one in hand. *)
LengthsNest ==
  IF calls = <<>>
  THEN params = <<>> /\ Len(path) = 1
  ELSE /\ calls[1].base = 0 /\ calls[1].depth = 1
       /\ \A k \in 1..Len(calls) - 1 :
            /\ calls[k + 1].base = calls[k].base + calls[k].held
            /\ calls[k + 1].depth = calls[k].depth + Deeper(calls[k])
       /\ Len(params) = Top.base + Top.held
       /\ Len(path) = Top.depth + Deeper(Top)

NamesAreDeclared ==
  \A k \in DOMAIN calls : \A h \in 1..calls[k].held :
     params[calls[k].base + h].name = DeclaredBy(calls[k], h)

(* Every function leaves the two stacks as it found them: at any moment they
   hold just what the functions that have not returned yet have entered, in the
   order of their calls and under the names that were declared, and nothing
   when the expansion is over. *)
StacksNest == LengthsNest /\ NamesAreDeclared

(* The expansion of a definition in which conditions end the recursion comes to
   an end, by success or by an error: every loop over a range, a vector, a list
   of submodules or connections, and every operation on the graph ends. *)
Terminates == <>(res # "run" \/ err # "ok")
=============================================================================
