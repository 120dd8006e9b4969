------------------------------- MODULE Scope -------------------------------
(***************************************************************************)
(* The parameter stack of param_stack.c and the evaluation of expressions  *)
(* in it.  Numbers are integers; an expression is a variable plus a        *)
(* constant, or a constant alone, which is as much of tinyexpr.c as        *)
(* scoping can tell apart.                                                 *)
(***************************************************************************)
EXTENDS Integers, SequencesExt

CONSTANTS Vars,    \* the names of parameters and of loop variables
          NoVar,   \* the variable of an expression that is a constant
          Begins   \* the pairs of strings of which the first begins the second

ASSUME ScopeAssumption ==
  /\ NoVar \notin Vars
  /\ \A x \in Vars : <<x, x>> \in Begins
  /\ \A x, y, z \in Vars : <<x, y>> \in Begins /\ <<y, z>> \in Begins => <<x, z>> \in Begins

Expr == [var : Vars \cup {NoVar}, plus : Int]

(* param_t, and raw_param_t with its value still a text. *)
Param == [name : Vars, value : Int]
RawParam == [name : Vars, value : Expr]

----------------------------------------------------------------------------
(* Slip: the oldest parameter of a name is kept instead of the most recent. *)
SeenIfOldest(stack, i) ==
  \A k \in 1..i - 1 : <<stack[i].name, stack[k].name>> \notin Begins

(* Whether param_stack_to_te_vars hands entry i to tinyexpr.  It goes through
   the stack from the most recent entry and passes over a name that begins a
   name it has already taken: strncmp is given the length of the name in hand.
   An entry that is itself passed over begins one that was taken, so that the
   later entries of the whole stack can be asked instead of those taken. *)
Seen(stack, i) ==
  \A k \in i + 1..Len(stack) : <<stack[i].name, stack[k].name>> \notin Begins

(* find_lookup of tinyexpr compares whole names; one entry at most is left. *)
Entries(stack, x) == {i \in DOMAIN stack : stack[i].name = x /\ Seen(stack, i)}

(* param_stack_eval: whether it succeeds, and its result. *)
Evaluates(stack, e) == e.var = NoVar \/ Entries(stack, e.var) # {}

Eval(stack, e) ==
  IF e.var = NoVar THEN e.plus
  ELSE e.plus + stack[CHOOSE i \in Entries(stack, e.var) : TRUE].value

----------------------------------------------------------------------------
(* param_stack_enter_val; param_stack_enter is this with a value that was
   evaluated in the stack as it is before. *)
Enter(stack, x, val) == Append(stack, [name |-> x, value |-> val])

(* Slip: a single call of param_stack_leave where a loop of them is due. *)
LeaveOnce(stack, count) == SubSeq(stack, 1, Len(stack) - 1)

(* param_stack_leave, count times. *)
Leave(stack, count) == SubSeq(stack, 1, Len(stack) - count)
=============================================================================
