---------------------------- MODULE WritesEffect ----------------------------
(***************************************************************************)
(* Which keys the engine says a node writes, and which it writes           *)
(* (task_registry.cpp, executor.cpp, writes_effect.cpp).                   *)
(*                                                                         *)
(* A node's task has a spec, which declares its parameters, the keys it    *)
(* always writes and, if it likes, a writes_effect that depends on the     *)
(* parameters, and the params given in the plan.  validate_plan checks     *)
(* these, keeps in param_bindings those an effect can use and evaluates    *)
(* the effect: the node writes exactly these keys, or some of them at      *)
(* most, or nothing is known.  The task then runs with the same            *)
(* parameters.                                                             *)
(*                                                                         *)
(* An effect is a record: Keys with key_ids; FromParam with param;         *)
(* SwitchEnum with param and cases, a function from strings to effects;    *)
(* Union with items.  A pointer to no effect, which no constructor of      *)
(* writes_effect.h makes, is left out.  The module stands for the twin     *)
(* evaluator writes-effect.ts too, which is the same code but for the name *)
(* keyIds and which only the DSL's tests call.                             *)
(***************************************************************************)
EXTENDS Executor, SequencesExt

CONSTANTS
  None,
  Width        \* how many key_ids there are: 2^32 in the code

VARIABLES
  params,      \* per node, its ValidatedParams: the parameters that have a value
  writes_eval, \* per node, what validate_plan says it writes
  written      \* per node, the keys its run wrote, None before

writesVars == <<params, writes_eval, written>>

KeyId == 0..(Width - 1)
IdKey == 1

-----------------------------------------------------------------------------
(* Values: what JSON and ValidatedParams hold, by type.                    *)

Int_(n) == [int |-> n]
Whole(n) == [whole |-> n]        \* a JSON float without a fraction
Text(s) == [text |-> s]
Fraction == [fraction |-> TRUE]
Flag == [flag |-> TRUE]
NodeRef(s) == [node |-> s]       \* a node_ref, kept apart from the strings
Null == [null |-> TRUE]

IsA(value, kind) == DOMAIN value = {kind}

Fits(type, value) ==
  CASE type = "int" -> IsA(value, "int") \/ IsA(value, "whole")
    [] type = "float" -> IsA(value, "int") \/ IsA(value, "whole") \/ IsA(value, "fraction")
    [] type = "bool" -> IsA(value, "flag")
    [] OTHER -> IsA(value, "text")    \* string, expr_id, pred_id, endpoint_ref, node_ref

Typed(type, value) ==
  CASE type = "int" /\ IsA(value, "whole") -> Int_(value.whole)
    [] type = "float" -> Fraction
    [] type = "node_ref" -> NodeRef(value.text)
    [] OTHER -> value

-----------------------------------------------------------------------------
(* TaskRegistry::validate_params                                           *)

Missing(given, name) == name \notin DOMAIN given \/ given[name] = Null

ParamsValid(schema, given) ==
  /\ DOMAIN given \subseteq DOMAIN schema
  /\ \A name \in DOMAIN schema :
       LET field == schema[name]
       IN IF Missing(given, name)
          THEN /\ ~field.required
               /\ name \in DOMAIN given => field.default # None \/ field.nullable
          ELSE Fits(field.type, given[name])

HasValue(schema, given) ==
  {name \in DOMAIN schema : Missing(given, name) => schema[name].default # None}

ValidatedParams(schema, given) ==
  [name \in HasValue(schema, given) |->
     IF Missing(given, name) THEN schema[name].default ELSE Typed(schema[name].type, given[name])]

-----------------------------------------------------------------------------
(* eval_writes and what it is given                                        *)

\* Only positive ints are taken for key_ids, narrowed to 32 bits; strings are taken as they are.
Bindable(value) == IF IsA(value, "int") THEN value.int > 0 ELSE IsA(value, "text")

BuildParamBindings(valid) ==
  [name \in {n \in DOMAIN valid : Bindable(valid[n])} |->
     IF IsA(valid[name], "int") THEN [key |-> valid[name].int % Width] ELSE valid[name]]

KeysOf(ids) == [kind |-> "Keys", key_ids |-> ids]
FromParam(p) == [kind |-> "FromParam", param |-> p]
SwitchEnum(p, cases) == [kind |-> "SwitchEnum", param |-> p, cases |-> cases]
UnionOf(items) == [kind |-> "Union", items |-> items]

ComputeEffectiveWrites(s) ==
  CASE s.writes_effect = None -> KeysOf(s.writes)
    [] s.writes = <<>> -> s.writes_effect
    [] OTHER -> UnionOf(<<KeysOf(s.writes), s.writes_effect>>)

Exact(keys) == [kind |-> "Exact", keys |-> keys]
May(keys) == [kind |-> "May", keys |-> keys]
Unknown == [kind |-> "Unknown", keys |-> {}]

\* Mutant: a union is exact as soon as one side is.
CombineEffectsEither(a, b) ==
  CASE Unknown \in {a, b} -> Unknown
    [] a.kind = "Exact" \/ b.kind = "Exact" -> Exact(a.keys \cup b.keys)
    [] OTHER -> May(a.keys \cup b.keys)

CombineEffects(a, b) ==
  CASE Unknown \in {a, b} -> Unknown
    [] a.kind = "Exact" /\ b.kind = "Exact" -> Exact(a.keys \cup b.keys)
    [] OTHER -> May(a.keys \cup b.keys)

Bound(gamma, name, kind) == name \in DOMAIN gamma /\ IsA(gamma[name], kind)

RECURSIVE EvalWrites(_, _)
EvalWrites(expr, gamma) ==
  CASE expr.kind = "Keys" -> Exact(ToSet(expr.key_ids))
    [] expr.kind = "FromParam" ->
         IF Bound(gamma, expr.param, "key") THEN Exact({gamma[expr.param].key}) ELSE Unknown
    [] expr.kind = "SwitchEnum" ->
         IF Bound(gamma, expr.param, "text")
         THEN IF gamma[expr.param].text \in DOMAIN expr.cases
              THEN EvalWrites(expr.cases[gamma[expr.param].text], gamma) ELSE Unknown
         ELSE LET joined == {EvalWrites(expr.cases[c], gamma) : c \in DOMAIN expr.cases}
              IN CASE joined = {} -> Exact({})
                   [] Unknown \in joined -> Unknown
                   [] OTHER -> May(UNION {r.keys : r \in joined})
    [] expr.kind = "Union" ->
         FoldLeft(LAMBDA r, item : CombineEffects(r, EvalWrites(item, gamma)), Exact({}), expr.items)

-----------------------------------------------------------------------------
(* What a task that keeps to its declaration may write, given the          *)
(* ValidatedParams it reads: a set of sets of keys.  It narrows a key      *)
(* parameter as vm does, and vm throws unless the parameter is positive.   *)
(* Where a switch has no case for the value, and where a key parameter has *)
(* no value, the declaration says nothing.  Where a switch parameter has   *)
(* no string for a value the task behaves as in one of the cases, if there *)
(* are any.                                                                *)

Anything == SUBSET KeyId

RECURSIVE MayWrite(_, _)
MayWrite(expr, valid) ==
  CASE expr.kind = "Keys" -> {ToSet(expr.key_ids)}
    [] expr.kind = "FromParam" ->
         CASE ~Bound(valid, expr.param, "int") -> Anything
           [] valid[expr.param].int > 0 -> {{valid[expr.param].int % Width}}
           [] OTHER -> {}
    [] expr.kind = "SwitchEnum" ->
         CASE DOMAIN expr.cases = {} -> Anything
           [] ~Bound(valid, expr.param, "text") ->
                UNION {MayWrite(expr.cases[c], valid) : c \in DOMAIN expr.cases}
           [] valid[expr.param].text \in DOMAIN expr.cases ->
                MayWrite(expr.cases[valid[expr.param].text], valid)
           [] OTHER -> Anything
    [] expr.kind = "Union" ->
         FoldLeft(LAMBDA sofar, item : {a \cup b : a \in sofar, b \in MayWrite(item, valid)},
                  {{}}, expr.items)

TaskWrites(s, valid) ==
  {ToSet(s.writes) \cup keys :
     keys \in IF s.writes_effect = None THEN {{}} ELSE MayWrite(s.writes_effect, valid)}

-----------------------------------------------------------------------------
(* The nodes of a plan.                                                    *)

\* register_task throws, and with it the program, if a task says it writes Key.id.
Registered(s) == IdKey \notin ToSet(s.writes)

\* What a node that passes the checks has: a task of the registry and parameters it takes.
ASSUME WritesAssumption ==
  /\ Width \in Nat /\ Width > 1
  /\ \A p \in Plans : \A n \in DOMAIN p.nodes : p.nodes[n].ok =>
       LET task == p.nodes[n].task
       IN Registered(task.spec) /\ ParamsValid(task.spec.params_schema, task.given)

WritesInit ==
  /\ Init
  /\ params = [n \in DOMAIN plan.nodes |-> None]
  /\ writes_eval = [n \in DOMAIN plan.nodes |-> Unknown]
  /\ written = [n \in DOMAIN plan.nodes |-> None]

\* The end of validate_plan's loop over the nodes, for a node that has passed it.
EvaluateWrites(n) ==
  LET task == plan.nodes[n].task
      valid == ValidatedParams(task.spec.params_schema, task.given)
  IN /\ params' = [params EXCEPT ![n] = valid]
     /\ writes_eval' = [writes_eval EXCEPT ![n] =
                          EvalWrites(ComputeEffectiveWrites(task.spec), BuildParamBindings(valid))]

ValidateNode ==
  /\ CheckNode
  /\ IF i' = i THEN UNCHANGED <<params, writes_eval>> ELSE EvaluateWrites(i)
  /\ UNCHANGED written

\* A task that succeeds has written keys its declaration allows.
RunNode ==
  /\ Run
  /\ IF phase' = "failed" THEN UNCHANGED written
     ELSE LET n == node_index[order[i]]
          IN \E keys \in TaskWrites(plan.nodes[n].task.spec, params[n]) :
               written' = [written EXCEPT ![n] = keys]
  /\ UNCHANGED <<params, writes_eval>>

WritesNext ==
  \/ ValidateNode
  \/ RunNode
  \/ /\ CheckHead \/ IndexNode \/ CheckOutputs \/ CheckCycle \/ Sort \/ SortStep \/ Fetch \/ Collect
     /\ UNCHANGED writesVars

WritesSpec == WritesInit /\ [][WritesNext]_<<vars, writesVars>>

-----------------------------------------------------------------------------
\* Is there a switch without cases in the effect?
RECURSIVE Caseless(_)
Caseless(expr) ==
  CASE expr = None \/ expr.kind \in {"Keys", "FromParam"} -> FALSE
    [] expr.kind = "SwitchEnum" ->
         DOMAIN expr.cases = {} \/ \E c \in DOMAIN expr.cases : Caseless(expr.cases[c])
    [] expr.kind = "Union" -> \E k \in DOMAIN expr.items : Caseless(expr.items[k])

\* rfcs/0005-key-effects-writes-exact.md:101-102: a node that validate_plan calls Exact
\* writes exactly these keys whenever its task runs, and a node called May writes some of
\* them at most, whatever parameters were given, defaulted, left out or narrowed.  The
\* exception is a task with a switch without cases, which bounds nothing: the RFC asks for
\* Unknown there (:203), but where the parameter has no string for a value eval_writes
\* joins no cases and says Exact({}) (writes_effect.cpp:78), and the task may write.
WritesSound ==
  \A n \in DOMAIN plan.nodes :
    written[n] # None /\ ~Caseless(plan.nodes[n].task.spec.writes_effect) =>
      /\ writes_eval[n].kind = "Exact" => written[n] = writes_eval[n].keys
      /\ writes_eval[n].kind = "May" => written[n] \subseteq writes_eval[n].keys

=============================================================================
