----------------------------- MODULE PlanBuilder -----------------------------
(***************************************************************************)
(* The runtime a plan is written against: the plan context that numbers    *)
(* nodes, expressions and predicates (plan.ts), the generated              *)
(* implementations of the tasks (task-impl.ts), and the validation of the  *)
(* artifact (guards.ts, artifact-validation.ts).  All of it is sequential: *)
(* the operators take a context and return the next one.                   *)
(*                                                                         *)
(* A JavaScript value is a record with its type in "t":                    *)
(*   undefined, null, int, real, bool, string, endpoint (a string ep_... of *)
(*   at most 64 characters), key (a KeyToken), set (a CandidateSet: its     *)
(*   node, and whether it is of this context), ir (an ExprNode or           *)
(*   PredNode), placeholder (what dslc puts in place of a natural           *)
(*   expression) and plain (any other value: what natural syntax evaluates  *)
(*   to when it is executed).                                               *)
(***************************************************************************)
EXTENDS Integers, Sequences, FiniteSets, Functions

CONSTANT
  CapSchema    \* capability -> "none" (no payload allowed) or "object"

ASSUME CapSchemaAssumption == \A c \in DOMAIN CapSchema : CapSchema[c] \in {"none", "object"}

Thrown == -1   \* the node of a call that throws

-----------------------------------------------------------------------------
(* The context.                                                            *)

EmptyCtx == [counter |-> 0, nodes |-> <<>>, exprs |-> <<>>, preds |-> <<>>,
             caps |-> {}, ext |-> <<>>]

\* Map.set: the entry is added or replaced.
Put(f, k, v) == [ x \in DOMAIN f \cup {k} |-> IF x = k THEN v ELSE f[x] ]

(***************************************************************************)
(* allocateNodeId and addNode.  The identifier is spent even if the        *)
(* extensions are refused.  "at" is a history field: the step of the plan  *)
(* that made the node.                                                     *)
(***************************************************************************)
AddNode(ctx, op, inputs, params, ext, at) ==
  LET spent == [ctx EXCEPT !.counter = @ + 1]
      node  == [node_id |-> ctx.counter, op |-> op, inputs |-> inputs,
                params |-> params, ext |-> ext, at |-> at]
  IN IF "undefined" \in Range(ext)
     THEN [ctx |-> spent, node |-> Thrown]
     ELSE [ctx |-> [spent EXCEPT !.nodes = Append(@, node)], node |-> ctx.counter]

\* addExpr and addPred: e0, e1, ... and p0, p1, ... by the size of the table.
AddExpr(ctx, ir) == [ctx EXCEPT !.exprs = Put(@, Cardinality(DOMAIN @), ir)]

AddPred(ctx, ir) == [ctx EXCEPT !.preds = Put(@, Cardinality(DOMAIN @), ir)]

\* requireCapability: a payload that holds undefined throws after the capability is noted.
RequireCapability(ctx, cap, payload) ==
  LET noted == [ctx EXCEPT !.caps = @ \cup {cap}]
  IN CASE payload = "absent" -> [ctx |-> noted, node |-> 0]
       [] payload = "undefined" -> [ctx |-> noted, node |-> Thrown]
       [] OTHER -> [ctx |-> [noted EXCEPT !.ext = Put(@, cap, payload)], node |-> 0]

\* Mutant: the output is the node made last.
FinalizeLastNode(ctx, result, name) ==
  [plan_name |-> name, nodes |-> ctx.nodes, outputs |-> <<ctx.nodes[Len(ctx.nodes)].node_id>>,
   exprs |-> ctx.exprs, preds |-> ctx.preds, caps |-> ctx.caps, ext |-> ctx.ext]

Finalize(ctx, result, name) ==
  [plan_name |-> name, nodes |-> ctx.nodes, outputs |-> <<result.node>>,
   exprs |-> ctx.exprs, preds |-> ctx.preds, caps |-> ctx.caps, ext |-> ctx.ext]

-----------------------------------------------------------------------------
(* The tasks: their parameters, as the name in the artifact, the name in   *)
(* the options, the type that is checked and whether it is required.       *)

Param(cpp, ts, type, required) == [cpp |-> cpp, ts |-> ts, type |-> type, required |-> required]

Trace == Param("trace", "trace", "trace", FALSE)

Endpoint == Param("endpoint", "endpoint", "endpoint_ref", TRUE)

Source(op, params) == [op |-> op, source |-> TRUE, params |-> params \cup {Trace}]

Transform(op, params) == [op |-> op, source |-> FALSE, params |-> params \cup {Trace}]

ViewerImpl == Source("core::viewer", {Endpoint})

FixedSourceImpl == Source("test::fixed_source", {Param("row_count", "rowCount", "int", FALSE)})

ConcatImpl == Transform("core::concat", {Param("rhs", "rhs", "node_ref", TRUE)})

FilterImpl == Transform("core::filter", {Param("pred_id", "pred", "pred_id", TRUE)})

FollowImpl == Transform("core::follow", {Endpoint, Param("fanout", "fanout", "int", TRUE)})

MediaImpl == Transform("core::media", {Endpoint, Param("fanout", "fanout", "int", TRUE)})

RecommendationImpl ==
  Transform("core::recommendation", {Endpoint, Param("fanout", "fanout", "int", TRUE)})

SortImpl == Transform("core::sort", {Param("by", "by", "key", TRUE), Param("order", "order", "string", FALSE)})

TakeImpl == Transform("core::take", {Param("count", "count", "int", TRUE)})

VmImpl == Transform("core::vm", {Param("expr_id", "expr", "expr_id", TRUE), Param("out_key", "outKey", "key", TRUE)})

BusyCpuImpl == Transform("test::busy_cpu", {Param("busy_wait_ms", "busyWaitMs", "int", TRUE)})

SleepImpl == Transform("test::sleep", {Param("duration_ms", "durationMs", "int", TRUE),
                                       Param("fail_after_sleep", "failAfterSleep", "bool", FALSE)})

Tasks == {ViewerImpl, FixedSourceImpl, ConcatImpl, FilterImpl, FollowImpl, MediaImpl,
          RecommendationImpl, SortImpl, TakeImpl, VmImpl, BusyCpuImpl, SleepImpl}

\* The assertions the generated code makes of a required option.
Asserted(type, v) ==
  CASE type = "int" -> v.t = "int"
    [] type = "key" -> v.t = "key"
    [] type = "node_ref" -> v.t = "set"
    [] type = "endpoint_ref" -> v.t = "endpoint"
    [] type \in {"expr_id", "pred_id"} -> v.t \in {"ir", "placeholder"}
    [] OTHER -> TRUE

OptsAccepted(task, opts) ==
  /\ \A n \in DOMAIN opts : opts[n].t # "undefined"
  /\ \A p \in task.params : p.required => p.ts \in DOMAIN opts /\ Asserted(p.type, opts[p.ts])
  /\ "trace" \in DOMAIN opts => opts.trace.t \in {"null", "string"}
  /\ task = ConcatImpl => opts.rhs.own

Undefined == [t |-> "undefined"]

\* The options that hold an expression or a predicate: a task has at most one.
TreeParams(task) == {p \in task.params : p.type \in {"expr_id", "pred_id"}}

(***************************************************************************)
(* The parameters of the node: a placeholder keeps the number dslc gave it, *)
(* marked static; an intermediate form is added to its table.              *)
(***************************************************************************)
TableId(ctx, p, v) ==
  LET table == IF p.type = "expr_id" THEN ctx.exprs ELSE ctx.preds
  IN IF v.t = "placeholder" THEN [t |-> "id", static |-> TRUE, n |-> v.id]
     ELSE [t |-> "id", static |-> FALSE, n |-> Cardinality(DOMAIN table)]

ParamValue(ctx, p, opts) ==
  LET v == IF p.ts \in DOMAIN opts THEN opts[p.ts] ELSE Undefined
  IN CASE p.type \in {"expr_id", "pred_id"} -> TableId(ctx, p, v)
       [] p.type = "node_ref" -> [t |-> "node", node |-> v.node]
       [] p.type = "trace" /\ v = Undefined -> [t |-> "null"]
       [] OTHER -> v

NodeParams(ctx, task, opts) ==
  [ n \in {p.cpp : p \in task.params} |->
      ParamValue(ctx, CHOOSE p \in task.params : p.cpp = n, opts) ]

WithTables(ctx, task, opts) ==
  LET added == {p \in TreeParams(task) : opts[p.ts].t = "ir"}
  IN IF added = {} THEN ctx
     ELSE LET p == CHOOSE q \in added : TRUE
          IN IF p.type = "expr_id" THEN AddExpr(ctx, opts[p.ts].ir) ELSE AddPred(ctx, opts[p.ts].ir)

\* One call of a task on the set of node "input" (unused by a source).
CallTask(ctx, task, input, opts, ext, at) ==
  IF OptsAccepted(task, opts)
  THEN AddNode(WithTables(ctx, task, opts), task.op, IF task.source THEN <<>> ELSE <<input>>,
               NodeParams(ctx, task, opts), ext, at)
  ELSE [ctx |-> ctx, node |-> Thrown]

-----------------------------------------------------------------------------
(* Validation of the artifact.                                             *)

\* A payload is absent, null, undefined, an object that fits the schema, or one that does not.
ValidatePayload(cap, payload) ==
  /\ cap \in DOMAIN CapSchema
  /\ IF CapSchema[cap] = "none" THEN payload = "null" ELSE payload = "fits"

ValidateExtensions(ext, caps) ==
  \A c \in DOMAIN ext : c \in caps /\ ValidatePayload(c, ext[c])

NodeIds(artifact) == {artifact.nodes[i].node_id : i \in DOMAIN artifact.nodes}

ValidateArtifact(artifact) ==
  /\ \A i \in DOMAIN artifact.nodes :
       /\ Range(artifact.nodes[i].inputs) \subseteq NodeIds(artifact)
       /\ ValidateExtensions(artifact.nodes[i].ext, artifact.caps)
  /\ Range(artifact.outputs) \subseteq NodeIds(artifact)
  /\ ValidateExtensions(artifact.ext, artifact.caps)

=============================================================================
