--------------------------- MODULE PlanBuild_proofs ---------------------------
(***************************************************************************)
(* Proofs about dslc and build_all_plans: artifacts are wired as their     *)
(* plans were written, dslc refines its promise although files change and  *)
(* runs are killed, and index.json is true; for every set of files, texts, *)
(* batches and every length of a session, and for all compilers of         *)
(* expressions (IsNatural, Compiled and Built stay uninterpreted).         *)
(***************************************************************************)
EXTENDS PlanBuild, SequenceTheorems, WellFoundedInduction, TLAPS

-----------------------------------------------------------------------------
(***************************************************************************)
(* What holds of the nodes of a context or an artifact.  E and P are the   *)
(* numbers of the forms that dslc took out and has not merged yet.         *)
(***************************************************************************)
MadeIn(nodes, id, k) == \E i \in DOMAIN nodes : nodes[i].node_id = id /\ nodes[i].at = k

\* A reference to a table: by a static number, or to an entry.
RefSound(id, table, S) ==
  \/ \E n \in S : id = [t |-> "id", static |-> TRUE, n |-> n]
  \/ \E n \in table : id = [t |-> "id", static |-> FALSE, n |-> n]

IsNode(node) ==
  /\ node = [node_id |-> node.node_id, op |-> node.op, inputs |-> node.inputs,
             params |-> node.params, ext |-> node.ext, at |-> node.at]
  /\ node.params = [n \in DOMAIN node.params |-> node.params[n]]
  /\ node.node_id \in Nat

\* A node reads from the nodes its author's handles came from.
Wired(node, nodes, step, exprs, preds, E, P) ==
  /\ \A j \in DOMAIN node.inputs : MadeIn(nodes, node.inputs[j], step.input)
  /\ node.op = ConcatImpl.op =>
       "rhs" \in DOMAIN node.params /\ MadeIn(nodes, node.params.rhs.node, step.rhs)
  /\ node.op = VmImpl.op =>
       "expr_id" \in DOMAIN node.params /\ RefSound(node.params.expr_id, exprs, E)
  /\ node.op = FilterImpl.op =>
       "pred_id" \in DOMAIN node.params /\ RefSound(node.params.pred_id, preds, P)

\* The nodes that the first "done" steps of a definePlan have made, in order.
NodesSound(nodes, sites, steps, done, exprs, preds, E, P) ==
  /\ DOMAIN nodes \subseteq Nat
  /\ \A i \in DOMAIN nodes :
       /\ IsNode(nodes[i])
       /\ nodes[i].at \in 1..done
       /\ steps[nodes[i].at].do = "call"
       /\ nodes[i].op = sites[steps[nodes[i].at].site].task.op
       /\ Wired(nodes[i], nodes, steps[nodes[i].at], exprs, preds, E, P)
  /\ \A i, j \in DOMAIN nodes :
       i < j => nodes[i].node_id < nodes[j].node_id /\ nodes[i].at < nodes[j].at

IsCtx(ctx) ==
  ctx = [counter |-> ctx.counter, nodes |-> ctx.nodes, exprs |-> ctx.exprs,
         preds |-> ctx.preds, caps |-> ctx.caps, ext |-> ctx.ext]

\* A context after the steps whose results are in handles.
CtxSound(ctx, handles, sites, steps, E, P) ==
  /\ IsCtx(ctx)
  /\ ctx.counter \in Nat
  /\ ctx.nodes \in Seq(Range(ctx.nodes))
  /\ handles \in Seq(Int) /\ Len(handles) <= Len(steps)
  /\ NodesSound(ctx.nodes, sites, steps, Len(handles), DOMAIN ctx.exprs, DOMAIN ctx.preds, E, P)
  /\ \A i \in DOMAIN ctx.nodes : ctx.nodes[i].node_id < ctx.counter
  /\ \A k \in DOMAIN handles : steps[k].do = "call" =>
       IF handles[k] = Thrown THEN steps[k].caught ELSE MadeIn(ctx.nodes, handles[k], k)

IsArtifact(a) ==
  a = [plan_name |-> a.plan_name, nodes |-> a.nodes, outputs |-> a.outputs,
       exprs |-> a.exprs, preds |-> a.preds, caps |-> a.caps, ext |-> a.ext]

\* The artifact of a definePlan.
ArtifactSound(a, sites, plan, E, P) ==
  /\ IsArtifact(a)
  /\ a.plan_name = plan.name
  /\ NodesSound(a.nodes, sites, plan.steps, Len(plan.steps), DOMAIN a.exprs, DOMAIN a.preds, E, P)
  /\ \A k \in DOMAIN plan.steps :
       plan.steps[k].do = "call" /\ ~ plan.steps[k].caught =>
         \E i \in DOMAIN a.nodes : a.nodes[i].at = k
  /\ MadeIn(a.nodes, a.outputs[1], plan.result)

\* A complete output file for the name b.
OutputSound(o, b) ==
  /\ o = Output(o.artifact, o.of)
  /\ o.of \in DOMAIN Text
  /\ Len(Text[o.of].builds) = 1
  /\ o.artifact.plan_name = b
  /\ ArtifactSound(o.artifact, Text[o.of].sites, Text[o.of].builds[1], {}, {})

\* Where there is a number in place of a tree, a form of the task's type has it.
StaticSound(static, sites, E, P) ==
  \A s \in DOMAIN static :
    /\ sites[s].task = VmImpl => static[s] \in E
    /\ sites[s].task = FilterImpl => static[s] \in P

-----------------------------------------------------------------------------
(***************************************************************************)
(* The tasks and their parameters.                                         *)
(***************************************************************************)
ExprParam == Param("expr_id", "expr", "expr_id", TRUE)
PredParam == Param("pred_id", "pred", "pred_id", TRUE)
RhsParam == Param("rhs", "rhs", "node_ref", TRUE)

\* An op names one task.
LEMMA TaskOfOp ==
    ASSUME NEW task \in Tasks
    PROVE  /\ task.op = VmImpl.op => task = VmImpl
           /\ task.op = FilterImpl.op => task = FilterImpl
           /\ task.op = ConcatImpl.op => task = ConcatImpl
<1>1. /\ VmImpl.op = "core::vm" /\ FilterImpl.op = "core::filter" /\ ConcatImpl.op = "core::concat"
      /\ ViewerImpl.op = "core::viewer" /\ FixedSourceImpl.op = "test::fixed_source"
      /\ FollowImpl.op = "core::follow" /\ MediaImpl.op = "core::media"
      /\ RecommendationImpl.op = "core::recommendation" /\ SortImpl.op = "core::sort"
      /\ TakeImpl.op = "core::take" /\ BusyCpuImpl.op = "test::busy_cpu" /\ SleepImpl.op = "test::sleep"
  BY DEF VmImpl, FilterImpl, ConcatImpl, ViewerImpl, FixedSourceImpl, FollowImpl, MediaImpl,
         RecommendationImpl, SortImpl, TakeImpl, BusyCpuImpl, SleepImpl, Source, Transform
<1> QED BY <1>1 DEF Tasks

LEMMA VmTask ==
    /\ VmImpl.params = {ExprParam, Param("out_key", "outKey", "key", TRUE), Trace}
    /\ TreeParams(VmImpl) = {ExprParam}
    /\ \A p \in VmImpl.params : p.cpp = "expr_id" => p = ExprParam
    /\ \A p \in VmImpl.params : p.ts = "expr" => p = ExprParam
<1>1. VmImpl.params = {ExprParam, Param("out_key", "outKey", "key", TRUE), Trace}
  BY DEF VmImpl, Transform, ExprParam
<1> QED BY <1>1 DEF TreeParams, ExprParam, Param, Trace

LEMMA FilterTask ==
    /\ FilterImpl.params = {PredParam, Trace}
    /\ TreeParams(FilterImpl) = {PredParam}
    /\ \A p \in FilterImpl.params : p.cpp = "pred_id" => p = PredParam
    /\ \A p \in FilterImpl.params : p.ts = "pred" => p = PredParam
<1>1. FilterImpl.params = {PredParam, Trace}
  BY DEF FilterImpl, Transform, PredParam
<1> QED BY <1>1 DEF TreeParams, PredParam, Param, Trace

LEMMA ConcatTask ==
    /\ ConcatImpl.params = {RhsParam, Trace}
    /\ \A p \in ConcatImpl.params : p.cpp = "rhs" => p = RhsParam
<1>1. ConcatImpl.params = {RhsParam, Trace}
  BY DEF ConcatImpl, Transform, RhsParam
<1> QED BY <1>1 DEF RhsParam, Param, Trace

-----------------------------------------------------------------------------
(***************************************************************************)
(* Calls.  A call may add an entry to a table, then a node.                *)
(***************************************************************************)
\* Tables only grow, and the rest of the context stays.
LEMMA TablesGrow ==
    ASSUME NEW ctx, IsCtx(ctx), NEW task, NEW opts
    PROVE  LET c == WithTables(ctx, task, opts)
           IN /\ IsCtx(c)
              /\ c.counter = ctx.counter /\ c.nodes = ctx.nodes
              /\ DOMAIN ctx.exprs \subseteq DOMAIN c.exprs
              /\ DOMAIN ctx.preds \subseteq DOMAIN c.preds
<1> DEFINE grown(f, ir) == Put(f, Cardinality(DOMAIN f), ir)
           E(ir) == AddExpr(ctx, ir)
           P(ir) == AddPred(ctx, ir)
<1>1. \A f, ir : DOMAIN f \subseteq DOMAIN grown(f, ir)
  BY DEF Put
<1>2. \A ir : /\ E(ir) = [counter |-> ctx.counter, nodes |-> ctx.nodes, exprs |-> grown(ctx.exprs, ir),
                         preds |-> ctx.preds, caps |-> ctx.caps, ext |-> ctx.ext]
              /\ P(ir) = [counter |-> ctx.counter, nodes |-> ctx.nodes, exprs |-> ctx.exprs,
                         preds |-> grown(ctx.preds, ir), caps |-> ctx.caps, ext |-> ctx.ext]
  BY DEF IsCtx, AddExpr, AddPred
<1> HIDE DEF grown
<1>3. ASSUME NEW ir
      PROVE  /\ IsCtx(E(ir)) /\ E(ir).counter = ctx.counter /\ E(ir).nodes = ctx.nodes
             /\ DOMAIN ctx.exprs \subseteq DOMAIN E(ir).exprs /\ E(ir).preds = ctx.preds
             /\ IsCtx(P(ir)) /\ P(ir).counter = ctx.counter /\ P(ir).nodes = ctx.nodes
             /\ DOMAIN ctx.preds \subseteq DOMAIN P(ir).preds /\ P(ir).exprs = ctx.exprs
  <2> HIDE DEF E, P
  <2> QED BY <1>1, <1>2 DEF IsCtx
<1> HIDE DEF E, P
<1>4. \/ WithTables(ctx, task, opts) = ctx
      \/ \E ir : WithTables(ctx, task, opts) = E(ir) \/ WithTables(ctx, task, opts) = P(ir)
  BY DEF WithTables, E, P
<1> QED BY <1>3, <1>4

\* The node of a vm call refers to an expression that is there, or by the number
\* dslc put in its place.
LEMMA VmCall ==
    ASSUME NEW ctx, IsCtx(ctx), NEW opts, OptsAccepted(VmImpl, opts), NEW E,
           "expr" \in DOMAIN opts /\ opts.expr.t = "placeholder" => opts.expr.id \in E
    PROVE  LET params == NodeParams(ctx, VmImpl, opts)
           IN /\ "expr_id" \in DOMAIN params
              /\ RefSound(params.expr_id, DOMAIN WithTables(ctx, VmImpl, opts).exprs, E)
<1> DEFINE params == NodeParams(ctx, VmImpl, opts)
           size == Cardinality(DOMAIN ctx.exprs)
<1>1. ExprParam \in VmImpl.params /\ ExprParam.ts = "expr" /\ ExprParam.cpp = "expr_id"
      /\ ExprParam.type = "expr_id" /\ ExprParam.required
  BY VmTask DEF ExprParam, Param
<1>2. "expr" \in DOMAIN opts /\ opts.expr.t \in {"ir", "placeholder"}
  <2>1. "expr" \in DOMAIN opts /\ Asserted("expr_id", opts["expr"])
    BY <1>1 DEF OptsAccepted
  <2> QED BY <2>1 DEF Asserted
<1>3. (CHOOSE p \in VmImpl.params : p.cpp = "expr_id") = ExprParam
  BY <1>1, VmTask
<1>4. "expr_id" \in DOMAIN params /\ params["expr_id"] = ParamValue(ctx, ExprParam, opts)
  BY <1>1, <1>3 DEF NodeParams
<1>5. params["expr_id"] = TableId(ctx, ExprParam, opts["expr"])
  BY <1>1, <1>2, <1>4 DEF ParamValue
<1>6. CASE opts.expr.t = "placeholder"
  <2>1. params["expr_id"] = [t |-> "id", static |-> TRUE, n |-> opts.expr.id]
    BY <1>5, <1>6 DEF TableId
  <2> QED BY <1>2, <1>4, <1>6, <2>1 DEF RefSound
<1>7. CASE opts.expr.t = "ir"
  <2>1. params["expr_id"] = [t |-> "id", static |-> FALSE, n |-> size]
    BY <1>1, <1>5, <1>7 DEF TableId
  <2>2. {p \in TreeParams(VmImpl) : opts[p.ts].t = "ir"} = {ExprParam}
    BY <1>1, <1>7, VmTask
  <2>3. WithTables(ctx, VmImpl, opts) = AddExpr(ctx, opts["expr"].ir)
    BY <1>1, <2>2 DEF WithTables
  <2>4. WithTables(ctx, VmImpl, opts).exprs = Put(ctx.exprs, size, opts["expr"].ir)
    BY <2>3 DEF AddExpr, IsCtx
  <2>5. size \in DOMAIN Put(ctx.exprs, size, opts["expr"].ir)
    BY DEF Put
  <2> QED BY <1>4, <2>1, <2>4, <2>5 DEF RefSound
<1> QED BY <1>2, <1>6, <1>7

\* The same of a filter call and its predicate.
LEMMA FilterCall ==
    ASSUME NEW ctx, IsCtx(ctx), NEW opts, OptsAccepted(FilterImpl, opts), NEW P,
           "pred" \in DOMAIN opts /\ opts.pred.t = "placeholder" => opts.pred.id \in P
    PROVE  LET params == NodeParams(ctx, FilterImpl, opts)
           IN /\ "pred_id" \in DOMAIN params
              /\ RefSound(params.pred_id, DOMAIN WithTables(ctx, FilterImpl, opts).preds, P)
<1> DEFINE params == NodeParams(ctx, FilterImpl, opts)
           size == Cardinality(DOMAIN ctx.preds)
<1>1. PredParam \in FilterImpl.params /\ PredParam.ts = "pred" /\ PredParam.cpp = "pred_id"
      /\ PredParam.type = "pred_id" /\ PredParam.required
  BY FilterTask DEF PredParam, Param
<1>2. "pred" \in DOMAIN opts /\ opts.pred.t \in {"ir", "placeholder"}
  <2>1. "pred" \in DOMAIN opts /\ Asserted("pred_id", opts["pred"])
    BY <1>1 DEF OptsAccepted
  <2> QED BY <2>1 DEF Asserted
<1>3. (CHOOSE p \in FilterImpl.params : p.cpp = "pred_id") = PredParam
  BY <1>1, FilterTask
<1>4. "pred_id" \in DOMAIN params /\ params["pred_id"] = ParamValue(ctx, PredParam, opts)
  BY <1>1, <1>3 DEF NodeParams
<1>5. params["pred_id"] = TableId(ctx, PredParam, opts["pred"])
  BY <1>1, <1>2, <1>4 DEF ParamValue
<1>6. CASE opts.pred.t = "placeholder"
  <2>1. params["pred_id"] = [t |-> "id", static |-> TRUE, n |-> opts.pred.id]
    BY <1>5, <1>6 DEF TableId
  <2> QED BY <1>2, <1>4, <1>6, <2>1 DEF RefSound
<1>7. CASE opts.pred.t = "ir"
  <2>1. params["pred_id"] = [t |-> "id", static |-> FALSE, n |-> size]
    BY <1>1, <1>5, <1>7 DEF TableId
  <2>2. {p \in TreeParams(FilterImpl) : opts[p.ts].t = "ir"} = {PredParam}
    BY <1>1, <1>7, FilterTask
  <2>3. WithTables(ctx, FilterImpl, opts) = AddPred(ctx, opts["pred"].ir)
    BY <1>1, <2>2 DEF WithTables
  <2>4. WithTables(ctx, FilterImpl, opts).preds = Put(ctx.preds, size, opts["pred"].ir)
    BY <2>3 DEF AddPred, IsCtx
  <2>5. size \in DOMAIN Put(ctx.preds, size, opts["pred"].ir)
    BY DEF Put
  <2> QED BY <1>4, <2>1, <2>4, <2>5 DEF RefSound
<1> QED BY <1>2, <1>6, <1>7

\* The node of a concat refers to the node of its right side, a set of this context.
LEMMA ConcatCall ==
    ASSUME NEW ctx, NEW opts, OptsAccepted(ConcatImpl, opts)
    PROVE  /\ "rhs" \in DOMAIN NodeParams(ctx, ConcatImpl, opts)
           /\ NodeParams(ctx, ConcatImpl, opts).rhs.node = opts.rhs.node
           /\ opts.rhs.own
<1>1. RhsParam \in ConcatImpl.params /\ RhsParam.ts = "rhs" /\ RhsParam.cpp = "rhs"
      /\ RhsParam.type = "node_ref" /\ RhsParam.required
  BY ConcatTask DEF RhsParam, Param
<1>2. "rhs" \in DOMAIN opts /\ opts.rhs.own
  BY <1>1 DEF OptsAccepted
<1>3. (CHOOSE p \in ConcatImpl.params : p.cpp = "rhs") = RhsParam
  BY <1>1, ConcatTask
<1>4. /\ "rhs" \in DOMAIN NodeParams(ctx, ConcatImpl, opts)
      /\ NodeParams(ctx, ConcatImpl, opts)["rhs"] = ParamValue(ctx, RhsParam, opts)
  BY <1>1, <1>3 DEF NodeParams
<1>5. ParamValue(ctx, RhsParam, opts) = [t |-> "node", node |-> opts["rhs"].node]
  BY <1>1, <1>2 DEF ParamValue
<1> QED BY <1>2, <1>4, <1>5

\* What is wired stays wired when nodes and entries are added.
LEMMA WiredKept ==
    ASSUME NEW node, NEW nodes, NEW more, NEW step, NEW X, NEW Y, NEW X2, NEW Y2, NEW E, NEW P,
           Wired(node, nodes, step, X, Y, E, P), X \subseteq X2, Y \subseteq Y2,
           \A id, k : MadeIn(nodes, id, k) => MadeIn(more, id, k)
    PROVE  Wired(node, more, step, X2, Y2, E, P)
BY DEF Wired, RefSound

LEMMA TablesKept ==
    ASSUME NEW nodes, NEW sites, NEW steps, NEW done, NEW X, NEW Y, NEW X2, NEW Y2, NEW E, NEW P,
           NodesSound(nodes, sites, steps, done, X, Y, E, P), X \subseteq X2, Y \subseteq Y2
    PROVE  NodesSound(nodes, sites, steps, done, X2, Y2, E, P)
<1>1. \A i \in DOMAIN nodes : Wired(nodes[i], nodes, steps[nodes[i].at], X2, Y2, E, P)
  BY WiredKept DEF NodesSound
<1> QED BY <1>1 DEF NodesSound

LEMMA NodesKept ==
    ASSUME NEW nodes, NEW sites, NEW steps, NEW done \in Nat, NEW X, NEW Y, NEW E, NEW P,
           NodesSound(nodes, sites, steps, done, X, Y, E, P)
    PROVE  NodesSound(nodes, sites, steps, done + 1, X, Y, E, P)
BY DEF NodesSound

\* A node made by the step after those that are done.
Addable(node, nodes, sites, steps, done, X, Y, E, P) ==
  /\ done \in Nat /\ nodes \in Seq(Range(nodes))
  /\ NodesSound(nodes, sites, steps, done, X, Y, E, P)
  /\ IsNode(node) /\ node.at = done + 1
  /\ steps[done + 1].do = "call" /\ node.op = sites[steps[done + 1].site].task.op
  /\ Wired(node, nodes, steps[done + 1], X, Y, E, P)
  /\ \A i \in DOMAIN nodes : nodes[i].node_id < node.node_id

LEMMA NodeAdded ==
    ASSUME NEW node, NEW nodes, NEW sites, NEW steps, NEW done, NEW X, NEW Y, NEW E, NEW P,
           Addable(node, nodes, sites, steps, done, X, Y, E, P)
    PROVE  LET more == Append(nodes, node)
           IN /\ more \in Seq(Range(more))
              /\ NodesSound(more, sites, steps, done + 1, X, Y, E, P)
              /\ \A id, k : MadeIn(nodes, id, k) => MadeIn(more, id, k)
              /\ MadeIn(more, node.node_id, done + 1)
              /\ \A n : (n > node.node_id /\ \A i \in DOMAIN nodes : nodes[i].node_id < n)
                       => \A i \in DOMAIN more : more[i].node_id < n
<1> USE DEF Addable
<1> DEFINE more == Append(nodes, node)
           n == Len(nodes)
<1>1. /\ n \in Nat /\ DOMAIN nodes = 1..n
      /\ Len(more) = n + 1 /\ DOMAIN more = 1..(n + 1)
      /\ \A i \in 1..n : more[i] = nodes[i]
      /\ more[n + 1] = node
      /\ more \in Seq(Range(nodes) \cup {node})
  <2>1. n \in Nat /\ DOMAIN nodes = 1..n
    BY LenProperties
  <2>2. nodes \in Seq(Range(nodes) \cup {node}) /\ node \in Range(nodes) \cup {node}
    BY SeqMonotonic
  <2> QED BY <2>1, <2>2, AppendProperties, LenProperties
<1> HIDE DEF more
<1>2. more \in Seq(Range(more))
  <2>1. \A i \in 1..Len(more) : more[i] \in Range(more)
    BY <1>1 DEF Range
  <2>2. more = [i \in 1..Len(more) |-> more[i]] /\ Len(more) \in Nat
    BY <1>1, LenProperties
  <2> QED BY <2>1, <2>2, SeqDef
<1>3. \A id, k : MadeIn(nodes, id, k) => MadeIn(more, id, k)
  BY <1>1 DEF MadeIn
<1>4. MadeIn(more, node.node_id, done + 1)
  BY <1>1 DEF MadeIn
<1>5. ASSUME NEW i \in DOMAIN more
      PROVE  /\ IsNode(more[i])
             /\ more[i].at \in 1..(done + 1)
             /\ steps[more[i].at].do = "call"
             /\ more[i].op = sites[steps[more[i].at].site].task.op
             /\ Wired(more[i], more, steps[more[i].at], X, Y, E, P)
  <2>1. CASE i \in 1..n
    <3>1. i \in DOMAIN nodes /\ more[i] = nodes[i]
      BY <1>1, <2>1
    <3>2. Wired(nodes[i], nodes, steps[nodes[i].at], X, Y, E, P)
      BY <3>1 DEF NodesSound
    <3>3. Wired(nodes[i], more, steps[nodes[i].at], X, Y, E, P)
      BY <3>2, <1>3, WiredKept
    <3>4. /\ IsNode(nodes[i]) /\ nodes[i].at \in 1..done
          /\ steps[nodes[i].at].do = "call"
          /\ nodes[i].op = sites[steps[nodes[i].at].site].task.op
      BY <3>1 DEF NodesSound
    <3> QED BY <3>1, <3>3, <3>4
  <2>2. CASE i = n + 1
    <3>1. Wired(node, more, steps[done + 1], X, Y, E, P)
      BY <1>3, WiredKept
    <3> QED BY <3>1, <1>1, <2>2
  <2> QED BY <1>1, <2>1, <2>2
<1>6. ASSUME NEW i \in DOMAIN more, NEW j \in DOMAIN more, i < j
      PROVE  more[i].node_id < more[j].node_id /\ more[i].at < more[j].at
  <2>1. i \in 1..n /\ more[i] = nodes[i] /\ i \in DOMAIN nodes
    BY <1>1, <1>6
  <2>2. CASE j \in 1..n
    BY <1>1, <1>6, <2>1, <2>2 DEF NodesSound
  <2>3. CASE j = n + 1
    <3>1. nodes[i].at \in 1..done
      BY <2>1 DEF NodesSound
    <3> QED BY <1>1, <2>1, <2>3, <3>1
  <2> QED BY <1>1, <2>2, <2>3
<1>7. NodesSound(more, sites, steps, done + 1, X, Y, E, P)
  <2>1. DOMAIN more \subseteq Nat
    BY <1>1
  <2> QED BY <2>1, <1>5, <1>6 DEF NodesSound
<1>8. ASSUME NEW m, m > node.node_id, \A i \in DOMAIN nodes : nodes[i].node_id < m
      PROVE  \A i \in DOMAIN more : more[i].node_id < m
  BY <1>1, <1>8
<1> QED BY <1>2, <1>3, <1>4, <1>7, <1>8 DEF more

\* A step that makes no node: it required a capability, or it threw and was caught.
LEMMA HandleAdded ==
    ASSUME NEW sites, NEW steps, NEW E, NEW P, NEW ctx, NEW handles,
           CtxSound(ctx, handles, sites, steps, E, P), Len(handles) < Len(steps), Len(steps) \in Nat,
           NEW c, IsCtx(c), c.counter \in Nat, ctx.counter <= c.counter, c.nodes = ctx.nodes,
           DOMAIN ctx.exprs \subseteq DOMAIN c.exprs, DOMAIN ctx.preds \subseteq DOMAIN c.preds,
           NEW h \in Int,
           steps[Len(handles) + 1].do = "call" => h = Thrown /\ steps[Len(handles) + 1].caught
    PROVE  CtxSound(c, Append(handles, h), sites, steps, E, P)
<1> DEFINE n == Len(handles)
           more == Append(handles, h)
<1>1. /\ n \in Nat /\ DOMAIN handles = 1..n
      /\ more \in Seq(Int) /\ Len(more) = n + 1 /\ DOMAIN more = 1..(n + 1)
      /\ \A i \in 1..n : more[i] = handles[i]
      /\ more[n + 1] = h
  <2>1. handles \in Seq(Int)
    BY DEF CtxSound
  <2> QED BY <2>1, AppendProperties, LenProperties
<1> HIDE DEF more
<1>2. NodesSound(c.nodes, sites, steps, Len(more), DOMAIN c.exprs, DOMAIN c.preds, E, P)
  <2>1. NodesSound(c.nodes, sites, steps, n, DOMAIN ctx.exprs, DOMAIN ctx.preds, E, P)
    BY DEF CtxSound
  <2>2. NodesSound(c.nodes, sites, steps, n + 1, DOMAIN c.exprs, DOMAIN c.preds, E, P)
    BY <1>1, <2>1, TablesKept, NodesKept
  <2> QED BY <1>1, <2>2
<1>3. \A i \in DOMAIN c.nodes : c.nodes[i].node_id < c.counter
  <2>1. \A i \in DOMAIN c.nodes : c.nodes[i].node_id \in Nat /\ c.nodes[i].node_id < ctx.counter
    BY DEF CtxSound, NodesSound, IsNode
  <2> QED BY <2>1 DEF CtxSound
<1>4. ASSUME NEW k \in DOMAIN more, steps[k].do = "call"
      PROVE  IF more[k] = Thrown THEN steps[k].caught ELSE MadeIn(c.nodes, more[k], k)
  <2>1. CASE k \in 1..n
    BY <1>1, <1>4, <2>1 DEF CtxSound
  <2>2. CASE k = n + 1
    BY <1>1, <1>4, <2>2
  <2> QED BY <1>1, <2>1, <2>2
<1>5. Len(more) <= Len(steps)
  BY <1>1
<1>6. c.nodes \in Seq(Range(c.nodes))
  BY DEF CtxSound
<1> QED BY <1>1, <1>2, <1>3, <1>4, <1>5, <1>6 DEF CtxSound, IsCtx, more

\* requireCapability.
LEMMA RequireKeeps ==
    ASSUME NEW sites, NEW steps, NEW E, NEW P, NEW ctx, NEW handles,
           CtxSound(ctx, handles, sites, steps, E, P), Len(handles) < Len(steps), Len(steps) \in Nat,
           NEW cap, NEW payload, steps[Len(handles) + 1].do # "call"
    PROVE  LET r == RequireCapability(ctx, cap, payload)
           IN CtxSound(r.ctx, Append(handles, r.node), sites, steps, E, P)
<1> DEFINE r == RequireCapability(ctx, cap, payload)
<1>1. /\ r.node \in Int
      /\ IsCtx(r.ctx) /\ r.ctx.counter = ctx.counter /\ r.ctx.nodes = ctx.nodes
      /\ r.ctx.exprs = ctx.exprs /\ r.ctx.preds = ctx.preds
  <2> DEFINE caps == ctx.caps \cup {cap}
             noted == [ctx EXCEPT !.caps = caps]
             stored == [noted EXCEPT !.ext = Put(@, cap, payload)]
  <2>1. /\ IsCtx(noted) /\ noted.counter = ctx.counter /\ noted.nodes = ctx.nodes
        /\ noted.exprs = ctx.exprs /\ noted.preds = ctx.preds
    <3>1. noted = [counter |-> ctx.counter, nodes |-> ctx.nodes, exprs |-> ctx.exprs,
                   preds |-> ctx.preds, caps |-> caps, ext |-> ctx.ext]
      <4>1. IsCtx(ctx)
        BY DEF CtxSound
      <4> HIDE DEF caps
      <4> QED BY <4>1 DEF IsCtx
    <3> HIDE DEF noted
    <3> QED BY <3>1 DEF IsCtx
  <2> HIDE DEF noted
  <2>2. /\ IsCtx(stored) /\ stored.counter = ctx.counter /\ stored.nodes = ctx.nodes
        /\ stored.exprs = ctx.exprs /\ stored.preds = ctx.preds
    BY <2>1 DEF IsCtx
  <2> HIDE DEF stored
  <2>3. r \in {[ctx |-> noted, node |-> 0], [ctx |-> noted, node |-> Thrown], [ctx |-> stored, node |-> 0]}
    BY DEF RequireCapability, noted, stored
  <2>4. (r.ctx = noted \/ r.ctx = stored) /\ r.node \in Int
    BY <2>3 DEF Thrown
  <2> QED BY <2>1, <2>2, <2>4
<1> HIDE DEF r
<1>2. ctx.counter \in Nat
  BY DEF CtxSound
<1>3. CtxSound(r.ctx, Append(handles, r.node), sites, steps, E, P)
  BY <1>1, <1>2, HandleAdded
<1> QED BY <1>3 DEF r

LEMMA WithNodes ==
    ASSUME NEW c, IsCtx(c), NEW n
    PROVE  [c EXCEPT !.nodes = n] = [counter |-> c.counter, nodes |-> n, exprs |-> c.exprs,
                                     preds |-> c.preds, caps |-> c.caps, ext |-> c.ext]
BY DEF IsCtx

\* A call whose handles came from the author's steps, and whose placeholders are dslc's.
Callable(sites, steps, E, P, ctx, handles, step, task, input, opts) ==
  /\ CtxSound(ctx, handles, sites, steps, E, P)
  /\ Len(handles) < Len(steps) /\ Len(steps) \in Nat
  /\ step = steps[Len(handles) + 1] /\ step.do = "call"
  /\ task \in Tasks /\ task = sites[step.site].task
  /\ ~ task.source => MadeIn(ctx.nodes, input, step.input)
  /\ task = ConcatImpl /\ opts.rhs.own => MadeIn(ctx.nodes, opts.rhs.node, step.rhs)
  /\ task = VmImpl /\ "expr" \in DOMAIN opts /\ opts.expr.t = "placeholder" => opts.expr.id \in E
  /\ task = FilterImpl /\ "pred" \in DOMAIN opts /\ opts.pred.t = "placeholder" => opts.pred.id \in P

LEMMA CallKeeps ==
    ASSUME NEW sites, NEW steps, NEW E, NEW P, NEW ctx, NEW handles, NEW step, NEW task, NEW input,
           NEW opts, NEW ext, Callable(sites, steps, E, P, ctx, handles, step, task, input, opts)
    PROVE  LET r == CallTask(ctx, task, input, opts, ext, Len(handles) + 1)
           IN (r.node = Thrown => step.caught)
                => CtxSound(r.ctx, Append(handles, r.node), sites, steps, E, P)
<1> USE DEF Callable
<1> DEFINE at == Len(handles) + 1
           r == CallTask(ctx, task, input, opts, ext, at)
           c == WithTables(ctx, task, opts)
           spent == [c EXCEPT !.counter = @ + 1]
           node == [node_id |-> c.counter, op |-> task.op, inputs |-> IF task.source THEN <<>> ELSE <<input>>,
                    params |-> NodeParams(ctx, task, opts), ext |-> ext, at |-> at]
           full == [spent EXCEPT !.nodes = Append(@, node)]
<1>1. IsCtx(ctx) /\ ctx.counter \in Nat /\ Len(handles) \in Nat /\ Thrown \in Int
      /\ ctx.nodes \in Seq(Range(ctx.nodes))
  BY LenProperties DEF CtxSound, IsCtx, Thrown
<1>2. /\ IsCtx(c) /\ c.counter = ctx.counter /\ c.nodes = ctx.nodes
      /\ DOMAIN ctx.exprs \subseteq DOMAIN c.exprs /\ DOMAIN ctx.preds \subseteq DOMAIN c.preds
  BY <1>1, TablesGrow
<1>3. /\ IsCtx(spent) /\ spent.counter = ctx.counter + 1 /\ spent.nodes = ctx.nodes
      /\ spent.exprs = c.exprs /\ spent.preds = c.preds
  <2> HIDE DEF c
  <2> QED BY <1>2 DEF IsCtx
<1>4. SUFFICES ASSUME r.node = Thrown => step.caught
               PROVE  CtxSound(r.ctx, Append(handles, r.node), sites, steps, E, P)
  OBVIOUS
<1>5. CASE ~ OptsAccepted(task, opts)
  <2>1. r = [ctx |-> ctx, node |-> Thrown]
    BY <1>5 DEF CallTask
  <2>2. r.ctx = ctx /\ r.node = Thrown
    BY <2>1
  <2> HIDE DEF r
  <2> QED BY <1>1, <1>4, <2>2, HandleAdded
<1>6. CASE OptsAccepted(task, opts) /\ "undefined" \in Range(ext)
  <2>1. r = [ctx |-> spent, node |-> Thrown]
    BY <1>6 DEF CallTask, AddNode
  <2>2. r.ctx = spent /\ r.node = Thrown
    BY <2>1
  <2> HIDE DEF r, spent, c
  <2> QED BY <1>1, <1>2, <1>3, <1>4, <2>2, HandleAdded
<1>7. CASE OptsAccepted(task, opts) /\ "undefined" \notin Range(ext)
  <2>1. r = [ctx |-> full, node |-> c.counter]
    BY <1>7 DEF CallTask, AddNode
  <2>2. r.ctx = full /\ r.node = ctx.counter
    <3> HIDE DEF r, c, full
    <3> QED BY <2>1, <1>2
  <2>3. /\ IsCtx(full) /\ full.counter = ctx.counter + 1 /\ full.nodes = Append(ctx.nodes, node)
        /\ full.exprs = c.exprs /\ full.preds = c.preds
    <3> HIDE DEF spent, node
    <3>1. full = [counter |-> spent.counter, nodes |-> Append(spent.nodes, node), exprs |-> spent.exprs,
                  preds |-> spent.preds, caps |-> spent.caps, ext |-> spent.ext]
      BY <1>3, WithNodes
    <3> HIDE DEF full
    <3> QED BY <1>3, <3>1 DEF IsCtx
  <2>4. IsNode(node) /\ node.at = at /\ node.node_id = ctx.counter /\ node.op = task.op
        /\ node.params = NodeParams(ctx, task, opts)
        /\ \A j \in DOMAIN node.inputs : ~ task.source /\ node.inputs[j] = input
    <3> HIDE DEF c
    <3>1. NodeParams(ctx, task, opts) = [m \in DOMAIN NodeParams(ctx, task, opts) |-> NodeParams(ctx, task, opts)[m]]
      BY DEF NodeParams
    <3>2. /\ node.at = at /\ node.node_id = ctx.counter /\ node.op = task.op
          /\ node.params = NodeParams(ctx, task, opts)
          /\ node.inputs = IF task.source THEN <<>> ELSE <<input>>
      BY <1>2
    <3>3. IsNode(node)
      BY <3>1, <1>1, <1>2 DEF IsNode
    <3> HIDE DEF node
    <3>4. ASSUME NEW j \in DOMAIN node.inputs PROVE ~ task.source /\ node.inputs[j] = input
      BY <3>2
    <3> QED BY <3>2, <3>3, <3>4
  <2> HIDE DEF node, r, full, spent
  <2>5. Wired(node, ctx.nodes, step, DOMAIN c.exprs, DOMAIN c.preds, E, P)
    <3>1. \A j \in DOMAIN node.inputs : MadeIn(ctx.nodes, node.inputs[j], step.input)
      BY <2>4
    <3>2. ASSUME node.op = ConcatImpl.op
          PROVE  "rhs" \in DOMAIN node.params /\ MadeIn(ctx.nodes, node.params.rhs.node, step.rhs)
      <4>1. task = ConcatImpl
        BY <2>4, <3>2, TaskOfOp
      <4>2. /\ "rhs" \in DOMAIN NodeParams(ctx, ConcatImpl, opts)
            /\ NodeParams(ctx, ConcatImpl, opts).rhs.node = opts.rhs.node /\ opts.rhs.own
        BY <1>7, <4>1, ConcatCall
      <4> QED BY <2>4, <4>1, <4>2
    <3>3. ASSUME node.op = VmImpl.op
          PROVE  "expr_id" \in DOMAIN node.params /\ RefSound(node.params.expr_id, DOMAIN c.exprs, E)
      <4>1. task = VmImpl
        BY <2>4, <3>3, TaskOfOp
      <4> QED BY <1>1, <1>7, <2>4, <4>1, VmCall
    <3>4. ASSUME node.op = FilterImpl.op
          PROVE  "pred_id" \in DOMAIN node.params /\ RefSound(node.params.pred_id, DOMAIN c.preds, P)
      <4>1. task = FilterImpl
        BY <2>4, <3>4, TaskOfOp
      <4> QED BY <1>1, <1>7, <2>4, <4>1, FilterCall
    <3> QED BY <3>1, <3>2, <3>3, <3>4 DEF Wired
  <2> HIDE DEF c
  <2>6. /\ NodesSound(ctx.nodes, sites, steps, Len(handles), DOMAIN ctx.exprs, DOMAIN ctx.preds, E, P)
        /\ \A i \in DOMAIN ctx.nodes : ctx.nodes[i].node_id \in Nat /\ ctx.nodes[i].node_id < ctx.counter
    BY DEF CtxSound, NodesSound, IsNode
  <2>7. /\ full.nodes \in Seq(Range(full.nodes))
        /\ NodesSound(full.nodes, sites, steps, at, DOMAIN c.exprs, DOMAIN c.preds, E, P)
        /\ \A id, k : MadeIn(ctx.nodes, id, k) => MadeIn(full.nodes, id, k)
        /\ MadeIn(full.nodes, node.node_id, at)
        /\ \A m : (m > node.node_id /\ \A i \in DOMAIN ctx.nodes : ctx.nodes[i].node_id < m)
                  => \A i \in DOMAIN full.nodes : full.nodes[i].node_id < m
    <3>1. NodesSound(ctx.nodes, sites, steps, Len(handles), DOMAIN c.exprs, DOMAIN c.preds, E, P)
      BY <1>2, <2>6, TablesKept
    <3>2. Addable(node, ctx.nodes, sites, steps, Len(handles), DOMAIN c.exprs, DOMAIN c.preds, E, P)
      BY <1>1, <2>4, <2>5, <2>6, <3>1 DEF Addable
    <3> QED BY <2>3, <3>2, NodeAdded
  <2>8. \A i \in DOMAIN full.nodes : full.nodes[i].node_id < full.counter
    <3>1. ctx.counter + 1 > node.node_id /\ \A i \in DOMAIN ctx.nodes : ctx.nodes[i].node_id < ctx.counter + 1
      BY <1>1, <2>4, <2>6
    <3> QED BY <2>7, <2>3, <3>1
  <2> DEFINE more == Append(handles, ctx.counter)
  <2>9. /\ DOMAIN handles = 1..Len(handles)
        /\ more \in Seq(Int) /\ Len(more) = at /\ DOMAIN more = 1..at
        /\ \A i \in 1..Len(handles) : more[i] = handles[i]
        /\ more[at] = ctx.counter
    <3>1. handles \in Seq(Int) /\ ctx.counter \in Int
      BY <1>1 DEF CtxSound
    <3> QED BY <3>1, AppendProperties, LenProperties
  <2> HIDE DEF more
  <2>10. ASSUME NEW k \in DOMAIN more, steps[k].do = "call"
         PROVE  IF more[k] = Thrown THEN steps[k].caught ELSE MadeIn(full.nodes, more[k], k)
    <3>1. CASE k \in 1..Len(handles)
      BY <2>7, <2>9, <2>10, <3>1 DEF CtxSound
    <3>2. CASE k = at
      <4>1. ctx.counter # Thrown
        BY <1>1 DEF Thrown
      <4> QED BY <2>4, <2>7, <2>9, <3>2, <4>1
    <3> QED BY <1>1, <2>9, <3>1, <3>2
  <2>11. Len(more) <= Len(steps) /\ full.counter \in Nat
    BY <1>1, <2>3, <2>9
  <2>12. CtxSound(full, more, sites, steps, E, P)
    BY <2>3, <2>7, <2>8, <2>9, <2>10, <2>11 DEF CtxSound, IsCtx
  <2> QED BY <2>2, <2>12 DEF more
<1> QED BY <1>5, <1>6, <1>7

-----------------------------------------------------------------------------
(***************************************************************************)
(* The end of a definePlan, and the merge.                                 *)
(***************************************************************************)
LEMMA FinalizeSound ==
    ASSUME NEW sites, NEW plan, IsBuild(plan, sites), NEW E, NEW P, NEW ctx, NEW handles,
           CtxSound(ctx, handles, sites, plan.steps, E, P), Len(handles) = Len(plan.steps),
           NEW result, result.node = handles[plan.result], result.node # Thrown
    PROVE  ArtifactSound(Finalize(ctx, result, plan.name), sites, plan, E, P)
<1> DEFINE a == Finalize(ctx, result, plan.name)
<1>1. /\ a.plan_name = plan.name /\ a.nodes = ctx.nodes /\ a.outputs = <<result.node>>
      /\ a.exprs = ctx.exprs /\ a.preds = ctx.preds
      /\ IsArtifact(a)
  BY DEF Finalize, IsArtifact
<1>2. a.outputs[1] = result.node
  BY <1>1
<1> HIDE DEF a
<1>3. /\ Len(plan.steps) \in Nat /\ DOMAIN plan.steps = 1..Len(plan.steps)
      /\ DOMAIN handles = 1..Len(handles)
      /\ plan.result \in DOMAIN handles /\ plan.steps[plan.result].do = "call"
  BY LenProperties DEF IsBuild, Usable, CtxSound
<1>4. MadeIn(a.nodes, a.outputs[1], plan.result)
  BY <1>1, <1>2, <1>3 DEF CtxSound
<1>5. ASSUME NEW k \in DOMAIN plan.steps, plan.steps[k].do = "call", ~ plan.steps[k].caught
      PROVE  \E i \in DOMAIN a.nodes : a.nodes[i].at = k
  <2>1. MadeIn(ctx.nodes, handles[k], k)
    BY <1>3, <1>5 DEF CtxSound
  <2> QED BY <1>1, <2>1 DEF MadeIn
<1>6. NodesSound(a.nodes, sites, plan.steps, Len(plan.steps), DOMAIN a.exprs, DOMAIN a.preds, E, P)
  BY <1>1 DEF CtxSound
<1>7. ArtifactSound(a, sites, plan, E, P)
  BY <1>1, <1>4, <1>5, <1>6 DEF ArtifactSound
<1> QED BY <1>7 DEF a

\* What the merge does to one reference.
Remap(id, table, forms) ==
  IF id.static /\ id.n \in DOMAIN forms
  THEN [id EXCEPT !.static = FALSE, !.n = Cardinality(DOMAIN table) + @] ELSE id

\* A static number that was taken out becomes an entry of the merged table.
LEMMA RemapRef ==
    ASSUME NEW id, NEW table, NEW forms, RefSound(id, DOMAIN table, DOMAIN forms)
    PROVE  RefSound(Remap(id, table, forms), DOMAIN Merged(table, forms), {})
<1> DEFINE size == Cardinality(DOMAIN table)
<1>1. /\ DOMAIN table \subseteq DOMAIN Merged(table, forms)
      /\ \A n \in DOMAIN forms : size + n \in DOMAIN Merged(table, forms)
  BY DEF Merged
<1> HIDE DEF size
<1>2. CASE \E n \in DOMAIN forms : id = [t |-> "id", static |-> TRUE, n |-> n]
  <2>1. PICK n \in DOMAIN forms : id = [t |-> "id", static |-> TRUE, n |-> n]
    BY <1>2
  <2>2. Remap(id, table, forms) = [t |-> "id", static |-> FALSE, n |-> size + n]
    BY <2>1 DEF Remap, size
  <2> QED BY <1>1, <2>2 DEF RefSound
<1>3. CASE \E n \in DOMAIN table : id = [t |-> "id", static |-> FALSE, n |-> n]
  <2>1. PICK n \in DOMAIN table : id = [t |-> "id", static |-> FALSE, n |-> n]
    BY <1>3
  <2>2. Remap(id, table, forms) = id
    BY <2>1 DEF Remap
  <2> QED BY <1>1, <2>1, <2>2 DEF RefSound
<1> QED BY <1>2, <1>3 DEF RefSound

\* What the merge does to one node: only the parameter with the reference changes.
LEMMA RemapNode ==
    ASSUME NEW nodes, NEW name, NEW table, NEW forms, NEW i \in DOMAIN nodes, IsNode(nodes[i])
    PROVE  LET old == nodes[i]
               new == Remapped(nodes, name, table, forms)[i]
           IN /\ IsNode(new)
              /\ new.node_id = old.node_id /\ new.op = old.op /\ new.inputs = old.inputs
              /\ new.at = old.at
              /\ DOMAIN new.params = DOMAIN old.params
              /\ \A n \in DOMAIN old.params :
                   new.params[n] = IF n = name THEN Remap(old.params[n], table, forms)
                                   ELSE old.params[n]
<1> DEFINE old == nodes[i]
           new == Remapped(nodes, name, table, forms)[i]
<1>1. CASE name \notin DOMAIN old.params
  <2>1. new = old
    BY <1>1 DEF Remapped
  <2> QED BY <1>1, <2>1
<1>2. CASE name \in DOMAIN old.params
  <2> DEFINE params == [old.params EXCEPT ![name] = Remap(old.params[name], table, forms)]
  <2>1. new = [old EXCEPT !.params = params]
    BY <1>2 DEF Remapped, Remap
  <2>2. /\ DOMAIN params = DOMAIN old.params
        /\ params = [n \in DOMAIN params |-> params[n]]
        /\ \A n \in DOMAIN old.params :
             params[n] = IF n = name THEN Remap(old.params[n], table, forms) ELSE old.params[n]
    BY <1>2
  <2> HIDE DEF params
  <2>3. new = [node_id |-> old.node_id, op |-> old.op, inputs |-> old.inputs,
               params |-> params, ext |-> old.ext, at |-> old.at]
    BY <2>1 DEF IsNode
  <2> HIDE DEF new
  <2>4. /\ new.node_id = old.node_id /\ new.op = old.op /\ new.inputs = old.inputs
        /\ new.params = params /\ new.ext = old.ext /\ new.at = old.at
    BY <2>3
  <2>5. IsNode(new)
    BY <2>2, <2>3, <2>4 DEF IsNode
  <2>6. /\ IsNode(new)
        /\ new.node_id = old.node_id /\ new.op = old.op /\ new.inputs = old.inputs
        /\ new.at = old.at
        /\ DOMAIN new.params = DOMAIN old.params
        /\ \A n \in DOMAIN old.params :
             new.params[n] = IF n = name THEN Remap(old.params[n], table, forms) ELSE old.params[n]
    BY <2>2, <2>4, <2>5
  <2> QED BY <2>6 DEF new
<1> QED BY <1>1, <1>2

\* The merge of the expressions: no static number is left, everything else is as it was.
LEMMA RemapExprs ==
    ASSUME NEW nodes, NEW sites, NEW steps, NEW done, NEW table, NEW forms, NEW Z, NEW S,
           NodesSound(nodes, sites, steps, done, DOMAIN table, Z, DOMAIN forms, S)
    PROVE  LET new == Remapped(nodes, "expr_id", table, forms)
           IN /\ NodesSound(new, sites, steps, done, DOMAIN Merged(table, forms), Z, {}, S)
              /\ DOMAIN new = DOMAIN nodes
              /\ \A i \in DOMAIN nodes : new[i].at = nodes[i].at
              /\ \A id, k : MadeIn(nodes, id, k) => MadeIn(new, id, k)
<1> DEFINE new == Remapped(nodes, "expr_id", table, forms)
           same(i) == /\ IsNode(new[i])
                      /\ new[i].node_id = nodes[i].node_id /\ new[i].op = nodes[i].op
                      /\ new[i].inputs = nodes[i].inputs /\ new[i].at = nodes[i].at
                      /\ DOMAIN new[i].params = DOMAIN nodes[i].params
                      /\ \A n \in DOMAIN nodes[i].params :
                           new[i].params[n] = IF n = "expr_id" THEN Remap(nodes[i].params[n], table, forms)
                                              ELSE nodes[i].params[n]
<1>1. DOMAIN new = DOMAIN nodes
  BY DEF Remapped
<1>2. \A i \in DOMAIN nodes : same(i)
  <2> SUFFICES ASSUME NEW i \in DOMAIN nodes PROVE same(i)
    OBVIOUS
  <2>1. IsNode(nodes[i])
    BY DEF NodesSound
  <2> QED BY <2>1, RemapNode
<1> HIDE DEF new
<1>3. \A id, k : MadeIn(nodes, id, k) => MadeIn(new, id, k)
  BY <1>1, <1>2 DEF MadeIn
<1>4. ASSUME NEW i \in DOMAIN nodes
      PROVE  Wired(new[i], new, steps[new[i].at], DOMAIN Merged(table, forms), Z, {}, S)
  <2>1. Wired(nodes[i], nodes, steps[nodes[i].at], DOMAIN table, Z, DOMAIN forms, S)
    BY DEF NodesSound
  <2>2. same(i)
    BY <1>2
  <2>3. \A j \in DOMAIN new[i].inputs : MadeIn(new, new[i].inputs[j], steps[new[i].at].input)
    BY <1>3, <2>1, <2>2 DEF Wired
  <2>4. ASSUME new[i].op = ConcatImpl.op
        PROVE  "rhs" \in DOMAIN new[i].params /\ MadeIn(new, new[i].params.rhs.node, steps[new[i].at].rhs)
    <3>1. "rhs" \in DOMAIN nodes[i].params /\ MadeIn(nodes, nodes[i].params.rhs.node, steps[nodes[i].at].rhs)
      BY <2>1, <2>2, <2>4 DEF Wired
    <3>2. new[i].params["rhs"] = nodes[i].params["rhs"]
      BY <2>2, <3>1
    <3> QED BY <1>3, <2>2, <3>1, <3>2
  <2>5. ASSUME new[i].op = VmImpl.op
        PROVE  "expr_id" \in DOMAIN new[i].params /\ RefSound(new[i].params.expr_id, DOMAIN Merged(table, forms), {})
    <3>1. "expr_id" \in DOMAIN nodes[i].params /\ RefSound(nodes[i].params.expr_id, DOMAIN table, DOMAIN forms)
      BY <2>1, <2>2, <2>5 DEF Wired
    <3>2. new[i].params["expr_id"] = Remap(nodes[i].params["expr_id"], table, forms)
      BY <2>2, <3>1
    <3> QED BY <2>2, <3>1, <3>2, RemapRef
  <2>6. ASSUME new[i].op = FilterImpl.op
        PROVE  "pred_id" \in DOMAIN new[i].params /\ RefSound(new[i].params.pred_id, Z, S)
    <3>1. "pred_id" \in DOMAIN nodes[i].params /\ RefSound(nodes[i].params.pred_id, Z, S)
      BY <2>1, <2>2, <2>6 DEF Wired
    <3>2. new[i].params["pred_id"] = nodes[i].params["pred_id"]
      BY <2>2, <3>1
    <3> QED BY <2>2, <3>1, <3>2
  <2> QED BY <2>3, <2>4, <2>5, <2>6 DEF Wired
<1>5. NodesSound(new, sites, steps, done, DOMAIN Merged(table, forms), Z, {}, S)
  <2>1. \A i \in DOMAIN new :
          /\ IsNode(new[i]) /\ new[i].at \in 1..done
          /\ steps[new[i].at].do = "call" /\ new[i].op = sites[steps[new[i].at].site].task.op
    BY <1>1, <1>2 DEF NodesSound
  <2>2. \A i, j \in DOMAIN new :
          i < j => new[i].node_id < new[j].node_id /\ new[i].at < new[j].at
    BY <1>1, <1>2 DEF NodesSound
  <2>3. DOMAIN new \subseteq Nat
    BY <1>1 DEF NodesSound
  <2> QED BY <1>1, <1>4, <2>1, <2>2, <2>3 DEF NodesSound
<1> QED BY <1>1, <1>2, <1>3, <1>5 DEF new

\* The same of the predicates.
LEMMA RemapPreds ==
    ASSUME NEW nodes, NEW sites, NEW steps, NEW done, NEW table, NEW forms, NEW Z, NEW S,
           NodesSound(nodes, sites, steps, done, Z, DOMAIN table, S, DOMAIN forms)
    PROVE  LET new == Remapped(nodes, "pred_id", table, forms)
           IN /\ NodesSound(new, sites, steps, done, Z, DOMAIN Merged(table, forms), S, {})
              /\ DOMAIN new = DOMAIN nodes
              /\ \A i \in DOMAIN nodes : new[i].at = nodes[i].at
              /\ \A id, k : MadeIn(nodes, id, k) => MadeIn(new, id, k)
<1> DEFINE new == Remapped(nodes, "pred_id", table, forms)
           same(i) == /\ IsNode(new[i])
                      /\ new[i].node_id = nodes[i].node_id /\ new[i].op = nodes[i].op
                      /\ new[i].inputs = nodes[i].inputs /\ new[i].at = nodes[i].at
                      /\ DOMAIN new[i].params = DOMAIN nodes[i].params
                      /\ \A n \in DOMAIN nodes[i].params :
                           new[i].params[n] = IF n = "pred_id" THEN Remap(nodes[i].params[n], table, forms)
                                              ELSE nodes[i].params[n]
<1>1. DOMAIN new = DOMAIN nodes
  BY DEF Remapped
<1>2. \A i \in DOMAIN nodes : same(i)
  <2> SUFFICES ASSUME NEW i \in DOMAIN nodes PROVE same(i)
    OBVIOUS
  <2>1. IsNode(nodes[i])
    BY DEF NodesSound
  <2> QED BY <2>1, RemapNode
<1> HIDE DEF new
<1>3. \A id, k : MadeIn(nodes, id, k) => MadeIn(new, id, k)
  BY <1>1, <1>2 DEF MadeIn
<1>4. ASSUME NEW i \in DOMAIN nodes
      PROVE  Wired(new[i], new, steps[new[i].at], Z, DOMAIN Merged(table, forms), S, {})
  <2>1. Wired(nodes[i], nodes, steps[nodes[i].at], Z, DOMAIN table, S, DOMAIN forms)
    BY DEF NodesSound
  <2>2. same(i)
    BY <1>2
  <2>3. \A j \in DOMAIN new[i].inputs : MadeIn(new, new[i].inputs[j], steps[new[i].at].input)
    BY <1>3, <2>1, <2>2 DEF Wired
  <2>4. ASSUME new[i].op = ConcatImpl.op
        PROVE  "rhs" \in DOMAIN new[i].params /\ MadeIn(new, new[i].params.rhs.node, steps[new[i].at].rhs)
    <3>1. "rhs" \in DOMAIN nodes[i].params /\ MadeIn(nodes, nodes[i].params.rhs.node, steps[nodes[i].at].rhs)
      BY <2>1, <2>2, <2>4 DEF Wired
    <3>2. new[i].params["rhs"] = nodes[i].params["rhs"]
      BY <2>2, <3>1
    <3> QED BY <1>3, <2>2, <3>1, <3>2
  <2>5. ASSUME new[i].op = VmImpl.op
        PROVE  "expr_id" \in DOMAIN new[i].params /\ RefSound(new[i].params.expr_id, Z, S)
    <3>1. "expr_id" \in DOMAIN nodes[i].params /\ RefSound(nodes[i].params.expr_id, Z, S)
      BY <2>1, <2>2, <2>5 DEF Wired
    <3>2. new[i].params["expr_id"] = nodes[i].params["expr_id"]
      BY <2>2, <3>1
    <3> QED BY <2>2, <3>1, <3>2
  <2>6. ASSUME new[i].op = FilterImpl.op
        PROVE  "pred_id" \in DOMAIN new[i].params /\ RefSound(new[i].params.pred_id, DOMAIN Merged(table, forms), {})
    <3>1. "pred_id" \in DOMAIN nodes[i].params /\ RefSound(nodes[i].params.pred_id, DOMAIN table, DOMAIN forms)
      BY <2>1, <2>2, <2>6 DEF Wired
    <3>2. new[i].params["pred_id"] = Remap(nodes[i].params["pred_id"], table, forms)
      BY <2>2, <3>1
    <3> QED BY <2>2, <3>1, <3>2, RemapRef
  <2> QED BY <2>3, <2>4, <2>5, <2>6 DEF Wired
<1>5. NodesSound(new, sites, steps, done, Z, DOMAIN Merged(table, forms), S, {})
  <2>1. \A i \in DOMAIN new :
          /\ IsNode(new[i]) /\ new[i].at \in 1..done
          /\ steps[new[i].at].do = "call" /\ new[i].op = sites[steps[new[i].at].site].task.op
    BY <1>1, <1>2 DEF NodesSound
  <2>2. \A i, j \in DOMAIN new :
          i < j => new[i].node_id < new[j].node_id /\ new[i].at < new[j].at
    BY <1>1, <1>2 DEF NodesSound
  <2>3. DOMAIN new \subseteq Nat
    BY <1>1 DEF NodesSound
  <2> QED BY <1>1, <1>4, <2>1, <2>2, <2>3 DEF NodesSound
<1> QED BY <1>1, <1>2, <1>3, <1>5 DEF new

\* Records with two fields replaced.
LEMMA WithExprs ==
    ASSUME NEW a, IsArtifact(a), NEW e, NEW n
    PROVE  [a EXCEPT !.exprs = e, !.nodes = n] =
             [plan_name |-> a.plan_name, nodes |-> n, outputs |-> a.outputs,
              exprs |-> e, preds |-> a.preds, caps |-> a.caps, ext |-> a.ext]
<1> DEFINE b == [a EXCEPT !.exprs = e]
<1>1. b = [plan_name |-> a.plan_name, nodes |-> a.nodes, outputs |-> a.outputs,
           exprs |-> e, preds |-> a.preds, caps |-> a.caps, ext |-> a.ext]
  BY DEF IsArtifact
<1> HIDE DEF b
<1>2. [b EXCEPT !.nodes = n] =
        [plan_name |-> a.plan_name, nodes |-> n, outputs |-> a.outputs,
         exprs |-> e, preds |-> a.preds, caps |-> a.caps, ext |-> a.ext]
  BY <1>1
<1> QED BY <1>2 DEF b

LEMMA WithPreds ==
    ASSUME NEW a, IsArtifact(a), NEW p, NEW n
    PROVE  [a EXCEPT !.preds = p, !.nodes = n] =
             [plan_name |-> a.plan_name, nodes |-> n, outputs |-> a.outputs,
              exprs |-> a.exprs, preds |-> p, caps |-> a.caps, ext |-> a.ext]
<1> DEFINE b == [a EXCEPT !.preds = p]
<1>1. b = [plan_name |-> a.plan_name, nodes |-> a.nodes, outputs |-> a.outputs,
           exprs |-> a.exprs, preds |-> p, caps |-> a.caps, ext |-> a.ext]
  BY DEF IsArtifact
<1> HIDE DEF b
<1>2. [b EXCEPT !.nodes = n] =
        [plan_name |-> a.plan_name, nodes |-> n, outputs |-> a.outputs,
         exprs |-> a.exprs, preds |-> p, caps |-> a.caps, ext |-> a.ext]
  BY <1>1
<1> QED BY <1>2 DEF b

\* Merging what was taken out leaves a sound artifact with nothing left to merge.
LEMMA MergeExprsSound ==
    ASSUME NEW a, NEW sites, NEW plan, NEW forms, NEW P,
           ArtifactSound(a, sites, plan, DOMAIN forms, P)
    PROVE  ArtifactSound([a EXCEPT !.exprs = Merged(@, forms), !.nodes = Remapped(@, "expr_id", a.exprs, forms)],
                         sites, plan, {}, P)
<1> DEFINE nodes == Remapped(a.nodes, "expr_id", a.exprs, forms)
           exprs == Merged(a.exprs, forms)
           new == [a EXCEPT !.exprs = exprs, !.nodes = nodes]
<1>1. /\ NodesSound(nodes, sites, plan.steps, Len(plan.steps), DOMAIN exprs, DOMAIN a.preds, {}, P)
      /\ DOMAIN nodes = DOMAIN a.nodes
      /\ \A i \in DOMAIN a.nodes : nodes[i].at = a.nodes[i].at
      /\ \A id, k : MadeIn(a.nodes, id, k) => MadeIn(nodes, id, k)
  BY RemapExprs DEF ArtifactSound
<1> HIDE DEF nodes, exprs
<1>2. new = [plan_name |-> a.plan_name, nodes |-> nodes, outputs |-> a.outputs,
             exprs |-> exprs, preds |-> a.preds, caps |-> a.caps, ext |-> a.ext]
  <2>1. IsArtifact(a)
    BY DEF ArtifactSound
  <2> QED BY <2>1, WithExprs
<1> HIDE DEF new
<1>3. /\ new.plan_name = a.plan_name /\ new.nodes = nodes /\ new.outputs = a.outputs
      /\ new.exprs = exprs /\ new.preds = a.preds /\ new.caps = a.caps /\ new.ext = a.ext
  BY <1>2
<1>4. /\ new.plan_name = plan.name
      /\ MadeIn(new.nodes, new.outputs[1], plan.result)
      /\ \A k \in DOMAIN plan.steps :
           plan.steps[k].do = "call" /\ ~ plan.steps[k].caught =>
             \E i \in DOMAIN new.nodes : new.nodes[i].at = k
  BY <1>1, <1>3 DEF ArtifactSound
<1>5. ArtifactSound(new, sites, plan, {}, P)
  <2>1. IsArtifact(new)
    BY <1>2, <1>3 DEF IsArtifact
  <2> QED BY <1>1, <1>3, <1>4, <2>1 DEF ArtifactSound
<1> QED BY <1>5 DEF new, nodes, exprs

LEMMA MergePredsSound ==
    ASSUME NEW a, NEW sites, NEW plan, NEW forms, NEW E,
           ArtifactSound(a, sites, plan, E, DOMAIN forms)
    PROVE  ArtifactSound([a EXCEPT !.preds = Merged(@, forms), !.nodes = Remapped(@, "pred_id", a.preds, forms)],
                         sites, plan, E, {})
<1> DEFINE nodes == Remapped(a.nodes, "pred_id", a.preds, forms)
           preds == Merged(a.preds, forms)
           new == [a EXCEPT !.preds = preds, !.nodes = nodes]
<1>1. /\ NodesSound(nodes, sites, plan.steps, Len(plan.steps), DOMAIN a.exprs, DOMAIN preds, E, {})
      /\ DOMAIN nodes = DOMAIN a.nodes
      /\ \A i \in DOMAIN a.nodes : nodes[i].at = a.nodes[i].at
      /\ \A id, k : MadeIn(a.nodes, id, k) => MadeIn(nodes, id, k)
  BY RemapPreds DEF ArtifactSound
<1> HIDE DEF nodes, preds
<1>2. new = [plan_name |-> a.plan_name, nodes |-> nodes, outputs |-> a.outputs,
             exprs |-> a.exprs, preds |-> preds, caps |-> a.caps, ext |-> a.ext]
  <2>1. IsArtifact(a)
    BY DEF ArtifactSound
  <2> QED BY <2>1, WithPreds
<1> HIDE DEF new
<1>3. /\ new.plan_name = a.plan_name /\ new.nodes = nodes /\ new.outputs = a.outputs
      /\ new.exprs = a.exprs /\ new.preds = preds /\ new.caps = a.caps /\ new.ext = a.ext
  BY <1>2
<1>4. /\ new.plan_name = plan.name
      /\ MadeIn(new.nodes, new.outputs[1], plan.result)
      /\ \A k \in DOMAIN plan.steps :
           plan.steps[k].do = "call" /\ ~ plan.steps[k].caught =>
             \E i \in DOMAIN new.nodes : new.nodes[i].at = k
  BY <1>1, <1>3 DEF ArtifactSound
<1>5. ArtifactSound(new, sites, plan, E, {})
  <2>1. IsArtifact(new)
    BY <1>2, <1>3 DEF IsArtifact
  <2> QED BY <1>1, <1>3, <1>4, <2>1 DEF ArtifactSound
<1> QED BY <1>5 DEF new, nodes, preds

-----------------------------------------------------------------------------
(***************************************************************************)
(* What a sound output file is worth.                                      *)
(***************************************************************************)

\* Identifiers are not given twice: the node that was made is the only one with its number.
LEMMA MadeIsUnique ==
    ASSUME NEW a, NEW sites, NEW steps, NEW done, NEW X, NEW Y, NEW E, NEW P,
           NodesSound(a.nodes, sites, steps, done, X, Y, E, P), NEW id, NEW k, MadeIn(a.nodes, id, k)
    PROVE  MadeBy(a, id, k)
<1>1. PICK i \in DOMAIN a.nodes : a.nodes[i].node_id = id /\ a.nodes[i].at = k
  BY DEF MadeIn
<1>2. \A j \in DOMAIN a.nodes : a.nodes[j].node_id = id => j = i
  <2> SUFFICES ASSUME NEW j \in DOMAIN a.nodes, a.nodes[j].node_id = id, j # i PROVE FALSE
    OBVIOUS
  <2>1. i \in Nat /\ j \in Nat /\ a.nodes[i].node_id \in Nat
    BY DEF NodesSound, IsNode
  <2>2. i < j \/ j < i
    BY <2>1
  <2>3. a.nodes[i].node_id < a.nodes[j].node_id \/ a.nodes[j].node_id < a.nodes[i].node_id
    BY <2>2 DEF NodesSound
  <2> QED BY <1>1, <2>1, <2>3
<1>3. NodeWithId(a, id) = {i}
  BY <1>1, <1>2 DEF NodeWithId
<1> QED BY <1>1, <1>3 DEF MadeBy

\* What WiredAsWritten says of one output file.
WiredOutput(o) ==
  LET a == o.artifact
      text == Text[o.of]
  IN /\ \A i \in DOMAIN a.nodes :
          LET node == a.nodes[i]
              step == StepOf(text, node)
          IN /\ \A j \in DOMAIN node.inputs : MadeBy(a, node.inputs[j], step.input)
             /\ node.op = ConcatImpl.op => MadeBy(a, node.params.rhs.node, step.rhs)
             /\ node.op = VmImpl.op =>
                  ~ node.params.expr_id.static /\ node.params.expr_id.n \in DOMAIN a.exprs
             /\ node.op = FilterImpl.op =>
                  ~ node.params.pred_id.static /\ node.params.pred_id.n \in DOMAIN a.preds
     /\ MadeBy(a, a.outputs[1], text.builds[1].result)

LEMMA SoundIsWired ==
    ASSUME NEW o, NEW b, OutputSound(o, b)
    PROVE  WiredOutput(o)
<1> DEFINE a == o.artifact
           text == Text[o.of]
           steps == text.builds[1].steps
<1>1. /\ NodesSound(a.nodes, text.sites, steps, Len(steps), DOMAIN a.exprs, DOMAIN a.preds, {}, {})
      /\ MadeIn(a.nodes, a.outputs[1], text.builds[1].result)
  BY DEF OutputSound, ArtifactSound
<1>2. \A id, k : MadeIn(a.nodes, id, k) => MadeBy(a, id, k)
  BY <1>1, MadeIsUnique
<1>3. ASSUME NEW id, NEW table, RefSound(id, table, {})
      PROVE  ~ id.static /\ id.n \in table
  BY <1>3 DEF RefSound
<1>4. ASSUME NEW i \in DOMAIN a.nodes
      PROVE  LET node == a.nodes[i]
                 step == StepOf(text, node)
             IN /\ \A j \in DOMAIN node.inputs : MadeBy(a, node.inputs[j], step.input)
                /\ node.op = ConcatImpl.op => MadeBy(a, node.params.rhs.node, step.rhs)
                /\ node.op = VmImpl.op =>
                     ~ node.params.expr_id.static /\ node.params.expr_id.n \in DOMAIN a.exprs
                /\ node.op = FilterImpl.op =>
                     ~ node.params.pred_id.static /\ node.params.pred_id.n \in DOMAIN a.preds
  <2>1. Wired(a.nodes[i], a.nodes, StepOf(text, a.nodes[i]), DOMAIN a.exprs, DOMAIN a.preds, {}, {})
    BY <1>1 DEF NodesSound, StepOf
  <2> DEFINE node == a.nodes[i]
             step == StepOf(text, node)
  <2> HIDE DEF node, step
  <2>2. Wired(node, a.nodes, step, DOMAIN a.exprs, DOMAIN a.preds, {}, {})
    BY <2>1 DEF node, step
  <2>3. /\ \A j \in DOMAIN node.inputs : MadeBy(a, node.inputs[j], step.input)
        /\ node.op = ConcatImpl.op => MadeBy(a, node.params.rhs.node, step.rhs)
    BY <1>2, <2>2 DEF Wired
  <2>4. node.op = VmImpl.op =>
          ~ node.params.expr_id.static /\ node.params.expr_id.n \in DOMAIN a.exprs
    BY <1>3, <2>2 DEF Wired
  <2>5. node.op = FilterImpl.op =>
          ~ node.params.pred_id.static /\ node.params.pred_id.n \in DOMAIN a.preds
    BY <1>3, <2>2 DEF Wired
  <2> QED BY <2>3, <2>4, <2>5 DEF node, step
<1> QED BY <1>1, <1>2, <1>4 DEF WiredOutput

LEMMA SoundRepresents ==
    ASSUME NEW o, NEW b, OutputSound(o, b)
    PROVE  Represents(o)
<1> DEFINE a == o.artifact
           text == Text[o.of]
           plan == text.builds[1]
<1>1. /\ Len(text.builds) = 1 /\ plan.name = a.plan_name
      /\ NodesSound(a.nodes, text.sites, plan.steps, Len(plan.steps), DOMAIN a.exprs, DOMAIN a.preds, {}, {})
      /\ \A k \in DOMAIN plan.steps :
           plan.steps[k].do = "call" /\ ~ plan.steps[k].caught =>
             \E i \in DOMAIN a.nodes : a.nodes[i].at = k
  BY DEF OutputSound, ArtifactSound
<1>2. \A i \in DOMAIN a.nodes : a.nodes[i].op = text.sites[plan.steps[a.nodes[i].at].site].task.op
  BY <1>1 DEF NodesSound
<1>3. \A i, j \in DOMAIN a.nodes : i < j => a.nodes[i].at < a.nodes[j].at
  BY <1>1 DEF NodesSound
<1>4. ASSUME NEW k \in DOMAIN plan.steps, plan.steps[k].do = "call", ~ plan.steps[k].caught
      PROVE  \E i \in DOMAIN a.nodes :
               a.nodes[i].at = k /\ a.nodes[i].op = text.sites[plan.steps[k].site].task.op
  <2>1. PICK i \in DOMAIN a.nodes : a.nodes[i].at = k
    BY <1>1, <1>4
  <2>2. a.nodes[i].op = text.sites[plan.steps[k].site].task.op
    BY <1>2, <2>1
  <2> QED BY <2>1, <2>2
<1> QED BY <1>1, <1>3, <1>4, Zenon DEF Represents

-----------------------------------------------------------------------------
(***************************************************************************)
(* The inductive invariant of dslc.                                        *)
(***************************************************************************)
FileInv == file \in [Files -> DOMAIN Text \cup {None}]

\* The history "seen" has the text the current file holds.
TodoInv ==
  /\ ~ Running => dslc.todo = <<>>
  /\ Running => dslc.todo \in Seq(Files) \ {<<>>} /\ file[Current] \in seen

Forms == StaticSound(dslc.static, Text[dslc.code].sites, DOMAIN dslc.exprs, DOMAIN dslc.preds)

IsRun(d) ==
  d = [phase |-> d.phase, todo |-> d.todo, code |-> d.code, exprs |-> d.exprs, preds |-> d.preds,
       static |-> d.static, build |-> d.build, ctx |-> d.ctx, handles |-> d.handles,
       emitCount |-> d.emitCount, captured |-> d.captured]

CapturedSound ==
  ArtifactSound(dslc.captured, Text[dslc.code].sites, Text[dslc.code].builds[1],
                DOMAIN dslc.exprs, DOMAIN dslc.preds)

\* What was taken out is of one text the file held; so is the bundle, and the
\* same one if anything was taken out.
TextInv ==
  /\ dslc.phase \in {"extract", "bundle"} => dslc.text \in DOMAIN Text \cap seen
  /\ dslc.phase = "bundle" =>
       StaticSound(dslc.static, Text[dslc.text].sites, DOMAIN dslc.exprs, DOMAIN dslc.preds)
  /\ dslc.phase \in {"execute", "validate", "merge"} =>
       IsRun(dslc) /\ dslc.code \in DOMAIN Text \cap seen

\* The current definePlan has made sound nodes, and each definePlan was emitted.
ExecuteInv == dslc.phase = "execute" =>
  /\ Forms
  /\ dslc.build \in 1..(Len(Text[dslc.code].builds) + 1)
  /\ dslc.emitCount = dslc.build - 1
  /\ dslc.build <= Len(Text[dslc.code].builds) =>
       CtxSound(dslc.ctx, dslc.handles, Text[dslc.code].sites,
                Text[dslc.code].builds[dslc.build].steps, DOMAIN dslc.exprs, DOMAIN dslc.preds)
  /\ dslc.build = 2 => CapturedSound

CapturedInv ==
  dslc.phase \in {"validate", "merge"} => Len(Text[dslc.code].builds) = 1 /\ CapturedSound

WriteInv == dslc.phase = "write" =>
  /\ OutputSound(dslc.output, BaseName[Current])
  /\ dslc.output.of \in seen
  /\ out[BaseName[Current]] = HalfWritten

OutInv ==
  /\ DOMAIN out = Range(BaseName)
  /\ \A b \in Range(BaseName) :
       out[b] = Missing \/ out[b] = HalfWritten \/ OutputSound(out[b], b)

DslcInv == FileInv /\ TodoInv /\ TextInv /\ ExecuteInv /\ CapturedInv /\ WriteInv /\ OutInv

(***************************************************************************)
(* The inductive invariant of build_all_plans.                             *)
(***************************************************************************)
ManifestInv ==
  /\ manifest = None \/ manifest \subseteq Range(Sorted)
  /\ sync = None \/ sync \subseteq Range(Sorted)

Distinct(names) ==
  /\ names \in Seq(Range(BaseName))
  /\ \A i, j \in DOMAIN names : names[i] = names[j] => i = j

IsCompiling(b) ==
  b = [phase |-> b.phase, todo |-> b.todo, compiled |-> b.compiled, failures |-> b.failures]

IsIndexing(b) ==
  b = [phase |-> b.phase, failures |-> b.failures, compiled |-> b.compiled,
       left |-> b.left, entries |-> b.entries]

\* A plan that is still to be compiled is not among the compiled ones, so no name
\* is compiled, or indexed, twice.
CompileInv == build.phase \in {"compile", "wait"} =>
  /\ IsCompiling(build)
  /\ build.todo \subseteq Range(Sorted)
  /\ build.phase = "wait" => build.todo # {}
  /\ Distinct(build.compiled)
  /\ \A f \in build.todo : BaseName[f] \notin Range(build.compiled)

\* Entries that were taken from the artifacts on disk, except those that changed since.
True(entries, except) ==
  \A e \in entries : e.name \notin except =>
    Complete(out[e.name]) /\ e = IndexEntry(out[e.name].artifact)

\* Every name has an entry, or its artifact changed or could not be read.
Covered(names, entries, except) ==
  \A n \in names : n \in except \/ \E e \in entries : e.name = n

EntriesInv == build.phase = "index" =>
  /\ IsIndexing(build)
  /\ build.compiled \in Seq(Range(BaseName)) /\ Distinct(build.left)
  /\ Range(build.left) \subseteq Range(build.compiled)
  /\ \A e \in build.entries : e.name \in Range(build.compiled) \ Range(build.left)
  /\ True(build.entries, changed.entries)
  /\ Covered(Range(build.compiled), build.entries, changed.entries)

ChangedInv ==
  changed = [index |-> changed.index, entries |-> changed.entries]

IndexInv == index \notin {None, Torn} =>
  /\ \A e \in index : e.name \in Range(BaseName)
  /\ True(index, changed.index)
  /\ build.phase = "done" /\ build.listed # None =>
       /\ \A e \in index : e.name \in build.listed
       /\ Covered(build.listed, index, changed.index)

BuildInv == ManifestInv /\ CompileInv /\ EntriesInv /\ ChangedInv /\ IndexInv

IInv == DslcInv /\ BuildInv

-----------------------------------------------------------------------------
(***************************************************************************)
(* What is taken out of a text.                                            *)
(***************************************************************************)
LEMMA StaticSitesSound ==
    ASSUME NEW text
    PROVE  StaticSound(StaticSites(text), text.sites, DOMAIN StaticForms(text, "expr_id"),
                       DOMAIN StaticForms(text, "pred_id"))
<1> DEFINE E == Extracted(text, "expr_id")
           P == Extracted(text, "pred_id")
           visits == E \cup P
           visit(s) == CHOOSE i \in visits : text.visited[i] = s
           static == StaticSites(text)
<1>1. /\ DOMAIN StaticForms(text, "expr_id") = {Number(text, "expr_id", i) : i \in E}
      /\ DOMAIN StaticForms(text, "pred_id") = {Number(text, "pred_id", i) : i \in P}
  BY DEF StaticForms
<1>2. /\ DOMAIN static = {text.visited[i] : i \in visits}
      /\ \A s \in DOMAIN static :
           static[s] = IF visit(s) \in E THEN Number(text, "expr_id", visit(s))
                       ELSE Number(text, "pred_id", visit(s))
  BY DEF StaticSites
<1>3. ASSUME NEW s \in DOMAIN static
      PROVE  visit(s) \in visits /\ text.visited[visit(s)] = s
  BY <1>2
<1>4. ASSUME NEW i \in E
      PROVE  \E p \in TreeParams(text.sites[text.visited[i]].task) : p.type = "expr_id"
  BY DEF Extracted, TreeOption
<1>5. ASSUME NEW i \in P
      PROVE  \E p \in TreeParams(text.sites[text.visited[i]].task) : p.type = "pred_id"
  BY DEF Extracted, TreeOption
<1>6. ExprParam.type = "expr_id" /\ PredParam.type = "pred_id"
  BY DEF ExprParam, PredParam, Param
<1> HIDE DEF E, P, visit, static
<1>7. ASSUME NEW s \in DOMAIN static, text.sites[s].task = VmImpl
      PROVE  static[s] \in DOMAIN StaticForms(text, "expr_id")
  <2>1. visit(s) \in E \cup P /\ text.visited[visit(s)] = s
    BY <1>3
  <2>2. visit(s) \notin P
    BY <1>5, <1>6, <1>7, <2>1, VmTask
  <2> QED BY <1>1, <1>2, <2>1, <2>2
<1>8. ASSUME NEW s \in DOMAIN static, text.sites[s].task = FilterImpl
      PROVE  static[s] \in DOMAIN StaticForms(text, "pred_id")
  <2>1. visit(s) \in E \cup P /\ text.visited[visit(s)] = s
    BY <1>3
  <2>2. visit(s) \notin E
    BY <1>4, <1>6, <1>8, <2>1, FilterTask
  <2> QED BY <1>1, <1>2, <2>1, <2>2
<1> QED BY <1>7, <1>8 DEF StaticSound, static

\* A placeholder among the options of a call is one that dslc put there.
LEMMA OptionsSound ==
    ASSUME dslc.code \in DOMAIN Text, Forms, NEW step,
           step.site \in DOMAIN Text[dslc.code].sites
    PROVE  LET task == Text[dslc.code].sites[step.site].task
               opts == Options(step)
           IN /\ task = ConcatImpl => opts.rhs = SetOf(step.rhs)
              /\ task = VmImpl /\ "expr" \in DOMAIN opts /\ opts.expr.t = "placeholder" =>
                   opts.expr.id \in DOMAIN dslc.exprs
              /\ task = FilterImpl /\ "pred" \in DOMAIN opts /\ opts.pred.t = "placeholder" =>
                   opts.pred.id \in DOMAIN dslc.preds
<1> DEFINE site == Text[dslc.code].sites[step.site]
           opts == Options(step)
<1>1. \A n \in DOMAIN site.opts : site.opts[n].t # "placeholder"
  BY TextAssumption
<1>2. site.task = ConcatImpl => opts.rhs = SetOf(step.rhs)
  BY DEF Options
<1>3. ASSUME NEW p, NEW v, v.t # "placeholder", OptionValue(step.site, p, v).t = "placeholder"
      PROVE  /\ step.site \in DOMAIN dslc.static
             /\ OptionValue(step.site, p, v).id = dslc.static[step.site]
  BY <1>3 DEF OptionValue, Undefined
<1>4. VmImpl # ConcatImpl /\ FilterImpl # ConcatImpl
  <2>1. VmImpl.op = "core::vm" /\ FilterImpl.op = "core::filter" /\ ConcatImpl.op = "core::concat"
    BY DEF VmImpl, FilterImpl, ConcatImpl, Transform
  <2> QED BY <2>1
<1>5. ASSUME site.task = VmImpl, "expr" \in DOMAIN opts, opts["expr"].t = "placeholder"
      PROVE  opts["expr"].id \in DOMAIN dslc.exprs
  <2>1. "expr" \in DOMAIN site.opts
    <3>1. site.task # ConcatImpl
      BY <1>4, <1>5
    <3> QED BY <1>5, <3>1 DEF Options
  <2>2. {p \in site.task.params : p.ts = "expr"} = {ExprParam}
    BY <1>5, VmTask DEF ExprParam, Param
  <2>3. opts["expr"] = OptionValue(step.site, ExprParam, site.opts["expr"])
    <3> DEFINE ps == {p \in site.task.params : p.ts = "expr"}
    <3>1. site.task # ConcatImpl
      BY <1>4, <1>5
    <3>2. opts["expr"] = OptionValue(step.site, CHOOSE p \in ps : TRUE, site.opts["expr"])
      BY <2>1, <2>2, <3>1 DEF Options
    <3>3. (CHOOSE p \in ps : TRUE) = ExprParam
      <4> HIDE DEF ps
      <4>1. ps = {ExprParam}
        BY <2>2 DEF ps
      <4> QED BY <4>1
    <3> HIDE DEF ps, opts
    <3> QED BY <3>2, <3>3
  <2>4. step.site \in DOMAIN dslc.static /\ opts["expr"].id = dslc.static[step.site]
    <3> DEFINE v == site.opts["expr"]
    <3>1. v.t # "placeholder"
      BY <1>1, <2>1
    <3>2. OptionValue(step.site, ExprParam, v).t = "placeholder"
      BY <1>5, <2>3
    <3> HIDE DEF opts, v
    <3>3. opts["expr"] = OptionValue(step.site, ExprParam, v)
      BY <2>3 DEF v
    <3>4. step.site \in DOMAIN dslc.static
          /\ OptionValue(step.site, ExprParam, v).id = dslc.static[step.site]
      BY <1>3, <3>1, <3>2
    <3> QED BY <3>3, <3>4
  <2> QED BY <1>5, <2>4 DEF Forms, StaticSound
<1>6. ASSUME site.task = FilterImpl, "pred" \in DOMAIN opts, opts["pred"].t = "placeholder"
      PROVE  opts["pred"].id \in DOMAIN dslc.preds
  <2>1. "pred" \in DOMAIN site.opts
    <3>1. site.task # ConcatImpl
      BY <1>4, <1>6
    <3> QED BY <1>6, <3>1 DEF Options
  <2>2. {p \in site.task.params : p.ts = "pred"} = {PredParam}
    BY <1>6, FilterTask DEF PredParam, Param
  <2>3. opts["pred"] = OptionValue(step.site, PredParam, site.opts["pred"])
    <3> DEFINE ps == {p \in site.task.params : p.ts = "pred"}
    <3>1. site.task # ConcatImpl
      BY <1>4, <1>6
    <3>2. opts["pred"] = OptionValue(step.site, CHOOSE p \in ps : TRUE, site.opts["pred"])
      BY <2>1, <2>2, <3>1 DEF Options
    <3>3. (CHOOSE p \in ps : TRUE) = PredParam
      <4> HIDE DEF ps
      <4>1. ps = {PredParam}
        BY <2>2 DEF ps
      <4> QED BY <4>1
    <3> HIDE DEF ps, opts
    <3> QED BY <3>2, <3>3
  <2>4. step.site \in DOMAIN dslc.static /\ opts["pred"].id = dslc.static[step.site]
    <3> DEFINE v == site.opts["pred"]
    <3>1. v.t # "placeholder"
      BY <1>1, <2>1
    <3>2. OptionValue(step.site, PredParam, v).t = "placeholder"
      BY <1>6, <2>3
    <3> HIDE DEF opts, v
    <3>3. opts["pred"] = OptionValue(step.site, PredParam, v)
      BY <2>3 DEF v
    <3>4. step.site \in DOMAIN dslc.static
          /\ OptionValue(step.site, PredParam, v).id = dslc.static[step.site]
      BY <1>3, <3>1, <3>2
    <3> QED BY <3>3, <3>4
  <2> QED BY <1>6, <2>4 DEF Forms, StaticSound
<1> QED BY <1>2, <1>5, <1>6

-----------------------------------------------------------------------------
(***************************************************************************)
(* The steps of dslc.                                                      *)
(***************************************************************************)
LEMMA WithPhase ==
    ASSUME NEW d, IsRun(d), NEW p
    PROVE  [d EXCEPT !.phase = p] =
             [phase |-> p, todo |-> d.todo, code |-> d.code, exprs |-> d.exprs, preds |-> d.preds,
              static |-> d.static, build |-> d.build, ctx |-> d.ctx, handles |-> d.handles,
              emitCount |-> d.emitCount, captured |-> d.captured]
BY DEF IsRun

LEMMA WithStep ==
    ASSUME NEW d, IsRun(d), NEW c, NEW h
    PROVE  [d EXCEPT !.ctx = c, !.handles = h] =
             [phase |-> d.phase, todo |-> d.todo, code |-> d.code, exprs |-> d.exprs, preds |-> d.preds,
              static |-> d.static, build |-> d.build, ctx |-> c, handles |-> h,
              emitCount |-> d.emitCount, captured |-> d.captured]
<1> DEFINE e == [d EXCEPT !.ctx = c]
<1>1. e = [phase |-> d.phase, todo |-> d.todo, code |-> d.code, exprs |-> d.exprs, preds |-> d.preds,
           static |-> d.static, build |-> d.build, ctx |-> c, handles |-> d.handles,
           emitCount |-> d.emitCount, captured |-> d.captured]
  BY DEF IsRun
<1> HIDE DEF e
<1>2. [e EXCEPT !.handles = h] =
        [phase |-> d.phase, todo |-> d.todo, code |-> d.code, exprs |-> d.exprs, preds |-> d.preds,
         static |-> d.static, build |-> d.build, ctx |-> c, handles |-> h,
         emitCount |-> d.emitCount, captured |-> d.captured]
  BY <1>1
<1> QED BY <1>2 DEF e

Emitted(d, b, c, h, n, a) ==
  [d EXCEPT !.build = b, !.ctx = c, !.handles = h, !.emitCount = n, !.captured = a]

LEMMA WithEmit ==
    ASSUME NEW d, IsRun(d), NEW b, NEW c, NEW h, NEW n, NEW a
    PROVE  Emitted(d, b, c, h, n, a) =
             [phase |-> d.phase, todo |-> d.todo, code |-> d.code, exprs |-> d.exprs, preds |-> d.preds,
              static |-> d.static, build |-> b, ctx |-> c, handles |-> h,
              emitCount |-> n, captured |-> a]
<1> DEFINE e1 == [d EXCEPT !.build = b]
           e2 == [e1 EXCEPT !.ctx = c]
           e3 == [e2 EXCEPT !.handles = h]
           e4 == [e3 EXCEPT !.emitCount = n]
<1>1. e1 = [phase |-> d.phase, todo |-> d.todo, code |-> d.code, exprs |-> d.exprs, preds |-> d.preds,
            static |-> d.static, build |-> b, ctx |-> d.ctx, handles |-> d.handles,
            emitCount |-> d.emitCount, captured |-> d.captured]
  BY DEF IsRun
<1> HIDE DEF e1
<1>2. e2 = [phase |-> d.phase, todo |-> d.todo, code |-> d.code, exprs |-> d.exprs, preds |-> d.preds,
            static |-> d.static, build |-> b, ctx |-> c, handles |-> d.handles,
            emitCount |-> d.emitCount, captured |-> d.captured]
  BY <1>1
<1> HIDE DEF e2
<1>3. e3 = [phase |-> d.phase, todo |-> d.todo, code |-> d.code, exprs |-> d.exprs, preds |-> d.preds,
            static |-> d.static, build |-> b, ctx |-> c, handles |-> h,
            emitCount |-> d.emitCount, captured |-> d.captured]
  BY <1>2
<1> HIDE DEF e3
<1>4. e4 = [phase |-> d.phase, todo |-> d.todo, code |-> d.code, exprs |-> d.exprs, preds |-> d.preds,
            static |-> d.static, build |-> b, ctx |-> c, handles |-> h,
            emitCount |-> n, captured |-> d.captured]
  BY <1>3
<1> HIDE DEF e4
<1>5. [e4 EXCEPT !.captured = a] =
        [phase |-> d.phase, todo |-> d.todo, code |-> d.code, exprs |-> d.exprs, preds |-> d.preds,
         static |-> d.static, build |-> b, ctx |-> c, handles |-> h,
         emitCount |-> n, captured |-> a]
  BY <1>4
<1> QED BY <1>5 DEF e1, e2, e3, e4, Emitted

\* Failures and kills leave nothing but the files.
LEMMA StopKeeps ==
    ASSUME DslcInv, NEW how \in {"failed", "killed"}, dslc' = Blank(how, <<>>),
           file' = file, out' = out
    PROVE  DslcInv'
<1>1. dslc'.phase = how /\ dslc'.todo = <<>>
  BY DEF Blank
<1>2. TodoInv' /\ TextInv' /\ ExecuteInv' /\ CapturedInv' /\ WriteInv'
  BY <1>1 DEF TodoInv, TextInv, ExecuteInv, CapturedInv, WriteInv, Running
<1>3. FileInv' /\ OutInv'
  BY DEF DslcInv, FileInv, OutInv
<1> QED BY <1>2, <1>3 DEF DslcInv

LEMMA FailKeeps ==
    ASSUME DslcInv, Fail
    PROVE  DslcInv'
BY StopKeeps DEF Fail

\* A plan is begun.
LEMMA BeginKeeps ==
    ASSUME FileInv, OutInv', NEW batch \in Seq(Files) \ {<<>>}, dslc' = Blank("read", batch),
           seen' = {file[Head(batch)]}, file' = file
    PROVE  DslcInv'
<1>1. dslc'.phase = "read" /\ dslc'.todo = batch
  BY DEF Blank
<1>2. TodoInv' /\ TextInv' /\ ExecuteInv' /\ CapturedInv' /\ WriteInv'
  BY <1>1 DEF TodoInv, TextInv, ExecuteInv, CapturedInv, WriteInv, Running, Current
<1>3. FileInv'
  BY DEF FileInv
<1> QED BY <1>2, <1>3 DEF DslcInv

LEMMA StartKeeps ==
    ASSUME DslcInv, NEW batch \in Batches, Start(batch)
    PROVE  DslcInv'
<1>1. batch \in Seq(Files) \ {<<>>}
  BY FilesAssumption
<1>2. FileInv /\ OutInv'
  BY DEF DslcInv, OutInv, Start
<1> QED BY <1>1, <1>2, BeginKeeps DEF Start

LEMMA EditKeeps ==
    ASSUME DslcInv, NEW f \in Files, NEW v \in Drafts[f], Edit(f, v)
    PROVE  DslcInv'
<1>1. FileInv'
  BY FilesAssumption DEF DslcInv, FileInv, Edit
<1>2. dslc' = dslc /\ out' = out /\ seen \subseteq seen'
  BY DEF Edit
<1>3. TodoInv'
  <2>1. ASSUME Running PROVE Current \in Files /\ file'[Current] \in seen'
    <3>1. Current \in Files /\ file[Current] \in seen
      BY <2>1, HeadTailProperties DEF DslcInv, TodoInv, Current
    <3>2. file'[Current] = IF Current = f THEN v ELSE file[Current]
      BY <3>1 DEF Edit, DslcInv, FileInv
    <3> QED BY <2>1, <3>1, <3>2 DEF Edit
  <2> QED BY <1>2, <2>1 DEF DslcInv, TodoInv, Running, Current
<1>4. TextInv' /\ ExecuteInv' /\ CapturedInv' /\ WriteInv' /\ OutInv'
  <2>1. TextInv'
    BY <1>2 DEF DslcInv, TextInv
  <2>2. ExecuteInv' /\ CapturedInv' /\ OutInv'
    BY <1>2 DEF DslcInv, ExecuteInv, CapturedInv, OutInv, Forms, CapturedSound
  <2>3. WriteInv'
    BY <1>2 DEF DslcInv, WriteInv, Current
  <2> QED BY <2>1, <2>2, <2>3
<1> QED BY <1>1, <1>3, <1>4 DEF DslcInv

\* A step within the compilation of a plan.
LEMMA BecomesKeeps ==
    ASSUME DslcInv, NEW d, Becomes(d), d.todo = dslc.todo, Running,
           d.phase \notin {"idle", "ok", "failed", "killed"}
    PROVE  FileInv' /\ TodoInv' /\ OutInv'
<1>1. dslc' = d /\ file' = file /\ out' = out /\ seen' = seen
  BY DEF Becomes
<1>2. FileInv' /\ OutInv'
  BY <1>1 DEF DslcInv, FileInv, OutInv
<1>3. TodoInv'
  BY <1>1 DEF DslcInv, TodoInv, Running, Current
<1> QED BY <1>2, <1>3

\* The current plan file, and what it holds.
LEMMA CurrentFile ==
    ASSUME DslcInv, Running
    PROVE  /\ dslc.todo \in Seq(Files) \ {<<>>} /\ Current \in Files
           /\ file[Current] \in seen
           /\ file[Current] # None => file[Current] \in DOMAIN Text
<1>1. dslc.todo \in Seq(Files) \ {<<>>} /\ file[Current] \in seen
  BY DEF DslcInv, TodoInv
<1>2. Current \in Files
  BY <1>1, HeadTailProperties DEF Current
<1> QED BY <1>1, <1>2 DEF DslcInv, FileInv

LEMMA ReadKeeps ==
    ASSUME DslcInv, Read
    PROVE  DslcInv'
<1> DEFINE d == [phase |-> "extract", todo |-> dslc.todo, text |-> file[Current]]
<1>1. Running
  BY DEF Read, Running
<1>2. CASE Fail
  BY <1>2, FailKeeps
<1>3. CASE file[Current] # None /\ Becomes(d)
  <2>1. FileInv' /\ TodoInv' /\ OutInv'
    BY <1>1, <1>3, BecomesKeeps
  <2>2. dslc'.phase = "extract" /\ dslc'.text = file[Current] /\ seen' = seen
    BY <1>3 DEF Becomes
  <2>3. TextInv' /\ ExecuteInv' /\ CapturedInv' /\ WriteInv'
    BY <1>1, <1>3, <2>2, CurrentFile DEF TextInv, ExecuteInv, CapturedInv, WriteInv
  <2> QED BY <2>1, <2>3 DEF DslcInv
<1> QED BY <1>2, <1>3 DEF Read

LEMMA ExtractKeeps ==
    ASSUME DslcInv, ExtractExpressions
    PROVE  DslcInv'
<1> DEFINE text == Text[dslc.text]
           exprs == StaticForms(text, "expr_id")
           preds == StaticForms(text, "pred_id")
           static == StaticSites(text)
           d == [phase |-> "bundle", todo |-> dslc.todo, text |-> dslc.text,
                 exprs |-> exprs, preds |-> preds, static |-> static]
<1>1. Running /\ dslc.phase = "extract"
  BY DEF ExtractExpressions, Running
<1>2. CASE Fail
  BY <1>2, FailKeeps
<1>3. CASE Becomes(d)
  <2>1. StaticSound(static, text.sites, DOMAIN exprs, DOMAIN preds)
    BY StaticSitesSound
  <2> HIDE DEF static, exprs, preds
  <2>2. FileInv' /\ TodoInv' /\ OutInv'
    BY <1>1, <1>3, BecomesKeeps
  <2>3. /\ dslc'.phase = "bundle" /\ dslc'.text = dslc.text /\ dslc'.exprs = exprs
        /\ dslc'.preds = preds /\ dslc'.static = static /\ seen' = seen
    BY <1>3 DEF Becomes
  <2>4. TextInv'
    BY <1>1, <2>1, <2>3 DEF DslcInv, TextInv
  <2>5. ExecuteInv' /\ CapturedInv' /\ WriteInv'
    BY <2>3 DEF ExecuteInv, CapturedInv, WriteInv
  <2> QED BY <2>2, <2>4, <2>5 DEF DslcInv
<1> QED BY <1>2, <1>3 DEF ExtractExpressions

\* A definePlan begins with nothing.
LEMMA EmptyIsSound ==
    ASSUME NEW sites, NEW plan, IsBuild(plan, sites), NEW E, NEW P
    PROVE  CtxSound(EmptyCtx, <<>>, sites, plan.steps, E, P)
<1>1. /\ IsCtx(EmptyCtx) /\ EmptyCtx.counter = 0 /\ EmptyCtx.nodes = <<>>
  BY DEF EmptyCtx, IsCtx
<1>2. Len(plan.steps) \in Nat /\ <<>> \in Seq(Int) /\ Len(<<>>) = 0 /\ DOMAIN <<>> = {}
      /\ <<>> \in Seq(Range(<<>>))
  BY LenProperties DEF IsBuild
<1>3. NodesSound(<<>>, sites, plan.steps, 0, DOMAIN EmptyCtx.exprs, DOMAIN EmptyCtx.preds, E, P)
  BY <1>2 DEF NodesSound
<1> HIDE DEF EmptyCtx
<1> QED BY <1>1, <1>2, <1>3 DEF CtxSound

LEMMA BuildsOfText ==
    ASSUME NEW v \in DOMAIN Text
    PROVE  /\ Len(Text[v].builds) \in Nat /\ DOMAIN Text[v].builds = 1..Len(Text[v].builds)
           /\ \A b \in 1..Len(Text[v].builds) : IsBuild(Text[v].builds[b], Text[v].sites)
<1>1. Text[v].builds \in Seq(Range(Text[v].builds))
      /\ \A b \in DOMAIN Text[v].builds : IsBuild(Text[v].builds[b], Text[v].sites)
  BY TextAssumption
<1> QED BY <1>1, LenProperties

LEMMA BundleKeeps ==
    ASSUME DslcInv, BundlePlan
    PROVE  DslcInv'
<1> DEFINE code == IF DOMAIN dslc.static # {} THEN dslc.text ELSE file[Current]
           d == [phase |-> "execute", todo |-> dslc.todo, code |-> code,
                 exprs |-> dslc.exprs, preds |-> dslc.preds, static |-> dslc.static,
                 build |-> 1, ctx |-> EmptyCtx, handles |-> <<>>,
                 emitCount |-> 0, captured |-> None]
<1>1. Running /\ dslc.phase = "bundle"
  BY DEF BundlePlan, Running
<1>2. CASE Fail
  BY <1>2, FailKeeps
<1>3. CASE code # None /\ Becomes(d)
  <2>1. code \in DOMAIN Text \cap seen
    BY <1>1, <1>3, CurrentFile DEF DslcInv, TextInv
  <2>2. StaticSound(dslc.static, Text[code].sites, DOMAIN dslc.exprs, DOMAIN dslc.preds)
    BY <1>1 DEF DslcInv, TextInv, StaticSound
  <2> HIDE DEF code
  <2>3. FileInv' /\ TodoInv' /\ OutInv'
    BY <1>1, <1>3, BecomesKeeps
  <2>4. /\ dslc'.phase = "execute" /\ dslc'.code = code /\ dslc'.exprs = dslc.exprs
        /\ dslc'.preds = dslc.preds /\ dslc'.static = dslc.static /\ seen' = seen
        /\ dslc'.build = 1 /\ dslc'.ctx = EmptyCtx /\ dslc'.handles = <<>> /\ dslc'.emitCount = 0
        /\ IsRun(dslc')
    BY <1>3 DEF Becomes, IsRun
  <2>5. TextInv' /\ CapturedInv' /\ WriteInv'
    BY <2>1, <2>4 DEF TextInv, CapturedInv, WriteInv
  <2>6. ExecuteInv'
    <3>1. Forms'
      BY <2>2, <2>4 DEF Forms
    <3>2. Len(Text[code].builds) \in Nat
          /\ \A b \in 1..Len(Text[code].builds) : IsBuild(Text[code].builds[b], Text[code].sites)
      BY <2>1, BuildsOfText
    <3>3. 1 <= Len(Text[code].builds) =>
            CtxSound(EmptyCtx, <<>>, Text[code].sites, Text[code].builds[1].steps,
                     DOMAIN dslc.exprs, DOMAIN dslc.preds)
      <4>1. 1 <= Len(Text[code].builds) => IsBuild(Text[code].builds[1], Text[code].sites)
        BY <3>2
      <4> QED BY <4>1, EmptyIsSound, Zenon
    <3> QED BY <2>4, <3>1, <3>2, <3>3 DEF ExecuteInv
  <2> QED BY <2>3, <2>5, <2>6 DEF DslcInv
<1> QED BY <1>2, <1>3 DEF BundlePlan

LEMMA RunAdvances ==
    ASSUME DslcInv, Executing, NEW c, NEW h, Becomes([dslc EXCEPT !.ctx = c, !.handles = h]),
           CtxSound(c, h, Text[dslc.code].sites, Build.steps, DOMAIN dslc.exprs, DOMAIN dslc.preds)
    PROVE  DslcInv'
<1> DEFINE d == [dslc EXCEPT !.ctx = c, !.handles = h]
<1>1. Running /\ dslc.phase = "execute"
  BY DEF Executing, Running
<1>2. IsRun(dslc)
  BY <1>1 DEF DslcInv, TextInv
<1>3. d = [phase |-> dslc.phase, todo |-> dslc.todo, code |-> dslc.code, exprs |-> dslc.exprs,
           preds |-> dslc.preds, static |-> dslc.static, build |-> dslc.build, ctx |-> c,
           handles |-> h, emitCount |-> dslc.emitCount, captured |-> dslc.captured]
  BY <1>2, WithStep
<1> HIDE DEF d
<1>4. /\ d.phase = "execute" /\ d.todo = dslc.todo /\ d.code = dslc.code /\ d.exprs = dslc.exprs
      /\ d.preds = dslc.preds /\ d.static = dslc.static /\ d.build = dslc.build /\ d.ctx = c
      /\ d.handles = h /\ d.emitCount = dslc.emitCount /\ d.captured = dslc.captured
  BY <1>1, <1>3
<1>5. IsRun(d)
  BY <1>1, <1>3, <1>4 DEF IsRun
<1>6. Becomes(d)
  BY DEF d
<1>7. dslc' = d /\ seen' = seen
  BY <1>6 DEF Becomes
<1>8. FileInv' /\ TodoInv' /\ OutInv'
  BY <1>1, <1>4, <1>6, BecomesKeeps
<1>9. TextInv' /\ CapturedInv' /\ WriteInv'
  BY <1>1, <1>4, <1>5, <1>7 DEF DslcInv, TextInv, CapturedInv, WriteInv
<1>10. ExecuteInv'
  <2>1. Forms' = Forms /\ CapturedSound' = CapturedSound
    BY <1>4, <1>7 DEF Forms, CapturedSound
  <2>2. /\ Forms /\ dslc.build \in 1..(Len(Text[dslc.code].builds) + 1)
        /\ dslc.emitCount = dslc.build - 1 /\ (dslc.build = 2 => CapturedSound)
    BY <1>1 DEF DslcInv, ExecuteInv
  <2>3. CtxSound(c, h, Text[dslc.code].sites, Text[dslc.code].builds[dslc.build].steps,
                 DOMAIN dslc.exprs, DOMAIN dslc.preds)
    BY DEF Build
  <2> QED BY <1>4, <1>7, <2>1, <2>2, <2>3 DEF ExecuteInv
<1> QED BY <1>8, <1>9, <1>10 DEF DslcInv

\* What is known of a definePlan that is being executed.
LEMMA ExecutingFacts ==
    ASSUME DslcInv, dslc.phase = "execute", dslc.build <= Len(Text[dslc.code].builds)
    PROVE  /\ dslc.code \in DOMAIN Text /\ Forms /\ IsBuild(Build, Text[dslc.code].sites)
           /\ dslc.build \in 1..Len(Text[dslc.code].builds)
           /\ Len(Text[dslc.code].builds) \in Nat
           /\ Len(Build.steps) \in Nat /\ DOMAIN Build.steps = 1..Len(Build.steps)
           /\ CtxSound(dslc.ctx, dslc.handles, Text[dslc.code].sites, Build.steps,
                       DOMAIN dslc.exprs, DOMAIN dslc.preds)
           /\ Len(dslc.handles) \in Nat /\ DOMAIN dslc.handles = 1..Len(dslc.handles)
<1>1. /\ dslc.code \in DOMAIN Text /\ Forms
      /\ dslc.build \in 1..(Len(Text[dslc.code].builds) + 1)
      /\ CtxSound(dslc.ctx, dslc.handles, Text[dslc.code].sites, Build.steps,
                  DOMAIN dslc.exprs, DOMAIN dslc.preds)
  BY DEF DslcInv, TextInv, ExecuteInv, Build
<1>2. Len(Text[dslc.code].builds) \in Nat
      /\ \A b \in 1..Len(Text[dslc.code].builds) :
           IsBuild(Text[dslc.code].builds[b], Text[dslc.code].sites)
  BY <1>1, BuildsOfText
<1>3. dslc.build \in 1..Len(Text[dslc.code].builds)
  BY <1>1, <1>2
<1>4. IsBuild(Build, Text[dslc.code].sites)
  BY <1>2, <1>3 DEF Build
<1>5. Len(Build.steps) \in Nat /\ DOMAIN Build.steps = 1..Len(Build.steps)
  BY <1>4, LenProperties DEF IsBuild
<1>6. Len(dslc.handles) \in Nat /\ DOMAIN dslc.handles = 1..Len(dslc.handles)
  BY <1>1, LenProperties DEF CtxSound
<1> QED BY <1>1, <1>2, <1>3, <1>4, <1>5, <1>6

LEMMA RequireStepKeeps ==
    ASSUME DslcInv, RequireStep
    PROVE  DslcInv'
<1> DEFINE r == RequireCapability(dslc.ctx, StepNow.cap, StepNow.payload)
<1>1. CASE Fail
  BY <1>1, FailKeeps
<1>2. CASE Becomes([dslc EXCEPT !.ctx = r.ctx, !.handles = Append(@, r.node)])
  <2>1. dslc.phase = "execute" /\ dslc.build <= Len(Text[dslc.code].builds)
        /\ Len(dslc.handles) < Len(Build.steps) /\ Executing
    BY DEF RequireStep, Executing
  <2>2. Build.steps[Len(dslc.handles) + 1].do # "call"
    BY DEF RequireStep, StepNow
  <2>3. CtxSound(r.ctx, Append(dslc.handles, r.node), Text[dslc.code].sites, Build.steps,
                 DOMAIN dslc.exprs, DOMAIN dslc.preds)
    BY <2>1, <2>2, ExecutingFacts, RequireKeeps
  <2> HIDE DEF r
  <2> QED BY <1>2, <2>1, <2>3, RunAdvances
<1> QED BY <1>1, <1>2 DEF RequireStep, Return

\* The node of a set that a step made in this definePlan, unless it threw.
LEMMA HandleIsMade ==
    ASSUME NEW ctx, NEW handles, NEW sites, NEW steps, NEW E, NEW P,
           CtxSound(ctx, handles, sites, steps, E, P), Len(handles) \in Nat,
           DOMAIN handles = 1..Len(handles),
           NEW i, Usable(steps, i, Len(handles) + 1), handles[i] # Thrown
    PROVE  MadeIn(ctx.nodes, handles[i], i)
<1>1. i \in 1..Len(handles) /\ steps[i].do = "call"
  BY DEF Usable
<1> QED BY <1>1 DEF CtxSound

LEMMA CallStepKeeps ==
    ASSUME DslcInv, CallStep
    PROVE  DslcInv'
<1> DEFINE step  == StepNow
           sites == Text[dslc.code].sites
           site  == sites[step.site]
           input == IF site.task.source THEN 0 ELSE dslc.handles[step.input]
           lost  == Thrown \in {input, SetOf(step.rhs).node}
           call  == CallTask(dslc.ctx, site.task, input, Options(step), site.ext, Len(dslc.handles) + 1)
           r     == IF lost THEN [ctx |-> dslc.ctx, node |-> Thrown] ELSE call
           n     == Len(dslc.handles)
<1>1. dslc.phase = "execute" /\ dslc.build <= Len(Text[dslc.code].builds)
      /\ n < Len(Build.steps) /\ Executing /\ step.do = "call"
  BY DEF CallStep, Executing
<1>2. /\ dslc.code \in DOMAIN Text /\ Forms /\ IsBuild(Build, sites)
      /\ Len(Build.steps) \in Nat /\ DOMAIN Build.steps = 1..Len(Build.steps)
      /\ CtxSound(dslc.ctx, dslc.handles, sites, Build.steps, DOMAIN dslc.exprs, DOMAIN dslc.preds)
      /\ n \in Nat /\ DOMAIN dslc.handles = 1..n
  BY <1>1, ExecutingFacts
<1>3. n + 1 \in DOMAIN Build.steps /\ step = Build.steps[n + 1]
  BY <1>1, <1>2 DEF StepNow
<1>4. /\ step.site \in DOMAIN sites
      /\ ~ site.task.source => Usable(Build.steps, step.input, n + 1)
      /\ step.rhs = 0 \/ Usable(Build.steps, step.rhs, n + 1)
  BY <1>1, <1>2, <1>3 DEF IsBuild
<1>5. site.task \in Tasks
  BY <1>2, <1>4, TextAssumption
<1>6. Return(r, step.caught)
  BY DEF CallStep
<1>7. CASE Fail
  BY <1>7, FailKeeps
<1>8. CASE /\ r.node = Thrown => step.caught
           /\ Becomes([dslc EXCEPT !.ctx = r.ctx, !.handles = Append(@, r.node)])
  <2>1. CASE lost
    <3>1. r.ctx = dslc.ctx /\ r.node = Thrown /\ Thrown \in Int
      <4>1. r = [ctx |-> dslc.ctx, node |-> Thrown]
        <5> HIDE DEF lost, call
        <5> QED BY <2>1
      <4> HIDE DEF r
      <4> QED BY <4>1 DEF Thrown
    <3>2. IsCtx(dslc.ctx) /\ dslc.ctx.counter \in Nat
      BY <1>2 DEF CtxSound
    <3> HIDE DEF r, lost, call, input, site
    <3>3. CtxSound(r.ctx, Append(dslc.handles, r.node), sites, Build.steps,
                   DOMAIN dslc.exprs, DOMAIN dslc.preds)
      BY <1>1, <1>2, <1>3, <1>8, <3>1, <3>2, HandleAdded
    <3> QED BY <1>1, <1>8, <3>3, RunAdvances
  <2>2. CASE ~ lost
    <3>1. r = call
      BY <2>2
    <3>2. ~ site.task.source => MadeIn(dslc.ctx.nodes, input, step.input)
      BY <1>2, <1>4, <2>2, HandleIsMade
    <3>3. step.rhs # 0 => MadeIn(dslc.ctx.nodes, SetOf(step.rhs).node, step.rhs)
      <4>1. step.rhs # 0 => SetOf(step.rhs).node = dslc.handles[step.rhs]
        BY DEF SetOf
      <4> QED BY <1>2, <1>4, <2>2, <4>1, HandleIsMade
    <3>4. SetOf(step.rhs).own <=> step.rhs # 0
      BY DEF SetOf
    <3>5. /\ site.task = ConcatImpl => Options(step).rhs = SetOf(step.rhs)
          /\ site.task = VmImpl /\ "expr" \in DOMAIN Options(step) /\ Options(step).expr.t = "placeholder" =>
               Options(step).expr.id \in DOMAIN dslc.exprs
          /\ site.task = FilterImpl /\ "pred" \in DOMAIN Options(step) /\ Options(step).pred.t = "placeholder" =>
               Options(step).pred.id \in DOMAIN dslc.preds
      BY <1>2, <1>4, OptionsSound
    <3>6. site.task = ConcatImpl /\ Options(step).rhs.own =>
            MadeIn(dslc.ctx.nodes, Options(step).rhs.node, step.rhs)
      BY <3>3, <3>4, <3>5
    <3> DEFINE opts == Options(step)
               task == site.task
    <3> HIDE DEF opts, input, r, lost
    <3>7. CtxSound(call.ctx, Append(dslc.handles, call.node), sites, Build.steps,
                   DOMAIN dslc.exprs, DOMAIN dslc.preds)
      <4>1. /\ task \in Tasks /\ task = sites[step.site].task
            /\ call = CallTask(dslc.ctx, task, input, opts, site.ext, n + 1)
            /\ (call.node = Thrown => step.caught)
        BY <1>5, <1>8, <3>1 DEF opts
      <4>2. /\ ~ task.source => MadeIn(dslc.ctx.nodes, input, step.input)
            /\ task = ConcatImpl /\ opts.rhs.own => MadeIn(dslc.ctx.nodes, opts.rhs.node, step.rhs)
            /\ task = VmImpl /\ "expr" \in DOMAIN opts /\ opts.expr.t = "placeholder" =>
                 opts.expr.id \in DOMAIN dslc.exprs
            /\ task = FilterImpl /\ "pred" \in DOMAIN opts /\ opts.pred.t = "placeholder" =>
                 opts.pred.id \in DOMAIN dslc.preds
        BY <3>2, <3>5, <3>6 DEF opts
      <4>3. /\ CtxSound(dslc.ctx, dslc.handles, sites, Build.steps, DOMAIN dslc.exprs, DOMAIN dslc.preds)
            /\ n < Len(Build.steps) /\ Len(Build.steps) \in Nat
            /\ step = Build.steps[n + 1] /\ step.do = "call"
        BY <1>1, <1>2, <1>3
      <4> HIDE DEF task, call, step, sites
      <4>4. LET c == CallTask(dslc.ctx, task, input, opts, site.ext, n + 1)
            IN (c.node = Thrown => step.caught) =>
                 CtxSound(c.ctx, Append(dslc.handles, c.node), sites, Build.steps,
                          DOMAIN dslc.exprs, DOMAIN dslc.preds)
        <5>1. Callable(sites, Build.steps, DOMAIN dslc.exprs, DOMAIN dslc.preds, dslc.ctx,
                       dslc.handles, step, task, input, opts)
          BY <4>1, <4>2, <4>3 DEF Callable
        <5> QED BY <5>1, CallKeeps
      <4> QED BY <4>1, <4>4
    <3> QED BY <1>1, <1>8, <3>1, <3>7, RunAdvances
  <2> QED BY <2>1, <2>2
<1> QED BY <1>6, <1>7, <1>8 DEF Return

LEMMA DefinePlanKeeps ==
    ASSUME DslcInv, DefinePlan
    PROVE  DslcInv'
<1> DEFINE result == SetOf(Build.result)
           a == Finalize(dslc.ctx, result, Build.name)
           b == dslc.build + 1
           m == dslc.emitCount + 1
           none == <<>>
           d == [dslc EXCEPT !.build = b, !.ctx = EmptyCtx, !.handles = none, !.emitCount = m, !.captured = a]
           sites == Text[dslc.code].sites
           E == DOMAIN dslc.exprs
           P == DOMAIN dslc.preds
<1>1. /\ dslc.phase = "execute" /\ dslc.build <= Len(Text[dslc.code].builds) /\ Running
      /\ Len(dslc.handles) = Len(Build.steps)
  BY DEF DefinePlan, Running
<1>2. /\ dslc.code \in DOMAIN Text /\ Forms /\ IsBuild(Build, sites)
      /\ dslc.build \in 1..Len(Text[dslc.code].builds)
      /\ Len(Text[dslc.code].builds) \in Nat
      /\ CtxSound(dslc.ctx, dslc.handles, sites, Build.steps, E, P)
  BY <1>1, ExecutingFacts
<1>3. CASE Fail
  BY <1>3, FailKeeps
<1>4. CASE result.node # Thrown /\ Becomes(d)
  <2>1. result.node = dslc.handles[Build.result]
    <3>1. Build.result # 0
      <4>1. Usable(Build.steps, Build.result, Len(Build.steps) + 1)
        BY <1>2 DEF IsBuild
      <4> QED BY <4>1 DEF Usable
    <3> QED BY <3>1 DEF SetOf
  <2>2. ArtifactSound(a, sites, Build, E, P)
    BY <1>1, <1>2, <1>4, <2>1, FinalizeSound
  <2>3. IsRun(dslc)
    BY <1>1 DEF DslcInv, TextInv
  <2>4. Becomes(d)
    BY <1>4
  <2> HIDE DEF a, b, m, none, result
  <2>5. d = [phase |-> dslc.phase, todo |-> dslc.todo, code |-> dslc.code, exprs |-> dslc.exprs,
             preds |-> dslc.preds, static |-> dslc.static, build |-> b, ctx |-> EmptyCtx,
             handles |-> none, emitCount |-> m, captured |-> a]
    <3>1. d = Emitted(dslc, b, EmptyCtx, none, m, a)
      BY DEF Emitted
    <3> HIDE DEF d
    <3> QED BY <2>3, <3>1, WithEmit
  <2> HIDE DEF d
  <2>6. /\ d.phase = "execute" /\ d.todo = dslc.todo /\ d.code = dslc.code /\ d.exprs = dslc.exprs
        /\ d.preds = dslc.preds /\ d.static = dslc.static /\ d.build = b /\ d.ctx = EmptyCtx
        /\ d.handles = none /\ d.emitCount = m /\ d.captured = a
    BY <1>1, <2>5
  <2>7. IsRun(d)
    BY <1>1, <2>5, <2>6 DEF IsRun
  <2>8. dslc' = d /\ seen' = seen
    BY <2>4 DEF Becomes
  <2>9. FileInv' /\ TodoInv' /\ OutInv'
    BY <1>1, <2>4, <2>6, BecomesKeeps
  <2>10. TextInv' /\ CapturedInv' /\ WriteInv'
    BY <1>1, <2>6, <2>7, <2>8 DEF DslcInv, TextInv, CapturedInv, WriteInv
  <2>11. ExecuteInv'
    <3>1. Forms'
      BY <1>2, <2>6, <2>8 DEF Forms
    <3>2. b \in 1..(Len(Text[dslc.code].builds) + 1) /\ m = b - 1
      BY <1>1, <1>2 DEF DslcInv, ExecuteInv, b, m
    <3>3. b <= Len(Text[dslc.code].builds) =>
            CtxSound(EmptyCtx, none, sites, Text[dslc.code].builds[b].steps, E, P)
      <4>1. b <= Len(Text[dslc.code].builds) => IsBuild(Text[dslc.code].builds[b], sites)
        BY <1>2, <3>2, BuildsOfText
      <4> QED BY <4>1, EmptyIsSound, Zenon DEF none
    <3>4. b = 2 => ArtifactSound(a, sites, Text[dslc.code].builds[1], E, P)
      <4>1. b = 2 => dslc.build = 1
        BY <1>2 DEF b
      <4> QED BY <2>2, <4>1 DEF Build
    <3> QED BY <2>6, <2>8, <3>1, <3>2, <3>3, <3>4 DEF ExecuteInv, CapturedSound
  <2> QED BY <2>9, <2>10, <2>11 DEF DslcInv
<1> QED BY <1>3, <1>4 DEF DefinePlan

\* Only the phase changes.
LEMMA PhaseKeeps ==
    ASSUME DslcInv, dslc.phase \in {"execute", "validate"}, NEW p \in {"validate", "merge"},
           Becomes([dslc EXCEPT !.phase = p]), Len(Text[dslc.code].builds) = 1, CapturedSound
    PROVE  DslcInv'
<1> DEFINE d == [dslc EXCEPT !.phase = p]
<1>1. Running /\ IsRun(dslc) /\ dslc.code \in DOMAIN Text \cap seen
  BY DEF DslcInv, TextInv, Running
<1>2. d = [phase |-> p, todo |-> dslc.todo, code |-> dslc.code, exprs |-> dslc.exprs,
           preds |-> dslc.preds, static |-> dslc.static, build |-> dslc.build, ctx |-> dslc.ctx,
           handles |-> dslc.handles, emitCount |-> dslc.emitCount, captured |-> dslc.captured]
  BY <1>1, WithPhase
<1>3. Becomes(d)
  OBVIOUS
<1> HIDE DEF d
<1>4. /\ d.phase = p /\ d.todo = dslc.todo /\ d.code = dslc.code /\ d.exprs = dslc.exprs
      /\ d.preds = dslc.preds /\ d.captured = dslc.captured
  BY <1>2
<1>5. IsRun(d)
  BY <1>2 DEF IsRun
<1>6. dslc' = d /\ seen' = seen
  BY <1>3 DEF Becomes
<1>7. FileInv' /\ TodoInv' /\ OutInv'
  BY <1>1, <1>3, <1>4, BecomesKeeps
<1>8. TextInv' /\ ExecuteInv' /\ WriteInv'
  BY <1>1, <1>4, <1>5, <1>6 DEF TextInv, ExecuteInv, WriteInv
<1>9. CapturedInv'
  BY <1>4, <1>6 DEF CapturedInv, CapturedSound
<1> QED BY <1>7, <1>8, <1>9 DEF DslcInv

LEMMA ExecutePlanKeeps ==
    ASSUME DslcInv, ExecutePlan
    PROVE  DslcInv'
<1>1. dslc.phase = "execute" /\ dslc.build > Len(Text[dslc.code].builds)
  BY DEF ExecutePlan
<1>2. CASE Fail
  BY <1>2, FailKeeps
<1>3. CASE dslc.emitCount = 1 /\ Becomes([dslc EXCEPT !.phase = "validate"])
  <2>1. /\ dslc.build \in 1..(Len(Text[dslc.code].builds) + 1)
        /\ dslc.emitCount = dslc.build - 1
        /\ dslc.build = 2 => CapturedSound
        /\ dslc.code \in DOMAIN Text
    BY <1>1 DEF DslcInv, ExecuteInv, TextInv
  <2>2. Len(Text[dslc.code].builds) \in Nat
    BY <2>1, BuildsOfText
  <2>3. dslc.build = 2 /\ Len(Text[dslc.code].builds) = 1
    <3>1. ASSUME NEW n \in Nat, NEW b \in 1..(n + 1), b > n, 1 = b - 1
          PROVE  b = 2 /\ n = 1
      BY <3>1
    <3> QED BY <1>1, <1>3, <2>1, <2>2, <3>1
  <2> QED BY <1>1, <1>3, <2>1, <2>3, PhaseKeeps
<1> QED BY <1>2, <1>3 DEF ExecutePlan

LEMMA ValidateKeeps ==
    ASSUME DslcInv, Validate
    PROVE  DslcInv'
<1>1. dslc.phase = "validate" /\ Len(Text[dslc.code].builds) = 1 /\ CapturedSound
  BY DEF Validate, DslcInv, CapturedInv
<1>2. CASE Fail
  BY <1>2, FailKeeps
<1>3. CASE Becomes([dslc EXCEPT !.phase = "merge"])
  BY <1>1, <1>3, PhaseKeeps
<1> QED BY <1>2, <1>3 DEF Validate

LEMMA MergeKeeps ==
    ASSUME DslcInv, Merge
    PROVE  DslcInv'
<1> DEFINE a1 == MergeExtractedExprs(dslc.captured)
           a == MergeExtractedPreds(a1)
           sites == Text[dslc.code].sites
           plan == Text[dslc.code].builds[1]
           name == BaseName[Current]
<1>1. dslc.phase = "merge" /\ Running
  BY DEF Merge, Running
<1>2. /\ Len(Text[dslc.code].builds) = 1 /\ dslc.code \in DOMAIN Text \cap seen
      /\ ArtifactSound(dslc.captured, sites, plan, DOMAIN dslc.exprs, DOMAIN dslc.preds)
  BY <1>1 DEF DslcInv, TextInv, CapturedInv, CapturedSound
<1>3. ArtifactSound(a1, sites, plan, {}, DOMAIN dslc.preds)
  BY <1>2, MergeExprsSound DEF MergeExtractedExprs
<1>4. ArtifactSound(a, sites, plan, {}, {})
  <2> HIDE DEF a1
  <2> QED BY <1>3, MergePredsSound DEF MergeExtractedPreds
<1> HIDE DEF a1, a
<1>5. CASE Fail
  BY <1>5, FailKeeps
<1>6. CASE /\ a.plan_name = name
           /\ out' = [out EXCEPT ![a.plan_name] = HalfWritten]
           /\ dslc' = [phase |-> "write", todo |-> dslc.todo, output |-> Output(a, dslc.code)]
           /\ UNCHANGED <<file, seen, left>>
  <2>1. dslc.todo \in Seq(Files) \ {<<>>} /\ Current \in Files /\ name \in Range(BaseName)
    BY <1>1, CurrentFile, FilesAssumption
  <2>2. dslc'.phase = "write" /\ dslc'.todo = dslc.todo /\ dslc'.output = Output(a, dslc.code)
        /\ Current' = Current
    BY <1>6 DEF Current
  <2>3. OutputSound(Output(a, dslc.code), name)
    <3>1. Output(a, dslc.code).artifact = a /\ Output(a, dslc.code).of = dslc.code
      BY DEF Output
    <3> QED BY <1>2, <1>4, <1>6, <3>1 DEF OutputSound
  <2>4. DOMAIN out' = DOMAIN out /\ name \in DOMAIN out /\ out'[name] = HalfWritten
        /\ \A b \in DOMAIN out : b # name => out'[b] = out[b]
    BY <1>6, <2>1 DEF DslcInv, OutInv
  <2>5. OutInv'
    BY <2>4 DEF DslcInv, OutInv
  <2>6. FileInv'
    BY <1>6 DEF DslcInv, FileInv
  <2>7. TodoInv'
    BY <1>1, <1>6, <2>1, <2>2, CurrentFile DEF TodoInv, Running
  <2>8. TextInv' /\ ExecuteInv' /\ CapturedInv'
    BY <2>2 DEF TextInv, ExecuteInv, CapturedInv
  <2>9. WriteInv'
    <3>1. Output(a, dslc.code).of = dslc.code /\ seen' = seen
      BY <1>6 DEF Output
    <3> QED BY <1>2, <2>2, <2>3, <2>4, <3>1 DEF WriteInv
  <2> QED BY <2>5, <2>6, <2>7, <2>8, <2>9 DEF DslcInv
<1> QED BY <1>5, <1>6 DEF Merge, a, a1

LEMMA WrittenKeeps ==
    ASSUME DslcInv, Written
    PROVE  DslcInv'
<1> DEFINE name == BaseName[Current]
           rest == Tail(dslc.todo)
<1>1. dslc.phase = "write" /\ Running
  BY DEF Written, Running
<1>2. dslc.todo \in Seq(Files) \ {<<>>} /\ Current \in Files /\ name \in Range(BaseName)
  BY <1>1, CurrentFile, FilesAssumption
<1>3. OutInv'
  <2>1. OutputSound(dslc.output, name) /\ name \in DOMAIN out
    BY <1>1, <1>2 DEF DslcInv, WriteInv, OutInv
  <2>2. DOMAIN out' = DOMAIN out /\ out'[name] = dslc.output
        /\ \A b \in DOMAIN out : b # name => out'[b] = out[b]
    BY <2>1 DEF Written
  <2> QED BY <2>1, <2>2 DEF DslcInv, OutInv
<1>4. FileInv /\ file' = file
  BY DEF DslcInv, Written
<1>5. rest \in Seq(Files)
  BY <1>2, HeadTailProperties
<1>6. CASE rest = <<>>
  <2>1. dslc'.phase = "ok" /\ dslc'.todo = <<>>
    BY <1>6 DEF Written, Blank
  <2>2. TodoInv' /\ TextInv' /\ ExecuteInv' /\ CapturedInv' /\ WriteInv'
    BY <2>1 DEF TodoInv, TextInv, ExecuteInv, CapturedInv, WriteInv, Running
  <2>3. FileInv'
    BY <1>4 DEF FileInv
  <2> QED BY <1>3, <2>2, <2>3 DEF DslcInv
<1>7. CASE rest # <<>>
  <2>1. dslc' = Blank("read", rest) /\ seen' = {file[Head(rest)]}
    BY <1>7 DEF Written
  <2> QED BY <1>3, <1>4, <1>5, <1>7, <2>1, BeginKeeps
<1> QED BY <1>6, <1>7

LEMMA CompilePlanKeeps ==
    ASSUME DslcInv, CompilePlan
    PROVE  DslcInv'
BY ReadKeeps, ExtractKeeps, BundleKeeps, CallStepKeeps, RequireStepKeeps, DefinePlanKeeps,
   ExecutePlanKeeps, ValidateKeeps, MergeKeeps, WrittenKeeps, FailKeeps DEF CompilePlan, WriteFails

\* What is not a step of dslc, its user or an editor.
LEMMA DslcStutters ==
    ASSUME DslcInv, file' = file, out' = out, dslc' = dslc, seen' = seen
    PROVE  DslcInv'
<1>1. FileInv' /\ TodoInv' /\ OutInv'
  BY DEF DslcInv, FileInv, TodoInv, OutInv, Running, Current
<1>2. TextInv' /\ WriteInv'
  BY DEF DslcInv, TextInv, WriteInv, Current
<1>3. ExecuteInv' /\ CapturedInv'
  BY DEF DslcInv, ExecuteInv, CapturedInv, Forms, CapturedSound
<1> QED BY <1>1, <1>2, <1>3 DEF DslcInv

-----------------------------------------------------------------------------
(***************************************************************************)
(* The steps of sync_manifest and build_all_plans.                         *)
(***************************************************************************)

\* A non-empty set of naturals has a least member.
LEMMA LeastNatural ==
    ASSUME NEW K \in SUBSET Nat, K # {}
    PROVE  \E k \in K : \A l \in K : k <= l
<1>1. IsWellFoundedOn(OpToRel(<, Nat), Nat)
  BY NatLessThanWellFounded
<1>2. PICK k \in K : \A l \in K : ~(<<l, k>> \in OpToRel(<, Nat))
  BY <1>1, WFMin
<1>3. \A l \in K : ~(l < k)
  BY <1>2 DEF OpToRel
<1> QED BY <1>3

LEMMA FirstIsMember ==
    ASSUME NEW plans, plans \subseteq Range(Sorted), plans # {}
    PROVE  First(plans) \in plans
<1> DEFINE position(f) == CHOOSE i \in DOMAIN Sorted : Sorted[i] = f
           K == {position(f) : f \in plans}
<1>1. \A f \in plans : position(f) \in DOMAIN Sorted
  BY DEF Range
<1>2. DOMAIN Sorted \subseteq Nat
  BY SortedAssumption, LenProperties
<1> HIDE DEF position
<1>3. K \in SUBSET Nat /\ K # {}
  BY <1>1, <1>2
<1>4. PICK k \in K : \A l \in K : k <= l
  <2> HIDE DEF K
  <2> QED BY <1>3, LeastNatural
<1>5. PICK f \in plans : k = position(f)
  BY <1>4
<1>6. \A g \in plans : position(f) <= position(g)
  BY <1>4, <1>5
<1>7. First(plans) = CHOOSE x \in plans : \A g \in plans : position(x) <= position(g)
  BY DEF First, position
<1> QED BY <1>6, <1>7

\* What build_all_plans keeps when it does not touch the index.
LEMMA IndexKept ==
    ASSUME IndexInv, index' = index, out' = out, changed'.index = changed.index,
           build'.phase = "done" => build'.listed = None
    PROVE  IndexInv'
BY DEF IndexInv, True

LEMMA BuildStutters ==
    ASSUME BuildInv, out' = out, build' = build, index' = index, changed' = changed,
           manifest' = manifest \/ manifest' = sync, sync' = None \/ sync' \subseteq Range(Sorted)
    PROVE  BuildInv'
<1>1. ManifestInv' /\ ChangedInv'
  BY DEF BuildInv, ManifestInv, ChangedInv
<1>2. CompileInv'
  BY DEF BuildInv, CompileInv
<1>3. EntriesInv'
  BY DEF BuildInv, EntriesInv, True
<1>4. IndexInv'
  BY DEF BuildInv, IndexInv, True
<1> QED BY <1>1, <1>2, <1>3, <1>4 DEF BuildInv

LEMMA LoadManifestKeeps ==
    ASSUME BuildInv, LoadManifest
    PROVE  BuildInv'
<1>1. ManifestInv' /\ ChangedInv'
  BY DEF BuildInv, ManifestInv, ChangedInv, LoadManifest
<1>2. CASE build'.phase = "fatal"
  <2>1. CompileInv' /\ EntriesInv'
    BY <1>2 DEF CompileInv, EntriesInv
  <2>2. IndexInv'
    BY <1>2, IndexKept DEF BuildInv, LoadManifest
  <2> QED BY <1>1, <2>1, <2>2 DEF BuildInv
<1>3. CASE /\ manifest # None
           /\ build' = [phase |-> "compile", todo |-> manifest, compiled |-> <<>>, failures |-> 0]
  <2>1. build'.phase = "compile" /\ build'.todo = manifest /\ build'.compiled = <<>>
        /\ IsCompiling(build')
    BY <1>3 DEF IsCompiling
  <2>2. Distinct(<<>>) /\ Range(<<>>) = {}
    BY DEF Distinct, Range
  <2>3. CompileInv' /\ EntriesInv'
    BY <1>3, <2>1, <2>2 DEF CompileInv, EntriesInv, BuildInv, ManifestInv
  <2>4. IndexInv'
    BY <2>1, IndexKept DEF BuildInv, LoadManifest
  <2> QED BY <1>1, <2>3, <2>4 DEF BuildInv
<1> QED BY <1>2, <1>3 DEF LoadManifest

LEMMA KillBuildKeeps ==
    ASSUME BuildInv, KillBuild
    PROVE  BuildInv'
<1>1. build'.phase = "killed"
  BY DEF KillBuild
<1>2. ManifestInv' /\ ChangedInv' /\ CompileInv' /\ EntriesInv'
  BY <1>1 DEF BuildInv, ManifestInv, ChangedInv, CompileInv, EntriesInv, KillBuild
<1>3. IndexInv'
  BY <1>1, IndexKept DEF BuildInv, KillBuild
<1> QED BY <1>2, <1>3 DEF BuildInv

LEMMA WithBuildPhase ==
    ASSUME NEW b, IsCompiling(b), NEW p
    PROVE  [b EXCEPT !.phase = p] =
             [phase |-> p, todo |-> b.todo, compiled |-> b.compiled, failures |-> b.failures]
BY DEF IsCompiling

LEMMA SpawnDslcKeeps ==
    ASSUME BuildInv, SpawnDslc
    PROVE  BuildInv'
<1>1. build.phase = "compile" /\ build.todo # {} /\ IsCompiling(build)
  BY DEF SpawnDslc, BuildInv, CompileInv
<1>2. build' = [phase |-> "wait", todo |-> build.todo, compiled |-> build.compiled,
                failures |-> build.failures]
  BY <1>1, WithBuildPhase DEF SpawnDslc
<1>3. build'.phase = "wait" /\ build'.todo = build.todo /\ build'.compiled = build.compiled
      /\ IsCompiling(build')
  BY <1>2 DEF IsCompiling
<1>4. CompileInv' /\ EntriesInv'
  BY <1>1, <1>3 DEF BuildInv, CompileInv, EntriesInv
<1>5. ManifestInv' /\ ChangedInv'
  BY DEF BuildInv, ManifestInv, ChangedInv, SpawnDslc
<1>6. IndexInv'
  BY <1>3, IndexKept DEF BuildInv, SpawnDslc, Start
<1> QED BY <1>4, <1>5, <1>6 DEF BuildInv

Closed(b, t) == [b EXCEPT !.phase = "compile", !.todo = t]

LEMMA WithClosed ==
    ASSUME NEW b, IsCompiling(b), NEW t
    PROVE  Closed(b, t) =
             [phase |-> "compile", todo |-> t, compiled |-> b.compiled, failures |-> b.failures]
<1> DEFINE c == [b EXCEPT !.phase = "compile"]
<1>1. c = [phase |-> "compile", todo |-> b.todo, compiled |-> b.compiled, failures |-> b.failures]
  BY DEF IsCompiling
<1> HIDE DEF c
<1>2. [c EXCEPT !.todo = t] =
        [phase |-> "compile", todo |-> t, compiled |-> b.compiled, failures |-> b.failures]
  BY <1>1
<1> QED BY <1>2 DEF c, Closed

LEMMA WithCompiled ==
    ASSUME NEW b, IsCompiling(b), NEW x
    PROVE  /\ [b EXCEPT !.compiled = x] =
                [phase |-> b.phase, todo |-> b.todo, compiled |-> x, failures |-> b.failures]
           /\ [b EXCEPT !.failures = x] =
                [phase |-> b.phase, todo |-> b.todo, compiled |-> b.compiled, failures |-> x]
BY DEF IsCompiling

\* One more name keeps the names distinct.
LEMMA DistinctAppend ==
    ASSUME NEW names, Distinct(names), NEW n \in Range(BaseName), n \notin Range(names)
    PROVE  Distinct(Append(names, n)) /\ Range(Append(names, n)) = Range(names) \cup {n}
<1> DEFINE more == Append(names, n)
           k == Len(names)
<1>1. /\ k \in Nat /\ DOMAIN names = 1..k
      /\ more \in Seq(Range(BaseName)) /\ DOMAIN more = 1..(k + 1)
      /\ \A i \in 1..k : more[i] = names[i]
      /\ more[k + 1] = n
  BY AppendProperties, LenProperties DEF Distinct
<1> HIDE DEF more, k
<1>2. \A i \in DOMAIN more : i \in DOMAIN names \/ i = k + 1
  BY <1>1
<1>3. \A i \in DOMAIN names : more[i] = names[i] /\ more[i] # n
  BY <1>1 DEF Range
<1>4. \A i, j \in DOMAIN more : more[i] = more[j] => i = j
  BY <1>1, <1>2, <1>3 DEF Distinct
<1>5. Range(more) = Range(names) \cup {n}
  <2>1. DOMAIN names \subseteq DOMAIN more /\ k + 1 \in DOMAIN more
    BY <1>1
  <2> QED BY <1>1, <1>2, <1>3, <2>1 DEF Range
<1> QED BY <1>1, <1>4, <1>5 DEF Distinct, more

LEMMA DslcClosedKeeps ==
    ASSUME BuildInv, DslcClosed
    PROVE  BuildInv'
<1> DEFINE plan == First(build.todo)
           rest == build.todo \ {plan}
           next == Closed(build, rest)
           compiled == Append(build.compiled, BaseName[plan])
           failures == build.failures + 1
<1>1. /\ build.phase = "wait" /\ IsCompiling(build) /\ build.todo \subseteq Range(Sorted)
      /\ build.todo # {} /\ Distinct(build.compiled)
      /\ \A f \in build.todo : BaseName[f] \notin Range(build.compiled)
  BY DEF DslcClosed, BuildInv, CompileInv
<1>2. plan \in build.todo
  BY <1>1, FirstIsMember
<1>3. Range(Sorted) \subseteq Files
  BY SortedAssumption, LenProperties, ElementOfSeq DEF Range
<1>4. BaseName[plan] \in Range(BaseName) /\ plan \in Files
  BY <1>1, <1>2, <1>3, FilesAssumption
<1>5. build' = [next EXCEPT !.compiled = compiled] \/ build' = [next EXCEPT !.failures = failures]
  <2>1. \/ build' = [[build EXCEPT !.phase = "compile", !.todo = rest] EXCEPT !.compiled = Append(@, BaseName[plan])]
        \/ build' = [[build EXCEPT !.phase = "compile", !.todo = rest] EXCEPT !.failures = @ + 1]
    BY DEF DslcClosed
  <2>2. \/ build' = [next EXCEPT !.compiled = Append(@, BaseName[plan])]
        \/ build' = [next EXCEPT !.failures = @ + 1]
    BY <2>1 DEF Closed
  <2>3. next = [phase |-> "compile", todo |-> rest, compiled |-> build.compiled, failures |-> build.failures]
    BY <1>1, WithClosed
  <2>4. next.compiled = build.compiled /\ next.failures = build.failures
    BY <2>3
  <2> HIDE DEF next
  <2> QED BY <2>2, <2>4
<1> HIDE DEF plan
<1>6. next = [phase |-> "compile", todo |-> rest, compiled |-> build.compiled, failures |-> build.failures]
  BY <1>1, WithClosed
<1> HIDE DEF next, compiled, failures, rest
<1>7. IsCompiling(next) /\ next.phase = "compile" /\ next.todo = rest /\ next.compiled = build.compiled
  BY <1>6 DEF IsCompiling
<1>8. /\ IsCompiling(build') /\ build'.phase = "compile" /\ build'.todo = rest
      /\ build'.compiled = compiled \/ build'.compiled = build.compiled
  <2>1. \/ build' = [phase |-> "compile", todo |-> rest, compiled |-> compiled, failures |-> next.failures]
        \/ build' = [phase |-> "compile", todo |-> rest, compiled |-> build.compiled, failures |-> failures]
    BY <1>5, <1>7, WithCompiled
  <2> QED BY <2>1 DEF IsCompiling
<1>9. /\ Distinct(compiled) /\ Range(compiled) = Range(build.compiled) \cup {BaseName[plan]}
  BY <1>1, <1>2, <1>4, DistinctAppend DEF compiled
<1>10. /\ rest \subseteq build.todo
       /\ \A f \in rest : BaseName[f] # BaseName[plan]
  BY <1>1, <1>3, <1>4, SortedAssumption DEF rest
<1>11. CompileInv' /\ EntriesInv'
  <2>1. \A f \in rest : BaseName[f] \notin Range(compiled)
    BY <1>1, <1>9, <1>10
  <2> QED BY <1>1, <1>8, <1>9, <1>10, <2>1 DEF CompileInv, EntriesInv
<1>12. ManifestInv' /\ ChangedInv'
  BY DEF BuildInv, ManifestInv, ChangedInv, DslcClosed
<1>13. IndexInv'
  BY <1>8, IndexKept DEF BuildInv, DslcClosed, vars
<1> QED BY <1>11, <1>12, <1>13 DEF BuildInv

LEMMA CompilationCompleteKeeps ==
    ASSUME BuildInv, CompilationComplete
    PROVE  BuildInv'
<1>1. /\ build.phase = "compile" /\ Distinct(build.compiled)
      /\ changed = [index |-> changed.index, entries |-> changed.entries]
  BY DEF CompilationComplete, BuildInv, CompileInv, ChangedInv
<1> DEFINE names == Range(BaseName)
<1> HIDE DEF names
<1>2. changed' = [index |-> changed.index, entries |-> names]
  <2>1. changed' = [changed EXCEPT !.entries = names]
    BY DEF CompilationComplete, names
  <2> QED BY <1>1, <2>1
<1>3. changed'.index = changed.index /\ changed'.entries = names /\ ChangedInv'
  BY <1>2 DEF ChangedInv
<1>4. ManifestInv' /\ index' = index /\ out' = out
  BY DEF BuildInv, ManifestInv, CompilationComplete, vars
<1>5. CASE build' = [phase |-> "done", failures |-> build.failures, listed |-> None]
  <2>1. build'.phase = "done" /\ build'.listed = None
    BY <1>5
  <2>2. CompileInv' /\ EntriesInv'
    BY <2>1 DEF CompileInv, EntriesInv
  <2>3. IndexInv'
    BY <1>3, <1>4, <2>1, IndexKept DEF BuildInv
  <2> QED BY <1>3, <1>4, <2>2, <2>3 DEF BuildInv
<1>6. CASE build' = [phase |-> "index", failures |-> build.failures, compiled |-> build.compiled,
                     left |-> build.compiled, entries |-> {}]
  <2>1. build'.phase = "index" /\ build'.compiled = build.compiled /\ build'.left = build.compiled
        /\ build'.entries = {} /\ IsIndexing(build')
    BY <1>6 DEF IsIndexing
  <2>2. build.compiled \in Seq(Range(BaseName)) /\ Range(build.compiled) \subseteq names
    BY <1>1, LenProperties, ElementOfSeq DEF Distinct, Range, names
  <2>3. EntriesInv'
    BY <1>1, <1>3, <2>1, <2>2 DEF EntriesInv, True, Covered
  <2>4. CompileInv'
    BY <2>1 DEF CompileInv
  <2>5. IndexInv'
    BY <1>3, <1>4, <2>1, IndexKept DEF BuildInv
  <2> QED BY <1>3, <1>4, <2>3, <2>4, <2>5 DEF BuildInv
<1> QED BY <1>5, <1>6 DEF CompilationComplete

Took(b, l, x) == [[b EXCEPT !.left = l] EXCEPT !.entries = x]

LEMMA WithLeft ==
    ASSUME NEW b, IsIndexing(b), NEW l
    PROVE  [b EXCEPT !.left = l] =
             [phase |-> b.phase, failures |-> b.failures, compiled |-> b.compiled,
              left |-> l, entries |-> b.entries]
BY DEF IsIndexing

LEMMA WithTaken ==
    ASSUME NEW b, IsIndexing(b), NEW l, NEW x
    PROVE  Took(b, l, x) =
             [phase |-> b.phase, failures |-> b.failures, compiled |-> b.compiled,
              left |-> l, entries |-> x]
<1> DEFINE c == [b EXCEPT !.left = l]
<1>1. c = [phase |-> b.phase, failures |-> b.failures, compiled |-> b.compiled,
           left |-> l, entries |-> b.entries]
  BY WithLeft
<1> HIDE DEF c
<1>2. [c EXCEPT !.entries = x] =
        [phase |-> b.phase, failures |-> b.failures, compiled |-> b.compiled,
         left |-> l, entries |-> x]
  BY <1>1
<1> QED BY <1>2 DEF c, Took

\* The rest of a list of distinct names does not have the first.
LEMMA DistinctTail ==
    ASSUME NEW names, Distinct(names), names # <<>>
    PROVE  /\ Distinct(Tail(names)) /\ Head(names) \in Range(names)
           /\ Range(names) = Range(Tail(names)) \cup {Head(names)}
           /\ Head(names) \notin Range(Tail(names))
<1> DEFINE rest == Tail(names)
           k == Len(names)
<1>1. /\ k \in Nat /\ k # 0 /\ DOMAIN names = 1..k
      /\ rest \in Seq(Range(BaseName)) /\ DOMAIN rest = 1..(k - 1)
      /\ \A i \in 1..(k - 1) : rest[i] = names[i + 1]
      /\ Head(names) = names[1]
  BY HeadTailProperties, LenProperties DEF Distinct
<1> HIDE DEF rest, k
<1>2. 1 \in DOMAIN names /\ \A i \in DOMAIN rest : i + 1 \in DOMAIN names /\ i + 1 # 1 /\ i \in Nat
  BY <1>1
<1>3. \A i \in DOMAIN names : i = 1 \/ \E j \in DOMAIN rest : i = j + 1
  <2> SUFFICES ASSUME NEW i \in DOMAIN names, i # 1
               PROVE  i - 1 \in DOMAIN rest /\ i = (i - 1) + 1
    OBVIOUS
  <2> QED BY <1>1
<1>4. \A i, j \in DOMAIN rest : rest[i] = rest[j] => i = j
  <2> SUFFICES ASSUME NEW i \in DOMAIN rest, NEW j \in DOMAIN rest, rest[i] = rest[j] PROVE i = j
    OBVIOUS
  <2>1. names[i + 1] = names[j + 1]
    BY <1>1
  <2>2. i + 1 = j + 1
    <3>1. i + 1 \in DOMAIN names /\ j + 1 \in DOMAIN names
      BY <1>2
    <3>2. \A l, m \in DOMAIN names : names[l] = names[m] => l = m
      BY DEF Distinct
    <3> QED BY <2>1, <3>1, <3>2
  <2> QED BY <1>2, <2>2
<1>5. \A i \in DOMAIN rest : rest[i] # names[1]
  BY <1>1, <1>2 DEF Distinct
<1>6. Range(names) = Range(rest) \cup {names[1]}
  BY <1>1, <1>2, <1>3 DEF Range
<1>7. rest \in Seq(Range(BaseName)) /\ Head(names) \in Range(BaseName)
  BY <1>1, <1>2 DEF Distinct
<1>8. names[1] \notin Range(rest)
  BY <1>5 DEF Range
<1> QED BY <1>1, <1>4, <1>6, <1>7, <1>8 DEF Distinct, rest

\* The entry of an artifact has the name of its file.
LEMMA EntryName ==
    ASSUME OutInv, NEW b \in Range(BaseName), Complete(out[b])
    PROVE  IndexEntry(out[b].artifact).name = b
<1>1. OutputSound(out[b], b)
  <2>1. out[b] # Missing /\ out[b] # HalfWritten
    BY DEF Complete, Missing, HalfWritten
  <2> QED BY <2>1 DEF OutInv
<1>2. out[b].artifact.plan_name = b
  BY <1>1 DEF OutputSound
<1> QED BY <1>2 DEF IndexEntry

LEMMA IndexPlanKeeps ==
    ASSUME BuildInv, OutInv, IndexPlan
    PROVE  BuildInv'
<1> DEFINE name == Head(build.left)
           rest == Tail(build.left)
           entry == IndexEntry(out[name].artifact)
           entries == build.entries \cup {entry}
           except == changed.entries \ {name}
<1>1. /\ build.phase = "index" /\ build.left # <<>> /\ IsIndexing(build)
      /\ build.compiled \in Seq(Range(BaseName)) /\ Distinct(build.left)
      /\ Range(build.left) \subseteq Range(build.compiled)
      /\ \A e \in build.entries : e.name \in Range(build.compiled) \ Range(build.left)
      /\ True(build.entries, changed.entries)
      /\ Covered(Range(build.compiled), build.entries, changed.entries)
      /\ changed = [index |-> changed.index, entries |-> changed.entries]
  BY DEF IndexPlan, BuildInv, EntriesInv, ChangedInv
<1>2. /\ Distinct(rest) /\ name \in Range(build.left) /\ name \notin Range(rest)
      /\ Range(build.left) = Range(rest) \cup {name}
  BY <1>1, DistinctTail
<1>3. name \in Range(BaseName)
  <2>1. build.left \in Seq(Range(BaseName))
    BY <1>1 DEF Distinct
  <2>2. \A i \in DOMAIN build.left : build.left[i] \in Range(BaseName)
    BY <2>1, LenProperties, ElementOfSeq
  <2> QED BY <1>2, <2>2 DEF Range
<1>4. ManifestInv' /\ index' = index /\ out' = out
  BY DEF BuildInv, ManifestInv, IndexPlan, vars
<1>5. CASE build' = [build EXCEPT !.left = rest] /\ changed' = changed
  <2> HIDE DEF rest
  <2>1. build' = [phase |-> build.phase, failures |-> build.failures, compiled |-> build.compiled,
                  left |-> rest, entries |-> build.entries]
    BY <1>1, <1>5, WithLeft
  <2>2. build'.phase = "index" /\ build'.compiled = build.compiled /\ build'.left = rest
        /\ build'.entries = build.entries /\ IsIndexing(build')
    BY <1>1, <2>1 DEF IsIndexing
  <2>3. True(build.entries, changed.entries)'
    BY <1>1, <1>4, <1>5, <2>2 DEF True
  <2>4. EntriesInv'
    BY <1>1, <1>2, <1>5, <2>2, <2>3 DEF EntriesInv
  <2>5. CompileInv' /\ ChangedInv'
    BY <1>1, <1>5, <2>2 DEF CompileInv, ChangedInv
  <2>6. IndexInv'
    BY <1>4, <1>5, <2>2, IndexKept DEF BuildInv
  <2> QED BY <1>4, <2>4, <2>5, <2>6 DEF BuildInv
<1>6. CASE /\ Complete(out[name])
           /\ build' = Took(build, rest, entries)
           /\ changed' = [changed EXCEPT !.entries = except]
  <2>1. entry.name = name
    BY <1>3, <1>6, EntryName
  <2>2. \A e \in build.entries : e.name # name
    BY <1>1, <1>2
  <2>3. /\ \A e \in entries : e.name \in Range(build.compiled) \ Range(rest)
        /\ True(entries, except)
        /\ Covered(Range(build.compiled), entries, except)
    <3>1. \A e \in entries : e.name \in Range(build.compiled) \ Range(rest)
      BY <1>1, <1>2, <2>1
    <3>2. True(entries, except)
      BY <1>1, <1>6, <2>1, <2>2 DEF True
    <3>3. Covered(Range(build.compiled), entries, except)
      BY <1>1, <2>1 DEF Covered
    <3> QED BY <3>1, <3>2, <3>3
  <2> HIDE DEF rest, entries, except
  <2>4. build' = [phase |-> build.phase, failures |-> build.failures, compiled |-> build.compiled,
                  left |-> rest, entries |-> entries]
    BY <1>1, <1>6, WithTaken
  <2>5. build'.phase = "index" /\ build'.compiled = build.compiled /\ build'.left = rest
        /\ build'.entries = entries /\ IsIndexing(build')
    BY <1>1, <2>4 DEF IsIndexing
  <2>6. changed' = [index |-> changed.index, entries |-> except]
    BY <1>1, <1>6
  <2>7. changed'.index = changed.index /\ changed'.entries = except /\ ChangedInv'
    BY <2>6 DEF ChangedInv
  <2>8. True(build.entries, changed.entries)'
    BY <1>4, <2>3, <2>5, <2>7 DEF True
  <2>9. EntriesInv'
    BY <1>1, <1>2, <2>3, <2>5, <2>7, <2>8 DEF EntriesInv
  <2>10. CompileInv'
    BY <2>5 DEF CompileInv
  <2>11. IndexInv'
    BY <1>4, <2>5, <2>7, IndexKept DEF BuildInv
  <2> QED BY <1>4, <2>7, <2>9, <2>10, <2>11 DEF BuildInv
<1>7. \/ build' = [build EXCEPT !.left = rest] /\ changed' = changed
      \/ /\ Complete(out[name])
         /\ build' = [[build EXCEPT !.left = rest] EXCEPT !.entries = @ \cup {entry}]
         /\ changed' = [changed EXCEPT !.entries = except]
  BY DEF IndexPlan
<1>8. [[build EXCEPT !.left = rest] EXCEPT !.entries = @ \cup {entry}] = Took(build, rest, entries)
  <2> HIDE DEF rest, entry
  <2>1. [build EXCEPT !.left = rest].entries = build.entries
    <3>1. [build EXCEPT !.left = rest] =
            [phase |-> build.phase, failures |-> build.failures, compiled |-> build.compiled,
             left |-> rest, entries |-> build.entries]
      BY <1>1, WithLeft
    <3> DEFINE b == [build EXCEPT !.left = rest]
    <3> HIDE DEF b
    <3>2. b.entries = build.entries
      BY <3>1 DEF b
    <3> QED BY <3>2 DEF b
  <2> QED BY <2>1 DEF Took
<1> QED BY <1>5, <1>6, <1>7, <1>8

LEMMA WriteIndexKeeps ==
    ASSUME BuildInv, WriteIndex
    PROVE  BuildInv'
<1>1. /\ build.phase = "index" /\ build.left = <<>>
      /\ build.compiled \in Seq(Range(BaseName))
      /\ \A e \in build.entries : e.name \in Range(build.compiled) \ Range(build.left)
      /\ True(build.entries, changed.entries)
      /\ Covered(Range(build.compiled), build.entries, changed.entries)
      /\ changed = [index |-> changed.index, entries |-> changed.entries]
  BY DEF WriteIndex, BuildInv, EntriesInv, ChangedInv
<1>2. ManifestInv' /\ out' = out
  BY DEF BuildInv, ManifestInv, WriteIndex, vars
<1>3. CASE index' = Torn /\ build' = build /\ changed' = changed
  <2>1. CompileInv' /\ ChangedInv' /\ IndexInv'
    BY <1>3 DEF BuildInv, CompileInv, ChangedInv, IndexInv
  <2>2. EntriesInv'
    BY <1>2, <1>3 DEF BuildInv, EntriesInv, True
  <2> QED BY <1>2, <2>1, <2>2 DEF BuildInv
<1>4. CASE /\ index' = build.entries
           /\ build' = [phase |-> "done", failures |-> build.failures, listed |-> Range(build.compiled)]
           /\ changed' = [changed EXCEPT !.index = changed.entries]
  <2>1. build'.phase = "done" /\ build'.listed = Range(build.compiled)
    BY <1>4
  <2>2. changed' = [index |-> changed.entries, entries |-> changed.entries]
    BY <1>1, <1>4
  <2>3. changed'.index = changed.entries /\ ChangedInv'
    BY <2>2 DEF ChangedInv
  <2>4. CompileInv' /\ EntriesInv'
    BY <2>1 DEF CompileInv, EntriesInv
  <2>5. True(index, changed.index)'
    BY <1>1, <1>2, <1>4, <2>3 DEF True
  <2>6. Range(build.compiled) \subseteq Range(BaseName)
    <3>1. \A i \in DOMAIN build.compiled : build.compiled[i] \in Range(BaseName)
      BY <1>1, LenProperties, ElementOfSeq
    <3> QED BY <3>1 DEF Range
  <2>7. IndexInv'
    BY <1>1, <1>4, <2>1, <2>3, <2>5, <2>6 DEF IndexInv, Covered
  <2> QED BY <1>2, <2>3, <2>4, <2>7 DEF BuildInv
<1> QED BY <1>3, <1>4 DEF WriteIndex

\* Entries stay true when what dslc writes is noted.
LEMMA TrueKept ==
    ASSUME OutInv, NEW entries, \A e \in entries : e.name \in Range(BaseName),
           NEW except, True(entries, except), NEW more,
           \A b \in DOMAIN out : out'[b] # out[b] => b \in more
    PROVE  \A e \in entries : e.name \notin except \cup more =>
             Complete(out'[e.name]) /\ e = IndexEntry(out'[e.name].artifact)
<1> SUFFICES ASSUME NEW e \in entries, e.name \notin except \cup more
             PROVE  Complete(out'[e.name]) /\ e = IndexEntry(out'[e.name].artifact)
  OBVIOUS
<1>1. out'[e.name] = out[e.name]
  BY DEF OutInv
<1>2. Complete(out[e.name]) /\ e = IndexEntry(out[e.name].artifact)
  BY DEF True
<1> QED BY <1>1, <1>2

LEMMA DslcStepKeeps ==
    ASSUME BuildInv, OutInv, DslcStep
    PROVE  BuildInv'
<1> DEFINE written == {b \in DOMAIN out : out'[b] # out[b]}
<1>1. manifest' = manifest /\ sync' = sync /\ build' = build /\ index' = index
  BY DEF DslcStep
<1>2. changed'.index = changed.index \cup written /\ changed'.entries = changed.entries \cup written
      /\ changed' = [index |-> changed.index \cup written, entries |-> changed.entries \cup written]
  <2>1. changed = [index |-> changed.index, entries |-> changed.entries]
    BY DEF BuildInv, ChangedInv
  <2>2. changed' = [k \in DOMAIN changed |-> changed[k] \cup written]
    BY DEF DslcStep
  <2> HIDE DEF written
  <2>3. DOMAIN changed = {"index", "entries"}
    BY <2>1
  <2>4. changed'["index"] = changed["index"] \cup written
        /\ changed'["entries"] = changed["entries"] \cup written
    BY <2>2, <2>3
  <2> DEFINE i == changed["index"] \cup written
             n == changed["entries"] \cup written
  <2>5. changed' = [k \in {"index", "entries"} |-> IF k = "index" THEN i ELSE n]
    BY <2>2, <2>3
  <2> HIDE DEF i, n
  <2>6. changed' = [index |-> i, entries |-> n]
    BY <2>5
  <2> QED BY <2>4, <2>6 DEF i, n
<1>3. \A b \in DOMAIN out : out'[b] # out[b] => b \in written
  OBVIOUS
<1> HIDE DEF written
<1>4. ManifestInv' /\ CompileInv'
  BY <1>1 DEF BuildInv, ManifestInv, CompileInv
<1>5. ChangedInv'
  <2> DEFINE i == changed.index \cup written
             n == changed.entries \cup written
  <2> HIDE DEF i, n
  <2>1. changed' = [index |-> i, entries |-> n]
    BY <1>2 DEF i, n
  <2> QED BY <2>1 DEF ChangedInv
<1>6. EntriesInv'
  <2> SUFFICES ASSUME build.phase = "index" PROVE EntriesInv'
    BY <1>1 DEF EntriesInv
  <2>1. /\ IsIndexing(build)
        /\ build.compiled \in Seq(Range(BaseName)) /\ Distinct(build.left)
        /\ Range(build.left) \subseteq Range(build.compiled)
        /\ \A e \in build.entries : e.name \in Range(build.compiled) \ Range(build.left)
        /\ True(build.entries, changed.entries)
        /\ Covered(Range(build.compiled), build.entries, changed.entries)
    BY DEF BuildInv, EntriesInv
  <2>2. Range(build.compiled) \subseteq Range(BaseName)
    <3>1. \A i \in DOMAIN build.compiled : build.compiled[i] \in Range(BaseName)
      BY <2>1, LenProperties, ElementOfSeq
    <3> QED BY <3>1 DEF Range
  <2>3. True(build.entries, changed.entries)'
    <3>1. \A e \in build.entries : e.name \notin changed.entries \cup written =>
            Complete(out'[e.name]) /\ e = IndexEntry(out'[e.name].artifact)
      <4> DEFINE entries == build.entries
                 except == changed.entries
      <4>1. True(entries, except) /\ \A e \in entries : e.name \in Range(BaseName)
        BY <2>1, <2>2
      <4> HIDE DEF entries, except
      <4>2. \A e \in entries : e.name \notin except \cup written =>
              Complete(out'[e.name]) /\ e = IndexEntry(out'[e.name].artifact)
        BY <1>3, <4>1, TrueKept
      <4> QED BY <4>2 DEF entries, except
    <3> QED BY <1>1, <1>2, <3>1 DEF True
  <2>4. Covered(Range(build.compiled), build.entries, changed.entries)'
    BY <1>1, <1>2, <2>1 DEF Covered
  <2> QED BY <1>1, <2>1, <2>3, <2>4 DEF EntriesInv
<1>7. IndexInv'
  <2> SUFFICES ASSUME index \notin {None, Torn} PROVE IndexInv'
    BY <1>1 DEF IndexInv
  <2>1. True(index, changed.index)'
    <3>1. \A e \in index : e.name \notin changed.index \cup written =>
            Complete(out'[e.name]) /\ e = IndexEntry(out'[e.name].artifact)
      <4>1. True(index, changed.index) /\ \A e \in index : e.name \in Range(BaseName)
        BY DEF BuildInv, IndexInv
      <4> QED BY <1>3, <4>1, TrueKept
    <3> QED BY <1>1, <1>2, <3>1 DEF True
  <2> QED BY <1>1, <1>2, <2>1 DEF BuildInv, IndexInv, Covered
<1> QED BY <1>4, <1>5, <1>6, <1>7 DEF BuildInv

-----------------------------------------------------------------------------
(***************************************************************************)
(* Theorems.                                                               *)
(***************************************************************************)
LEMMA InitIInv == BuildInit => IInv
<1> SUFFICES ASSUME BuildInit PROVE IInv
  OBVIOUS
<1>1. /\ dslc.phase = "idle" /\ dslc.todo = <<>> /\ build.phase = "idle"
      /\ out = [b \in Range(BaseName) |-> Missing] /\ sync = None /\ index = None
      /\ manifest = None \/ manifest = Range(Sorted)
  BY DEF BuildInit, Init, Blank
<1>2. FileInv
  BY FilesAssumption DEF BuildInit, Init, FileInv
<1>3. TodoInv /\ TextInv /\ ExecuteInv /\ CapturedInv /\ WriteInv /\ OutInv
  BY <1>1 DEF TodoInv, TextInv, ExecuteInv, CapturedInv, WriteInv, OutInv, Running
<1>4. ManifestInv /\ CompileInv /\ EntriesInv /\ IndexInv
  BY <1>1 DEF ManifestInv, CompileInv, EntriesInv, IndexInv
<1>5. ChangedInv
  <2> DEFINE names == Range(BaseName)
  <2> HIDE DEF names
  <2>1. changed = [index |-> names, entries |-> names]
    BY DEF BuildInit, names
  <2> QED BY <2>1 DEF ChangedInv
<1> QED BY <1>2, <1>3, <1>4, <1>5 DEF IInv, DslcInv, BuildInv

LEMMA NextIInv == IInv /\ [BuildNext]_allVars => IInv'
<1> SUFFICES ASSUME IInv, [BuildNext]_allVars PROVE IInv'
  OBVIOUS
<1>1. DslcInv /\ BuildInv /\ OutInv
  BY DEF IInv, DslcInv
<1>2. ASSUME UNCHANGED buildVars, out' = out PROVE BuildInv'
  <2>1. /\ manifest' = manifest /\ build' = build /\ index' = index /\ changed' = changed
        /\ sync' = None \/ sync' \subseteq Range(Sorted)
    BY <1>1, <1>2 DEF buildVars, BuildInv, ManifestInv
  <2> QED BY <1>1, <1>2, <2>1, BuildStutters
<1>3. CASE UNCHANGED allVars
  <2>1. UNCHANGED buildVars /\ file' = file /\ out' = out /\ dslc' = dslc /\ seen' = seen
    BY <1>3 DEF allVars, vars
  <2> QED BY <1>1, <1>2, <2>1, DslcStutters DEF IInv
<1>4. ASSUME NEW batch \in Batches, Start(batch), UNCHANGED buildVars PROVE IInv'
  BY <1>1, <1>2, <1>4, StartKeeps DEF IInv, Start
<1>5. ASSUME NEW f \in Files, NEW v \in Drafts[f], Edit(f, v), UNCHANGED buildVars PROVE IInv'
  BY <1>1, <1>2, <1>5, EditKeeps DEF IInv, Edit
<1>6. CASE Kill /\ UNCHANGED buildVars
  BY <1>1, <1>2, <1>6, StopKeeps DEF IInv, Kill
<1>7. CASE FindPlanFiles
  <2>1. BuildInv'
    BY <1>1, <1>7, BuildStutters DEF FindPlanFiles
  <2> QED BY <1>1, <1>7, <2>1, DslcStutters DEF IInv, FindPlanFiles
<1>8. CASE LoadManifest
  BY <1>1, <1>8, LoadManifestKeeps, DslcStutters DEF IInv, LoadManifest
<1>9. CASE KillBuild
  BY <1>1, <1>9, KillBuildKeeps, DslcStutters DEF IInv, KillBuild
<1>10. CASE DslcStep
  BY <1>1, <1>10, DslcStepKeeps, CompilePlanKeeps DEF IInv, DslcStep
<1>11. CASE WriteManifest
  <2>1. BuildInv'
    BY <1>1, <1>11, BuildStutters DEF WriteManifest, vars
  <2> QED BY <1>1, <1>11, <2>1, DslcStutters DEF IInv, WriteManifest, vars
<1>12. CASE SpawnDslc
  <2>1. <<First(build.todo)>> \in Batches
    <3>1. build.todo \subseteq Range(Sorted) /\ build.todo # {}
      BY <1>1, <1>12 DEF SpawnDslc, BuildInv, CompileInv
    <3>2. \A i \in DOMAIN Sorted : Sorted[i] \in Files
      BY SortedAssumption, LenProperties, ElementOfSeq
    <3>3. First(build.todo) \in Files
      BY <3>1, <3>2, FirstIsMember DEF Range
    <3> QED BY <3>3, SortedAssumption
  <2>2. DslcInv'
    BY <1>1, <1>12, <2>1, StartKeeps DEF SpawnDslc
  <2> QED BY <1>1, <1>12, <2>2, SpawnDslcKeeps DEF IInv
<1>13. CASE DslcClosed
  BY <1>1, <1>13, DslcClosedKeeps, DslcStutters DEF IInv, DslcClosed, vars
<1>14. CASE CompilationComplete
  BY <1>1, <1>14, CompilationCompleteKeeps, DslcStutters DEF IInv, CompilationComplete, vars
<1>15. CASE IndexPlan
  BY <1>1, <1>15, IndexPlanKeeps, DslcStutters DEF IInv, IndexPlan, vars
<1>16. CASE WriteIndex
  BY <1>1, <1>16, WriteIndexKeeps, DslcStutters DEF IInv, WriteIndex, vars
<1> QED BY <1>3, <1>4, <1>5, <1>6, <1>7, <1>8, <1>9, <1>10, <1>11, <1>12, <1>13, <1>14, <1>15, <1>16
        DEF BuildNext, Environment

\* The inductive invariant of dslc, sync_manifest and build_all_plans.
THEOREM Invariance == BuildSpec => []IInv
BY InitIInv, NextIInv, PTL DEF BuildSpec

\* Every artifact dslc leaves on disk is wired as its plan was written and no reference
\* to an expression or predicate dangles, for all texts and all histories of edits,
\* failures, kills and builds.
THEOREM DslWired == BuildSpec => []WiredAsWritten
<1>1. IInv => WiredAsWritten
  <2> SUFFICES ASSUME IInv, NEW b \in Artifacts PROVE WiredOutput(out[b])
    BY DEF WiredAsWritten, WiredOutput
  <2>1. b \in Range(BaseName) /\ Complete(out[b]) /\ OutInv
    BY DEF IInv, DslcInv, OutInv, Artifacts
  <2>2. OutputSound(out[b], b)
    BY <2>1 DEF OutInv, Complete, Missing, HalfWritten
  <2> QED BY <2>2, SoundIsWired
<1> QED BY <1>1, Invariance, PTL

\* index.json is true: an entry carries the digests of the artifact on disk unless dslc
\* wrote it after the index was made, and a finished build lists what it compiled.
THEOREM IndexIsTrue == BuildSpec => []IndexTrue
<1>1. IInv => IndexTrue
  <2> SUFFICES ASSUME IInv, index \notin {None, Torn} PROVE IndexTrue
    BY DEF IndexTrue
  <2>1. True(index, changed.index)
    BY DEF IInv, BuildInv, IndexInv
  <2>2. ASSUME build.phase = "done", build.listed # None, changed.index \cap build.listed = {}
        PROVE  {e.name : e \in index} = build.listed
    <3>1. /\ \A e \in index : e.name \in build.listed
          /\ Covered(build.listed, index, changed.index)
      BY <2>2 DEF IInv, BuildInv, IndexInv
    <3>2. \A n \in build.listed : \E e \in index : e.name = n
      BY <2>2, <3>1 DEF Covered
    <3> QED BY <3>1, <3>2
  <2> QED BY <2>1, <2>2 DEF IndexTrue, True
<1> QED BY <1>1, Invariance, PTL

-----------------------------------------------------------------------------
(***************************************************************************)
(* dslc refines its promise.                                               *)
(***************************************************************************)
AbsOut == [b \in DOMAIN out |-> OutputText(out[b])]
AbsStatus == IF Running THEN "running" ELSE dslc.phase

LEMMA TextOfOutput ==
    ASSUME NEW o, NEW b
    PROVE  /\ OutputText(Missing) = None /\ OutputText(HalfWritten) = Torn
           /\ OutputSound(o, b) => OutputText(o) = o.of
<1>1. OutputText(Missing) = None /\ OutputText(HalfWritten) = Torn
  BY DEF OutputText, Missing, HalfWritten
<1>2. ASSUME OutputSound(o, b) PROVE OutputText(o) = o.of
  <2>1. o.state = "complete"
    BY <1>2 DEF OutputSound, Output
  <2>2. Represents(o)
    BY <1>2, SoundRepresents
  <2> QED BY <2>1, <2>2 DEF OutputText
<1> QED BY <1>1, <1>2

LEMMA InitRefines == BuildInit => Promise!Init
<1> SUFFICES ASSUME BuildInit PROVE Promise!Init
  OBVIOUS
<1>1. /\ dslc.phase = "idle" /\ dslc.todo = <<>> /\ seen = {}
      /\ out = [b \in Range(BaseName) |-> Missing]
  BY DEF BuildInit, Init, Blank
<1>2. DOMAIN file = Files
  BY InitIInv DEF IInv, DslcInv, FileInv
<1>3. Range(BaseName) = {BaseName[f] : f \in Files}
  BY FilesAssumption DEF Range
<1>4. AbsOut = [o \in {BaseName[f] : f \in Files} |-> None]
  BY <1>1, <1>3, TextOfOutput DEF AbsOut
<1>5. AbsStatus = "idle"
  BY <1>1 DEF AbsStatus, Running
<1> QED BY <1>1, <1>2, <1>4, <1>5 DEF Promise!Init, AbsOut, AbsStatus

LEMMA StopRefines ==
    ASSUME Running, NEW how \in {"failed", "killed"}, dslc' = Blank(how, <<>>), seen' = {},
           file' = file, out' = out
    PROVE  Promise!Next
<1>1. dslc'.phase = how /\ dslc'.todo = <<>>
  BY DEF Blank
<1>2. AbsStatus = "running" /\ AbsStatus' = how /\ AbsOut' = AbsOut
  BY <1>1 DEF AbsStatus, AbsOut, Running
<1>3. Promise!Stop(how)
  BY <1>1, <1>2 DEF Promise!Stop, AbsStatus, AbsOut
<1> QED BY <1>3 DEF Promise!Next

LEMMA StartRefines ==
    ASSUME NEW batch \in Batches, Start(batch)
    PROVE  Promise!Next
<1>1. dslc'.phase = "read" /\ dslc'.todo = batch
  BY DEF Blank, Start
<1>2. AbsStatus # "running" /\ AbsStatus' = "running" /\ AbsOut' = AbsOut
  <2>1. AbsStatus' = "running"
    BY <1>1 DEF AbsStatus, Running
  <2>2. AbsOut' = AbsOut
    BY DEF AbsOut, Start
  <2> QED BY <2>1, <2>2 DEF AbsStatus, Start, Running
<1>3. Promise!Run(batch)
  BY <1>1, <1>2 DEF Promise!Run, AbsStatus, AbsOut, Start
<1> QED BY <1>3 DEF Promise!Next

LEMMA EditRefines ==
    ASSUME FileInv, NEW f \in Files, NEW v \in Drafts[f], Edit(f, v)
    PROVE  Promise!Next
<1>1. DOMAIN file' = Files /\ file'[f] = v /\ \A g \in Files \ {f} : file'[g] = file[g]
  BY DEF Edit, FileInv
<1>2. AbsStatus' = AbsStatus /\ AbsOut' = AbsOut /\ dslc'.todo = dslc.todo
  BY DEF AbsStatus, AbsOut, Edit, Running
<1>3. AbsStatus = "running" <=> Running
  BY DEF AbsStatus, Running
<1>4. seen' = IF AbsStatus = "running" /\ f = Head(dslc.todo) THEN seen \cup {file'[f]} ELSE seen
  BY <1>1, <1>3 DEF Edit, Current
<1>5. Promise!Edit(f)
  BY <1>1, <1>2, <1>4 DEF Promise!Edit, AbsStatus, AbsOut
<1> QED BY <1>5 DEF Promise!Next

\* Steps that dslc's promise does not speak of.
LEMMA QuietRefines ==
    ASSUME file' = file, out' = out, seen' = seen, dslc'.todo = dslc.todo, AbsStatus' = AbsStatus
    PROVE  UNCHANGED Promise!vars
<1>1. AbsOut' = AbsOut
  BY DEF AbsOut
<1> QED BY <1>1 DEF Promise!vars, AbsStatus, AbsOut

LEMMA BecomesRefines ==
    ASSUME Running, NEW d, Becomes(d), d.todo = dslc.todo,
           d.phase \notin {"idle", "ok", "failed", "killed"}
    PROVE  [Promise!Next]_(Promise!vars)
<1>1. dslc' = d /\ file' = file /\ out' = out /\ seen' = seen
  BY DEF Becomes
<1>2. AbsStatus' = AbsStatus
  BY <1>1 DEF AbsStatus, Running
<1>3. UNCHANGED Promise!vars
  BY <1>1, <1>2, QuietRefines
<1> QED BY <1>3

LEMMA FailRefines ==
    ASSUME Running, Fail
    PROVE  [Promise!Next]_(Promise!vars)
BY StopRefines DEF Fail

LEMMA MergeRefines ==
    ASSUME DslcInv, Merge
    PROVE  [Promise!Next]_(Promise!vars)
<1> DEFINE a == MergeExtractedPreds(MergeExtractedExprs(dslc.captured))
           name == BaseName[Current]
<1> HIDE DEF a
<1>1. Running /\ dslc.phase = "merge"
  BY DEF Merge, Running
<1>2. CASE Fail
  BY <1>1, <1>2, FailRefines
<1>3. CASE /\ a.plan_name = name
           /\ out' = [out EXCEPT ![a.plan_name] = HalfWritten]
           /\ dslc' = [phase |-> "write", todo |-> dslc.todo, output |-> Output(a, dslc.code)]
           /\ UNCHANGED <<file, seen, left>>
  <2>1. dslc'.phase = "write" /\ dslc'.todo = dslc.todo
    BY <1>3
  <2>2. AbsStatus = "running" /\ AbsStatus' = "running"
    BY <1>1, <2>1 DEF AbsStatus, Running
  <2>3. AbsOut' = [AbsOut EXCEPT ![BaseName[Head(dslc.todo)]] = Torn]
    <3>1. out' = [out EXCEPT ![BaseName[Head(dslc.todo)]] = HalfWritten]
      BY <1>3 DEF Current
    <3> QED BY <3>1, TextOfOutput DEF AbsOut
  <2>4. Promise!Tear
    BY <1>3, <2>1, <2>2, <2>3 DEF Promise!Tear, AbsStatus, AbsOut
  <2> QED BY <2>4 DEF Promise!Next
<1> QED BY <1>2, <1>3 DEF Merge, a

LEMMA WrittenRefines ==
    ASSUME DslcInv, Written
    PROVE  [Promise!Next]_(Promise!vars)
<1> DEFINE name == BaseName[Head(dslc.todo)]
           rest == Tail(dslc.todo)
           text == dslc.output.of
<1>1. Running /\ dslc.phase = "write"
  BY DEF Written, Running
<1>2. OutputSound(dslc.output, name) /\ text \in seen /\ out[name] = HalfWritten
  BY <1>1 DEF DslcInv, WriteInv, Current
<1>3. name \in DOMAIN out
  BY <1>1, CurrentFile, FilesAssumption DEF DslcInv, OutInv, Current
<1>4. AbsStatus = "running" /\ AbsOut[name] = Torn
  BY <1>1, <1>2, <1>3, TextOfOutput DEF AbsStatus, AbsOut
<1>5. AbsOut' = [AbsOut EXCEPT ![name] = text]
  <2>1. out' = [out EXCEPT ![name] = dslc.output]
    BY DEF Written, Current
  <2>2. OutputText(dslc.output) = text
    BY <1>2, TextOfOutput
  <2> QED BY <2>1, <2>2 DEF AbsOut
<1>6. dslc'.todo = rest /\ dslc'.phase = (IF rest = <<>> THEN "ok" ELSE "read")
  BY DEF Written, Blank
<1>7. IF rest = <<>> THEN AbsStatus' = "ok" /\ seen' = {}
      ELSE AbsStatus' = AbsStatus /\ seen' = {file[Head(rest)]}
  BY <1>4, <1>6 DEF AbsStatus, Running, Written
<1>8. file' = file
  BY DEF Written
<1>9. Promise!Replace(text)
  BY <1>4, <1>5, <1>6, <1>7, <1>8 DEF Promise!Replace, AbsStatus, AbsOut
<1> QED BY <1>2, <1>9 DEF Promise!Next

LEMMA CompilePlanRefines ==
    ASSUME DslcInv, CompilePlan
    PROVE  [Promise!Next]_(Promise!vars)
<1>1. CASE Read
  <2>1. Running
    BY <1>1 DEF Read, Running
  <2> QED BY <1>1, <2>1, FailRefines, BecomesRefines DEF Read
<1>2. CASE ExtractExpressions
  <2>1. Running
    BY <1>2 DEF ExtractExpressions, Running
  <2>2. Fail \/ \E d : Becomes(d) /\ d.phase = "bundle" /\ d.todo = dslc.todo
    BY <1>2 DEF ExtractExpressions
  <2> QED BY <2>1, <2>2, FailRefines, BecomesRefines
<1>3. CASE BundlePlan
  <2>1. Running
    BY <1>3 DEF BundlePlan, Running
  <2>2. Fail \/ \E d : Becomes(d) /\ d.phase = "execute" /\ d.todo = dslc.todo
    BY <1>3 DEF BundlePlan
  <2> QED BY <2>1, <2>2, FailRefines, BecomesRefines
<1>4. ASSUME NEW r, NEW caught, Executing, Return(r, caught)
      PROVE  [Promise!Next]_(Promise!vars)
  <2> DEFINE c == r.ctx
             h == Append(dslc.handles, r.node)
  <2>1. Running /\ IsRun(dslc) /\ dslc.phase = "execute"
    BY <1>4 DEF Executing, Running, DslcInv, TextInv
  <2>2. Fail \/ Becomes([dslc EXCEPT !.ctx = c, !.handles = h])
    BY <1>4 DEF Return
  <2> HIDE DEF c, h
  <2>3. [dslc EXCEPT !.ctx = c, !.handles = h] =
          [phase |-> dslc.phase, todo |-> dslc.todo, code |-> dslc.code, exprs |-> dslc.exprs,
           preds |-> dslc.preds, static |-> dslc.static, build |-> dslc.build, ctx |-> c,
           handles |-> h, emitCount |-> dslc.emitCount, captured |-> dslc.captured]
    BY <2>1, WithStep
  <2>4. Fail \/ \E d : Becomes(d) /\ d.phase = "execute" /\ d.todo = dslc.todo
    BY <2>1, <2>2, <2>3
  <2> QED BY <2>1, <2>4, FailRefines, BecomesRefines
<1>5. CASE CallStep
  BY <1>4, <1>5 DEF CallStep
<1>6. CASE RequireStep
  BY <1>4, <1>6 DEF RequireStep
<1>7. CASE DefinePlan
  <2> DEFINE b == dslc.build + 1
             m == dslc.emitCount + 1
             none == <<>>
             a == Finalize(dslc.ctx, SetOf(Build.result), Build.name)
             d == Emitted(dslc, b, EmptyCtx, none, m, a)
  <2>1. Running /\ IsRun(dslc) /\ dslc.phase = "execute"
    BY <1>7 DEF DefinePlan, Running, DslcInv, TextInv
  <2>2. Fail \/ Becomes(d)
    BY <1>7 DEF DefinePlan, Emitted
  <2> HIDE DEF a, b, m, none
  <2>3. d = [phase |-> dslc.phase, todo |-> dslc.todo, code |-> dslc.code, exprs |-> dslc.exprs,
             preds |-> dslc.preds, static |-> dslc.static, build |-> b, ctx |-> EmptyCtx,
             handles |-> none, emitCount |-> m, captured |-> a]
    BY <2>1, WithEmit
  <2> HIDE DEF d
  <2>4. d.phase = "execute" /\ d.todo = dslc.todo
    BY <2>1, <2>3
  <2> QED BY <2>1, <2>2, <2>4, FailRefines, BecomesRefines
<1>8. ASSUME NEW p \in {"validate", "merge"}, dslc.phase \in {"execute", "validate"},
             Fail \/ Becomes([dslc EXCEPT !.phase = p])
      PROVE  [Promise!Next]_(Promise!vars)
  <2>1. Running /\ IsRun(dslc)
    BY <1>8 DEF Running, DslcInv, TextInv
  <2>2. [dslc EXCEPT !.phase = p] =
          [phase |-> p, todo |-> dslc.todo, code |-> dslc.code, exprs |-> dslc.exprs,
           preds |-> dslc.preds, static |-> dslc.static, build |-> dslc.build, ctx |-> dslc.ctx,
           handles |-> dslc.handles, emitCount |-> dslc.emitCount, captured |-> dslc.captured]
    BY <2>1, WithPhase
  <2>3. Fail \/ \E d : Becomes(d) /\ d.phase = p /\ d.todo = dslc.todo
    BY <1>8, <2>2
  <2> QED BY <2>1, <2>3, FailRefines, BecomesRefines
<1>9. CASE ExecutePlan
  BY <1>8, <1>9 DEF ExecutePlan
<1>10. CASE Validate
  BY <1>8, <1>10 DEF Validate
<1>11. CASE WriteFails
  <2>1. Running
    BY <1>11 DEF WriteFails, Running
  <2> QED BY <1>11, <2>1, FailRefines DEF WriteFails
<1> QED BY <1>1, <1>2, <1>3, <1>5, <1>6, <1>7, <1>9, <1>10, <1>11, MergeRefines, WrittenRefines
        DEF CompilePlan

LEMMA NextRefines == IInv /\ [BuildNext]_allVars => [Promise!Next]_(Promise!vars)
<1> SUFFICES ASSUME IInv, [BuildNext]_allVars PROVE [Promise!Next]_(Promise!vars)
  OBVIOUS
<1>1. DslcInv /\ FileInv
  BY DEF IInv, DslcInv
<1>2. ASSUME file' = file, out' = out, dslc' = dslc, seen' = seen
      PROVE  UNCHANGED Promise!vars
  <2>1. AbsStatus' = AbsStatus
    BY <1>2 DEF AbsStatus, Running
  <2> QED BY <1>2, <2>1, QuietRefines
<1>3. CASE \/ UNCHANGED allVars \/ FindPlanFiles \/ LoadManifest \/ KillBuild \/ WriteManifest
           \/ DslcClosed \/ CompilationComplete \/ IndexPlan \/ WriteIndex
  <2>1. file' = file /\ out' = out /\ dslc' = dslc /\ seen' = seen
    BY <1>3 DEF allVars, vars, FindPlanFiles, LoadManifest, KillBuild, WriteManifest, DslcClosed,
                CompilationComplete, IndexPlan, WriteIndex
  <2> QED BY <1>2, <2>1
<1>4. ASSUME NEW batch \in Batches, Start(batch) PROVE Promise!Next
  BY <1>4, StartRefines
<1>5. ASSUME NEW f \in Files, NEW v \in Drafts[f], Edit(f, v) PROVE Promise!Next
  BY <1>1, <1>5, EditRefines
<1>6. CASE Kill
  BY <1>6, StopRefines DEF Kill
<1>7. CASE DslcStep
  BY <1>1, <1>7, CompilePlanRefines DEF DslcStep
<1>8. CASE SpawnDslc
  <2>1. build.todo \subseteq Range(Sorted) /\ build.todo # {}
    BY <1>8 DEF SpawnDslc, IInv, BuildInv, CompileInv
  <2>2. \A i \in DOMAIN Sorted : Sorted[i] \in Files
    BY SortedAssumption, LenProperties, ElementOfSeq
  <2>3. First(build.todo) \in Files
    BY <2>1, <2>2, FirstIsMember DEF Range
  <2>4. <<First(build.todo)>> \in Batches
    BY <2>3, SortedAssumption
  <2> QED BY <1>8, <2>4, StartRefines DEF SpawnDslc
<1> QED BY <1>3, <1>4, <1>5, <1>6, <1>7, <1>8 DEF BuildNext, Environment

\* dslc keeps its promise although plan files change under it, it is killed, writes fail
\* and build_all_plans starts it: an output file is untouched, torn, or the compilation of
\* one text the plan file held meanwhile, and nothing is written after a plan that fails.
THEOREM DslcRefinement == BuildSpec => ImplementsDslc
BY InitRefines, NextRefines, Invariance, PTL DEF BuildSpec, ImplementsDslc, Promise!Spec

=============================================================================
