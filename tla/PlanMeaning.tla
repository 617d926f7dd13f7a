----------------------------- MODULE PlanMeaning -----------------------------
(***************************************************************************)
(* dslc with the two languages it compiles: what the engine computes from  *)
(* an artifact against what the author of the plan wrote.                  *)
(***************************************************************************)
EXTENDS PlanBuild, ExprCompiler

CONSTANT
  Rows       \* the rows an expression is evaluated on

\* The two languages, by the type of the option: natural syntax, and the builders.
NaturalTree(type, tree) == IF type = "expr_id" THEN IsNaturalExpr(tree) ELSE IsNaturalPred(tree)

CompiledTree(type, tree) == IF type = "expr_id" THEN CompileExpr(tree) ELSE CompilePred(tree)

BuiltTree(type, tree) == IF type = "expr_id" THEN BuildExpr(tree) ELSE BuildPred(tree)

-----------------------------------------------------------------------------

\* The tree written at the call that made a node.
TreeAt(entry, node, option) == Text[entry.of].sites[StepOf(Text[entry.of], node).site].opts[option].tree

\* On every row, the engine computes from the artifact on disk what the author wrote
\* at the call: natural syntax and builders alike, whatever number the expression was
\* given when it was taken out, merged and remapped.
MeaningKept ==
  \A b \in Artifacts :
    LET a == out[b].artifact
    IN \A i \in DOMAIN a.nodes :
         LET node == a.nodes[i]
         IN /\ node.op = VmImpl.op =>
                 \A row \in Rows : EvalExpr(a.exprs[node.params.expr_id.n], row)
                                     = ValueOf(TreeAt(out[b], node, "expr"), row)
            /\ node.op = FilterImpl.op =>
                 \A row \in Rows : EvalPred(a.preds[node.params.pred_id.n], row)
                                     = Holds(TreeAt(out[b], node, "pred"), row)

=============================================================================
