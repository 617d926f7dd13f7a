---------------------------- MODULE PlanCompiler ----------------------------
(***************************************************************************)
(* dslc: the command that compiles plan files to artifacts (cli.ts).  For  *)
(* each file it takes the natural expressions out of the text              *)
(* (ast-extractor.ts), bundles the rewritten text, or the file itself when  *)
(* nothing was taken out (bundler.ts), runs the bundle in a sandbox         *)
(* (executor.ts) where the plan builds its nodes call by call, validates   *)
(* what it emitted, merges the expressions back and writes the artifact.   *)
(*                                                                         *)
(* Text[v] is the content of version v of a plan file, a record:           *)
(*   sites    the calls of tasks that the text holds, each with its task,  *)
(*            its options (an expression or predicate is [t |-> "tree",    *)
(*            tree |-> ...]), its extensions, and whether dslc can see it: *)
(*            an option written in place, a receiver that is no property   *)
(*            access, in the plan file and not in a fragment;              *)
(*   visited  the order in which the syntax tree meets the sites (of        *)
(*            a.vm(x).vm(y) the second call comes first);                  *)
(*   imports  who imports what;                                            *)
(*   builds   one record per definePlan: the name, the steps its function  *)
(*            executes (a site can execute more than once) and the step     *)
(*            whose set it returns.                                        *)
(***************************************************************************)
EXTENDS PlanBuilder

CONSTANTS
  Files,               \* the plan files
  BaseName,            \* file -> its name without the directory
  Text,                \* version -> its text
  Sessions,            \* what the plan files hold at first, and how often the environment acts
  Drafts,              \* file -> the versions an edit can leave in it
  Batches,             \* the lists of files dslc is started with
  ValidName(_),        \* does a plan name match [A-Za-z0-9_]+ ?
  IsNatural(_, _),     \* (type of the option, tree): is it taken out?
  Compiled(_, _),      \* its intermediate form, or NoForm
  Built(_, _),         \* the form a builder makes of it, or NoForm
  NoForm,
  None, Torn

\* Step k can use what step i returned: an earlier call.
Usable(steps, i, k) == i \in 1..k - 1 /\ steps[i].do = "call"

\* One definePlan: each call has a receiver, unless the task is a source, and a
\* right side of this context or, written 0, of another one; what it returns is a
\* set of its own (another definePlan would be a second emission, which is refused).
IsBuild(plan, sites) ==
  LET steps == plan.steps
  IN /\ steps \in Seq(Range(steps))
     /\ \A k \in DOMAIN steps : steps[k].do = "call" =>
          /\ steps[k].site \in DOMAIN sites
          /\ ~ sites[steps[k].site].task.source => Usable(steps, steps[k].input, k)
          /\ steps[k].rhs = 0 \/ Usable(steps, steps[k].rhs, k)
     /\ Usable(steps, plan.result, Len(steps) + 1)

\* What TypeScript accepts; placeholders are dslc's own.
ASSUME TextAssumption ==
  \A v \in DOMAIN Text :
    LET text == Text[v]
    IN /\ \A s \in DOMAIN text.sites :
            /\ text.sites[s].task \in Tasks
            /\ \A n \in DOMAIN text.sites[s].opts : text.sites[s].opts[n].t # "placeholder"
       /\ text.builds \in Seq(Range(text.builds))
       /\ \A b \in DOMAIN text.builds : IsBuild(text.builds[b], text.sites)

ASSUME FilesAssumption ==
  /\ BaseName \in [Files -> Range(BaseName)]
  /\ \A session \in Sessions : session.files \in [Files -> DOMAIN Text \cup {None}]
  /\ \A f \in Files : Drafts[f] \subseteq DOMAIN Text \cup {None}
  /\ Batches \subseteq Seq(Files) \ {<<>>}

VARIABLES
  file,    \* file -> its version, None if it does not exist
  out,     \* base name -> the output file: missing, torn or complete
  dslc,    \* the process
  seen,    \* history: the versions the current file held since it is compiled
  left     \* how often the environment still acts

vars == <<file, out, dslc, seen, left>>

Running == dslc.phase \notin {"idle", "ok", "failed", "killed"}

\* Output files.  "of" is a history field: the version the bundle was made of.
Missing == [state |-> "missing"]
HalfWritten == [state |-> "torn"]
Output(a, version) == [state |-> "complete", artifact |-> a, of |-> version]
Complete(o) == o.state = "complete"

\* A process between two plans.
Blank(phase, todo) == [phase |-> phase, todo |-> todo]

Init ==
  /\ \E session \in Sessions : file = session.files /\ left = session.acts
  /\ out = [b \in Range(BaseName) |-> Missing]
  /\ dslc = Blank("idle", <<>>)
  /\ seen = {}

Current == Head(dslc.todo)

-----------------------------------------------------------------------------
(* The environment: someone starts dslc, writes or deletes a plan file, or  *)
(* kills dslc.                                                             *)

\* An act of the environment, within the bound.
Act == left > 0 /\ left' = left - 1

Start(batch) ==
  /\ ~ Running
  /\ dslc' = Blank("read", batch)
  /\ seen' = {file[Head(batch)]}
  /\ UNCHANGED <<file, out>>

Edit(f, v) ==
  /\ file' = [file EXCEPT ![f] = v]
  /\ seen' = IF Running /\ f = Current THEN seen \cup {v} ELSE seen
  /\ UNCHANGED <<out, dslc>>

Kill ==
  /\ Running
  /\ dslc' = Blank("killed", <<>>)
  /\ seen' = {}
  /\ UNCHANGED <<file, out>>

-----------------------------------------------------------------------------
(* compilePlan.                                                            *)

\* The next state of the process; the rest stays.
Becomes(d) == dslc' = d /\ UNCHANGED <<file, out, seen, left>>

\* Mutant: the run goes on with the next plan.
FailAndGoOn ==
  LET rest == IF dslc.todo = <<>> THEN <<>> ELSE Tail(dslc.todo)
  IN /\ dslc' = Blank(IF rest = <<>> THEN "failed" ELSE "read", rest)
     /\ seen' = IF rest = <<>> THEN {} ELSE {file[Head(rest)]}
     /\ UNCHANGED <<file, out, left>>

Fail == dslc' = Blank("failed", <<>>) /\ seen' = {} /\ UNCHANGED <<file, out, left>>

Read ==
  /\ dslc.phase = "read"
  /\ IF file[Current] = None THEN Fail
     ELSE Becomes([phase |-> "extract", todo |-> dslc.todo, text |-> file[Current]])

\* The option of a site that holds a tree, if it has one.
TreeOption(site) == {p \in TreeParams(site.task) :
                       p.ts \in DOMAIN site.opts /\ site.opts[p.ts].t = "tree"}

TreeOf(site, p) == site.opts[p.ts].tree

\* The visits at which a tree of this type is taken out.
Extracted(text, type) ==
  {i \in DOMAIN text.visited :
     LET site == text.sites[text.visited[i]]
     IN /\ site.visible
        /\ \E p \in TreeOption(site) : p.type = type /\ IsNatural(type, TreeOf(site, p))}

\* The counters count from 0: the number of what is taken out at visit i.
Number(text, type, i) == Cardinality({j \in Extracted(text, type) : j < i})

\* The number and the form of what was taken out.
StaticForms(text, type) ==
  LET visit(n) == CHOOSE i \in Extracted(text, type) : Number(text, type, i) = n
      form(site) == Compiled(type, TreeOf(site, CHOOSE p \in TreeOption(site) : TRUE))
  IN [ n \in {Number(text, type, i) : i \in Extracted(text, type)} |->
         form(text.sites[text.visited[visit(n)]]) ]

\* The sites in whose place there is a number now.
StaticSites(text) ==
  LET visits == Extracted(text, "expr_id") \cup Extracted(text, "pred_id")
      visit(s) == CHOOSE i \in visits : text.visited[i] = s
  IN [ s \in {text.visited[i] : i \in visits} |->
         IF visit(s) \in Extracted(text, "expr_id") THEN Number(text, "expr_id", visit(s))
         ELSE Number(text, "pred_id", visit(s)) ]

ExtractExpressions ==
  /\ dslc.phase = "extract"
  /\ LET exprs == StaticForms(Text[dslc.text], "expr_id")
         preds == StaticForms(Text[dslc.text], "pred_id")
     IN IF NoForm \in Range(exprs) \cup Range(preds) THEN Fail
        ELSE Becomes([phase |-> "bundle", todo |-> dslc.todo, text |-> dslc.text,
                      exprs |-> exprs, preds |-> preds, static |-> StaticSites(Text[dslc.text])])

\* Plans, and the fragments that live beside them, import packages and fragments only.
IsAllowedImport(i) ==
  i.importer \in {"plan", "plans_fragment"} => i.path \in {"package", "fragment"}

(***************************************************************************)
(* The rewritten text is bundled if there is one; otherwise esbuild reads  *)
(* the file again.                                                         *)
(***************************************************************************)
BundlePlan ==
  /\ dslc.phase = "bundle"
  /\ LET code == IF DOMAIN dslc.static # {} THEN dslc.text ELSE file[Current]
     IN IF code = None THEN Fail
        ELSE IF \E i \in Text[code].imports : ~ IsAllowedImport(i) THEN Fail
        ELSE Becomes([phase |-> "execute", todo |-> dslc.todo, code |-> code,
                      exprs |-> dslc.exprs, preds |-> dslc.preds, static |-> dslc.static,
                      build |-> 1, ctx |-> EmptyCtx, handles |-> <<>>,
                      emitCount |-> 0, captured |-> None])

-----------------------------------------------------------------------------
(* The sandbox.  handles[i] is the node of the set that step i of the      *)
(* current definePlan returned.                                            *)

Build == Text[dslc.code].builds[dslc.build]

StepNow == Build.steps[Len(dslc.handles) + 1]

Executing ==
  /\ dslc.phase = "execute"
  /\ dslc.build <= Len(Text[dslc.code].builds)
  /\ Len(dslc.handles) < Len(Build.steps)

\* The set a step hands on; a step of another context is written 0.
SetOf(i) == [t |-> "set", own |-> i # 0,
             node |-> IF i = 0 THEN 0 ELSE dslc.handles[i]]

(***************************************************************************)
(* What an option evaluates to: a tree that was taken out is a placeholder, *)
(* a builder makes its form or throws, and natural syntax that was not     *)
(* taken out is some JavaScript value.                                     *)
(***************************************************************************)
OptionValue(s, p, v) ==
  IF v.t # "tree" THEN v
  ELSE CASE s \in DOMAIN dslc.static -> [t |-> "placeholder", id |-> dslc.static[s]]
         [] IsNatural(p.type, v.tree) -> [t |-> "plain"]
         [] OTHER -> LET ir == Built(p.type, v.tree)
                     IN IF ir = NoForm THEN Undefined ELSE [t |-> "ir", ir |-> ir]

Options(step) ==
  LET site == Text[dslc.code].sites[step.site]
      value(n) == LET ps == {p \in site.task.params : p.ts = n}
                  IN IF ps = {} THEN site.opts[n]
                     ELSE OptionValue(step.site, CHOOSE p \in ps : TRUE, site.opts[n])
      names == DOMAIN site.opts
  IN IF site.task = ConcatImpl
     THEN [ n \in names \cup {"rhs"} |-> IF n = "rhs" THEN SetOf(step.rhs) ELSE value(n) ]
     ELSE [ n \in names |-> value(n) ]

\* The step is done: with a node, or with an exception the plan catches or not.
Return(r, caught) ==
  IF r.node = Thrown /\ ~ caught THEN Fail
  ELSE Becomes([dslc EXCEPT !.ctx = r.ctx, !.handles = Append(@, r.node)])

CallStep ==
  /\ Executing /\ StepNow.do = "call"
  /\ LET step  == StepNow
         site  == Text[dslc.code].sites[step.site]
         input == IF site.task.source THEN 0 ELSE dslc.handles[step.input]
         lost  == Thrown \in {input, SetOf(step.rhs).node}
     IN Return(IF lost THEN [ctx |-> dslc.ctx, node |-> Thrown]
               ELSE CallTask(dslc.ctx, site.task, input, Options(step), site.ext,
                             Len(dslc.handles) + 1),
               step.caught)

RequireStep ==
  /\ Executing /\ StepNow.do = "require"
  /\ Return(RequireCapability(dslc.ctx, StepNow.cap, StepNow.payload), StepNow.caught)

\* definePlan: the set the function returned becomes the output; undefined.getNodeId() throws.
DefinePlan ==
  /\ dslc.phase = "execute"
  /\ dslc.build <= Len(Text[dslc.code].builds)
  /\ Len(dslc.handles) = Len(Build.steps)
  /\ IF SetOf(Build.result).node = Thrown THEN Fail
     ELSE Becomes([dslc EXCEPT !.build = @ + 1, !.ctx = EmptyCtx, !.handles = <<>>,
                     !.emitCount = @ + 1,
                     !.captured = Finalize(dslc.ctx, SetOf(Build.result), Build.name)])

\* The artifact leaves the sandbox as JSON.  Of what JSON cannot carry a payload has here
\* an array with a hole in it.  Plans that call __emitPlan themselves are left out.
Serializable(artifact) ==
  "hole" \notin Range(artifact.ext) \cup UNION {Range(artifact.nodes[i].ext) : i \in DOMAIN artifact.nodes}

ExecutePlan ==
  /\ dslc.phase = "execute"
  /\ dslc.build > Len(Text[dslc.code].builds)
  /\ IF dslc.emitCount = 1 /\ Serializable(dslc.captured)
     THEN Becomes([dslc EXCEPT !.phase = "validate"]) ELSE Fail

-----------------------------------------------------------------------------
(* After the sandbox.                                                      *)

Validate ==
  /\ dslc.phase = "validate"
  /\ IF ValidateArtifact(dslc.captured) THEN Becomes([dslc EXCEPT !.phase = "merge"]) ELSE Fail

\* The table with the forms appended, numbered on from its size.
Merged(table, forms) ==
  LET size == Cardinality(DOMAIN table)
      new  == { size + n : n \in DOMAIN forms }
  IN [ n \in DOMAIN table \cup new |-> IF n \in new THEN forms[n - size] ELSE table[n] ]

\* Mutant: a static number is used as it stands.
RemappedInPlace(nodes, name, table, forms) ==
  [ i \in DOMAIN nodes |->
      IF name \in DOMAIN nodes[i].params
      THEN [nodes[i] EXCEPT !.params[name].static = FALSE] ELSE nodes[i] ]

\* A static number that was taken out follows its form; others stay as they are.
Remapped(nodes, name, table, forms) ==
  LET remap(id) == IF id.static /\ id.n \in DOMAIN forms
                   THEN [id EXCEPT !.static = FALSE, !.n = Cardinality(DOMAIN table) + @]
                   ELSE id
  IN [ i \in DOMAIN nodes |->
         IF name \in DOMAIN nodes[i].params
         THEN [nodes[i] EXCEPT !.params[name] = remap(@)] ELSE nodes[i] ]

MergeExtractedExprs(a) ==
  [a EXCEPT !.exprs = Merged(@, dslc.exprs),
            !.nodes = Remapped(@, "expr_id", a.exprs, dslc.exprs)]

MergeExtractedPreds(a) ==
  [a EXCEPT !.preds = Merged(@, dslc.preds),
            !.nodes = Remapped(@, "pred_id", a.preds, dslc.preds)]

(***************************************************************************)
(* The merge, the check of the name and the start of the write.            *)
(***************************************************************************)
Merge ==
  /\ dslc.phase = "merge"
  /\ LET a == MergeExtractedPreds(MergeExtractedExprs(dslc.captured))
     IN IF a.plan_name = BaseName[Current] /\ ValidName(a.plan_name)
        THEN /\ out' = [out EXCEPT ![a.plan_name] = HalfWritten]
             /\ dslc' = [phase |-> "write", todo |-> dslc.todo, output |-> Output(a, dslc.code)]
             /\ UNCHANGED <<file, seen, left>>
        ELSE Fail

Written ==
  /\ dslc.phase = "write"
  /\ out' = [out EXCEPT ![BaseName[Current]] = dslc.output]
  /\ LET rest == Tail(dslc.todo)
     IN /\ dslc' = Blank(IF rest = <<>> THEN "ok" ELSE "read", rest)
        /\ seen' = IF rest = <<>> THEN {} ELSE {file[Head(rest)]}
  /\ UNCHANGED <<file, left>>

\* The disk is full, or the directory cannot be made.
WriteFails == dslc.phase = "write" /\ Fail

CompilePlan ==
  \/ Read \/ ExtractExpressions \/ BundlePlan \/ CallStep \/ RequireStep \/ DefinePlan
  \/ ExecutePlan \/ Validate \/ Merge \/ Written \/ WriteFails

Next ==
  \/ \E batch \in Batches : Act /\ Start(batch)
  \/ \E f \in Files : \E v \in Drafts[f] : Act /\ Edit(f, v)
  \/ Act /\ Kill
  \/ CompilePlan

Spec == Init /\ [][Next]_vars

-----------------------------------------------------------------------------
(* Properties.                                                             *)

Artifacts == {b \in DOMAIN out : Complete(out[b])}

\* The step of the plan that made a node.
StepOf(text, node) == text.builds[1].steps[node.at]

NodeWithId(artifact, id) == {i \in DOMAIN artifact.nodes : artifact.nodes[i].node_id = id}

\* The node with this number was made by step k of the plan.
MadeBy(artifact, id, k) ==
  \E i \in DOMAIN artifact.nodes :
    /\ NodeWithId(artifact, id) = {i}
    /\ artifact.nodes[i].at = k

\* In an artifact on disk every node reads from the node that its author's handle
\* came from, the right side of a concat included, the output is the set the plan
\* returned, and no reference to an expression or predicate dangles.
WiredAsWritten ==
  \A b \in Artifacts :
    LET a == out[b].artifact
        text == Text[out[b].of]
    IN /\ \A i \in DOMAIN a.nodes :
            LET node == a.nodes[i]
                step == StepOf(text, node)
            IN /\ \A j \in DOMAIN node.inputs : MadeBy(a, node.inputs[j], step.input)
               /\ node.op = ConcatImpl.op => MadeBy(a, node.params.rhs.node, step.rhs)
               /\ node.op = VmImpl.op =>
                    ~ node.params.expr_id.static /\ node.params.expr_id.n \in DOMAIN a.exprs
               /\ node.op = FilterImpl.op =>
                    ~ node.params.pred_id.static /\ node.params.pred_id.n \in DOMAIN a.preds
       /\ MadeBy(a, a.outputs[1], text.builds[1].result)

\* The text an artifact on disk is the compilation of: the steps of its only
\* definePlan, executed in order, except those whose exception the plan caught.
Represents(entry) ==
  LET a == entry.artifact
      text == Text[entry.of]
      b == text.builds[1]
  IN /\ Len(text.builds) = 1 /\ b.name = a.plan_name
     /\ \A k \in DOMAIN b.steps :
          b.steps[k].do = "call" /\ ~ b.steps[k].caught =>
            \E i \in DOMAIN a.nodes :
              a.nodes[i].at = k /\ a.nodes[i].op = text.sites[b.steps[k].site].task.op
     /\ \A i, j \in DOMAIN a.nodes : i < j => a.nodes[i].at < a.nodes[j].at

OutputText(o) ==
  CASE o.state = "missing" -> None
    [] o.state = "torn" -> Torn
    [] o.state = "complete" -> IF Represents(o) THEN o.of ELSE "no text"

Promise == INSTANCE Dslc WITH
  OutputOf <- BaseName,
  out <- [b \in DOMAIN out |-> OutputText(out[b])],
  status <- IF Running THEN "running" ELSE dslc.phase,
  todo <- dslc.todo

\* dslc keeps its promise although the plan file changes under it: each output file
\* is untouched, torn, or the compilation of one text the plan file held while it
\* was compiled, and nothing is written after the first plan that fails.
ImplementsDslc == Promise!Spec

=============================================================================
