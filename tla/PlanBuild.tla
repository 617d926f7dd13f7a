------------------------------ MODULE PlanBuild ------------------------------
(***************************************************************************)
(* The tools around dslc: sync_manifest lists the plan files in            *)
(* manifest.json, build_all_plans runs dslc on each plan of the manifest   *)
(* and writes index.json, the list from which the plan store and the       *)
(* visualizer find plans.  There is at most one dslc at a time; it can be  *)
(* one that build_all_plans started or one somebody started by hand        *)
(* between two of those, and it goes on when build_all_plans is killed.    *)
(***************************************************************************)
EXTENDS PlanCompiler

CONSTANT
  Sorted       \* the plan files in lexicographic order

\* dslc takes any single file.  No two plan files share a base name, as in the
\* repository's flat directories of plans: with two, index.json would list one
\* output file twice, read at two moments.
ASSUME SortedAssumption ==
  /\ Sorted \in Seq(Files)
  /\ \A f \in Files : <<f>> \in Batches
  /\ \A f, g \in Files : BaseName[f] = BaseName[g] => f = g

VARIABLES
  manifest,    \* None or the plan files it lists, always in lexicographic order
  sync,        \* None or the files sync_manifest found
  build,       \* build_all_plans
  index,       \* None, Torn or the set of entries of index.json
  changed      \* history: the output files not as they were when the entries of
               \* index.json (field index), or those being made (entries), were taken

buildVars == <<manifest, sync, build, index, changed>>
allVars == <<vars, buildVars>>

BuildInit ==
  /\ Init
  /\ manifest \in {None, Range(Sorted)}
  /\ sync = None
  /\ build = [phase |-> "idle"]
  /\ index = None
  /\ changed = [index |-> Range(BaseName), entries |-> Range(BaseName)]

-----------------------------------------------------------------------------
(* sync_manifest.                                                          *)

FindPlanFiles ==
  /\ sync = None
  /\ sync' = {f \in Range(Sorted) : file[f] # None}
  /\ UNCHANGED <<file, out, dslc, seen, manifest, build, index, changed>>

\* An identical manifest is not written, which leaves the same one.  The file, written in
\* place, is one step: a reader of half of it would end in a parse error.
WriteManifest ==
  /\ sync # None
  /\ manifest' = sync /\ sync' = None
  /\ UNCHANGED <<vars, build, index, changed>>

-----------------------------------------------------------------------------
(* build_all_plans.                                                        *)

BuildBusy == build.phase \notin {"idle", "done", "fatal", "killed"}

\* The plan that comes first.
First(plans) ==
  LET position(f) == CHOOSE i \in DOMAIN Sorted : Sorted[i] = f
  IN CHOOSE f \in plans : \A g \in plans : position(f) <= position(g)

LoadManifest ==
  /\ ~ BuildBusy
  /\ build' = IF manifest = None THEN [phase |-> "fatal"]
              ELSE [phase |-> "compile", todo |-> manifest, compiled |-> <<>>, failures |-> 0]
  /\ UNCHANGED <<file, out, dslc, seen, manifest, sync, index, changed>>

SpawnDslc ==
  /\ build.phase = "compile" /\ build.todo # {}
  /\ Start(<<First(build.todo)>>)
  /\ build' = [build EXCEPT !.phase = "wait"]
  /\ UNCHANGED <<left, manifest, sync, index, changed>>

DslcClosed ==
  /\ build.phase = "wait" /\ ~ Running
  /\ LET plan == First(build.todo)
         next == [build EXCEPT !.phase = "compile", !.todo = @ \ {plan}]
     IN build' = IF dslc.phase = "ok"
                 THEN [next EXCEPT !.compiled = Append(@, BaseName[plan])]
                 ELSE [next EXCEPT !.failures = @ + 1]
  /\ UNCHANGED <<vars, manifest, sync, index, changed>>

\* Mutant: the index lists every artifact in the directory.
CompilationCompleteOfAll ==
  /\ build.phase = "compile" /\ build.todo = {}
  /\ build' = IF build.compiled = <<>>
              THEN [phase |-> "done", failures |-> build.failures, listed |-> None]
              ELSE [phase |-> "index", failures |-> build.failures, compiled |-> build.compiled,
                    left |-> [i \in DOMAIN Sorted |-> BaseName[Sorted[i]]], entries |-> {}]
  /\ changed' = [changed EXCEPT !.entries = Range(BaseName)]
  /\ UNCHANGED <<vars, manifest, sync, index>>

\* Without a compiled plan the index is left as it is.
CompilationComplete ==
  /\ build.phase = "compile" /\ build.todo = {}
  /\ build' = IF build.compiled = <<>>
              THEN [phase |-> "done", failures |-> build.failures, listed |-> None]
              ELSE [phase |-> "index", failures |-> build.failures, compiled |-> build.compiled,
                    left |-> build.compiled, entries |-> {}]
  /\ changed' = [changed EXCEPT !.entries = Range(BaseName)]
  /\ UNCHANGED <<vars, manifest, sync, index>>

\* The digests of an artifact stand for its content, those of capabilities for theirs.
IndexEntry(a) == [name |-> a.plan_name, digest |-> a,
                  capabilities_digest |-> IF a.caps = {} /\ DOMAIN a.ext = {} THEN None
                                          ELSE [caps |-> a.caps, ext |-> a.ext]]

\* A file that cannot be read or parsed is left out with a warning.
IndexPlan ==
  /\ build.phase = "index" /\ build.left # <<>>
  /\ LET name == Head(build.left)
         rest == [build EXCEPT !.left = Tail(@)]
     IN IF ~ Complete(out[name]) THEN build' = rest /\ changed' = changed
        ELSE /\ build' = [rest EXCEPT !.entries = @ \cup {IndexEntry(out[name].artifact)}]
             /\ changed' = [changed EXCEPT !.entries = @ \ {name}]
  /\ UNCHANGED <<vars, manifest, sync, index>>

WriteIndex ==
  /\ build.phase = "index" /\ build.left = <<>>
  /\ IF index = Torn
     THEN /\ index' = build.entries
          /\ build' = [phase |-> "done", failures |-> build.failures, listed |-> Range(build.compiled)]
          /\ changed' = [changed EXCEPT !.index = changed.entries]
     ELSE index' = Torn /\ UNCHANGED <<build, changed>>
  /\ UNCHANGED <<vars, manifest, sync>>

KillBuild ==
  /\ BuildBusy
  /\ build' = [phase |-> "killed"]
  /\ UNCHANGED <<file, out, dslc, seen, manifest, sync, index, changed>>

-----------------------------------------------------------------------------
\* A step of dslc, whoever started it.
DslcStep ==
  /\ CompilePlan
  /\ LET written == {b \in DOMAIN out : out'[b] # out[b]}
     IN changed' = [k \in DOMAIN changed |-> changed[k] \cup written]
  /\ UNCHANGED <<manifest, sync, build, index>>

Environment ==
  /\ Act
  /\ \/ /\ \/ build.phase # "wait" /\ \E batch \in Batches : Start(batch)
           \/ \E f \in Files : \E v \in Drafts[f] : Edit(f, v)
           \/ Kill
        /\ UNCHANGED buildVars
     \/ FindPlanFiles
     \/ LoadManifest
     \/ KillBuild

BuildNext ==
  \/ Environment \/ DslcStep \/ WriteManifest
  \/ SpawnDslc \/ DslcClosed \/ CompilationComplete \/ IndexPlan \/ WriteIndex

BuildSpec == BuildInit /\ [][BuildNext]_allVars

-----------------------------------------------------------------------------

\* Whatever failed, was killed or ran in between, an entry of index.json carries the
\* digests of the artifact on disk unless dslc wrote that artifact after the index was
\* made; and a build that wrote the index listed what it compiled and nothing else.
IndexTrue ==
  index \notin {None, Torn} =>
    /\ \A e \in index : e.name \notin changed.index =>
         /\ Complete(out[e.name])
         /\ e = IndexEntry(out[e.name].artifact)
    /\ build.phase = "done" /\ build.listed # None /\ changed.index \cap build.listed = {} =>
         {e.name : e \in index} = build.listed

=============================================================================
