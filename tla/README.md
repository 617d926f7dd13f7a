# A TLA+ model of dag-executor

dag-executor runs ranking plans: directed acyclic graphs of tasks over columnar
row sets. Plans are written in a TypeScript DSL, compiled to JSON artifacts and
executed by a C++ engine, sequentially, on thread pools, or as coroutines on a
libuv event loop. A code generator keeps the tables that DSL and engine share in
step, and a browser application shows plans and edits them. This directory holds TLA+ modules for the parts of it whose
correctness depends on the order of things, the TLC configurations that check
them on small instances, and TLAPS proofs of what matters most for every
instance. `PROJECT.json` lists the components, the runs, the mutants that show
each property can fail, the source lines each definition stands for, the
hazards and the theorems.

## 1. Inventory

Paths are below `src/`.

| Component | State | Operations | Talks to |
|---|---|---|---|
| async DAG scheduler (`engine/src/async_dag_scheduler.cpp`) | countdowns, ready queue, results, two counters, first error, the main coroutine's handle, a done flag with mutex and condition variable | `execute_plan_async_blocking`, `spawn_ready_nodes`, `run_node_async`, `on_node_success`, the final suspension | event loop (`Post`), deadline awaitables, tasks |
| event loop (`engine/src/event_loop.cpp`) | `state_`, the queue of callbacks, `async_` handle, `loop_thread_`, exit signal | `Start`, `Stop`, `Post`, `OnAsync`, `DrainQueue`, `DoStop`, destructor | libuv, every asynchronous part |
| thread pools (`engine/include/thread_pool.h`, `engine/src/cpu_pool.cpp`) | `tasks_`, `stop_`, `in_flight_` | `submit`, worker loop, `wait_idle`, destructor | parallel scheduler, CPU offload |
| parallel DAG scheduler (`engine/src/dag_scheduler.cpp`) | countdowns, ready queue, `inflight`, results, first error under one mutex | `execute_plan_parallel`, `run_node_job` | thread pools |
| deadline awaitables (`engine/include/cpu_offload.h`) | `State` shared by a completion and a timer | `OffloadCpu`, `OffloadCpuWithTimeout`, `AsyncWithTimeout` | event loop, CPU pool |
| async Redis client and limiter (`engine/src/async_redis_client.cpp`, `engine/include/async_inflight_limiter.h`) | connection, per command a `CommandState`, timer and callback ref; permits and waiters | `HGet`, `LRange`, `HGetAll`, replies, timeouts, connect, disconnect, destructor | event loop, hiredis |
| plan validation and sequential executor (`engine/src/executor.cpp`) | node index, in-degrees, topological order, results | `validate_plan`, `execute_plan_sequential` | registries, tasks |
| plan parsing, task / capability / endpoint / parameter registries | tables, filled once | lookups and refusals | executor |
| synchronous limiter, Redis and IO clients | semaphores and clients per endpoint | acquire, release, `getRedis` | parallel scheduler's IO tasks |
| row sets, column batches, tasks, output contracts, schema deltas | immutable columns, selection, permutation | filter, take, sort, concat, vm, the Redis sources | schedulers |
| expression and predicate evaluation (`engine/include/expr_eval.h`, `pred_eval.h`) | a thread-local regex cache | `eval_expr`, `eval_pred` | tasks |
| writes effects (`engine/src/writes_effect.cpp`, `task_registry.cpp`) | what a task declares, a node's validated parameters, what it is said to write | parameter validation, evaluation of an effect to exact keys, "may" or unknown | validation, tasks |
| DSL runtime (`dsl/packages/runtime`, `dsl/packages/generated/task-impl.ts`) | `PlanCtx`: counters, nodes, expression and predicate tables, capabilities | the task methods, `E`, `Pred`, `requireCapability`, `finalize`, `validateArtifact` | compiler, engine by the artifact |
| DSL compiler `dslc` (`dsl/packages/compiler`) | what was extracted, the bundle, the captured artifact, the output file | extract, bundle, execute, validate, merge, write | runtime, the plan files |
| build tools (`dsl/tools`) | `manifest.json`, `index.json` | `sync_manifest`, `build_all_plans` | dslc, visualizer by the index |
| registry code generation (`dsl/src/codegen*`) | nine TOML registries, 29 generated files | parse, generate, write or `--check` | DSL and engine by the files |
| drivers (`engine/src/main.cpp`) | loop, clients, pool | one request or a benchmark, then shutdown | all of the engine |
| visualizer store and pages (`tools/visualizer/src/state/store.ts`, `App.tsx`, `PlanSelector.tsx`, `RegistryViewer.tsx`) | plan, source, registries, selections, loading and error flags, `isHandlingPopState`, browser history, open panels | loads, navigation, Back and Forward, reload, selections | HTTP |
| visualizer editor (`EditorPanel.tsx`, `DockLayout.tsx`, `preferences.ts`, `vite.config.ts`) | text, saved plans, autosave timer, dialogs; panels and layouts per mode; local storage; temporary files of the compile server | edit, save, rename, delete, reset, compile; open, close, arrange panels | store, dslc |

### How the engine's parts meet

A request is parsed and validated and handed to one of three executors. The
sequential one calls the tasks in topological order. The parallel one gives each
ready node to a CPU or an IO pool and sleeps until a job wakes it. The
asynchronous one posts one coroutine to the event loop; that coroutine starts one
coroutine per ready node, a node awaits the CPU pool through
`OffloadCpuWithTimeout` or an asynchronous task through `AsyncWithTimeout`, whose
body may await Redis commands. Everything asynchronous meets on the loop thread:
completions of the pool come back by `Post`, replies and timers are callbacks of
libuv. When the request is over the driver waits for the CPU pool, stops the loop
and destroys the clients.

### How the TypeScript parts meet

`codegen` reads the registries and writes the tables for the DSL, the editor and
the engine; each carries a digest of the registry it was made from. A plan is a
program: `dslc` first takes the expressions written in natural syntax out of its
text and leaves numbered placeholders, then runs the rewritten program in a
sandbox, where each call adds a node to a `PlanCtx`, and merges the two sources
of expressions into one table. `build_all_plans` runs `dslc` for each plan of the
manifest and writes an index of what was compiled. The visualizer reads index,
artifacts, sources and registries over HTTP; its development server runs `dslc`
on the text in the editor.

### What is hard about it

* **Re-entrancy.** Most of the asynchronous code is single-threaded, and
  resuming a coroutine is a call. A node that does not suspend completes, and
  starts its successors, inside the loop that started it; a permit that is
  released resumes its next owner, whose command may fail and release again,
  before the first release returns; `Stop` in a callback drains the queue inside
  the drain that runs the callback.
* **Races of completion and deadline**, where the loser finds freed state unless
  it is told in time.
* **Shutdown.** `Post`, `Stop`, the destructor and the pool run on different
  threads; a callback is either refused or run, and nothing may refer to what has
  been destroyed.
* **Condition variables**: predicates evaluated before, and notifications sent
  after, the mutex is released.
* **Failure of one of several**: the first error stops new work, but what has
  been started refers to state that must outlive it.
* **Counting**: an input listed twice is two dependencies everywhere or nowhere.
* **Numbering.** An expression is numbered when it is extracted, when a builder
  adds one and when both are merged, while the calls of a plan are visited in one
  order and executed in another, some of them twice and some never.
* **Answers out of order.** Every `await` in the visualizer is a point at which the
  user, an earlier answer, the Back button or a timer may act, on state that the
  code after the `await` believes it knows.
* **Files without locks.** Compiler, build tools, code generator and authors write
  the same files; each write can be interrupted, and each file can change between
  two reads.
* **One meaning in two languages**: tokens, payload schemas and effects are printed
  or implemented once in TypeScript and once in C++.

The hazards of `PROJECT.json` give each of these its line.

### What makes each part correct

* Schedulers: a node begins only after its inputs and NodeRefs have results;
  counters are exact; nothing is started after an error; a clean end means every
  node has a result; state outlives the coroutines or jobs; the caller returns.
* Event loop: `Post` tells the truth; the loop thread does not outlive the
  object; handles are closed once; calls return.
* Pools: an accepted task runs, also if the pool is destroyed; an idle pool is
  empty.
* Awaitables: the first of completion and deadline wins, the coroutine is resumed
  once, no timer outlives its state.
* Redis client: permits are exact and handed over in order, no pointer is stale,
  every command returns.
* Validation: exactly the well-formed plans are accepted.
* DSL: the artifact's nodes are wired as the author's handles were, and the engine
  computes from it what the author wrote; each output is one compilation of one text.
* Index: it lists what was compiled, with the digests of what is on disk.
* Writes: what validation says a node writes is true of its runs.
* Code generation: a run that ends well leaves files that say what the registries
  say; files that carry one digest agree, whatever their language.
* Visualizer: address, page and history agree; a busy indicator ends; what is
  selected is on the page.
* Editor: what looks saved is stored; a saved plan goes only by consent; a layout
  belongs to one mode; a compilation is answered with its own plan.

## 2. Modules

| Module | Stands for |
|---|---|
| `PlanGraph` | plans as the schedulers see them; the assumptions on them |
| `DagExecution` | the abstract promise of any scheduler |
| `AsyncDagScheduler` | the asynchronous scheduler; refines `DagExecution` |
| `DagScheduler` | the parallel scheduler |
| `Executor` | validation and sequential execution |
| `EventLoop` | `Start`, `Stop`, `Post`, the loop thread, the destructor |
| `ThreadPool` | `submit`, workers, `wait_idle`, the destructor |
| `LoopThread` | the loop as the awaitables see it: queue, nested drains, timers, stop |
| `CpuOffload`, `AsyncTimeout` | the two awaitables, each over `LoopThread` |
| `Awaitables` | both on one loop, at the same time |
| `AsyncRedisClient` | client, limiter, commands, connection and driver |
| `PlanStore` | the visualizer's store: what each operation and each answer does to it |
| `Visualizer` | the pages, the browser's history and the requests in flight, over `PlanStore` |
| `EditorPanel` | text, saved plans, dialogs, the autosave timer, local storage |
| `DockLayout` | panels, modes and stored layouts, with the dock's delayed reports |
| `CompileApi` | the development server's `/api/compile` |
| `EditorSession` | dock, editor and server together |
| `ExprCompiler` | natural syntax and builders, their intermediate form, the engine's evaluators, and a reference meaning |
| `PlanBuilder` | `PlanCtx`, the task methods, `validateArtifact` |
| `Dslc` | the abstract promise of a run of dslc |
| `PlanCompiler` | dslc; refines `Dslc` |
| `PlanBuild` | manifest, `build_all_plans`, index, over `PlanCompiler` |
| `PlanMeaning` | the composition of `PlanBuild` with `ExprCompiler` |
| `WritesEffect` | over `Executor`: from a task's declaration and a node's parameters to the keys validation says it writes, and those it writes |
| `Registries` | what the parsers refuse and what the generators print |
| `RegistryCodegen` | the processes that write and check the files, over `Registries` |
| `..._proofs` | the theorems about `AsyncDagScheduler` (with `EventLoop`), `DagScheduler` (with `ThreadPool`), `Executor`, `AsyncRedisClient`, `Visualizer`, `EditorSession`, `PlanBuild` and `RegistryCodegen`, with their inductive invariants |
| `MC...` | values of the constants for TLC, where a configuration cannot write them itself (those of the schedulers are `SmallPlans` of `PlanGraph`) |

Definitions keep the names of the code where there is one. Two conventions recur:

* A step ends where somebody else can act: at the release of a mutex, at an access
  of an atomic, at the return to the loop. A critical section is one step.
* A definition whose comment begins with "Mutant:" is a plausible bug in the
  definition after it. It is not part of the specification; `PROJECT.json` names
  the property that must fail when it takes the definition's place.

**`AsyncDagScheduler`.** The loop thread's nested activations are `stack`, and
only its top moves. `CallerPost`, `CallerCheck` are the blocked thread;
`SpawnEnter`, `SpawnNext`, `SpawnLeave` are `spawn_ready_nodes`, run by the main
coroutine or, from `on_node_success`, by a node; `NodeCompletes`, `NodeFails`,
`NodeSuspends`, `NodeResumesOk`, `NodeResumesFailed` are a task's body;
`NodeExit` is the end of `run_node_async`, which posts the resumption of the main
coroutine when it is the last. `FinalSignal` and `FinalNotify` are the two halves
of `final_suspend`. A timeout of a node is a resumption with an error.

**`DagScheduler`.** `MainTop` is one turn of the outer loop under the mutex,
`MainSubmit` and `MainRelock` the unlocked window around `submit`; `JobStart`,
`JobSucceeds`, `JobFails`, `JobNotify` are `run_node_job`; a job that has succeeded
notifies in a step of its own, without the mutex. The pool runs what it is given once,
as `ThreadPool` shows.

**`EventLoop`.** `loop_thread_` is a plain `std::thread` that `StartAssign` assigns
after the thread runs, so others may see it before or after. `frames` is the stack
of `DrainQueue` activations. libuv is external: `uv_async_send` marks the handle,
and `uv_run` calls `OnAsync` for a marked open handle.

**`ThreadPool`.** `WaitCheck` and `WaitSleep` are the two halves of
`idle_cv_.wait`; between them the waiter holds the mutex, but `WorkerCount` and
`WorkerNotify` do not need it.

**`LoopThread`, `CpuOffload`, `AsyncTimeout`.** `todo` flattens the nested drains
into what the loop thread is going to run. `OnTimeout`'s branch for a race that
has been decided is unreachable, since the completion stops the timer; that is
what `AwaitsSound` says. `OffloadCpu` without a deadline is not modelled: the
engine only calls the version with one, whose path without a deadline
`CpuOffload` contains.

**`AsyncRedisClient`.** `stack` holds the calls that have not returned. `Suspend`
and `Execute` take a command to the limiter, `Issue` to hiredis; `OnReply` and
`OnTimeout` race; `Release` hands a permit over by pushing the next owner's call;
`Teardown` is hiredis answering what is on the wire. hiredis is external: it
answers in order, and what it does with a context it has freed (after a refused
connection `ctx_` is still set) is a choice between refusing a command and never
answering it. A behaviour ends at `Destroy`: what is touched afterwards is freed.

**`Executor`.** One step per node checked, sorted or run. Sources enter Kahn's
queue in any order, since the code iterates over an unordered map. Whether a
node's task, parameters, expressions and endpoint are in order is one bit, which
`WritesEffect` ties to the parameters the node has.

**`PlanStore`, `Visualizer`.** The store's operations are functions from store to
store, since JavaScript runs one handler at a time; the actions of `Visualizer` are
handlers up to their first `await` (`ClickPlan`, `EditPlan`, `DropFile`, `PopState`,
`BrowseRegistries`, ...) and what follows an answer (`PlanAnswer`,
`RegistriesAnswer`, ...). `pending` holds the requests in flight, each with who
awaits it (`caller`); answers come in any order and each may fail. `handling` is
`isHandlingPopState`. What React does after a handler is part of the action
(`Commit`, `AutoOpen`). `interrupted` is a history variable: a second popstate, or a
user who left, while one was awaited.

**`EditorPanel`, `DockLayout`, `CompileApi`, `EditorSession`.** A text is its plan's
name and a revision, or empty, which the storage gives back as `DEFAULT_PLAN`.
`editor.timer` is the pending 500 ms timer, `storage` the local storage; `Edited` is the
effect that restarts the timer, `Autosave` its callback, `Start` what a panel that is
mounted reads. A write to the storage is done or swallowed, each key by itself
(`SaveCode`, `SavePlans`, `SaveBoth`, `Stores`); the history `lost` holds the keys whose
last write was swallowed, `takenOver` says that a text was taken over after the last
selection, and `touched` holds the saved plans that the user has typed into, or that the
panel has started with another text for. `Kept` are the plans of earlier sessions. `dock.changed` is a change of layout that the dock has not reported yet;
`LayoutChanged` reports it under the mode of that moment. `ResetLayout` clears the dock,
so that an editor panel starts again. `CompileApi` keeps the
shared temporary file per plan name and the private output directory per request,
and `dslc` as two steps, reading and building; a body that is no JSON (the panel sends
none) and a temporary directory that cannot be written are left out. `EditorSession`
mounts the editor exactly while the dock shows its panel. Links with a text in their hash
are left out.

**`ExprCompiler`.** A tree of TypeScript syntax is a record; `CompileExpr` and
`CompilePred` are the compilers of natural syntax, `BuildExpr` and `BuildPred` the
builders, `EvalExpr` and `EvalPred` the engine's evaluators. `ValueOf` and `Holds` say
what a tree means without the intermediate form. Numbers are integers, whether a string
matches a pattern is a fact of the row.

**`PlanBuilder`, `PlanCompiler`, `PlanBuild`, `PlanMeaning`.** A plan's text is the calls
it holds (`sites`), the order in which the syntax tree meets them, what it imports, and
the steps its functions execute; so that a site can run twice or never, in another
order than it is visited. `dslc` is one process record whose `phase` is where
`compilePlan` is; authors edit, delete and kill between any two phases. An output file
is missing, torn (while it is written, and for good if that fails) or complete. The
manifest is a set: its list is always the sorted one, and `First` is the plan whose turn
it is. No two plan files share a base name (`SortedAssumption`), as in the repository's
directories of plans. Node numbers are numbers, not strings put together. `PlanMeaning`
gives `PlanCompiler` the compilers of `ExprCompiler`. Of the artifact's way through JSON
only the refusal of a payload with a hole is kept, plans that call `__emitPlan` themselves
are left out, and the manifest is written in one step, while the artifacts and the index,
which others read for a long time, can be torn.

**`Registries`, `RegistryCodegen`.** A registry file is a sequence of
records with one flag for "every field has its type". A generated file is what its reader
can tell from it: tokens, option types, schemas, the digest. All of it is kept, also what
no property names, because `--check` compares whole files: what a generator leaves out of
a file is a difference nobody is told of. A digest is the content it is
made of. `ReadRegistry`, `ParseEndpoints`, `Generate`, `Open`, `Write`, `Compare`, `Finish`
are `main`; two processes, edits and kills interleave with them. `writeFileSync` is two
steps: `Open` empties the file, and `Write` puts the text there, over what another process
may have written in between, so that a longer one keeps its end (`Torn`).

**`WritesEffect`.** `Executor` with what a node's task is: its spec and the parameters
given. `ValidateNode` is `CheckNode` with what `validate_plan` then finds out about the
node: `ParamsValid` and `ValidatedParams` are `validate_params`, `BuildParamBindings` keeps
the parameters an effect may use and narrows keys to `Width` values (2^32 in the code),
`EvalWrites` is `eval_writes`. `RunNode` is `Run` with the reference: a task that keeps to
its declaration, over the same validated parameters (`MayWrite`; `vm`, the one task of the
repository with an effect, takes its key as that definition does, and throws on one that
is not positive). `WritesAssumption`: a node that passes the checks has a registered task
(`Registered`) and parameters that fit. Where the declaration says nothing (a key parameter without a value, a
switch without a case for the value, a switch without cases) the task may write anything.
The evaluator of the DSL (`writes-effect.ts`) is the same code over a field `keyIds`; it
is called by tests only, and nothing of the program hands it the effects of `tasks.json`,
whose field is `key_ids`.

## 3. Runs

| Run | Specification | Checks | Shows |
|---|---|---|---|
| `async_scheduler` | `FairSpec` | `InputsPresent`, `CountsExact`, `StateOutlivesNodes`, `ImplementsDagExecution`, `CallerReturns` | the scheduler keeps its counters, its state and its promise under every nesting, failure, deadline and stop of the loop; the caller returns unless the loop is stopped |
| `async_notify_after_free` | `Spec` | `FrameAliveAtNotify` | **violated**, see below |
| `event_loop` | `LoopFairSpec` | `LoopSound`, `AcceptedRan`, `StopIsFinal`, `CallsReturn` | two starters, two stoppers, a callback that stops and one that posts, start-up failures: nothing accepted is lost, nothing refused runs, no call hangs |
| `thread_pool` | `PoolFairSpec` | `DrainSound`, `IdleMeansDrained`, `AcceptedRuns` | two workers and a task that submits a task: accepted tasks run, also against the destructor, and an idle pool is empty |
| `parallel_scheduler` | `FairSpec` | `JobsSound`, `EndsComplete`, `CallEnds` | jobs in any order, failures in any window: inputs are there, the limit holds, the call ends, and only when every job has left its last critical section, but for its notification |
| `awaitables` | `FairSpec` | `AwaitsSound`, `DecidedOnce`, `AwaitsReturn` | races of completion, deadline and shutdown decide once, resume once and leave no timer behind |
| `executor` | `WritesSpec` | `AcceptanceExact`, `LookupsSucceed`, `WritesSound` | Kahn's count accepts exactly the well-formed plans, every lookup of an accepted plan succeeds, and for every small task and choice of parameters a node called exact writes these keys and a node called "may" no others |
| `redis_client` | `FairSpec` | `PermitsSound`, `PointersSound`, `CommandsReturn` | permits are exact and in order through chains of nested resumptions, pointers are good, commands return |
| `visualizer` | `Spec` | `BusyHasRequest`, `UrlShowsPlan`, `PageSound`, `PopKeepsHistory` | whatever order answers come in or fail, each busy flag has a request behind it, a plan's address shows that plan or an error, selections are on the page, and Back destroys no history |
| `editor` | `FairSpec` | `QuietInStep`, `LayoutOfMode`, `DeletedByConsent`, `TextByTyping`, `CompileOwn`, `CompileEnds` | whatever writes the storage refuses, what it took comes back when the panel is opened again, a saved plan goes only by consent and changes only by typing, layouts stay in their mode; a compilation that met no other of its name gets its own answer, every one gets an answer, and no file is left |
| `dsl_compile` | `BuildSpec` | `WiredAsWritten`, `MeaningKept`, `IndexTrue`, `ImplementsDslc` | plan texts with every kind of expression and shape, edits, failures and kills: what is on disk computes what was written, and dslc refines its promise |
| `registry_codegen` | `Spec` | `DoneMeansCurrent`, `SameDigestSameMeaning` | two runs that overlap, edits and kills: success means current files, one digest means one meaning |

Types are part of `LoopSound`, `DrainSound`, `JobsSound`, `AwaitsSound` and
`PermitsSound`, where they say more than a type (no countdown below zero, no coroutine
resumed twice); the proofs establish them for every module that has theorems.

`CHECK_DEADLOCK FALSE` is set throughout: each model is one request, one life of
an object, one plan or one bounded session, and ends; that it ends in the right place
is what the liveness properties and the "complete" invariants say.

### Finding

`final_suspend` of the blocking wrapper sets `done` under the mutex and notifies
after releasing it. A caller that looks in between returns and destroys the
frame, the mutex and the condition variable that the loop thread then uses
(`async_dag_scheduler.cpp:78`); the comment there calls this safe. The run
`async_notify_after_free` shows it.

### Known divergences

The models also reach the following states, in which the code does not do what one of
its documents says, or what its author may have meant. The properties that meet them
except them, and say so in their comments.

1. `wait_idle` can miss its last notification: `in_flight_` is decremented and
   `idle_cv_` notified without the mutex (`thread_pool.h:44`).
2. The parallel scheduler can lose an error: a job that fails while the mutex is
   released around `submit` leaves an empty queue and nothing in flight, the loop
   ends without looking at `first_error`, and an empty result is dereferenced
   (`dag_scheduler.cpp:271`).
3. A request that ends by a deadline leaves Redis commands in flight; the driver
   destroys the client, and the limiter with permits out (`main.cpp:626`).
4. `Stop` may return before the loop thread ends (`event_loop.cpp:198`), which
   `docs/EVENT_LOOP_SHUTDOWN.md` excludes. The destructor waits all the same.
5. A user who leaves while Back or the first load is awaited: the late answer shows a
   plan, and the address says otherwise; what the user does in that time writes no
   history entry (`store.ts:437`, `store.ts:497`).
6. The source shown may be that of an earlier plan: `loadPlan` of a dropped or live plan
   leaves it, and two `loadSource` answers may come in either order (`store.ts:229`).
7. Two compile requests for one plan name share a temporary file and may get each other's
   plan (`vite.config.ts:97`).
8. A text changed and left within 500 ms is not stored (`EditorPanel.tsx:266`). If a saved
   plan was selected in that time, its selection is stored and its text is not: the panel
   opened again has the former text under it, and the autosave overwrites it
   (`TextByTyping` excepts it as in 15). A link with
   a text in its hash (not modelled) meets a stored selection in the same way.
   A write that the storage refuses is not reported (`preferences.ts:34`), and an empty
   text comes back as the default plan (`EditorPanel.tsx:222`), over the selected plan.
9. If every plan fails, `index.json` is not rewritten and lists the plans of an earlier
   build (`build_all_plans.ts:228`).
10. An expression in natural syntax that dslc cannot see, because the options are held in a variable or the
    call is in a fragment, is refused at run time and not compiled.
11. `IndexTrue` does not speak of an artifact that dslc writes between the reading of its
    entry and the writing of the index (`build_all_plans.ts:240`): the entry is then old.
12. RFC 0005, section 6.2, gives "may" for a switch whose known value has no case; the
    code gives `Unknown` (`writes_effect.cpp:73`), which is the safer answer.
13. Two runs of `codegen` that write one file at the same time can both end well and leave
    the text of one with the end of the other's (`codegen.ts:171`). `DoneMeansCurrent`
    excepts a file that somebody else has changed since the run began to write it.
14. The parallel scheduler notifies too late, like the finding above: `run_node_job`
    counts `inflight` down under the mutex and notifies `state.cv` after releasing it
    (`dag_scheduler.cpp:200`). A scheduler that looks in between, after an error or at the
    end of the plan, ends the call and destroys the `SchedulerState` on its stack under the
    job, although it is to "wait for all inflight nodes to complete"
    (`dag_scheduler.cpp:236`). `EndsComplete` excepts exactly this: a job that has succeeded
    and is about to notify.
15. A viewed plan that is taken over into the editor deselects the saved plan on the screen
    and not in the storage (`EditorPanel.tsx:258`, with the comment "Not a saved plan, it's
    from the viewed plan"). When the panel is opened again, or the layout is reset, it has
    the taken-over text and the saved plan selected, and the autosave stores the one as the
    other. `QuietInStep` excepts the selected plan after a take-over, and `TextByTyping` a
    panel that has started so.
16. A `SwitchEnum` without cases on a parameter that is not known evaluates to "exactly no
    key" (`writes_effect.cpp:78`), where RFC 0005 says `Unknown` for an unbounded domain
    (`rfcs/0005-key-effects-writes-exact.md:203`); with a known value it is `Unknown` in the
    code too. No task of the repository has such a switch. `WritesSound` excepts tasks that
    have one; the run includes them.
17. A second popstate while one is awaited: the first answer clears the flag, and the
    second writes a history entry (`store.ts:466`). `PopKeepsHistory` and `UrlShowsPlan`
    except it, through `interrupted`.

### Bounds, and why they are enough

* Plans: three nodes and three dependencies, with repeated inputs and NodeRefs,
  in every order (`SmallPlans`, `MaxDeps` = 3). That includes the chain, fork, join and complete
  graph; a node that completes inside its predecessor's spawn loop while a third
  is suspended needs three. The theorems of section 4 remove this bound, and those
  below, from the safety properties they state.
* `Executor` takes every graph on three nodes with at most three dependencies,
  cycles included, and plans of up to two nodes with every kind of flaw.
* `MaxInflight` is 2 for three nodes (a full limit with one node waiting).
* Event loop: two threads for `Start` and for `Stop` make every pair of calls
  collide; a callback that stops and one that posts a third make nested drains.
* Pool: two workers, three tasks of which one is submitted by another, one waiter.
  A lost notification needs one worker and one waiter.
* Awaitables: one CPU job and one asynchronous task share the queue, so each
  can be the other's delay.
* Redis: three commands and limits 1 and 2, so that a release can hand over twice
  in a chain and a fast path can meet a waiter. With and without request timeouts
  and deadlines.

* Visualizer: two plans that share a node, a dropped file, a live plan, two registry
  tabs; `MaxUser` = 4 actions of the user (leaving and coming back while two answers are
  out needs three), `MaxHistory` = 5 entries, `MaxPending` = 3 requests in flight when the
  user acts.
* Editor: two saved plans of which one is there from the start, two revisions of two texts
  and the empty one, two panels, two compile requests, a storage that may refuse any write,
  `MaxUser` = 5 actions. Overwriting the kept plan through a take-over needs two (open
  with a viewed plan, reset the layout), a deletion that is refused and comes later four.
* Writes: `Width` = 4 keys, of which 0 is none and 1 is `Key.id`; parameters of each type,
  required, nullable or with a default; values given, left out, null, of a type no effect uses,
  not positive, and above the width; effects nested three deep, switches without cases
  included. They are tried in a plan of one node, since a node's writes depend on no other.
* DSL: trees of up to two nested operators over every kind of leaf, valid and refused,
  each in a plan of its own; chains, loops, fragments, concats, unused and swallowed calls
  for what numbering can confuse; three files, one with a name that is refused. `Sessions` bounds
  the actions of the environment.
* Registries: one or two entries per registry, for each rule of a parser one file that
  breaks it; two processes that write, check or are killed, all payloads over two
  properties; edits of three registries (`MCDrafts`).

Nothing else is bounded; the state spaces are finite by themselves.

### Fairness, and what justifies it

Weak fairness of each thread that has begun a call and of the loop thread: the
operating system schedules threads, and libuv runs pending callbacks and expired
timers. Calls that nobody has to make, the clock, failures and spurious wake-ups
have no fairness.

* `ThreadPool` assumes strong fairness of workers, waiters and of a `submit`
  inside a running task: they compete for a mutex that is taken again and again,
  and the mutex is not assumed to starve anybody.
* `AsyncDagScheduler` and `DagScheduler` assume that a task's body ends.
* `Awaitables` assumes that awaited work ends only where there is no deadline;
  where there is one, nothing is assumed of the work, and the timer must do.
* `AsyncRedisClient` assumes that a connection attempt is decided, and that Redis
  answers only if there is no request timeout.
* `EditorSession` assumes that the server's processes end (dslc has no loop that waits)
  and that the browser delivers their answers. The visualizer's other requests may hang;
  nothing is claimed of them but safety.

Some liveness properties have an exception that the code forces: `CallerReturns`
and `AwaitsReturn` do not hold once the loop is stopped (the result of `Post` is
ignored at `async_dag_scheduler.cpp:477` and `cpu_offload.h:196`, and `DoStop`
closes timers without resuming anyone), `CallsReturn` excepts a `Stop` that met a
failed `Start`, and `CommandsReturn` a freed context without request timeouts.
One safety property of the engine has one: `ClosedOnce`, in `DecidedOnce`, excepts what still runs after `DoStop`'s
walk, which closes a timer again because the walk leaves `State::timer` set.
After timeouts, the commands on the wire may exceed `max_inflight`; the code says
so and no property claims otherwise.

## 4. Proofs

TLAPS checks every theorem for every value of the constants.

**Asynchronous scheduler** (`AsyncDagScheduler_proofs`). Assumptions: `N` is a
natural number, the plans are functions from nodes to lists of nodes and acyclic
(`NAssumption`, `PlansAssumption`; the executor's validation is what establishes
acyclicity, and `ValidationIsExact` proves that), and `LoopMayStop` is a Boolean.
None of the safety properties is inductive. `IndInv` adds:

* `DepsInv`: a countdown is the number of dependency slots without a result;
* `QueueInv`: the queue holds, once each, the nodes with countdown 0 and no coroutine;
* `ResultInv`: which program counters go with a result, and that a node that ended
  without one has left an error;
* `SpawnInv`: without an error, a queued node is one that some activation of
  `spawn_ready_nodes` will still look at;
* `MainInv`: the main coroutine is resumed once, when nothing is active.

`Invariance` proves it with one step per action. `SuccessIsComplete` is where acyclicity
enters: if nothing is active, queued or in error and some node has no result, the
set of such nodes has a member that depends on none of them; its countdown is 0, so it
is queued, a contradiction. `Refinement` maps each step to one of
`DagExecution` or a stutter.

**Validation and sequential execution** (`Executor_proofs`). Assumption: the plans
are records of sequences (`PlansAssumption`), with arbitrary ids. `IndInv` relates
the index to the nodes seen (`IndexInv`), what has been checked (`CheckInv`),
Kahn's loop (`KahnInv`: in-degrees count open slots, the queue is exactly the open
nodes with none, the order is topological) and the results (`RunInv`).
`ValidationIsExact` proves both directions: the processed nodes form an order, which
gives a node without dependencies inside every non-empty set; and if the
loop ends with open nodes, those depend on each other throughout. `LookupsNeverFail`
and `EachNodeRunsOnce` follow from the order; `RunsEachOnce` is left to the proof, no run
checks it.

**Parallel scheduler** (`DagScheduler_proofs`). Assumptions as for the asynchronous
one, and a positive limit. `inflight` is exact only together with what each job has done
to it, so the invariant follows every node from the queue to its result: `DepsInv`,
`QueueInv` and `JobInv` (a job that ended without a result has left an error; `current`
is the node between its dequeuing and its submit, when the mutex is free). `MainInv`: the
calling thread leaves its loop with an empty queue and nothing in flight.
`ParallelEndsComplete` says that the call ends only when every job has left its last
critical section, and uses acyclicity like `SuccessIsComplete` for a call that ends
without an error; the lost error of section 3 is the case it has to leave out. That no job
is about to notify does not hold; `JobInv` gives that only one that has succeeded can be.

**Thread pool** (also in `DagScheduler_proofs`, about `PoolSpec`). Any finite sets of workers and tasks, tasks that
submit tasks, any waiters. `in_flight_` counts tasks, and a count does not say that
nothing is dropped or executed twice; `QueueInv`, `HoldInv` and `PlaceInv` say where each
accepted task is (once in the queue, with one worker, or executed), `InFlightExact` that
the counter is the number of those not counted yet, and `StopInv` that a worker leaves
only a stopped pool with an empty queue, after which `submit` adds nothing.

**Event loop** (also in `AsyncDagScheduler_proofs`, about `LoopSpec`). Any threads that call `Start`, `Stop` and `Post`, any
callbacks, of which one posts another from the loop thread (`CallbackAssumption`: more
would need more echoes than the model has). Two things move through the loop: `PlaceInv`
says that a callback is in the queue or in a drain's local queue exactly while it was
taken and has not run; `TokenInv` that there is one `DoStop`, with the thread that won the
compare-exchange, in a queue, in an activation or over, and that the queue stays empty
from its activation on. `StartInv`, `ThreadInv` and `DtorInv` tie the program counters to
the state. `TakenCallbacksRan` and `StopFinal` read off `TokenInv`.

**Redis client** (`AsyncRedisClient_proofs`). Any finite set of commands, positive limits.
The difficulty is the stack: a release resumes a waiter, which may finish, release and
resume the next before the first call returns. `StackInv` says which calls can be on the
stack together for one command (a resumption returns to the call that destroys the
command's state), `PermitInv` that `current_` is the number of `Holders`, the commands
with a permit except those whose timeout has given it back and not yet forgotten it, and
that nobody waits beside a free permit. `QueueInv` orders those in line by their arrival,
behind all who have passed; `WireInv` says that hiredis has a live reference for what is
on the wire, `LifeInv` what a command's record can be, and `AfterInv` that a request
without deadlines leaves nothing behind. `LimiterSound` and `RawPointersSound` follow.

**Editor** (`EditorSession_proofs`). Any saved plans, revisions, panels, requests and
sessions of any length, over a storage that may refuse any write. Three invariants, since
the parts share little.

* `DockInv`: the mode the listener refers to is the one on the screen, and a dock for
  viewing has no editor.
* `EditorInv`: what the panel keeps by itself (`Panel`: the selected plan is in its list;
  without a pending timer its text is on the screen; the plan a dialog is about is the
  selected one or none is) holds whatever is refused, because the list in the panel is
  updated whether or not the storage takes it. What ties it to the storage holds per key
  as far as the last write of that key was done (`CodeFits`, `PlansFit`). A plan that the
  panel has not and the storage still has was deleted by consent and the write refused;
  this is what `SessionDeletedByConsent`, an action property, needs of a later write that
  brings the deletion. In the same way a plan whose text differs between the two has been
  typed into (`TextsFit`), and a selected plan that has not been has the text on the screen;
  `SessionTextByTyping` follows, using that the identifier of a new plan is in neither list
  (`used`).
* `ApiInv`: a request that shares its file with nobody finds there what it wrote; a
  temporary file has a running request.

**DSL** (`PlanBuild_proofs`). Any files, texts, batches and edits, any length of a
session. Assumptions: a text is what TypeScript accepts (`TextAssumption`: steps use
earlier steps, nobody writes dslc's placeholders), files hold texts or nothing
(`FilesAssumption`), and no two plan files share a base name (`SortedAssumption`).
`IsNatural`, `Compiled` and `Built` stay uninterpreted, so the wiring does not depend on
what the compilers of expressions do. The invariant has two halves.

* `DslcInv` follows one compilation. `CtxSound` and `ArtifactSound` relate nodes to the
  steps that made them (each handle is a node of its step, inputs refer to earlier
  nodes, a table has the entries its nodes refer to) and static numbers to the forms that
  were taken out and are not merged yet. `TextInv` says that what was taken out is of the
  text that is bundled: otherwise a number would stand for an expression of another
  text. This holds because dslc bundles the text it has read as soon as it has taken
  anything out of it, and is what fails in a model in which the bundler always reads the
  file again.
* `BuildInv` follows the manifest into the index: names that were compiled are distinct
  and not to be compiled again (`CompileInv`), so that no name is indexed twice, and
  entries are true of the files except where `changed` says otherwise (`EntriesInv`,
  `IndexInv`).

`DslWired` and `IndexIsTrue` follow. `DslcRefinement` maps each step to one of `Dslc` or a
stutter; that an output is the compilation of a text the file *held meanwhile* needs
`TodoInv` (the history `seen` always has the current text) and `TextInv`.

**Visualizer** (`Visualizer_proofs`). Any plans, files, tabs, entries and nodes, any number
of requests in flight and actions of the user (`BoundAssumption` only says that the bounds
are natural numbers), with the assumptions that each plan has its nodes, each tab its
entries and that the live plan has no address (`StoreAssumption`). The code awaits in
many places and the answers come in any order, so the invariant speaks of the sequence of
requests and not of the handler that made them:

* `PageInv`: every selection is on the page, open panels are distinct, the browser is
  inside its history. Each operation of the store keeps it whatever the store holds, which
  is what makes the order of answers irrelevant; `PagesSound` reads it off.
* `BusyInv`: a busy flag has a request of its kind in flight, and `handling` one that
  somebody awaits. The answer that comes may be one of two requests of a kind; it then
  leaves the flag as the code does, cleared.
* `HistoryInv`: unless a second popstate came, one answer at most is awaited, and a plan
  only by who holds the flag (`Alone`); what is awaited belongs to the address, which
  cannot move before the answer (`Follows`); so the plan of the address is shown, has
  failed or is to come (`Leads`). `PagesUrlShowsPlan` needs `Follows` although it states
  only `Leads`: an answer that is not for the address would replace the page.

`PagesPopKeepsHistory` is an action property. It uses `Alone` and, per kind of step, that
the history stays or what was awaited is still awaited (`Kept`).

**Code generation** (`RegistryCodegen_proofs`). Any registries and versions of them, any
number of processes, edits and kills. Assumptions: a session's registries and the drafts
are versions there are (`TomlAssumption`), the files a session starts with come from
registries that passed all checks (`SessionsAssumption`), what follows the kind in an
endpoint's token depends on its name alone (`SafeAssumption`; it is computed from it), and
"no type" is not a type (`NoneAssumption`). `IInv` says per process what its snapshot is
worth: what it has read is what the registry still says unless the registry is in `moved`
(`ReadOk`), what it has written or found equal is still there unless the file is
(`EmitOk`), and a file it has opened and not yet written is empty, or has its own text
from an equal run, unless it is (`OpenOk`): otherwise the rest of another text could stay
behind its own. A step of another process marks the file or, if that leaves the very text,
unmarks it (`MovesKeeps`). Putting the two together
needs that a file depends on the registries its row of the table names and on no other
(`ContentAgrees`): otherwise an edit of a registry outside the row would make a file stale
without a trace. Per file, `OutOk` says that it is missing, torn or generated from *some*
registries that passed *all* checks, maybe not today's. That is what `CodegenSameMeaning`
rests on, since the two files compared may come from different runs: equal digests give
equal entries, the checks give distinct identifiers (`CapabilitiesAgree`) and endpoints
that are the same in every environment (`EndpointsAgree`).

**Only model-checked.**

* Liveness under fairness (`CallerReturns`, `CallsReturn`, `AcceptedRuns`, `CallEnds`,
  `AwaitsReturn`, `CommandsReturn`, `CompileEnds`): outside what the prover handles.
* What recursive definitions compute: `MeaningKept` over `ExprCompiler`, `WritesSound` over
  `WritesEffect`.
* `AwaitsSound` and `DecidedOnce`: the module has one CPU job and one task, whatever the
  constants, so that TLC's search of its states is complete.

## 5. Plan

Done: the schedulers, the event loop, the pools, the awaitables, the executor, the
Redis client; the visualizer's store, pages and editor; the DSL from a plan's text to
the index; code generation; and the proofs above. In this order come:

1. **More proofs**, in the modules that have theorems: what the parallel scheduler keeps of
   `DagExecution` (it is no refinement as it stands: it may lose an error, and its
   inner loop goes on submitting ready nodes after one), and action properties (a
   completed command is never completed again, a result is never replaced).
2. **The data pipeline.** Row sets with selection and permutation, the tasks filter,
   take, sort, concat and vm, output contracts and schema deltas in one composition.
3. **Plans before execution.** The engine's parsing composed with `Executor`, with
   `WritesEffect`'s parameter validation, the references of expressions and predicates and
   the endpoints in place of the single bit.
4. **Shutdown of the whole engine.** Pool, loop, clients and driver in one
   composition; the synchronous limiter and clients; the life of the regex cache.

## 6. Not modelled

Request decoding and SHA-256, benchmarks and their statistics, editor and lint
plugins, rendering and layout of the visualizer, Redis seeding, scripts. These are
straight-line conversions, I/O or presentation. libuv, hiredis, the standard library's
threads and condition variables, esbuild, QuickJS, dockview, React and the browser are
external and modelled by how the code uses them. What items 2 to 4 of the plan name is
not modelled yet; `PROJECT.json` says so component by component.
