-------------------------- MODULE AsyncDagScheduler --------------------------
(***************************************************************************)
(* One request executed by execute_plan_async_blocking: the calling thread *)
(* posts a wrapper coroutine to the event loop and blocks; on the loop     *)
(* thread execute_plan_async spawns one coroutine per ready node and       *)
(* suspends until the last of them has finished.                           *)
(*                                                                         *)
(* All scheduler state belongs to the loop thread, so what makes the code  *)
(* hard is not locking but re-entrancy: a node that completes without      *)
(* suspending runs on_node_success, and with it spawn_ready_nodes, inside  *)
(* the spawn_ready_nodes loop that started it.  The variable stack is the  *)
(* loop thread's stack of nested coroutine activations; only its top moves.*)
(* The clock (request deadline), the awaited work and the calling thread   *)
(* move on their own.                                                      *)
(***************************************************************************)
EXTENDS PlanGraph

CONSTANT
    LoopMayStop  \* may another thread stop the event loop during the request?

ASSUME LoopAssumption == LoopMayStop \in BOOLEAN

Main == 0                       \* the coroutine execute_plan_async itself
Coro == Node \cup {Main}

VARIABLES
    plan,            \* AsyncSchedulerState::plan (immutable)
    deps_remaining,  \* per node, countdown to 0
    results,         \* per node, has results[n] (and schema_deltas[n]) a value?
    ready_queue,     \* FIFO of nodes ready to run
    inflight_count,  \* node coroutines started and not finished
    nodes_remaining, \* nodes not yet completed
    first_error,     \* "none", "node" (a node failed) or "deadline"
    main_coro,       \* has the main coroutine stored its handle?
    pc,              \* where each coroutine is
    stack,           \* coroutines active on the loop thread, innermost last
    resumes,         \* posted callbacks [main_coro]() { main_coro.resume(); }
    loop,            \* the event loop, as far as Post and callbacks see it
    deadline,        \* "none", "pending" or "passed"
    outcome,         \* "none", "ok" or "error": what execute_plan_async yields
    done,            \* the flag under done_mutex
    caller           \* where the calling thread is

schedVars == <<deps_remaining, results, ready_queue, inflight_count,
               nodes_remaining, first_error>>
vars == <<plan, schedVars, main_coro, pc, stack, resumes, loop, deadline,
          outcome, done, caller>>

Labels == {"none", "start", "suspended", "spawn_enter", "spawning", "spawned",
           "exit", "collect", "final", "notify", "done"}

TypeOK ==
    /\ plan \in Plans
    /\ deps_remaining \in [Node -> Int]
    /\ results \in [Node -> BOOLEAN]
    /\ ready_queue \in Seq(Node)
    /\ inflight_count \in Int
    /\ nodes_remaining \in Int
    /\ first_error \in {"none", "node", "deadline"}
    /\ main_coro \in BOOLEAN
    /\ pc \in [Coro -> Labels]
    /\ stack \in Seq(Coro)
    /\ resumes \in Nat
    /\ loop \in {"Running", "Stopping", "Stopped"}
    /\ deadline \in {"none", "pending", "passed"}
    /\ outcome \in {"none", "ok", "error"}
    /\ done \in BOOLEAN
    /\ caller \in {"call", "check", "blocked", "returned", "refused"}

-----------------------------------------------------------------------------
Top == stack[Len(stack)]
Runs(c) == stack # <<>> /\ Top = c
Pop(s) == SubSeq(s, 1, Len(s) - 1)
LoopIdle == stack = <<>> /\ loop # "Stopped"

\* init_async_scheduler_state: the state execute_plan_async builds on entry.
\* (topo_order only fixes the order in which schema_deltas are listed.)
InitScheduler ==
    /\ deps_remaining = [n \in Node |-> Len(DepsOf(plan, n))]
    /\ results = [n \in Node |-> FALSE]
    /\ ready_queue \in Ascending({n \in Node : DepsOf(plan, n) = <<>>})
    /\ inflight_count = 0
    /\ nodes_remaining = N
    /\ first_error = "none"

Init ==
    /\ plan \in Plans
    /\ InitScheduler
    /\ main_coro = FALSE
    /\ pc = [c \in Coro |-> "none"]
    /\ stack = <<>>
    /\ resumes = 0
    /\ loop \in {"Running", "Stopped"}
    /\ deadline \in {"none", "pending", "passed"}
    /\ outcome = "none"
    /\ done = FALSE
    /\ caller = "call"

-----------------------------------------------------------------------------
(***************************************************************************)
(* The calling thread.                                                     *)
(***************************************************************************)

\* Post the wrapper; a loop that is not running refuses it and the call throws.  The caller is
\* not the loop thread, for which the call throws before anything else.
CallerPost ==
    /\ caller = "call"
    /\ \/ /\ loop = "Running"
          /\ caller' = "check"
          /\ pc' = [pc EXCEPT ![Main] = "start"]
       \/ /\ loop # "Running"
          /\ caller' = "refused"
          /\ UNCHANGED pc
    /\ UNCHANGED <<plan, schedVars, main_coro, stack, resumes, loop, deadline,
                   outcome, done>>

\* done_cv.wait evaluates its predicate under done_mutex.  Once it is true the
\* caller leaves the block, and with it the BlockingTask frame, done_cv and
\* done_mutex are destroyed.
CallerCheck ==
    /\ caller = "check"
    /\ caller' = IF done THEN "returned" ELSE "blocked"
    /\ UNCHANGED <<plan, schedVars, main_coro, pc, stack, resumes, loop,
                   deadline, outcome, done>>

\* A condition variable may wake without a notification.
CallerSpuriousWake ==
    /\ caller = "blocked"
    /\ caller' = "check"
    /\ UNCHANGED <<plan, schedVars, main_coro, pc, stack, resumes, loop,
                   deadline, outcome, done>>

-----------------------------------------------------------------------------
(***************************************************************************)
(* spawn_ready_nodes, run by the coroutine c (the main coroutine once, a   *)
(* node from on_node_success).                                             *)
(***************************************************************************)

\* The deadline check, made once on entry.
SpawnEnter(c) ==
    /\ Runs(c)
    /\ pc[c] = "spawn_enter"
    /\ \/ /\ deadline = "passed"
          /\ first_error' = IF first_error = "none" THEN "deadline" ELSE first_error
          /\ pc' = [pc EXCEPT ![c] = "spawned"]
       \/ /\ deadline # "passed"
          /\ pc' = [pc EXCEPT ![c] = "spawning"]
          /\ UNCHANGED first_error
    /\ UNCHANGED <<plan, deps_remaining, results, ready_queue, inflight_count,
                   nodes_remaining, main_coro, stack, resumes, loop, deadline,
                   outcome, done, caller>>

\* One iteration of the loop: pop, count, create the coroutine and enter it.
SpawnNext(c) ==
    /\ Runs(c)
    /\ pc[c] = "spawning"
    /\ ready_queue # <<>>
    /\ first_error = "none"
    /\ ready_queue' = Tail(ready_queue)
    /\ inflight_count' = inflight_count + 1
    /\ pc' = [pc EXCEPT ![Head(ready_queue)] = "start"]
    /\ stack' = Append(stack, Head(ready_queue))
    /\ UNCHANGED <<plan, deps_remaining, results, nodes_remaining, first_error,
                   main_coro, resumes, loop, deadline, outcome, done, caller>>

\* The loop condition fails.
SpawnLeave(c) ==
    /\ Runs(c)
    /\ pc[c] = "spawning"
    /\ ready_queue = <<>> \/ first_error # "none"
    /\ pc' = [pc EXCEPT ![c] = "spawned"]
    /\ UNCHANGED <<plan, schedVars, main_coro, stack, resumes, loop, deadline,
                   outcome, done, caller>>

-----------------------------------------------------------------------------
(***************************************************************************)
(* run_node_async for node n.                                              *)
(***************************************************************************)

\* Mutant: a successor is woken by the first of its dependencies.
WakeOnFirstDep(n) ==
    LET woken == {m \in Node : Slots(plan, m, {n}) # {} /\ deps_remaining[m] = Len(DepsOf(plan, m))}
    IN  /\ results' = [results EXCEPT ![n] = TRUE]
        /\ deps_remaining' = [m \in Node |->
                deps_remaining[m] - Cardinality(Slots(plan, m, {n}))]
        /\ \E s \in Ascending(woken) : ready_queue' = ready_queue \o s
        /\ pc' = [pc EXCEPT ![n] = "spawn_enter"]
        /\ UNCHANGED <<inflight_count, nodes_remaining, first_error>>

\* on_node_success up to its call of spawn_ready_nodes: store the result and
\* wake the successors, once per edge, in plan order.
StoreAndWake(n) ==
    LET left  == [m \in Node |-> deps_remaining[m] - Cardinality(Slots(plan, m, {n}))]
        woken == {m \in Node : Slots(plan, m, {n}) # {} /\ left[m] = 0}
    IN  /\ results' = [results EXCEPT ![n] = TRUE]
        /\ deps_remaining' = left
        /\ \E s \in Ascending(woken) : ready_queue' = ready_queue \o s
        /\ pc' = [pc EXCEPT ![n] = "spawn_enter"]
        /\ UNCHANGED <<inflight_count, nodes_remaining, first_error>>

\* Mutant: a failed node is not counted as completed.
FailureUncounted(n) ==
    /\ first_error' = IF first_error = "none" THEN "node" ELSE first_error
    /\ pc' = [pc EXCEPT ![n] = "exit"]
    /\ UNCHANGED <<deps_remaining, results, ready_queue, inflight_count, nodes_remaining>>

\* on_node_failure: the first error is kept, no node is spawned.
RecordFailure(n) ==
    /\ first_error' = IF first_error = "none" THEN "node" ELSE first_error
    /\ nodes_remaining' = nodes_remaining - 1
    /\ pc' = [pc EXCEPT ![n] = "exit"]
    /\ UNCHANGED <<deps_remaining, results, ready_queue, inflight_count>>

\* The body from its first line to the first suspension.  The request deadline
\* is checked first; then the node fails, completes, or suspends in run_task.
NodeFails(n) ==
    /\ Runs(n)
    /\ pc[n] = "start"
    /\ RecordFailure(n)
    /\ UNCHANGED <<plan, main_coro, stack, resumes, loop, deadline, outcome,
                   done, caller>>

NodeCompletes(n) ==
    /\ Runs(n)
    /\ pc[n] = "start"
    /\ deadline # "passed"
    /\ StoreAndWake(n)
    /\ UNCHANGED <<plan, main_coro, stack, resumes, loop, deadline, outcome,
                   done, caller>>

NodeSuspends(n) ==
    /\ Runs(n)
    /\ pc[n] = "start"
    /\ deadline # "passed"
    /\ pc' = [pc EXCEPT ![n] = "suspended"]
    /\ stack' = Pop(stack)
    /\ UNCHANGED <<plan, schedVars, main_coro, resumes, loop, deadline, outcome,
                   done, caller>>

\* A loop callback resumes the suspended node with its output, which passes
\* validateTaskOutput ...
NodeResumesOk(n) ==
    /\ LoopIdle
    /\ pc[n] = "suspended"
    /\ stack' = <<n>>
    /\ StoreAndWake(n)
    /\ UNCHANGED <<plan, main_coro, resumes, loop, deadline, outcome, done,
                   caller>>

\* ... or with an exception: a task error, a timeout, a broken output contract.
NodeResumesFailed(n) ==
    /\ LoopIdle
    /\ pc[n] = "suspended"
    /\ stack' = <<n>>
    /\ RecordFailure(n)
    /\ UNCHANGED <<plan, main_coro, resumes, loop, deadline, outcome, done,
                   caller>>

\* The end of on_node_success, after spawn_ready_nodes has returned.
NodeSpawned(n) ==
    /\ Runs(n)
    /\ pc[n] = "spawned"
    /\ nodes_remaining' = nodes_remaining - 1
    /\ pc' = [pc EXCEPT ![n] = "exit"]
    /\ UNCHANGED <<plan, deps_remaining, results, ready_queue, inflight_count,
                   first_error, main_coro, stack, resumes, loop, deadline,
                   outcome, done, caller>>

\* Mutant: the main coroutine is resumed only when every node has completed.
ExitWaitingForAllNodes(n) ==
    /\ Runs(n)
    /\ pc[n] = "exit"
    /\ inflight_count' = inflight_count - 1
    /\ resumes' = IF nodes_remaining = 0 /\ main_coro /\ loop = "Running"
                  THEN resumes + 1 ELSE resumes
    /\ pc' = [pc EXCEPT ![n] = "done"]
    /\ stack' = Pop(stack)
    /\ UNCHANGED <<plan, deps_remaining, results, ready_queue, nodes_remaining,
                   first_error, main_coro, loop, deadline, outcome, done, caller>>

\* The tail of run_node_async.  The last coroutine posts the resumption of the
\* main coroutine; whether the loop accepts the post is not looked at.
NodeExit(n) ==
    /\ Runs(n)
    /\ pc[n] = "exit"
    /\ inflight_count' = inflight_count - 1
    /\ resumes' = IF inflight_count' = 0 /\ main_coro /\ loop = "Running"
                  THEN resumes + 1 ELSE resumes
    /\ pc' = [pc EXCEPT ![n] = "done"]
    /\ stack' = Pop(stack)
    /\ UNCHANGED <<plan, deps_remaining, results, ready_queue, nodes_remaining,
                   first_error, main_coro, loop, deadline, outcome, done, caller>>

-----------------------------------------------------------------------------
(***************************************************************************)
(* The main coroutine: execute_plan_async inside the blocking wrapper.     *)
(***************************************************************************)

\* The loop runs the posted task.start().
MainStart ==
    /\ LoopIdle
    /\ pc[Main] = "start"
    /\ stack' = <<Main>>
    /\ pc' = [pc EXCEPT ![Main] = "spawn_enter"]
    /\ UNCHANGED <<plan, schedVars, main_coro, resumes, loop, deadline, outcome,
                   done, caller>>

\* Mutant: the main coroutine is also ready as soon as there is an error.
AwaitReadyOnError ==
    /\ Runs(Main)
    /\ pc[Main] = "spawned"
    /\ \/ /\ inflight_count = 0 \/ first_error # "none"
          /\ pc' = [pc EXCEPT ![Main] = "collect"]
          /\ UNCHANGED <<main_coro, stack>>
       \/ /\ inflight_count # 0 /\ first_error = "none"
          /\ main_coro' = TRUE
          /\ pc' = [pc EXCEPT ![Main] = "suspended"]
          /\ stack' = Pop(stack)
    /\ UNCHANGED <<plan, schedVars, resumes, loop, deadline, outcome, done, caller>>

\* co_await CompletionAwaitable.
MainAwait ==
    /\ Runs(Main)
    /\ pc[Main] = "spawned"
    /\ \/ /\ inflight_count = 0
          /\ pc' = [pc EXCEPT ![Main] = "collect"]
          /\ UNCHANGED <<main_coro, stack>>
       \/ /\ inflight_count # 0
          /\ main_coro' = TRUE
          /\ pc' = [pc EXCEPT ![Main] = "suspended"]
          /\ stack' = Pop(stack)
    /\ UNCHANGED <<plan, schedVars, resumes, loop, deadline, outcome, done, caller>>

\* The loop runs a posted main_coro.resume().
MainResume ==
    /\ LoopIdle
    /\ resumes > 0
    /\ resumes' = resumes - 1
    /\ stack' = <<Main>>
    /\ pc' = [pc EXCEPT ![Main] = "collect"]
    /\ UNCHANGED <<plan, schedVars, main_coro, loop, deadline, outcome, done,
                   caller>>

\* Mutant: the outputs are returned without a look at first_error.
CollectIgnoringError ==
    /\ Runs(Main)
    /\ pc[Main] = "collect"
    /\ outcome' = "ok"
    /\ pc' = [pc EXCEPT ![Main] = "final"]
    /\ UNCHANGED <<plan, schedVars, main_coro, stack, resumes, loop, deadline,
                   done, caller>>

\* Throw the recorded error, or read the outputs and return; either way the
\* AsyncSchedulerState and every node coroutine frame in it are destroyed.
MainCollect ==
    /\ Runs(Main)
    /\ pc[Main] = "collect"
    /\ outcome' = IF first_error # "none" THEN "error" ELSE "ok"
    /\ pc' = [pc EXCEPT ![Main] = "final"]
    /\ UNCHANGED <<plan, schedVars, main_coro, stack, resumes, loop, deadline,
                   done, caller>>

\* final_suspend of the wrapper: set done under done_mutex ...
FinalSignal ==
    /\ Runs(Main)
    /\ pc[Main] = "final"
    /\ done' = TRUE
    /\ pc' = [pc EXCEPT ![Main] = "notify"]
    /\ UNCHANGED <<plan, schedVars, main_coro, stack, resumes, loop, deadline,
                   outcome, caller>>

\* ... and, the mutex released, read done_cv_ from the promise and notify.
FinalNotify ==
    /\ Runs(Main)
    /\ pc[Main] = "notify"
    /\ caller' = IF caller = "blocked" THEN "check" ELSE caller
    /\ pc' = [pc EXCEPT ![Main] = "done"]
    /\ stack' = Pop(stack)
    /\ UNCHANGED <<plan, schedVars, main_coro, resumes, loop, deadline, outcome,
                   done>>

-----------------------------------------------------------------------------
(***************************************************************************)
(* The environment: the clock, and another thread that stops the loop.     *)
(* Stop refuses posts from the first moment on, still runs what it has     *)
(* accepted, and then runs nothing more.                                   *)
(***************************************************************************)
DeadlinePasses ==
    /\ deadline = "pending"
    /\ deadline' = "passed"
    /\ UNCHANGED <<plan, schedVars, main_coro, pc, stack, resumes, loop,
                   outcome, done, caller>>

LoopStopping ==
    /\ LoopMayStop
    /\ loop = "Running"
    /\ loop' = "Stopping"
    /\ UNCHANGED <<plan, schedVars, main_coro, pc, stack, resumes, deadline,
                   outcome, done, caller>>

LoopStopped ==
    /\ loop = "Stopping"
    /\ stack = <<>>
    /\ resumes = 0
    /\ pc[Main] # "start"
    /\ loop' = "Stopped"
    /\ UNCHANGED <<plan, schedVars, main_coro, pc, stack, resumes, deadline,
                   outcome, done, caller>>

-----------------------------------------------------------------------------
Spawning(c) == SpawnEnter(c) \/ SpawnNext(c) \/ SpawnLeave(c)

NodeStep(n) ==
    \/ NodeFails(n) \/ NodeCompletes(n) \/ NodeSuspends(n)
    \/ NodeResumesOk(n) \/ NodeResumesFailed(n)
    \/ NodeSpawned(n) \/ NodeExit(n)

MainStep ==
    \/ MainStart \/ MainAwait \/ MainResume \/ MainCollect
    \/ FinalSignal \/ FinalNotify

CallerStep == CallerPost \/ CallerCheck

Next ==
    \/ \E c \in Coro : Spawning(c)
    \/ \E n \in Node : NodeStep(n)
    \/ MainStep
    \/ CallerStep \/ CallerSpuriousWake
    \/ DeadlinePasses \/ LoopStopping \/ LoopStopped

\* The loop thread keeps running and every awaited operation ends (it resumes
\* its coroutine with a value, an error or a timeout); the calling thread is
\* scheduled.  Nothing is assumed of the clock or of spurious wake-ups.
Fairness ==
    /\ \A c \in Coro : WF_vars(Spawning(c))
    /\ \A n \in Node : WF_vars(NodeStep(n))
    /\ WF_vars(MainStep)
    /\ WF_vars(CallerStep)

Spec == Init /\ [][Next]_vars
FairSpec == Spec /\ Fairness

-----------------------------------------------------------------------------
(***************************************************************************)
(* Properties.                                                             *)
(***************************************************************************)

\* run_node_async dereferences *state.results[...] for every input and NodeRef
\* (lines 307 and 320) without a check: whenever a node's body begins, each of
\* them has a result.
InputsPresent ==
    \A n \in Node : pc[n] = "start" =>
        \A k \in DOMAIN DepsOf(plan, n) : results[DepsOf(plan, n)[k]]

Active == {n \in Node : pc[n] \notin {"none", "done"}}

\* Nodes that have neither failed nor finished on_node_success.
Uncompleted ==
    {n \in Node : pc[n] \in {"none", "start", "suspended", "spawn_enter",
                             "spawning", "spawned"}}

\* inflight_count counts exactly the node coroutines that are between their
\* creation and their last line, and nodes_remaining the nodes that have not
\* completed, through every nesting of spawn_ready_nodes.
CountsExact ==
    /\ inflight_count = Cardinality(Active)
    /\ nodes_remaining = Cardinality(Uncompleted)

\* Once the main coroutine goes on, AsyncSchedulerState and the node coroutine
\* frames in it die: by then no node coroutine is running or suspended, and no
\* second resumption of the main coroutine is posted.
StateOutlivesNodes ==
    pc[Main] \in {"collect", "final", "notify", "done"} =>
        Active = {} /\ resumes = 0

\* The outputs are read with *state.results[idx] (line 537): an execution that
\* ends without an error has a result for every node, whatever the deadline did.
SuccessComplete == outcome = "ok" => \A n \in Node : results[n]

\* Fail-fast: once first_error is set no node coroutine is created, in the
\* outer spawn loops still on the stack neither.
NoSpawnAfterError ==
    [][first_error # "none" =>
          \A n \in Node : pc[n] = "none" => pc'[n] = "none"]_vars

\* A node's coroutine is created at most once: assigning node_tasks[n] again
\* would destroy a frame that may be suspended.
StartsOnce ==
    [][\A n \in Node : pc'[n] = "start" => pc[n] \in {"none", "start"}]_vars

\* A call that has been posted returns, if the loop is not stopped meanwhile.
CallerReturns == caller = "check" ~> (caller = "returned" \/ loop # "Running")

\* The comment at lines 24-27 says that destroying the task from the caller is
\* safe once it wakes up: when final_suspend reads done_cv_ from the promise, the
\* caller has not yet destroyed the frame.
FrameAliveAtNotify == pc[Main] = "notify" => caller # "returned"

\* The promise of DagExecution is kept.
Status(n) ==
    CASE results[n]                                  -> "ok"
      [] ~results[n] /\ pc[n] = "none"               -> "pending"
      [] ~results[n] /\ pc[n] \in {"exit", "done"}   -> "failed"
      [] OTHER                                       -> "running"

Promise == INSTANCE DagExecution WITH
    Nodes   <- Node,
    parents <- [n \in Node |-> Elems(DepsOf(plan, n))],
    status  <- [n \in Node |-> Status(n)],
    aborted <- first_error # "none",
    verdict <- outcome

\* Every step of the asynchronous scheduler is a step that DagExecution allows.
ImplementsDagExecution == Promise!ASpec

-----------------------------------------------------------------------------
(***************************************************************************)
(* The inductive invariant behind the properties, in named parts.          *)
(***************************************************************************)
Open == {m \in Node : ~results[m]}

\* A node's countdown is the number of its dependencies without a result.
DepsInv == \A n \in Node : deps_remaining[n] = Cardinality(Slots(plan, n, Open))

\* The queue holds, once each, the nodes whose countdown is over and whose
\* coroutine does not exist yet.
QueueInv ==
    /\ \A i \in DOMAIN ready_queue :
          pc[ready_queue[i]] = "none" /\ deps_remaining[ready_queue[i]] = 0
    /\ \A i, j \in DOMAIN ready_queue : ready_queue[i] = ready_queue[j] => i = j
    /\ \A n \in Node : deps_remaining[n] = 0 /\ pc[n] = "none" => n \in Elems(ready_queue)
    /\ \A n \in Node : pc[n] # "none" => deps_remaining[n] = 0

\* A node has a result exactly from on_node_success on; one that ends without
\* a result has left an error.
ResultInv ==
    \A n \in Node :
        /\ results[n] => pc[n] \in {"spawn_enter", "spawning", "spawned", "exit", "done"}
        /\ pc[n] \in {"spawn_enter", "spawning", "spawned"} => results[n]
        /\ pc[n] \in {"exit", "done"} /\ ~results[n] => first_error # "none"
        /\ pc[n] \notin {"collect", "final", "notify"}

\* Without an error, a node is left in the queue only while some activation of
\* spawn_ready_nodes has still to look at it.
SpawnInv ==
    ready_queue # <<>> =>
        \/ first_error # "none"
        \/ pc[Main] \in {"none", "start", "spawn_enter", "spawning"}
        \/ \E n \in Node : pc[n] \in {"spawn_enter", "spawning"}

\* The main coroutine is resumed once, from its suspension, when nothing is in
\* flight; afterwards nothing is in flight any more.
MainInv ==
    /\ caller \in {"call", "refused"} => pc[Main] = "none"
    /\ main_coro => pc[Main] \in {"suspended", "collect", "final", "notify", "done"}
    /\ resumes > 0 => pc[Main] = "suspended" /\ Active = {} /\ resumes = 1
    /\ pc[Main] \in {"collect", "final", "notify", "done"} => Active = {} /\ resumes = 0
    /\ outcome # "none" => pc[Main] \in {"final", "notify", "done"}

IndInv ==
    /\ TypeOK
    /\ DepsInv
    /\ QueueInv
    /\ ResultInv
    /\ CountsExact
    /\ SpawnInv
    /\ MainInv
    /\ SuccessComplete

=============================================================================
