------------------------------ MODULE DagScheduler ------------------------------
(***************************************************************************)
(* One request executed by execute_plan_parallel: the calling thread hands *)
(* ready nodes to the CPU and IO pools, at most max_nodes_inflight at a    *)
(* time, and sleeps on cv; run_node_job on a pool thread stores the result *)
(* and wakes it.                                                           *)
(*                                                                         *)
(* The scheduler state is protected by one mutex, and a step is a critical *)
(* section.  The scheduler gives the mutex up in two places: in cv.wait,   *)
(* and around each submit.  A pool (module ThreadPool) runs what is        *)
(* submitted, once and in some order.                                      *)
(***************************************************************************)
EXTENDS PlanGraph

CONSTANT
    MaxInflight  \* max_nodes_inflight; 0 has become the size of the CPU pool

ASSUME InflightAssumption == MaxInflight \in Nat \ {0}

VARIABLES
    plan,            \* SchedulerState::plan (immutable)
    deps_remaining,  \* per node, countdown to 0
    results,         \* per node, has results[n] (and schema_deltas[n]) a value?
    ready_queue,     \* FIFO of nodes ready to run
    inflight,        \* jobs dispatched and not finished
    first_error,     \* has an error been recorded?
    job,             \* per node, where its job is
    main,            \* where the calling thread is
    current          \* the node it is about to submit, or 0

schedVars == <<deps_remaining, results, ready_queue, inflight, first_error>>
vars == <<plan, schedVars, job, main, current>>

TypeOK ==
    /\ plan \in Plans
    /\ deps_remaining \in [Node -> Nat]
    /\ results \in [Node -> BOOLEAN]
    /\ ready_queue \in Seq(Node)
    /\ inflight \in Nat
    /\ first_error \in BOOLEAN
    /\ job \in [Node -> {"none", "submitted", "running", "notify", "done"}]
    /\ main \in {"top", "submit", "relock", "asleep", "drain", "draining",
                 "collect", "returned", "threw"}
    /\ current \in Node \cup {0}

\* init_scheduler_state.  (topo_order only fixes the order in which the result
\* lists the schema_deltas.)
Init ==
    /\ plan \in Plans
    /\ deps_remaining = [n \in Node |-> Len(DepsOf(plan, n))]
    /\ results = [n \in Node |-> FALSE]
    /\ ready_queue \in Ascending({n \in Node : DepsOf(plan, n) = <<>>})
    /\ inflight = 0
    /\ first_error = FALSE
    /\ job = [n \in Node |-> "none"]
    /\ main = "top"
    /\ current = 0

-----------------------------------------------------------------------------
(***************************************************************************)
(* The calling thread: execute_plan_parallel.                              *)
(***************************************************************************)

\* With the mutex: take the next node and unlock to submit it; or leave the
\* loop; or cv.wait, which has no predicate.
Dispatch ==
    \/ /\ ready_queue # <<>> /\ inflight < MaxInflight
       /\ ready_queue' = Tail(ready_queue)
       /\ inflight' = inflight + 1
       /\ current' = Head(ready_queue)
       /\ main' = "submit"
    \/ /\ ready_queue = <<>> /\ inflight = 0
       /\ main' = "collect"
       /\ UNCHANGED <<ready_queue, inflight, current>>
    \/ /\ \/ ready_queue = <<>> /\ inflight > 0
          \/ ready_queue # <<>> /\ inflight >= MaxInflight
       /\ main' = "asleep"
       /\ UNCHANGED <<ready_queue, inflight, current>>

\* The top of the loop looks at first_error before it dispatches.
MainTop ==
    /\ main = "top"
    /\ \/ ~first_error /\ Dispatch
       \/ first_error /\ main' = "drain" /\ UNCHANGED <<ready_queue, inflight, current>>
    /\ UNCHANGED <<plan, deps_remaining, results, first_error, job>>

MainSubmit ==
    /\ main = "submit"
    /\ job' = [job EXCEPT ![current] = "submitted"]
    /\ main' = "relock"
    /\ current' = 0
    /\ UNCHANGED <<plan, schedVars>>

\* After lock.lock() the dispatch loop goes on; jobs may have finished or failed
\* in between.
MainRelock ==
    /\ main = "relock"
    /\ Dispatch
    /\ UNCHANGED <<plan, deps_remaining, results, first_error, job>>

\* Mutant: an error is thrown without waiting for the jobs under way.
ThrowAtOnce ==
    /\ main = "drain"
    /\ main' = "threw"
    /\ UNCHANGED <<plan, schedVars, job, current>>

\* cv.wait with the predicate inflight == 0, then throw.
MainDrain ==
    /\ main = "drain"
    /\ main' = IF inflight = 0 THEN "threw" ELSE "draining"
    /\ UNCHANGED <<plan, schedVars, job, current>>

\* Build the result and return.
MainCollect ==
    /\ main = "collect"
    /\ main' = "returned"
    /\ UNCHANGED <<plan, schedVars, job, current>>

\* What cv.notify_one does to the calling thread.
Woken == CASE main = "asleep"   -> "top"
           [] main = "draining" -> "drain"
           [] OTHER             -> main

MainSpuriousWake ==
    /\ main \in {"asleep", "draining"}
    /\ main' = Woken
    /\ UNCHANGED <<plan, schedVars, job, current>>

-----------------------------------------------------------------------------
(***************************************************************************)
(* run_node_job for node n, on a pool thread.                              *)
(***************************************************************************)
JobStart(n) ==
    /\ job[n] = "submitted"
    /\ job' = [job EXCEPT ![n] = "running"]
    /\ UNCHANGED <<plan, schedVars, main, current>>

\* Mutant: a successor is ready when its count is 1 after the decrement.
WakeEarly(n) ==
    LET left  == [m \in Node |-> deps_remaining[m] - Cardinality(Slots(plan, m, {n}))]
        woken == {m \in Node : Slots(plan, m, {n}) # {} /\ left[m] <= 1}
    IN  /\ job[n] = "running"
        /\ results' = [results EXCEPT ![n] = TRUE]
        /\ deps_remaining' = left
        /\ \E s \in Ascending(woken) : ready_queue' = ready_queue \o s
        /\ inflight' = inflight - 1
        /\ job' = [job EXCEPT ![n] = "notify"]
        /\ UNCHANGED <<plan, first_error, main, current>>

\* The task and its output contract succeed: with the mutex, store the result,
\* wake the successors, once per edge and in plan order.
JobSucceeds(n) ==
    LET left  == [m \in Node |-> deps_remaining[m] - Cardinality(Slots(plan, m, {n}))]
        woken == {m \in Node : Slots(plan, m, {n}) # {} /\ left[m] = 0}
    IN  /\ job[n] = "running"
        /\ results' = [results EXCEPT ![n] = TRUE]
        /\ deps_remaining' = left
        /\ \E s \in Ascending(woken) : ready_queue' = ready_queue \o s
        /\ inflight' = inflight - 1
        /\ job' = [job EXCEPT ![n] = "notify"]
        /\ UNCHANGED <<plan, first_error, main, current>>

\* Mutant: a failed job does not wake the scheduler.
FailSilently(n) ==
    /\ job[n] = "running"
    /\ first_error' = TRUE
    /\ inflight' = inflight - 1
    /\ job' = [job EXCEPT ![n] = "done"]
    /\ UNCHANGED <<plan, deps_remaining, results, ready_queue, main, current>>

\* The job throws a std::exception, the only kind that is caught: record the first
\* error and notify, with the mutex.
JobFails(n) ==
    /\ job[n] = "running"
    /\ first_error' = TRUE
    /\ inflight' = inflight - 1
    /\ job' = [job EXCEPT ![n] = "done"]
    /\ main' = Woken
    /\ UNCHANGED <<plan, deps_remaining, results, ready_queue, current>>

\* cv.notify_one after the mutex has been released.  The call may have ended in
\* between, and cv with the SchedulerState on its stack: the model wakes nobody then.
JobNotify(n) ==
    /\ job[n] = "notify"
    /\ job' = [job EXCEPT ![n] = "done"]
    /\ main' = Woken
    /\ UNCHANGED <<plan, schedVars, current>>

-----------------------------------------------------------------------------
MainStep == MainTop \/ MainSubmit \/ MainRelock \/ MainDrain \/ MainCollect
JobStep(n) == JobStart(n) \/ JobSucceeds(n) \/ JobFails(n) \/ JobNotify(n)

Next ==
    \/ MainStep \/ MainSpuriousWake
    \/ \E n \in Node : JobStep(n)

\* The calling thread is scheduled, the pools run what is submitted to them
\* (AcceptedRuns of module ThreadPool), and a job ends; no wakeup comes unasked.
Fairness == WF_vars(MainStep) /\ \A n \in Node : WF_vars(JobStep(n))

Spec == Init /\ [][Next]_vars
FairSpec == Spec /\ Fairness

-----------------------------------------------------------------------------
(***************************************************************************)
(* Properties                                                              *)
(***************************************************************************)
\* The jobs that have not left their last critical section.  One that has succeeded
\* still notifies (job "notify").
Live == {n \in Node : job[n] \in {"submitted", "running"}}
Ended == main \in {"returned", "threw"}

\* A job dereferences the results of its inputs and NodeRefs without a check:
\* they are there, whichever jobs finish in whichever order.
InputsPresent ==
    \A n \in Node : job[n] \in {"submitted", "running"} =>
        \A k \in DOMAIN DepsOf(plan, n) : results[DepsOf(plan, n)[k]]

\* inflight counts the node about to be submitted and the jobs that have not
\* ended, and stays within max_nodes_inflight although the scheduler unlocks
\* between its look at it and the submit.
InflightExact ==
    /\ inflight = Cardinality(Live) + (IF main = "submit" THEN 1 ELSE 0)
    /\ inflight <= MaxInflight

\* The bookkeeping that the unlocked windows of the scheduler depend on: the types
\* (no countdown below zero), the inputs of a job, and the count of jobs.
JobsSound == TypeOK /\ InputsPresent /\ InflightExact

\* When the call returns or throws, no job reads its inputs, runs its task or stores
\* a result any more, and a call that returns without any error recorded has a result
\* for every node: none is left in the queue or waiting for a parent that has
\* completed.  The exception: a job that has succeeded has counted inflight down and
\* unlocked before it calls notify_one on the caller's SchedulerState; a call that
\* looks at inflight in between ends first, and destroys that state under the job,
\* although it waits "for all inflight nodes to complete".  No failed job is that late:
\* it notifies with the mutex.
EndsComplete ==
    /\ Ended => \A n \in Node : \/ job[n] \in {"none", "done"}
                                \/ job[n] = "notify" /\ results[n]
    /\ main \in {"collect", "returned"} /\ ~first_error => \A n \in Node : results[n]

\* The call returns or throws: cv.wait has no predicate, and still no
\* notification that matters is lost.
CallEnds == <>Ended

=============================================================================
