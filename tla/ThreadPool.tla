------------------------------ MODULE ThreadPool ------------------------------
(***************************************************************************)
(* ThreadPool, behind GetCPUThreadPool() and GetIOThreadPool(): submit,    *)
(* the workers, wait_idle and the destructor.                              *)
(*                                                                         *)
(* mutex_ protects tasks_ and stop_.  in_flight_ is an atomic that workers *)
(* decrement without the mutex, although wait_idle sleeps on it: a waiter  *)
(* that has evaluated its predicate and has not yet gone to sleep holds    *)
(* the mutex, and that is the one interval in which others can see the     *)
(* mutex taken.  Every other critical section is one step.                 *)
(***************************************************************************)
EXTENDS Naturals, Sequences, FiniteSets

CONSTANTS
    Worker,    \* the threads of the pool
    Task,      \* the tasks that are submitted
    Parent,    \* per task, the task whose body submits it, or Caller
    Waiter     \* threads that call wait_idle

Caller == "caller"

ASSUME PoolAssumption ==
    /\ Worker # {} /\ IsFiniteSet(Worker)
    /\ IsFiniteSet(Task)
    /\ Parent \in [Task -> Task \cup {Caller}]
    /\ Caller \notin Task

VARIABLES
    tasks,      \* tasks_
    in_flight,  \* in_flight_
    stop,       \* stop_
    sub,        \* per task, where its submit is
    ran,        \* the tasks whose body has been executed
    worker,     \* per worker, where it is and the task it has taken
    waiter,     \* per waiter, where it is in wait_idle
    dtor        \* where the destructor is

poolVars == <<tasks, in_flight, stop, sub, ran, worker, waiter, dtor>>

NoTask == "no task"
At(a, t) == [at |-> a, task |-> t]

PoolTypeOK ==
    /\ tasks \in Seq(Task)
    /\ in_flight \in 0..Cardinality(Task)
    /\ stop \in BOOLEAN
    /\ sub \in [Task -> {"idle", "notify", "returned", "threw"}]
    /\ ran \subseteq Task
    /\ worker \in [Worker -> [at : {"check", "asleep", "run", "count", "notify", "exited"},
                              task : Task \cup {NoTask}]]
    /\ waiter \in [Waiter -> {"idle", "check", "holding", "asleep", "returned"}]
    /\ dtor \in {"none", "notify", "join", "destroyed"}

PoolInit ==
    /\ tasks = <<>>
    /\ in_flight = 0
    /\ stop = FALSE
    /\ sub = [t \in Task |-> "idle"]
    /\ ran = {}
    /\ worker = [w \in Worker |-> At("check", NoTask)]
    /\ waiter = [x \in Waiter |-> "idle"]
    /\ dtor = "none"

MutexFree == \A x \in Waiter : waiter[x] # "holding"
InSubmit(t) == sub[t] = "notify"

-----------------------------------------------------------------------------
(***************************************************************************)
(* submit of task t, by a caller's thread or from the body of Parent[t].   *)
(***************************************************************************)
MaySubmit(t) ==
    /\ sub[t] = "idle"
    /\ IF Parent[t] = Caller
       THEN dtor = "none"
       ELSE \E w \in Worker : worker[w] = At("run", Parent[t])

Submit(t) ==
    /\ MaySubmit(t) /\ MutexFree
    /\ \/ /\ ~stop
          /\ in_flight' = in_flight + 1
          /\ tasks' = Append(tasks, t)
          /\ sub' = [sub EXCEPT ![t] = "notify"]
       \/ /\ stop
          /\ sub' = [sub EXCEPT ![t] = "threw"]
          /\ UNCHANGED <<in_flight, tasks>>
    /\ UNCHANGED <<stop, ran, worker, waiter, dtor>>

Asleep == {w \in Worker : worker[w].at = "asleep"}

\* cv_.notify_one, after the mutex has been released.
NotifyOne ==
    \/ Asleep = {} /\ UNCHANGED worker
    \/ \E w \in Asleep : worker' = [worker EXCEPT ![w].at = "check"]

NotifyAll ==
    worker' = [w \in Worker |->
                  IF w \in Asleep THEN [worker[w] EXCEPT !.at = "check"] ELSE worker[w]]

\* Mutant: no notification while another task is queued.
NotifyIfAlone(t) ==
    /\ sub[t] = "notify"
    /\ IF Len(tasks) = 1 THEN NotifyOne ELSE UNCHANGED worker
    /\ sub' = [sub EXCEPT ![t] = "returned"]
    /\ UNCHANGED <<tasks, in_flight, stop, ran, waiter, dtor>>

SubmitNotify(t) ==
    /\ sub[t] = "notify"
    /\ NotifyOne
    /\ sub' = [sub EXCEPT ![t] = "returned"]
    /\ UNCHANGED <<tasks, in_flight, stop, ran, waiter, dtor>>

-----------------------------------------------------------------------------
(***************************************************************************)
(* Worker w.                                                               *)
(***************************************************************************)

\* Mutant: a stopped pool does not look at its queue.
ExitOnStop(w) ==
    /\ worker[w].at = "check" /\ MutexFree
    /\ \/ /\ ~stop /\ tasks = <<>>
          /\ worker' = [worker EXCEPT ![w].at = "asleep"]
          /\ UNCHANGED tasks
       \/ /\ stop
          /\ worker' = [worker EXCEPT ![w].at = "exited"]
          /\ UNCHANGED tasks
       \/ /\ ~stop /\ tasks # <<>>
          /\ worker' = [worker EXCEPT ![w] = At("run", Head(tasks))]
          /\ tasks' = Tail(tasks)
    /\ UNCHANGED <<in_flight, stop, sub, ran, waiter, dtor>>

\* Under the mutex: sleep, leave, or take the oldest task.
WorkerCheck(w) ==
    /\ worker[w].at = "check" /\ MutexFree
    /\ \/ /\ ~stop /\ tasks = <<>>
          /\ worker' = [worker EXCEPT ![w].at = "asleep"]
          /\ UNCHANGED tasks
       \/ /\ stop /\ tasks = <<>>
          /\ worker' = [worker EXCEPT ![w].at = "exited"]
          /\ UNCHANGED tasks
       \/ /\ tasks # <<>>
          /\ worker' = [worker EXCEPT ![w] = At("run", Head(tasks))]
          /\ tasks' = Tail(tasks)
    /\ UNCHANGED <<in_flight, stop, sub, ran, waiter, dtor>>

\* (*task)(): the body submits its own tasks and ends; an exception goes into
\* the future, never out of the call.
WorkerRun(w) ==
    LET t == worker[w].task IN
    /\ worker[w].at = "run"
    /\ \A c \in Task : Parent[c] = t => sub[c] \in {"returned", "threw"}
    /\ ran' = ran \cup {t}
    /\ worker' = [worker EXCEPT ![w].at = "count"]
    /\ UNCHANGED <<tasks, in_flight, stop, sub, waiter, dtor>>

\* --in_flight_, without the mutex; the last one notifies the waiters.
WorkerCount(w) ==
    /\ worker[w].at = "count"
    /\ in_flight' = in_flight - 1
    /\ worker' = [worker EXCEPT ![w] = At(IF in_flight = 1 THEN "notify" ELSE "check", NoTask)]
    /\ UNCHANGED <<tasks, stop, sub, ran, waiter, dtor>>

\* idle_cv_.notify_all, without the mutex.
WorkerNotify(w) ==
    /\ worker[w].at = "notify"
    /\ worker' = [worker EXCEPT ![w].at = "check"]
    /\ waiter' = [x \in Waiter |-> IF waiter[x] = "asleep" THEN "check" ELSE waiter[x]]
    /\ UNCHANGED <<tasks, in_flight, stop, sub, ran, dtor>>

WorkerSpuriousWake(w) ==
    /\ worker[w].at = "asleep"
    /\ worker' = [worker EXCEPT ![w].at = "check"]
    /\ UNCHANGED <<tasks, in_flight, stop, sub, ran, waiter, dtor>>

-----------------------------------------------------------------------------
(***************************************************************************)
(* wait_idle, called by thread x.                                          *)
(***************************************************************************)
WaitBegin(x) ==
    /\ waiter[x] = "idle" /\ dtor = "none"
    /\ waiter' = [waiter EXCEPT ![x] = "check"]
    /\ UNCHANGED <<tasks, in_flight, stop, sub, ran, worker, dtor>>

\* Mutant: the pool is taken for idle when its queue is empty.
WaitForEmptyQueue(x) ==
    /\ waiter[x] = "check" /\ MutexFree
    /\ waiter' = [waiter EXCEPT ![x] = IF tasks = <<>> THEN "returned" ELSE "holding"]
    /\ UNCHANGED <<tasks, in_flight, stop, sub, ran, worker, dtor>>

WaitCheck(x) ==
    /\ waiter[x] = "check" /\ MutexFree
    /\ waiter' = [waiter EXCEPT ![x] = IF in_flight = 0 THEN "returned" ELSE "holding"]
    /\ UNCHANGED <<tasks, in_flight, stop, sub, ran, worker, dtor>>

WaitSleep(x) ==
    /\ waiter[x] = "holding"
    /\ waiter' = [waiter EXCEPT ![x] = "asleep"]
    /\ UNCHANGED <<tasks, in_flight, stop, sub, ran, worker, dtor>>

WaitSpuriousWake(x) ==
    /\ waiter[x] = "asleep"
    /\ waiter' = [waiter EXCEPT ![x] = "check"]
    /\ UNCHANGED <<tasks, in_flight, stop, sub, ran, worker, dtor>>

-----------------------------------------------------------------------------
(***************************************************************************)
(* The destructor; no caller's submit or wait_idle is under way.           *)
(***************************************************************************)
DtorStop ==
    /\ dtor = "none"
    /\ \A t \in Task : Parent[t] = Caller => ~InSubmit(t)
    /\ \A x \in Waiter : waiter[x] \in {"idle", "returned"}
    /\ stop' = TRUE
    /\ dtor' = "notify"
    /\ UNCHANGED <<tasks, in_flight, sub, ran, worker, waiter>>

DtorNotify ==
    /\ dtor = "notify"
    /\ NotifyAll
    /\ dtor' = "join"
    /\ UNCHANGED <<tasks, in_flight, stop, sub, ran, waiter>>

DtorJoin ==
    /\ dtor = "join"
    /\ \A w \in Worker : worker[w].at = "exited"
    /\ dtor' = "destroyed"
    /\ UNCHANGED <<tasks, in_flight, stop, sub, ran, worker, waiter>>

-----------------------------------------------------------------------------
WorkerStep(w) == WorkerCheck(w) \/ WorkerRun(w) \/ WorkerCount(w) \/ WorkerNotify(w)
WaitStep(x) == WaitCheck(x) \/ WaitSleep(x)
DtorStep == DtorNotify \/ DtorJoin

PoolNext ==
    \/ \E t \in Task : Submit(t) \/ SubmitNotify(t)
    \/ \E w \in Worker : WorkerStep(w) \/ WorkerSpuriousWake(w)
    \/ \E x \in Waiter : WaitBegin(x) \/ WaitStep(x) \/ WaitSpuriousWake(x)
    \/ DtorStop \/ DtorStep

\* Every thread inside a call and every worker is scheduled and gets a mutex that
\* is free again and again, and the body of a task ends; nobody has to submit,
\* wait or destroy, and no wakeup comes unasked.
PoolFairness ==
    /\ \A t \in Task : WF_poolVars(SubmitNotify(t)) /\ SF_poolVars(Parent[t] # Caller /\ Submit(t))
    /\ \A w \in Worker : SF_poolVars(WorkerStep(w))
    /\ \A x \in Waiter : SF_poolVars(WaitStep(x))
    /\ WF_poolVars(DtorStep)

PoolSpec == PoolInit /\ [][PoolNext]_poolVars
PoolFairSpec == PoolSpec /\ PoolFairness

-----------------------------------------------------------------------------
(***************************************************************************)
(* Properties                                                              *)
(***************************************************************************)

Accepted(t) == sub[t] \in {"notify", "returned"}

\* wait_idle drains: when it returns, every task submitted until then has been
\* executed, the ones that tasks submitted included, so that what they refer to
\* (the event loop, a scheduler state) may be destroyed.
IdleMeansDrained ==
    [][\A x \in Waiter : waiter[x] # "returned" /\ waiter'[x] = "returned"
           => \A t \in Task : Accepted(t) => t \in ran]_poolVars

\* The destructor drops nothing: a task whose submit returned a future is
\* executed before the pool is gone.
DestroyDrains == dtor = "destroyed" => \A t \in Task : Accepted(t) => t \in ran

\* in_flight_ counts exactly the accepted tasks that no worker has counted down.
InFlightExact ==
    in_flight = Cardinality({t \in Task : Accepted(t) /\ t \notin ran})
              + Cardinality({w \in Worker : worker[w].at = "count"})

\* What wait_idle and the destructor rely on: the types, the exact count, and that
\* the destructor drops nothing.
DrainSound == PoolTypeOK /\ InFlightExact /\ DestroyDrains

\* Every accepted task is executed, and the destructor returns: no notification is
\* lost between a worker's predicate and its sleep, and stop_ reaches every
\* sleeping worker.
AcceptedRuns ==
    /\ \A t \in Task : Accepted(t) ~> t \in ran
    /\ dtor = "notify" ~> dtor = "destroyed"

=============================================================================
