------------------------------ MODULE Awaitables ------------------------------
(***************************************************************************)
(* A CPU task and an asynchronous task awaited at the same time on one     *)
(* loop, as run_node_async does for two nodes of a plan: the callbacks of  *)
(* the two share the queue, and the loop may be stopped at any moment.     *)
(***************************************************************************)
EXTENDS CpuOffload, AsyncTimeout

vars == <<loop, queue, todo, timer, closes, nested, inside,
          coro, resumes, completed, result, timer_ptr, cpu, outcome, deadline,
          waiter, wakes, done, value, tptr, runner, limit>>

ASSUME TimerAssumption == Timer = {CpuTimer, AsyncTimer} /\ CpuTimer # AsyncTimer

Init == LInit /\ CInit /\ AInit

Next ==
    \/ LNext /\ UNCHANGED <<cvars, avars>>
    \/ CNext /\ UNCHANGED avars
    \/ ANext /\ UNCHANGED cvars

\* The loop thread is scheduled and its timers expire; a pool thread posts what
\* it has computed.  Where there is no deadline the awaited work ends; where there
\* is one nothing is assumed of it, nor of the clock.
Fairness ==
    /\ WF_vars(LoopStep /\ UNCHANGED <<cvars, avars>>)
    /\ WF_vars(CLoopStep /\ UNCHANGED avars)
    /\ WF_vars(ALoopStep /\ UNCHANGED cvars)
    /\ WF_vars(CpuPosts /\ UNCHANGED avars)
    /\ WF_vars(deadline = "none" /\ CpuRuns /\ UNCHANGED avars)
    /\ WF_vars(limit = "none" /\ RunnerFinishes /\ UNCHANGED cvars)

Spec == Init /\ [][Next]_vars
FairSpec == Spec /\ Fairness

-----------------------------------------------------------------------------
(***************************************************************************)
(* Properties                                                              *)
(***************************************************************************)

\* Types; in particular neither coroutine is resumed twice, which is undefined.
TypeOK ==
    /\ CTypeOK
    /\ ATypeOK
    /\ loop \in {"Running", "Stopping", "Stopped", "Exited"}
    /\ timer \in [Timer -> {"none", "active", "closing"}]
    /\ closes \in [Timer -> 0..2]
    /\ inside \in {"none", "suspend", "leave"}

\* Neither coroutine is resumed twice (TypeOK), no timer outlives the State its
\* data pointer refers to, none is left to fire
\* once its race is decided (cancel in the completion, CTimerSound and ATimerSound),
\* and nobody goes on from await_resume without a result or an error (CYields,
\* AYields).
AwaitsSound == TypeOK /\ CTimerSound /\ ATimerSound /\ CYields /\ AYields

\* What the winner of a race between completion and timeout stored stays: the
\* completed and done guards (CFirstWins, AFirstWins).
FirstWins == CFirstWins /\ AFirstWins

\* uv_close is not called on a timer that is closing (libuv aborts): completion,
\* timeout and the walk of DoStop close a timer once between them.  Excepted is what
\* still runs after the walk (the rest of a drain in which a callback called Stop, a
\* reply the same poll delivers): it closes a timer that the walk has closed again,
\* since the walk does not reset State::timer.
ClosedOnce ==
    [][\A t \in Timer : timer[t] = "closing" /\ closes'[t] # closes[t]
            => loop = "Stopped"]_vars

\* A decided race resumes its coroutine whatever happens to the loop, through the
\* queue or directly (CDecidedResumes, ADecidedResumes).
DecidedResumes == CDecidedResumes /\ ADecidedResumes

\* A race between completion, timeout and shutdown is decided once: the result of
\* the first stays and its timer is closed once.
DecidedOnce == FirstWins /\ ClosedOnce

\* A decided race resumes its coroutine (DecidedResumes); the awaits return, and
\* the asynchronous task's frame is freed by the posted cleanup, unless the loop is
\* stopped (CReturns, AReturns, ARunnerFreed).
AwaitsReturn == DecidedResumes /\ CReturns /\ AReturns /\ ARunnerFreed

=============================================================================
