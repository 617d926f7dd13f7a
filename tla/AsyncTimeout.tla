----------------------------- MODULE AsyncTimeout -----------------------------
(***************************************************************************)
(* One co_await AsyncWithTimeout(loop, deadline, task) on the loop thread: *)
(* a detached runner coroutine awaits the task; its completion and a       *)
(* deadline timer race, and the waiter is resumed through the queue or, if *)
(* the loop refuses the callback, directly.                                *)
(***************************************************************************)
EXTENDS LoopThread

CONSTANT AsyncTimer     \* its timer handle

VARIABLES
    waiter,      \* "ready", "suspended", "resumed": the awaiting coroutine
    wakes,       \* how often it has been resumed
    done,        \* State::done
    value,       \* State::result; "empty" is the null exception_ptr
    tptr,        \* State::timer is not null
    runner,      \* "none", "running", "finished" or "destroyed"
    limit        \* the deadline: "none", "pending" or "passed"

avars == <<waiter, wakes, done, value, tptr, runner, limit>>

Wake == "async resume"      \* the callback that resumes the waiter
Cleanup == "cleanup"        \* the callback that destroys the runner

ATypeOK ==
    /\ waiter \in {"ready", "suspended", "resumed"}
    /\ wakes \in 0..1
    /\ done \in BOOLEAN
    /\ value \in {"empty", "value", "error", "timeout"}
    /\ tptr \in BOOLEAN
    /\ runner \in {"none", "running", "finished", "destroyed"}
    /\ limit \in {"none", "pending", "passed"}

AInit ==
    /\ waiter = "ready"
    /\ wakes = 0
    /\ done = FALSE
    /\ value = "empty"
    /\ tptr = FALSE
    /\ runner = "none"
    /\ limit \in {"none", "pending"}

-----------------------------------------------------------------------------
\* The deadline has passed, as in CpuOffload.
ATooLate ==
    /\ Elsewhere
    /\ waiter = "ready"
    /\ limit = "passed"
    /\ \/ done' = FALSE /\ value' = "empty"
       \/ done' = TRUE /\ value' = "timeout"
    /\ waiter' = "resumed"
    /\ UNCHANGED <<wakes, tptr, runner, limit, lvars>>

\* await_suspend, the task suspends: start the timer inline, suspend.
ASuspend ==
    /\ Elsewhere
    /\ waiter = "ready"
    /\ limit # "passed"
    /\ runner' = "running"
    /\ waiter' = "suspended"
    /\ tptr' = (limit # "none")
    /\ timer' = IF limit = "none" THEN timer ELSE [timer EXCEPT ![AsyncTimer] = "active"]
    /\ UNCHANGED <<wakes, done, value, limit, loop, queue, todo, closes, nested, inside>>

\* await_suspend, the task completes without suspending: no timer; if the loop
\* refuses the callback, needs_direct_resume keeps the waiter from suspending.
ACompleteInline ==
    /\ Elsewhere
    /\ waiter = "ready"
    /\ limit # "passed"
    /\ runner' = "finished"
    /\ inside' = "leave"
    /\ done' = TRUE
    /\ value' \in {"value", "error"}
    /\ queue' = Post(queue, Wake)
    /\ waiter' = IF Taken THEN "suspended" ELSE "resumed"
    /\ UNCHANGED <<wakes, tptr, limit, loop, todo, timer, closes, nested>>

LimitPasses ==
    /\ limit = "pending"
    /\ limit' = "passed"
    /\ UNCHANGED <<waiter, wakes, done, value, tptr, runner, lvars>>

-----------------------------------------------------------------------------
Woken == waiter' = "resumed" /\ wakes' = wakes + 1

\* Mutant: a late completion overwrites the timeout and resumes again.
RunnerLate ==
    /\ Elsewhere
    /\ runner = "running"
    /\ runner' = "finished"
    /\ inside' = "leave"
    /\ done' = TRUE
    /\ value' \in {"value", "error"}
    /\ tptr' = FALSE
    /\ IF tptr THEN Closed(AsyncTimer) ELSE UNCHANGED <<timer, closes>>
    /\ queue' = Post(queue, Wake)
    /\ IF Taken THEN UNCHANGED <<waiter, wakes>> ELSE Woken
    /\ UNCHANGED <<limit, loop, todo, nested>>

\* The task completes on the loop thread and the runner goes on: late, or first.
RunnerFinishes ==
    /\ Elsewhere
    /\ runner = "running"
    /\ runner' = "finished"
    /\ inside' = "leave"
    /\ \/ /\ done
          /\ UNCHANGED <<queue, waiter, wakes, done, value, tptr, timer, closes>>
       \/ /\ ~done
          /\ done' = TRUE
          /\ value' \in {"value", "error"}
          /\ tptr' = FALSE
          /\ IF tptr THEN Closed(AsyncTimer) ELSE UNCHANGED <<timer, closes>>
          /\ queue' = Post(queue, Wake)
          /\ IF Taken THEN UNCHANGED <<waiter, wakes>> ELSE Woken
    /\ UNCHANGED <<limit, loop, todo, nested>>

\* Mutant: no RunnerCleanup.
LeaveFrame ==
    /\ inside = "leave"
    /\ inside' = "none"
    /\ UNCHANGED <<avars, loop, queue, todo, timer, closes, nested>>

\* Leaving the runner's body, ~RunnerCleanup posts the destruction of its frame.
RunnerLeaves ==
    /\ inside = "leave"
    /\ inside' = "none"
    /\ queue' = Post(queue, Cleanup)
    /\ UNCHANGED <<avars, loop, todo, timer, closes, nested>>

\* OnTimeout.  (Its branch for a race already decided is not reached.)
AOnTimeout ==
    /\ Fires(AsyncTimer)
    /\ ~done
    /\ done' = TRUE
    /\ value' = "timeout"
    /\ tptr' = FALSE
    /\ Closed(AsyncTimer)
    /\ queue' = Post(queue, Wake)
    /\ IF Taken THEN UNCHANGED <<waiter, wakes>> ELSE Woken
    /\ UNCHANGED <<runner, limit, loop, todo, nested, inside>>

RunWake ==
    /\ Runs(Wake)
    /\ todo' = Tail(todo)
    /\ Woken
    /\ UNCHANGED <<done, value, tptr, runner, limit, loop, queue, timer, closes, nested, inside>>

RunCleanup ==
    /\ Runs(Cleanup)
    /\ todo' = Tail(todo)
    /\ runner' = "destroyed"
    /\ UNCHANGED <<waiter, wakes, done, value, tptr, limit, loop, queue, timer, closes, nested, inside>>

ALoopStep == RunnerLeaves \/ AOnTimeout \/ RunWake \/ RunCleanup
ANext == ATooLate \/ ASuspend \/ ACompleteInline \/ LimitPasses \/ RunnerFinishes \/ ALoopStep

-----------------------------------------------------------------------------
\* The State lives as long as the awaiter, the runner's frame (which holds it in
\* a cycle until the cleanup) or a posted cleanup.
AStateAlive == waiter # "resumed" \/ runner \in {"running", "finished"}

\* A timer that can still fire finds its State, and a race still to be decided.
ATimerSound == timer[AsyncTimer] = "active" => ~done /\ AStateAlive

\* A waiter that goes on finds a result, or a deadline that await_resume turns
\* into an error.
AYields == waiter = "resumed" => IF done THEN value # "empty" ELSE limit = "passed"

\* The first of completion and timeout wins; a late completion is discarded.
AFirstWins == [][done => value' = value /\ done']_avars

\* Once the race is decided the waiter is resumed, also if the loop is stopped
\* before, while or after the runner completes.
ADecidedResumes == done ~> waiter = "resumed"

\* With a deadline the waiter goes on even if the task never completes; unless
\* the loop is stopped.
AReturns == waiter = "suspended" ~> (waiter = "resumed" \/ loop # "Running")

\* The cycle State -> runner -> frame -> State is broken: a runner that has
\* finished is destroyed, unless the loop is stopped.
ARunnerFreed == runner = "finished" ~> (runner = "destroyed" \/ loop # "Running")

=============================================================================
