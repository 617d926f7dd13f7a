------------------------------ MODULE CpuOffload ------------------------------
(***************************************************************************)
(* One co_await OffloadCpuWithTimeout(loop, deadline, fn) on the loop      *)
(* thread: fn runs on the CPU pool, its completion and a deadline timer    *)
(* race on the loop thread, and the first of them resumes the coroutine.   *)
(***************************************************************************)
EXTENDS LoopThread

CONSTANT CpuTimer       \* its timer handle

VARIABLES
    coro,        \* "ready", "suspended", "resumed": the awaiting coroutine
    resumes,     \* how often it has been resumed
    completed,   \* State::completed
    result,      \* State::result; "empty" is the null exception_ptr
    timer_ptr,   \* State::timer is not null
    cpu,         \* the pool's job: "none", "running", "post", "gone"
    outcome,     \* what fn did: "none", "value" or "error"
    deadline     \* "none", "pending" or "passed"

cvars == <<coro, resumes, completed, result, timer_ptr, cpu, outcome, deadline>>

CpuDone == "cpu done"       \* the callback the job posts
MakeTimer == "make timer"   \* the callback that starts the timer
Resume == "cpu resume"      \* the callback OnTimeout posts

CTypeOK ==
    /\ coro \in {"ready", "suspended", "resumed"}
    /\ resumes \in 0..1
    /\ completed \in BOOLEAN
    /\ result \in {"empty", "value", "error", "timeout"}
    /\ timer_ptr \in BOOLEAN
    /\ cpu \in {"none", "running", "post", "gone"}
    /\ outcome \in {"none", "value", "error"}
    /\ deadline \in {"none", "pending", "passed"}

CInit ==
    /\ coro = "ready"
    /\ resumes = 0
    /\ completed = FALSE
    /\ result = "empty"
    /\ timer_ptr = FALSE
    /\ cpu = "none"
    /\ outcome = "none"
    /\ deadline \in {"none", "pending"}

\* The coroutine goes on: await_resume reads the result.
Resumed == coro' = "resumed" /\ resumes' = resumes + 1

-----------------------------------------------------------------------------
\* The deadline has passed: await_ready does not suspend and await_resume throws;
\* or the second look, in await_suspend, stores the timeout and does not suspend.
TooLate ==
    /\ Elsewhere
    /\ coro = "ready"
    /\ deadline = "passed"
    /\ \/ completed' = FALSE /\ result' = "empty"
       \/ completed' = TRUE /\ result' = "timeout"
    /\ coro' = "resumed"
    /\ UNCHANGED <<resumes, timer_ptr, cpu, outcome, deadline, lvars>>

\* await_suspend up to the submission of the job, which the pool may run at once.
\* (The coroutine counts as suspended when await_suspend is called.)
Submit ==
    /\ Elsewhere
    /\ coro = "ready"
    /\ deadline # "passed"
    /\ coro' = "suspended"
    /\ cpu' = "running"
    /\ inside' = IF deadline = "none" THEN "none" ELSE "suspend"
    /\ UNCHANGED <<resumes, completed, result, timer_ptr, outcome, deadline,
                   loop, queue, todo, timer, closes, nested>>

\* The rest of await_suspend, with a deadline: post the start of the timer.
PostTimer ==
    /\ inside = "suspend"
    /\ inside' = "none"
    /\ queue' = Post(queue, MakeTimer)
    /\ UNCHANGED <<cvars, loop, todo, timer, closes, nested>>

DeadlinePasses ==
    /\ deadline = "pending"
    /\ deadline' = "passed"
    /\ UNCHANGED <<coro, resumes, completed, result, timer_ptr, cpu, outcome, lvars>>

-----------------------------------------------------------------------------
\* On the pool thread: fn returns or throws ...
CpuRuns ==
    /\ cpu = "running"
    /\ outcome' \in {"value", "error"}
    /\ cpu' = "post"
    /\ UNCHANGED <<coro, resumes, completed, result, timer_ptr, deadline, lvars>>

\* ... and its outcome is posted; a loop that is stopping drops it.
CpuPosts ==
    /\ cpu = "post"
    /\ queue' = Post(queue, CpuDone)
    /\ cpu' = "gone"
    /\ UNCHANGED <<coro, resumes, completed, result, timer_ptr, outcome, deadline,
                   loop, todo, timer, closes, nested, inside>>

\* The completion callback: first one wins, cancel the timer, resume at once.
RunCpuDone ==
    /\ Runs(CpuDone)
    /\ todo' = Tail(todo)
    /\ \/ completed /\ UNCHANGED <<cvars, timer, closes>>
       \/ /\ ~completed
          /\ completed' = TRUE
          /\ result' = outcome
          /\ timer_ptr' = FALSE
          /\ IF timer_ptr THEN Closed(CpuTimer) ELSE UNCHANGED <<timer, closes>>
          /\ Resumed
          /\ UNCHANGED <<cpu, outcome, deadline>>
    /\ UNCHANGED <<loop, queue, nested, inside>>

\* Mutant: the timer is started although the job has finished.
MakeTimerAlways ==
    /\ Runs(MakeTimer)
    /\ todo' = Tail(todo)
    /\ timer_ptr' = TRUE
    /\ timer' = [timer EXCEPT ![CpuTimer] = "active"]
    /\ UNCHANGED <<coro, resumes, completed, result, cpu, outcome, deadline, loop,
                   queue, closes, nested, inside>>

\* The callback that creates and starts the timer.
RunMakeTimer ==
    /\ Runs(MakeTimer)
    /\ todo' = Tail(todo)
    /\ \/ completed /\ UNCHANGED <<timer_ptr, timer>>
       \/ /\ ~completed
          /\ timer_ptr' = TRUE
          /\ timer' = [timer EXCEPT ![CpuTimer] = "active"]
    /\ UNCHANGED <<coro, resumes, completed, result, cpu, outcome, deadline, loop,
                   queue, closes, nested, inside>>

\* OnTimeout: record the timeout, close the timer, resume through the queue or,
\* if the loop is stopping, at once.
OnTimeout ==
    /\ Fires(CpuTimer)
    /\ ~completed
    /\ completed' = TRUE
    /\ result' = "timeout"
    /\ timer_ptr' = FALSE
    /\ Closed(CpuTimer)
    /\ queue' = Post(queue, Resume)
    /\ IF Taken THEN UNCHANGED <<coro, resumes>> ELSE Resumed
    /\ UNCHANGED <<cpu, outcome, deadline, loop, todo, nested, inside>>

RunResume ==
    /\ Runs(Resume)
    /\ todo' = Tail(todo)
    /\ Resumed
    /\ UNCHANGED <<completed, result, timer_ptr, cpu, outcome, deadline, loop,
                   queue, timer, closes, nested, inside>>

CLoopStep == PostTimer \/ RunCpuDone \/ RunMakeTimer \/ OnTimeout \/ RunResume
CNext == TooLate \/ Submit \/ DeadlinePasses \/ CpuRuns \/ CpuPosts \/ CLoopStep

-----------------------------------------------------------------------------
\* Who keeps the State: the awaiter in the coroutine's frame until it is resumed,
\* the job, and the callbacks that captured it.  The timer has a raw pointer.
Holds(s) == \E i \in DOMAIN s : s[i] \in {CpuDone, MakeTimer}
StateAlive ==
    \/ coro # "resumed"
    \/ cpu \in {"running", "post"}
    \/ Holds(queue) \/ Holds(todo)

\* A timer that can still fire finds its State, and a race still to be decided;
\* OnTimeout's early return for a completed race is never taken.
CTimerSound == timer[CpuTimer] = "active" => ~completed /\ StateAlive

\* A coroutine that goes on finds a result, or a deadline that await_resume
\* turns into an error; the null exception_ptr would be taken for a value.
CYields ==
    coro = "resumed" => IF completed THEN result # "empty" ELSE deadline = "passed"

\* The first of completion and timeout wins: what it stored is what is read.
CFirstWins == [][completed => result' = result /\ completed']_cvars

\* Once the race is decided the coroutine is resumed, also if the loop is stopped
\* meanwhile.
CDecidedResumes == completed ~> coro = "resumed"

\* With a deadline the coroutine goes on even if the job never ends; without one,
\* when the job ends; unless the loop is stopped.
CReturns == coro = "suspended" ~> (coro = "resumed" \/ loop # "Running")

=============================================================================
