--------------------------- MODULE AsyncRedisClient ---------------------------
(***************************************************************************)
(* One AsyncRedisClient with its AsyncInflightLimiter, the commands of the *)
(* coroutines that share it, and the driver in main.cpp that destroys it.  *)
(*                                                                         *)
(* Everything but the driver runs on the loop thread, and resuming a       *)
(* coroutine is a call: a released permit resumes the next waiter, whose   *)
(* command may fail and resume its coroutine, whose permit is released,    *)
(* all before the first release returns.  stack holds the calls that have  *)
(* not returned, the innermost first.  A frame is what is left to do of a  *)
(* call:                                                                   *)
(*   issue     issue_command of a command that has just been given a permit*)
(*   cleanup   WaitAndExecute::run after issue_command                     *)
(*   resume    handle.resume() of the coroutine that awaits the command    *)
(*   drop      the destruction of its CommandState and of the Guard in it  *)
(*   timedout  OnTimeout after the permit has been released                *)
(*   teardown  hiredis answers what is on the wire and frees the context   *)
(***************************************************************************)
EXTENDS Naturals, Sequences, FiniteSets, Functions

CONSTANTS
    Command,     \* the commands that coroutines issue, one each
    Limits       \* the values of policy.max_inflight to consider

ASSUME LimitsAssumption ==
    /\ Limits \subseteq Nat \ {0}
    /\ IsFiniteSet(Command)

VARIABLES
    cmd,         \* per command: CommandState, coroutine, callback ref, helper
    current,     \* AsyncInflightLimiter::current_
    waiters,     \* AsyncInflightLimiter::waiters_
    ctx,         \* ctx_: "connecting", "open", being torn down before or after
                 \* it was open ("failing", "closing"), "null", or "freed": not
                 \* null, the context is gone
    wire,        \* the replies hiredis waits for, in the order of the commands
    queue,       \* callbacks posted to the loop
    stack,       \* see above
    loop,        \* "Running", "Stopping", "Stopped", "Exited"
    driver,      \* main: "running", "returned", "stopping", "destroyed"
    conf         \* max_permits_, is there a request_timeout_ms, may a deadline
                 \* end the request early, is this the benchmark driver

vars == <<cmd, current, waiters, ctx, wire, queue, stack, loop, driver, conf>>
limiter == <<current, waiters>>
outside == <<loop, driver, conf>>

F(at, c) == [at |-> at, c |-> c]
None == "none"

TypeOK ==
    /\ cmd \in [Command ->
          [at        : {"new", "posted", "waiting", "issued", "done"},
           arrival   : 0..Cardinality(Command),
           result    : {"none", "reply", "error", "timeout"},
           resumes   : 0..1,
           completed : BOOLEAN,
           permit    : BOOLEAN,
           timer     : {"none", "active", "closed"},
           ref       : {"none", "live", "deleted"},
           helper    : {"none", "waiting", "posted", "leaked", "freed"}]]
    /\ current \in 0..conf.max
    /\ waiters \in Seq(Command)
    /\ ctx \in {"connecting", "open", "failing", "closing", "null", "freed"}
    /\ wire \in Seq(Command)
    /\ loop \in {"Running", "Stopping", "Stopped", "Exited"}
    /\ driver \in {"running", "returned", "stopping", "destroyed"}
    /\ conf \in [max : Limits, timeouts : BOOLEAN, deadlines : BOOLEAN, bench : BOOLEAN]

\* Create and connect: the context exists, the connection is being made.
Init ==
    /\ cmd = [c \in Command |->
                [at |-> "new", arrival |-> 0, result |-> "none", resumes |-> 0,
                 completed |-> FALSE, permit |-> FALSE, timer |-> "none",
                 ref |-> "none", helper |-> "none"]]
    /\ current = 0
    /\ waiters = <<>>
    /\ ctx = "connecting"
    /\ wire = <<>>
    /\ queue = <<>>
    /\ stack = <<>>
    /\ loop = "Running"
    /\ driver = "running"
    /\ conf \in [max : Limits, timeouts : BOOLEAN, deadlines : BOOLEAN, bench : BOOLEAN]

\* The loop thread is between two callbacks.
Idle == stack = <<>> /\ loop # "Exited"
Top(f) == stack # <<>> /\ Head(stack) = f
Runs(at, c) == Idle /\ queue # <<>> /\ Head(queue) = F(at, c)

\* release(), with the commands as in cm and the calls in s to return to: the
\* permit goes to the first waiter, which is resumed inside the call.
Release(cm, s) ==
    IF waiters = <<>>
    THEN /\ current' = current - 1
         /\ cmd' = cm
         /\ stack' = s
         /\ UNCHANGED waiters
    ELSE /\ waiters' = Tail(waiters)
         /\ cmd' = [cm EXCEPT ![Head(waiters)].permit = TRUE]
         /\ stack' = <<F("issue", Head(waiters)), F("cleanup", Head(waiters))>> \o s
         /\ UNCHANGED current

\* The coroutine of c goes on; await_resume's awaitable and then the
\* CommandState are destroyed.
GoOn(c, s) == <<F("resume", c), F("drop", c)>> \o s

-----------------------------------------------------------------------------
\* await_suspend: the command is posted to the loop, or fails without a
\* suspension.
Suspend(c) ==
    \/ /\ loop = "Running"
       /\ cmd' = [cmd EXCEPT ![c].at = "posted",
                             ![c].arrival = 1 + Cardinality({d \in Command : cmd[d].arrival > 0})]
       /\ queue' = Append(queue, F("execute", c))
    \/ /\ loop # "Running"
       /\ cmd' = [cmd EXCEPT ![c].at = "done", ![c].result = "error"]
       /\ UNCHANGED queue

\* HGet, LRange or HGetAll, called by a coroutine on the loop thread which some
\* callback or the end of another command has just resumed.  After a request
\* without deadlines no command of it is left to call.
Call(c) ==
    /\ cmd[c].at = "new"
    /\ Idle \/ (stack # <<>> /\ Head(stack).at = "drop")
    /\ driver = "running" \/ conf.deadlines
    /\ \/ ctx # "null" /\ Suspend(c)
       \/ /\ ctx = "null"
          /\ cmd' = [cmd EXCEPT ![c].at = "done", ![c].result = "error"]
          /\ UNCHANGED queue
    /\ UNCHANGED <<limiter, ctx, wire, stack, outside>>

\* execute_on_loop: take a permit and issue, or wait in a coroutine of its own.
Execute(c) ==
    /\ Runs("execute", c)
    /\ queue' = Tail(queue)
    /\ \/ /\ current < conf.max
          /\ current' = current + 1
          /\ cmd' = [cmd EXCEPT ![c].permit = TRUE]
          /\ stack' = <<F("issue", c)>>
          /\ UNCHANGED waiters
       \/ /\ current = conf.max
          /\ waiters' = Append(waiters, c)
          /\ cmd' = [cmd EXCEPT ![c].at = "waiting", ![c].helper = "waiting"]
          /\ UNCHANGED <<current, stack>>
    /\ UNCHANGED <<ctx, wire, outside>>

\* issue_command.  hiredis refuses a command while it tears the context down, and
\* may refuse one at any time; what a freed context does is undefined: it
\* refuses, or takes the command and never answers.
Issue(c) ==
    /\ Top(F("issue", c))
    /\ \/ /\ ctx = "null"
          /\ cmd' = [cmd EXCEPT ![c].result = "error"]
          /\ stack' = GoOn(c, Tail(stack))
          /\ UNCHANGED wire
       \/ /\ ctx \in {"connecting", "open", "freed"}
          /\ cmd' = [cmd EXCEPT ![c].at = "issued", ![c].ref = "live",
                                ![c].timer = IF conf.timeouts THEN "active" ELSE "none"]
          /\ wire' = IF ctx = "freed" THEN wire ELSE Append(wire, c)
          /\ stack' = Tail(stack)
       \/ /\ ctx # "null"
          /\ cmd' = [cmd EXCEPT ![c].result = "error", ![c].ref = "deleted",
                                ![c].timer = IF conf.timeouts THEN "closed" ELSE "none"]
          /\ stack' = GoOn(c, Tail(stack))
          /\ UNCHANGED wire
    /\ UNCHANGED <<limiter, ctx, queue, outside>>

\* The end of WaitAndExecute::run: its own deletion is posted, or it is leaked.
Cleanup(c) ==
    /\ Top(F("cleanup", c))
    /\ stack' = Tail(stack)
    /\ \/ /\ loop = "Running"
          /\ queue' = Append(queue, F("delete", c))
          /\ cmd' = [cmd EXCEPT ![c].helper = "posted"]
       \/ /\ loop # "Running"
          /\ cmd' = [cmd EXCEPT ![c].helper = "leaked"]
          /\ UNCHANGED queue
    /\ UNCHANGED <<limiter, ctx, wire, outside>>

Delete(c) ==
    /\ Runs("delete", c)
    /\ queue' = Tail(queue)
    /\ cmd' = [cmd EXCEPT ![c].helper = "freed"]
    /\ UNCHANGED <<limiter, ctx, wire, stack, outside>>

\* await_resume.
Resume(c) ==
    /\ Top(F("resume", c))
    /\ stack' = Tail(stack)
    /\ cmd' = [cmd EXCEPT ![c].at = "done", ![c].resumes = @ + 1]
    /\ UNCHANGED <<limiter, ctx, wire, queue, outside>>

\* ~CommandState, with ~Guard.
Drop(c) ==
    /\ Top(F("drop", c))
    /\ IF cmd[c].permit
       THEN Release([cmd EXCEPT ![c].permit = FALSE], Tail(stack))
       ELSE stack' = Tail(stack) /\ UNCHANGED <<cmd, limiter>>
    /\ UNCHANGED <<ctx, wire, queue, outside>>

-----------------------------------------------------------------------------
\* Mutant: the timer is not cancelled.
OnReplyKeepsTimer(c, res, s) ==
    LET wanted == cmd[c].at # "done" /\ ~cmd[c].completed
    IN  /\ cmd' = [cmd EXCEPT ![c].ref = "deleted",
                              ![c].completed = @ \/ wanted,
                              ![c].result = IF wanted THEN res ELSE @]
        /\ stack' = IF wanted THEN GoOn(c, s) ELSE s

\* OnReply, in a call that returns to s: the callback ref goes; if the
\* CommandState still exists and its timeout has not decided the race, the timer
\* is cancelled, the reply stored and the coroutine resumed.
OnReply(c, res, s) ==
    LET wanted == cmd[c].at # "done" /\ ~cmd[c].completed
    IN  /\ cmd' = [cmd EXCEPT ![c].ref = "deleted",
                              ![c].completed = @ \/ wanted,
                              ![c].timer = IF wanted /\ @ = "active" THEN "closed" ELSE @,
                              ![c].result = IF wanted THEN res ELSE @]
        /\ stack' = IF wanted THEN GoOn(c, s) ELSE s

\* hiredis reads the reply to the oldest command, and OnReply parses it (what is
\* in it decides between a value and an error in await_resume, no more).
Reply ==
    /\ Idle /\ ctx = "open" /\ wire # <<>>
    /\ wire' = Tail(wire)
    /\ OnReply(Head(wire), "reply", stack)
    /\ UNCHANGED <<limiter, ctx, queue, outside>>

\* Mutant: the permit is counted down and no waiter is woken.
TimeoutDecrements(c) ==
    /\ Idle /\ cmd[c].timer = "active"
    /\ ~cmd[c].completed
    /\ cmd' = [cmd EXCEPT ![c].completed = TRUE, ![c].result = "timeout", ![c].timer = "closed"]
    /\ stack' = <<F("timedout", c)>>
    /\ current' = current - 1
    /\ UNCHANGED <<waiters, ctx, wire, queue, outside>>

\* OnTimeout: the race is decided, the timer closed, the permit given up before
\* the coroutine is resumed.
OnTimeout(c) ==
    /\ Idle /\ cmd[c].timer = "active"
    /\ ~cmd[c].completed
    /\ Release([cmd EXCEPT ![c].completed = TRUE, ![c].result = "timeout",
                           ![c].timer = "closed"],
               <<F("timedout", c)>>)
    /\ UNCHANGED <<ctx, wire, queue, outside>>

\* Mutant: the Guard still refers to the limiter.
TimedOutKeepsGuard(c) ==
    /\ Top(F("timedout", c))
    /\ stack' = GoOn(c, Tail(stack))
    /\ UNCHANGED <<cmd, limiter, ctx, wire, queue, outside>>

\* The assignment to state->permit ends, with an empty Guard; resume.
TimedOut(c) ==
    /\ Top(F("timedout", c))
    /\ cmd' = [cmd EXCEPT ![c].permit = FALSE]
    /\ stack' = GoOn(c, Tail(stack))
    /\ UNCHANGED <<limiter, ctx, wire, queue, outside>>

-----------------------------------------------------------------------------
\* OnConnect with REDIS_OK.
OnConnect ==
    /\ Idle /\ ctx = "connecting"
    /\ ctx' = "open"
    /\ UNCHANGED <<cmd, limiter, wire, queue, stack, outside>>

\* The connection is refused or lost: hiredis calls OnConnect with an error (which
\* leaves ctx_ alone) or begins to tear the context down.
Lost ==
    /\ Idle /\ ctx \in {"connecting", "open"}
    /\ ctx' = IF ctx = "open" THEN "closing" ELSE "failing"
    /\ stack' = <<F("teardown", None)>>
    /\ UNCHANGED <<cmd, limiter, wire, queue, outside>>

\* Every command on the wire is answered with a null reply, then the context is
\* freed; OnDisconnect, which clears ctx_, is called only if it was open.
Teardown ==
    /\ Top(F("teardown", None))
    /\ \/ /\ wire # <<>>
          /\ wire' = Tail(wire)
          /\ OnReply(Head(wire), "error", stack)
          /\ UNCHANGED ctx
       \/ /\ wire = <<>>
          /\ ctx' = IF ctx = "closing" THEN "null" ELSE "freed"
          /\ stack' = Tail(stack)
          /\ UNCHANGED <<cmd, wire>>
    /\ UNCHANGED <<limiter, queue, outside>>

-----------------------------------------------------------------------------
\* main.  A request without deadlines returns when its nodes have ended; a
\* deadline leaves the commands of the nodes it gives up in flight.
Return ==
    /\ driver = "running"
    /\ stack = <<>>
    /\ conf.deadlines \/ \A c \in Command : cmd[c].at \in {"new", "done"}
    /\ driver' = "returned"
    /\ UNCHANGED <<cmd, limiter, ctx, wire, queue, stack, loop, conf>>

\* A single request: Stop, which waits for the loop thread, then the destructors.
Stop ==
    /\ driver = "returned" /\ ~conf.bench
    /\ driver' = "stopping"
    /\ loop' = "Stopping"
    /\ queue' = Append(queue, F("stop", None))
    /\ UNCHANGED <<cmd, limiter, ctx, wire, stack, conf>>

\* DoStop closes the timers (the queue before it has been drained).
DoStop ==
    /\ Runs("stop", None)
    /\ queue' = Tail(queue)
    /\ loop' = "Stopped"
    /\ cmd' = [c \in Command |->
                 [cmd[c] EXCEPT !.timer = IF @ = "active" THEN "closed" ELSE @]]
    /\ UNCHANGED <<limiter, ctx, wire, stack, driver, conf>>

Exit ==
    /\ Idle /\ loop = "Stopped"
    /\ loop' = "Exited"
    /\ UNCHANGED <<cmd, limiter, ctx, wire, queue, stack, driver, conf>>

\* The client is destroyed: by the benchmark while the loop runs, otherwise after
\* Stop.  What the loop thread does from then on with what is left is undefined
\* and not modelled.
Destroy ==
    /\ IF conf.bench THEN driver = "returned" ELSE driver = "stopping" /\ loop = "Exited"
    /\ driver' = "destroyed"
    /\ UNCHANGED <<cmd, limiter, ctx, wire, queue, stack, loop, conf>>

-----------------------------------------------------------------------------
LoopStep ==
    \/ \E c \in Command :
          \/ Execute(c) \/ Issue(c) \/ Cleanup(c) \/ Delete(c)
          \/ Resume(c) \/ Drop(c) \/ OnTimeout(c) \/ TimedOut(c)
    \/ Teardown \/ DoStop \/ Exit

Next ==
    /\ driver # "destroyed"
    /\ \/ LoopStep
       \/ \E c \in Command : Call(c)
       \/ Reply \/ OnConnect \/ Lost
       \/ Return \/ Stop \/ Destroy

Spec == Init /\ [][Next]_vars

\* The loop thread is scheduled and timers expire.  Connecting ends, one way or
\* the other (connect_timeout_ms); Redis answers only where no request timeout is
\* there to do without it.
Fairness ==
    /\ WF_vars(driver # "destroyed" /\ LoopStep)
    /\ WF_vars(driver # "destroyed" /\ (OnConnect \/ (ctx = "connecting" /\ Lost)))
    /\ WF_vars(driver # "destroyed" /\ ~conf.timeouts /\ Reply)
FairSpec == Spec /\ Fairness

-----------------------------------------------------------------------------
(***************************************************************************)
(* Properties                                                              *)
(***************************************************************************)
Releasing == {c \in Command : F("timedout", c) \in Range(stack)}

\* The limiter counts exactly the Guards that hold a permit, through every chain of
\* releases and resumptions and on every path (reply, timeout, refusal, loss of the
\* connection); nobody waits while a permit is free; and the client of a request
\* without deadlines is destroyed with no permit out.
PermitsExact ==
    /\ current = Cardinality({c \in Command : cmd[c].permit} \ Releasing)
    /\ waiters # <<>> => current = conf.max
    /\ driver = "destroyed" /\ ~conf.deadlines => current = 0

\* Raw pointers are good: a timer that can fire finds its CommandState and a race
\* still to be decided; hiredis has a live callback ref for every command on the
\* wire, once, and there is no other ref unless the context was freed under us;
\* no call on the stack is about to use a command whose coroutine has gone on.
PointersSound ==
    \A c \in Command :
        /\ cmd[c].timer = "active" => cmd[c].at = "issued" /\ ~cmd[c].completed
        /\ c \in Range(wire) => cmd[c].ref = "live"
        /\ cmd[c].ref = "live" => c \in Range(wire) \/ ctx = "freed"
        /\ Cardinality({i \in DOMAIN wire : wire[i] = c}) <= 1
        /\ \A at \in {"issue", "resume", "timedout"} :
              F(at, c) \in Range(stack) => cmd[c].at # "done"

\* Commands leave the limiter in the order in which they were posted: no command
\* overtakes one that waits for a permit.
InOrder ==
    \A c, d \in Command :
        /\ 0 < cmd[c].arrival /\ cmd[c].arrival < cmd[d].arrival
        /\ cmd[d].permit \/ cmd[d].at \in {"issued", "done"}
        => cmd[c].at \notin {"posted", "waiting"} \/ cmd[c].permit

\* The limiter is exact and fair; the types say that no command is resumed twice.
PermitsSound == TypeOK /\ PermitsExact /\ InOrder

\* A posted command returns, also if it has to wait for others' permits and Redis
\* is silent, provided there is a request timeout or the context is not gone, and
\* the loop is not stopped.
CommandsReturn ==
    \A c \in Command : cmd[c].at = "posted" ~>
        \/ cmd[c].at = "done"
        \/ loop # "Running" \/ driver = "destroyed"
        \/ ctx = "freed" /\ ~conf.timeouts

=============================================================================
