------------------------------ MODULE LoopThread ------------------------------
(***************************************************************************)
(* The event loop as the awaitables see it (module EventLoop is the whole  *)
(* story): Post, the callbacks in the order in which the loop thread runs  *)
(* them, timers, and a Stop from another thread or from inside a callback. *)
(*                                                                         *)
(* DrainQueue inside DoStop runs before the rest of the drain it is called *)
(* from.  todo is what the loop thread is going to run, all activations of *)
(* DrainQueue flattened: the innermost local queue first, then the rest of *)
(* DoStop ("walk"), then the outer local queue.                            *)
(***************************************************************************)
EXTENDS Naturals, Sequences

CONSTANT Timer      \* the uv_timer_t handles

VARIABLES
    loop,      \* "Running", "Stopping", "Stopped", "Exited" (uv_run has returned)
    queue,     \* callbacks posted
    todo,      \* callbacks the loop thread has taken
    timer,     \* per timer: "none", "active" or "closing"
    closes,    \* per timer, the calls of uv_close (at most 2 are counted)
    nested,    \* has a callback that calls Stop been posted?
    inside     \* the handler the loop thread is in the middle of: "none",
               \* "suspend" (await_suspend) or "leave" (~RunnerCleanup is next)

lvars == <<loop, queue, todo, timer, closes, nested, inside>>

DoStopCb == "DoStop"     \* the lambda a Stop of another thread posts
WalkCb == "walk"         \* DoStop after its DrainQueue
QuitCb == "quit"         \* a callback that calls Stop

LInit ==
    /\ loop = "Running"
    /\ queue = <<>>
    /\ todo = <<>>
    /\ timer = [t \in Timer |-> "none"]
    /\ closes = [t \in Timer |-> 0]
    /\ nested = FALSE
    /\ inside = "none"

\* Post: what becomes of the queue, and whether the callback is taken.
Taken == loop = "Running"
Post(q, cb) == IF Taken THEN Append(q, cb) ELSE q

\* The loop thread runs callback cb next.
Runs(cb) == inside = "none" /\ todo # <<>> /\ Head(todo) = cb

\* uv_close of timer t.
Closed(t) ==
    /\ timer' = [timer EXCEPT ![t] = "closing"]
    /\ closes' = [closes EXCEPT ![t] = IF @ < 2 THEN @ + 1 ELSE @]

\* The loop thread runs some other code: a coroutine that comes to a co_await, or
\* the library that completes an asynchronous task.
Elsewhere == inside = "none" /\ loop # "Exited"

\* uv_run is about to call the callback of timer t.
Fires(t) == inside = "none" /\ todo = <<>> /\ loop # "Exited" /\ timer[t] = "active"

-----------------------------------------------------------------------------
\* OnAsync: DrainQueue takes the whole queue.
Poll ==
    /\ loop \in {"Running", "Stopping"}
    /\ inside = "none" /\ todo = <<>> /\ queue # <<>>
    /\ todo' = queue
    /\ queue' = <<>>
    /\ UNCHANGED <<loop, timer, closes, nested, inside>>

\* Another thread calls Stop.
StopElsewhere ==
    /\ loop = "Running"
    /\ loop' = "Stopping"
    /\ queue' = Append(queue, DoStopCb)
    /\ UNCHANGED <<todo, timer, closes, nested, inside>>

\* Another thread posts a callback that will call Stop.
PostQuit ==
    /\ Taken /\ ~nested
    /\ nested' = TRUE
    /\ queue' = Append(queue, QuitCb)
    /\ UNCHANGED <<loop, todo, timer, closes, inside>>

\* DoStop up to the end of its DrainQueue.
DrainFirst == todo' = queue \o <<WalkCb>> \o Tail(todo) /\ queue' = <<>>

RunDoStop ==
    /\ Runs(DoStopCb)
    /\ DrainFirst
    /\ UNCHANGED <<loop, timer, closes, nested, inside>>

RunQuit ==
    /\ Runs(QuitCb)
    /\ \/ /\ loop = "Running"
          /\ loop' = "Stopping"
          /\ DrainFirst
       \/ /\ loop # "Running"
          /\ todo' = Tail(todo)
          /\ UNCHANGED <<loop, queue>>
    /\ UNCHANGED <<timer, closes, nested, inside>>

\* The rest of DoStop: CloseWalkCallback closes every timer that is not closing
\* already (the owner's pointer to it stays), then Stopped.
RunWalk ==
    /\ Runs(WalkCb)
    /\ todo' = Tail(todo)
    /\ loop' = "Stopped"
    /\ timer' = [t \in Timer |-> IF timer[t] = "active" THEN "closing" ELSE timer[t]]
    /\ closes' = [t \in Timer |-> IF timer[t] = "active" THEN closes[t] + 1 ELSE closes[t]]
    /\ UNCHANGED <<queue, nested, inside>>

LoopExits ==
    /\ loop = "Stopped" /\ inside = "none" /\ todo = <<>>
    /\ loop' = "Exited"
    /\ UNCHANGED <<queue, todo, timer, closes, nested, inside>>

LoopStep == Poll \/ RunDoStop \/ RunQuit \/ RunWalk \/ LoopExits
LNext == LoopStep \/ StopElsewhere \/ PostQuit

=============================================================================
