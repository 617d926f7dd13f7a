------------------------------- MODULE EventLoop -------------------------------
(***************************************************************************)
(* The libuv event loop wrapper: Start, Stop, Post, the loop thread and    *)
(* the destructor, called from any number of threads.  A step ends where   *)
(* another thread can act: at an atomic access of state_, at the release   *)
(* of queue_mutex_, at uv_async_send, at an access of loop_thread_.  A     *)
(* load of state_ followed by the compare-exchange that acts on it is one  *)
(* step, since a failed exchange only goes round Stop's loop.              *)
(*                                                                         *)
(* loop_thread_ is a plain std::thread that Start assigns after the new    *)
(* thread is already running: other threads may look at it before or after *)
(* that assignment.                                                        *)
(*                                                                         *)
(* libuv is external: uv_async_send marks the handle pending, uv_run calls *)
(* OnAsync for a pending open handle and returns once uv_stop was called.  *)
(***************************************************************************)
EXTENDS Naturals, Sequences, FiniteSets

CONSTANTS
    Starters,    \* threads that call Start
    Stoppers,    \* threads that call Stop
    Callback,    \* callbacks that some thread posts
    Kind,        \* what each does: "plain", "stop" (calls Stop), "post" (posts Echo)
    Echo,        \* the callback a "post" callback posts from the loop thread
    MayFail      \* may uv_async_init or the creation of the thread fail?

Owner == "owner"                      \* the thread that runs the destructor
Stopping == Stoppers \cup {Owner}     \* threads that run Stop off the loop thread
Posts == Callback \cup {Echo}
DoStopCb == "DoStop"                  \* the lambda Stop pushes

ASSUME CallbackAssumption ==
    /\ Kind \in [Callback -> {"plain", "stop", "post"}]
    /\ \A c, d \in Callback : Kind[c] = "post" /\ Kind[d] = "post" => c = d
    /\ Echo \notin Callback
    /\ DoStopCb \notin Posts
    /\ Owner \notin Stoppers
    /\ MayFail \in BOOLEAN

VARIABLES
    state,        \* state_
    queue,        \* queue_
    async,        \* the async_ handle: "none", "open" or "closed"
    pending,      \* async_ has been sent and not been handled
    stop_flag,    \* uv_stop has been called
    loop_thread,  \* loop_thread_: "unassigned", "joinable", "joined", "detached"
    lt,           \* the loop thread: "none", "begin", "poll", "busy", "leaving", "exited"
    frames,       \* its nested DrainQueue activations, innermost last
    exited,       \* exit_state_->exited
    start,        \* per starter, where it is in Start
    stop,         \* per stopping thread, where it is in Stop
    post,         \* per callback, where its Post is
    ran,          \* per callback, how often it has run
    stops,        \* how often DoStop has closed the handles
    dtor          \* where the destructor is

loopVars == <<state, queue, async, pending, stop_flag, loop_thread, lt, frames,
              exited, start, stop, post, ran, stops, dtor>>

States == {"Idle", "Starting", "Running", "Stopping", "Stopped"}
FrameKinds == {"async", "init", "queued", "inline"}

LoopTypeOK ==
    /\ state \in States
    /\ queue \in Seq(Posts \cup {DoStopCb})
    /\ async \in {"none", "open", "closed"}
    /\ pending \in BOOLEAN
    /\ stop_flag \in BOOLEAN
    /\ loop_thread \in {"unassigned", "joinable", "joined", "detached"}
    /\ lt \in {"none", "begin", "poll", "busy", "leaving", "exited"}
    /\ frames \in Seq([cbs : Seq(Posts \cup {DoStopCb}), kind : FrameKinds])
    /\ exited \in BOOLEAN
    /\ start \in [Starters -> {"idle", "init", "spawn", "assign", "spin", "returned", "failed"}]
    /\ stop \in [Stopping -> {"idle", "push", "send", "join", "returned"}]
    /\ post \in [Posts -> {"idle", "checked", "pushed", "accepted", "refused"}]
    /\ ran \in [Posts -> {0, 1}]
    /\ stops \in Nat
    /\ dtor \in {"none", "stop", "wait", "join", "destroyed"}

LoopInit ==
    /\ state = "Idle"
    /\ queue = <<>>
    /\ async = "none"
    /\ pending = FALSE
    /\ stop_flag = FALSE
    /\ loop_thread = "unassigned"
    /\ lt = "none"
    /\ frames = <<>>
    /\ exited = FALSE
    /\ start = [s \in Starters |-> "idle"]
    /\ stop = [s \in Stopping |-> "idle"]
    /\ post = [c \in Posts |-> "idle"]
    /\ ran = [c \in Posts |-> 0]
    /\ stops = 0
    /\ dtor = "none"

-----------------------------------------------------------------------------
(***************************************************************************)
(* Start, called by thread s.                                              *)
(***************************************************************************)
StartBegin(s) ==
    /\ dtor = "none"
    /\ start[s] = "idle"
    /\ \/ /\ state = "Idle"
          /\ state' = "Starting"
          /\ start' = [start EXCEPT ![s] = "init"]
       \/ /\ state # "Idle"
          /\ start' = [start EXCEPT ![s] = "returned"]
          /\ UNCHANGED state
    /\ UNCHANGED <<queue, async, pending, stop_flag, loop_thread, lt, frames,
                   exited, stop, post, ran, stops, dtor>>

\* uv_async_init; a failure stores Idle whatever state_ has become.
StartInit(s) ==
    /\ start[s] = "init"
    /\ \/ /\ async' = "open"
          /\ start' = [start EXCEPT ![s] = "spawn"]
          /\ UNCHANGED state
       \/ /\ MayFail
          /\ state' = "Idle"
          /\ start' = [start EXCEPT ![s] = "failed"]
          /\ UNCHANGED async
    /\ UNCHANGED <<queue, pending, stop_flag, loop_thread, lt, frames, exited,
                   stop, post, ran, stops, dtor>>

\* The std::thread constructor: the new thread may run before Start goes on.
StartSpawn(s) ==
    /\ start[s] = "spawn"
    /\ \/ /\ lt' = "begin"
          /\ start' = [start EXCEPT ![s] = "assign"]
          /\ UNCHANGED <<state, async>>
       \/ /\ MayFail
          /\ async' = "none"
          /\ state' = "Idle"
          /\ start' = [start EXCEPT ![s] = "failed"]
          /\ UNCHANGED lt
    /\ UNCHANGED <<queue, pending, stop_flag, loop_thread, frames, exited, stop,
                   post, ran, stops, dtor>>

StartAssign(s) ==
    /\ start[s] = "assign"
    /\ loop_thread' = "joinable"
    /\ start' = [start EXCEPT ![s] = "spin"]
    /\ UNCHANGED <<state, queue, async, pending, stop_flag, lt, frames, exited,
                   stop, post, ran, stops, dtor>>

\* The spin loop ends when the state has left Starting.
StartSpin(s) ==
    /\ start[s] = "spin"
    /\ state \in {"Running", "Stopping", "Stopped"}
    /\ start' = [start EXCEPT ![s] = "returned"]
    /\ UNCHANGED <<state, queue, async, pending, stop_flag, loop_thread, lt,
                   frames, exited, stop, post, ran, stops, dtor>>

-----------------------------------------------------------------------------
(***************************************************************************)
(* Stop, called by thread s off the loop thread.                           *)
(***************************************************************************)
StopBegin(s) ==
    /\ stop[s] = "idle"
    /\ IF s = Owner THEN dtor = "stop" ELSE dtor = "none"
    /\ \/ /\ state = "Starting"
          /\ state' = "Stopping"
          /\ stop' = [stop EXCEPT ![s] = "join"]
       \/ /\ state = "Running"
          /\ state' = "Stopping"
          /\ stop' = [stop EXCEPT ![s] = "push"]
       \/ /\ state \in {"Idle", "Stopping", "Stopped"}
          /\ stop' = [stop EXCEPT ![s] = "returned"]
          /\ UNCHANGED state
    /\ UNCHANGED <<queue, async, pending, stop_flag, loop_thread, lt, frames,
                   exited, start, post, ran, stops, dtor>>

StopPush(s) ==
    /\ stop[s] = "push"
    /\ queue' = Append(queue, DoStopCb)
    /\ stop' = [stop EXCEPT ![s] = "send"]
    /\ UNCHANGED <<state, async, pending, stop_flag, loop_thread, lt, frames,
                   exited, start, post, ran, stops, dtor>>

StopSend(s) ==
    /\ stop[s] = "send"
    /\ pending' = TRUE
    /\ stop' = [stop EXCEPT ![s] = "join"]
    /\ UNCHANGED <<state, queue, async, stop_flag, loop_thread, lt, frames,
                   exited, start, post, ran, stops, dtor>>

\* if (joinable()) join(): a thread that is not assigned yet is not joined.
StopJoin(s) ==
    /\ stop[s] = "join"
    /\ \/ loop_thread # "joinable" /\ UNCHANGED loop_thread
       \/ loop_thread = "joinable" /\ lt = "exited" /\ loop_thread' = "joined"
    /\ stop' = [stop EXCEPT ![s] = "returned"]
    /\ UNCHANGED <<state, queue, async, pending, stop_flag, lt, frames, exited,
                   start, post, ran, stops, dtor>>

-----------------------------------------------------------------------------
(***************************************************************************)
(* Post of callback c: by its own thread, or for Echo by the loop thread.  *)
(***************************************************************************)

\* The first look at state_, without the lock.
Checked(c) ==
    post' = [post EXCEPT ![c] = IF state = "Running" THEN "checked" ELSE "refused"]

PostBegin(c) ==
    /\ dtor = "none"
    /\ c # Echo
    /\ post[c] = "idle"
    /\ Checked(c)
    /\ UNCHANGED <<state, queue, async, pending, stop_flag, loop_thread, lt,
                   frames, exited, start, stop, ran, stops, dtor>>

\* Mutant: no second look under the lock.
PushUnchecked(c) ==
    /\ post[c] = "checked"
    /\ queue' = Append(queue, c)
    /\ post' = [post EXCEPT ![c] = "pushed"]
    /\ UNCHANGED <<state, async, pending, stop_flag, loop_thread, lt, frames,
                   exited, start, stop, ran, stops, dtor>>

\* Under queue_mutex_: look again, push.  Stop changes state_ without the
\* mutex, so it may do so between the look and the push; the push is then still
\* before the DrainQueue of DoStop, which needs the mutex.
PostPush(c) ==
    /\ post[c] = "checked"
    /\ \/ /\ state = "Running"
          /\ queue' = Append(queue, c)
          /\ post' = [post EXCEPT ![c] = "pushed"]
       \/ /\ state # "Running"
          /\ post' = [post EXCEPT ![c] = "refused"]
          /\ UNCHANGED queue
    /\ UNCHANGED <<state, async, pending, stop_flag, loop_thread, lt, frames,
                   exited, start, stop, ran, stops, dtor>>

\* Mutant: uv_async_send is left to a later Post.
SendForgotten(c) ==
    /\ post[c] = "pushed"
    /\ post' = [post EXCEPT ![c] = "accepted"]
    /\ UNCHANGED <<state, queue, async, pending, stop_flag, loop_thread, lt,
                   frames, exited, start, stop, ran, stops, dtor>>

\* uv_async_send and return true.
PostSend(c) ==
    /\ post[c] = "pushed"
    /\ pending' = TRUE
    /\ post' = [post EXCEPT ![c] = "accepted"]
    /\ UNCHANGED <<state, queue, async, stop_flag, loop_thread, lt, frames,
                   exited, start, stop, ran, stops, dtor>>

-----------------------------------------------------------------------------
(***************************************************************************)
(* The loop thread.                                                        *)
(***************************************************************************)

\* A DrainQueue activation: the queue is swapped into a local one.
Frame(k) == [cbs |-> queue, kind |-> k]
Inner == frames[Len(frames)]
Outer == SubSeq(frames, 1, Len(frames) - 1)

\* Mutant: the new thread stores Running without a compare-exchange.
LoopBeginStores ==
    /\ lt = "begin"
    /\ state' = "Running"
    /\ lt' = "poll"
    /\ UNCHANGED <<queue, async, pending, stop_flag, loop_thread, frames,
                   exited, start, stop, post, ran, stops, dtor>>

\* Starting -> Running; if Stop came first, DoStop at once, without uv_run.
LoopBegin ==
    /\ lt = "begin"
    /\ \/ /\ state = "Starting"
          /\ state' = "Running"
          /\ lt' = "poll"
          /\ UNCHANGED <<queue, frames>>
       \/ /\ state # "Starting"
          /\ frames' = <<Frame("init")>>
          /\ queue' = <<>>
          /\ lt' = "busy"
          /\ UNCHANGED state
    /\ UNCHANGED <<async, pending, stop_flag, loop_thread, exited, start, stop,
                   post, ran, stops, dtor>>

\* uv_run calls OnAsync, OnAsync calls DrainQueue.
OnAsync ==
    /\ lt = "poll"
    /\ ~stop_flag
    /\ pending /\ async = "open"
    /\ pending' = FALSE
    /\ frames' = <<Frame("async")>>
    /\ queue' = <<>>
    /\ lt' = "busy"
    /\ UNCHANGED <<state, async, stop_flag, loop_thread, exited, start, stop,
                   post, ran, stops, dtor>>

\* The loop thread is inside a callback's own Post while Echo's is under way.
InCallback == post[Echo] \in {"checked", "pushed"}

\* DrainQueue runs the next callback c of the innermost local queue; rest is what
\* the activation has left to run.
NextIs(c) ==
    /\ lt = "busy" /\ ~InCallback
    /\ Inner.cbs # <<>>
    /\ Head(Inner.cbs) = c
KindOf(c) == IF c = Echo THEN "plain" ELSE Kind[c]
Rest == [Inner EXCEPT !.cbs = Tail(@)]

RunPlain(c) ==
    /\ NextIs(c)
    /\ KindOf(c) = "plain"
    /\ ran' = [ran EXCEPT ![c] = @ + 1]
    /\ frames' = Append(Outer, Rest)
    /\ UNCHANGED <<state, queue, async, pending, stop_flag, loop_thread, lt,
                   exited, start, stop, post, stops, dtor>>

RunPost(c) ==
    /\ NextIs(c)
    /\ KindOf(c) = "post"
    /\ ran' = [ran EXCEPT ![c] = @ + 1]
    /\ frames' = Append(Outer, Rest)
    /\ Checked(Echo)
    /\ UNCHANGED <<state, queue, async, pending, stop_flag, loop_thread, lt,
                   exited, start, stop, stops, dtor>>

\* A callback calls Stop on the loop thread: DoStop inline if it wins.
RunStop(c) ==
    /\ NextIs(c)
    /\ KindOf(c) = "stop"
    /\ ran' = [ran EXCEPT ![c] = @ + 1]
    /\ \/ /\ state = "Running"
          /\ state' = "Stopping"
          /\ frames' = Outer \o <<Rest, Frame("inline")>>
          /\ queue' = <<>>
       \/ /\ state # "Running"
          /\ frames' = Append(Outer, Rest)
          /\ UNCHANGED <<state, queue>>
    /\ UNCHANGED <<async, pending, stop_flag, loop_thread, lt, exited, start,
                   stop, post, stops, dtor>>

\* The lambda that Stop pushed calls DoStop, which first drains the queue again.
RunDoStop ==
    /\ NextIs(DoStopCb)
    /\ frames' = Outer \o <<Rest, Frame("queued")>>
    /\ queue' = <<>>
    /\ UNCHANGED <<state, async, pending, stop_flag, loop_thread, lt, exited,
                   start, stop, post, ran, stops, dtor>>

\* Where the thread is when an activation has returned.
Back(k) ==
    CASE Len(frames) > 1              -> "busy"
      [] Len(frames) = 1 /\ k = "init" -> "leaving"
      [] OTHER                        -> "poll"

\* OnAsync returns to uv_run.
DrainEnd ==
    /\ lt = "busy" /\ ~InCallback
    /\ Inner.cbs = <<>> /\ Inner.kind = "async"
    /\ frames' = Outer
    /\ lt' = Back("async")
    /\ UNCHANGED <<state, queue, async, pending, stop_flag, loop_thread, exited,
                   start, stop, post, ran, stops, dtor>>

\* The rest of DoStop: close the handles, uv_stop, Stopped; a Stop on the loop
\* thread then detaches the thread.
DoStopEnd ==
    /\ lt = "busy" /\ ~InCallback
    /\ Inner.cbs = <<>> /\ Inner.kind # "async"
    /\ async' = "closed"
    /\ stop_flag' = TRUE
    /\ state' = "Stopped"
    /\ stops' = stops + 1
    /\ loop_thread' = IF Inner.kind = "inline" /\ loop_thread = "joinable"
                      THEN "detached" ELSE loop_thread
    /\ frames' = Outer
    /\ lt' = Back(Inner.kind)
    /\ UNCHANGED <<queue, pending, exited, start, stop, post, ran, dtor>>

\* uv_run returns.
LoopReturns ==
    /\ lt = "poll"
    /\ stop_flag
    /\ lt' = "leaving"
    /\ UNCHANGED <<state, queue, async, pending, stop_flag, loop_thread, frames,
                   exited, start, stop, post, ran, stops, dtor>>

\* The thread signals exit_cv and ends.
LoopExit ==
    /\ lt = "leaving"
    /\ exited' = TRUE
    /\ lt' = "exited"
    /\ UNCHANGED <<state, queue, async, pending, stop_flag, loop_thread, frames,
                   start, stop, post, ran, stops, dtor>>

-----------------------------------------------------------------------------
(***************************************************************************)
(* The destructor: its caller has made sure that no other call is under    *)
(* way and that none will follow.                                          *)
(***************************************************************************)
DtorBegin ==
    /\ dtor = "none"
    /\ \A s \in Starters : start[s] \in {"idle", "returned", "failed"}
    /\ \A s \in Stoppers : stop[s] \in {"idle", "returned"}
    /\ \A c \in Callback : post[c] \in {"idle", "accepted", "refused"}
    /\ dtor' = "stop"
    /\ UNCHANGED <<state, queue, async, pending, stop_flag, loop_thread, lt,
                   frames, exited, start, stop, post, ran, stops>>

DtorStopped ==
    /\ dtor = "stop"
    /\ stop[Owner] = "returned"
    /\ dtor' = IF state \in {"Stopping", "Stopped"} THEN "wait" ELSE "join"
    /\ UNCHANGED <<state, queue, async, pending, stop_flag, loop_thread, lt,
                   frames, exited, start, stop, post, ran, stops>>

\* Mutant: the destructor does not wait for the exit signal.
DtorNoWait ==
    /\ dtor = "wait"
    /\ dtor' = "join"
    /\ UNCHANGED <<state, queue, async, pending, stop_flag, loop_thread, lt,
                   frames, exited, start, stop, post, ran, stops>>

DtorWait ==
    /\ dtor = "wait"
    /\ exited
    /\ dtor' = "join"
    /\ UNCHANGED <<state, queue, async, pending, stop_flag, loop_thread, lt,
                   frames, exited, start, stop, post, ran, stops>>

\* Join if joinable, uv_loop_close, and the object is gone.
DtorJoin ==
    /\ dtor = "join"
    /\ \/ loop_thread # "joinable" /\ UNCHANGED loop_thread
       \/ loop_thread = "joinable" /\ lt = "exited" /\ loop_thread' = "joined"
    /\ dtor' = "destroyed"
    /\ UNCHANGED <<state, queue, async, pending, stop_flag, lt, frames, exited,
                   start, stop, post, ran, stops>>

-----------------------------------------------------------------------------
StartStep(s) ==
    StartBegin(s) \/ StartInit(s) \/ StartSpawn(s) \/ StartAssign(s) \/ StartSpin(s)
StopStep(s) == StopBegin(s) \/ StopPush(s) \/ StopSend(s) \/ StopJoin(s)
PostStep(c) == PostBegin(c) \/ PostPush(c) \/ PostSend(c)
LoopStep ==
    \/ LoopBegin \/ OnAsync
    \/ \E c \in Posts : RunPlain(c) \/ RunPost(c) \/ RunStop(c)
    \/ RunDoStop \/ DrainEnd \/ DoStopEnd
    \/ LoopReturns \/ LoopExit
DtorStep == DtorStopped \/ DtorWait \/ DtorJoin

LoopNext ==
    \/ \E s \in Starters : StartStep(s)
    \/ \E s \in Stopping : StopStep(s)
    \/ \E c \in Posts : PostStep(c)
    \/ LoopStep
    \/ DtorBegin \/ DtorStep

\* Every thread that is inside a call is scheduled, and so is the loop thread;
\* no thread has to make a call.
LoopFairness ==
    /\ \A s \in Starters : WF_loopVars(start[s] # "idle" /\ StartStep(s))
    /\ \A s \in Stoppers : WF_loopVars(stop[s] # "idle" /\ StopStep(s))
    /\ WF_loopVars(StopStep(Owner))
    /\ \A c \in Posts : WF_loopVars(post[c] # "idle" /\ PostStep(c))
    /\ WF_loopVars(LoopStep)
    /\ WF_loopVars(DtorStep)

LoopSpec == LoopInit /\ [][LoopNext]_loopVars
LoopFairSpec == LoopSpec /\ LoopFairness

-----------------------------------------------------------------------------
(***************************************************************************)
(* Properties                                                              *)
(***************************************************************************)

Taken(c) == post[c] \in {"pushed", "accepted"}

\* Post tells the truth: a callback runs only if its Post returns true (a caller
\* that is told "false" may resume or reclaim what the callback refers to), and
\* when the loop thread has ended every callback that Post took has run, however
\* Post, Stop, a Stop inside a callback and DoStop's own DrainQueue were
\* interleaved.
AcceptedRan ==
    /\ \A c \in Posts : ran[c] > 0 => Taken(c)
    /\ lt = "exited" => \A c \in Posts : Taken(c) => ran[c] = 1

\* The destructor outlives the loop thread, which uses loop_ and queue_ until it
\* signals its exit, whoever stopped it and whether it was joined or detached.
NoLoopAfterDestroy == dtor = "destroyed" => lt \in {"none", "exited"}

\* The object is sound as long as somebody may use it: its types, among them that
\* no callback runs twice, and NoLoopAfterDestroy.
LoopSound == LoopTypeOK /\ NoLoopAfterDestroy

\* The shutdown happens once: DoStop closes the handles once (a second uv_close of
\* async_ aborts), and a Stop that has begun is not undone by the thread that is
\* just starting, so Post stays closed while the queue is drained for the last time.
StopIsFinal ==
    [][/\ stops' <= 1
       /\ state \in {"Stopping", "Stopped"} => state' # "Running"]_loopVars

\* Every callback that Post took is run, without any further Post or Stop: no
\* wakeup of the loop is lost.  Start, Stop and the destructor return: no spin,
\* join or wait for the exit signal is for ever.  A Stop is excepted once a Start has failed: the loop it
\* aborted is Idle again, a new Start may assign loop_thread_ before the old Stop
\* reads it, and that Stop then joins a loop nobody has asked to stop.
CallsReturn ==
    /\ \A c \in Posts : Taken(c) ~> ran[c] = 1
    /\ \A s \in Starters : start[s] # "idle" ~> start[s] \in {"returned", "failed"}
    /\ \A s \in Stoppers : stop[s] # "idle" ~>
            (stop[s] = "returned" \/ \E t \in Starters : start[t] = "failed")
    /\ dtor = "stop" ~> dtor = "destroyed"

=============================================================================
