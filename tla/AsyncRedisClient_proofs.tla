------------------------ MODULE AsyncRedisClient_proofs ------------------------
(***************************************************************************)
(* Proofs about AsyncRedisClient, for any number of commands and any       *)
(* limit.                                                                  *)
(*                                                                         *)
(* A command's permit is where the command is: with its call of            *)
(* issue_command, with hiredis, or with the calls that end it.  StackInv   *)
(* says which calls on the stack go together, QueueInv that the commands   *)
(* without a permit stand in line in the order in which they were posted.  *)
(***************************************************************************)
EXTENDS AsyncRedisClient, SequenceTheorems, FiniteSetTheorems, TLAPS

-----------------------------------------------------------------------------
(***************************************************************************)
(* The inductive invariant.                                                *)
(***************************************************************************)
Frames ==
    [at : {"issue", "cleanup", "resume", "drop", "timedout", "execute", "delete"}, c : Command]
       \cup [at : {"teardown", "stop"}, c : {None}]

\* The record of one command, by where the command is.
Life(r) ==
    /\ r.at = "new" => r.arrival = 0 /\ ~r.permit
    /\ r.at \in {"posted", "waiting", "issued"} => r.arrival > 0
    /\ r.at \in {"new", "posted", "waiting"} => ~r.completed /\ r.ref # "live"
    /\ r.at = "issued" /\ ~r.completed => r.permit
    /\ r.at # "done" => r.resumes = 0
    /\ r.timer = "active" => r.at = "issued" /\ ~r.completed

\* No call that ends a command is on the stack twice, and the one that resumes a
\* coroutine returns to the one that destroys its CommandState.
StackOK(s) ==
    /\ \A i, j \in 1..Len(s) :
          s[i] = s[j] /\ s[i].at \in {"issue", "resume", "drop", "timedout"} => i = j
    /\ \A i \in 1..Len(s) :
          s[i].at = "resume" => i + 1 \in 1..Len(s) /\ s[i + 1] = F("drop", s[i].c)

\* What the calls in the set S, which are on the stack, know of command c.
Calls(c, r, S) ==
    /\ F("issue", c) \in S =>
          /\ r.permit /\ r.at \in {"posted", "waiting"}
          /\ {F("resume", c), F("timedout", c), F("drop", c)} \cap S = {}
    /\ F("resume", c) \in S =>
          \/ r.at \in {"posted", "waiting"} /\ r.permit
          \/ r.at = "issued" /\ r.completed
    /\ F("timedout", c) \in S =>
          /\ r.at = "issued" /\ r.completed /\ r.permit
          /\ {F("resume", c), F("drop", c)} \cap S = {}
    /\ F("drop", c) \in S => r.at = "done" \/ F("resume", c) \in S
    /\ r.permit => \/ {F("issue", c), F("timedout", c), F("drop", c)} \cap S # {}
                   \/ r.at = "issued" /\ ~r.completed

StackInv ==
    /\ StackOK(stack)
    /\ \A c \in Command : Calls(c, cmd[c], Range(stack))

WireInv ==
    /\ \A i, j \in 1..Len(wire) : wire[i] = wire[j] => i = j
    /\ \A c \in Command : c \in Range(wire) => cmd[c].ref = "live"
    /\ \A c \in Command : cmd[c].ref = "live" => c \in Range(wire) \/ ctx = "freed"

\* Commands that wait, and commands that have got past the limiter.
Pending(r) == r.at \in {"posted", "waiting"} /\ ~r.permit
Past(r) == r.arrival > 0 /\ (r.permit \/ r.at \in {"issued", "done"})
Arrived == {c \in Command : cmd[c].arrival > 0}

\* The posted commands of queue q are in the order of their arrival.
Sorted(q, cm) ==
    \A i, j \in 1..Len(q) :
        i < j /\ q[i].at = "execute" /\ q[j].at = "execute"
           => cm[q[i].c].arrival < cm[q[j].c].arrival

QueueInv ==
    /\ \A c \in Command : F("execute", c) \in Range(queue) <=> cmd[c].at = "posted" /\ ~cmd[c].permit
    /\ \A c \in Command : c \in Range(waiters) <=> cmd[c].at = "waiting" /\ ~cmd[c].permit
    /\ \A i, j \in 1..Len(waiters) : i < j => cmd[waiters[i]].arrival < cmd[waiters[j]].arrival
    /\ Sorted(queue, cmd)
    /\ \A c, d \in Command :
          Pending(cmd[c]) /\ Pending(cmd[d]) /\ cmd[c].at = "waiting" /\ cmd[d].at = "posted"
             => cmd[c].arrival < cmd[d].arrival
    /\ \A c, d \in Command :
          Past(cmd[c]) /\ Pending(cmd[d]) => cmd[c].arrival < cmd[d].arrival
    /\ \A c \in Command : cmd[c].arrival <= Cardinality(Arrived)

\* The commands whose permit is counted: a timeout gives its permit back first and
\* forgets it afterwards.
Holders(cm, S) == {c \in Command : cm[c].permit /\ F("timedout", c) \notin S}

PermitInv ==
    /\ current = Cardinality(Holders(cmd, Range(stack)))
    /\ waiters # <<>> => current = conf.max

\* A request without deadlines leaves nothing behind.
AfterInv ==
    driver # "running" /\ ~conf.deadlines =>
        \A c \in Command : cmd[c].at \in {"new", "done"} /\ ~cmd[c].permit

CmdRec ==
    [at        : {"new", "posted", "waiting", "issued", "done"},
     arrival   : 0..Cardinality(Command),
     result    : {"none", "reply", "error", "timeout"},
     resumes   : 0..1,
     completed : BOOLEAN,
     permit    : BOOLEAN,
     timer     : {"none", "active", "closed"},
     ref       : {"none", "live", "deleted"},
     helper    : {"none", "waiting", "posted", "leaked", "freed"}]

Types == TypeOK /\ stack \in Seq(Frames) /\ queue \in Seq(Frames)

LifeInv == \A c \in Command : Life(cmd[c])

IInv == Types /\ LifeInv /\ StackInv /\ WireInv /\ QueueInv /\ PermitInv /\ AfterInv

-----------------------------------------------------------------------------
(***************************************************************************)
(* Sequences: what is in them, and the stack.                              *)
(***************************************************************************)
LEMMA FrameFacts ==
    /\ \A a, b, c, d : F(a, c) = F(b, d) <=> a = b /\ c = d
    /\ \A a, c : F(a, c).at = a /\ F(a, c).c = c
BY DEF F

LEMMA FrameTypes ==
    /\ \A at \in {"issue", "cleanup", "resume", "drop", "timedout", "execute", "delete"} :
          \A c \in Command : F(at, c) \in Frames
    /\ \A at \in {"teardown", "stop"} : F(at, None) \in Frames
    /\ \A f \in Frames : /\ f = F(f.at, f.c)
                         /\ f.at = "execute" => f.c \in Command
BY DEF F, Frames

LEMMA InRange ==
    ASSUME NEW S, NEW s \in Seq(S), NEW x
    PROVE  x \in Range(s) <=> \E i \in 1..Len(s) : s[i] = x
<1>1. Range(s) = {s[i] : i \in 1..Len(s)}
  BY RangeEquality
<1> QED BY <1>1

LEMMA RangeAppend ==
    ASSUME NEW S, NEW s \in Seq(S), NEW x \in S
    PROVE  /\ Append(s, x) \in Seq(S)
           /\ Range(Append(s, x)) = Range(s) \cup {x}
<1> DEFINE t == Append(s, x)
<1>1. /\ t \in Seq(S) /\ Len(s) \in Nat /\ Len(t) = Len(s) + 1
      /\ \A i \in 1..Len(s) : t[i] = s[i]
      /\ t[Len(t)] = x
  BY AppendProperties
<1> HIDE DEF t
<1>2. ASSUME NEW y PROVE y \in Range(t) <=> y \in Range(s) \/ y = x
  <2>1. y \in Range(t) <=> \E i \in 1..Len(t) : t[i] = y
    BY <1>1, InRange
  <2>2. y \in Range(s) <=> \E i \in 1..Len(s) : s[i] = y
    BY InRange
  <2> QED BY <1>1, <2>1, <2>2
<1>3. Range(t) = Range(s) \cup {x}
  BY <1>2
<1> QED BY <1>1, <1>3 DEF t

LEMMA RangeTail ==
    ASSUME NEW S, NEW s \in Seq(S), s # <<>>
    PROVE  /\ Tail(s) \in Seq(S) /\ Head(s) \in S
           /\ Range(s) = Range(Tail(s)) \cup {Head(s)}
           /\ Len(s) \in Nat /\ Len(s) > 0 /\ Len(Tail(s)) = Len(s) - 1 /\ Head(s) = s[1]
           /\ \A i \in 1..Len(Tail(s)) : Tail(s)[i] = s[i + 1] /\ i + 1 \in 1..Len(s)
<1> DEFINE t == Tail(s)
<1>1. /\ t \in Seq(S) /\ Head(s) \in S
      /\ Len(s) \in Nat /\ Len(s) > 0 /\ Len(t) = Len(s) - 1 /\ Head(s) = s[1]
      /\ \A i \in 1..Len(t) : t[i] = s[i + 1] /\ i + 1 \in 1..Len(s)
  BY EmptySeq, HeadTailProperties
<1> HIDE DEF t
<1>2. ASSUME NEW y PROVE y \in Range(s) <=> y \in Range(t) \/ y = Head(s)
  <2>1. y \in Range(t) <=> \E i \in 1..Len(t) : t[i] = y
    BY <1>1, InRange
  <2>2. y \in Range(s) <=> \E i \in 1..Len(s) : s[i] = y
    BY InRange
  <2>3. ASSUME NEW i \in 1..Len(s), s[i] = y PROVE y \in Range(t) \/ y = Head(s)
    <3>1. CASE i = 1
      BY <1>1, <2>3, <3>1
    <3>2. CASE i # 1
      <4>1. i - 1 \in 1..Len(t) /\ (i - 1) + 1 = i
        BY <1>1, <3>2
      <4> QED BY <1>1, <2>1, <2>3, <4>1
    <3> QED BY <3>1, <3>2
  <2> QED BY <1>1, <2>1, <2>2, <2>3
<1>3. Range(s) = Range(t) \cup {Head(s)}
  BY <1>2
<1> QED BY <1>1, <1>3 DEF t

LEMMA RangePush ==
    ASSUME NEW S, NEW s \in Seq(S), NEW x \in S, NEW y \in S
    PROVE  LET t == <<x, y>> \o s
           IN  /\ t \in Seq(S)
               /\ Range(t) = Range(s) \cup {x, y}
               /\ Len(s) \in Nat /\ Len(t) = Len(s) + 2 /\ t[1] = x /\ t[2] = y
               /\ \A i \in 1..Len(s) : t[i + 2] = s[i]
<1> DEFINE t == <<x, y>> \o s
<1>1. /\ t \in Seq(S) /\ Len(s) \in Nat /\ Len(t) = Len(s) + 2
      /\ t[1] = x /\ t[2] = y
      /\ \A i \in 1..Len(s) : t[i + 2] = s[i]
  OBVIOUS
<1> HIDE DEF t
<1>2. ASSUME NEW z PROVE z \in Range(t) <=> z \in Range(s) \/ z = x \/ z = y
  <2>1. z \in Range(t) <=> \E i \in 1..Len(t) : t[i] = z
    BY <1>1, InRange
  <2>2. z \in Range(s) <=> \E i \in 1..Len(s) : s[i] = z
    BY InRange
  <2>3. ASSUME NEW i \in 1..Len(t), t[i] = z PROVE z \in Range(s) \/ z = x \/ z = y
    <3>1. CASE i \in {1, 2}
      BY <1>1, <2>3, <3>1
    <3>2. CASE i \notin {1, 2}
      <4>1. i - 2 \in 1..Len(s) /\ (i - 2) + 2 = i
        BY <1>1, <3>2
      <4> QED BY <1>1, <2>2, <2>3, <4>1
    <3> QED BY <3>1, <3>2
  <2>4. 1 \in 1..Len(t) /\ 2 \in 1..Len(t)
    BY <1>1
  <2>5. \A i \in 1..Len(s) : i + 2 \in 1..Len(t)
    BY <1>1
  <2> QED BY <1>1, <2>1, <2>2, <2>3, <2>4, <2>5
<1>3. Range(t) = Range(s) \cup {x, y}
  BY <1>2
<1> QED BY <1>1, <1>3 DEF t

\* A call returns.
LEMMA PopStack ==
    ASSUME NEW s \in Seq(Frames), s # <<>>, StackOK(s)
    PROVE  /\ StackOK(Tail(s))
           /\ Head(s).at \in {"issue", "resume", "drop", "timedout"} => Head(s) \notin Range(Tail(s))
           /\ Head(s).at = "drop" => F("resume", Head(s).c) \notin Range(s)
           /\ Head(s).at = "resume" => F("drop", Head(s).c) \in Range(Tail(s))
<1> DEFINE t == Tail(s)
<1>1. /\ Len(s) \in Nat /\ Len(s) > 0 /\ Len(t) = Len(s) - 1 /\ Head(s) = s[1]
      /\ t \in Seq(Frames)
      /\ \A i \in 1..Len(t) : t[i] = s[i + 1] /\ i + 1 \in 1..Len(s)
  BY RangeTail
<1>2. Range(t) = {t[i] : i \in 1..Len(t)} /\ Range(s) = {s[i] : i \in 1..Len(s)}
  BY <1>1, RangeEquality
<1> HIDE DEF t
<1>3. StackOK(t)
  <2>1. \A i, j \in 1..Len(t) :
          t[i] = t[j] /\ t[i].at \in {"issue", "resume", "drop", "timedout"} => i = j
    BY <1>1 DEF StackOK
  <2>2. ASSUME NEW i \in 1..Len(t), t[i].at = "resume"
        PROVE  i + 1 \in 1..Len(t) /\ t[i + 1] = F("drop", t[i].c)
    <3>1. i + 1 \in 1..Len(s) /\ (i + 1) + 1 \in 1..Len(s) /\ s[(i + 1) + 1] = F("drop", s[i + 1].c)
      BY <1>1, <2>2 DEF StackOK
    <3>2. i + 1 \in 1..Len(t)
      BY <1>1, <3>1
    <3> QED BY <1>1, <3>1, <3>2
  <2> QED BY <2>1, <2>2 DEF StackOK
<1>4. Head(s).at \in {"issue", "resume", "drop", "timedout"} => Head(s) \notin Range(t)
  BY <1>1, <1>2 DEF StackOK
<1>5. ASSUME Head(s).at = "drop", F("resume", Head(s).c) \in Range(s) PROVE FALSE
  <2>1. PICK i \in 1..Len(s) : s[i] = F("resume", Head(s).c)
    BY <1>2, <1>5
  <2>2. i + 1 \in 1..Len(s) /\ s[i + 1] = F("drop", Head(s).c)
    BY <2>1, FrameFacts DEF StackOK
  <2>3. s[i + 1] = s[1]
    <3>1. s[1] \in Frames
      BY <1>1, ElementOfSeq
    <3> QED BY <1>1, <1>5, <2>2, <3>1, FrameTypes
  <2> QED BY <1>1, <1>5, <2>2, <2>3 DEF StackOK
<1>6. ASSUME Head(s).at = "resume" PROVE F("drop", Head(s).c) \in Range(t)
  <2>1. 1 + 1 \in 1..Len(s) /\ s[1 + 1] = F("drop", Head(s).c)
    BY <1>1, <1>6 DEF StackOK
  <2>2. 1 \in 1..Len(t) /\ t[1] = F("drop", Head(s).c)
    BY <1>1, <2>1
  <2> QED BY <1>2, <2>2
<1> QED BY <1>3, <1>4, <1>5, <1>6 DEF t

\* A call of issue_command or of a coroutine, and the call it returns to.
LEMMA PushStack ==
    ASSUME NEW s \in Seq(Frames), StackOK(s), NEW c \in Command,
           NEW x \in Frames, NEW y \in Frames, x \notin Range(s),
           \/ x = F("resume", c) /\ y = F("drop", c) /\ y \notin Range(s)
           \/ x = F("issue", c) /\ y = F("cleanup", c)
    PROVE  StackOK(<<x, y>> \o s)
<1> DEFINE t == <<x, y>> \o s
<1>1. /\ t \in Seq(Frames) /\ Len(s) \in Nat /\ Len(t) = Len(s) + 2
      /\ t[1] = x /\ t[2] = y
      /\ \A i \in 1..Len(s) : t[i + 2] = s[i]
  BY RangePush
<1> HIDE DEF t
<1>2. \A i \in 1..Len(s) : s[i] \in Range(s)
  BY InRange
<1>3. \A i \in 1..Len(t) : i = 1 \/ i = 2 \/ (i - 2 \in 1..Len(s) /\ t[i] = s[i - 2])
  <2>1. SUFFICES ASSUME NEW i \in 1..Len(t), i # 1, i # 2
                 PROVE  i - 2 \in 1..Len(s) /\ t[i] = s[i - 2]
    OBVIOUS
  <2>2. i - 2 \in 1..Len(s) /\ (i - 2) + 2 = i
    BY <1>1, <2>1
  <2> QED BY <1>1, <2>2
<1>4. x # y /\ x.at \in {"issue", "resume"} /\ y.at \in {"drop", "cleanup"}
  BY FrameFacts
<1>5. ASSUME NEW i \in 1..Len(t), NEW j \in 1..Len(t), t[i] = t[j],
             t[i].at \in {"issue", "resume", "drop", "timedout"}
      PROVE  i = j
  <2>1. CASE i \in {1, 2} /\ j \in {1, 2}
    BY <1>1, <1>4, <1>5, <2>1
  <2>2. CASE i \in {1, 2} /\ j \notin {1, 2}
    BY <1>1, <1>2, <1>3, <1>4, <1>5, <2>2, FrameFacts
  <2>3. CASE j \in {1, 2} /\ i \notin {1, 2}
    BY <1>1, <1>2, <1>3, <1>4, <1>5, <2>3, FrameFacts
  <2>4. CASE i \notin {1, 2} /\ j \notin {1, 2}
    <3>1. i - 2 = j - 2
      BY <1>3, <1>5, <2>4 DEF StackOK
    <3> QED BY <3>1, <1>1
  <2> QED BY <2>1, <2>2, <2>3, <2>4
<1>6. ASSUME NEW i \in 1..Len(t), t[i].at = "resume"
      PROVE  i + 1 \in 1..Len(t) /\ t[i + 1] = F("drop", t[i].c)
  <2>1. CASE i = 1
    BY <1>1, <1>6, <2>1, FrameFacts
  <2>2. CASE i = 2
    BY <1>1, <1>4, <1>6, <2>2
  <2>3. CASE i \notin {1, 2}
    <3>1. i - 2 \in 1..Len(s) /\ t[i] = s[i - 2]
      BY <1>3, <2>3
    <3>2. (i - 2) + 1 \in 1..Len(s) /\ s[(i - 2) + 1] = F("drop", t[i].c)
      BY <1>6, <3>1 DEF StackOK
    <3>3. ((i - 2) + 1) + 2 = i + 1 /\ i + 1 \in 1..Len(t)
      BY <1>1, <3>2
    <3> QED BY <1>1, <3>2, <3>3
  <2> QED BY <2>1, <2>2, <2>3
<1>7. StackOK(t)
  BY <1>5, <1>6 DEF StackOK
<1> QED BY <1>7 DEF t

\* A callback that makes one call.
LEMMA OneCall ==
    ASSUME NEW x \in Frames, x.at # "resume"
    PROVE  <<x>> \in Seq(Frames) /\ StackOK(<<x>>) /\ Range(<<x>>) = {x}
<1> DEFINE t == <<x>>
<1>1. t \in Seq(Frames) /\ Len(t) = 1 /\ t[1] = x /\ 1..1 = {1}
  OBVIOUS
<1> HIDE DEF t
<1>2. StackOK(t)
  BY <1>1 DEF StackOK
<1>3. \A y : y \in Range(t) <=> y = x
  BY <1>1, InRange
<1> QED BY <1>1, <1>2, <1>3 DEF t

LEMMA NoCall == <<>> \in Seq(Frames) /\ StackOK(<<>>) /\ Range(<<>>) = {}
<1>1. <<>> \in Seq(Frames) /\ Len(<<>>) = 0 /\ 1..0 = {}
  OBVIOUS
<1>2. Range(<<>>) = {}
  BY <1>1, InRange
<1> QED BY <1>1, <1>2 DEF StackOK

-----------------------------------------------------------------------------
(***************************************************************************)
(* What the other commands see of a step: nothing.                         *)
(***************************************************************************)
\* A step changes the record of command c only.
Only(c) == cmd' \in [Command -> CmdRec] /\ \A d \in Command \ {c} : cmd'[d] = cmd[d]

\* The calls in S and in T are the same, as far as command d is concerned.
SameCalls(d, S, T) ==
    \A at \in {"issue", "resume", "timedout", "drop"} : F(at, d) \in S <=> F(at, d) \in T

\* Records r and q stand at the same place in the limiter's line.
SamePlace(r, q) ==
    /\ q.arrival = r.arrival
    /\ Pending(q) <=> Pending(r)
    /\ Pending(r) => q.at = r.at
    /\ Past(q) => Past(r)

LEMMA CallsKept ==
    ASSUME NEW d, NEW r, NEW q, NEW S, NEW T, Calls(d, r, S), SameCalls(d, S, T),
           q.at = r.at, q.permit = r.permit, q.completed = r.completed
    PROVE  Calls(d, q, T)
<1>1. \A at \in {"issue", "resume", "timedout", "drop"} : F(at, d) \in S <=> F(at, d) \in T
  BY DEF SameCalls
<1> QED BY <1>1 DEF Calls

LEMMA OneCalls ==
    ASSUME NEW c \in Command, StackInv, Only(c), StackOK(stack)',
           \A d \in Command \ {c} : SameCalls(d, Range(stack), Range(stack')),
           Calls(c, cmd'[c], Range(stack'))
    PROVE  StackInv'
<1>1. ASSUME NEW d \in Command PROVE Calls(d, cmd'[d], Range(stack'))
  <2>1. CASE d = c
    BY <2>1
  <2>2. CASE d # c
    BY <2>2, CallsKept DEF StackInv, Only
  <2> QED BY <2>1, <2>2
<1> QED BY <1>1 DEF StackInv

LEMMA OneLife ==
    ASSUME NEW c \in Command, LifeInv, Only(c), Life(cmd'[c])
    PROVE  LifeInv'
BY DEF LifeInv, Only

LEMMA HoldersKept ==
    ASSUME NEW cm, NEW S, NEW T,
           \A d \in Command :
              /\ cm[d].permit <=> cmd[d].permit
              /\ F("timedout", d) \in S <=> F("timedout", d) \in T
    PROVE  Holders(cm, T) = Holders(cmd, S)
BY DEF Holders

LEMMA FiniteHolders ==
    ASSUME NEW cm, NEW S
    PROVE  IsFiniteSet(Holders(cm, S)) /\ Cardinality(Holders(cm, S)) \in Nat
<1>1. Holders(cm, S) \in SUBSET Command
  BY DEF Holders
<1>2. IsFiniteSet(Holders(cm, S))
  BY <1>1, LimitsAssumption, FS_Subset
<1> QED BY <1>2, FS_CardinalityType

\* Nothing the limiter counts by changes.
LEMMA PermitKept ==
    ASSUME PermitInv, UNCHANGED <<current, waiters, conf>>,
           Holders(cmd', Range(stack')) = Holders(cmd, Range(stack))
    PROVE  PermitInv'
BY DEF PermitInv

LEMMA AfterKept ==
    ASSUME AfterInv, UNCHANGED <<driver, conf>>,
           \A d \in Command : \/ cmd[d].at \notin {"new", "done"}
                              \/ cmd[d].permit
                              \/ cmd'[d].at \in {"new", "done"} /\ ~cmd'[d].permit
                              \/ conf.deadlines \/ driver = "running"
    PROVE  AfterInv'
BY DEF AfterInv

LEMMA WireKept ==
    ASSUME WireInv, wire' = wire, ctx' = ctx \/ ctx # "freed",
           \A d \in Command : cmd'[d].ref = "live" <=> cmd[d].ref = "live"
    PROVE  WireInv'
BY DEF WireInv

LEMMA ArrivedKept ==
    ASSUME \A d \in Command : cmd'[d].arrival = cmd[d].arrival
    PROVE  Arrived' = Arrived
BY DEF Arrived

\* A callback that is not the posting of a command joins or leaves the queue.
LEMMA SortedKept ==
    ASSUME NEW q \in Seq(Frames), NEW cm, NEW x \in Frames, x.at # "execute", Sorted(q, cm)
    PROVE  /\ Sorted(Append(q, x), cm)
           /\ q # <<>> => Sorted(Tail(q), cm)
<1>1. Sorted(Append(q, x), cm)
  <2> DEFINE t == Append(q, x)
  <2>1. Len(q) \in Nat /\ Len(t) = Len(q) + 1 /\ (\A i \in 1..Len(q) : t[i] = q[i]) /\ t[Len(t)] = x
    BY AppendProperties
  <2> HIDE DEF t
  <2>2. ASSUME NEW i \in 1..Len(t), NEW j \in 1..Len(t), i < j, t[i].at = "execute", t[j].at = "execute"
        PROVE  cm[t[i].c].arrival < cm[t[j].c].arrival
    <3>1. i \in 1..Len(q) /\ j \in 1..Len(q)
      BY <2>1, <2>2
    <3> QED BY <2>1, <2>2, <3>1 DEF Sorted
  <2>3. Sorted(t, cm)
    BY <2>2 DEF Sorted
  <2> QED BY <2>3 DEF t
<1>2. ASSUME q # <<>> PROVE Sorted(Tail(q), cm)
  <2> DEFINE t == Tail(q)
  <2>1. /\ Len(q) \in Nat /\ Len(t) = Len(q) - 1
        /\ \A i \in 1..Len(t) : t[i] = q[i + 1] /\ i + 1 \in 1..Len(q)
    BY <1>2, RangeTail
  <2> HIDE DEF t
  <2>2. ASSUME NEW i \in 1..Len(t), NEW j \in 1..Len(t), i < j, t[i].at = "execute", t[j].at = "execute"
        PROVE  cm[t[i].c].arrival < cm[t[j].c].arrival
    <3>1. i + 1 \in 1..Len(q) /\ j + 1 \in 1..Len(q) /\ i + 1 < j + 1
      BY <2>1, <2>2
    <3> QED BY <2>1, <2>2, <3>1 DEF Sorted
  <2>3. Sorted(t, cm)
    BY <2>2 DEF Sorted
  <2> QED BY <2>3 DEF t
<1> QED BY <1>1, <1>2

LEMMA SortedSame ==
    ASSUME NEW q \in Seq(Frames), NEW cm, NEW dm, Sorted(q, cm),
           \A d \in Command : dm[d].arrival = cm[d].arrival
    PROVE  Sorted(q, dm)
<1>1. \A i \in 1..Len(q) : q[i] \in Frames
  BY ElementOfSeq
<1>2. \A i \in 1..Len(q) : q[i].at = "execute" => q[i].c \in Command
  BY <1>1, FrameTypes
<1> QED BY <1>2 DEF Sorted

-----------------------------------------------------------------------------
(***************************************************************************)
(* The limiter's line.                                                     *)
(***************************************************************************)
\* No command changes its place.
LEMMA QueueKept ==
    ASSUME Types, QueueInv, waiters' = waiters,
           \A d \in Command : SamePlace(cmd[d], cmd'[d]),
           \/ queue' = queue
           \/ \E x \in Frames : x.at # "execute" /\ queue' = Append(queue, x)
           \/ queue # <<>> /\ Head(queue).at # "execute" /\ queue' = Tail(queue)
    PROVE  QueueInv'
<1>0. queue \in Seq(Frames) /\ waiters \in Seq(Command)
  BY DEF Types, TypeOK
<1>1. \A d \in Command : F("execute", d) \in Range(queue') <=> F("execute", d) \in Range(queue)
  <2>1. CASE queue' = queue
    BY <2>1
  <2>2. CASE \E x \in Frames : x.at # "execute" /\ queue' = Append(queue, x)
    <3>1. PICK x \in Frames : x.at # "execute" /\ queue' = Append(queue, x)
      BY <2>2
    <3>2. Range(queue') = Range(queue) \cup {x}
      BY <1>0, <3>1, RangeAppend
    <3> QED BY <3>1, <3>2, FrameFacts
  <2>3. CASE queue # <<>> /\ Head(queue).at # "execute" /\ queue' = Tail(queue)
    <3>1. Range(queue) = Range(queue') \cup {Head(queue)}
      BY <1>0, <2>3, RangeTail
    <3> QED BY <2>3, <3>1, FrameFacts
  <2> QED BY <2>1, <2>2, <2>3
<1>2. Sorted(queue', cmd)
  <2>1. CASE queue' = queue
    BY <2>1 DEF QueueInv
  <2>2. CASE \E x \in Frames : x.at # "execute" /\ queue' = Append(queue, x)
    BY <1>0, <2>2, SortedKept DEF QueueInv
  <2>3. CASE queue # <<>> /\ Head(queue).at # "execute" /\ queue' = Tail(queue)
    <3>1. Head(queue) \in Frames
      BY <1>0, <2>3, RangeTail
    <3> QED BY <1>0, <2>3, <3>1, SortedKept DEF QueueInv
  <2> QED BY <2>1, <2>2, <2>3
<1>3. queue' \in Seq(Frames)
  <2>1. \A x \in Frames : Append(queue, x) \in Seq(Frames)
    BY <1>0, RangeAppend
  <2>2. queue # <<>> => Tail(queue) \in Seq(Frames)
    BY <1>0, RangeTail
  <2> QED BY <1>0, <2>1, <2>2
<1>4. Sorted(queue', cmd')
  BY <1>2, <1>3, SortedSame DEF SamePlace
<1>5. \A d \in Command : F("execute", d) \in Range(queue') <=> cmd'[d].at = "posted" /\ ~cmd'[d].permit
  BY <1>1 DEF QueueInv, SamePlace, Pending
<1>6. \A d \in Command : d \in Range(waiters) <=> cmd'[d].at = "waiting" /\ ~cmd'[d].permit
  BY DEF QueueInv, SamePlace, Pending
<1>7. \A i, j \in 1..Len(waiters) : i < j => cmd'[waiters[i]].arrival < cmd'[waiters[j]].arrival
  <2>1. \A i \in 1..Len(waiters) : waiters[i] \in Command
    BY <1>0, ElementOfSeq
  <2> QED BY <2>1 DEF QueueInv, SamePlace
<1>8. \A c, d \in Command :
         Pending(cmd'[c]) /\ Pending(cmd'[d]) /\ cmd'[c].at = "waiting" /\ cmd'[d].at = "posted"
            => cmd'[c].arrival < cmd'[d].arrival
  BY DEF QueueInv, SamePlace
<1>9. \A c, d \in Command :
         Past(cmd'[c]) /\ Pending(cmd'[d]) => cmd'[c].arrival < cmd'[d].arrival
  BY DEF QueueInv, SamePlace
<1>10. \A d \in Command : cmd'[d].arrival = cmd[d].arrival
  BY DEF SamePlace
<1>11. \A c \in Command : cmd'[c].arrival <= Cardinality(Arrived')
  BY <1>10, ArrivedKept DEF QueueInv
<1> QED BY <1>4, <1>5, <1>6, <1>7, <1>8, <1>9, <1>11 DEF QueueInv

\* The first waiter is given a permit.
LEMMA QueueServed ==
    ASSUME Types, QueueInv, waiters # <<>>, waiters' = Tail(waiters), queue' = queue,
           \A d \in Command \ {Head(waiters)} : SamePlace(cmd[d], cmd'[d]),
           cmd'[Head(waiters)].arrival = cmd[Head(waiters)].arrival,
           cmd'[Head(waiters)].at = "waiting", cmd'[Head(waiters)].permit
    PROVE  QueueInv'
<1> DEFINE w == Head(waiters)
<1>0. queue \in Seq(Frames) /\ waiters \in Seq(Command) /\ cmd \in [Command -> CmdRec]
  BY DEF Types, TypeOK, CmdRec
<1>1. /\ w \in Command /\ Tail(waiters) \in Seq(Command)
      /\ Range(waiters) = Range(Tail(waiters)) \cup {w}
      /\ Len(waiters) \in Nat /\ Len(waiters) > 0 /\ Len(Tail(waiters)) = Len(waiters) - 1
      /\ w = waiters[1]
      /\ \A i \in 1..Len(Tail(waiters)) : Tail(waiters)[i] = waiters[i + 1] /\ i + 1 \in 1..Len(waiters)
  BY <1>0, RangeTail
<1>2. w \in Range(waiters) /\ cmd[w].at = "waiting" /\ ~cmd[w].permit
  BY <1>1 DEF QueueInv
<1>3. /\ cmd'[w].arrival = cmd[w].arrival /\ cmd'[w].at = "waiting" /\ cmd'[w].permit
      /\ \A d \in Command \ {w} : SamePlace(cmd[d], cmd'[d])
  OBVIOUS
<1>a. waiters' = Tail(waiters)
  OBVIOUS
<1> HIDE DEF w
<1>4. \A i \in 1..Len(Tail(waiters)) : cmd[w].arrival < cmd[Tail(waiters)[i]].arrival
  <2>1. 1 \in 1..Len(waiters) /\ \A i \in 1..Len(Tail(waiters)) : 1 < i + 1
    BY <1>1
  <2> QED BY <1>1, <2>1 DEF QueueInv
<1>5. \A d \in Range(Tail(waiters)) : cmd[w].arrival < cmd[d].arrival
  <2>1. \A d \in Range(Tail(waiters)) : \E i \in 1..Len(Tail(waiters)) : Tail(waiters)[i] = d
    BY <1>1, InRange
  <2> QED BY <1>4, <2>1
<1>6. cmd[w].arrival \in Nat /\ \A d \in Command : cmd[d].arrival \in Nat
  BY <1>0, <1>1, FS_CardinalityType, LimitsAssumption DEF CmdRec
<1>7. w \notin Range(Tail(waiters))
  BY <1>5, <1>6
<1>8. \A d \in Command : F("execute", d) \in Range(queue') <=> cmd'[d].at = "posted" /\ ~cmd'[d].permit
  BY <1>2, <1>3 DEF QueueInv, SamePlace, Pending
<1>9. \A d \in Command : d \in Range(waiters') <=> cmd'[d].at = "waiting" /\ ~cmd'[d].permit
  BY <1>a, <1>1, <1>3, <1>7 DEF QueueInv, SamePlace, Pending
<1>10. \A d \in Command : cmd'[d].arrival = cmd[d].arrival
  BY <1>3 DEF SamePlace
<1>11. \A i, j \in 1..Len(waiters') : i < j => cmd'[waiters'[i]].arrival < cmd'[waiters'[j]].arrival
  <2>1. \A i \in 1..Len(waiters') : waiters'[i] \in Command
    BY <1>a, <1>1, ElementOfSeq
  <2>2. ASSUME NEW i \in 1..Len(waiters'), NEW j \in 1..Len(waiters'), i < j
        PROVE  cmd[waiters'[i]].arrival < cmd[waiters'[j]].arrival
    <3>1. i + 1 \in 1..Len(waiters) /\ j + 1 \in 1..Len(waiters) /\ i + 1 < j + 1
      BY <1>a, <1>1, <2>2
    <3> QED BY <1>a, <1>1, <3>1 DEF QueueInv
  <2> QED BY <1>10, <2>1, <2>2
<1>12. Sorted(queue', cmd')
  BY <1>0, <1>10, SortedSame DEF QueueInv
<1>13. \A c, d \in Command :
         Pending(cmd'[c]) /\ Pending(cmd'[d]) /\ cmd'[c].at = "waiting" /\ cmd'[d].at = "posted"
            => cmd'[c].arrival < cmd'[d].arrival
  BY <1>3 DEF QueueInv, SamePlace, Pending
<1>14. ASSUME NEW d \in Command, Pending(cmd'[d])
       PROVE  d # w /\ Pending(cmd[d]) /\ cmd[w].arrival < cmd[d].arrival
  <2>1. d # w
    BY <1>3, <1>14 DEF Pending
  <2>2. Pending(cmd[d])
    BY <1>3, <1>14, <2>1 DEF SamePlace
  <2>3. CASE cmd[d].at = "waiting"
    BY <1>1, <1>5, <2>1, <2>2, <2>3 DEF QueueInv, Pending
  <2>4. CASE cmd[d].at = "posted"
    BY <1>1, <1>2, <2>2, <2>4 DEF QueueInv, Pending
  <2> QED BY <2>1, <2>2, <2>3, <2>4 DEF Pending
<1>15. \A c, d \in Command :
         Past(cmd'[c]) /\ Pending(cmd'[d]) => cmd'[c].arrival < cmd'[d].arrival
  BY <1>3, <1>10, <1>14 DEF QueueInv, SamePlace
<1>16. \A c \in Command : cmd'[c].arrival <= Cardinality(Arrived')
  BY <1>10, ArrivedKept DEF QueueInv
<1> QED BY <1>8, <1>9, <1>11, <1>12, <1>13, <1>15, <1>16 DEF QueueInv

\* A command is posted.
LEMMA QueuePosted ==
    ASSUME Types, QueueInv, NEW c \in Command, Only(c), waiters' = waiters,
           queue' = Append(queue, F("execute", c)),
           cmd[c].at = "new", cmd[c].arrival = 0,
           cmd'[c].at = "posted", ~cmd'[c].permit, cmd'[c].arrival = 1 + Cardinality(Arrived)
    PROVE  QueueInv'
<1>0. queue \in Seq(Frames) /\ waiters \in Seq(Command) /\ cmd \in [Command -> CmdRec]
  BY DEF Types, TypeOK, CmdRec
<1>1. F("execute", c) \in Frames
  BY FrameTypes
<1>2. queue' \in Seq(Frames) /\ Range(queue') = Range(queue) \cup {F("execute", c)}
  BY <1>0, <1>1, RangeAppend
<1>3. \A d \in Command \ {c} : cmd'[d] = cmd[d]
  BY DEF Only
<1>4. Cardinality(Arrived) \in Nat /\ Arrived' = Arrived \cup {c}
      /\ Cardinality(Arrived') = Cardinality(Arrived) + 1
  <2>1. IsFiniteSet(Arrived)
    <3>1. Arrived \in SUBSET Command
      BY DEF Arrived
    <3> QED BY <3>1, LimitsAssumption, FS_Subset
  <2>2. Cardinality(Arrived) \in Nat
    BY <2>1, FS_CardinalityType
  <2>3. Arrived' = Arrived \cup {c} /\ c \notin Arrived
    BY <1>3, <2>2 DEF Arrived
  <2> QED BY <2>1, <2>2, <2>3, FS_AddElement
<1>5. \A d \in Command : cmd[d].arrival \in Nat /\ cmd[d].arrival <= Cardinality(Arrived)
  BY <1>0, FS_CardinalityType, LimitsAssumption DEF CmdRec, QueueInv
<1>6. \A d \in Command \ {c} : cmd'[d].arrival < cmd'[c].arrival
  BY <1>3, <1>4, <1>5
<1>7. ~Pending(cmd[c]) /\ ~Past(cmd[c]) /\ ~Past(cmd'[c])
  BY DEF Pending, Past
<1>8. \A d \in Command : F("execute", d) \in Range(queue') <=> cmd'[d].at = "posted" /\ ~cmd'[d].permit
  BY <1>2, <1>3, FrameFacts DEF QueueInv
<1>9. \A d \in Command : d \in Range(waiters') <=> cmd'[d].at = "waiting" /\ ~cmd'[d].permit
  BY <1>3 DEF QueueInv
<1>10. c \notin Range(waiters) /\ F("execute", c) \notin Range(queue)
  BY DEF QueueInv
<1>11. \A i, j \in 1..Len(waiters') : i < j => cmd'[waiters'[i]].arrival < cmd'[waiters'[j]].arrival
  <2>1. \A i \in 1..Len(waiters) : waiters[i] \in Command /\ waiters[i] # c
    BY <1>0, <1>10, InRange, ElementOfSeq
  <2> QED BY <1>3, <2>1 DEF QueueInv
<1>12. Sorted(queue', cmd')
  <2>1. Len(queue) \in Nat /\ Len(queue') = Len(queue) + 1
        /\ (\A i \in 1..Len(queue) : queue'[i] = queue[i]) /\ queue'[Len(queue')] = F("execute", c)
    BY <1>0, <1>1, AppendProperties
  <2>2. ASSUME NEW i \in 1..Len(queue), queue[i].at = "execute"
        PROVE  queue[i].c \in Command \ {c}
    <3>1. queue[i] \in Frames /\ queue[i] \in Range(queue)
      BY <1>0, InRange, ElementOfSeq
    <3> QED BY <2>2, <3>1, <1>10, FrameTypes
  <2>3. ASSUME NEW i \in 1..Len(queue'), NEW j \in 1..Len(queue'), i < j,
               queue'[i].at = "execute", queue'[j].at = "execute"
        PROVE  cmd'[queue'[i].c].arrival < cmd'[queue'[j].c].arrival
    <3>1. i \in 1..Len(queue)
      BY <2>1, <2>3
    <3>2. CASE j \in 1..Len(queue)
      BY <1>3, <2>1, <2>2, <2>3, <3>1, <3>2 DEF QueueInv, Sorted
    <3>3. CASE j \notin 1..Len(queue)
      <4>1. j = Len(queue')
        BY <2>1, <3>3
      <4>2. queue'[j].c = c
        BY <2>1, <4>1, FrameFacts
      <4> QED BY <1>6, <2>1, <2>2, <2>3, <3>1, <4>2
    <3> QED BY <3>2, <3>3
  <2> QED BY <2>3 DEF Sorted
<1>13. \A b, d \in Command :
         Pending(cmd'[b]) /\ Pending(cmd'[d]) /\ cmd'[b].at = "waiting" /\ cmd'[d].at = "posted"
            => cmd'[b].arrival < cmd'[d].arrival
  BY <1>3, <1>6 DEF QueueInv
<1>14. \A b, d \in Command :
         Past(cmd'[b]) /\ Pending(cmd'[d]) => cmd'[b].arrival < cmd'[d].arrival
  BY <1>3, <1>6, <1>7 DEF QueueInv
<1>15. \A d \in Command : cmd'[d].arrival <= Cardinality(Arrived')
  BY <1>3, <1>4, <1>5
<1> QED BY <1>8, <1>9, <1>11, <1>12, <1>13, <1>14, <1>15 DEF QueueInv

\* The oldest posted command is taken from the queue.
LEMMA OldestPosted ==
    ASSUME Types, QueueInv, NEW c \in Command, queue # <<>>, Head(queue) = F("execute", c)
    PROVE  /\ cmd[c].at = "posted" /\ ~cmd[c].permit
           /\ Range(queue) = Range(Tail(queue)) \cup {F("execute", c)}
           /\ F("execute", c) \notin Range(Tail(queue))
           /\ \A d \in Command \ {c} :
                 cmd[d].at = "posted" /\ Pending(cmd[d]) => cmd[c].arrival < cmd[d].arrival
           /\ Sorted(Tail(queue), cmd) /\ Tail(queue) \in Seq(Frames)
<1>0. queue \in Seq(Frames) /\ cmd \in [Command -> CmdRec]
  BY DEF Types, TypeOK, CmdRec
<1> DEFINE q == Tail(queue)
<1>1. /\ q \in Seq(Frames) /\ Range(queue) = Range(q) \cup {F("execute", c)}
      /\ Len(queue) \in Nat /\ Len(queue) > 0 /\ Len(q) = Len(queue) - 1
      /\ queue[1] = F("execute", c)
      /\ \A i \in 1..Len(q) : q[i] = queue[i + 1] /\ i + 1 \in 1..Len(queue)
  BY <1>0, RangeTail
<1> HIDE DEF q
<1>2. F("execute", c) \in Range(queue) /\ cmd[c].at = "posted" /\ ~cmd[c].permit
  BY <1>1 DEF QueueInv
<1>3. ASSUME NEW d \in Command, F("execute", d) \in Range(q) PROVE cmd[c].arrival < cmd[d].arrival
  <2>1. PICK i \in 1..Len(q) : q[i] = F("execute", d)
    BY <1>1, <1>3, InRange
  <2>2. 1 \in 1..Len(queue) /\ i + 1 \in 1..Len(queue) /\ 1 < i + 1 /\ queue[i + 1] = F("execute", d)
    BY <1>1, <2>1
  <2>3. queue[1].at = "execute" /\ queue[1].c = c /\ queue[i + 1].at = "execute" /\ queue[i + 1].c = d
    BY <1>1, <2>2, FrameFacts
  <2>4. \A k, j \in 1..Len(queue) : k < j /\ queue[k].at = "execute" /\ queue[j].at = "execute"
            => cmd[queue[k].c].arrival < cmd[queue[j].c].arrival
    BY DEF QueueInv, Sorted
  <2> QED BY <2>2, <2>3, <2>4
<1>4. F("execute", c) \notin Range(q)
  <2>1. cmd[c].arrival \in Nat
    BY <1>0, FS_CardinalityType, LimitsAssumption DEF CmdRec
  <2> QED BY <1>3, <2>1
<1>5. \A d \in Command \ {c} :
         cmd[d].at = "posted" /\ Pending(cmd[d]) => cmd[c].arrival < cmd[d].arrival
  BY <1>1, <1>3, FrameFacts DEF QueueInv, Pending
<1>6. Sorted(q, cmd)
  <2>1. ASSUME NEW i \in 1..Len(q), NEW j \in 1..Len(q), i < j, q[i].at = "execute", q[j].at = "execute"
        PROVE  cmd[q[i].c].arrival < cmd[q[j].c].arrival
    <3>1. i + 1 \in 1..Len(queue) /\ j + 1 \in 1..Len(queue) /\ i + 1 < j + 1
      BY <1>1, <2>1
    <3>2. q[i] = queue[i + 1] /\ q[j] = queue[j + 1]
      BY <1>1, <2>1
    <3>3. \A k, l \in 1..Len(queue) : k < l /\ queue[k].at = "execute" /\ queue[l].at = "execute"
              => cmd[queue[k].c].arrival < cmd[queue[l].c].arrival
      BY DEF QueueInv, Sorted
    <3> QED BY <2>1, <3>1, <3>2, <3>3
  <2> QED BY <2>1 DEF Sorted
<1> QED BY <1>1, <1>2, <1>4, <1>5, <1>6 DEF q

\* It finds a free permit, so that nobody waits, ...
LEMMA QueueTaken ==
    ASSUME Types, QueueInv, NEW c \in Command, Only(c), waiters = <<>>, waiters' = waiters,
           queue # <<>>, Head(queue) = F("execute", c), queue' = Tail(queue),
           cmd'[c].at = "posted", cmd'[c].permit, cmd'[c].arrival = cmd[c].arrival
    PROVE  QueueInv'
<1>0. queue \in Seq(Frames) /\ waiters \in Seq(Command) /\ Range(waiters) = {}
  <2>1. queue \in Seq(Frames) /\ waiters \in Seq(Command)
    BY DEF Types, TypeOK
  <2>2. Len(waiters) = 0 /\ 1..0 = {}
    OBVIOUS
  <2> QED BY <2>1, <2>2, InRange
<1>1. /\ cmd[c].at = "posted" /\ ~cmd[c].permit
      /\ Range(queue) = Range(queue') \cup {F("execute", c)}
      /\ F("execute", c) \notin Range(queue')
      /\ \A d \in Command \ {c} :
            cmd[d].at = "posted" /\ Pending(cmd[d]) => cmd[c].arrival < cmd[d].arrival
      /\ Sorted(queue', cmd) /\ queue' \in Seq(Frames)
  BY OldestPosted
<1>2. \A d \in Command \ {c} : cmd'[d] = cmd[d]
  BY DEF Only
<1>3. \A d \in Command : cmd'[d].arrival = cmd[d].arrival
  BY <1>2
<1>4. \A d \in Command : F("execute", d) \in Range(queue') <=> cmd'[d].at = "posted" /\ ~cmd'[d].permit
  BY <1>1, <1>2, FrameFacts DEF QueueInv
<1>5. \A d \in Command : d \in Range(waiters') <=> cmd'[d].at = "waiting" /\ ~cmd'[d].permit
  BY <1>2, <1>0 DEF QueueInv
<1>6. \A i, j \in 1..Len(waiters') : i < j => cmd'[waiters'[i]].arrival < cmd'[waiters'[j]].arrival
  OBVIOUS
<1>7. Sorted(queue', cmd')
  BY <1>1, <1>3, SortedSame
<1>8. ASSUME NEW d \in Command, Pending(cmd'[d])
      PROVE  d # c /\ cmd[d].at = "posted" /\ Pending(cmd[d]) /\ cmd[c].arrival < cmd[d].arrival
  <2>1. d # c /\ Pending(cmd[d])
    BY <1>2, <1>8 DEF Pending
  <2>2. cmd[d].at = "posted"
    BY <1>0, <2>1 DEF Pending, QueueInv
  <2> QED BY <1>1, <2>1, <2>2
<1>9. \A b, d \in Command :
         Pending(cmd'[b]) /\ Pending(cmd'[d]) /\ cmd'[b].at = "waiting" /\ cmd'[d].at = "posted"
            => cmd'[b].arrival < cmd'[d].arrival
  BY <1>2, <1>8
<1>10. \A b, d \in Command :
         Past(cmd'[b]) /\ Pending(cmd'[d]) => cmd'[b].arrival < cmd'[d].arrival
  BY <1>2, <1>3, <1>8 DEF QueueInv
<1>11. \A d \in Command : cmd'[d].arrival <= Cardinality(Arrived')
  BY <1>3, ArrivedKept DEF QueueInv
<1> QED BY <1>4, <1>5, <1>6, <1>7, <1>9, <1>10, <1>11 DEF QueueInv

\* ... or waits behind all the others that wait.
LEMMA QueueWaits ==
    ASSUME Types, QueueInv, NEW c \in Command, Only(c), waiters' = Append(waiters, c),
           queue # <<>>, Head(queue) = F("execute", c), queue' = Tail(queue),
           cmd'[c].at = "waiting", ~cmd'[c].permit, cmd'[c].arrival = cmd[c].arrival
    PROVE  QueueInv'
<1>0. queue \in Seq(Frames) /\ waiters \in Seq(Command)
  BY DEF Types, TypeOK
<1>1. /\ cmd[c].at = "posted" /\ ~cmd[c].permit
      /\ Range(queue) = Range(queue') \cup {F("execute", c)}
      /\ F("execute", c) \notin Range(queue')
      /\ \A d \in Command \ {c} :
            cmd[d].at = "posted" /\ Pending(cmd[d]) => cmd[c].arrival < cmd[d].arrival
      /\ Sorted(queue', cmd) /\ queue' \in Seq(Frames)
  BY OldestPosted
<1>2. \A d \in Command \ {c} : cmd'[d] = cmd[d]
  BY DEF Only
<1>3. \A d \in Command : cmd'[d].arrival = cmd[d].arrival
  BY <1>2
<1>4. \A d \in Command : F("execute", d) \in Range(queue') <=> cmd'[d].at = "posted" /\ ~cmd'[d].permit
  BY <1>1, <1>2, FrameFacts DEF QueueInv
<1>5. waiters' \in Seq(Command) /\ Range(waiters') = Range(waiters) \cup {c}
  BY <1>0, RangeAppend
<1>6. \A d \in Command : d \in Range(waiters') <=> cmd'[d].at = "waiting" /\ ~cmd'[d].permit
  BY <1>2, <1>5 DEF QueueInv
<1>7. \A d \in Range(waiters) : d \in Command /\ cmd[d].arrival < cmd[c].arrival
  <2>1. \A d \in Range(waiters) : d \in Command
    BY <1>0, RangeOfSeq
  <2>2. Pending(cmd[c]) /\ \A d \in Range(waiters) : Pending(cmd[d]) /\ cmd[d].at = "waiting"
    BY <1>1, <2>1 DEF QueueInv, Pending
  <2> QED BY <1>1, <2>1, <2>2 DEF QueueInv
<1>8. \A i, j \in 1..Len(waiters') : i < j => cmd'[waiters'[i]].arrival < cmd'[waiters'[j]].arrival
  <2>1. Len(waiters) \in Nat /\ Len(waiters') = Len(waiters) + 1
        /\ (\A i \in 1..Len(waiters) : waiters'[i] = waiters[i]) /\ waiters'[Len(waiters')] = c
    BY <1>0, AppendProperties
  <2>2. \A i \in 1..Len(waiters) : waiters[i] \in Range(waiters)
    BY <1>0, InRange
  <2>3. ASSUME NEW i \in 1..Len(waiters'), NEW j \in 1..Len(waiters'), i < j
        PROVE  cmd'[waiters'[i]].arrival < cmd'[waiters'[j]].arrival
    <3>1. i \in 1..Len(waiters)
      BY <2>1, <2>3
    <3>2. CASE j \in 1..Len(waiters)
      BY <1>3, <1>7, <2>1, <2>2, <2>3, <3>1, <3>2 DEF QueueInv
    <3>3. CASE j \notin 1..Len(waiters)
      <4>1. j = Len(waiters')
        BY <2>1, <3>3
      <4> QED BY <1>3, <1>7, <2>1, <2>2, <3>1, <4>1
    <3> QED BY <3>2, <3>3
  <2> QED BY <2>3
<1>9. Sorted(queue', cmd')
  BY <1>1, <1>3, SortedSame
<1>10. \A d \in Command : Pending(cmd'[d]) <=> Pending(cmd[d])
  BY <1>1, <1>2 DEF Pending
<1>11. \A b, d \in Command :
         Pending(cmd'[b]) /\ Pending(cmd'[d]) /\ cmd'[b].at = "waiting" /\ cmd'[d].at = "posted"
            => cmd'[b].arrival < cmd'[d].arrival
  BY <1>1, <1>2, <1>3, <1>10 DEF QueueInv
<1>12. \A b, d \in Command :
         Past(cmd'[b]) /\ Pending(cmd'[d]) => cmd'[b].arrival < cmd'[d].arrival
  <2>1. ~Past(cmd'[c])
    BY DEF Past
  <2> QED BY <1>2, <1>3, <1>10, <2>1 DEF QueueInv
<1>13. \A d \in Command : cmd'[d].arrival <= Cardinality(Arrived')
  BY <1>3, ArrivedKept DEF QueueInv
<1> QED BY <1>4, <1>6, <1>8, <1>9, <1>11, <1>12, <1>13 DEF QueueInv

-----------------------------------------------------------------------------
(***************************************************************************)
(* The steps, one by one.                                                  *)
(***************************************************************************)
LEMMA Typed ==
    ASSUME Types
    PROVE  /\ cmd \in [Command -> CmdRec]
           /\ current \in 0..conf.max /\ waiters \in Seq(Command)
           /\ ctx \in {"connecting", "open", "failing", "closing", "null", "freed"}
           /\ wire \in Seq(Command)
           /\ loop \in {"Running", "Stopping", "Stopped", "Exited"}
           /\ driver \in {"running", "returned", "stopping", "destroyed"}
           /\ conf \in [max : Limits, timeouts : BOOLEAN, deadlines : BOOLEAN, bench : BOOLEAN]
           /\ stack \in Seq(Frames) /\ queue \in Seq(Frames)
           /\ conf.max \in Nat /\ conf.max > 0 /\ Cardinality(Command) \in Nat
<1>1. cmd \in [Command -> CmdRec]
  BY DEF Types, TypeOK, CmdRec
<1>2. conf \in [max : Limits, timeouts : BOOLEAN, deadlines : BOOLEAN, bench : BOOLEAN]
  BY DEF Types, TypeOK
<1>3. conf.max \in Nat /\ conf.max > 0
  <2>1. conf.max \in Limits
    BY <1>2
  <2>2. \A l \in Limits : l \in Nat /\ l > 0
    BY LimitsAssumption
  <2> QED BY <2>1, <2>2
<1>4. Cardinality(Command) \in Nat
  BY LimitsAssumption, FS_CardinalityType
<1> QED BY <1>1, <1>2, <1>3, <1>4 DEF Types, TypeOK

LEMMA TypedNext ==
    ASSUME cmd' \in [Command -> CmdRec],
           current' \in 0..conf'.max, waiters' \in Seq(Command),
           ctx' \in {"connecting", "open", "failing", "closing", "null", "freed"},
           wire' \in Seq(Command),
           loop' \in {"Running", "Stopping", "Stopped", "Exited"},
           driver' \in {"running", "returned", "stopping", "destroyed"},
           conf' \in [max : Limits, timeouts : BOOLEAN, deadlines : BOOLEAN, bench : BOOLEAN],
           stack' \in Seq(Frames), queue' \in Seq(Frames)
    PROVE  Types'
<1>1. cmd' \in [Command ->
          [at        : {"new", "posted", "waiting", "issued", "done"},
           arrival   : 0..Cardinality(Command),
           result    : {"none", "reply", "error", "timeout"},
           resumes   : 0..1,
           completed : BOOLEAN,
           permit    : BOOLEAN,
           timer     : {"none", "active", "closed"},
           ref       : {"none", "live", "deleted"},
           helper    : {"none", "waiting", "posted", "leaked", "freed"}]]
  BY DEF CmdRec
<1> QED BY <1>1 DEF Types, TypeOK

LEMMA RecTyped ==
    ASSUME NEW r \in CmdRec
    PROVE  /\ r.at \in {"new", "posted", "waiting", "issued", "done"}
           /\ r.arrival \in Nat /\ r.resumes \in 0..1
           /\ r.completed \in BOOLEAN /\ r.permit \in BOOLEAN
           /\ r.timer \in {"none", "active", "closed"}
           /\ r.ref \in {"none", "live", "deleted"}
BY LimitsAssumption, FS_CardinalityType DEF CmdRec

LEMMA AnsweredRec ==
    ASSUME NEW r \in CmdRec, NEW completed \in BOOLEAN, NEW timer \in {"none", "active", "closed"},
           NEW result \in {"none", "reply", "error", "timeout"}
    PROVE  [r EXCEPT !.ref = "deleted", !.completed = completed, !.timer = timer,
                     !.result = result] \in CmdRec
BY DEF CmdRec

LEMMA OnlyOne ==
    ASSUME cmd \in [Command -> CmdRec], NEW c \in Command, NEW q \in CmdRec,
           cmd' = [cmd EXCEPT ![c] = q]
    PROVE  Only(c) /\ cmd'[c] = q
BY DEF Only

\* A command that no call on the stack knows of.
LEMMA Unknown ==
    ASSUME NEW c, NEW r, NEW S, Calls(c, r, S),
           \/ r.at = "new"
           \/ r.at \in {"posted", "waiting"} /\ ~r.permit
           \/ r.at = "issued" /\ ~r.completed
    PROVE  \A at \in {"issue", "resume", "timedout", "drop"} :
              F(at, c) \in S => at = "issue" /\ r.at # "new" /\ r.at # "issued" /\ r.permit
BY DEF Calls

LEMMA CallKeeps == ASSUME IInv, NEW c \in Command, Call(c) PROVE IInv'
<1> USE DEF IInv
<1>0. /\ cmd[c].at = "new" /\ (driver = "running" \/ conf.deadlines)
      /\ UNCHANGED <<current, waiters, ctx, wire, stack, loop, driver, conf>>
  BY DEF Call, limiter, outside
<1>1. /\ cmd \in [Command -> CmdRec] /\ current \in 0..conf.max /\ waiters \in Seq(Command)
      /\ stack \in Seq(Frames) /\ queue \in Seq(Frames) /\ wire \in Seq(Command)
      /\ Cardinality(Command) \in Nat
  BY Typed
<1>2. Life(cmd[c]) /\ cmd[c] \in CmdRec /\ cmd[c].arrival = 0 /\ ~cmd[c].permit
  BY <1>0, <1>1 DEF LifeInv, Life
<1>3. Calls(c, cmd[c], Range(stack))
  BY DEF StackInv
<1>4. \A at \in {"issue", "resume", "timedout", "drop"} : F(at, c) \notin Range(stack)
  BY <1>0, <1>3, Unknown
<1>5. \/ /\ cmd' = [cmd EXCEPT ![c].at = "posted", ![c].arrival = 1 + Cardinality(Arrived)]
         /\ queue' = Append(queue, F("execute", c))
      \/ /\ cmd' = [cmd EXCEPT ![c].at = "done", ![c].result = "error"]
         /\ queue' = queue
  BY DEF Call, Suspend, Arrived
<1>6. IsFiniteSet(Arrived) /\ Cardinality(Arrived) \in Nat /\ 1 + Cardinality(Arrived) \in 0..Cardinality(Command)
  <2>1. Arrived \cup {c} \in SUBSET Command /\ Arrived \in SUBSET Command /\ c \notin Arrived
    BY <1>2 DEF Arrived
  <2>2. IsFiniteSet(Arrived) /\ Cardinality(Arrived) \in Nat
    BY <2>1, LimitsAssumption, FS_Subset, FS_CardinalityType
  <2>3. Cardinality(Arrived \cup {c}) = Cardinality(Arrived) + 1
    BY <2>1, <2>2, FS_AddElement
  <2>4. Cardinality(Arrived \cup {c}) <= Cardinality(Command)
    BY <2>1, LimitsAssumption, FS_Subset
  <2> QED BY <1>1, <2>2, <2>3, <2>4
<1>7. Only(c) /\ (\/ /\ cmd'[c] = [cmd[c] EXCEPT !.at = "posted", !.arrival = 1 + Cardinality(Arrived)]
                     /\ queue' = Append(queue, F("execute", c))
                  \/ /\ cmd'[c] = [cmd[c] EXCEPT !.at = "done", !.result = "error"]
                     /\ queue' = queue)
  <2>1. CASE /\ cmd' = [cmd EXCEPT ![c].at = "posted", ![c].arrival = 1 + Cardinality(Arrived)]
             /\ queue' = Append(queue, F("execute", c))
    <3> DEFINE q == [cmd[c] EXCEPT !.at = "posted", !.arrival = 1 + Cardinality(Arrived)]
    <3>1. cmd' = [cmd EXCEPT ![c] = q]
      BY <1>1, <2>1
    <3>2. q \in CmdRec
      BY <1>2, <1>6 DEF CmdRec
    <3> QED BY <1>1, <2>1, <3>1, <3>2, OnlyOne
  <2>2. CASE cmd' = [cmd EXCEPT ![c].at = "done", ![c].result = "error"] /\ queue' = queue
    <3> DEFINE q == [cmd[c] EXCEPT !.at = "done", !.result = "error"]
    <3>1. cmd' = [cmd EXCEPT ![c] = q]
      BY <1>1, <2>2
    <3>2. q \in CmdRec
      BY <1>2 DEF CmdRec
    <3> QED BY <1>1, <2>2, <3>1, <3>2, OnlyOne
  <2> QED BY <1>5, <2>1, <2>2
<1>8. /\ cmd'[c].permit = cmd[c].permit /\ cmd'[c].completed = cmd[c].completed
      /\ cmd'[c].timer = cmd[c].timer /\ cmd'[c].ref = cmd[c].ref /\ cmd'[c].resumes = cmd[c].resumes
      /\ \/ cmd'[c].at = "posted" /\ cmd'[c].arrival = 1 + Cardinality(Arrived)
            /\ queue' = Append(queue, F("execute", c))
         \/ cmd'[c].at = "done" /\ cmd'[c].arrival = cmd[c].arrival /\ queue' = queue
  BY <1>2, <1>7 DEF CmdRec
<1>9. Types'
  <2>1. F("execute", c) \in Frames
    BY FrameTypes
  <2>2. Append(queue, F("execute", c)) \in Seq(Frames)
    BY <1>1, <2>1, RangeAppend
  <2>3. queue' \in Seq(Frames)
    BY <1>1, <1>8, <2>2
  <2> QED BY <1>0, <1>7, <2>3, Typed, TypedNext DEF Only
<1>10. LifeInv'
  BY <1>0, <1>2, <1>6, <1>7, <1>8, OneLife DEF Life
<1>11. StackInv'
  <2>1. Calls(c, cmd'[c], Range(stack'))
    BY <1>0, <1>2, <1>4, <1>8 DEF Calls
  <2> QED BY <1>0, <1>7, <2>1, OneCalls DEF StackInv, SameCalls
<1>12. WireInv'
  BY <1>0, <1>7, <1>8, WireKept DEF Only
<1>13. QueueInv'
  <2>1. CASE cmd'[c].at = "posted"
    BY <1>0, <1>2, <1>7, <1>8, <2>1, QueuePosted
  <2>2. CASE cmd'[c].at = "done"
    <3>1. SamePlace(cmd[c], cmd'[c])
      BY <1>0, <1>2, <1>8, <2>2 DEF SamePlace, Pending, Past
    <3>2. \A d \in Command : SamePlace(cmd[d], cmd'[d])
      BY <1>7, <3>1 DEF Only, SamePlace
    <3> QED BY <1>0, <1>8, <2>2, <3>2, QueueKept
  <2> QED BY <1>8, <2>1, <2>2
<1>14. PermitInv'
  <2>1. Holders(cmd', Range(stack')) = Holders(cmd, Range(stack))
    BY <1>0, <1>7, <1>8, HoldersKept DEF Only
  <2> QED BY <1>0, <2>1, PermitKept
<1>15. AfterInv'
  BY <1>0, AfterKept
<1> QED BY <1>9, <1>10, <1>11, <1>12, <1>13, <1>14, <1>15

LEMMA ExecuteKeeps == ASSUME IInv, NEW c \in Command, Execute(c) PROVE IInv'
<1> USE DEF IInv
<1>0. /\ stack = <<>> /\ queue # <<>> /\ Head(queue) = F("execute", c) /\ queue' = Tail(queue)
      /\ UNCHANGED <<ctx, wire, loop, driver, conf>>
  BY DEF Execute, Runs, Idle, outside
<1>1. /\ cmd \in [Command -> CmdRec] /\ current \in 0..conf.max /\ waiters \in Seq(Command)
      /\ stack \in Seq(Frames) /\ queue \in Seq(Frames) /\ wire \in Seq(Command)
      /\ conf.max \in Nat
  BY Typed
<1>2. cmd[c].at = "posted" /\ ~cmd[c].permit /\ Life(cmd[c]) /\ cmd[c] \in CmdRec
      /\ queue' \in Seq(Frames)
  BY <1>0, <1>1, OldestPosted DEF LifeInv
<1>3. Range(stack) = {}
  BY <1>0, NoCall
<1>4. Only(c) /\ Life(cmd'[c]) /\ cmd'[c].ref = cmd[c].ref => AfterInv' /\ WireInv' /\ LifeInv'
  <2> SUFFICES ASSUME Only(c), Life(cmd'[c]), cmd'[c].ref = cmd[c].ref
               PROVE  AfterInv' /\ WireInv' /\ LifeInv'
    OBVIOUS
  <2>1. AfterInv'
    BY <1>0, <1>2, AfterKept DEF AfterInv
  <2>2. WireInv'
    BY <1>0, WireKept DEF Only
  <2>3. LifeInv'
    BY OneLife
  <2> QED BY <2>1, <2>2, <2>3
<1>5. CASE /\ current < conf.max /\ current' = current + 1
           /\ cmd' = [cmd EXCEPT ![c].permit = TRUE]
           /\ stack' = <<F("issue", c)>> /\ waiters' = waiters
  <2> DEFINE q == [cmd[c] EXCEPT !.permit = TRUE]
  <2>1. cmd' = [cmd EXCEPT ![c] = q] /\ q \in CmdRec
    BY <1>1, <1>2, <1>5 DEF CmdRec
  <2>2. Only(c) /\ cmd'[c] = q
    BY <1>1, <2>1, OnlyOne
  <2>3. /\ q.permit /\ q.at = cmd[c].at /\ q.arrival = cmd[c].arrival /\ q.ref = cmd[c].ref
        /\ q.completed = cmd[c].completed /\ q.timer = cmd[c].timer /\ q.resumes = cmd[c].resumes
    BY <1>2 DEF CmdRec
  <2> HIDE DEF q
  <2>4. Life(cmd'[c])
    BY <1>2, <2>2, <2>3 DEF Life
  <2>5. waiters = <<>>
    BY <1>1, <1>5 DEF PermitInv
  <2>6. F("issue", c) \in Frames /\ F("issue", c).at # "resume"
    BY FrameTypes, FrameFacts
  <2>7. stack' \in Seq(Frames) /\ StackOK(stack') /\ Range(stack') = {F("issue", c)}
    BY <1>5, <2>6, OneCall
  <2>8. Types'
    <3>1. current' \in 0..conf'.max
      BY <1>0, <1>1, <1>5
    <3>2. waiters' \in Seq(Command)
      BY <1>1, <1>5
    <3> QED BY <1>0, <1>2, <2>2, <2>7, <3>1, <3>2, Typed, TypedNext DEF Only
  <2>9. StackInv'
    <3>1. \A d \in Command \ {c} : SameCalls(d, Range(stack), Range(stack'))
      BY <1>3, <2>7, FrameFacts DEF SameCalls
    <3>2. Calls(c, cmd'[c], Range(stack'))
      BY <1>2, <2>2, <2>3, <2>7, FrameFacts DEF Calls
    <3> QED BY <2>2, <2>7, <3>1, <3>2, OneCalls
  <2>10. QueueInv'
    BY <1>0, <1>2, <1>5, <2>2, <2>3, <2>5, QueueTaken
  <2>11. PermitInv'
    <3>1. Holders(cmd', Range(stack')) = Holders(cmd, Range(stack)) \cup {c} /\ c \notin Holders(cmd, Range(stack))
      BY <1>2, <1>3, <2>2, <2>3, <2>7, FrameFacts DEF Holders, Only
    <3>2. Cardinality(Holders(cmd', Range(stack'))) = Cardinality(Holders(cmd, Range(stack))) + 1
      BY <3>1, FiniteHolders, FS_AddElement
    <3> QED BY <1>5, <2>5, <3>2 DEF PermitInv
  <2> QED BY <1>4, <2>2, <2>3, <2>4, <2>8, <2>9, <2>10, <2>11
<1>6. CASE /\ current = conf.max /\ waiters' = Append(waiters, c)
           /\ cmd' = [cmd EXCEPT ![c].at = "waiting", ![c].helper = "waiting"]
           /\ UNCHANGED <<current, stack>>
  <2> DEFINE q == [cmd[c] EXCEPT !.at = "waiting", !.helper = "waiting"]
  <2>1. cmd' = [cmd EXCEPT ![c] = q] /\ q \in CmdRec
    <3>1. cmd' = [cmd EXCEPT ![c] = q]
      BY <1>1, <1>6
    <3> QED BY <1>2, <3>1 DEF CmdRec
  <2>2. Only(c) /\ cmd'[c] = q
    BY <1>1, <2>1, OnlyOne
  <2>3. /\ ~q.permit /\ q.at = "waiting" /\ q.arrival = cmd[c].arrival /\ q.ref = cmd[c].ref
        /\ q.completed = cmd[c].completed /\ q.timer = cmd[c].timer /\ q.resumes = cmd[c].resumes
    BY <1>2 DEF CmdRec
  <2> HIDE DEF q
  <2>4. Life(cmd'[c])
    BY <1>2, <2>2, <2>3 DEF Life
  <2>5. Types'
    <3>1. waiters' \in Seq(Command)
      BY <1>1, <1>6, RangeAppend
    <3> QED BY <1>0, <1>1, <1>2, <1>6, <2>2, <3>1, Typed, TypedNext DEF Only
  <2>6. StackInv'
    <3>1. \A d \in Command \ {c} : SameCalls(d, Range(stack), Range(stack'))
      <4>1. stack' = stack
        BY <1>6
      <4> QED BY <4>1 DEF SameCalls
    <3>2. Calls(c, cmd'[c], Range(stack'))
      BY <1>3, <1>6, <2>2, <2>3 DEF Calls
    <3> QED BY <1>6, <2>2, <3>1, <3>2, OneCalls DEF StackInv
  <2>7. QueueInv'
    BY <1>0, <1>6, <2>2, <2>3, QueueWaits
  <2>8. PermitInv'
    <3>1. Holders(cmd', Range(stack')) = Holders(cmd, Range(stack))
      <4>1. \A d \in Command : cmd'[d].permit <=> cmd[d].permit
        BY <1>2, <2>2, <2>3 DEF Only
      <4>2. stack' = stack
        BY <1>6
      <4> QED BY <4>1, <4>2, HoldersKept
    <3> QED BY <1>0, <1>6, <3>1 DEF PermitInv
  <2> QED BY <1>4, <2>2, <2>3, <2>4, <2>5, <2>6, <2>7, <2>8
<1> QED BY <1>5, <1>6 DEF Execute

\* A step that is about one command which has got its place in the line.
LEMMA OneStep ==
    ASSUME IInv, NEW c \in Command, Only(c), UNCHANGED <<current, waiters, loop, driver, conf>>,
           stack' \in Seq(Frames), StackOK(stack'),
           \A d \in Command \ {c} : SameCalls(d, Range(stack), Range(stack')),
           Life(cmd'[c]), Calls(c, cmd'[c], Range(stack')), SamePlace(cmd[c], cmd'[c]),
           \/ queue' = queue
           \/ \E x \in Frames : x.at # "execute" /\ queue' = Append(queue, x)
           \/ queue # <<>> /\ Head(queue).at # "execute" /\ queue' = Tail(queue),
           cmd'[c].permit /\ F("timedout", c) \notin Range(stack')
              <=> cmd[c].permit /\ F("timedout", c) \notin Range(stack),
           \/ cmd[c].at \notin {"new", "done"} \/ cmd[c].permit
           \/ cmd'[c].at \in {"new", "done"} /\ ~cmd'[c].permit,
           wire' \in Seq(Command), WireInv',
           ctx' \in {"connecting", "open", "failing", "closing", "null", "freed"}
    PROVE  IInv'
<1> USE DEF IInv
<1>1. cmd' \in [Command -> CmdRec] /\ \A d \in Command \ {c} : cmd'[d] = cmd[d]
  BY DEF Only
<1>2. Types'
  <2>1. queue \in Seq(Frames)
    BY Typed
  <2>2. queue' \in Seq(Frames)
    <3>1. CASE queue' = queue
      BY <2>1, <3>1
    <3>2. CASE \E x \in Frames : x.at # "execute" /\ queue' = Append(queue, x)
      BY <2>1, <3>2, RangeAppend
    <3>3. CASE queue # <<>> /\ Head(queue).at # "execute" /\ queue' = Tail(queue)
      BY <2>1, <3>3, RangeTail
    <3> QED BY <3>1, <3>2, <3>3
  <2> QED BY <1>1, <2>2, Typed, TypedNext
<1>3. LifeInv'
  BY OneLife
<1>4. StackInv'
  BY OneCalls
<1>5. QueueInv'
  <2>1. \A d \in Command : SamePlace(cmd[d], cmd'[d])
    BY <1>1 DEF SamePlace
  <2> QED BY <2>1, QueueKept
<1>6. PermitInv'
  <2>1. \A d \in Command \ {c} : F("timedout", d) \in Range(stack) <=> F("timedout", d) \in Range(stack')
    BY DEF SameCalls
  <2>2. \A d \in Command : cmd'[d].permit /\ F("timedout", d) \notin Range(stack')
                              <=> cmd[d].permit /\ F("timedout", d) \notin Range(stack)
    BY <1>1, <2>1
  <2>3. Holders(cmd', Range(stack')) = Holders(cmd, Range(stack))
    BY <2>2 DEF Holders
  <2> QED BY <2>3, PermitKept
<1>7. AfterInv'
  <2>1. AfterInv /\ driver' = driver /\ conf' = conf
    OBVIOUS
  <2> QED BY <1>1, <2>1 DEF AfterInv
<1> QED BY <1>2, <1>3, <1>4, <1>5, <1>6, <1>7

\* The stack after the call on top of it has returned, or has gone on with the
\* coroutine of c.
LEMMA Returned ==
    ASSUME Types, StackInv, NEW at, NEW c \in Command, Top(F(at, c))
    PROVE  /\ Tail(stack) \in Seq(Frames) /\ StackOK(Tail(stack))
           /\ Range(stack) = Range(Tail(stack)) \cup {F(at, c)}
           /\ at \in {"issue", "resume", "drop", "timedout"} => F(at, c) \notin Range(Tail(stack))
           /\ at = "drop" => F("resume", c) \notin Range(stack)
           /\ at = "resume" => F("drop", c) \in Range(Tail(stack))
           /\ \A d \in Command \ {c} : SameCalls(d, Range(stack), Range(Tail(stack)))
           /\ Calls(c, cmd[c], Range(stack))
<1>1. stack \in Seq(Frames) /\ stack # <<>> /\ Head(stack) = F(at, c) /\ StackOK(stack)
  BY Typed DEF Top, StackInv
<1>2. Range(stack) = Range(Tail(stack)) \cup {F(at, c)} /\ Tail(stack) \in Seq(Frames)
  BY <1>1, RangeTail
<1>3. Head(stack).at = at /\ Head(stack).c = c
  BY <1>1, FrameFacts
<1>4. /\ StackOK(Tail(stack))
      /\ at \in {"issue", "resume", "drop", "timedout"} => F(at, c) \notin Range(Tail(stack))
      /\ at = "drop" => F("resume", c) \notin Range(stack)
      /\ at = "resume" => F("drop", c) \in Range(Tail(stack))
  BY <1>1, <1>3, PopStack
<1>5. \A d \in Command \ {c} : SameCalls(d, Range(stack), Range(Tail(stack)))
  BY <1>2, FrameFacts DEF SameCalls
<1> QED BY <1>2, <1>4, <1>5 DEF StackInv

LEMMA GoesOn ==
    ASSUME NEW s \in Seq(Frames), StackOK(s), NEW c \in Command, NEW S,
           F("resume", c) \notin Range(s), F("drop", c) \notin Range(s),
           \A d \in Command \ {c} : SameCalls(d, S, Range(s))
    PROVE  /\ GoOn(c, s) \in Seq(Frames) /\ StackOK(GoOn(c, s))
           /\ Range(GoOn(c, s)) = Range(s) \cup {F("resume", c), F("drop", c)}
           /\ \A d \in Command \ {c} : SameCalls(d, S, Range(GoOn(c, s)))
<1>1. F("resume", c) \in Frames /\ F("drop", c) \in Frames
  BY FrameTypes
<1>2. /\ GoOn(c, s) \in Seq(Frames)
      /\ Range(GoOn(c, s)) = Range(s) \cup {F("resume", c), F("drop", c)}
  BY <1>1, RangePush DEF GoOn
<1>3. StackOK(GoOn(c, s))
  BY <1>1, PushStack DEF GoOn
<1>4. \A d \in Command \ {c} : SameCalls(d, S, Range(GoOn(c, s)))
  BY <1>2, FrameFacts DEF SameCalls
<1> QED BY <1>2, <1>3, <1>4

LEMMA IssueKeeps == ASSUME IInv, NEW c \in Command, Issue(c) PROVE IInv'
<1> USE DEF IInv
<1>0. Top(F("issue", c)) /\ UNCHANGED <<current, waiters, ctx, queue, loop, driver, conf>>
  BY DEF Issue, limiter, outside
<1>1. /\ cmd \in [Command -> CmdRec] /\ wire \in Seq(Command)
      /\ ctx \in {"connecting", "open", "failing", "closing", "null", "freed"}
  BY Typed
<1>2. /\ Tail(stack) \in Seq(Frames) /\ StackOK(Tail(stack))
      /\ Range(stack) = Range(Tail(stack)) \cup {F("issue", c)}
      /\ F("issue", c) \notin Range(Tail(stack))
      /\ \A d \in Command \ {c} : SameCalls(d, Range(stack), Range(Tail(stack)))
      /\ Calls(c, cmd[c], Range(stack))
  BY <1>0, Returned
<1>3. /\ cmd[c].permit /\ cmd[c].at \in {"posted", "waiting"}
      /\ {F("resume", c), F("timedout", c), F("drop", c)} \cap Range(stack) = {}
  BY <1>2 DEF Calls
<1>4. Life(cmd[c]) /\ cmd[c] \in CmdRec
  BY <1>1 DEF LifeInv
<1>5. ~cmd[c].completed /\ cmd[c].ref # "live" /\ cmd[c].timer # "active"
      /\ cmd[c].arrival > 0 /\ cmd[c].resumes = 0
  BY <1>3, <1>4 DEF Life
<1>6. CASE /\ \/ cmd' = [cmd EXCEPT ![c].result = "error"]
              \/ cmd' = [cmd EXCEPT ![c].result = "error", ![c].ref = "deleted",
                                    ![c].timer = IF conf.timeouts THEN "closed" ELSE "none"]
           /\ stack' = GoOn(c, Tail(stack)) /\ wire' = wire
  <2>1. /\ Only(c)
        /\ cmd'[c].permit = cmd[c].permit /\ cmd'[c].completed = cmd[c].completed
        /\ cmd'[c].timer # "active" /\ cmd'[c].ref # "live" /\ cmd'[c].resumes = cmd[c].resumes
        /\ cmd'[c].at = cmd[c].at /\ cmd'[c].arrival = cmd[c].arrival
    <3>1. CASE cmd' = [cmd EXCEPT ![c].result = "error"]
      <4> DEFINE q == [cmd[c] EXCEPT !.result = "error"]
      <4>1. cmd' = [cmd EXCEPT ![c] = q]
        BY <1>1, <3>1
      <4>2. q \in CmdRec
        BY <1>4 DEF CmdRec
      <4>3. Only(c) /\ cmd'[c] = q
        BY <1>1, <4>1, <4>2, OnlyOne
      <4> QED BY <1>4, <1>5, <4>3 DEF CmdRec
    <3>2. CASE cmd' = [cmd EXCEPT ![c].result = "error", ![c].ref = "deleted",
                                  ![c].timer = IF conf.timeouts THEN "closed" ELSE "none"]
      <4> DEFINE tm == IF conf.timeouts THEN "closed" ELSE "none"
      <4>0. tm \in {"closed", "none"}
        OBVIOUS
      <4> HIDE DEF tm
      <4> DEFINE q == [cmd[c] EXCEPT !.result = "error", !.ref = "deleted", !.timer = tm]
      <4>1. cmd' = [cmd EXCEPT ![c] = q]
        BY <1>1, <3>2 DEF tm
      <4>2. q \in CmdRec
        BY <1>4, <4>0 DEF CmdRec
      <4>3. Only(c) /\ cmd'[c] = q
        BY <1>1, <4>1, <4>2, OnlyOne
      <4> QED BY <1>4, <1>5, <4>0, <4>3 DEF CmdRec
    <3> QED BY <1>6, <3>1, <3>2
  <2>2. F("resume", c) \notin Range(Tail(stack)) /\ F("drop", c) \notin Range(Tail(stack))
    BY <1>2, <1>3
  <2>3. /\ stack' \in Seq(Frames) /\ StackOK(stack')
        /\ Range(stack') = Range(Tail(stack)) \cup {F("resume", c), F("drop", c)}
        /\ \A d \in Command \ {c} : SameCalls(d, Range(stack), Range(stack'))
    BY <1>2, <1>6, <2>2, GoesOn
  <2>4. Life(cmd'[c])
    BY <1>3, <1>5, <2>1 DEF Life
  <2>5. F("issue", c) \notin Range(stack') /\ F("timedout", c) \notin Range(stack')
    BY <1>2, <1>3, <2>3, FrameFacts
  <2>6. Calls(c, cmd'[c], Range(stack'))
    BY <1>3, <2>1, <2>3, <2>5 DEF Calls
  <2>7. SamePlace(cmd[c], cmd'[c])
    BY <2>1 DEF SamePlace, Pending, Past
  <2>8. WireInv'
    BY <1>0, <1>5, <1>6, <2>1, WireKept DEF Only
  <2>9. cmd'[c].permit /\ F("timedout", c) \notin Range(stack')
              <=> cmd[c].permit /\ F("timedout", c) \notin Range(stack)
    BY <1>3, <2>1, <2>5
  <2> QED BY <1>0, <1>1, <1>3, <1>6, <2>1, <2>3, <2>4, <2>6, <2>7, <2>8, <2>9, OneStep
<1>7. CASE /\ cmd' = [cmd EXCEPT ![c].at = "issued", ![c].ref = "live",
                                 ![c].timer = IF conf.timeouts THEN "active" ELSE "none"]
           /\ wire' = IF ctx = "freed" THEN wire ELSE Append(wire, c)
           /\ stack' = Tail(stack)
  <2> DEFINE tm == IF conf.timeouts THEN "active" ELSE "none"
  <2>0. tm \in {"active", "none"}
    OBVIOUS
  <2> HIDE DEF tm
  <2> DEFINE q == [cmd[c] EXCEPT !.at = "issued", !.ref = "live", !.timer = tm]
  <2>1. cmd' = [cmd EXCEPT ![c] = q]
    BY <1>1, <1>7 DEF tm
  <2>2. q \in CmdRec
    BY <1>4, <2>0 DEF CmdRec
  <2>3. Only(c) /\ cmd'[c] = q
    BY <1>1, <2>1, <2>2, OnlyOne
  <2>4. /\ cmd'[c].permit = cmd[c].permit /\ cmd'[c].completed = cmd[c].completed
        /\ cmd'[c].ref = "live" /\ cmd'[c].resumes = cmd[c].resumes
        /\ cmd'[c].at = "issued" /\ cmd'[c].arrival = cmd[c].arrival
    BY <1>4, <2>3 DEF CmdRec
  <2>5. Life(cmd'[c])
    BY <1>3, <1>5, <2>4 DEF Life
  <2>6. {F("issue", c), F("resume", c), F("timedout", c), F("drop", c)} \cap Range(stack') = {}
    BY <1>2, <1>3, <1>7
  <2>7. Calls(c, cmd'[c], Range(stack'))
    BY <1>5, <2>4, <2>6 DEF Calls
  <2>8. SamePlace(cmd[c], cmd'[c])
    BY <1>3, <1>5, <2>4 DEF SamePlace, Pending, Past
  <2>9. wire' \in Seq(Command) /\ WireInv'
    <3>1. c \notin Range(wire)
      BY <1>5 DEF WireInv
    <3>2. CASE ctx = "freed"
      <4>1. wire' = wire /\ ctx' = "freed"
        BY <1>0, <1>7, <3>2
      <4>2. \A d \in Command \ {c} : cmd'[d] = cmd[d]
        BY <2>3 DEF Only
      <4> QED BY <1>1, <2>4, <4>1, <4>2 DEF WireInv
    <3>3. CASE ctx # "freed"
      <4>1. wire' = Append(wire, c) /\ ctx' = ctx
        BY <1>0, <1>7, <3>3
      <4>2. /\ wire' \in Seq(Command) /\ Range(wire') = Range(wire) \cup {c}
            /\ Len(wire) \in Nat /\ Len(wire') = Len(wire) + 1
            /\ \A i \in 1..Len(wire) : wire'[i] = wire[i]
            /\ wire'[Len(wire')] = c
        BY <1>1, <4>1, RangeAppend, AppendProperties
      <4>3. \A i \in 1..Len(wire) : wire[i] # c
        BY <1>1, <3>1, InRange
      <4>4. \A i, j \in 1..Len(wire') : wire'[i] = wire'[j] => i = j
        <5>1. \A i \in 1..Len(wire') : i \in 1..Len(wire) \/ i = Len(wire')
          BY <4>2
        <5> QED BY <4>2, <4>3, <5>1 DEF WireInv
      <4>5. \A d \in Command \ {c} : cmd'[d] = cmd[d]
        BY <2>3 DEF Only
      <4>6. \A d \in Command : d \in Range(wire') => cmd'[d].ref = "live"
        BY <2>4, <4>2, <4>5 DEF WireInv
      <4>7. \A d \in Command : cmd'[d].ref = "live" => d \in Range(wire') \/ ctx' = "freed"
        BY <4>1, <4>2, <4>5 DEF WireInv
      <4> QED BY <4>2, <4>4, <4>6, <4>7 DEF WireInv
    <3> QED BY <3>2, <3>3
  <2>10. cmd'[c].permit /\ F("timedout", c) \notin Range(stack')
              <=> cmd[c].permit /\ F("timedout", c) \notin Range(stack)
    BY <1>3, <2>4, <2>6
  <2> QED BY <1>0, <1>1, <1>2, <1>3, <1>7, <2>3, <2>5, <2>7, <2>8, <2>9, <2>10, OneStep
<1> QED BY <1>6, <1>7 DEF Issue

LEMMA CleanupKeeps == ASSUME IInv, NEW c \in Command, Cleanup(c) \/ Delete(c) PROVE IInv'
<1> USE DEF IInv
<1>0. /\ UNCHANGED <<current, waiters, ctx, wire, loop, driver, conf>>
      /\ \E h \in {"posted", "leaked", "freed"} : cmd' = [cmd EXCEPT ![c].helper = h]
      /\ \/ Top(F("cleanup", c)) /\ stack' = Tail(stack)
         \/ stack' = stack
      /\ \/ queue' = queue
         \/ queue' = Append(queue, F("delete", c))
         \/ queue # <<>> /\ Head(queue) = F("delete", c) /\ queue' = Tail(queue)
  <2>1. CASE Cleanup(c)
    BY <2>1 DEF Cleanup, limiter, outside
  <2>2. CASE Delete(c)
    BY <2>2 DEF Delete, Runs, limiter, outside
  <2> QED BY <2>1, <2>2
<1>1. /\ cmd \in [Command -> CmdRec] /\ wire \in Seq(Command) /\ stack \in Seq(Frames)
      /\ ctx \in {"connecting", "open", "failing", "closing", "null", "freed"}
  BY Typed
<1>2. Life(cmd[c]) /\ cmd[c] \in CmdRec
  BY <1>1 DEF LifeInv
<1>3. /\ Only(c)
      /\ cmd'[c].permit = cmd[c].permit /\ cmd'[c].completed = cmd[c].completed
      /\ cmd'[c].timer = cmd[c].timer /\ cmd'[c].ref = cmd[c].ref /\ cmd'[c].resumes = cmd[c].resumes
      /\ cmd'[c].at = cmd[c].at /\ cmd'[c].arrival = cmd[c].arrival
  <2>1. PICK h \in {"posted", "leaked", "freed"} : cmd' = [cmd EXCEPT ![c].helper = h]
    BY <1>0
  <2> DEFINE q == [cmd[c] EXCEPT !.helper = h]
  <2>2. cmd' = [cmd EXCEPT ![c] = q]
    BY <1>1, <2>1
  <2>3. q \in CmdRec
    BY <1>2 DEF CmdRec
  <2>4. Only(c) /\ cmd'[c] = q
    BY <1>1, <2>2, <2>3, OnlyOne
  <2> QED BY <1>2, <2>4 DEF CmdRec
<1>4. /\ stack' \in Seq(Frames) /\ StackOK(stack')
      /\ \A d \in Command : SameCalls(d, Range(stack), Range(stack'))
  <2>1. CASE stack' = stack
    BY <1>1, <2>1 DEF SameCalls, StackInv
  <2>2. CASE Top(F("cleanup", c)) /\ stack' = Tail(stack)
    <3>1. /\ Tail(stack) \in Seq(Frames) /\ StackOK(Tail(stack))
          /\ Range(stack) = Range(Tail(stack)) \cup {F("cleanup", c)}
      BY <2>2, Returned
    <3> QED BY <2>2, <3>1, FrameFacts DEF SameCalls
  <2> QED BY <1>0, <2>1, <2>2
<1>5. Life(cmd'[c])
  BY <1>2, <1>3 DEF Life
<1>6. Calls(c, cmd'[c], Range(stack'))
  BY <1>3, <1>4, CallsKept DEF StackInv
<1>7. SamePlace(cmd[c], cmd'[c])
  BY <1>3 DEF SamePlace, Pending, Past
<1>8. WireInv'
  BY <1>0, <1>3, WireKept DEF Only
<1>9. \/ queue' = queue
      \/ \E x \in Frames : x.at # "execute" /\ queue' = Append(queue, x)
      \/ queue # <<>> /\ Head(queue).at # "execute" /\ queue' = Tail(queue)
  BY <1>0, FrameFacts, FrameTypes
<1>10. cmd'[c].permit /\ F("timedout", c) \notin Range(stack')
              <=> cmd[c].permit /\ F("timedout", c) \notin Range(stack)
  BY <1>3, <1>4 DEF SameCalls
<1>11. \/ cmd[c].at \notin {"new", "done"} \/ cmd[c].permit
       \/ cmd'[c].at \in {"new", "done"} /\ ~cmd'[c].permit
  BY <1>3
<1> QED BY <1>0, <1>1, <1>3, <1>4, <1>5, <1>6, <1>7, <1>8, <1>9, <1>10, <1>11, OneStep

LEMMA ResumeKeeps == ASSUME IInv, NEW c \in Command, Resume(c) PROVE IInv'
<1> USE DEF IInv
<1>0. /\ Top(F("resume", c)) /\ stack' = Tail(stack)
      /\ cmd' = [cmd EXCEPT ![c].at = "done", ![c].resumes = @ + 1]
      /\ UNCHANGED <<current, waiters, ctx, wire, queue, loop, driver, conf>>
  BY DEF Resume, limiter, outside
<1>1. /\ cmd \in [Command -> CmdRec] /\ wire \in Seq(Command)
      /\ ctx \in {"connecting", "open", "failing", "closing", "null", "freed"}
  BY Typed
<1>2. /\ Tail(stack) \in Seq(Frames) /\ StackOK(Tail(stack))
      /\ Range(stack) = Range(Tail(stack)) \cup {F("resume", c)}
      /\ F("resume", c) \notin Range(Tail(stack))
      /\ F("drop", c) \in Range(Tail(stack))
      /\ \A d \in Command \ {c} : SameCalls(d, Range(stack), Range(Tail(stack)))
      /\ Calls(c, cmd[c], Range(stack))
  BY <1>0, Returned
<1>3. /\ (cmd[c].at \in {"posted", "waiting"} /\ cmd[c].permit) \/ (cmd[c].at = "issued" /\ cmd[c].completed)
      /\ F("issue", c) \notin Range(stack) /\ F("timedout", c) \notin Range(stack)
  BY <1>2 DEF Calls
<1>4. Life(cmd[c]) /\ cmd[c] \in CmdRec
  BY <1>1 DEF LifeInv
<1>5. cmd[c].resumes = 0 /\ cmd[c].timer # "active" /\ cmd[c].arrival > 0
  BY <1>3, <1>4 DEF Life
<1> DEFINE q == [cmd[c] EXCEPT !.at = "done", !.resumes = 1]
<1>6. cmd' = [cmd EXCEPT ![c] = q]
  <2>1. cmd' = [cmd EXCEPT ![c].at = "done", ![c].resumes = 1]
    BY <1>0, <1>1, <1>4, <1>5 DEF CmdRec
  <2> QED BY <1>1, <2>1
<1>7. q \in CmdRec
  <2>1. 1 \in 0..1
    OBVIOUS
  <2> QED BY <1>4, <2>1 DEF CmdRec
<1>8. Only(c) /\ cmd'[c] = q
  BY <1>1, <1>6, <1>7, OnlyOne
<1>9. /\ cmd'[c].permit = cmd[c].permit /\ cmd'[c].completed = cmd[c].completed
      /\ cmd'[c].timer = cmd[c].timer /\ cmd'[c].ref = cmd[c].ref
      /\ cmd'[c].at = "done" /\ cmd'[c].arrival = cmd[c].arrival
  BY <1>4, <1>8 DEF CmdRec
<1> HIDE DEF q
<1>10. Life(cmd'[c])
  BY <1>5, <1>9 DEF Life
<1>11. Calls(c, cmd'[c], Range(stack'))
  BY <1>0, <1>2, <1>3, <1>9 DEF Calls
<1>12. SamePlace(cmd[c], cmd'[c])
  BY <1>3, <1>5, <1>9 DEF SamePlace, Pending, Past
<1>13. WireInv'
  BY <1>0, <1>8, <1>9, WireKept DEF Only
<1>14. cmd'[c].permit /\ F("timedout", c) \notin Range(stack')
              <=> cmd[c].permit /\ F("timedout", c) \notin Range(stack)
  BY <1>0, <1>2, <1>3, <1>9
<1> QED BY <1>0, <1>1, <1>2, <1>3, <1>8, <1>10, <1>11, <1>12, <1>13, <1>14, OneStep

LEMMA TimedOutKeeps == ASSUME IInv, NEW c \in Command, TimedOut(c) PROVE IInv'
<1> USE DEF IInv
<1>0. /\ Top(F("timedout", c)) /\ stack' = GoOn(c, Tail(stack))
      /\ cmd' = [cmd EXCEPT ![c].permit = FALSE]
      /\ UNCHANGED <<current, waiters, ctx, wire, queue, loop, driver, conf>>
  BY DEF TimedOut, limiter, outside
<1>1. /\ cmd \in [Command -> CmdRec] /\ wire \in Seq(Command)
      /\ ctx \in {"connecting", "open", "failing", "closing", "null", "freed"}
  BY Typed
<1>2. /\ Tail(stack) \in Seq(Frames) /\ StackOK(Tail(stack))
      /\ Range(stack) = Range(Tail(stack)) \cup {F("timedout", c)}
      /\ F("timedout", c) \notin Range(Tail(stack))
      /\ \A d \in Command \ {c} : SameCalls(d, Range(stack), Range(Tail(stack)))
      /\ Calls(c, cmd[c], Range(stack))
  BY <1>0, Returned
<1>3. /\ cmd[c].at = "issued" /\ cmd[c].completed /\ cmd[c].permit
      /\ {F("resume", c), F("drop", c), F("issue", c)} \cap Range(stack) = {}
  BY <1>2 DEF Calls
<1>4. Life(cmd[c]) /\ cmd[c] \in CmdRec
  BY <1>1 DEF LifeInv
<1> DEFINE q == [cmd[c] EXCEPT !.permit = FALSE]
<1>5. cmd' = [cmd EXCEPT ![c] = q] /\ q \in CmdRec
  BY <1>0, <1>1, <1>4 DEF CmdRec
<1>6. Only(c) /\ cmd'[c] = q
  BY <1>1, <1>5, OnlyOne
<1>7. /\ ~cmd'[c].permit /\ cmd'[c].completed = cmd[c].completed
      /\ cmd'[c].timer = cmd[c].timer /\ cmd'[c].ref = cmd[c].ref /\ cmd'[c].resumes = cmd[c].resumes
      /\ cmd'[c].at = cmd[c].at /\ cmd'[c].arrival = cmd[c].arrival
  BY <1>4, <1>6 DEF CmdRec
<1> HIDE DEF q
<1>8. /\ stack' \in Seq(Frames) /\ StackOK(stack')
      /\ Range(stack') = Range(Tail(stack)) \cup {F("resume", c), F("drop", c)}
      /\ \A d \in Command \ {c} : SameCalls(d, Range(stack), Range(stack'))
  <2>1. F("resume", c) \notin Range(Tail(stack)) /\ F("drop", c) \notin Range(Tail(stack))
    BY <1>2, <1>3
  <2> QED BY <1>0, <1>2, <2>1, GoesOn
<1>9. F("timedout", c) \notin Range(stack') /\ F("issue", c) \notin Range(stack')
  BY <1>2, <1>3, <1>8, FrameFacts
<1>10. Life(cmd'[c])
  BY <1>3, <1>4, <1>7 DEF Life
<1>11. Calls(c, cmd'[c], Range(stack'))
  BY <1>3, <1>7, <1>8, <1>9 DEF Calls
<1>12. SamePlace(cmd[c], cmd'[c])
  BY <1>3, <1>7 DEF SamePlace, Pending, Past
<1>13. WireInv'
  BY <1>0, <1>6, <1>7, WireKept DEF Only
<1>14. cmd'[c].permit /\ F("timedout", c) \notin Range(stack')
              <=> cmd[c].permit /\ F("timedout", c) \notin Range(stack)
  BY <1>2, <1>7
<1> QED BY <1>0, <1>1, <1>3, <1>6, <1>8, <1>10, <1>11, <1>12, <1>13, <1>14, OneStep

\* The permit of c goes back, or to the first waiter; cm and s are what c has made of
\* the commands and of the stack before that.
LEMMA ReleaseKeeps ==
    ASSUME IInv, NEW cm \in [Command -> CmdRec], NEW s \in Seq(Frames), NEW c \in Command,
           StackOK(s), Release(cm, s), UNCHANGED <<ctx, wire, queue, loop, driver, conf>>,
           \A d \in Command :
              /\ Life(cm[d]) /\ Calls(d, cm[d], Range(s)) /\ SamePlace(cmd[d], cm[d])
              /\ cm[d].ref = "live" <=> cmd[d].ref = "live",
           Holders(cm, Range(s)) = Holders(cmd, Range(stack)) \ {c},
           c \in Holders(cmd, Range(stack))
    PROVE  IInv'
<1> USE DEF IInv
<1>1. /\ cmd \in [Command -> CmdRec] /\ current \in 0..conf.max /\ waiters \in Seq(Command)
      /\ wire \in Seq(Command) /\ queue \in Seq(Frames) /\ conf.max \in Nat
  BY Typed
<1>2. AfterInv'
  <2>1. cmd[c].permit
    BY DEF Holders
  <2> QED BY <2>1 DEF AfterInv
<1>3. /\ current = Cardinality(Holders(cmd, Range(stack))) /\ current \in Nat
      /\ IsFiniteSet(Holders(cm, Range(s)))
      /\ Cardinality(Holders(cm, Range(s))) = current - 1 /\ current - 1 \in Nat
  <2>1. current = Cardinality(Holders(cmd, Range(stack)))
    BY DEF PermitInv
  <2>2. IsFiniteSet(Holders(cmd, Range(stack))) /\ IsFiniteSet(Holders(cm, Range(s)))
        /\ Cardinality(Holders(cm, Range(s))) \in Nat /\ current \in Nat
    BY <2>1, FiniteHolders
  <2>3. Cardinality(Holders(cmd, Range(stack)) \ {c}) = Cardinality(Holders(cmd, Range(stack))) - 1
    BY <2>2, FS_RemoveElement
  <2> QED BY <2>1, <2>2, <2>3
<1>4. CASE waiters = <<>>
  <2>1. current' = current - 1 /\ cmd' = cm /\ stack' = s /\ waiters' = waiters
    BY <1>4 DEF Release
  <2>2. Types'
    <3>1. current' \in 0..conf'.max
      BY <1>1, <1>3, <2>1
    <3> QED BY <2>1, <3>1, Typed, TypedNext
  <2>3. LifeInv'
    BY <2>1 DEF LifeInv
  <2>4. StackInv'
    BY <2>1 DEF StackInv
  <2>5. WireInv'
    BY <2>1, WireKept
  <2>6. QueueInv'
    BY <2>1, QueueKept
  <2>7. PermitInv'
    BY <1>3, <1>4, <2>1 DEF PermitInv
  <2> QED BY <1>2, <2>2, <2>3, <2>4, <2>5, <2>6, <2>7
<1>5. CASE waiters # <<>>
  <2> DEFINE w == Head(waiters)
  <2> DEFINE q == [cm[w] EXCEPT !.permit = TRUE]
  <2>1. /\ waiters' = Tail(waiters) /\ current' = current
        /\ cmd' = [cm EXCEPT ![w].permit = TRUE]
        /\ stack' = <<F("issue", w), F("cleanup", w)>> \o s
    BY <1>5 DEF Release
  <2>2. w \in Command /\ Tail(waiters) \in Seq(Command) /\ w \in Range(waiters)
    BY <1>1, <1>5, RangeTail
  <2>3. cmd[w].at = "waiting" /\ ~cmd[w].permit
    BY <2>2 DEF QueueInv
  <2>4. cm[w].at = "waiting" /\ ~cm[w].permit /\ cm[w].arrival = cmd[w].arrival /\ cm[w] \in CmdRec
    BY <2>2, <2>3 DEF SamePlace, Pending
  <2>5. /\ q \in CmdRec
        /\ q.permit /\ q.completed = cm[w].completed
        /\ q.timer = cm[w].timer /\ q.ref = cm[w].ref /\ q.resumes = cm[w].resumes
        /\ q.at = cm[w].at /\ q.arrival = cm[w].arrival
    BY <2>4 DEF CmdRec
  <2>6. cmd' = [cm EXCEPT ![w] = q]
    BY <2>1, <2>2
  <2>w. w = Head(waiters)
    OBVIOUS
  <2> HIDE DEF q, w
  <2>7. cmd' \in [Command -> CmdRec] /\ cmd'[w] = q /\ \A d \in Command \ {w} : cmd'[d] = cm[d]
    BY <2>2, <2>5, <2>6
  <2>8. \A at \in {"issue", "resume", "timedout", "drop"} : F(at, w) \notin Range(s)
    BY <2>2, <2>4, Unknown
  <2>9. F("issue", w) \in Frames /\ F("cleanup", w) \in Frames
    BY <2>2, FrameTypes
  <2>10. /\ stack' \in Seq(Frames) /\ StackOK(stack')
         /\ Range(stack') = Range(s) \cup {F("issue", w), F("cleanup", w)}
    BY <2>1, <2>2, <2>8, <2>9, RangePush, PushStack
  <2>11. Types'
    <3>1. current' \in 0..conf'.max /\ waiters' \in Seq(Command)
      BY <1>1, <2>1, <2>2
    <3> QED BY <2>7, <2>10, <3>1, Typed, TypedNext
  <2>12. LifeInv'
    <3>1. Life(cm[w])
      BY <2>2
    <3>2. Life(q)
      BY <2>4, <2>5, <3>1 DEF Life
    <3> QED BY <2>7, <3>2 DEF LifeInv
  <2>13. StackInv'
    <3>1. ASSUME NEW d \in Command \ {w} PROVE Calls(d, cmd'[d], Range(stack'))
      <4>1. SameCalls(d, Range(s), Range(stack'))
        BY <2>10, FrameFacts DEF SameCalls
      <4>2. Calls(d, cm[d], Range(s)) /\ cmd'[d] = cm[d]
        BY <2>7
      <4> QED BY <4>1, <4>2, CallsKept
    <3>2. Calls(w, q, Range(stack'))
      <4>1. F("issue", w) \in Range(stack')
            /\ {F("resume", w), F("timedout", w), F("drop", w)} \cap Range(stack') = {}
        BY <2>8, <2>10, FrameFacts
      <4> QED BY <2>4, <2>5, <4>1 DEF Calls
    <3> QED BY <2>7, <2>10, <3>1, <3>2 DEF StackInv
  <2>14. WireInv'
    <3>1. \A d \in Command : cmd'[d].ref = "live" <=> cmd[d].ref = "live"
      BY <2>5, <2>7
    <3> QED BY <3>1, WireKept
  <2>15. QueueInv'
    <3>1. \A d \in Command \ {w} : SamePlace(cmd[d], cmd'[d])
      BY <2>7
    <3> QED BY <1>5, <2>w, <2>1, <2>4, <2>5, <2>7, <3>1, QueueServed
  <2>16. PermitInv'
    <3>1. Holders(cmd', Range(stack')) = Holders(cm, Range(s)) \cup {w} /\ w \notin Holders(cm, Range(s))
      BY <2>2, <2>4, <2>5, <2>7, <2>8, <2>10, FrameFacts DEF Holders
    <3>2. Cardinality(Holders(cmd', Range(stack'))) = Cardinality(Holders(cm, Range(s))) + 1
      BY <1>3, <3>1, FS_AddElement
    <3>3. current' = Cardinality(Holders(cmd', Range(stack')))
      BY <1>3, <2>1, <3>2
    <3>4. waiters # <<>> => current = conf.max
      BY DEF PermitInv
    <3> QED BY <1>5, <2>1, <3>3, <3>4 DEF PermitInv
  <2> QED BY <1>2, <2>11, <2>12, <2>13, <2>14, <2>15, <2>16
<1> QED BY <1>4, <1>5

LEMMA DropKeeps == ASSUME IInv, NEW c \in Command, Drop(c) PROVE IInv'
<1> USE DEF IInv
<1>0. Top(F("drop", c)) /\ UNCHANGED <<ctx, wire, queue, loop, driver, conf>>
  BY DEF Drop, outside
<1>1. /\ cmd \in [Command -> CmdRec] /\ wire \in Seq(Command)
      /\ ctx \in {"connecting", "open", "failing", "closing", "null", "freed"}
  BY Typed
<1>2. /\ Tail(stack) \in Seq(Frames) /\ StackOK(Tail(stack))
      /\ Range(stack) = Range(Tail(stack)) \cup {F("drop", c)}
      /\ F("drop", c) \notin Range(Tail(stack)) /\ F("resume", c) \notin Range(stack)
      /\ \A d \in Command \ {c} : SameCalls(d, Range(stack), Range(Tail(stack)))
      /\ Calls(c, cmd[c], Range(stack))
  BY <1>0, Returned
<1>3. /\ cmd[c].at = "done"
      /\ F("issue", c) \notin Range(stack) /\ F("timedout", c) \notin Range(stack)
  BY <1>2 DEF Calls
<1>4. Life(cmd[c]) /\ cmd[c] \in CmdRec
  BY <1>1 DEF LifeInv
<1>5. {F("issue", c), F("resume", c), F("timedout", c), F("drop", c)} \cap Range(Tail(stack)) = {}
  BY <1>2, <1>3
<1>6. CASE cmd[c].permit
  <2> DEFINE q == [cmd[c] EXCEPT !.permit = FALSE]
  <2> DEFINE cm == [cmd EXCEPT ![c].permit = FALSE]
  <2>1. Release(cm, Tail(stack))
    BY <1>6 DEF Drop
  <2>2. cm = [cmd EXCEPT ![c] = q] /\ q \in CmdRec
    BY <1>1, <1>4 DEF CmdRec
  <2>3. /\ ~q.permit /\ q.completed = cmd[c].completed
        /\ q.timer = cmd[c].timer /\ q.ref = cmd[c].ref /\ q.resumes = cmd[c].resumes
        /\ q.at = cmd[c].at /\ q.arrival = cmd[c].arrival
    BY <1>4 DEF CmdRec
  <2> HIDE DEF q, cm
  <2>4. cm \in [Command -> CmdRec] /\ cm[c] = q /\ \A d \in Command \ {c} : cm[d] = cmd[d]
    BY <1>1, <2>2
  <2>5. ASSUME NEW d \in Command
        PROVE  /\ Life(cm[d]) /\ Calls(d, cm[d], Range(Tail(stack))) /\ SamePlace(cmd[d], cm[d])
               /\ cm[d].ref = "live" <=> cmd[d].ref = "live"
    <3>1. CASE d = c
      <4>1. Life(q)
        BY <1>3, <1>4, <2>3 DEF Life
      <4>2. Calls(c, q, Range(Tail(stack)))
        BY <1>5, <2>3 DEF Calls
      <4>3. SamePlace(cmd[c], q)
        BY <1>3, <2>3 DEF SamePlace, Pending, Past
      <4> QED BY <2>3, <2>4, <3>1, <4>1, <4>2, <4>3
    <3>2. CASE d # c
      <4>1. cm[d] = cmd[d] /\ Life(cmd[d]) /\ Calls(d, cmd[d], Range(stack))
        BY <2>4, <3>2 DEF LifeInv, StackInv
      <4>2. Calls(d, cm[d], Range(Tail(stack)))
        BY <1>2, <3>2, <4>1, CallsKept
      <4> QED BY <4>1, <4>2 DEF SamePlace
    <3> QED BY <3>1, <3>2
  <2>6. c \in Holders(cmd, Range(stack))
    BY <1>3, <1>6 DEF Holders
  <2>7. Holders(cm, Range(Tail(stack))) = Holders(cmd, Range(stack)) \ {c}
    BY <1>2, <2>3, <2>4, FrameFacts DEF Holders
  <2> QED BY <1>0, <1>2, <2>1, <2>4, <2>5, <2>6, <2>7, ReleaseKeeps
<1>7. CASE ~cmd[c].permit
  <2>1. stack' = Tail(stack) /\ cmd' = cmd /\ current' = current /\ waiters' = waiters
    BY <1>7 DEF Drop, limiter
  <2>2. Only(c)
    BY <1>1, <2>1 DEF Only
  <2>3. Calls(c, cmd'[c], Range(stack'))
    BY <1>5, <1>7, <2>1 DEF Calls
  <2>4. SamePlace(cmd[c], cmd'[c])
    BY <2>1 DEF SamePlace
  <2>5. WireInv'
    BY <1>0, <2>1, WireKept
  <2> QED BY <1>0, <1>1, <1>2, <1>3, <1>4, <1>7, <2>1, <2>2, <2>3, <2>4, <2>5, OneStep
<1> QED BY <1>6, <1>7

LEMMA OnTimeoutKeeps == ASSUME IInv, NEW c \in Command, OnTimeout(c) PROVE IInv'
<1> USE DEF IInv
<1> DEFINE cm == [cmd EXCEPT ![c].completed = TRUE, ![c].result = "timeout", ![c].timer = "closed"]
<1> DEFINE s == <<F("timedout", c)>>
<1>0. /\ stack = <<>> /\ cmd[c].timer = "active" /\ ~cmd[c].completed /\ Release(cm, s)
      /\ UNCHANGED <<ctx, wire, queue, loop, driver, conf>>
  BY DEF OnTimeout, Idle, outside
<1>1. cmd \in [Command -> CmdRec]
  BY Typed
<1>2. Life(cmd[c]) /\ cmd[c] \in CmdRec
  BY <1>1 DEF LifeInv
<1>3. cmd[c].at = "issued" /\ cmd[c].permit /\ cmd[c].arrival > 0 /\ cmd[c].resumes = 0
  BY <1>0, <1>2 DEF Life
<1> DEFINE q == [cmd[c] EXCEPT !.completed = TRUE, !.result = "timeout", !.timer = "closed"]
<1>4. cm = [cmd EXCEPT ![c] = q]
  BY <1>1
<1>5. /\ q \in CmdRec
      /\ q.permit = cmd[c].permit /\ q.completed
      /\ q.timer = "closed" /\ q.ref = cmd[c].ref /\ q.resumes = cmd[c].resumes
      /\ q.at = cmd[c].at /\ q.arrival = cmd[c].arrival
  BY <1>2 DEF CmdRec
<1>6. F("timedout", c) \in Frames /\ F("timedout", c).at # "resume"
  BY FrameTypes, FrameFacts
<1>7. s \in Seq(Frames) /\ StackOK(s) /\ Range(s) = {F("timedout", c)}
  BY <1>6, OneCall
<1>8. Range(stack) = {}
  BY <1>0, NoCall
<1> HIDE DEF q, cm, s
<1>9. cm \in [Command -> CmdRec] /\ cm[c] = q /\ \A d \in Command \ {c} : cm[d] = cmd[d]
  BY <1>1, <1>4, <1>5
<1>10. ASSUME NEW d \in Command
       PROVE  /\ Life(cm[d]) /\ Calls(d, cm[d], Range(s)) /\ SamePlace(cmd[d], cm[d])
              /\ cm[d].ref = "live" <=> cmd[d].ref = "live"
  <2>1. CASE d = c
    <3>1. Life(q)
      BY <1>3, <1>5 DEF Life
    <3>2. Calls(c, q, Range(s))
      BY <1>3, <1>5, <1>7, FrameFacts DEF Calls
    <3>3. SamePlace(cmd[c], q)
      BY <1>3, <1>5 DEF SamePlace, Pending, Past
    <3> QED BY <1>5, <1>9, <2>1, <3>1, <3>2, <3>3
  <2>2. CASE d # c
    <3>1. cm[d] = cmd[d] /\ Life(cmd[d]) /\ Calls(d, cmd[d], Range(stack))
      BY <1>9, <2>2 DEF LifeInv, StackInv
    <3>2. SameCalls(d, Range(stack), Range(s))
      BY <1>7, <1>8, <2>2, FrameFacts DEF SameCalls
    <3>3. Calls(d, cm[d], Range(s))
      BY <3>1, <3>2, CallsKept
    <3> QED BY <3>1, <3>3 DEF SamePlace
  <2> QED BY <2>1, <2>2
<1>11. c \in Holders(cmd, Range(stack))
  BY <1>3, <1>8 DEF Holders
<1>12. Holders(cm, Range(s)) = Holders(cmd, Range(stack)) \ {c}
  BY <1>7, <1>8, <1>9, FrameFacts DEF Holders
<1> QED BY <1>0, <1>7, <1>9, <1>10, <1>11, <1>12, ReleaseKeeps

\* hiredis answers the oldest command on the wire.
LEMMA AnswerKeeps ==
    ASSUME IInv, NEW res \in {"reply", "error"}, wire # <<>>, wire' = Tail(wire),
           OnReply(Head(wire), res, stack),
           UNCHANGED <<current, waiters, ctx, queue, loop, driver, conf>>
    PROVE  IInv'
<1> USE DEF IInv
<1> DEFINE c == Head(wire)
<1> DEFINE wanted == cmd[c].at # "done" /\ ~cmd[c].completed
<1>0. wire' = Tail(wire) /\ wire # <<>>
      /\ UNCHANGED <<current, waiters, ctx, queue, loop, driver, conf>>
  OBVIOUS
<1>1. /\ cmd \in [Command -> CmdRec] /\ wire \in Seq(Command) /\ stack \in Seq(Frames)
      /\ ctx \in {"connecting", "open", "failing", "closing", "null", "freed"}
  BY Typed
<1>2. /\ c \in Command /\ Tail(wire) \in Seq(Command)
      /\ Range(wire) = Range(Tail(wire)) \cup {c} /\ c = wire[1]
      /\ Len(wire) \in Nat /\ Len(wire) > 0 /\ Len(Tail(wire)) = Len(wire) - 1
      /\ \A i \in 1..Len(Tail(wire)) : Tail(wire)[i] = wire[i + 1] /\ i + 1 \in 1..Len(wire)
  BY <1>0, <1>1, RangeTail
<1>3. /\ cmd' = [cmd EXCEPT ![c].ref = "deleted",
                           ![c].completed = @ \/ wanted,
                           ![c].timer = IF wanted /\ @ = "active" THEN "closed" ELSE @,
                           ![c].result = IF wanted THEN res ELSE @]
      /\ stack' = IF wanted THEN GoOn(c, stack) ELSE stack
  BY DEF OnReply
<1> DEFINE q == [cmd[c] EXCEPT !.ref = "deleted",
                               !.completed = @ \/ wanted,
                               !.timer = IF wanted /\ @ = "active" THEN "closed" ELSE @,
                               !.result = IF wanted THEN res ELSE @]
<1> HIDE DEF c
<1>4. cmd[c] \in CmdRec /\ Life(cmd[c]) /\ Calls(c, cmd[c], Range(stack)) /\ StackOK(stack)
  BY <1>1, <1>2 DEF LifeInv, StackInv
<1>5. cmd[c].ref = "live" /\ c \notin Range(Tail(wire))
  <2>1. cmd[c].ref = "live"
    BY <1>2 DEF WireInv
  <2>2. ASSUME c \in Range(Tail(wire)) PROVE FALSE
    <3>1. PICK i \in 1..Len(Tail(wire)) : Tail(wire)[i] = c
      BY <1>2, <2>2, InRange
    <3>2. wire[i + 1] = wire[1] /\ i + 1 \in 1..Len(wire) /\ 1 \in 1..Len(wire) /\ i + 1 # 1
      BY <1>2, <3>1
    <3> QED BY <3>2 DEF WireInv
  <2> QED BY <2>1, <2>2
<1>6. cmd[c].at \in {"issued", "done"}
  BY <1>4, <1>5, RecTyped DEF Life
<1> HIDE DEF wanted
<1>7. cmd' = [cmd EXCEPT ![c] = q] /\ q \in CmdRec
  <2>1. cmd' = [cmd EXCEPT ![c] = q]
    BY <1>1, <1>2, <1>3
  <2>2. q \in CmdRec
    <3>1. wanted \in BOOLEAN
      BY DEF wanted
    <3>2. /\ (cmd[c].completed \/ wanted) \in BOOLEAN
          /\ (IF wanted /\ cmd[c].timer = "active" THEN "closed" ELSE cmd[c].timer)
                \in {"none", "active", "closed"}
      BY <1>4, <3>1 DEF CmdRec
    <3>3. (IF wanted THEN res ELSE cmd[c].result) \in {"none", "reply", "error", "timeout"}
      BY <1>4, <3>1 DEF CmdRec
    <3> DEFINE completed == cmd[c].completed \/ wanted
               timer == IF wanted /\ cmd[c].timer = "active" THEN "closed" ELSE cmd[c].timer
               result == IF wanted THEN res ELSE cmd[c].result
    <3>4. q = [cmd[c] EXCEPT !.ref = "deleted", !.completed = completed, !.timer = timer,
                             !.result = result]
      OBVIOUS
    <3>5. completed \in BOOLEAN /\ timer \in {"none", "active", "closed"}
          /\ result \in {"none", "reply", "error", "timeout"}
      BY <3>2, <3>3
    <3> HIDE DEF completed, timer, result, q
    <3> QED BY <1>4, <3>4, <3>5, AnsweredRec
  <2> QED BY <2>1, <2>2
<1>8. /\ q.permit = cmd[c].permit /\ q.at = cmd[c].at /\ q.arrival = cmd[c].arrival
      /\ q.ref = "deleted" /\ q.resumes = cmd[c].resumes
      /\ q.timer = "active" => ~wanted /\ cmd[c].timer = "active"
  BY <1>4 DEF CmdRec
<1>9. q.completed <=> cmd[c].completed \/ wanted
  BY <1>4 DEF CmdRec
<1> HIDE DEF q
<1>10. Only(c) /\ cmd'[c] = q
  BY <1>1, <1>2, <1>7, OnlyOne
<1>11. WireInv'
  <2>1. \A d \in Command \ {c} : cmd'[d] = cmd[d]
    BY <1>10 DEF Only
  <2>2. \A i, j \in 1..Len(wire') : wire'[i] = wire'[j] => i = j
    <3>1. ASSUME NEW i \in 1..Len(wire'), NEW j \in 1..Len(wire'), wire'[i] = wire'[j]
          PROVE  i = j
      <4>1. i + 1 = j + 1
        BY <1>0, <1>2, <3>1 DEF WireInv
      <4> QED BY <4>1
    <3> QED BY <3>1
  <2>3. \A d \in Command : d \in Range(wire') => cmd'[d].ref = "live"
    BY <1>0, <1>2, <1>5, <2>1 DEF WireInv
  <2>4. \A d \in Command : cmd'[d].ref = "live" => d \in Range(wire') \/ ctx' = "freed"
    BY <1>0, <1>2, <1>8, <1>10, <2>1 DEF WireInv
  <2> QED BY <2>2, <2>3, <2>4 DEF WireInv
<1>12. SamePlace(cmd[c], cmd'[c])
  BY <1>8, <1>10 DEF SamePlace, Pending, Past
<1>13. Life(cmd'[c])
  <2>1. wanted <=> cmd[c].at # "done" /\ ~cmd[c].completed
    BY DEF wanted
  <2> QED BY <1>4, <1>6, <1>8, <1>9, <1>10, <2>1 DEF Life
<1>14. CASE wanted
  <2>1. cmd[c].at = "issued" /\ ~cmd[c].completed /\ cmd[c].permit
    BY <1>4, <1>6, <1>14 DEF wanted, Life
  <2>2. \A at \in {"issue", "resume", "timedout", "drop"} : F(at, c) \notin Range(stack)
    BY <1>4, <2>1, Unknown
  <2>3. \A d \in Command \ {c} : SameCalls(d, Range(stack), Range(stack))
    BY DEF SameCalls
  <2>4. stack' = GoOn(c, stack) /\ F("resume", c) \notin Range(stack) /\ F("drop", c) \notin Range(stack)
    BY <1>3, <1>14, <2>2
  <2>5. /\ stack' \in Seq(Frames) /\ StackOK(stack')
        /\ Range(stack') = Range(stack) \cup {F("resume", c), F("drop", c)}
        /\ \A d \in Command \ {c} : SameCalls(d, Range(stack), Range(stack'))
    BY <1>1, <1>2, <1>4, <2>3, <2>4, GoesOn
  <2>6. F("timedout", c) \notin Range(stack') /\ F("issue", c) \notin Range(stack')
    BY <2>2, <2>5, FrameFacts
  <2>7. Calls(c, cmd'[c], Range(stack'))
    BY <1>8, <1>9, <1>10, <1>14, <2>1, <2>5, <2>6 DEF Calls
  <2>8. cmd'[c].permit /\ F("timedout", c) \notin Range(stack')
              <=> cmd[c].permit /\ F("timedout", c) \notin Range(stack)
    BY <1>8, <1>10, <2>1, <2>2, <2>6
  <2> QED BY <1>0, <1>1, <1>2, <1>10, <1>11, <1>12, <1>13, <2>1, <2>5, <2>7, <2>8, OneStep
<1>15. CASE ~wanted
  <2>1. stack' = stack
    BY <1>3, <1>15
  <2>2. \A d \in Command : SameCalls(d, Range(stack), Range(stack'))
    BY <2>1 DEF SameCalls
  <2>3. cmd'[c].completed = cmd[c].completed
    BY <1>4, <1>7, <1>9, <1>10, <1>15, RecTyped
  <2>4. Calls(c, cmd'[c], Range(stack'))
    BY <1>4, <1>8, <1>10, <2>2, <2>3, <1>2, CallsKept
  <2>5. cmd'[c].permit /\ F("timedout", c) \notin Range(stack')
              <=> cmd[c].permit /\ F("timedout", c) \notin Range(stack)
    BY <1>8, <1>10, <2>1
  <2>6. \/ cmd[c].at \notin {"new", "done"} \/ cmd[c].permit
        \/ cmd'[c].at \in {"new", "done"} /\ ~cmd'[c].permit
    BY <1>8, <1>10
  <2>7. stack' \in Seq(Frames) /\ StackOK(stack')
    BY <1>1, <1>4, <2>1
  <2> QED BY <1>0, <1>1, <1>2, <1>10, <1>11, <1>12, <1>13, <2>2, <2>4, <2>5, <2>6, <2>7, OneStep
<1> QED BY <1>14, <1>15

\* A step that leaves the commands and their calls alone, but for timers it closes.
LEMMA QuietKeeps ==
    ASSUME IInv, cmd' \in [Command -> CmdRec], UNCHANGED <<current, waiters, wire, conf>>,
           \A d \in Command :
              /\ cmd'[d].permit = cmd[d].permit /\ cmd'[d].completed = cmd[d].completed
              /\ cmd'[d].at = cmd[d].at /\ cmd'[d].arrival = cmd[d].arrival
              /\ cmd'[d].ref = cmd[d].ref /\ cmd'[d].resumes = cmd[d].resumes
              /\ cmd'[d].timer = "active" => cmd[d].timer = "active",
           \A d \in Command : SameCalls(d, Range(stack), Range(stack')),
           stack' \in Seq(Frames), StackOK(stack'),
           \/ queue' = queue
           \/ \E x \in Frames : x.at # "execute" /\ queue' = Append(queue, x)
           \/ queue # <<>> /\ Head(queue).at # "execute" /\ queue' = Tail(queue),
           ctx' \in {"connecting", "open", "failing", "closing", "null", "freed"},
           loop' \in {"Running", "Stopping", "Stopped", "Exited"},
           driver' \in {"running", "returned", "stopping", "destroyed"},
           WireInv', AfterInv'
    PROVE  IInv'
<1> USE DEF IInv
<1>1. Types'
  <2>1. queue \in Seq(Frames)
    BY Typed
  <2>2. queue' \in Seq(Frames)
    <3>1. CASE queue' = queue
      BY <2>1, <3>1
    <3>2. CASE \E x \in Frames : x.at # "execute" /\ queue' = Append(queue, x)
      BY <2>1, <3>2, RangeAppend
    <3>3. CASE queue # <<>> /\ Head(queue).at # "execute" /\ queue' = Tail(queue)
      BY <2>1, <3>3, RangeTail
    <3> QED BY <3>1, <3>2, <3>3
  <2> QED BY <2>2, Typed, TypedNext
<1>2. LifeInv'
  BY DEF LifeInv, Life
<1>3. StackInv'
  <2>1. \A d \in Command : Calls(d, cmd'[d], Range(stack'))
    BY CallsKept DEF StackInv
  <2> QED BY <2>1 DEF StackInv
<1>4. QueueInv'
  <2>1. \A d \in Command : SamePlace(cmd[d], cmd'[d])
    BY DEF SamePlace, Pending, Past
  <2> QED BY <2>1, QueueKept
<1>5. PermitInv'
  <2>1. \A d \in Command : F("timedout", d) \in Range(stack) <=> F("timedout", d) \in Range(stack')
    BY DEF SameCalls
  <2>2. Holders(cmd', Range(stack')) = Holders(cmd, Range(stack))
    BY <2>1 DEF Holders
  <2> QED BY <2>2, PermitKept
<1> QED BY <1>1, <1>2, <1>3, <1>4, <1>5

LEMMA ConnectionKeeps ==
    ASSUME IInv, OnConnect \/ Lost \/ (Top(F("teardown", None)) /\ Teardown /\ wire = <<>>)
    PROVE  IInv'
<1> USE DEF IInv
<1>0. /\ UNCHANGED <<cmd, current, waiters, wire, queue, loop, driver, conf>>
      /\ ctx' \in {"connecting", "open", "failing", "closing", "null", "freed"}
  <2>1. CASE OnConnect
    BY <2>1 DEF OnConnect, limiter, outside
  <2>2. CASE Lost
    BY <2>2 DEF Lost, limiter, outside
  <2>3. CASE Teardown /\ wire = <<>>
    BY <2>3 DEF Teardown, limiter, outside
  <2> QED BY <2>1, <2>2, <2>3
<1>1. cmd \in [Command -> CmdRec] /\ stack \in Seq(Frames) /\ wire \in Seq(Command)
      /\ StackOK(stack)
  BY Typed DEF StackInv
<1>2. /\ stack' \in Seq(Frames) /\ StackOK(stack')
      /\ \A d \in Command : SameCalls(d, Range(stack), Range(stack'))
  <2>1. CASE OnConnect
    <3>1. stack' = stack
      BY <2>1 DEF OnConnect
    <3> QED BY <1>1, <3>1 DEF SameCalls
  <2>2. CASE Lost
    <3>1. stack = <<>> /\ stack' = <<F("teardown", None)>>
      BY <2>2 DEF Lost, Idle
    <3>2. F("teardown", None) \in Frames /\ F("teardown", None).at # "resume"
      BY FrameTypes, FrameFacts
    <3>3. Range(stack) = {} /\ Range(stack') = {F("teardown", None)} /\ stack' \in Seq(Frames) /\ StackOK(stack')
      BY <3>1, <3>2, OneCall, NoCall
    <3> QED BY <3>3, FrameFacts DEF SameCalls
  <2>3. CASE Top(F("teardown", None)) /\ Teardown /\ wire = <<>>
    <3>1. stack # <<>> /\ Head(stack) = F("teardown", None) /\ stack' = Tail(stack)
      BY <2>3 DEF Top, Teardown
    <3>2. Range(stack) = Range(stack') \cup {F("teardown", None)} /\ stack' \in Seq(Frames)
      BY <1>1, <3>1, RangeTail
    <3>3. StackOK(stack')
      BY <1>1, <3>1, PopStack
    <3> QED BY <3>2, <3>3, FrameFacts DEF SameCalls
  <2> QED BY <2>1, <2>2, <2>3
<1>3. WireInv'
  <2>1. CASE ctx # "freed"
    <3>1. CASE OnConnect \/ Lost
      BY <1>0, <2>1, WireKept
    <3>2. CASE Teardown /\ wire = <<>>
      <4>1. \A c \in Command : c \notin Range(wire)
        <5>1. Len(wire) = 0 /\ 1..0 = {}
          BY <3>2
        <5> QED BY <1>1, <5>1, InRange
      <4> QED BY <1>0, <2>1, <4>1 DEF WireInv
    <3> QED BY <3>1, <3>2
  <2>2. CASE ctx = "freed"
    <3>1. ctx' = "freed"
      BY <2>2 DEF OnConnect, Lost, Teardown
    <3> QED BY <1>0, <2>2, <3>1, WireKept
  <2> QED BY <2>1, <2>2
<1>4. AfterInv'
  BY <1>0, AfterKept DEF AfterInv
<1>5. loop \in {"Running", "Stopping", "Stopped", "Exited"}
      /\ driver \in {"running", "returned", "stopping", "destroyed"}
  BY Typed
<1> QED BY <1>0, <1>1, <1>2, <1>3, <1>4, <1>5, QuietKeeps

LEMMA TeardownKeeps == ASSUME IInv, Teardown PROVE IInv'
<1>1. Top(F("teardown", None)) /\ UNCHANGED <<current, waiters, queue, loop, driver, conf>>
  BY DEF Teardown, limiter, outside
<1>2. CASE wire = <<>>
  BY <1>1, <1>2, ConnectionKeeps
<1>3. CASE wire # <<>>
  <2>1. wire' = Tail(wire) /\ OnReply(Head(wire), "error", stack) /\ ctx' = ctx
    BY <1>3 DEF Teardown
  <2> QED BY <1>1, <1>3, <2>1, AnswerKeeps
<1> QED BY <1>2, <1>3

LEMMA ReplyKeeps == ASSUME IInv, Reply PROVE IInv'
<1>1. /\ wire # <<>> /\ wire' = Tail(wire) /\ OnReply(Head(wire), "reply", stack)
      /\ UNCHANGED <<current, waiters, ctx, queue, loop, driver, conf>>
  BY DEF Reply, limiter, outside
<1> QED BY <1>1, AnswerKeeps

\* The driver and the end of the loop.
LEMMA DriverKeeps ==
    ASSUME IInv, Return \/ Stop \/ DoStop \/ Exit \/ Destroy \/ UNCHANGED vars
    PROVE  IInv'
<1> USE DEF IInv
<1>0. /\ cmd \in [Command -> CmdRec] /\ stack \in Seq(Frames) /\ StackOK(stack)
      /\ ctx \in {"connecting", "open", "failing", "closing", "null", "freed"}
      /\ loop \in {"Running", "Stopping", "Stopped", "Exited"}
      /\ driver \in {"running", "returned", "stopping", "destroyed"}
  BY Typed DEF StackInv
<1>1. /\ UNCHANGED <<current, waiters, ctx, wire, stack, conf>>
      /\ loop' \in {"Running", "Stopping", "Stopped", "Exited"}
      /\ driver' \in {"running", "returned", "stopping", "destroyed"}
  <2>1. CASE Return
    BY <1>0, <2>1 DEF Return, limiter
  <2>2. CASE Stop
    BY <1>0, <2>2 DEF Stop, limiter
  <2>3. CASE DoStop
    BY <1>0, <2>3 DEF DoStop, limiter
  <2>4. CASE Exit
    BY <1>0, <2>4 DEF Exit, limiter
  <2>5. CASE Destroy
    BY <1>0, <2>5 DEF Destroy, limiter
  <2>6. CASE UNCHANGED vars
    BY <1>0, <2>6 DEF vars
  <2> QED BY <2>1, <2>2, <2>3, <2>4, <2>5, <2>6
<1>2. \/ queue' = queue
      \/ \E x \in Frames : x.at # "execute" /\ queue' = Append(queue, x)
      \/ queue # <<>> /\ Head(queue).at # "execute" /\ queue' = Tail(queue)
  <2>1. CASE Stop
    BY <2>1, FrameTypes, FrameFacts DEF Stop
  <2>2. CASE DoStop
    BY <2>2, FrameFacts DEF DoStop, Runs
  <2> QED BY <2>1, <2>2 DEF Return, Exit, Destroy, vars
<1>3. /\ cmd' \in [Command -> CmdRec]
      /\ \A d \in Command :
            /\ cmd'[d].permit = cmd[d].permit /\ cmd'[d].completed = cmd[d].completed
            /\ cmd'[d].at = cmd[d].at /\ cmd'[d].arrival = cmd[d].arrival
            /\ cmd'[d].ref = cmd[d].ref /\ cmd'[d].resumes = cmd[d].resumes
            /\ cmd'[d].timer = "active" => cmd[d].timer = "active"
  <2>1. CASE DoStop
    <3>1. cmd' = [d \in Command |-> [cmd[d] EXCEPT !.timer = IF @ = "active" THEN "closed" ELSE @]]
      BY <2>1 DEF DoStop
    <3>2. ASSUME NEW d \in Command
          PROVE  /\ cmd'[d] \in CmdRec
                 /\ cmd'[d].permit = cmd[d].permit /\ cmd'[d].completed = cmd[d].completed
                 /\ cmd'[d].at = cmd[d].at /\ cmd'[d].arrival = cmd[d].arrival
                 /\ cmd'[d].ref = cmd[d].ref /\ cmd'[d].resumes = cmd[d].resumes
                 /\ cmd'[d].timer = "active" => cmd[d].timer = "active"
      <4>1. cmd'[d] = [cmd[d] EXCEPT !.timer = IF @ = "active" THEN "closed" ELSE @]
        BY <3>1
      <4>2. cmd[d] \in CmdRec
        BY <1>0
      <4> QED BY <4>1, <4>2 DEF CmdRec
    <3> QED BY <3>1, <3>2
  <2>2. CASE ~DoStop
    <3>1. cmd' = cmd
      BY <2>2 DEF Return, Stop, Exit, Destroy, vars
    <3> QED BY <1>0, <3>1
  <2> QED BY <2>1, <2>2
<1>4. WireInv'
  BY <1>1, <1>3, WireKept
<1>5. AfterInv'
  <2>1. CASE Return
    <3>1. stack = <<>> /\ cmd' = cmd /\ conf' = conf
          /\ (conf.deadlines \/ \A c \in Command : cmd[c].at \in {"new", "done"})
      BY <2>1 DEF Return
    <3>2. Range(stack) = {}
      BY <3>1, NoCall
    <3>3. \A c \in Command : cmd[c].permit => cmd[c].at = "issued"
      BY <3>2 DEF StackInv, Calls
    <3> QED BY <3>1, <3>3 DEF AfterInv
  <2>2. CASE ~Return
    <3>1. driver' # "running" => driver # "running"
      BY <2>2 DEF Stop, DoStop, Exit, Destroy, vars
    <3> QED BY <1>1, <1>3, <3>1 DEF AfterInv
  <2> QED BY <2>1, <2>2
<1>6. \A d \in Command : SameCalls(d, Range(stack), Range(stack'))
  BY <1>1 DEF SameCalls
<1>7. stack' \in Seq(Frames) /\ StackOK(stack')
  BY <1>0, <1>1
<1> QED BY <1>0, <1>1, <1>2, <1>3, <1>4, <1>5, <1>6, <1>7, QuietKeeps

-----------------------------------------------------------------------------
(***************************************************************************)
(* The theorems.                                                           *)
(***************************************************************************)
LEMMA InitIInv == ASSUME Init PROVE IInv
<1>1. /\ cmd = [c \in Command |->
                [at |-> "new", arrival |-> 0, result |-> "none", resumes |-> 0,
                 completed |-> FALSE, permit |-> FALSE, timer |-> "none",
                 ref |-> "none", helper |-> "none"]]
      /\ current = 0 /\ waiters = <<>> /\ wire = <<>> /\ queue = <<>> /\ stack = <<>>
      /\ ctx = "connecting" /\ loop = "Running" /\ driver = "running"
      /\ conf \in [max : Limits, timeouts : BOOLEAN, deadlines : BOOLEAN, bench : BOOLEAN]
  BY DEF Init
<1>2. Cardinality(Command) \in Nat
  BY LimitsAssumption, FS_CardinalityType
<1>3. \A c \in Command :
         /\ cmd[c].at = "new" /\ cmd[c].arrival = 0 /\ cmd[c].resumes = 0 /\ ~cmd[c].completed
         /\ ~cmd[c].permit /\ cmd[c].timer = "none" /\ cmd[c].ref = "none"
  BY <1>1
<1>4. Types
  <2>1. cmd \in [Command ->
          [at        : {"new", "posted", "waiting", "issued", "done"},
           arrival   : 0..Cardinality(Command),
           result    : {"none", "reply", "error", "timeout"},
           resumes   : 0..1,
           completed : BOOLEAN,
           permit    : BOOLEAN,
           timer     : {"none", "active", "closed"},
           ref       : {"none", "live", "deleted"},
           helper    : {"none", "waiting", "posted", "leaked", "freed"}]]
    <3>1. 0 \in 0..Cardinality(Command) /\ 0 \in 0..1
      BY <1>2
    <3> QED BY <1>1, <3>1
  <2>2. current \in 0..conf.max
    <3>1. conf.max \in Limits
      BY <1>1
    <3>2. \A l \in Limits : l \in Nat
      BY LimitsAssumption
    <3> QED BY <1>1, <3>1, <3>2
  <2> QED BY <1>1, <2>1, <2>2 DEF Types, TypeOK
<1>5. Range(stack) = {} /\ Range(queue) = {} /\ Range(waiters) = {} /\ Range(wire) = {} /\ StackOK(stack)
  BY <1>1, NoCall
<1>6. Len(waiters) = 0 /\ Len(wire) = 0 /\ Len(queue) = 0 /\ 1..0 = {}
  BY <1>1
<1>7. LifeInv
  BY <1>3 DEF LifeInv, Life
<1>8. StackInv
  BY <1>3, <1>5 DEF StackInv, Calls
<1>9. WireInv
  BY <1>3, <1>5, <1>6 DEF WireInv
<1>10. QueueInv
  <2>1. Arrived = {}
    BY <1>3 DEF Arrived
  <2>2. Cardinality(Arrived) = 0
    BY <2>1, FS_EmptySet
  <2>3. \A c \in Command : ~Pending(cmd[c]) /\ cmd[c].arrival <= Cardinality(Arrived)
    BY <1>3, <2>2 DEF Pending
  <2>4. Sorted(queue, cmd)
    BY <1>6 DEF Sorted
  <2> QED BY <1>3, <1>5, <1>6, <2>3, <2>4 DEF QueueInv
<1>11. PermitInv
  <2>1. Holders(cmd, Range(stack)) = {}
    BY <1>3 DEF Holders
  <2> QED BY <1>1, <2>1, FS_EmptySet DEF PermitInv
<1>12. AfterInv
  BY <1>1 DEF AfterInv
<1> QED BY <1>4, <1>7, <1>8, <1>9, <1>10, <1>11, <1>12 DEF IInv

\* The inductive invariant holds always: the limiter's count, its line and the calls on
\* the stack fit together after every step of await_suspend, execute_on_loop,
\* issue_command, OnReply, OnTimeout, the release chain, hiredis' teardown and main.
THEOREM Invariance == Spec => []IInv
<1>1. Init => IInv
  BY InitIInv
<1>2. IInv /\ [Next]_vars => IInv'
  <2>1. SUFFICES ASSUME IInv, [Next]_vars PROVE IInv'
    OBVIOUS
  <2>2. ASSUME NEW c \in Command, Execute(c) PROVE IInv'
    BY <2>1, <2>2, ExecuteKeeps
  <2>3. ASSUME NEW c \in Command, Issue(c) PROVE IInv'
    BY <2>1, <2>3, IssueKeeps
  <2>4. ASSUME NEW c \in Command, Cleanup(c) \/ Delete(c) PROVE IInv'
    BY <2>1, <2>4, CleanupKeeps
  <2>5. ASSUME NEW c \in Command, Resume(c) PROVE IInv'
    BY <2>1, <2>5, ResumeKeeps
  <2>6. ASSUME NEW c \in Command, Drop(c) PROVE IInv'
    BY <2>1, <2>6, DropKeeps
  <2>7. ASSUME NEW c \in Command, OnTimeout(c) PROVE IInv'
    BY <2>1, <2>7, OnTimeoutKeeps
  <2>8. ASSUME NEW c \in Command, TimedOut(c) PROVE IInv'
    BY <2>1, <2>8, TimedOutKeeps
  <2>9. ASSUME NEW c \in Command, Call(c) PROVE IInv'
    BY <2>1, <2>9, CallKeeps
  <2>10. CASE Teardown
    BY <2>1, <2>10, TeardownKeeps
  <2>11. CASE Reply
    BY <2>1, <2>11, ReplyKeeps
  <2>12. CASE OnConnect \/ Lost
    BY <2>1, <2>12, ConnectionKeeps
  <2>13. CASE Return \/ Stop \/ DoStop \/ Exit \/ Destroy \/ UNCHANGED vars
    BY <2>1, <2>13, DriverKeeps
  <2> QED
    BY <2>1, <2>2, <2>3, <2>4, <2>5, <2>6, <2>7, <2>8, <2>9, <2>10, <2>11, <2>12, <2>13
    DEF Next, LoopStep
<1> QED BY <1>1, <1>2, PTL DEF Spec

\* AsyncInflightLimiter counts exactly the Guards that hold a permit, never lets a
\* command wait while a permit is free, lets commands through in the order in which
\* they were posted, and is empty when the client of a request without deadlines is
\* destroyed; no coroutine is resumed twice.  For any number of commands and any limit.
THEOREM LimiterSound == Spec => []PermitsSound
<1>1. ASSUME IInv PROVE PermitsSound
  <2>1. TypeOK
    BY <1>1 DEF IInv, Types
  <2>2. cmd \in [Command -> CmdRec]
    BY <1>1, Typed DEF IInv
  <2>3. PermitsExact
    <3>1. {c \in Command : cmd[c].permit} \ Releasing = Holders(cmd, Range(stack))
      BY DEF Releasing, Holders
    <3>2. /\ current = Cardinality(Holders(cmd, Range(stack)))
          /\ waiters # <<>> => current = conf.max
      BY <1>1 DEF IInv, PermitInv
    <3>3. ASSUME driver = "destroyed", ~conf.deadlines PROVE current = 0
      <4>1. \A c \in Command : ~cmd[c].permit
        BY <1>1, <3>3 DEF IInv, AfterInv
      <4>2. Holders(cmd, Range(stack)) = {}
        BY <4>1 DEF Holders
      <4> QED BY <3>2, <4>2, FS_EmptySet
    <3> QED BY <3>1, <3>2, <3>3 DEF PermitsExact
  <2>4. InOrder
    <3>1. SUFFICES ASSUME NEW c \in Command, NEW d \in Command,
                          0 < cmd[c].arrival, cmd[c].arrival < cmd[d].arrival,
                          cmd[d].permit \/ cmd[d].at \in {"issued", "done"},
                          cmd[c].at \in {"posted", "waiting"}, ~cmd[c].permit
                   PROVE  FALSE
      BY DEF InOrder
    <3>2. cmd[c].arrival \in Nat /\ cmd[d].arrival \in Nat
      BY <2>2, RecTyped
    <3>3. Past(cmd[d]) /\ Pending(cmd[c])
      BY <3>1, <3>2 DEF Past, Pending
    <3>4. cmd[d].arrival < cmd[c].arrival
      BY <1>1, <3>3 DEF IInv, QueueInv
    <3> QED BY <3>1, <3>2, <3>4
  <2> QED BY <2>1, <2>3, <2>4 DEF PermitsSound
<1> QED BY <1>1, Invariance, PTL

\* The raw pointers that AsyncRedisClient hands to hiredis, to libuv and to its own
\* pending calls are good when they are used: no timer outlives its race, no reply finds
\* its callback ref gone or comes twice, no call on the stack resumes a coroutine that
\* has gone on.
THEOREM RawPointersSound == Spec => []PointersSound
<1>1. ASSUME IInv PROVE PointersSound
  <2>1. SUFFICES ASSUME NEW c \in Command
                 PROVE  /\ cmd[c].timer = "active" => cmd[c].at = "issued" /\ ~cmd[c].completed
                        /\ c \in Range(wire) => cmd[c].ref = "live"
                        /\ cmd[c].ref = "live" => c \in Range(wire) \/ ctx = "freed"
                        /\ Cardinality({i \in DOMAIN wire : wire[i] = c}) <= 1
                        /\ \A at \in {"issue", "resume", "timedout"} :
                              F(at, c) \in Range(stack) => cmd[c].at # "done"
    BY DEF PointersSound
  <2>2. cmd[c].timer = "active" => cmd[c].at = "issued" /\ ~cmd[c].completed
    BY <1>1 DEF IInv, LifeInv, Life
  <2>3. /\ c \in Range(wire) => cmd[c].ref = "live"
        /\ cmd[c].ref = "live" => c \in Range(wire) \/ ctx = "freed"
    BY <1>1 DEF IInv, WireInv
  <2>4. Cardinality({i \in DOMAIN wire : wire[i] = c}) <= 1
    <3> DEFINE S == {i \in DOMAIN wire : wire[i] = c}
    <3>1. wire \in Seq(Command) /\ DOMAIN wire = 1..Len(wire)
      BY <1>1, Typed DEF IInv
    <3>2. \A i, j \in S : i = j
      BY <1>1, <3>1 DEF IInv, WireInv
    <3>3. CASE S = {}
      BY <3>3, FS_EmptySet
    <3>4. CASE S # {}
      <4>1. PICK i \in S : TRUE
        BY <3>4
      <4>2. S = {i}
        BY <3>2, <4>1
      <4>3. Cardinality({i}) = 1
        BY FS_Singleton
      <4> QED BY <4>2, <4>3
    <3> QED BY <3>3, <3>4
  <2>5. \A at \in {"issue", "resume", "timedout"} : F(at, c) \in Range(stack) => cmd[c].at # "done"
    BY <1>1 DEF IInv, StackInv, Calls
  <2> QED BY <2>2, <2>3, <2>4, <2>5
<1> QED BY <1>1, Invariance, PTL

=============================================================================
