----------------------- MODULE AsyncDagScheduler_proofs -----------------------
(***************************************************************************)
(* Proofs about AsyncDagScheduler, for every number of nodes and every set *)
(* of acyclic plans, and about the EventLoop it runs on.                   *)
(***************************************************************************)
EXTENDS AsyncDagScheduler, EventLoop, FiniteSetTheorems, SequenceTheorems, TLAPS

-----------------------------------------------------------------------------
(***************************************************************************)
(* Facts about the operators the model is built from.                      *)
(***************************************************************************)

\* A plan's dependency list is a sequence of nodes.
LEMMA DepsOfType ==
    ASSUME NEW p \in Plans, NEW n \in Node
    PROVE  DepsOf(p, n) \in Seq(Node)
<1>1. p[n].inputs \in Seq(Node) /\ p[n].refs \in Seq(Node)
  BY PlansAssumption
<1> QED BY <1>1, ConcatProperties DEF DepsOf

\* The positions that name a node of S are finitely many.
LEMMA SlotsFinite ==
    ASSUME NEW p \in Plans, NEW n \in Node, NEW S
    PROVE  IsFiniteSet(Slots(p, n, S)) /\ Cardinality(Slots(p, n, S)) \in Nat
<1>1. DOMAIN DepsOf(p, n) = 1..Len(DepsOf(p, n)) /\ Len(DepsOf(p, n)) \in Nat
  BY DepsOfType, LenProperties
<1>2. IsFiniteSet(DOMAIN DepsOf(p, n))
  BY <1>1, FS_Interval
<1>3. Slots(p, n, S) \in SUBSET (DOMAIN DepsOf(p, n))
  BY DEF Slots
<1> QED BY <1>2, <1>3, FS_Subset, FS_CardinalityType

\* Taking one node out of S takes exactly its positions away.
LEMMA SlotsRemove ==
    ASSUME NEW p \in Plans, NEW n \in Node, NEW S, NEW m \in S
    PROVE  Cardinality(Slots(p, n, S \ {m}))
             = Cardinality(Slots(p, n, S)) - Cardinality(Slots(p, n, {m}))
<1> DEFINE A == Slots(p, n, S)
           B == Slots(p, n, {m})
<1>1. IsFiniteSet(A) /\ IsFiniteSet(B)
  BY SlotsFinite
<1>2. Slots(p, n, S \ {m}) = A \ B
  BY DEF Slots
<1>3. A \cap B = B
  BY DEF Slots
<1>4. Cardinality(A \ B) = Cardinality(A) - Cardinality(A \cap B)
  BY <1>1, FS_Difference
<1> QED BY <1>2, <1>3, <1>4

\* The set of nodes is finite.
LEMMA NodeFinite == IsFiniteSet(Node) /\ Cardinality(Node) = N
BY NAssumption, FS_Interval DEF Node

\* What the elements of a concatenation are.
LEMMA ElemsConcat ==
    ASSUME NEW S, NEW s \in Seq(S), NEW t \in Seq(S)
    PROVE  Elems(s \o t) = Elems(s) \cup Elems(t)
<1>1. /\ DOMAIN s = 1..Len(s) /\ DOMAIN t = 1..Len(t)
      /\ DOMAIN (s \o t) = 1..(Len(s) + Len(t))
      /\ Len(s) \in Nat /\ Len(t) \in Nat
  BY ConcatProperties, LenProperties
<1>2. \A i \in 1..(Len(s) + Len(t)) :
         (s \o t)[i] = IF i <= Len(s) THEN s[i] ELSE t[i - Len(s)]
  BY ConcatProperties
<1>3. ASSUME NEW x \in Elems(s \o t) PROVE x \in Elems(s) \cup Elems(t)
  <2>1. PICK i \in 1..(Len(s) + Len(t)) : x = (s \o t)[i]
    BY <1>1, <1>3 DEF Elems
  <2>2. CASE i <= Len(s)
    BY <1>1, <1>2, <2>1, <2>2 DEF Elems
  <2>3. CASE i > Len(s)
    <3>1. i - Len(s) \in 1..Len(t)
      BY <1>1, <2>1, <2>3
    <3> QED BY <1>1, <1>2, <2>1, <2>3, <3>1 DEF Elems
  <2> QED BY <1>1, <2>1, <2>2, <2>3
<1>4. ASSUME NEW x \in Elems(s) PROVE x \in Elems(s \o t)
  <2>1. PICK i \in 1..Len(s) : x = s[i]
    BY <1>1, <1>4 DEF Elems
  <2>2. i \in 1..(Len(s) + Len(t)) /\ (s \o t)[i] = x
    BY <1>1, <1>2, <2>1
  <2> QED BY <1>1, <2>2 DEF Elems
<1>5. ASSUME NEW x \in Elems(t) PROVE x \in Elems(s \o t)
  <2>1. PICK i \in 1..Len(t) : x = t[i]
    BY <1>1, <1>5 DEF Elems
  <2>2. (i + Len(s)) \in 1..(Len(s) + Len(t)) /\ (s \o t)[i + Len(s)] = x
    BY <1>1, <1>2, <2>1
  <2> QED BY <1>1, <2>2 DEF Elems
<1> QED BY <1>3, <1>4, <1>5

\* The ascending enumerations of S are duplicate-free sequences over S.
LEMMA AscendingFacts ==
    ASSUME NEW S, IsFiniteSet(S), S \subseteq Node, NEW s \in Ascending(S)
    PROVE  /\ s \in Seq(S) /\ s \in Seq(Node)
           /\ Elems(s) = S
           /\ \A i, j \in DOMAIN s : s[i] = s[j] => i = j
<1>1. Cardinality(S) \in Nat
  BY FS_CardinalityType
<1>2. s \in [1..Cardinality(S) -> S]
  BY DEF Ascending
<1>3. s \in Seq(S)
  BY <1>1, <1>2
<1>4. s \in Seq(Node)
  BY <1>3, SeqMonotonic
<1>5. ASSUME NEW i \in DOMAIN s, NEW j \in DOMAIN s, s[i] = s[j]
      PROVE  i = j
  <2>0. DOMAIN s = 1..Cardinality(S) /\ s[i] \in Node /\ s[j] \in Node
    BY <1>2
  <2>1. i \in Nat /\ j \in Nat /\ s[i] \in Int /\ s[j] \in Int
    BY <1>1, <2>0, NAssumption DEF Node
  <2>2. ~(i < j) /\ ~(j < i)
    BY <1>5, <2>1 DEF Ascending
  <2> QED BY <2>1, <2>2
<1> QED BY <1>3, <1>4, <1>5 DEF Ascending

-----------------------------------------------------------------------------
(***************************************************************************)
(* Type correctness.                                                       *)
(***************************************************************************)

\* The stack operations stay within sequences of coroutines.
LEMMA StackFacts ==
    ASSUME stack \in Seq(Coro), NEW c \in Coro
    PROVE  /\ Append(stack, c) \in Seq(Coro)
           /\ <<c>> \in Seq(Coro)
           /\ stack # <<>> => Pop(stack) \in Seq(Coro)
<1>1. stack # <<>> => Pop(stack) \in Seq(Coro)
  <2> SUFFICES ASSUME stack # <<>> PROVE Pop(stack) \in Seq(Coro)
    OBVIOUS
  <2>1. Len(stack) \in Nat /\ \A i \in 1..Len(stack) : stack[i] \in Coro
    BY LenProperties, ElementOfSeq
  <2> QED BY <2>1, SubSeqProperties DEF Pop
<1> QED BY <1>1

\* The nodes woken by a completion are appended to the queue: it stays a
\* sequence of nodes.
LEMMA WakeTypeOK ==
    ASSUME TypeOK, NEW n \in Node, StoreAndWake(n)
    PROVE  /\ deps_remaining' \in [Node -> Int]
           /\ ready_queue' \in Seq(Node)
           /\ results' \in [Node -> BOOLEAN]
           /\ pc' \in [Coro -> Labels]
<1> DEFINE left  == [m \in Node |-> deps_remaining[m] - Cardinality(Slots(plan, m, {n}))]
           woken == {m \in Node : Slots(plan, m, {n}) # {} /\ left[m] = 0}
<1>1. \A m \in Node : Cardinality(Slots(plan, m, {n})) \in Nat
  BY SlotsFinite DEF TypeOK
<1>2. deps_remaining' \in [Node -> Int]
  <2>1. \A m \in Node : deps_remaining[m] - Cardinality(Slots(plan, m, {n})) \in Int
    <3>1. deps_remaining \in [Node -> Int]
      BY DEF TypeOK
    <3> QED BY <1>1, <3>1
  <2>2. deps_remaining' = left
    BY DEF StoreAndWake
  <2> QED BY <2>1, <2>2
<1>3. PICK s \in Ascending(woken) : ready_queue' = ready_queue \o s
  BY DEF StoreAndWake
<1>4. IsFiniteSet(woken)
  BY NodeFinite, FS_Subset
<1>5. s \in Seq(Node)
  <2> HIDE DEF woken
  <2> QED BY <1>4, AscendingFacts, woken \subseteq Node DEF woken
<1>6. ready_queue' \in Seq(Node)
  BY <1>3, <1>5, ConcatProperties DEF TypeOK
<1>7. results' \in [Node -> BOOLEAN] /\ pc' \in [Coro -> Labels]
  BY DEF StoreAndWake, TypeOK, Labels, Coro
<1> QED BY <1>2, <1>6, <1>7

\* The initial scheduler state has its type.
LEMMA InitTypeOK == Init => TypeOK
<1> SUFFICES ASSUME Init PROVE TypeOK
  OBVIOUS
<1>1. plan \in Plans
  BY DEF Init
<1>2. deps_remaining \in [Node -> Int]
  BY <1>1, DepsOfType, LenProperties DEF Init, InitScheduler
<1>3. ready_queue \in Seq(Node)
  <2> DEFINE S == {n \in Node : DepsOf(plan, n) = <<>>}
  <2>1. IsFiniteSet(S) /\ S \subseteq Node
    BY NodeFinite, FS_Subset
  <2>2. ready_queue \in Ascending(S)
    BY DEF Init, InitScheduler
  <2> HIDE DEF S
  <2> QED BY <2>1, <2>2, AscendingFacts
<1>4. stack \in Seq(Coro)
  BY DEF Init
<1>5. pc \in [Coro -> Labels] /\ results \in [Node -> BOOLEAN]
  BY DEF Init, InitScheduler, Labels
<1>6. inflight_count \in Int /\ nodes_remaining \in Int /\ resumes \in Nat
  BY NAssumption DEF Init, InitScheduler
<1> QED BY <1>1, <1>2, <1>3, <1>4, <1>5, <1>6
        DEF Init, InitScheduler, TypeOK

\* Every step keeps the types.
LEMMA NextTypeOK == TypeOK /\ [Next]_vars => TypeOK'
<1> SUFFICES ASSUME TypeOK, [Next]_vars PROVE TypeOK'
  OBVIOUS
<1> USE DEF TypeOK, Labels
<1>1. ASSUME NEW c \in Coro, Spawning(c) PROVE TypeOK'
  <2>1. CASE SpawnEnter(c)
    <3>1. pc' \in [Coro -> Labels]
      BY <2>1 DEF SpawnEnter
    <3>2. first_error' \in {"none", "node", "deadline"}
      BY <2>1 DEF SpawnEnter
    <3> QED BY <2>1, <3>1, <3>2 DEF SpawnEnter
  <2>2. CASE SpawnNext(c)
    <3>1. Head(ready_queue) \in Node /\ Tail(ready_queue) \in Seq(Node)
      BY <2>2, HeadTailProperties DEF SpawnNext
    <3>2. Head(ready_queue) \in Coro
      BY <3>1 DEF Coro
    <3> QED BY <2>2, <3>1, <3>2, StackFacts DEF SpawnNext
  <2>3. CASE SpawnLeave(c)
    BY <2>3 DEF SpawnLeave, schedVars
  <2> QED BY <1>1, <2>1, <2>2, <2>3 DEF Spawning
<1>2. ASSUME NEW n \in Node, NodeStep(n) PROVE TypeOK'
  <2>0. n \in Coro
    BY DEF Coro
  <2>1. CASE NodeFails(n)
    <3>1. pc' \in [Coro -> Labels] /\ nodes_remaining' \in Int
      BY <2>0, <2>1 DEF NodeFails, RecordFailure
    <3> QED BY <2>1, <3>1 DEF NodeFails, RecordFailure
  <2>2. CASE NodeCompletes(n)
    <3>1. StoreAndWake(n)
      BY <2>2 DEF NodeCompletes
    <3>2. /\ deps_remaining' \in [Node -> Int] /\ ready_queue' \in Seq(Node)
          /\ results' \in [Node -> BOOLEAN] /\ pc' \in [Coro -> Labels]
      BY <3>1, WakeTypeOK
    <3>3. UNCHANGED <<inflight_count, nodes_remaining, first_error>>
      BY <3>1 DEF StoreAndWake
    <3> QED BY <2>2, <3>2, <3>3 DEF NodeCompletes
  <2>3. CASE NodeSuspends(n)
    BY <2>0, <2>3, StackFacts DEF NodeSuspends, Runs, schedVars
  <2>4. CASE NodeResumesOk(n)
    <3>1. StoreAndWake(n)
      BY <2>4 DEF NodeResumesOk
    <3>2. /\ deps_remaining' \in [Node -> Int] /\ ready_queue' \in Seq(Node)
          /\ results' \in [Node -> BOOLEAN] /\ pc' \in [Coro -> Labels]
      BY <3>1, WakeTypeOK
    <3>3. UNCHANGED <<inflight_count, nodes_remaining, first_error>>
      BY <3>1 DEF StoreAndWake
    <3>4. stack' \in Seq(Coro)
      BY <2>0, <2>4, StackFacts DEF NodeResumesOk
    <3> QED BY <2>4, <3>2, <3>3, <3>4 DEF NodeResumesOk
  <2>5. CASE NodeResumesFailed(n)
    BY <2>0, <2>5, StackFacts DEF NodeResumesFailed, RecordFailure
  <2>6. CASE NodeSpawned(n)
    <3>1. pc' \in [Coro -> Labels] /\ nodes_remaining' \in Int
      BY <2>0, <2>6 DEF NodeSpawned
    <3> QED BY <2>6, <3>1 DEF NodeSpawned
  <2>7. CASE NodeExit(n)
    BY <2>0, <2>7, StackFacts DEF NodeExit, Runs
  <2> QED BY <1>2, <2>1, <2>2, <2>3, <2>4, <2>5, <2>6, <2>7 DEF NodeStep
<1>3. ASSUME MainStep PROVE TypeOK'
  <2>0. Main \in Coro
    BY DEF Coro
  <2>1. CASE MainStart
    BY <2>0, <2>1, StackFacts DEF MainStart, schedVars
  <2>2. CASE MainAwait
    <3>1. pc' \in [Coro -> Labels] /\ main_coro' \in BOOLEAN
      BY <2>0, <2>2 DEF MainAwait
    <3>2. stack' \in Seq(Coro)
      BY <2>0, <2>2, StackFacts DEF MainAwait, Runs
    <3> QED BY <2>2, <3>1, <3>2 DEF MainAwait, schedVars
  <2>3. CASE MainResume
    BY <2>0, <2>3, StackFacts DEF MainResume, schedVars
  <2>4. CASE MainCollect
    BY <2>4 DEF MainCollect, schedVars
  <2>5. CASE FinalSignal
    BY <2>5 DEF FinalSignal, schedVars
  <2>6. CASE FinalNotify
    BY <2>0, <2>6, StackFacts DEF FinalNotify, Runs, schedVars
  <2> QED BY <1>3, <2>1, <2>2, <2>3, <2>4, <2>5, <2>6 DEF MainStep
<1>4. ASSUME CallerStep \/ CallerSpuriousWake PROVE TypeOK'
  BY <1>4 DEF CallerStep, CallerPost, CallerCheck, CallerSpuriousWake, schedVars
<1>5. ASSUME DeadlinePasses \/ LoopStopping \/ LoopStopped PROVE TypeOK'
  BY <1>5 DEF DeadlinePasses, LoopStopping, LoopStopped, schedVars
<1>6. ASSUME UNCHANGED vars PROVE TypeOK'
  BY <1>6 DEF vars, schedVars
<1> QED BY <1>1, <1>2, <1>3, <1>4, <1>5, <1>6 DEF Next

\* Every variable of the scheduler keeps the type its declaration in
\* AsyncSchedulerState gives it.
THEOREM TypeCorrect == Spec => []TypeOK
<1> QED BY InitTypeOK, NextTypeOK, PTL DEF Spec

-----------------------------------------------------------------------------
(***************************************************************************)
(* The inductive invariant.  Its parts other than TypeOK:                  *)
(***************************************************************************)
Parts ==
    /\ DepsInv
    /\ QueueInv
    /\ ResultInv
    /\ CountsExact
    /\ SpawnInv
    /\ MainInv
    /\ SuccessComplete

\* The main coroutine is not a node.
LEMMA MainNotNode == Main \notin Node /\ Main \in Coro /\ Node \subseteq Coro
BY NAssumption DEF Node, Main, Coro

\* The two counted sets are finite, so their cardinalities behave.
LEMMA CountedFinite ==
    /\ IsFiniteSet(Active) /\ Cardinality(Active) \in Nat
    /\ IsFiniteSet(Uncompleted) /\ Cardinality(Uncompleted) \in Nat
<1>1. Active \in SUBSET Node /\ Uncompleted \in SUBSET Node
  BY DEF Active, Uncompleted
<1> QED BY <1>1, NodeFinite, FS_Subset, FS_CardinalityType

\* Nothing is in flight exactly when the counter is zero.
LEMMA InflightZero ==
    ASSUME CountsExact
    PROVE  inflight_count = 0 <=> Active = {}
BY CountedFinite, FS_EmptySet DEF CountsExact

\* A countdown is over exactly when every dependency has a result.
LEMMA CountdownOver ==
    ASSUME TypeOK, DepsInv, NEW n \in Node
    PROVE  deps_remaining[n] = 0 <=> Slots(plan, n, Open) = {}
BY SlotsFinite, FS_EmptySet DEF TypeOK, DepsInv

\* The initial state satisfies the invariant.
LEMMA InitParts == Init => Parts
<1> SUFFICES ASSUME Init PROVE Parts
  OBVIOUS
<1>0. TypeOK
  BY InitTypeOK
<1>1. plan \in Plans /\ Open = Node /\ \A c \in Coro : pc[c] = "none"
  BY DEF Init, InitScheduler, Open
<1>2. DepsInv
  <2> SUFFICES ASSUME NEW n \in Node
               PROVE  deps_remaining[n] = Cardinality(Slots(plan, n, Open))
    BY DEF DepsInv
  <2> DEFINE d == DepsOf(plan, n)
  <2>1. d \in Seq(Node) /\ DOMAIN d = 1..Len(d) /\ Len(d) \in Nat
    BY <1>1, DepsOfType, LenProperties
  <2>2. Slots(plan, n, Open) = 1..Len(d)
    BY <1>1, <2>1, ElementOfSeq DEF Slots
  <2>3. Cardinality(1..Len(d)) = Len(d)
    BY <2>1, FS_Interval
  <2> QED BY <2>2, <2>3 DEF Init, InitScheduler
<1>3. QueueInv
  <2> DEFINE S == {n \in Node : DepsOf(plan, n) = <<>>}
  <2>1. IsFiniteSet(S) /\ S \subseteq Node
    BY NodeFinite, FS_Subset
  <2>2. ready_queue \in Ascending(S)
    BY DEF Init, InitScheduler
  <2>3. /\ Elems(ready_queue) = S
        /\ \A i, j \in DOMAIN ready_queue : ready_queue[i] = ready_queue[j] => i = j
    <3> HIDE DEF S
    <3> QED BY <2>1, <2>2, AscendingFacts
  <2>4. \A n \in Node : n \in S <=> deps_remaining[n] = 0
    <3> SUFFICES ASSUME NEW n \in Node PROVE n \in S <=> deps_remaining[n] = 0
      OBVIOUS
    <3>1. DepsOf(plan, n) \in Seq(Node)
      BY <1>1, DepsOfType
    <3>2. deps_remaining[n] = Len(DepsOf(plan, n))
      BY DEF Init, InitScheduler
    <3> QED BY <3>1, <3>2, EmptySeq
  <2>5. \A i \in DOMAIN ready_queue : ready_queue[i] \in S
    BY <2>3 DEF Elems
  <2> QED BY <1>1, <2>3, <2>4, <2>5, MainNotNode DEF QueueInv
<1>4. ResultInv
  BY <1>1, MainNotNode DEF ResultInv, Init, InitScheduler
<1>5. CountsExact
  <2>1. Active = {} /\ Uncompleted = Node
    BY <1>1, MainNotNode DEF Active, Uncompleted
  <2> QED BY <2>1, NodeFinite, FS_EmptySet DEF CountsExact, Init, InitScheduler
<1>6. SpawnInv
  BY <1>1, MainNotNode DEF SpawnInv
<1>7. MainInv /\ SuccessComplete
  BY <1>1, MainNotNode DEF MainInv, SuccessComplete, Init
<1> QED BY <1>2, <1>3, <1>4, <1>5, <1>6, <1>7 DEF Parts

-----------------------------------------------------------------------------
(***************************************************************************)
(* One lemma per action, one step per part the action can disturb.         *)
(***************************************************************************)

\* spawn_ready_nodes looks at the deadline.
LEMMA SpawnEnterStep ==
    ASSUME IndInv, NEW c \in Coro, SpawnEnter(c)
    PROVE  Parts'
<1> USE DEF IndInv, SpawnEnter
<1>0. /\ pc \in [Coro -> Labels] /\ pc[c] = "spawn_enter"
      /\ pc' = [pc EXCEPT ![c] = "spawned"] \/ pc' = [pc EXCEPT ![c] = "spawning"]
  BY DEF TypeOK
<1>1. DepsInv'
  BY DEF DepsInv, Open
<1>2. QueueInv'
  BY <1>0, MainNotNode DEF QueueInv, TypeOK
<1>3. ResultInv'
  BY <1>0, MainNotNode DEF ResultInv
<1>4. Active' = Active /\ Uncompleted' = Uncompleted
  BY <1>0, MainNotNode DEF Active, Uncompleted
<1>5. CountsExact'
  BY <1>4 DEF CountsExact
<1>6. SpawnInv'
  BY <1>0, MainNotNode DEF SpawnInv, TypeOK
<1>7. MainInv'
  BY <1>0, <1>4, MainNotNode DEF MainInv
<1>8. SuccessComplete'
  BY DEF SuccessComplete
<1> QED BY <1>1, <1>2, <1>3, <1>5, <1>6, <1>7, <1>8 DEF Parts

\* The head of the queue becomes a coroutine.
LEMMA SpawnNextStep ==
    ASSUME IndInv, NEW c \in Coro, SpawnNext(c)
    PROVE  Parts'
<1> DEFINE h == Head(ready_queue)
<1> USE DEF IndInv
<1>0. /\ pc \in [Coro -> Labels] /\ pc[c] = "spawning"
      /\ pc' = [pc EXCEPT ![h] = "start"]
  BY DEF TypeOK, SpawnNext
<1>1. /\ h \in Node /\ ready_queue \in Seq(Node) /\ Len(ready_queue) \in Nat
      /\ Len(ready_queue) > 0
      /\ DOMAIN ready_queue = 1..Len(ready_queue) /\ h = ready_queue[1]
      /\ ready_queue' \in Seq(Node)
      /\ DOMAIN ready_queue' = 1..(Len(ready_queue) - 1)
      /\ \A i \in 1..(Len(ready_queue) - 1) : ready_queue'[i] = ready_queue[i + 1]
  BY HeadTailProperties, LenProperties, EmptySeq DEF TypeOK, SpawnNext
<1>2. pc[h] = "none" /\ deps_remaining[h] = 0 /\ h # c /\ h # Main
  BY <1>0, <1>1, MainNotNode DEF QueueInv
<1>3. DepsInv'
  BY DEF DepsInv, Open, SpawnNext
<1>4. QueueInv'
  <2>1. \A i \in DOMAIN ready_queue' :
           pc'[ready_queue'[i]] = "none" /\ deps_remaining'[ready_queue'[i]] = 0
    <3> SUFFICES ASSUME NEW i \in 1..(Len(ready_queue) - 1)
                 PROVE  /\ pc'[ready_queue'[i]] = "none"
                        /\ deps_remaining'[ready_queue'[i]] = 0
      BY <1>1
    <3>1. i + 1 \in 1..Len(ready_queue) /\ i + 1 # 1
      BY <1>1
    <3>2. PICK j \in 1..Len(ready_queue) : j = i + 1
      BY <3>1
    <3>3. ready_queue[j] \in Node /\ ready_queue'[i] = ready_queue[j] /\ j # 1
      BY <1>1, <3>1, <3>2, ElementOfSeq
    <3>4. 1 \in DOMAIN ready_queue /\ j \in DOMAIN ready_queue
      BY <1>1, <3>2
    <3>5. /\ ready_queue[j] # h
          /\ pc[ready_queue[j]] = "none" /\ deps_remaining[ready_queue[j]] = 0
      BY <1>1, <3>3, <3>4 DEF QueueInv
    <3> QED BY <1>0, <1>1, <3>3, <3>5, MainNotNode DEF SpawnNext
  <2>2. \A i, j \in DOMAIN ready_queue' : ready_queue'[i] = ready_queue'[j] => i = j
    <3> SUFFICES ASSUME NEW i \in 1..(Len(ready_queue) - 1), NEW j \in 1..(Len(ready_queue) - 1),
                        ready_queue'[i] = ready_queue'[j]
                 PROVE  i = j
      BY <1>1
    <3>1. i + 1 \in 1..Len(ready_queue) /\ j + 1 \in 1..Len(ready_queue)
      BY <1>1
    <3>2. i + 1 = j + 1
      BY <1>1, <3>1 DEF QueueInv
    <3> QED BY <3>2
  <2>3. \A n \in Node : deps_remaining'[n] = 0 /\ pc'[n] = "none" => n \in Elems(ready_queue')
    <3> SUFFICES ASSUME NEW n \in Node, deps_remaining'[n] = 0, pc'[n] = "none"
                 PROVE  n \in Elems(ready_queue')
      OBVIOUS
    <3>1. n # h /\ pc[n] = "none" /\ deps_remaining[n] = 0
      BY <1>0, <1>1, MainNotNode DEF SpawnNext
    <3>2. PICK i \in 1..Len(ready_queue) : ready_queue[i] = n
      BY <1>1, <3>1 DEF QueueInv, Elems
    <3>3. i - 1 \in 1..(Len(ready_queue) - 1) /\ ready_queue'[i - 1] = n
      BY <1>1, <3>1, <3>2
    <3> QED BY <1>1, <3>3 DEF Elems
  <2>4. \A n \in Node : pc'[n] # "none" => deps_remaining'[n] = 0
    BY <1>0, <1>1, <1>2, MainNotNode DEF QueueInv, SpawnNext
  <2> QED BY <2>1, <2>2, <2>3, <2>4 DEF QueueInv
<1>5. ResultInv'
  BY <1>0, <1>1, <1>2, MainNotNode DEF ResultInv, SpawnNext
<1>6. Active' = Active \cup {h} /\ h \notin Active /\ Uncompleted' = Uncompleted
  BY <1>0, <1>1, <1>2, MainNotNode DEF Active, Uncompleted
<1>7. CountsExact'
  BY <1>6, CountedFinite, FS_AddElement DEF CountsExact, SpawnNext
<1>8. SpawnInv'
  <2>1. pc'[c] = "spawning"
    BY <1>0, <1>1, <1>2, MainNotNode
  <2> QED BY <2>1 DEF SpawnInv, Coro
<1>9. MainInv'
  <2>1. pc'[Main] = pc[Main]
    BY <1>0, <1>2, MainNotNode
  <2>2. c = Main \/ c \in Active
    BY <1>0 DEF Active, Coro
  <2>3. resumes = 0 /\ pc[Main] \notin {"collect", "final", "notify", "done"}
    BY <1>0, <2>2 DEF MainInv, TypeOK
  <2> QED BY <2>1, <2>3 DEF MainInv, SpawnNext
<1>10. SuccessComplete'
  BY DEF SuccessComplete, SpawnNext
<1> QED BY <1>3, <1>4, <1>5, <1>7, <1>8, <1>9, <1>10 DEF Parts

\* The spawn loop ends with an empty queue or an error.
LEMMA SpawnLeaveStep ==
    ASSUME IndInv, NEW c \in Coro, SpawnLeave(c)
    PROVE  Parts'
<1> USE DEF IndInv, SpawnLeave, schedVars
<1>0. /\ pc \in [Coro -> Labels] /\ pc[c] = "spawning"
      /\ pc' = [pc EXCEPT ![c] = "spawned"]
  BY DEF TypeOK
<1>1. DepsInv'
  BY DEF DepsInv, Open
<1>2. QueueInv'
  BY <1>0, MainNotNode DEF QueueInv, TypeOK
<1>3. ResultInv'
  BY <1>0, MainNotNode DEF ResultInv
<1>4. Active' = Active /\ Uncompleted' = Uncompleted
  BY <1>0, MainNotNode DEF Active, Uncompleted
<1>5. CountsExact'
  BY <1>4 DEF CountsExact
<1>6. SpawnInv'
  BY DEF SpawnInv
<1>7. MainInv'
  BY <1>0, <1>4, MainNotNode DEF MainInv
<1>8. SuccessComplete'
  BY DEF SuccessComplete
<1> QED BY <1>1, <1>2, <1>3, <1>5, <1>6, <1>7, <1>8 DEF Parts

\* A node succeeds, on its first activation or when it is resumed.
LEMMA WakeStep ==
    ASSUME IndInv, NEW n \in Node, pc[n] \in {"start", "suspended"}, StoreAndWake(n),
           UNCHANGED <<plan, main_coro, resumes, outcome, caller>>
    PROVE  Parts'
<1> DEFINE left  == [m \in Node |-> deps_remaining[m] - Cardinality(Slots(plan, m, {n}))]
           woken == {m \in Node : Slots(plan, m, {n}) # {} /\ left[m] = 0}
<1> USE DEF IndInv
<1>0. /\ pc \in [Coro -> Labels] /\ pc' = [pc EXCEPT ![n] = "spawn_enter"]
      /\ plan \in Plans /\ results \in [Node -> BOOLEAN]
      /\ results' = [results EXCEPT ![n] = TRUE]
      /\ deps_remaining' = left
      /\ inflight_count' = inflight_count /\ nodes_remaining' = nodes_remaining
      /\ first_error' = first_error
  BY DEF TypeOK, StoreAndWake
<1>1. n \in Open /\ Open' = Open \ {n}
  BY <1>0 DEF ResultInv, Open
<1>2. DepsInv'
  <2> SUFFICES ASSUME NEW m \in Node
               PROVE  deps_remaining'[m] = Cardinality(Slots(plan, m, Open \ {n}))
    BY <1>1 DEF DepsInv
  <2> QED BY <1>0, <1>1, SlotsRemove DEF DepsInv
<1>3. \A m \in Node : /\ deps_remaining[m] \in Nat /\ deps_remaining'[m] \in Nat
                      /\ Cardinality(Slots(plan, m, {n})) \in Nat
                      /\ deps_remaining'[m]
                           = deps_remaining[m] - Cardinality(Slots(plan, m, {n}))
  BY <1>0, <1>2, SlotsFinite DEF DepsInv
<1>4. \A m \in Node : Cardinality(Slots(plan, m, {n})) = 0 <=> Slots(plan, m, {n}) = {}
  BY <1>0, SlotsFinite, FS_EmptySet
<1>5. \A m \in woken : pc[m] = "none" /\ m # n /\ deps_remaining[m] # 0
                       /\ deps_remaining'[m] = 0
  <2> SUFFICES ASSUME NEW m \in woken
               PROVE  pc[m] = "none" /\ m # n /\ deps_remaining[m] # 0
                      /\ deps_remaining'[m] = 0
    OBVIOUS
  <2>1. m \in Node /\ Slots(plan, m, {n}) # {} /\ deps_remaining'[m] = 0
    BY <1>0
  <2>2. Cardinality(Slots(plan, m, {n})) # 0
    BY <1>4, <2>1
  <2>3. deps_remaining[m] # 0
    <3> HIDE DEF left, woken
    <3> QED BY <1>3, <2>1, <2>2
  <2>4. pc[m] = "none"
    BY <2>1, <2>3 DEF QueueInv
  <2> QED BY <2>1, <2>3, <2>4
<1>6. PICK s \in Ascending(woken) : ready_queue' = ready_queue \o s
  BY DEF StoreAndWake
<1>7. /\ s \in Seq(Node) /\ Elems(s) = woken
      /\ \A i, j \in DOMAIN s : s[i] = s[j] => i = j
  <2>1. IsFiniteSet(woken) /\ woken \subseteq Node
    BY NodeFinite, FS_Subset
  <2> HIDE DEF woken
  <2> QED BY <1>6, <2>1, AscendingFacts
<1> HIDE DEF left, woken
<1>8. QueueInv'
  <2> DEFINE q == ready_queue
  <2>1. /\ q \in Seq(Node) /\ Len(q) \in Nat /\ Len(s) \in Nat
        /\ DOMAIN q = 1..Len(q) /\ DOMAIN s = 1..Len(s)
        /\ DOMAIN ready_queue' = 1..(Len(q) + Len(s))
        /\ \A i \in 1..(Len(q) + Len(s)) :
              ready_queue'[i] = IF i <= Len(q) THEN q[i] ELSE s[i - Len(q)]
        /\ Elems(ready_queue') = Elems(q) \cup woken
    BY <1>6, <1>7, ConcatProperties, LenProperties, ElemsConcat DEF TypeOK
  <2>2. \A i \in DOMAIN s : s[i] \in woken
    BY <1>7 DEF Elems
  <2>3. \A m \in Elems(q) : m \in Node /\ pc[m] = "none" /\ m # n
                            /\ deps_remaining[m] = 0 /\ deps_remaining'[m] = 0
    <3> SUFFICES ASSUME NEW i \in 1..Len(q)
                 PROVE  /\ q[i] \in Node /\ pc[q[i]] = "none" /\ q[i] # n
                        /\ deps_remaining[q[i]] = 0 /\ deps_remaining'[q[i]] = 0
      BY <2>1 DEF Elems
    <3>1. q[i] \in Node /\ pc[q[i]] = "none" /\ deps_remaining[q[i]] = 0
      BY <2>1, ElementOfSeq DEF QueueInv
    <3> QED BY <1>3, <3>1
  <2>4. \A i \in DOMAIN ready_queue' : ready_queue'[i] \in Elems(q) \cup woken
    BY <2>1 DEF Elems
  <2>5. \A m \in Elems(q) \cup woken : pc'[m] = "none" /\ deps_remaining'[m] = 0
    BY <1>0, <1>5, <2>3, MainNotNode DEF woken
  <2>6. \A i, j \in DOMAIN ready_queue' : ready_queue'[i] = ready_queue'[j] => i = j
    <3> SUFFICES ASSUME NEW i \in 1..(Len(q) + Len(s)), NEW j \in 1..(Len(q) + Len(s)),
                        i < j, ready_queue'[i] = ready_queue'[j]
                 PROVE  FALSE
      BY <2>1
    <3>1. CASE j <= Len(q)
      <4>1. q[i] = q[j] /\ i \in DOMAIN q /\ j \in DOMAIN q
        BY <2>1, <3>1
      <4> QED BY <4>1 DEF QueueInv
    <3>2. CASE i <= Len(q) /\ j > Len(q)
      <4>1. /\ q[i] = s[j - Len(q)] /\ i \in DOMAIN q /\ j - Len(q) \in DOMAIN s
        BY <2>1, <3>2
      <4>2. q[i] \in Elems(q) /\ q[i] \in woken
        BY <2>2, <4>1 DEF Elems
      <4> QED BY <1>5, <2>3, <4>2
    <3>3. CASE i > Len(q)
      <4>1. /\ s[i - Len(q)] = s[j - Len(q)]
            /\ i - Len(q) \in DOMAIN s /\ j - Len(q) \in DOMAIN s
        BY <2>1, <3>3
      <4>2. i - Len(q) = j - Len(q)
        BY <1>7, <4>1
      <4> QED BY <2>1, <4>2
    <3> QED BY <2>1, <3>1, <3>2, <3>3
  <2>7. \A m \in Node : deps_remaining'[m] = 0 /\ pc'[m] = "none" => m \in Elems(ready_queue')
    <3> SUFFICES ASSUME NEW m \in Node, deps_remaining'[m] = 0, pc'[m] = "none"
                 PROVE  m \in Elems(q) \cup woken
      BY <2>1
    <3>1. m # n /\ pc[m] = "none"
      BY <1>0, MainNotNode
    <3>2. CASE deps_remaining[m] = 0
      BY <3>1, <3>2 DEF QueueInv
    <3>3. CASE deps_remaining[m] # 0
      <4>0. Cardinality(Slots(plan, m, {n})) # 0
        <5> DEFINE k == Cardinality(Slots(plan, m, {n}))
        <5>1. /\ deps_remaining[m] \in Nat /\ k \in Nat
              /\ deps_remaining'[m] = deps_remaining[m] - k
          BY <1>3
        <5> HIDE DEF k
        <5>2. 0 = deps_remaining[m] - k
          BY <5>1
        <5>3. k # 0
          BY <3>3, <5>1, <5>2
        <5> QED BY <5>3 DEF k
      <4>1. Slots(plan, m, {n}) # {}
        BY <1>4, <4>0
      <4> QED BY <1>0, <4>1 DEF woken, left
    <3> QED BY <3>2, <3>3
  <2>8. \A m \in Node : pc'[m] # "none" => deps_remaining'[m] = 0
    <3> SUFFICES ASSUME NEW m \in Node, pc'[m] # "none" PROVE deps_remaining'[m] = 0
      OBVIOUS
    <3>1. pc[m] # "none"
      BY <1>0, MainNotNode
    <3>2. deps_remaining[m] = 0
      BY <3>1 DEF QueueInv
    <3> QED BY <1>3, <3>2
  <2> QED BY <2>4, <2>5, <2>6, <2>7, <2>8 DEF QueueInv
<1>9. ResultInv'
  BY <1>0, MainNotNode DEF ResultInv
<1>10. Active' = Active /\ Uncompleted' = Uncompleted /\ n \in Active
  BY <1>0, MainNotNode DEF Active, Uncompleted
<1>11. CountsExact'
  BY <1>0, <1>10 DEF CountsExact
<1>12. pc'[n] = "spawn_enter" /\ pc'[Main] = pc[Main]
  BY <1>0, MainNotNode
<1>13. SpawnInv'
  BY <1>12 DEF SpawnInv
<1>14. MainInv'
  BY <1>10, <1>12 DEF MainInv
<1>15. SuccessComplete'
  BY <1>0 DEF SuccessComplete
<1> QED BY <1>2, <1>8, <1>9, <1>11, <1>13, <1>14, <1>15 DEF Parts

\* A node fails, on its first activation or when it is resumed.
LEMMA FailStep ==
    ASSUME IndInv, NEW n \in Node, pc[n] \in {"start", "suspended"}, RecordFailure(n),
           UNCHANGED <<plan, main_coro, resumes, outcome, caller>>
    PROVE  Parts'
<1> USE DEF IndInv, RecordFailure
<1>0. pc \in [Coro -> Labels] /\ pc' = [pc EXCEPT ![n] = "exit"]
  BY DEF TypeOK
<1>1. DepsInv'
  BY DEF DepsInv, Open
<1>2. QueueInv'
  BY <1>0, MainNotNode DEF QueueInv, TypeOK
<1>3. ResultInv'
  BY <1>0, MainNotNode DEF ResultInv
<1>4. Active' = Active /\ n \in Active /\ Uncompleted' = Uncompleted \ {n} /\ n \in Uncompleted
  BY <1>0, MainNotNode DEF Active, Uncompleted
<1>5. CountsExact'
  BY <1>4, CountedFinite, FS_RemoveElement DEF CountsExact
<1>6. SpawnInv'
  BY DEF SpawnInv
<1>7. MainInv'
  BY <1>0, <1>4, MainNotNode DEF MainInv
<1>8. SuccessComplete'
  BY DEF SuccessComplete
<1> QED BY <1>1, <1>2, <1>3, <1>5, <1>6, <1>7, <1>8 DEF Parts

\* A node suspends, or comes back from spawn_ready_nodes.
LEMMA NodeMovesStep ==
    ASSUME IndInv, NEW n \in Node, NodeSuspends(n) \/ NodeSpawned(n)
    PROVE  Parts'
<1> USE DEF IndInv, NodeSuspends, NodeSpawned, schedVars
<1>0. /\ pc \in [Coro -> Labels]
      /\ \/ pc[n] = "start" /\ pc' = [pc EXCEPT ![n] = "suspended"]
         \/ pc[n] = "spawned" /\ pc' = [pc EXCEPT ![n] = "exit"]
  BY DEF TypeOK
<1>1. DepsInv'
  BY DEF DepsInv, Open
<1>2. QueueInv'
  BY <1>0, MainNotNode DEF QueueInv, TypeOK
<1>3. ResultInv'
  BY <1>0, MainNotNode DEF ResultInv
<1>4. Active' = Active
  BY <1>0, MainNotNode DEF Active
<1>5. CountsExact'
  <2>1. CASE NodeSuspends(n)
    <3>1. Uncompleted' = Uncompleted
      BY <2>1, MainNotNode DEF Uncompleted, TypeOK
    <3> QED BY <1>4, <2>1, <3>1 DEF CountsExact
  <2>2. CASE NodeSpawned(n)
    <3>1. Uncompleted' = Uncompleted \ {n} /\ n \in Uncompleted
      BY <2>2, MainNotNode DEF Uncompleted, TypeOK
    <3> QED BY <1>4, <2>2, <3>1, CountedFinite, FS_RemoveElement DEF CountsExact
  <2> QED BY <2>1, <2>2
<1>6. SpawnInv'
  BY <1>0, MainNotNode DEF SpawnInv
<1>7. MainInv'
  BY <1>0, <1>4, MainNotNode DEF MainInv
<1>8. SuccessComplete'
  BY DEF SuccessComplete
<1> QED BY <1>1, <1>2, <1>3, <1>5, <1>6, <1>7, <1>8 DEF Parts

\* A node coroutine ends; the last one posts the resumption of the main one.
LEMMA NodeExitStep ==
    ASSUME IndInv, NEW n \in Node, NodeExit(n)
    PROVE  Parts'
<1> USE DEF IndInv, NodeExit
<1>0. pc \in [Coro -> Labels] /\ pc[n] = "exit" /\ pc' = [pc EXCEPT ![n] = "done"]
  BY DEF TypeOK
<1>1. DepsInv'
  BY DEF DepsInv, Open
<1>2. QueueInv'
  BY <1>0, MainNotNode DEF QueueInv, TypeOK
<1>3. ResultInv'
  BY <1>0, MainNotNode DEF ResultInv
<1>4. Active' = Active \ {n} /\ n \in Active /\ Uncompleted' = Uncompleted
  BY <1>0, MainNotNode DEF Active, Uncompleted
<1>5. CountsExact'
  BY <1>4, CountedFinite, FS_RemoveElement DEF CountsExact
<1>6. SpawnInv'
  BY <1>0, MainNotNode DEF SpawnInv
<1>7. MainInv'
  <2>1. resumes = 0 /\ pc[Main] \notin {"collect", "final", "notify", "done"}
    BY <1>4 DEF MainInv, TypeOK
  <2>2. pc'[Main] = pc[Main]
    BY <1>0, MainNotNode
  <2>3. inflight_count' = 0 => Active' = {}
    BY <1>5, InflightZero, CountedFinite, <1>4, FS_RemoveElement, FS_EmptySet DEF CountsExact
  <2>4. resumes' > 0 => resumes' = 1 /\ inflight_count' = 0 /\ main_coro
    BY <2>1
  <2>5. main_coro => pc[Main] = "suspended"
    BY <2>1 DEF MainInv
  <2> QED BY <2>1, <2>2, <2>3, <2>4, <2>5 DEF MainInv
<1>8. SuccessComplete'
  BY DEF SuccessComplete
<1> QED BY <1>1, <1>2, <1>3, <1>5, <1>6, <1>7, <1>8 DEF Parts

\* The loop starts the main coroutine.
LEMMA MainStartStep ==
    ASSUME IndInv, MainStart
    PROVE  Parts'
<1> USE DEF IndInv, MainStart, schedVars
<1>0. /\ pc \in [Coro -> Labels] /\ pc[Main] = "start"
      /\ pc' = [pc EXCEPT ![Main] = "spawn_enter"]
  BY DEF TypeOK
<1>1. \A n \in Node : pc'[n] = pc[n]
  BY <1>0, MainNotNode
<1>2. Active' = Active /\ Uncompleted' = Uncompleted
  BY <1>1 DEF Active, Uncompleted
<1>3. DepsInv' /\ SuccessComplete'
  BY DEF DepsInv, Open, SuccessComplete
<1>4. QueueInv'
  BY <1>1, ElementOfSeq, LenProperties DEF QueueInv, TypeOK
<1>5. ResultInv'
  BY <1>1 DEF ResultInv
<1>6. CountsExact'
  BY <1>2 DEF CountsExact
<1>7. SpawnInv'
  BY <1>0, MainNotNode DEF SpawnInv
<1>8. MainInv'
  BY <1>0, <1>2, MainNotNode DEF MainInv
<1> QED BY <1>3, <1>4, <1>5, <1>6, <1>7, <1>8 DEF Parts

\* The main coroutine waits, or goes on if nothing is in flight.
LEMMA MainAwaitStep ==
    ASSUME IndInv, MainAwait
    PROVE  Parts'
<1> USE DEF IndInv, MainAwait, schedVars
<1>0. /\ pc \in [Coro -> Labels] /\ pc[Main] = "spawned"
      /\ \/ pc' = [pc EXCEPT ![Main] = "collect"] /\ inflight_count = 0
         \/ pc' = [pc EXCEPT ![Main] = "suspended"] /\ inflight_count # 0
  BY DEF TypeOK
<1>1. \A n \in Node : pc'[n] = pc[n]
  BY <1>0, MainNotNode
<1>2. Active' = Active /\ Uncompleted' = Uncompleted
  BY <1>1 DEF Active, Uncompleted
<1>3. DepsInv' /\ SuccessComplete'
  BY DEF DepsInv, Open, SuccessComplete
<1>4. QueueInv'
  BY <1>1, ElementOfSeq, LenProperties DEF QueueInv, TypeOK
<1>5. ResultInv'
  BY <1>1 DEF ResultInv
<1>6. CountsExact'
  BY <1>2 DEF CountsExact
<1>7. SpawnInv'
  BY <1>0, <1>1, MainNotNode DEF SpawnInv
<1>8. MainInv'
  <2>1. resumes = 0
    BY <1>0 DEF MainInv, TypeOK
  <2>2. pc'[Main] = "collect" => Active = {}
    BY <1>0, InflightZero, MainNotNode
  <2> QED BY <1>0, <1>2, <2>1, <2>2, MainNotNode DEF MainInv
<1> QED BY <1>3, <1>4, <1>5, <1>6, <1>7, <1>8 DEF Parts

\* The posted resumption runs.
LEMMA MainResumeStep ==
    ASSUME IndInv, MainResume
    PROVE  Parts'
<1> USE DEF IndInv, MainResume, schedVars
<1>0. /\ pc \in [Coro -> Labels] /\ pc' = [pc EXCEPT ![Main] = "collect"]
      /\ pc[Main] = "suspended" /\ Active = {} /\ resumes = 1 /\ resumes' = 0
  BY DEF TypeOK, MainInv
<1>1. \A n \in Node : pc'[n] = pc[n]
  BY <1>0, MainNotNode
<1>2. Active' = Active /\ Uncompleted' = Uncompleted
  BY <1>1 DEF Active, Uncompleted
<1>3. DepsInv' /\ SuccessComplete'
  BY DEF DepsInv, Open, SuccessComplete
<1>4. QueueInv'
  BY <1>1, ElementOfSeq, LenProperties DEF QueueInv, TypeOK
<1>5. ResultInv'
  BY <1>1 DEF ResultInv
<1>6. CountsExact'
  BY <1>2 DEF CountsExact
<1>7. SpawnInv'
  BY <1>0, <1>1, MainNotNode DEF SpawnInv
<1>8. MainInv'
  BY <1>0, <1>2, MainNotNode DEF MainInv
<1> QED BY <1>3, <1>4, <1>5, <1>6, <1>7, <1>8 DEF Parts

\* The outputs are read.  A node without a result would, by acyclicity, leave
\* one whose dependencies all have results: that node is neither in flight, nor
\* failed, nor queued, which the other parts exclude.
LEMMA AllResults ==
    ASSUME IndInv, pc[Main] = "collect", first_error = "none"
    PROVE  \A n \in Node : results[n]
<1> USE DEF IndInv
<1> SUFFICES ASSUME Open # {} PROVE FALSE
  BY DEF Open
<1>1. Open \in SUBSET Node /\ plan \in Plans
  BY DEF Open, TypeOK
<1>2. PICK n \in Open : Slots(plan, n, Open) = {}
  BY <1>1, PlansAssumption DEF Acyclic
<1>3. n \in Node /\ ~results[n] /\ deps_remaining[n] = 0
  BY <1>2, CountdownOver DEF Open
<1>4. Active = {}
  BY DEF MainInv
<1>5. pc[n] = "none"
  BY <1>3, <1>4 DEF Active, ResultInv
<1>6. ready_queue # <<>>
  BY <1>3, <1>5 DEF QueueInv, Elems
<1>7. PICK m \in Node : pc[m] \in {"spawn_enter", "spawning"}
  BY <1>6 DEF SpawnInv
<1> QED BY <1>4, <1>7 DEF Active

LEMMA MainCollectStep ==
    ASSUME IndInv, MainCollect
    PROVE  Parts'
<1> USE DEF IndInv, MainCollect, schedVars
<1>0. /\ pc \in [Coro -> Labels] /\ pc[Main] = "collect"
      /\ pc' = [pc EXCEPT ![Main] = "final"]
  BY DEF TypeOK
<1>1. \A n \in Node : pc'[n] = pc[n]
  BY <1>0, MainNotNode
<1>2. Active' = Active /\ Uncompleted' = Uncompleted
  BY <1>1 DEF Active, Uncompleted
<1>3. DepsInv'
  BY DEF DepsInv, Open
<1>4. QueueInv'
  BY <1>1, ElementOfSeq, LenProperties DEF QueueInv, TypeOK
<1>5. ResultInv'
  BY <1>1 DEF ResultInv
<1>6. CountsExact'
  BY <1>2 DEF CountsExact
<1>7. SpawnInv'
  BY <1>0, <1>1, MainNotNode DEF SpawnInv
<1>8. MainInv'
  BY <1>0, <1>2, MainNotNode DEF MainInv
<1>9. SuccessComplete'
  BY <1>0, AllResults DEF SuccessComplete
<1> QED BY <1>3, <1>4, <1>5, <1>6, <1>7, <1>8, <1>9 DEF Parts

\* The wrapper signals and ends.
LEMMA FinalStep ==
    ASSUME IndInv, FinalSignal \/ FinalNotify
    PROVE  Parts'
<1> USE DEF IndInv, FinalSignal, FinalNotify, schedVars
<1>0. /\ pc \in [Coro -> Labels]
      /\ \/ pc[Main] = "final" /\ pc' = [pc EXCEPT ![Main] = "notify"]
         \/ pc[Main] = "notify" /\ pc' = [pc EXCEPT ![Main] = "done"]
  BY DEF TypeOK
<1>1. \A n \in Node : pc'[n] = pc[n]
  BY <1>0, MainNotNode
<1>2. Active' = Active /\ Uncompleted' = Uncompleted
  BY <1>1 DEF Active, Uncompleted
<1>3. DepsInv' /\ SuccessComplete'
  BY DEF DepsInv, Open, SuccessComplete
<1>4. QueueInv'
  BY <1>1, ElementOfSeq, LenProperties DEF QueueInv, TypeOK
<1>5. ResultInv'
  BY <1>1 DEF ResultInv
<1>6. CountsExact'
  BY <1>2 DEF CountsExact
<1>7. SpawnInv'
  BY <1>0, <1>1, MainNotNode DEF SpawnInv
<1>8. MainInv'
  BY <1>0, <1>2, MainNotNode DEF MainInv
<1> QED BY <1>3, <1>4, <1>5, <1>6, <1>7, <1>8 DEF Parts

\* The caller posts the request.
LEMMA CallerPostStep ==
    ASSUME IndInv, CallerPost
    PROVE  Parts'
<1> USE DEF IndInv, CallerPost, schedVars
<1>0. /\ pc \in [Coro -> Labels] /\ pc[Main] = "none"
      /\ pc' = pc \/ pc' = [pc EXCEPT ![Main] = "start"]
  BY DEF TypeOK, MainInv
<1>1. \A n \in Node : pc'[n] = pc[n]
  BY <1>0, MainNotNode
<1>2. Active' = Active /\ Uncompleted' = Uncompleted
  BY <1>1 DEF Active, Uncompleted
<1>3. DepsInv' /\ SuccessComplete'
  BY DEF DepsInv, Open, SuccessComplete
<1>4. QueueInv'
  BY <1>1, ElementOfSeq, LenProperties DEF QueueInv, TypeOK
<1>5. ResultInv'
  BY <1>1 DEF ResultInv
<1>6. CountsExact'
  BY <1>2 DEF CountsExact
<1>7. SpawnInv'
  BY <1>0, MainNotNode DEF SpawnInv
<1>8. MainInv'
  BY <1>0, <1>2, MainNotNode DEF MainInv
<1> QED BY <1>3, <1>4, <1>5, <1>6, <1>7, <1>8 DEF Parts

\* Steps of the environment, of the waiting caller, and stuttering.
LEMMA OtherStep ==
    ASSUME IndInv,
           \/ CallerCheck \/ CallerSpuriousWake
           \/ DeadlinePasses \/ LoopStopping \/ LoopStopped
           \/ UNCHANGED vars
    PROVE  Parts'
<1>1. /\ UNCHANGED <<plan, deps_remaining, results, ready_queue, inflight_count>>
      /\ UNCHANGED <<nodes_remaining, first_error, main_coro, pc, resumes, outcome>>
      /\ caller' \in {"call", "refused"} => caller' = caller
  BY DEF CallerCheck, CallerSpuriousWake, DeadlinePasses, LoopStopping, LoopStopped,
         vars, schedVars
<1>2. Active' = Active /\ Uncompleted' = Uncompleted /\ Open' = Open
  BY <1>1 DEF Active, Uncompleted, Open
<1> QED BY <1>1, <1>2
        DEF IndInv, Parts, DepsInv, QueueInv, ResultInv, CountsExact, SpawnInv,
            MainInv, SuccessComplete

-----------------------------------------------------------------------------
\* The invariant is kept by every step.
LEMMA NextIndInv == IndInv /\ [Next]_vars => IndInv'
<1> SUFFICES ASSUME IndInv, [Next]_vars PROVE IndInv'
  OBVIOUS
<1>1. TypeOK'
  BY NextTypeOK DEF IndInv
<1>2. ASSUME NEW c \in Coro, Spawning(c) PROVE Parts'
  BY <1>2, SpawnEnterStep, SpawnNextStep, SpawnLeaveStep DEF Spawning
<1>3. ASSUME NEW n \in Node, NodeStep(n) PROVE Parts'
  <2>1. CASE NodeFails(n)
    BY <2>1, FailStep DEF NodeFails
  <2>2. CASE NodeCompletes(n)
    BY <2>2, WakeStep DEF NodeCompletes
  <2>3. CASE NodeResumesOk(n)
    BY <2>3, WakeStep DEF NodeResumesOk
  <2>4. CASE NodeResumesFailed(n)
    BY <2>4, FailStep DEF NodeResumesFailed
  <2> QED BY <1>3, <2>1, <2>2, <2>3, <2>4, NodeMovesStep, NodeExitStep DEF NodeStep
<1>4. ASSUME MainStep PROVE Parts'
  BY <1>4, MainStartStep, MainAwaitStep, MainResumeStep, MainCollectStep, FinalStep
     DEF MainStep
<1>5. Parts'
  BY <1>2, <1>3, <1>4, CallerPostStep, OtherStep DEF Next, CallerStep
<1> QED BY <1>1, <1>5 DEF IndInv, Parts

\* The inductive invariant holds in every reachable state.
THEOREM Invariance == Spec => []IndInv
<1>1. Init => IndInv
  BY InitTypeOK, InitParts DEF IndInv, Parts
<1> QED BY <1>1, NextIndInv, PTL DEF Spec

\* run_node_async never dereferences an empty result: when a node's body begins,
\* all its inputs and NodeRefs have one.
THEOREM InputsArePresent == Spec => []InputsPresent
<1>1. IndInv => InputsPresent
  <2> SUFFICES ASSUME IndInv, NEW n \in Node, pc[n] = "start",
                      NEW k \in DOMAIN DepsOf(plan, n)
               PROVE  results[DepsOf(plan, n)[k]]
    BY DEF InputsPresent
  <2>1. Slots(plan, n, Open) = {}
    BY CountdownOver DEF IndInv, QueueInv
  <2>2. DepsOf(plan, n)[k] \in Node
    BY DepsOfType, LenProperties, ElementOfSeq DEF IndInv, TypeOK
  <2> QED BY <2>1, <2>2 DEF Slots, Open
<1> QED BY <1>1, Invariance, PTL

\* The counters of AsyncSchedulerState are exact in every state.
THEOREM CountsAreExact == Spec => []CountsExact
<1>1. IndInv => CountsExact
  BY DEF IndInv
<1> QED BY <1>1, Invariance, PTL

\* The main coroutine never destroys the state of a node that is still running
\* or suspended, and is never resumed twice.
THEOREM StateIsOutlived == Spec => []StateOutlivesNodes
<1>1. IndInv => StateOutlivesNodes
  BY DEF IndInv, MainInv, StateOutlivesNodes
<1> QED BY <1>1, Invariance, PTL

\* An execution that returns without an error has computed every node.
THEOREM SuccessIsComplete == Spec => []SuccessComplete
<1>1. IndInv => SuccessComplete
  BY DEF IndInv
<1> QED BY <1>1, Invariance, PTL

-----------------------------------------------------------------------------
(***************************************************************************)
(* What a step may never do.                                               *)
(***************************************************************************)

\* How a step can change the position of a node's coroutine: it is created from
\* the head of the queue while there is no error, or it exists and moves to a
\* later position.
LEMMA NodeMoves ==
    ASSUME IndInv, [Next]_vars, NEW n \in Node
    PROVE  \/ pc'[n] = pc[n]
           \/ pc[n] = "none" /\ pc'[n] = "start" /\ first_error = "none"
           \/ pc[n] # "none" /\ pc'[n] \notin {"none", "start"}
<1> USE DEF IndInv
<1>0. pc \in [Coro -> Labels]
  BY DEF TypeOK
<1>1. ASSUME NEW c \in Coro, SpawnNext(c)
      PROVE  pc'[n] = pc[n] \/ (pc[n] = "none" /\ pc'[n] = "start" /\ first_error = "none")
  <2> DEFINE h == Head(ready_queue)
  <2>1. h \in Node /\ h = ready_queue[1] /\ 1 \in DOMAIN ready_queue
    BY <1>1, HeadTailProperties, LenProperties, EmptySeq DEF TypeOK, SpawnNext
  <2>2. pc[h] = "none"
    BY <2>1 DEF QueueInv
  <2> QED BY <1>0, <1>1, <2>1, <2>2, MainNotNode DEF SpawnNext
<1>2. ASSUME NEW c \in Coro, SpawnEnter(c) \/ SpawnLeave(c)
      PROVE  pc'[n] = pc[n] \/ (pc[n] # "none" /\ pc'[n] \notin {"none", "start"})
  BY <1>0, <1>2, MainNotNode DEF SpawnEnter, SpawnLeave
<1>3. ASSUME NEW m \in Node, NodeStep(m)
      PROVE  pc'[n] = pc[n] \/ (pc[n] # "none" /\ pc'[n] \notin {"none", "start"})
  BY <1>0, <1>3, MainNotNode
     DEF NodeStep, NodeFails, NodeCompletes, NodeSuspends, NodeResumesOk,
         NodeResumesFailed, NodeSpawned, NodeExit, StoreAndWake, RecordFailure
<1>4. ASSUME MainStep \/ CallerStep PROVE pc'[n] = pc[n]
  BY <1>0, <1>4, MainNotNode
     DEF MainStep, MainStart, MainAwait, MainResume, MainCollect, FinalSignal,
         FinalNotify, CallerStep, CallerPost, CallerCheck
<1>5. ASSUME \/ CallerSpuriousWake \/ DeadlinePasses \/ LoopStopping \/ LoopStopped
             \/ UNCHANGED vars
      PROVE  pc' = pc
  BY <1>5 DEF CallerSpuriousWake, DeadlinePasses, LoopStopping, LoopStopped, vars
<1> QED BY <1>1, <1>2, <1>3, <1>4, <1>5 DEF Next, Spawning

\* Fail-fast: after the first error no node coroutine is created.
THEOREM FailFast == Spec => NoSpawnAfterError
<1>1. IndInv /\ [Next]_vars =>
        [first_error # "none" => \A n \in Node : pc[n] = "none" => pc'[n] = "none"]_vars
  BY NodeMoves
<1> QED BY <1>1, Invariance, PTL DEF Spec, NoSpawnAfterError

\* No node coroutine is created twice.
THEOREM EachStartsOnce == Spec => StartsOnce
<1>1. IndInv /\ [Next]_vars =>
        [\A n \in Node : pc'[n] = "start" => pc[n] \in {"none", "start"}]_vars
  <2> SUFFICES ASSUME IndInv, [Next]_vars, NEW n \in Node, pc'[n] = "start"
               PROVE  pc[n] \in {"none", "start"}
    OBVIOUS
  <2> QED BY NodeMoves
<1> QED BY <1>1, Invariance, PTL DEF Spec, StartsOnce

-----------------------------------------------------------------------------
(***************************************************************************)
(* The scheduler implements DagExecution.                                  *)
(***************************************************************************)

\* The abstract status of every node, read off its coroutine.
StatusMap == [n \in Node |-> Status(n)]
ParentMap == [n \in Node |-> Elems(DepsOf(plan, n))]

\* A step that leaves results alone and every coroutine in its phase leaves the
\* abstract status alone.
LEMMA SameStatus ==
    ASSUME results' = results,
           \A n \in Node :
              \/ pc'[n] = pc[n]
              \/ results[n]
              \/ /\ pc[n] \in {"start", "suspended"}
                 /\ pc'[n] \in {"start", "suspended"}
              \/ pc[n] \in {"exit", "done"} /\ pc'[n] \in {"exit", "done"}
    PROVE  StatusMap' = StatusMap
<1> SUFFICES ASSUME NEW n \in Node PROVE Status(n)' = Status(n)
  BY DEF StatusMap
<1> QED BY DEF Status

\* The initial states of the scheduler are initial states of DagExecution.
LEMMA InitRefines == Init => Promise!AInit
<1> SUFFICES ASSUME Init PROVE Promise!AInit
  OBVIOUS
<1>1. plan \in Plans
  BY DEF Init
<1>2. \A n \in Node : Elems(DepsOf(plan, n)) \in SUBSET Node
  BY <1>1, DepsOfType, LenProperties, ElementOfSeq DEF Elems
<1>3. \A n \in Node : Status(n) = "pending"
  <2>1. \A n \in Node : pc[n] = "none" /\ ~results[n]
    BY MainNotNode DEF Init, InitScheduler
  <2> QED BY <2>1 DEF Status
<1> QED BY <1>2, <1>3 DEF Promise!AInit, Init, InitScheduler

\* The variables of DagExecution are unchanged when their images are.
LEMMA Stutter ==
    ASSUME plan' = plan, StatusMap' = StatusMap, outcome' = outcome,
           first_error' = first_error
    PROVE  UNCHANGED Promise!avars
BY DEF Promise!avars, StatusMap

\* Creating a node's coroutine is Begin.
LEMMA SpawnNextRefines ==
    ASSUME IndInv, NEW c \in Coro, SpawnNext(c)
    PROVE  Promise!ANext
<1> USE DEF IndInv
<1>1. PICK h \in Node : h = Head(ready_queue) /\ h = ready_queue[1] /\ 1 \in DOMAIN ready_queue
  BY HeadTailProperties, LenProperties, EmptySeq DEF TypeOK, SpawnNext
<1>0. /\ pc \in [Coro -> Labels] /\ pc[c] = "spawning"
      /\ pc' = [pc EXCEPT ![h] = "start"] /\ results' = results /\ plan' = plan
      /\ outcome' = outcome /\ first_error' = first_error /\ first_error = "none"
  BY <1>1 DEF TypeOK, SpawnNext
<1>2. pc[h] = "none" /\ deps_remaining[h] = 0 /\ ~results[h] /\ pc'[h] = "start"
  BY <1>0, <1>1, MainNotNode DEF QueueInv, ResultInv
<1>3. outcome = "none"
  <2>1. c = Main \/ c \in Active
    BY <1>0 DEF Active, Coro
  <2> QED BY <1>0, <2>1 DEF MainInv
<1>4. Status(h) = "pending" /\ Status(h)' = "running"
  BY <1>0, <1>2 DEF Status
<1>5. \A m \in Elems(DepsOf(plan, h)) : m \in Node /\ Status(m) = "ok"
  <2> SUFFICES ASSUME NEW k \in DOMAIN DepsOf(plan, h)
               PROVE  DepsOf(plan, h)[k] \in Node /\ Status(DepsOf(plan, h)[k]) = "ok"
    BY DEF Elems
  <2>1. DepsOf(plan, h)[k] \in Node
    BY <1>1, DepsOfType, LenProperties, ElementOfSeq DEF TypeOK
  <2>2. Slots(plan, h, Open) = {}
    BY <1>1, <1>2, CountdownOver
  <2>3. results[DepsOf(plan, h)[k]]
    BY <2>1, <2>2 DEF Slots, Open
  <2> QED BY <2>1, <2>3 DEF Status
<1>6. StatusMap' = [StatusMap EXCEPT ![h] = "running"]
  <2>1. \A m \in Node : m # h => Status(m)' = Status(m)
    BY <1>0, <1>1, MainNotNode DEF Status
  <2> QED BY <1>1, <1>4, <2>1 DEF StatusMap
<1>7. Promise!Begin(h)
  BY <1>0, <1>1, <1>3, <1>4, <1>5, <1>6 DEF Promise!Begin, StatusMap
<1> QED BY <1>0, <1>1, <1>7 DEF Promise!ANext

\* A node's success is Succeed.
LEMMA WakeRefines ==
    ASSUME IndInv, NEW n \in Node, pc[n] \in {"start", "suspended"}, StoreAndWake(n),
           UNCHANGED <<plan, outcome>>
    PROVE  Promise!ANext
<1> USE DEF IndInv
<1>0. /\ pc \in [Coro -> Labels] /\ pc' = [pc EXCEPT ![n] = "spawn_enter"]
      /\ results \in [Node -> BOOLEAN] /\ results' = [results EXCEPT ![n] = TRUE]
      /\ first_error' = first_error
  BY DEF TypeOK, StoreAndWake
<1>1. ~results[n]
  BY DEF ResultInv
<1>2. Status(n) = "running" /\ Status(n)' = "ok"
  BY <1>0, <1>1 DEF Status
<1>3. \A m \in Node : m # n => Status(m)' = Status(m)
  BY <1>0, MainNotNode DEF Status
<1>4. StatusMap' = [StatusMap EXCEPT ![n] = "ok"]
  BY <1>2, <1>3 DEF StatusMap
<1>5. Promise!Succeed(n)
  BY <1>0, <1>2, <1>4 DEF Promise!Succeed, StatusMap
<1> QED BY <1>5 DEF Promise!ANext

\* A node's failure is Fail.
LEMMA FailRefines ==
    ASSUME IndInv, NEW n \in Node, pc[n] \in {"start", "suspended"}, RecordFailure(n),
           UNCHANGED <<plan, outcome>>
    PROVE  Promise!ANext
<1> USE DEF IndInv
<1>0. /\ pc \in [Coro -> Labels] /\ pc' = [pc EXCEPT ![n] = "exit"]
      /\ results' = results /\ first_error' # "none"
  BY DEF TypeOK, RecordFailure
<1>1. ~results[n]
  BY DEF ResultInv
<1>2. Status(n) = "running" /\ Status(n)' = "failed"
  BY <1>0, <1>1, MainNotNode DEF Status
<1>3. \A m \in Node : m # n => Status(m)' = Status(m)
  BY <1>0, MainNotNode DEF Status
<1>4. StatusMap' = [StatusMap EXCEPT ![n] = "failed"]
  BY <1>2, <1>3 DEF StatusMap
<1>5. Promise!Fail(n)
  BY <1>0, <1>2, <1>4 DEF Promise!Fail, StatusMap
<1> QED BY <1>5 DEF Promise!ANext

\* Reading the outputs, or throwing, is End.
LEMMA CollectRefines ==
    ASSUME IndInv, MainCollect
    PROVE  Promise!ANext
<1> USE DEF IndInv
<1>0. /\ pc \in [Coro -> Labels] /\ pc' = [pc EXCEPT ![Main] = "final"]
      /\ pc[Main] = "collect" /\ results' = results /\ plan' = plan
      /\ first_error' = first_error
  BY DEF TypeOK, MainCollect, schedVars
<1>1. outcome = "none" /\ Active = {}
  BY <1>0 DEF MainInv
<1>2. \A n \in Node : pc'[n] = pc[n]
  BY <1>0, MainNotNode
<1>3. StatusMap' = StatusMap
  BY <1>0, <1>2, SameStatus
<1>4. \A n \in Node : Status(n) # "running"
  BY <1>1 DEF Active, Status
<1>5. first_error = "none" => \A n \in Node : Status(n) = "ok"
  BY <1>0, AllResults DEF Status
<1>6. Promise!End
  BY <1>0, <1>1, <1>3, <1>4, <1>5 DEF Promise!End, StatusMap, MainCollect
<1> QED BY <1>0, <1>6 DEF Promise!ANext

\* The deadline check of spawn_ready_nodes is Abort, or nothing.
LEMMA SpawnEnterRefines ==
    ASSUME IndInv, NEW c \in Coro, SpawnEnter(c)
    PROVE  Promise!ANext \/ UNCHANGED Promise!avars
<1> USE DEF IndInv
<1>0. /\ pc \in [Coro -> Labels] /\ pc[c] = "spawn_enter"
      /\ pc' = [pc EXCEPT ![c] = "spawned"] \/ pc' = [pc EXCEPT ![c] = "spawning"]
      /\ results' = results /\ plan' = plan /\ outcome' = outcome
      /\ first_error' = first_error \/ first_error' # "none"
  BY DEF TypeOK, SpawnEnter
<1>1. StatusMap' = StatusMap
  BY <1>0, SameStatus, MainNotNode DEF ResultInv
<1>2. CASE first_error' = first_error
  BY <1>0, <1>1, <1>2, Stutter
<1>3. CASE first_error' # "none"
  <2>1. outcome = "none"
    <3>1. c = Main \/ c \in Active
      BY <1>0 DEF Active, Coro
    <3> QED BY <1>0, <3>1 DEF MainInv
  <2>2. Promise!Abort
    BY <1>0, <1>1, <1>3, <2>1 DEF Promise!Abort, StatusMap
  <2> QED BY <1>0, <2>2 DEF Promise!ANext
<1> QED BY <1>0, <1>2, <1>3

\* Every step of the scheduler is a step of DagExecution or changes none of its
\* variables.
LEMMA NextRefines ==
    IndInv /\ [Next]_vars => [Promise!ANext]_(Promise!avars)
<1> SUFFICES ASSUME IndInv, [Next]_vars
             PROVE  Promise!ANext \/ UNCHANGED Promise!avars
  OBVIOUS
<1> USE DEF IndInv
<1>0. pc \in [Coro -> Labels]
  BY DEF TypeOK
<1>1. ASSUME NEW c \in Coro, SpawnLeave(c) PROVE UNCHANGED Promise!avars
  <2>1. StatusMap' = StatusMap
    BY <1>0, <1>1, SameStatus, MainNotNode DEF SpawnLeave, schedVars, ResultInv
  <2> QED BY <1>1, <2>1, Stutter DEF SpawnLeave, schedVars
<1>2. ASSUME NEW c \in Coro, Spawning(c)
      PROVE  Promise!ANext \/ UNCHANGED Promise!avars
  BY <1>1, <1>2, SpawnEnterRefines, SpawnNextRefines DEF Spawning
<1>3. ASSUME NEW n \in Node, NodeStep(n)
      PROVE  Promise!ANext \/ UNCHANGED Promise!avars
  <2>1. CASE NodeFails(n)
    BY <2>1, FailRefines DEF NodeFails
  <2>2. CASE NodeCompletes(n)
    BY <2>2, WakeRefines DEF NodeCompletes
  <2>3. CASE NodeResumesOk(n)
    BY <2>3, WakeRefines DEF NodeResumesOk
  <2>4. CASE NodeResumesFailed(n)
    BY <2>4, FailRefines DEF NodeResumesFailed
  <2>5. CASE NodeSuspends(n) \/ NodeSpawned(n) \/ NodeExit(n)
    <3>1. StatusMap' = StatusMap
      BY <1>0, <2>5, SameStatus, MainNotNode
         DEF NodeSuspends, NodeSpawned, NodeExit, schedVars, ResultInv
    <3> QED BY <2>5, <3>1, Stutter DEF NodeSuspends, NodeSpawned, NodeExit, schedVars
  <2> QED BY <1>3, <2>1, <2>2, <2>3, <2>4, <2>5 DEF NodeStep
<1>4. ASSUME \/ MainStart \/ MainAwait \/ MainResume \/ FinalSignal \/ FinalNotify
             \/ CallerPost
      PROVE  UNCHANGED Promise!avars
  <2>1. \A n \in Node : pc'[n] = pc[n]
    BY <1>0, <1>4, MainNotNode
       DEF MainStart, MainAwait, MainResume, FinalSignal, FinalNotify, CallerPost
  <2>2. results' = results /\ plan' = plan /\ outcome' = outcome /\ first_error' = first_error
    BY <1>4 DEF MainStart, MainAwait, MainResume, FinalSignal, FinalNotify, CallerPost,
                schedVars
  <2> QED BY <2>1, <2>2, SameStatus, Stutter
<1>5. ASSUME \/ CallerCheck \/ CallerSpuriousWake \/ DeadlinePasses \/ LoopStopping
             \/ LoopStopped \/ UNCHANGED vars
      PROVE  UNCHANGED Promise!avars
  <2>1. /\ pc' = pc /\ results' = results /\ plan' = plan /\ outcome' = outcome
        /\ first_error' = first_error
    BY <1>5 DEF CallerCheck, CallerSpuriousWake, DeadlinePasses, LoopStopping,
                LoopStopped, vars, schedVars
  <2> QED BY <2>1, SameStatus, Stutter
<1> QED BY <1>2, <1>3, <1>4, <1>5, CollectRefines DEF Next, MainStep, CallerStep

\* The asynchronous scheduler implements DagExecution: nodes begin only after
\* their parents and before any error, and the verdict is "ok" only when every
\* node has succeeded.
THEOREM Refinement == Spec => ImplementsDagExecution
<1> QED BY InitRefines, NextRefines, Invariance, PTL
        DEF Spec, ImplementsDagExecution, Promise!ASpec

-----------------------------------------------------------------------------
(***************************************************************************)
(* The loop under the scheduler: module EventLoop on its own, for any      *)
(* number of threads that call Start, Stop and Post, and for any           *)
(* callbacks.                                                              *)
(*                                                                         *)
(* Two things move through the loop and neither may be lost or doubled:    *)
(* the callbacks that Post took, which are in the queue or in the local    *)
(* queue of a DrainQueue until they run (PlaceInv), and the one DoStop,    *)
(* which is with the thread that won Stop's compare-exchange, then in a    *)
(* queue, then an activation, then done (TokenInv).                        *)
(***************************************************************************)

Item == Posts \cup {DoStopCb}
FrameRec == [cbs : Seq(Item), kind : FrameKinds]

-----------------------------------------------------------------------------
(***************************************************************************)
(* What the queue q and the frames fr hold.                                *)
(***************************************************************************)
InSeq(x, s) == \E i \in 1..Len(s) : s[i] = x
NoDup(s) == \A i, j \in 1..Len(s) : s[i] = s[j] => i = j

Held(x, q, fr) == InSeq(x, q) \/ \E k \in 1..Len(fr) : InSeq(x, fr[k].cbs)

Apart(s, t) == \A i \in 1..Len(s), j \in 1..Len(t) : s[i] # t[j]

\* No callback is held twice.
Distinct(q, fr) ==
    /\ NoDup(q)
    /\ \A k \in 1..Len(fr) : NoDup(fr[k].cbs) /\ Apart(q, fr[k].cbs)
    /\ \A k, l \in 1..Len(fr) : k # l => Apart(fr[k].cbs, fr[l].cbs)

-----------------------------------------------------------------------------
(***************************************************************************)
(* The inductive invariant.                                                *)
(***************************************************************************)

\* Until the thread exists one starter is under way, if any, and nothing has been
\* posted; then no start can fail any more.
StartInv ==
    /\ \A s \in Starters : start[s] \in {"init", "spawn"} =>
          /\ lt = "none" /\ state \in {"Starting", "Stopping"}
          /\ \A t \in Starters : start[t] \in {"init", "spawn"} => t = s
    /\ lt = "none" => state \in {"Idle", "Starting", "Stopping"} /\ queue = <<>>
    /\ lt = "begin" => state \in {"Starting", "Stopping"} /\ queue = <<>>
    /\ lt \notin {"none", "begin"} => state \in {"Running", "Stopping", "Stopped"}

\* A callback is held exactly while Post has taken it and it has not run; the loop
\* thread posts Echo once.
PlaceInv ==
    /\ Distinct(queue, frames)
    /\ \A c \in Posts : Held(c, queue, frames) <=> Taken(c) /\ ran[c] = 0
    /\ \A c \in Posts : ran[c] > 0 => Taken(c)
    /\ \A c \in Callback : Kind[c] = "post" /\ ran[c] = 0 => post[Echo] = "idle"

StopOpen(fr) == \E k \in 1..Len(fr) : fr[k].kind # "async"

\* At most one DoStop, wherever it is, and the loop no longer runs when there is
\* one.  From its activation on the queue stays empty.
TokenInv ==
    /\ \A s, t \in Stopping : stop[s] = "push" /\ stop[t] = "push" => s = t
    /\ (\E s \in Stopping : stop[s] = "push") =>
          ~Held(DoStopCb, queue, frames) /\ ~StopOpen(frames) /\ stops = 0
    /\ Held(DoStopCb, queue, frames) => ~StopOpen(frames) /\ stops = 0
    /\ StopOpen(frames) => stops = 0
    /\ \/ \E s \in Stopping : stop[s] = "push"
       \/ Held(DoStopCb, queue, frames)
       \/ StopOpen(frames)
       \/ stops > 0
       => state \in {"Stopping", "Stopped"} /\ lt \notin {"none", "begin"}
    /\ StopOpen(frames) \/ stops > 0 => queue = <<>>
    /\ stops \in {0, 1} /\ (stop_flag <=> stops = 1)

\* Where the loop thread is, by its activations of DrainQueue.
ThreadInv ==
    /\ lt # "busy" => frames = <<>>
    /\ lt = "busy" =>
          \/ Len(frames) = 1 /\ frames[1].kind \in {"async", "init"}
          \/ Len(frames) = 2 /\ frames[1].kind = "async" /\ frames[2].kind # "async"
    /\ lt \in {"leaving", "exited"} => stops = 1
    /\ exited <=> lt = "exited"

\* No Start is under way in the destructor, and its own Stop has ended the loop or
\* found none.
DtorInv ==
    /\ stop[Owner] # "idle" => dtor # "none"
    /\ dtor # "none" =>
          /\ \A s \in Starters : start[s] \in {"idle", "returned", "failed"}
          /\ stop[Owner] # "idle" => state \in {"Idle", "Stopping", "Stopped"}
    /\ dtor \in {"join", "destroyed"} => lt \in {"none", "exited"}

IInv == LoopTypeOK /\ StartInv /\ PlaceInv /\ TokenInv /\ ThreadInv /\ DtorInv

-----------------------------------------------------------------------------
(***************************************************************************)
(* The operations on queue and frames: push, swap into a new frame, take   *)
(* the head of the innermost frame, leave an empty frame.                  *)
(***************************************************************************)
LEMMA EmptyFacts ==
    /\ NoDup(<<>>) /\ \A x : ~InSeq(x, <<>>)
    /\ \A s : Apart(<<>>, s) /\ Apart(s, <<>>)
BY DEF NoDup, InSeq, Apart

LEMMA AppendFacts ==
    ASSUME NEW S, NEW s \in Seq(S), NEW x \in S, ~InSeq(x, s)
    PROVE  /\ NoDup(s) => NoDup(Append(s, x))
           /\ \A y : InSeq(y, Append(s, x)) <=> InSeq(y, s) \/ y = x
<1>1. /\ Len(Append(s, x)) = Len(s) + 1 /\ Len(s) \in Nat
      /\ Append(s, x)[Len(s) + 1] = x
      /\ \A i \in 1..Len(s) : Append(s, x)[i] = s[i]
  OBVIOUS
<1>2. \A i \in 1..(Len(s) + 1) : i \in 1..Len(s) \/ i = Len(s) + 1
  BY <1>1
<1> QED BY <1>1, <1>2 DEF NoDup, InSeq

LEMMA TailFacts ==
    ASSUME NEW S, NEW s \in Seq(S), s # <<>>, NoDup(s)
    PROVE  /\ NoDup(Tail(s))
           /\ \A y : InSeq(y, Tail(s)) <=> InSeq(y, s) /\ y # Head(s)
           /\ InSeq(Head(s), s)
<1>1. /\ Len(Tail(s)) = Len(s) - 1 /\ Len(s) \in Nat /\ Len(s) > 0 /\ Head(s) = s[1]
      /\ \A i \in 1..(Len(s) - 1) : Tail(s)[i] = s[i + 1]
  BY EmptySeq
<1>2. \A i \in 1..(Len(s) - 1) : i + 1 \in 2..Len(s) /\ i + 1 \in 1..Len(s)
  BY <1>1
<1>3. \A i \in 1..Len(s) : i = 1 \/ (i - 1 \in 1..(Len(s) - 1) /\ (i - 1) + 1 = i)
  BY <1>1
<1>4. NoDup(Tail(s))
  BY <1>1, <1>2 DEF NoDup
<1>5. \A y : InSeq(y, Tail(s)) => InSeq(y, s) /\ y # Head(s)
  BY <1>1, <1>2 DEF NoDup, InSeq
<1>6. \A y : InSeq(y, s) /\ y # Head(s) => InSeq(y, Tail(s))
  <2> SUFFICES ASSUME NEW y, InSeq(y, s), y # Head(s) PROVE InSeq(y, Tail(s))
    OBVIOUS
  <2>1. PICK i \in 1..Len(s) : s[i] = y
    BY DEF InSeq
  <2>2. i - 1 \in 1..(Len(s) - 1) /\ Tail(s)[i - 1] = y
    BY <1>1, <1>3, <2>1
  <2> QED BY <1>1, <2>2 DEF InSeq
<1>7. InSeq(Head(s), s)
  BY <1>1 DEF InSeq
<1> QED BY <1>4, <1>5, <1>6, <1>7

LEMMA ApartFacts ==
    ASSUME NEW s, NEW t
    PROVE  Apart(s, t) <=> \A x : ~(InSeq(x, s) /\ InSeq(x, t))
BY DEF Apart, InSeq

\* Post and Stop push a callback.
LEMMA PushHeld ==
    ASSUME NEW q \in Seq(Item), NEW fr \in Seq(FrameRec), NEW x \in Item,
           Distinct(q, fr), ~Held(x, q, fr)
    PROVE  /\ Distinct(Append(q, x), fr)
           /\ \A y : Held(y, Append(q, x), fr) <=> Held(y, q, fr) \/ y = x
<1>1. /\ NoDup(Append(q, x))
      /\ \A y : InSeq(y, Append(q, x)) <=> InSeq(y, q) \/ y = x
  BY AppendFacts DEF Held, Distinct
<1>2. \A k \in 1..Len(fr) : Apart(Append(q, x), fr[k].cbs)
  BY <1>1, ApartFacts DEF Distinct, Held
<1> QED BY <1>1, <1>2 DEF Distinct, Held

\* DrainQueue swaps the queue into a local one.
LEMMA SwapHeld ==
    ASSUME NEW q \in Seq(Item), NEW fr \in Seq(FrameRec), NEW kind \in FrameKinds,
           Distinct(q, fr)
    PROVE  LET new == [cbs |-> q, kind |-> kind]
           IN  /\ new \in FrameRec
               /\ Append(fr, new) \in Seq(FrameRec)
               /\ Distinct(<<>>, Append(fr, new))
               /\ \A y : Held(y, <<>>, Append(fr, new)) <=> Held(y, q, fr)
<1> DEFINE new == [cbs |-> q, kind |-> kind]
           fs == Append(fr, new)
<1>1. new \in FrameRec /\ new.cbs = q
  BY DEF FrameRec
<1> HIDE DEF new
<1>2. /\ fs \in Seq(FrameRec) /\ Len(fr) \in Nat /\ Len(fs) = Len(fr) + 1
      /\ fs[Len(fr) + 1] = new /\ \A k \in 1..Len(fr) : fs[k] = fr[k]
  BY <1>1
<1>3. \A k \in 1..Len(fs) : k \in 1..Len(fr) \/ k = Len(fr) + 1
  BY <1>2
<1>4. 1..Len(fr) \subseteq 1..Len(fs) /\ Len(fr) + 1 \in 1..Len(fs)
  BY <1>2
<1> HIDE DEF fs
<1>5. \A k \in 1..Len(fs) : NoDup(fs[k].cbs) /\ Apart(<<>>, fs[k].cbs)
  BY <1>1, <1>2, <1>3, EmptyFacts DEF Distinct
<1>6. \A k, l \in 1..Len(fs) : k # l => Apart(fs[k].cbs, fs[l].cbs)
  BY <1>1, <1>2, <1>3, ApartFacts DEF Distinct
<1>7. \A y : Held(y, <<>>, fs) <=> Held(y, q, fr)
  <2>1. ASSUME NEW y, Held(y, <<>>, fs) PROVE Held(y, q, fr)
    BY <1>1, <1>2, <1>3, <2>1, EmptyFacts DEF Held
  <2>2. ASSUME NEW y, Held(y, q, fr) PROVE Held(y, <<>>, fs)
    BY <1>1, <1>2, <1>4, <2>2 DEF Held
  <2> QED BY <2>1, <2>2
<1> QED BY <1>1, <1>2, <1>5, <1>6, <1>7, EmptyFacts DEF Distinct, fs, new

\* The frames without the innermost one.
LEMMA OuterFacts ==
    ASSUME NEW fr \in Seq(FrameRec), Len(fr) > 0
    PROVE  LET outer == SubSeq(fr, 1, Len(fr) - 1)
           IN  /\ outer \in Seq(FrameRec) /\ Len(outer) = Len(fr) - 1
               /\ \A k \in 1..(Len(fr) - 1) : outer[k] = fr[k]
               /\ fr[Len(fr)] \in FrameRec
<1> DEFINE m == Len(fr) - 1
           outer == SubSeq(fr, 1, m)
<1>1. Len(fr) \in Nat /\ m \in Nat /\ Len(fr) \in 1..Len(fr)
  OBVIOUS
<1>2. \A k \in 1..m : k \in 1..Len(fr)
  BY <1>1
<1>3. \A k \in 1..Len(fr) : fr[k] \in FrameRec
  BY ElementOfSeq
<1> HIDE DEF m
<1>4. /\ outer \in Seq(FrameRec)
      /\ Len(outer) = IF 1 <= m THEN m - 1 + 1 ELSE 0
      /\ \A k \in 1..(m - 1 + 1) : outer[k] = fr[1 + k - 1]
  BY <1>1, <1>2, <1>3, SubSeqProperties
<1> HIDE DEF outer
<1>5. Len(outer) = m /\ \A k \in 1..m : outer[k] = fr[k]
  BY <1>1, <1>4
<1> QED BY <1>1, <1>3, <1>4, <1>5 DEF outer, m

\* DrainQueue takes the next callback.
Popped(fr) ==
    Append(SubSeq(fr, 1, Len(fr) - 1), [fr[Len(fr)] EXCEPT !.cbs = Tail(@)])

LEMMA PopHeld ==
    ASSUME NEW q \in Seq(Item), NEW fr \in Seq(FrameRec), Distinct(q, fr),
           Len(fr) > 0, fr[Len(fr)].cbs # <<>>
    PROVE  LET first == Head(fr[Len(fr)].cbs)
           IN  /\ Popped(fr) \in Seq(FrameRec) /\ Len(Popped(fr)) = Len(fr)
               /\ \A k \in 1..Len(fr) : Popped(fr)[k].kind = fr[k].kind
               /\ Distinct(q, Popped(fr))
               /\ \A y : Held(y, q, Popped(fr)) <=> Held(y, q, fr) /\ y # first
               /\ Held(first, q, fr)
               /\ first \in Item
<1> DEFINE n == Len(fr)
           last == fr[n]
           rest == [last EXCEPT !.cbs = Tail(@)]
           outer == SubSeq(fr, 1, n - 1)
           fs == Append(outer, rest)
<1>1. /\ outer \in Seq(FrameRec) /\ Len(outer) = n - 1
      /\ \A k \in 1..(n - 1) : outer[k] = fr[k]
      /\ last \in FrameRec /\ n \in Nat /\ n > 0
  BY OuterFacts
<1>2. last.cbs \in Seq(Item) /\ last.cbs # <<>> /\ NoDup(last.cbs) /\ n \in 1..n
  BY <1>1 DEF FrameRec, Distinct
<1>3. rest \in FrameRec /\ rest.cbs = Tail(last.cbs) /\ rest.kind = last.kind
  <2>1. Tail(last.cbs) \in Seq(Item)
    BY <1>2, HeadTailProperties
  <2> HIDE DEF last
  <2> QED BY <1>1, <2>1 DEF FrameRec
<1>4. /\ NoDup(Tail(last.cbs)) /\ InSeq(Head(last.cbs), last.cbs)
      /\ \A y : InSeq(y, Tail(last.cbs)) <=> InSeq(y, last.cbs) /\ y # Head(last.cbs)
  BY <1>2, TailFacts
<1>5. Head(last.cbs) \in Item
  BY <1>2
<1> HIDE DEF rest, outer
<1>6. fs \in Seq(FrameRec) /\ Len(fs) = n /\ fs[n] = rest
      /\ \A k \in 1..(n - 1) : fs[k] = fr[k]
  BY <1>1, <1>3
<1>7. \A k \in 1..n : k = n \/ k \in 1..(n - 1)
  BY <1>1
<1>8. \A k \in 1..n : fs[k].kind = fr[k].kind
  BY <1>3, <1>6, <1>7
<1> HIDE DEF fs, last
<1>9. \A k \in 1..n : /\ NoDup(fs[k].cbs)
                      /\ \A y : InSeq(y, fs[k].cbs) => InSeq(y, fr[k].cbs)
  BY <1>3, <1>4, <1>6, <1>7 DEF Distinct, last
<1>10. Distinct(q, fs)
  BY <1>6, <1>9, ApartFacts DEF Distinct
<1>11. Held(Head(last.cbs), q, fr)
  BY <1>2, <1>4 DEF Held, last
<1>12. \A y : Held(y, q, fs) => Held(y, q, fr)
  BY <1>6, <1>9 DEF Held
<1>13. ~Held(Head(last.cbs), q, fs)
  <2>1. ~InSeq(Head(last.cbs), q)
    BY <1>2, <1>4, ApartFacts DEF Distinct, last
  <2>2. \A k \in 1..(n - 1) : k \in 1..n /\ k # n
    BY <1>1
  <2>3. \A k \in 1..(n - 1) : ~InSeq(Head(last.cbs), fs[k].cbs)
    BY <1>2, <1>4, <1>6, <2>2, ApartFacts DEF Distinct, last
  <2>4. ~InSeq(Head(last.cbs), fs[n].cbs)
    BY <1>3, <1>4, <1>6
  <2> QED BY <1>6, <1>7, <2>1, <2>3, <2>4 DEF Held
<1>14. \A y : Held(y, q, fr) /\ y # Head(last.cbs) => Held(y, q, fs)
  <2> SUFFICES ASSUME NEW y, Held(y, q, fr), y # Head(last.cbs) PROVE Held(y, q, fs)
    OBVIOUS
  <2>1. \A k \in 1..n : InSeq(y, fr[k].cbs) => InSeq(y, fs[k].cbs)
    BY <1>3, <1>4, <1>6, <1>7 DEF last
  <2> QED BY <1>6, <2>1 DEF Held
<1> QED BY <1>5, <1>6, <1>8, <1>10, <1>11, <1>12, <1>13, <1>14
       DEF Popped, fs, outer, rest, last

\* DrainQueue returns.
LEMMA LeaveHeld ==
    ASSUME NEW q \in Seq(Item), NEW fr \in Seq(FrameRec), Distinct(q, fr),
           Len(fr) > 0, fr[Len(fr)].cbs = <<>>
    PROVE  LET outer == SubSeq(fr, 1, Len(fr) - 1)
           IN  Distinct(q, outer) /\ \A y : Held(y, q, outer) <=> Held(y, q, fr)
<1> DEFINE n == Len(fr)
           outer == SubSeq(fr, 1, n - 1)
<1>1. /\ Len(outer) = n - 1 /\ (\A k \in 1..(n - 1) : outer[k] = fr[k])
      /\ n \in Nat /\ n > 0
  BY OuterFacts
<1> HIDE DEF outer
<1>2. \A k \in 1..n : k = n \/ k \in 1..(n - 1)
  BY <1>1
<1>3. \A k \in 1..(n - 1) : k \in 1..n
  BY <1>1
<1>4. Distinct(q, outer)
  BY <1>1, <1>3 DEF Distinct
<1>5. \A y : Held(y, q, outer) <=> Held(y, q, fr)
  <2>1. ASSUME NEW y, Held(y, q, outer) PROVE Held(y, q, fr)
    BY <1>1, <1>3, <2>1 DEF Held
  <2>2. ASSUME NEW y, Held(y, q, fr) PROVE Held(y, q, outer)
    BY <1>1, <1>2, <2>2, EmptyFacts DEF Held
  <2> QED BY <2>1, <2>2
<1> QED BY <1>4, <1>5 DEF outer

-----------------------------------------------------------------------------
(***************************************************************************)
(* The steps of the loop thread, as operations on queue and frames.        *)
(***************************************************************************)
LEMMA ItemFacts ==
    /\ Posts \subseteq Item /\ DoStopCb \in Item /\ DoStopCb \notin Posts
    /\ Echo \in Posts /\ Callback \subseteq Posts /\ Echo \notin Callback
BY CallbackAssumption DEF Item, Posts

LEMMA HoldTypes ==
    ASSUME LoopTypeOK
    PROVE  queue \in Seq(Item) /\ frames \in Seq(FrameRec) /\ Len(frames) \in Nat
BY DEF LoopTypeOK, Item, FrameRec

\* DrainQueue begins: on an idle thread, and inside DoStop.
LEMMA FrameOpens ==
    ASSUME LoopTypeOK, NEW fr \in Seq(FrameRec), Distinct(queue, fr), NEW kind \in FrameKinds,
           queue' = <<>>, frames' = Append(fr, Frame(kind))
    PROVE  /\ frames' \in Seq(FrameRec) /\ Len(frames') = Len(fr) + 1
           /\ \A k \in 1..Len(fr) : frames'[k] = fr[k]
           /\ frames'[Len(fr) + 1].kind = kind
           /\ Distinct(queue', frames')
           /\ \A y : Held(y, queue', frames') <=> Held(y, queue, fr)
<1> DEFINE new == [cbs |-> queue, kind |-> kind]
<1>1. /\ new \in FrameRec /\ Append(fr, new) \in Seq(FrameRec)
      /\ Distinct(<<>>, Append(fr, new))
      /\ \A y : Held(y, <<>>, Append(fr, new)) <=> Held(y, queue, fr)
  BY HoldTypes, SwapHeld
<1>2. frames' = Append(fr, new) /\ new.kind = kind
  BY DEF Frame
<1> HIDE DEF new
<1> QED BY <1>1, <1>2

\* The next callback c has been taken.
LEMMA NextTaken ==
    ASSUME LoopTypeOK, ThreadInv, Distinct(queue, frames), NEW c, NextIs(c)
    PROVE  /\ Append(Outer, Rest) = Popped(frames)
           /\ Popped(frames) \in Seq(FrameRec) /\ Len(Popped(frames)) = Len(frames) /\ Len(frames) > 0
           /\ \A k \in 1..Len(frames) : Popped(frames)[k].kind = frames[k].kind
           /\ Distinct(queue, Popped(frames))
           /\ \A y : Held(y, queue, Popped(frames)) <=> Held(y, queue, frames) /\ y # c
           /\ Held(c, queue, frames) /\ c \in Item
<1>1. Len(frames) > 0 /\ frames[Len(frames)].cbs # <<>> /\ Head(frames[Len(frames)].cbs) = c
  BY DEF NextIs, ThreadInv, Inner
<1>2. Append(Outer, Rest) = Popped(frames)
  BY DEF Popped, Outer, Rest, Inner
<1> QED BY <1>1, <1>2, HoldTypes, PopHeld

\* DoStop begins inside a callback.
LEMMA NextNests ==
    ASSUME LoopTypeOK, ThreadInv, Distinct(queue, frames), NEW c, NextIs(c),
           NEW kind \in FrameKinds, queue' = <<>>,
           frames' = Outer \o <<Rest, Frame(kind)>>
    PROVE  /\ frames' \in Seq(FrameRec) /\ Len(frames') = Len(frames) + 1
           /\ \A k \in 1..Len(frames) : frames'[k].kind = frames[k].kind
           /\ frames'[Len(frames) + 1].kind = kind
           /\ Distinct(queue', frames')
           /\ \A y : Held(y, queue', frames') <=> Held(y, queue, frames) /\ y # c
           /\ Held(c, queue, frames) /\ c \in Item
<1>1. /\ Append(Outer, Rest) = Popped(frames)
      /\ Popped(frames) \in Seq(FrameRec) /\ Len(Popped(frames)) = Len(frames) /\ Len(frames) > 0
      /\ \A k \in 1..Len(frames) : Popped(frames)[k].kind = frames[k].kind
      /\ Distinct(queue, Popped(frames))
      /\ \A y : Held(y, queue, Popped(frames)) <=> Held(y, queue, frames) /\ y # c
      /\ Held(c, queue, frames) /\ c \in Item
  BY NextTaken
<1>2. frames' = Append(Popped(frames), Frame(kind))
  <2>1. Outer \in Seq(FrameRec)
    BY <1>1, HoldTypes, OuterFacts DEF Outer
  <2>2. Rest \in FrameRec /\ Frame(kind) \in FrameRec
    <3>1. Popped(frames)[Len(frames)] = Rest /\ Len(frames) \in 1..Len(Popped(frames))
      <4>1. Len(Outer) = Len(frames) - 1 /\ Outer \in Seq(FrameRec)
        BY <1>1, HoldTypes, OuterFacts DEF Outer
      <4>2. Append(Outer, Rest)[Len(Outer) + 1] = Rest
        BY <4>1
      <4> QED BY <1>1, <4>1, <4>2, HoldTypes
    <3>2. Frame(kind) \in FrameRec
      BY HoldTypes DEF Frame, FrameRec
    <3>3. \A k \in 1..Len(Popped(frames)) : Popped(frames)[k] \in FrameRec
      BY <1>1, ElementOfSeq
    <3> QED BY <3>1, <3>2, <3>3
  <2>3. Outer \o <<Rest, Frame(kind)>> = Append(Append(Outer, Rest), Frame(kind))
    BY <2>1, <2>2
  <2> QED BY <1>1, <2>3
<1>3. /\ frames' \in Seq(FrameRec) /\ Len(frames') = Len(Popped(frames)) + 1
      /\ \A k \in 1..Len(Popped(frames)) : frames'[k] = Popped(frames)[k]
      /\ frames'[Len(Popped(frames)) + 1].kind = kind
      /\ Distinct(queue', frames')
      /\ \A y : Held(y, queue', frames') <=> Held(y, queue, Popped(frames))
  BY <1>1, <1>2, FrameOpens
<1> QED BY <1>1, <1>3

\* An activation ends.
LEMMA FrameEnds ==
    ASSUME LoopTypeOK, ThreadInv, Distinct(queue, frames), lt = "busy", Inner.cbs = <<>>,
           frames' = Outer, queue' = queue
    PROVE  /\ frames' \in Seq(FrameRec) /\ Len(frames') = Len(frames) - 1
           /\ \A k \in 1..(Len(frames) - 1) : frames'[k] = frames[k]
           /\ Distinct(queue', frames')
           /\ \A y : Held(y, queue', frames') <=> Held(y, queue, frames)
<1>1. Len(frames) > 0 /\ frames[Len(frames)].cbs = <<>>
  BY DEF ThreadInv, Inner
<1> QED BY <1>1, HoldTypes, OuterFacts, LeaveHeld DEF Outer

-----------------------------------------------------------------------------
(***************************************************************************)
(* The invariant is inductive, conjunct by conjunct.                       *)
(***************************************************************************)

\* The steps that leave the queue, the frames and the runs of callbacks alone.
Elsewhere ==
    \/ \E s \in Starters : StartStep(s)
    \/ \E s \in Stopping : StopBegin(s) \/ StopSend(s) \/ StopJoin(s)
    \/ \E c \in Posts : PostBegin(c) \/ PostSend(c)
    \/ LoopReturns \/ LoopExit
    \/ DtorBegin \/ DtorStep

LEMMA NextCases ==
    ASSUME LoopNext
    PROVE  \/ Elsewhere
           \/ \E s \in Stopping : StopPush(s)
           \/ \E c \in Posts : PostPush(c)
           \/ LoopBegin \/ OnAsync
           \/ \E c \in Posts : RunPlain(c) \/ RunPost(c) \/ RunStop(c)
           \/ RunDoStop \/ DrainEnd \/ DoStopEnd
BY DEF LoopNext, Elsewhere, StopStep, PostStep, LoopStep

\* A callback that is about to run has not run.
LEMMA NotRunYet ==
    ASSUME IInv, NEW c \in Posts, NextIs(c)
    PROVE  ran[c] = 0 /\ Taken(c)
BY NextTaken DEF IInv, PlaceInv

LEMMA ElsewhereTypes ==
    ASSUME LoopTypeOK, Elsewhere
    PROVE  LoopTypeOK'
<1>1. /\ queue' = queue /\ frames' = frames /\ ran' = ran /\ stops' = stops
      /\ state \in States
  BY DEF Elsewhere, StartStep, StartBegin, StartInit, StartSpawn, StartAssign, StartSpin,
         StopBegin, StopSend, StopJoin, PostBegin, PostSend, LoopReturns, LoopExit,
         DtorBegin, DtorStep, DtorStopped, DtorWait, DtorJoin, LoopTypeOK
<1>2. CASE \E s \in Starters : StartStep(s)
  BY <1>2 DEF StartStep, StartBegin, StartInit, StartSpawn, StartAssign, StartSpin, LoopTypeOK, States
<1>3. CASE \E s \in Stopping : StopBegin(s) \/ StopSend(s) \/ StopJoin(s)
  <2>1. ASSUME NEW s \in Stopping, StopBegin(s) PROVE LoopTypeOK'
    <3>1. stop' \in [Stopping -> {"idle", "push", "send", "join", "returned"}]
      BY <2>1 DEF StopBegin, LoopTypeOK
    <3>2. state' \in States
      BY <2>1 DEF StopBegin, LoopTypeOK, States
    <3> QED BY <2>1, <3>1, <3>2 DEF StopBegin, LoopTypeOK
  <2>2. ASSUME NEW s \in Stopping, StopSend(s) PROVE LoopTypeOK'
    BY <2>2 DEF StopSend, LoopTypeOK
  <2>3. ASSUME NEW s \in Stopping, StopJoin(s) PROVE LoopTypeOK'
    BY <2>3 DEF StopJoin, LoopTypeOK
  <2> QED BY <1>3, <2>1, <2>2, <2>3
<1>4. CASE \E c \in Posts : PostBegin(c) \/ PostSend(c)
  <2> PICK c \in Posts : PostBegin(c) \/ PostSend(c)
    BY <1>4
  <2>1. PICK at \in {"checked", "refused", "accepted"} : post' = [post EXCEPT ![c] = at]
    BY DEF PostBegin, PostSend, Checked
  <2>2. post' \in [Posts -> {"idle", "checked", "pushed", "accepted", "refused"}]
    BY <2>1 DEF LoopTypeOK
  <2>3. pending' \in BOOLEAN
    BY DEF PostBegin, PostSend, LoopTypeOK
  <2>4. UNCHANGED <<state, queue, async, stop_flag, loop_thread, lt, frames, exited, start,
                    stop, ran, stops, dtor>>
    BY DEF PostBegin, PostSend
  <2> QED BY <2>2, <2>3, <2>4 DEF LoopTypeOK
<1>5. CASE LoopReturns \/ LoopExit \/ DtorBegin \/ DtorStep
  <2>1. CASE LoopReturns \/ LoopExit
    <3>1. CASE LoopReturns
      BY <3>1 DEF LoopReturns, LoopTypeOK
    <3>2. CASE LoopExit
      BY <3>2 DEF LoopExit, LoopTypeOK
    <3> QED BY <2>1, <3>1, <3>2
  <2>2. CASE DtorBegin \/ DtorStopped \/ DtorWait
    BY <2>2 DEF DtorBegin, DtorStopped, DtorWait, LoopTypeOK
  <2>3. CASE DtorJoin
    BY <2>3 DEF DtorJoin, LoopTypeOK
  <2> QED BY <1>5, <2>1, <2>2, <2>3 DEF DtorStep
<1> QED BY <1>2, <1>3, <1>4, <1>5 DEF Elsewhere

LEMMA FramesTyped ==
    ASSUME frames' \in Seq(FrameRec)
    PROVE  frames' \in Seq([cbs : Seq(Posts \cup {DoStopCb}), kind : FrameKinds])
BY DEF FrameRec, Item

LEMMA TypesStep ==
    ASSUME IInv, LoopNext
    PROVE  LoopTypeOK'
<1>1. LoopTypeOK /\ ThreadInv /\ Distinct(queue, frames)
  BY DEF IInv, PlaceInv
<1>2. CASE Elsewhere
  BY <1>1, <1>2, ElsewhereTypes
<1>3. CASE (\E s \in Stopping : StopPush(s)) \/ \E c \in Posts : PostPush(c)
  <2>1. queue' \in Seq(Item)
    <3>1. queue' = queue \/ \E x \in Item : queue' = Append(queue, x)
      BY <1>3, ItemFacts DEF StopPush, PostPush
    <3> QED BY <1>1, <3>1, HoldTypes, AppendProperties
  <2>2. queue' \in Seq(Posts \cup {DoStopCb})
    BY <2>1 DEF Item
  <2>3. ASSUME NEW s \in Stopping, StopPush(s) PROVE LoopTypeOK'
    BY <1>1, <2>2, <2>3 DEF StopPush, LoopTypeOK
  <2>4. ASSUME NEW c \in Posts, PostPush(c) PROVE LoopTypeOK'
    <3>1. post' \in [Posts -> {"idle", "checked", "pushed", "accepted", "refused"}]
      BY <1>1, <2>4 DEF PostPush, LoopTypeOK
    <3> QED BY <1>1, <2>2, <2>4, <3>1 DEF PostPush, LoopTypeOK
  <2> QED BY <1>3, <2>3, <2>4
<1>4. CASE LoopBegin \/ OnAsync
  <2>1. frames' = frames \/ frames' = <<Frame("init")>> \/ frames' = <<Frame("async")>>
    BY <1>4 DEF LoopBegin, OnAsync
  <2>2. Frame("init") \in FrameRec /\ Frame("async") \in FrameRec
    BY <1>1, HoldTypes DEF Frame, FrameRec, FrameKinds
  <2>3. frames' \in Seq(FrameRec)
    <3>1. <<Frame("init")>> \in Seq(FrameRec) /\ <<Frame("async")>> \in Seq(FrameRec)
      BY <2>2
    <3> QED BY <1>1, <2>1, <3>1, HoldTypes
  <2>4. frames' \in Seq([cbs : Seq(Posts \cup {DoStopCb}), kind : FrameKinds])
    BY <2>3, FramesTyped
  <2>5. CASE LoopBegin
    <3>1. state' \in States /\ lt' \in {"poll", "busy"}
      BY <1>1, <2>5 DEF LoopBegin, LoopTypeOK, States
    <3>2. queue' = queue \/ queue' = <<>>
      BY <2>5 DEF LoopBegin
    <3>3. queue' \in Seq(Posts \cup {DoStopCb})
      <4>1. queue \in Seq(Posts \cup {DoStopCb}) /\ <<>> \in Seq(Posts \cup {DoStopCb})
        BY <1>1 DEF LoopTypeOK
      <4> QED BY <3>2, <4>1
    <3>4. UNCHANGED <<async, pending, stop_flag, loop_thread, exited, start, stop, post, ran,
                      stops, dtor>>
      BY <2>5 DEF LoopBegin
    <3> QED BY <1>1, <2>4, <3>1, <3>3, <3>4 DEF LoopTypeOK
  <2>6. CASE OnAsync
    <3>1. queue' \in Seq(Posts \cup {DoStopCb}) /\ lt' = "busy" /\ pending' = FALSE
      BY <2>6 DEF OnAsync
    <3> QED BY <1>1, <2>4, <2>6, <3>1 DEF OnAsync, LoopTypeOK
  <2> QED BY <1>4, <2>5, <2>6
<1>5. ASSUME NEW c \in Posts, RunPlain(c) \/ RunPost(c) \/ RunStop(c)
      PROVE  LoopTypeOK'
  <2>1. NextIs(c)
    BY <1>5 DEF RunPlain, RunPost, RunStop
  <2>2. ran' = [ran EXCEPT ![c] = ran[c] + 1] /\ ran[c] = 0
    BY <1>5, <2>1, NotRunYet DEF RunPlain, RunPost, RunStop
  <2>3. ran' \in [Posts -> {0, 1}]
    BY <1>1, <2>2 DEF LoopTypeOK
  <2>4. frames' \in Seq(FrameRec)
    <3>1. CASE frames' = Append(Outer, Rest)
      BY <1>1, <2>1, <3>1, NextTaken
    <3>2. CASE queue' = <<>> /\ frames' = Outer \o <<Rest, Frame("inline")>>
      BY <1>1, <2>1, <3>2, NextNests DEF FrameKinds
    <3> QED BY <1>5, <3>1, <3>2 DEF RunPlain, RunPost, RunStop
  <2>5. Echo \in Posts
    BY ItemFacts
  <2>6. frames' \in Seq([cbs : Seq(Posts \cup {DoStopCb}), kind : FrameKinds])
    BY <2>4, FramesTyped
  <2>7. CASE RunPlain(c)
    BY <1>1, <2>3, <2>6, <2>7 DEF RunPlain, LoopTypeOK
  <2>8. CASE RunPost(c)
    BY <1>1, <2>3, <2>5, <2>6, <2>8 DEF RunPost, Checked, LoopTypeOK
  <2>9. CASE RunStop(c)
    <3>1. state' \in States
      BY <1>1, <2>9 DEF RunStop, LoopTypeOK, States
    <3>2. queue' = queue \/ queue' = <<>>
      BY <2>9 DEF RunStop
    <3>3. queue' \in Seq(Posts \cup {DoStopCb})
      <4>1. queue \in Seq(Posts \cup {DoStopCb}) /\ <<>> \in Seq(Posts \cup {DoStopCb})
        BY <1>1 DEF LoopTypeOK
      <4> QED BY <3>2, <4>1
    <3>4. UNCHANGED <<async, pending, stop_flag, loop_thread, lt, exited, start, stop, post,
                      stops, dtor>>
      BY <2>9 DEF RunStop
    <3> QED BY <1>1, <2>3, <2>6, <3>1, <3>3, <3>4 DEF LoopTypeOK
  <2> QED BY <1>5, <2>7, <2>8, <2>9
<1>6. CASE RunDoStop
  <2>1. frames' \in Seq(FrameRec)
    BY <1>1, <1>6, NextNests DEF RunDoStop, FrameKinds
  <2> QED BY <1>1, <1>6, <2>1, FramesTyped DEF RunDoStop, LoopTypeOK
<1>7. CASE DrainEnd \/ DoStopEnd
  <2>1. frames' \in Seq(FrameRec)
    BY <1>1, <1>7, FrameEnds DEF DrainEnd, DoStopEnd
  <2>2. lt' \in {"busy", "leaving", "poll"}
    BY <1>7 DEF DrainEnd, DoStopEnd, Back
  <2>3. frames' \in Seq([cbs : Seq(Posts \cup {DoStopCb}), kind : FrameKinds])
    BY <2>1, FramesTyped
  <2>4. CASE DrainEnd
    BY <1>1, <2>2, <2>3, <2>4 DEF DrainEnd, LoopTypeOK
  <2>5. CASE DoStopEnd
    <3>1. loop_thread' \in {"unassigned", "joinable", "joined", "detached"}
      BY <1>1, <2>5 DEF DoStopEnd, LoopTypeOK
    <3> QED BY <1>1, <2>2, <2>3, <2>5, <3>1 DEF DoStopEnd, LoopTypeOK, States
  <2> QED BY <1>7, <2>4, <2>5
<1> QED BY <1>2, <1>3, <1>4, <1>5, <1>6, <1>7, NextCases

LEMMA StartInvStep ==
    ASSUME IInv, LoopNext
    PROVE  StartInv'
<1>1. LoopTypeOK /\ StartInv /\ TokenInv /\ ThreadInv
  BY DEF IInv
<1>2. ASSUME NEW s \in Starters, StartStep(s)
      PROVE  StartInv'
  <2>1. UNCHANGED queue
    BY <1>2 DEF StartStep, StartBegin, StartInit, StartSpawn, StartAssign, StartSpin
  <2>2. CASE StartBegin(s)
    BY <1>1, <2>1, <2>2 DEF StartBegin, StartInv, LoopTypeOK
  <2>3. CASE StartInit(s)
    <3>1. CASE start' = [start EXCEPT ![s] = "spawn"] /\ UNCHANGED <<state, lt>>
      BY <1>1, <2>1, <2>3, <3>1 DEF StartInit, StartInv, LoopTypeOK
    <3>2. CASE start' = [start EXCEPT ![s] = "failed"] /\ state' = "Idle" /\ UNCHANGED lt
      BY <1>1, <2>1, <2>3, <3>2 DEF StartInit, StartInv, LoopTypeOK
    <3> QED BY <2>3, <3>1, <3>2 DEF StartInit
  <2>4. CASE StartSpawn(s)
    <3>1. CASE start' = [start EXCEPT ![s] = "assign"] /\ lt' = "begin" /\ UNCHANGED state
      BY <1>1, <2>1, <2>4, <3>1 DEF StartSpawn, StartInv, LoopTypeOK
    <3>2. CASE start' = [start EXCEPT ![s] = "failed"] /\ state' = "Idle" /\ UNCHANGED lt
      BY <1>1, <2>1, <2>4, <3>2 DEF StartSpawn, StartInv, LoopTypeOK
    <3> QED BY <2>4, <3>1, <3>2 DEF StartSpawn
  <2>5. CASE StartAssign(s) \/ StartSpin(s)
    BY <1>1, <2>1, <2>5 DEF StartAssign, StartSpin, StartInv, LoopTypeOK
  <2> QED BY <1>2, <2>2, <2>3, <2>4, <2>5 DEF StartStep
<1>3. ASSUME NEW s \in Stopping, StopBegin(s)
      PROVE  StartInv'
  BY <1>1, <1>3 DEF StopBegin, StartInv
<1>4. CASE UNCHANGED <<start, lt, state, queue>>
  BY <1>1, <1>4 DEF StartInv
<1>5. CASE UNCHANGED <<start, lt, state>> /\ lt \notin {"none", "begin"}
  BY <1>1, <1>5 DEF StartInv
<1>6. CASE (\E s \in Stopping : StopPush(s)) \/ \E c \in Posts : PostPush(c)
  <2>1. lt \notin {"none", "begin"} \/ UNCHANGED queue
    BY <1>1, <1>6 DEF StopPush, PostPush, TokenInv, StartInv
  <2>2. UNCHANGED <<start, lt, state>>
    BY <1>6 DEF StopPush, PostPush
  <2> QED BY <1>4, <1>5, <2>1, <2>2
<1>7. CASE LoopBegin
  BY <1>1, <1>7 DEF LoopBegin, StartInv
<1>8. CASE UNCHANGED start /\ lt \notin {"none", "begin"} /\ lt' \notin {"none", "begin"}
           /\ state' \in {state, "Stopping", "Stopped"}
  BY <1>1, <1>8 DEF StartInv
<1>9. CASE OnAsync \/ RunDoStop \/ DrainEnd \/ DoStopEnd \/ LoopReturns \/ LoopExit
           \/ \E c \in Posts : RunPlain(c) \/ RunPost(c) \/ RunStop(c)
  <2>1. lt \in {"poll", "busy", "leaving"} /\ UNCHANGED start
        /\ state' \in {state, "Stopping", "Stopped"}
    BY <1>9 DEF OnAsync, RunDoStop, DrainEnd, DoStopEnd, LoopReturns, LoopExit, RunPlain,
                RunPost, RunStop, NextIs
  <2>2. lt' \in {"poll", "busy", "leaving", "exited"}
    BY <1>9 DEF OnAsync, RunDoStop, DrainEnd, DoStopEnd, LoopReturns, LoopExit, RunPlain,
                RunPost, RunStop, NextIs, Back
  <2> QED BY <1>8, <2>1, <2>2
<1>10. CASE (\E s \in Stopping : StopSend(s) \/ StopJoin(s))
            \/ (\E c \in Posts : PostBegin(c) \/ PostSend(c)) \/ DtorBegin \/ DtorStep
  BY <1>4, <1>10 DEF StopSend, StopJoin, PostBegin, PostSend, DtorBegin, DtorStep,
                     DtorStopped, DtorWait, DtorJoin
<1> QED BY <1>2, <1>3, <1>6, <1>7, <1>9, <1>10, NextCases DEF Elsewhere

\* A started thread that is not busy opens its first activation.
LEMMA FirstFrame ==
    ASSUME LoopTypeOK, NEW kind \in FrameKinds, frames = <<>>, queue' = <<>>,
           frames' = <<Frame(kind)>>, Distinct(queue, frames)
    PROVE  /\ Len(frames') = 1 /\ frames'[1].kind = kind
           /\ Distinct(queue', frames')
           /\ \A y : Held(y, queue', frames') <=> Held(y, queue, frames)
<1>1. frames \in Seq(FrameRec) /\ Len(frames) = 0
  BY HoldTypes
<1>2. frames' = Append(frames, Frame(kind))
  OBVIOUS
<1>3. /\ Len(frames') = Len(frames) + 1 /\ frames'[Len(frames) + 1].kind = kind
      /\ Distinct(queue', frames')
      /\ \A y : Held(y, queue', frames') <=> Held(y, queue, frames)
  BY <1>1, <1>2, FrameOpens
<1> QED BY <1>1, <1>3

\* A callback is running: the loop's activations by their kinds.
LEMMA BusyFrames ==
    ASSUME IInv, lt = "busy", ~StopOpen(frames)
    PROVE  Len(frames) = 1 /\ frames[1].kind = "async"
<1>1. 1 \in 1..1 /\ 2 \in 1..2
  OBVIOUS
<1> QED BY <1>1 DEF IInv, ThreadInv, StopOpen

\* What wins Stop inside a callback, or runs DoStop, is in the one activation of
\* OnAsync.
LEMMA NestsOnce ==
    ASSUME IInv, NEW c, NextIs(c), c = DoStopCb \/ state = "Running"
    PROVE  ~StopOpen(frames) /\ Len(frames) = 1 /\ frames[1].kind = "async" /\ lt = "busy"
<1>1. lt = "busy" /\ Held(c, queue, frames)
  BY NextTaken DEF NextIs, IInv, PlaceInv
<1>2. ~StopOpen(frames)
  BY <1>1 DEF IInv, TokenInv
<1> QED BY <1>1, <1>2, BusyFrames

LEMMA ThreadInvStep ==
    ASSUME IInv, LoopNext
    PROVE  ThreadInv'
<1>1. LoopTypeOK /\ StartInv /\ TokenInv /\ ThreadInv /\ Distinct(queue, frames)
  BY DEF IInv, PlaceInv
<1>2. CASE UNCHANGED <<lt, frames, stops, exited>>
  BY <1>1, <1>2 DEF ThreadInv
<1>3. ASSUME NEW s \in Starters, StartSpawn(s)
      PROVE  ThreadInv'
  <2>1. lt = "none" /\ frames' = frames /\ lt' \in {lt, "begin"} /\ UNCHANGED <<stops, exited>>
    BY <1>1, <1>3 DEF StartSpawn, StartInv
  <2> QED BY <1>1, <2>1 DEF ThreadInv
<1>4. CASE LoopBegin
  <2>1. CASE state = "Starting"
    BY <1>1, <1>4, <2>1 DEF LoopBegin, ThreadInv
  <2>2. CASE state # "Starting"
    <3>1. frames = <<>> /\ frames' = <<Frame("init")>> /\ queue' = <<>> /\ lt' = "busy"
          /\ UNCHANGED <<stops, exited>> /\ lt = "begin"
      BY <1>1, <1>4, <2>2 DEF LoopBegin, ThreadInv
    <3>2. Len(frames') = 1 /\ frames'[1].kind = "init"
      BY <1>1, <3>1, FirstFrame DEF FrameKinds
    <3> QED BY <1>1, <3>1, <3>2 DEF ThreadInv
  <2> QED BY <2>1, <2>2
<1>5. CASE OnAsync
  <2>1. frames = <<>> /\ frames' = <<Frame("async")>> /\ queue' = <<>> /\ lt' = "busy"
        /\ UNCHANGED <<stops, exited>> /\ lt = "poll"
    BY <1>1, <1>5 DEF OnAsync, ThreadInv
  <2>2. Len(frames') = 1 /\ frames'[1].kind = "async"
    BY <1>1, <2>1, FirstFrame DEF FrameKinds
  <2> QED BY <1>1, <2>1, <2>2 DEF ThreadInv
<1>6. ASSUME NEW c, NextIs(c), frames' = Append(Outer, Rest), UNCHANGED <<lt, stops, exited>>
      PROVE  ThreadInv'
  <2>1. Len(frames') = Len(frames) /\ \A k \in 1..Len(frames) : frames'[k].kind = frames[k].kind
    BY <1>1, <1>6, NextTaken
  <2>2. lt = "busy" /\ 1 \in 1..1 /\ 1 \in 1..2 /\ 2 \in 1..2
    BY <1>6 DEF NextIs
  <2> QED BY <1>1, <1>6, <2>1, <2>2 DEF ThreadInv
<1>7. ASSUME NEW c, NextIs(c), NEW kind \in FrameKinds \ {"async"}, queue' = <<>>,
             frames' = Outer \o <<Rest, Frame(kind)>>,
             c = DoStopCb \/ state = "Running", UNCHANGED <<lt, stops, exited>>
      PROVE  ThreadInv'
  <2>1. Len(frames) = 1 /\ frames[1].kind = "async" /\ lt = "busy"
    BY <1>7, NestsOnce
  <2>2. /\ Len(frames') = Len(frames) + 1
        /\ \A k \in 1..Len(frames) : frames'[k].kind = frames[k].kind
        /\ frames'[Len(frames) + 1].kind = kind
    BY <1>1, <1>7, NextNests
  <2>3. Len(frames') = 2 /\ frames'[1].kind = "async" /\ frames'[2].kind # "async"
    BY <2>1, <2>2
  <2> QED BY <1>1, <1>7, <2>1, <2>3 DEF ThreadInv
<1>8. CASE \E c \in Posts : RunPlain(c) \/ RunPost(c) \/ RunStop(c)
  BY <1>6, <1>7, <1>8 DEF RunPlain, RunPost, RunStop, FrameKinds
<1>9. CASE RunDoStop
  BY <1>7, <1>9 DEF RunDoStop, FrameKinds
<1>10. CASE DrainEnd
  <2>1. /\ lt = "busy" /\ Inner.cbs = <<>> /\ Inner.kind = "async" /\ frames' = Outer
        /\ queue' = queue /\ lt' = Back("async") /\ UNCHANGED <<stops, exited>>
    BY <1>10 DEF DrainEnd
  <2>2. Len(frames) = 1
    BY <1>1, <2>1 DEF ThreadInv, Inner
  <2>3. Len(frames') = 0 /\ frames' \in Seq(FrameRec) /\ lt' = "poll"
    BY <1>1, <2>1, <2>2, FrameEnds DEF Back
  <2>4. frames' = <<>>
    BY <2>3, EmptySeq
  <2> QED BY <1>1, <2>1, <2>3, <2>4 DEF ThreadInv
<1>11. CASE DoStopEnd
  <2>1. /\ lt = "busy" /\ Inner.cbs = <<>> /\ Inner.kind # "async" /\ frames' = Outer
        /\ queue' = queue /\ lt' = Back(Inner.kind) /\ stops' = stops + 1 /\ UNCHANGED exited
    BY <1>11 DEF DoStopEnd
  <2>2. /\ Len(frames') = Len(frames) - 1 /\ frames' \in Seq(FrameRec)
        /\ \A k \in 1..(Len(frames) - 1) : frames'[k] = frames[k]
    BY <1>1, <2>1, FrameEnds
  <2>3. CASE Len(frames) = 1
    <3>1. frames' = <<>> /\ lt' = "leaving"
      <4>1. frames[1].kind = "init" /\ Inner = frames[1]
        BY <1>1, <2>1, <2>3 DEF ThreadInv, Inner
      <4> QED BY <2>1, <2>2, <2>3, <4>1, EmptySeq DEF Back
    <3>2. stops' = 1
      <4>1. StopOpen(frames)
        BY <2>1, <2>3 DEF StopOpen, Inner
      <4> QED BY <1>1, <2>1, <4>1 DEF TokenInv
    <3> QED BY <1>1, <2>1, <3>1, <3>2 DEF ThreadInv
  <2>4. CASE Len(frames) = 2
    <3>1. Len(frames') = 1 /\ frames'[1].kind = "async" /\ lt' = "busy"
      BY <1>1, <2>1, <2>2, <2>4 DEF ThreadInv, Back
    <3> QED BY <1>1, <2>1, <3>1 DEF ThreadInv
  <2> QED BY <1>1, <2>1, <2>3, <2>4 DEF ThreadInv
<1>12. CASE LoopReturns \/ LoopExit
  BY <1>1, <1>12 DEF LoopReturns, LoopExit, ThreadInv, TokenInv
<1>13. CASE (\E s \in Starters : StartBegin(s) \/ StartInit(s) \/ StartAssign(s) \/ StartSpin(s))
            \/ (\E s \in Stopping : StopBegin(s) \/ StopPush(s) \/ StopSend(s) \/ StopJoin(s))
            \/ (\E c \in Posts : PostBegin(c) \/ PostPush(c) \/ PostSend(c))
            \/ DtorBegin \/ DtorStep
  BY <1>2, <1>13 DEF StartBegin, StartInit, StartAssign, StartSpin, StopBegin, StopPush,
       StopSend, StopJoin, PostBegin, PostPush, PostSend, DtorBegin, DtorStep, DtorStopped,
       DtorWait, DtorJoin
<1> QED BY <1>3, <1>4, <1>5, <1>8, <1>9, <1>10, <1>11, <1>12, <1>13, NextCases
        DEF Elsewhere, StartStep

LEMMA DtorInvStep ==
    ASSUME IInv, LoopNext
    PROVE  DtorInv'
<1>1. LoopTypeOK /\ StartInv /\ ThreadInv /\ DtorInv /\ Owner \in Stopping
  BY DEF IInv, Stopping
<1>2. CASE /\ UNCHANGED <<dtor, start, stop>> /\ state' \in {state, "Stopping", "Stopped"}
           /\ lt' = lt \/ lt \notin {"none", "exited"}
  BY <1>1, <1>2 DEF DtorInv
<1>3. ASSUME NEW s \in Starters, StartStep(s)
      PROVE  DtorInv'
  <2>1. dtor = "none" /\ UNCHANGED <<dtor, stop>>
    BY <1>1, <1>3 DEF StartStep, StartBegin, StartInit, StartSpawn, StartAssign, StartSpin,
                      DtorInv
  <2> QED BY <1>1, <2>1 DEF DtorInv
<1>4. ASSUME NEW s \in Stopping, StopBegin(s)
      PROVE  DtorInv'
  BY <1>1, <1>4 DEF StopBegin, DtorInv, LoopTypeOK
<1>5. ASSUME NEW s \in Stopping, StopPush(s) \/ StopSend(s) \/ StopJoin(s)
      PROVE  DtorInv'
  <2>1. UNCHANGED <<dtor, start, state, lt>> /\ (stop'[Owner] = "idle" <=> stop[Owner] = "idle")
    BY <1>1, <1>5 DEF StopPush, StopSend, StopJoin, LoopTypeOK
  <2> QED BY <1>1, <2>1 DEF DtorInv
<1>6. CASE LoopBegin
  BY <1>1, <1>6 DEF LoopBegin, DtorInv
<1>7. CASE \E c \in Posts : PostBegin(c) \/ PostPush(c) \/ PostSend(c)
  BY <1>2, <1>7 DEF PostBegin, PostPush, PostSend
<1>8. CASE OnAsync \/ RunDoStop \/ DrainEnd \/ DoStopEnd \/ LoopReturns \/ LoopExit
           \/ \E c \in Posts : RunPlain(c) \/ RunPost(c) \/ RunStop(c)
  BY <1>2, <1>8 DEF OnAsync, RunDoStop, DrainEnd, DoStopEnd, LoopReturns, LoopExit,
       RunPlain, RunPost, RunStop, NextIs
<1>9. CASE DtorBegin
  <2>1. /\ dtor = "none" /\ dtor' = "stop" /\ UNCHANGED <<start, stop, state, lt>>
        /\ \A s \in Starters : start[s] \in {"idle", "returned", "failed"}
    BY <1>9 DEF DtorBegin
  <2> QED BY <1>1, <2>1 DEF DtorInv
<1>10. CASE DtorStep
  BY <1>1, <1>10 DEF DtorStep, DtorStopped, DtorWait, DtorJoin, DtorInv, StartInv, ThreadInv
<1> QED BY <1>3, <1>4, <1>5, <1>6, <1>7, <1>8, <1>9, <1>10, NextCases DEF Elsewhere

LEMMA PlaceInvStep ==
    ASSUME IInv, LoopNext
    PROVE  PlaceInv'
<1>1. LoopTypeOK /\ PlaceInv /\ ThreadInv /\ TokenInv /\ Distinct(queue, frames)
      /\ queue \in Seq(Item) /\ frames \in Seq(FrameRec)
  BY HoldTypes DEF IInv, PlaceInv
<1>2. Posts \subseteq Item /\ DoStopCb \notin Posts /\ DoStopCb \in Item
      /\ Echo \in Posts /\ Callback \subseteq Posts
  BY ItemFacts
<1>3. CASE /\ Distinct(queue', frames') /\ UNCHANGED ran
           /\ \A c \in Posts : /\ Held(c, queue', frames') <=> Held(c, queue, frames)
                               /\ Taken(c)' <=> Taken(c)
           /\ post[Echo] = "idle" => post'[Echo] = "idle"
  BY <1>1, <1>3 DEF PlaceInv
<1>4. CASE Elsewhere
  <2>1. UNCHANGED <<queue, frames, ran>>
    BY <1>4 DEF Elsewhere, StartStep, StartBegin, StartInit, StartSpawn, StartAssign, StartSpin,
         StopBegin, StopSend, StopJoin, PostBegin, PostSend, LoopReturns, LoopExit,
         DtorBegin, DtorStep, DtorStopped, DtorWait, DtorJoin
  <2>2. CASE UNCHANGED post
    BY <1>1, <1>3, <2>1, <2>2 DEF Taken
  <2>3. ASSUME NEW c \in Posts, PostBegin(c) \/ PostSend(c)
        PROVE  /\ \A d \in Posts : Taken(d)' <=> Taken(d)
               /\ post[Echo] = "idle" => post'[Echo] = "idle"
    BY <1>1, <1>2, <2>3 DEF PostBegin, PostSend, Checked, Taken, LoopTypeOK
  <2>4. UNCHANGED post \/ \E c \in Posts : PostBegin(c) \/ PostSend(c)
    BY <1>4 DEF Elsewhere, StartStep, StartBegin, StartInit, StartSpawn, StartAssign, StartSpin,
         StopBegin, StopSend, StopJoin, LoopReturns, LoopExit,
         DtorBegin, DtorStep, DtorStopped, DtorWait, DtorJoin
  <2> QED BY <1>1, <1>3, <2>1, <2>2, <2>3, <2>4
<1>5. ASSUME NEW s \in Stopping, StopPush(s)
      PROVE  PlaceInv'
  <2>1. ~Held(DoStopCb, queue, frames)
    BY <1>1, <1>5 DEF StopPush, TokenInv
  <2>2. queue' = Append(queue, DoStopCb) /\ UNCHANGED <<frames, ran, post>>
    BY <1>5 DEF StopPush
  <2>3. /\ Distinct(queue', frames')
        /\ \A y : Held(y, queue', frames') <=> Held(y, queue, frames) \/ y = DoStopCb
    BY <1>1, <1>2, <2>1, <2>2, PushHeld
  <2> QED BY <1>2, <1>3, <2>2, <2>3 DEF Taken
<1>6. ASSUME NEW c \in Posts, PostPush(c)
      PROVE  PlaceInv'
  <2>1. CASE state # "Running"
    <3>1. UNCHANGED <<queue, frames, ran>> /\ post[c] = "checked"
          /\ post' = [post EXCEPT ![c] = "refused"]
      BY <1>6, <2>1 DEF PostPush
    <3>2. \A d \in Posts : Taken(d)' <=> Taken(d)
      BY <1>1, <3>1 DEF Taken, LoopTypeOK
    <3>3. post[Echo] = "idle" => post'[Echo] = "idle"
      BY <1>1, <1>2, <3>1 DEF LoopTypeOK
    <3> QED BY <1>1, <1>3, <3>1, <3>2, <3>3
  <2>2. CASE state = "Running"
    <3>1. /\ queue' = Append(queue, c) /\ UNCHANGED <<frames, ran>> /\ post[c] = "checked"
          /\ post' = [post EXCEPT ![c] = "pushed"]
      BY <1>6, <2>2 DEF PostPush
    <3>2. ~Held(c, queue, frames) /\ ran[c] = 0
      BY <1>1, <3>1 DEF PlaceInv, Taken, LoopTypeOK
    <3>3. /\ Distinct(queue', frames')
          /\ \A y : Held(y, queue', frames') <=> Held(y, queue, frames) \/ y = c
      BY <1>1, <1>2, <3>1, <3>2, PushHeld
    <3>4. \A d \in Posts : Taken(d)' <=> Taken(d) \/ d = c
      BY <1>1, <3>1 DEF Taken, LoopTypeOK
    <3>5. post[Echo] = "idle" => post'[Echo] = "idle"
      BY <1>1, <1>2, <3>1 DEF LoopTypeOK
    <3> QED BY <1>1, <3>1, <3>2, <3>3, <3>4, <3>5 DEF PlaceInv
  <2> QED BY <2>1, <2>2
<1>7. CASE LoopBegin \/ OnAsync
  <2>1. UNCHANGED <<ran, post>> /\ frames = <<>>
    BY <1>1, <1>7 DEF LoopBegin, OnAsync, ThreadInv
  <2>2. CASE UNCHANGED <<queue, frames>>
    BY <1>1, <1>3, <2>1, <2>2 DEF Taken
  <2>3. CASE \E kind \in FrameKinds : queue' = <<>> /\ frames' = <<Frame(kind)>>
    BY <1>1, <1>3, <2>1, <2>3, FirstFrame DEF Taken
  <2> QED BY <1>7, <2>2, <2>3 DEF LoopBegin, OnAsync, FrameKinds
<1>8. ASSUME NEW c \in Posts, RunPlain(c) \/ RunPost(c) \/ RunStop(c)
      PROVE  PlaceInv'
  <2>1. NextIs(c) /\ ran' = [ran EXCEPT ![c] = ran[c] + 1]
    BY <1>8 DEF RunPlain, RunPost, RunStop
  <2>2. ran[c] = 0 /\ Taken(c)
    BY <2>1, NotRunYet
  <2>3. /\ Distinct(queue', frames')
        /\ \A y : Held(y, queue', frames') <=> Held(y, queue, frames) /\ y # c
    <3>1. CASE queue' = queue /\ frames' = Append(Outer, Rest)
      BY <1>1, <2>1, <3>1, NextTaken
    <3>2. CASE queue' = <<>> /\ frames' = Outer \o <<Rest, Frame("inline")>>
      BY <1>1, <2>1, <3>2, NextNests DEF FrameKinds
    <3> QED BY <1>8, <3>1, <3>2 DEF RunPlain, RunPost, RunStop
  <2>4. ran'[c] = 1 /\ \A d \in Posts \ {c} : ran'[d] = ran[d]
    BY <1>1, <2>1, <2>2 DEF LoopTypeOK
  <2>5. CASE UNCHANGED post
    <3>1. \A d \in Posts : Taken(d)' <=> Taken(d)
      BY <2>5 DEF Taken
    <3>2. \A d \in Callback : Kind[d] = "post" /\ ran'[d] = 0 => post'[Echo] = "idle"
      BY <1>1, <1>2, <2>4, <2>5 DEF PlaceInv
    <3> QED BY <1>1, <2>2, <2>3, <2>4, <3>1, <3>2 DEF PlaceInv
  <2>6. CASE RunPost(c)
    <3>1. c \in Callback /\ Kind[c] = "post" /\ post[Echo] = "idle"
      BY <1>1, <2>2, <2>6 DEF RunPost, KindOf, Posts, PlaceInv
    <3>2. \A d \in Callback : Kind[d] = "post" => d = c
      BY <3>1, CallbackAssumption
    <3>3. post' = [post EXCEPT ![Echo] = IF state = "Running" THEN "checked" ELSE "refused"]
      BY <2>6 DEF RunPost, Checked
    <3>4. \A d \in Posts : Taken(d)' <=> Taken(d)
      BY <1>1, <3>1, <3>3 DEF Taken, LoopTypeOK
    <3>5. \A d \in Callback : Kind[d] = "post" => ran'[d] = 1
      BY <2>4, <3>2
    <3> QED BY <1>1, <2>2, <2>3, <2>4, <3>4, <3>5 DEF PlaceInv
  <2> QED BY <1>8, <2>5, <2>6 DEF RunPlain, RunStop
<1>9. CASE RunDoStop
  <2>1. NextIs(DoStopCb) /\ UNCHANGED <<ran, post>> /\ queue' = <<>>
        /\ frames' = Outer \o <<Rest, Frame("queued")>>
    BY <1>9 DEF RunDoStop
  <2>2. /\ Distinct(queue', frames')
        /\ \A y : Held(y, queue', frames') <=> Held(y, queue, frames) /\ y # DoStopCb
    BY <1>1, <2>1, NextNests DEF FrameKinds
  <2> QED BY <1>2, <1>3, <2>1, <2>2 DEF Taken
<1>10. CASE DrainEnd \/ DoStopEnd
  <2>1. lt = "busy" /\ Inner.cbs = <<>> /\ frames' = Outer /\ UNCHANGED <<queue, ran, post>>
    BY <1>10 DEF DrainEnd, DoStopEnd
  <2>2. /\ Distinct(queue', frames')
        /\ \A y : Held(y, queue', frames') <=> Held(y, queue, frames)
    BY <1>1, <2>1, FrameEnds
  <2> QED BY <1>3, <2>1, <2>2 DEF Taken
<1> QED BY <1>4, <1>5, <1>6, <1>7, <1>8, <1>9, <1>10, NextCases

\* The token's places once a step has moved queue and frames.
LEMMA TokenInvStep ==
    ASSUME IInv, LoopNext
    PROVE  TokenInv'
<1>1. /\ LoopTypeOK /\ StartInv /\ ThreadInv /\ TokenInv /\ Distinct(queue, frames)
      /\ queue \in Seq(Item) /\ frames \in Seq(FrameRec)
  BY HoldTypes DEF IInv, PlaceInv
<1>2. DoStopCb \in Item /\ DoStopCb \notin Posts /\ Posts \subseteq Item
  BY ItemFacts
\* Steps that move no token.
<1>3. CASE /\ Held(DoStopCb, queue', frames') <=> Held(DoStopCb, queue, frames)
           /\ StopOpen(frames') <=> StopOpen(frames)
           /\ \A s \in Stopping : stop'[s] = "push" => stop[s] = "push"
           /\ UNCHANGED <<stops, stop_flag>>
           /\ state' \in {state, "Stopping", "Stopped"} \/ state \notin {"Stopping", "Stopped"}
                 \/ lt \in {"none", "begin"}
           /\ lt \in {"none", "begin"} \/ lt' \notin {"none", "begin"}
           /\ queue' \in {queue, <<>>} \/ state = "Running"
  BY <1>1, <1>3 DEF TokenInv
<1>4. CASE Elsewhere /\ \A s \in Stopping : StopBegin(s) => state # "Running"
  <2>1. UNCHANGED <<queue, frames, stops, stop_flag>>
    BY <1>4 DEF Elsewhere, StartStep, StartBegin, StartInit, StartSpawn, StartAssign, StartSpin,
         StopBegin, StopSend, StopJoin, PostBegin, PostSend, LoopReturns, LoopExit,
         DtorBegin, DtorStep, DtorStopped, DtorWait, DtorJoin
  <2>2. \A s \in Stopping : stop'[s] = "push" => stop[s] = "push"
    BY <1>1, <1>4 DEF Elsewhere, StartStep, StartBegin, StartInit, StartSpawn, StartAssign,
         StartSpin, StopBegin, StopSend, StopJoin, PostBegin, PostSend, LoopReturns, LoopExit,
         DtorBegin, DtorStep, DtorStopped, DtorWait, DtorJoin, LoopTypeOK
  <2>3. state' \in {state, "Stopping"} \/ lt \in {"none", "begin"}
    BY <1>1, <1>4 DEF Elsewhere, StartStep, StartBegin, StartInit, StartSpawn, StartAssign,
         StartSpin, StopBegin, StopSend, StopJoin, PostBegin, PostSend, LoopReturns, LoopExit,
         DtorBegin, DtorStep, DtorStopped, DtorWait, DtorJoin, StartInv
  <2>4. lt \in {"none", "begin"} \/ lt' \notin {"none", "begin"}
    BY <1>1, <1>4 DEF Elsewhere, StartStep, StartBegin, StartInit, StartSpawn, StartAssign,
         StartSpin, StopBegin, StopSend, StopJoin, PostBegin, PostSend, LoopReturns, LoopExit,
         DtorBegin, DtorStep, DtorStopped, DtorWait, DtorJoin, StartInv
  <2> QED BY <1>3, <2>1, <2>2, <2>3, <2>4
\* While the loop runs there is none.
<1>5. state = "Running" =>
         /\ \A s \in Stopping : stop[s] # "push"
         /\ ~Held(DoStopCb, queue, frames) /\ ~StopOpen(frames) /\ stops = 0
         /\ lt \notin {"none", "begin"}
  BY <1>1 DEF TokenInv, StartInv
<1>6. ASSUME NEW s \in Stopping, StopBegin(s), state = "Running"
      PROVE  TokenInv'
  <2>1. /\ state' = "Stopping" /\ stop' = [stop EXCEPT ![s] = "push"]
        /\ UNCHANGED <<queue, frames, stops, stop_flag, lt>>
    BY <1>6 DEF StopBegin
  <2>2. \A t \in Stopping : stop'[t] = "push" <=> t = s
    BY <1>1, <1>5, <1>6, <2>1 DEF LoopTypeOK
  <2> QED BY <1>1, <1>5, <1>6, <2>1, <2>2 DEF TokenInv
<1>7. ASSUME NEW s \in Stopping, StopPush(s)
      PROVE  TokenInv'
  <2>1. /\ stop[s] = "push" /\ queue' = Append(queue, DoStopCb)
        /\ stop' = [stop EXCEPT ![s] = "send"]
        /\ UNCHANGED <<state, frames, stops, stop_flag, lt>>
    BY <1>7 DEF StopPush
  <2>2. /\ ~Held(DoStopCb, queue, frames) /\ ~StopOpen(frames) /\ stops = 0
        /\ state \in {"Stopping", "Stopped"} /\ lt \notin {"none", "begin"}
    BY <1>1, <2>1 DEF TokenInv
  <2>3. Held(DoStopCb, queue', frames')
    BY <1>1, <1>2, <2>1, <2>2, PushHeld
  <2>4. \A t \in Stopping : stop'[t] # "push"
    BY <1>1, <2>1 DEF TokenInv, LoopTypeOK
  <2> QED BY <1>1, <2>1, <2>2, <2>3, <2>4 DEF TokenInv
<1>8. ASSUME NEW c \in Posts, PostPush(c)
      PROVE  TokenInv'
  <2>1. /\ UNCHANGED <<state, frames, stops, stop_flag, lt, stop>>
        /\ \/ queue' = queue
           \/ state = "Running" /\ queue' = Append(queue, c) /\ post[c] = "checked"
    <3>1. UNCHANGED <<state, frames, stops, stop_flag, lt, stop>>
      BY <1>8 DEF PostPush
    <3>2. \/ queue' = queue
          \/ state = "Running" /\ queue' = Append(queue, c) /\ post[c] = "checked"
      BY <1>8, Zenon DEF PostPush
    <3> QED BY <3>1, <3>2
  <2>2. CASE queue' = queue
    BY <1>3, <2>1, <2>2
  <2>3. CASE state = "Running" /\ queue' = Append(queue, c) /\ post[c] = "checked"
    <3>1. ~Held(c, queue, frames) /\ c # DoStopCb
      BY <1>2, <2>3 DEF IInv, PlaceInv, Taken
    <3>2. \A y : Held(y, queue', frames) <=> Held(y, queue, frames) \/ y = c
      BY <1>1, <1>2, <2>3, <3>1, PushHeld
    <3> QED BY <1>3, <2>1, <2>3, <3>1, <3>2
  <2> QED BY <2>1, <2>2, <2>3

<1>9. CASE LoopBegin /\ state = "Starting"
  <2>1. UNCHANGED <<queue, frames, stops, stop_flag, stop>> /\ lt = "begin"
        /\ lt' = "poll"
    BY <1>9 DEF LoopBegin
  <2> QED BY <1>3, <2>1
<1>10. CASE LoopBegin /\ state # "Starting"
  <2>1. /\ lt = "begin" /\ lt' = "busy" /\ frames' = <<Frame("init")>> /\ queue' = <<>>
        /\ UNCHANGED <<state, stops, stop_flag, stop>>
    BY <1>10 DEF LoopBegin
  <2>2. /\ \A s \in Stopping : stop[s] # "push"
        /\ ~Held(DoStopCb, queue, frames) /\ stops = 0 /\ state = "Stopping"
        /\ frames = <<>>
    BY <1>1, <1>10, <2>1 DEF TokenInv, StartInv, ThreadInv
  <2>3. ~Held(DoStopCb, queue', frames')
    BY <1>1, <2>1, <2>2, FirstFrame DEF FrameKinds
  <2> QED BY <1>1, <2>1, <2>2, <2>3 DEF TokenInv
<1>11. CASE OnAsync
  <2>1. /\ lt = "poll" /\ lt' = "busy" /\ frames' = <<Frame("async")>> /\ queue' = <<>>
        /\ UNCHANGED <<state, stops, stop_flag, stop>> /\ frames = <<>>
    BY <1>1, <1>11 DEF OnAsync, ThreadInv
  <2>2. /\ Held(DoStopCb, queue', frames') <=> Held(DoStopCb, queue, frames)
        /\ Len(frames') = 1 /\ frames'[1].kind = "async"
    BY <1>1, <2>1, FirstFrame DEF FrameKinds
  <2>3. ~StopOpen(frames') /\ ~StopOpen(frames)
    BY <2>1, <2>2 DEF StopOpen
  <2> QED BY <1>3, <2>1, <2>2, <2>3
<1>12. ASSUME NEW c \in Posts, NextIs(c), frames' = Append(Outer, Rest),
              UNCHANGED <<queue, state, stops, stop_flag, stop, lt>>
       PROVE  TokenInv'
  <2>1. /\ Held(DoStopCb, queue', frames') <=> Held(DoStopCb, queue, frames)
        /\ Len(frames') = Len(frames)
        /\ \A k \in 1..Len(frames) : frames'[k].kind = frames[k].kind
    BY <1>1, <1>2, <1>12, NextTaken
  <2>2. StopOpen(frames') <=> StopOpen(frames)
    BY <2>1 DEF StopOpen
  <2> QED BY <1>3, <1>12, <2>1, <2>2
<1>13. ASSUME NEW c \in Posts, RunStop(c), state = "Running"
       PROVE  TokenInv'
  <2>1. /\ NextIs(c) /\ state' = "Stopping" /\ queue' = <<>>
        /\ frames' = Outer \o <<Rest, Frame("inline")>>
        /\ UNCHANGED <<stops, stop_flag, stop, lt>>
    BY <1>13 DEF RunStop
  <2>2. ~Held(DoStopCb, queue', frames')
    BY <1>1, <1>5, <1>13, <2>1, NextNests DEF FrameKinds
  <2> QED BY <1>1, <1>5, <1>13, <2>1, <2>2 DEF TokenInv
<1>14. CASE \E c \in Posts : RunPlain(c) \/ RunPost(c) \/ RunStop(c)
  BY <1>12, <1>13, <1>14 DEF RunPlain, RunPost, RunStop
<1>15. CASE RunDoStop
  <2>1. /\ NextIs(DoStopCb) /\ queue' = <<>>
        /\ frames' = Outer \o <<Rest, Frame("queued")>>
        /\ UNCHANGED <<state, stops, stop_flag, stop, lt>>
    BY <1>15 DEF RunDoStop
  <2>2. Held(DoStopCb, queue, frames) /\ ~Held(DoStopCb, queue', frames')
    BY <1>1, <2>1, NextNests DEF FrameKinds
  <2>3. /\ \A s \in Stopping : stop[s] # "push"
        /\ stops = 0 /\ state \in {"Stopping", "Stopped"} /\ lt \notin {"none", "begin"}
    BY <1>1, <2>2 DEF TokenInv
  <2> QED BY <1>1, <2>1, <2>2, <2>3 DEF TokenInv
<1>16. CASE DrainEnd
  <2>1. /\ lt = "busy" /\ Inner.cbs = <<>> /\ Inner.kind = "async" /\ frames' = Outer
        /\ lt' = Back("async") /\ UNCHANGED <<queue, state, stops, stop_flag, stop>>
    BY <1>16 DEF DrainEnd
  <2>2. /\ Held(DoStopCb, queue', frames') <=> Held(DoStopCb, queue, frames)
        /\ Len(frames') = Len(frames) - 1
        /\ \A k \in 1..(Len(frames) - 1) : frames'[k] = frames[k]
    BY <1>1, <2>1, FrameEnds
  <2>3. Len(frames) = 1 /\ frames[1].kind = "async"
    BY <1>1, <2>1 DEF ThreadInv, Inner
  <2>4. ~StopOpen(frames') /\ ~StopOpen(frames)
    BY <2>2, <2>3 DEF StopOpen
  <2>5. lt' \notin {"none", "begin"}
    BY <2>1 DEF Back
  <2> QED BY <1>3, <2>1, <2>2, <2>4, <2>5
<1>17. CASE DoStopEnd
  <2>1. /\ lt = "busy" /\ Inner.cbs = <<>> /\ Inner.kind # "async" /\ frames' = Outer
        /\ state' = "Stopped" /\ stop_flag' = TRUE /\ stops' = stops + 1
        /\ lt' = Back(Inner.kind) /\ UNCHANGED <<queue, stop>>
    BY <1>17 DEF DoStopEnd
  <2>2. /\ Held(DoStopCb, queue', frames') <=> Held(DoStopCb, queue, frames)
        /\ Len(frames') = Len(frames) - 1
        /\ \A k \in 1..(Len(frames) - 1) : frames'[k] = frames[k]
    BY <1>1, <2>1, FrameEnds
  <2>3. StopOpen(frames)
    BY <1>1, <2>1 DEF StopOpen, Inner, ThreadInv
  <2>4. /\ \A s \in Stopping : stop[s] # "push"
        /\ ~Held(DoStopCb, queue, frames) /\ stops = 0 /\ queue = <<>>
    BY <1>1, <2>3 DEF TokenInv
  <2>5. ~StopOpen(frames')
    <3>1. \/ Len(frames) = 1
          \/ Len(frames) = 2 /\ frames[1].kind = "async"
      BY <1>1, <2>1 DEF ThreadInv
    <3>2. \A k \in 1..Len(frames') : frames'[k].kind = "async"
      BY <2>2, <3>1
    <3> QED BY <3>2 DEF StopOpen
  <2>6. lt' \notin {"none", "begin"}
    BY <2>1 DEF Back
  <2> QED BY <2>1, <2>2, <2>4, <2>5, <2>6 DEF TokenInv
<1> QED BY <1>4, <1>6, <1>7, <1>8, <1>9, <1>10, <1>11, <1>14, <1>15, <1>16, <1>17, NextCases

-----------------------------------------------------------------------------
LEMMA InitInv == LoopInit => IInv
<1> SUFFICES ASSUME LoopInit PROVE IInv
  OBVIOUS
<1>1. LoopTypeOK
  <2>1. /\ queue \in Seq(Posts \cup {DoStopCb})
        /\ frames \in Seq([cbs : Seq(Posts \cup {DoStopCb}), kind : FrameKinds])
    BY DEF LoopInit
  <2>2. /\ start \in [Starters -> {"idle", "init", "spawn", "assign", "spin", "returned", "failed"}]
        /\ stop \in [Stopping -> {"idle", "push", "send", "join", "returned"}]
        /\ post \in [Posts -> {"idle", "checked", "pushed", "accepted", "refused"}]
        /\ ran \in [Posts -> {0, 1}]
    BY DEF LoopInit
  <2> QED BY <2>1, <2>2 DEF LoopInit, LoopTypeOK, States
<1>2. Distinct(queue, frames) /\ ~StopOpen(frames) /\ \A y : ~Held(y, queue, frames)
  BY DEF LoopInit, Distinct, NoDup, StopOpen, Held, InSeq
<1>3. StartInv /\ ThreadInv
  BY DEF LoopInit, StartInv, ThreadInv
<1>4. PlaceInv
  BY <1>2, ItemFacts DEF LoopInit, PlaceInv, Taken
<1>5. TokenInv
  BY <1>2 DEF LoopInit, TokenInv
<1>6. DtorInv
  BY DEF LoopInit, DtorInv, Stopping
<1> QED BY <1>1, <1>3, <1>4, <1>5, <1>6 DEF IInv

LEMMA NextInv == IInv /\ [LoopNext]_loopVars => IInv'
<1>1. ASSUME IInv, LoopNext PROVE IInv'
  BY <1>1, TypesStep, StartInvStep, PlaceInvStep, TokenInvStep, ThreadInvStep, DtorInvStep
     DEF IInv
<1>2. ASSUME IInv, UNCHANGED loopVars PROVE IInv'
  BY <1>2 DEF loopVars, IInv, LoopTypeOK, StartInv, PlaceInv, Taken, TokenInv, ThreadInv, DtorInv
<1> QED BY <1>1, <1>2

\* The inductive invariant holds always: where a callback is, who holds the token of the
\* shutdown and what loop_thread_ and the destructor know fit together after every step.
THEOREM LoopInvariance == LoopSpec => []IInv
BY InitInv, NextInv, PTL DEF LoopSpec

\* The object keeps its types, no callback runs twice, and the destructor outlives
\* the loop thread (EventLoop::~EventLoop waits for exit_state_ or joins).
THEOREM LoopIsSound == LoopSpec => []LoopSound
<1>1. IInv => LoopSound
  BY DEF IInv, LoopSound, NoLoopAfterDestroy, DtorInv
<1> QED BY <1>1, LoopInvariance, PTL

\* Post tells the truth: what it refused never runs, what it took has run when the
\* loop thread ends (Post's second look under queue_mutex_, DoStop's DrainQueue).
THEOREM TakenCallbacksRan == LoopSpec => []AcceptedRan
<1>1. IInv => AcceptedRan
  <2> SUFFICES ASSUME IInv, lt = "exited", NEW c \in Posts, Taken(c)
               PROVE  ran[c] = 1
    BY DEF AcceptedRan, IInv, PlaceInv
  <2>1. queue = <<>> /\ frames = <<>>
    BY DEF IInv, ThreadInv, TokenInv
  <2>2. ~Held(c, queue, frames)
    BY <2>1 DEF Held, InSeq
  <2> QED BY <2>2 DEF IInv, PlaceInv, LoopTypeOK
<1> QED BY <1>1, LoopInvariance, PTL

\* DoStop closes the handles at most once, and no step takes the loop back to
\* Running once a Stop has begun (the compare-exchanges on state_).
THEOREM StopFinal == LoopSpec => StopIsFinal
<1> DEFINE A == /\ stops' <= 1
                /\ state \in {"Stopping", "Stopped"} => state' # "Running"
<1>1. IInv /\ IInv' /\ [LoopNext]_loopVars => [A]_loopVars
  <2> SUFFICES ASSUME IInv, IInv', LoopNext PROVE A
    OBVIOUS
  <2>1. stops' <= 1
    BY DEF IInv, TokenInv
  <2>2. CASE LoopBegin
    BY <2>1, <2>2 DEF LoopBegin
  <2>3. CASE state' = state \/ state' # "Running"
    BY <2>1, <2>3
  <2>4. CASE Elsewhere
    BY <2>3, <2>4 DEF Elsewhere, StartStep, StartBegin, StartInit, StartSpawn, StartAssign,
         StartSpin, StopBegin, StopSend, StopJoin, PostBegin, PostSend, LoopReturns, LoopExit,
         DtorBegin, DtorStep, DtorStopped, DtorWait, DtorJoin
  <2> QED BY <2>2, <2>3, <2>4, NextCases
          DEF StopPush, PostPush, OnAsync, RunPlain, RunPost, RunStop, RunDoStop, DrainEnd,
              DoStopEnd
<1> QED BY <1>1, LoopInvariance, PTL DEF LoopSpec, StopIsFinal

=============================================================================
