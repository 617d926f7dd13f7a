-------------------------- MODULE DagScheduler_proofs --------------------------
(***************************************************************************)
(* Proofs about DagScheduler, for every number of nodes, every set of      *)
(* acyclic plans and every limit on the jobs in flight, and about the      *)
(* ThreadPool it gives its jobs to.                                        *)
(***************************************************************************)
EXTENDS DagScheduler, ThreadPool, FiniteSetTheorems, SequenceTheorems, TLAPS

-----------------------------------------------------------------------------
(***************************************************************************)
(* The inductive invariant.                                                *)
(***************************************************************************)
Open == {n \in Node : ~results[n]}

\* The node has not been taken from the queue.
Fresh(n) == job[n] = "none" /\ n # current

\* A countdown is the number of dependencies without a result.
DepsInv == \A n \in Node : deps_remaining[n] = Cardinality(Slots(plan, n, Open))

\* The queue holds, once each, the nodes that are ready and were not taken.
QueueInv ==
    /\ \A i \in DOMAIN ready_queue :
          Fresh(ready_queue[i]) /\ deps_remaining[ready_queue[i]] = 0
    /\ \A i, j \in DOMAIN ready_queue : ready_queue[i] = ready_queue[j] => i = j
    /\ \A n \in Node : deps_remaining[n] = 0 /\ Fresh(n) => n \in Elems(ready_queue)
    /\ \A n \in Node : ~Fresh(n) => deps_remaining[n] = 0

\* A result is stored when the job succeeds; a job that ended without one has
\* left an error; current is the node between its dequeuing and its submit.
JobInv ==
    /\ \A n \in Node :
          /\ results[n] => job[n] \in {"notify", "done"}
          /\ job[n] = "notify" => results[n]
          /\ job[n] = "done" /\ ~results[n] => first_error
    /\ main = "submit" => current \in Node /\ job[current] = "none"
    /\ main # "submit" => current = 0

\* The calling thread leaves its loop with an empty queue and nothing in flight,
\* and throws with nothing in flight; no job is left to change that.
MainInv ==
    /\ main \in {"collect", "returned", "threw"} => inflight = 0
    /\ main \in {"collect", "returned"} => ready_queue = <<>>

IInv == TypeOK /\ DepsInv /\ QueueInv /\ JobInv /\ InflightExact /\ MainInv

-----------------------------------------------------------------------------
(***************************************************************************)
(* Facts about the operators the model is built from.                      *)
(***************************************************************************)

\* A plan's dependency list is a sequence of nodes.
LEMMA DepsOfType ==
    ASSUME NEW p \in Plans, NEW n \in Node
    PROVE  DepsOf(p, n) \in Seq(Node)
<1>1. p[n].inputs \in Seq(Node) /\ p[n].refs \in Seq(Node)
  BY PlansAssumption
<1> QED BY <1>1, ConcatProperties DEF DepsOf

\* The positions that name a node of S are finitely many.
LEMMA SlotsFinite ==
    ASSUME NEW p \in Plans, NEW n \in Node, NEW S
    PROVE  IsFiniteSet(Slots(p, n, S)) /\ Cardinality(Slots(p, n, S)) \in Nat
<1>1. DOMAIN DepsOf(p, n) = 1..Len(DepsOf(p, n)) /\ Len(DepsOf(p, n)) \in Nat
  BY DepsOfType, LenProperties
<1>2. IsFiniteSet(DOMAIN DepsOf(p, n))
  BY <1>1, FS_Interval
<1>3. Slots(p, n, S) \in SUBSET (DOMAIN DepsOf(p, n))
  BY DEF Slots
<1> QED BY <1>2, <1>3, FS_Subset, FS_CardinalityType

\* Taking one node out of S takes exactly its positions away.
LEMMA SlotsRemove ==
    ASSUME NEW p \in Plans, NEW n \in Node, NEW S, NEW m \in S
    PROVE  Cardinality(Slots(p, n, S \ {m}))
             = Cardinality(Slots(p, n, S)) - Cardinality(Slots(p, n, {m}))
<1> DEFINE A == Slots(p, n, S)
           B == Slots(p, n, {m})
<1>1. IsFiniteSet(A) /\ IsFiniteSet(B)
  BY SlotsFinite
<1>2. Slots(p, n, S \ {m}) = A \ B
  BY DEF Slots
<1>3. A \cap B = B
  BY DEF Slots
<1>4. Cardinality(A \ B) = Cardinality(A) - Cardinality(A \cap B)
  BY <1>1, FS_Difference
<1> QED BY <1>2, <1>3, <1>4

\* The set of nodes is finite.
LEMMA NodeFinite == IsFiniteSet(Node) /\ Cardinality(Node) = N
BY NAssumption, FS_Interval DEF Node

\* What the elements of a concatenation are.
LEMMA ElemsConcat ==
    ASSUME NEW S, NEW s \in Seq(S), NEW t \in Seq(S)
    PROVE  Elems(s \o t) = Elems(s) \cup Elems(t)
<1>1. /\ DOMAIN s = 1..Len(s) /\ DOMAIN t = 1..Len(t)
      /\ DOMAIN (s \o t) = 1..(Len(s) + Len(t))
      /\ Len(s) \in Nat /\ Len(t) \in Nat
  BY ConcatProperties, LenProperties
<1>2. \A i \in 1..(Len(s) + Len(t)) :
         (s \o t)[i] = IF i <= Len(s) THEN s[i] ELSE t[i - Len(s)]
  BY ConcatProperties
<1>3. ASSUME NEW x \in Elems(s \o t) PROVE x \in Elems(s) \cup Elems(t)
  <2>1. PICK i \in 1..(Len(s) + Len(t)) : x = (s \o t)[i]
    BY <1>1, <1>3 DEF Elems
  <2>2. CASE i <= Len(s)
    BY <1>1, <1>2, <2>1, <2>2 DEF Elems
  <2>3. CASE i > Len(s)
    <3>1. i - Len(s) \in 1..Len(t)
      BY <1>1, <2>1, <2>3
    <3> QED BY <1>1, <1>2, <2>1, <2>3, <3>1 DEF Elems
  <2> QED BY <1>1, <2>1, <2>2, <2>3
<1>4. ASSUME NEW x \in Elems(s) PROVE x \in Elems(s \o t)
  <2>1. PICK i \in 1..Len(s) : x = s[i]
    BY <1>1, <1>4 DEF Elems
  <2>2. i \in 1..(Len(s) + Len(t)) /\ (s \o t)[i] = x
    BY <1>1, <1>2, <2>1
  <2> QED BY <1>1, <2>2 DEF Elems
<1>5. ASSUME NEW x \in Elems(t) PROVE x \in Elems(s \o t)
  <2>1. PICK i \in 1..Len(t) : x = t[i]
    BY <1>1, <1>5 DEF Elems
  <2>2. (i + Len(s)) \in 1..(Len(s) + Len(t)) /\ (s \o t)[i + Len(s)] = x
    BY <1>1, <1>2, <2>1
  <2> QED BY <1>1, <2>2 DEF Elems
<1> QED BY <1>3, <1>4, <1>5

\* The ascending enumerations of S are duplicate-free sequences over S.
LEMMA AscendingFacts ==
    ASSUME NEW S, IsFiniteSet(S), S \subseteq Node, NEW s \in Ascending(S)
    PROVE  /\ s \in Seq(S) /\ s \in Seq(Node)
           /\ Elems(s) = S
           /\ \A i, j \in DOMAIN s : s[i] = s[j] => i = j
<1>1. Cardinality(S) \in Nat
  BY FS_CardinalityType
<1>2. s \in [1..Cardinality(S) -> S]
  BY DEF Ascending
<1>3. s \in Seq(S)
  BY <1>1, <1>2
<1>4. s \in Seq(Node)
  BY <1>3, SeqMonotonic
<1>5. ASSUME NEW i \in DOMAIN s, NEW j \in DOMAIN s, s[i] = s[j]
      PROVE  i = j
  <2>0. DOMAIN s = 1..Cardinality(S) /\ s[i] \in Node /\ s[j] \in Node
    BY <1>2
  <2>1. i \in Nat /\ j \in Nat /\ s[i] \in Int /\ s[j] \in Int
    BY <1>1, <2>0, NAssumption DEF Node
  <2>2. ~(i < j) /\ ~(j < i)
    BY <1>5, <2>1 DEF Ascending
  <2> QED BY <2>1, <2>2
<1> QED BY <1>3, <1>4, <1>5 DEF Ascending

\* A countdown is over exactly when every dependency has a result.
LEMMA CountdownOver ==
    ASSUME TypeOK, DepsInv, NEW n \in Node
    PROVE  deps_remaining[n] = 0 <=> Slots(plan, n, Open) = {}
BY SlotsFinite, FS_EmptySet DEF TypeOK, DepsInv

\* The set of live jobs is finite.
LEMMA LiveFinite == IsFiniteSet(Live) /\ Cardinality(Live) \in Nat
<1>1. Live \in SUBSET Node
  BY DEF Live
<1> QED BY <1>1, NodeFinite, FS_Subset, FS_CardinalityType

\* No node has the index that stands for none.
LEMMA ZeroNoNode == 0 \notin Node
BY NAssumption DEF Node

-----------------------------------------------------------------------------
(***************************************************************************)
(* The initial state.                                                      *)
(***************************************************************************)
LEMMA InitIInv == Init => IInv
<1> SUFFICES ASSUME Init PROVE IInv
  OBVIOUS
<1> DEFINE R == {n \in Node : DepsOf(plan, n) = <<>>}
<1>0. plan \in Plans
  BY DEF Init
<1>1. IsFiniteSet(R) /\ R \subseteq Node
  BY NodeFinite, FS_Subset
<1>2. ready_queue \in Ascending(R)
  BY DEF Init
<1> HIDE DEF R
<1>3. /\ ready_queue \in Seq(Node) /\ Elems(ready_queue) = R
      /\ \A i, j \in DOMAIN ready_queue : ready_queue[i] = ready_queue[j] => i = j
  BY <1>1, <1>2, AscendingFacts
<1>4. \A n \in Node : DepsOf(plan, n) \in Seq(Node) /\ Len(DepsOf(plan, n)) \in Nat
  BY <1>0, DepsOfType, LenProperties
<1>5. TypeOK
  BY <1>0, <1>3, <1>4 DEF Init, TypeOK
<1>6. Open = Node
  BY DEF Init, Open
<1>7. ASSUME NEW n \in Node
      PROVE  deps_remaining[n] = Cardinality(Slots(plan, n, Node))
  <2> DEFINE d == DepsOf(plan, n)
  <2>1. d \in Seq(Node) /\ Len(d) \in Nat /\ DOMAIN d = 1..Len(d)
    BY <1>4, LenProperties
  <2>2. Slots(plan, n, Node) = 1..Len(d)
    BY <2>1, ElementOfSeq DEF Slots
  <2>3. Cardinality(1..Len(d)) = Len(d)
    BY <2>1, FS_Interval
  <2> QED BY <2>2, <2>3 DEF Init
<1>8. DepsInv
  BY <1>6, <1>7 DEF DepsInv
<1>9. \A n \in Node : Fresh(n)
  BY ZeroNoNode DEF Init, Fresh
<1>10. \A n \in Node : n \in R <=> deps_remaining[n] = 0
  <2> SUFFICES ASSUME NEW n \in Node PROVE DepsOf(plan, n) = <<>> <=> Len(DepsOf(plan, n)) = 0
    BY DEF Init, R
  <2> QED BY <1>4, EmptySeq
<1>11. \A i \in DOMAIN ready_queue : ready_queue[i] \in R
  BY <1>3 DEF Elems
<1>12. QueueInv
  BY <1>1, <1>3, <1>9, <1>10, <1>11 DEF QueueInv
<1>13. JobInv
  BY DEF Init, JobInv
<1>14. InflightExact
  <2>1. Live = {}
    BY DEF Init, Live
  <2>2. Cardinality(Live) = 0
    BY <2>1, FS_EmptySet
  <2> QED BY <2>2, InflightAssumption DEF Init, InflightExact
<1>15. MainInv
  BY DEF Init, MainInv
<1> QED BY <1>5, <1>8, <1>12, <1>13, <1>14, <1>15 DEF IInv

-----------------------------------------------------------------------------
(***************************************************************************)
(* The steps of the calling thread.                                        *)
(***************************************************************************)

\* Steps that leave the scheduler state and the jobs' places alone.
LEMMA QuietStep ==
    ASSUME IInv, TypeOK', UNCHANGED <<plan, schedVars, current>>,
           (main' = "submit") = (main = "submit"),
           \A n \in Node : job'[n] = job[n]
                           \/ (job[n] = "submitted" /\ job'[n] = "running")
                           \/ (job[n] = "notify" /\ job'[n] = "done"),
           MainInv'
    PROVE  IInv'
<1> USE DEF IInv, schedVars
<1>1. DepsInv'
  BY DEF DepsInv, Open
<1>2. \A n \in Node : Fresh(n)' <=> Fresh(n)
  BY DEF Fresh
<1>3. \A i \in DOMAIN ready_queue : ready_queue[i] \in Node
  BY ElementOfSeq, LenProperties DEF TypeOK
<1>4. QueueInv'
  BY <1>2, <1>3 DEF QueueInv
<1>5. JobInv'
  BY DEF JobInv
<1>6. Live' = Live
  BY DEF Live
<1>7. InflightExact'
  BY <1>6 DEF InflightExact
<1> QED BY <1>1, <1>4, <1>5, <1>7

\* The head of the queue becomes the current node and is counted.
LEMMA TakeStep ==
    ASSUME IInv, main \in {"top", "relock"}, ready_queue # <<>>, inflight < MaxInflight,
           ready_queue' = Tail(ready_queue), inflight' = inflight + 1,
           current' = Head(ready_queue), main' = "submit",
           UNCHANGED <<plan, deps_remaining, results, first_error, job>>
    PROVE  IInv'
<1> USE DEF IInv
<1> DEFINE q == ready_queue
           h == Head(ready_queue)
<1>1. /\ DOMAIN q = 1..Len(q) /\ Len(q) \in Nat /\ 1 \in DOMAIN q
      /\ h = q[1] /\ h \in Node
      /\ q' \in Seq(Node) /\ DOMAIN q' = 1..(Len(q) - 1)
      /\ \A i \in DOMAIN q' : q'[i] = q[i + 1] /\ i + 1 \in DOMAIN q /\ i + 1 # 1
      /\ \A i \in DOMAIN q : q[i] \in Node
  BY HeadTailProperties, LenProperties, ElementOfSeq DEF TypeOK
<1>2. TypeOK'
  BY <1>1 DEF TypeOK
<1>3. DepsInv'
  BY DEF DepsInv, Open
<1>4. current = 0
  BY DEF JobInv
<1>5. job[h] = "none" /\ deps_remaining[h] = 0
  BY <1>1 DEF QueueInv, Fresh
<1>6. \A n \in Node : Fresh(n)' <=> Fresh(n) /\ n # h
  BY <1>4, ZeroNoNode DEF Fresh
<1>7. \A i \in DOMAIN q' : q'[i] # h /\ q'[i] \in Node
  BY <1>1 DEF QueueInv
<1>8. QueueInv'
  <2>1. \A i \in DOMAIN q : job[q[i]] = "none" /\ deps_remaining[q[i]] = 0
    BY DEF QueueInv, Fresh
  <2>2. \A i \in DOMAIN q' : /\ job'[q'[i]] = "none" /\ q'[i] # current'
                             /\ deps_remaining'[q'[i]] = 0
    BY <1>1, <1>7, <2>1
  <2>3. \A i, j \in DOMAIN q' : q'[i] = q'[j] => i = j
    <3> SUFFICES ASSUME NEW i \in DOMAIN q', NEW j \in DOMAIN q', q'[i] = q'[j] PROVE i = j
      OBVIOUS
    <3>1. i + 1 = j + 1
      BY <1>1 DEF QueueInv
    <3> QED BY <1>1, <3>1
  <2>4. ASSUME NEW n \in Node, deps_remaining'[n] = 0, Fresh(n)' PROVE n \in Elems(q')
    <3>1. PICK i \in DOMAIN q : q[i] = n /\ i # 1
      BY <1>1, <1>6, <2>4 DEF QueueInv, Elems
    <3>2. i - 1 \in DOMAIN q' /\ (i - 1) + 1 = i
      BY <1>1, <3>1
    <3> QED BY <1>1, <3>1, <3>2 DEF Elems
  <2>5. \A n \in Node : ~(Fresh(n)') => deps_remaining'[n] = 0
    BY <1>5, <1>6 DEF QueueInv
  <2> QED BY <2>2, <2>3, <2>4, <2>5 DEF QueueInv, Fresh
<1>9. JobInv'
  BY <1>1, <1>5 DEF JobInv
<1>10. InflightExact'
  <2>1. Live' = Live
    BY DEF Live
  <2>2. inflight = Cardinality(Live) + 0 /\ inflight <= MaxInflight
    BY DEF InflightExact
  <2> QED BY <2>1, <2>2, LiveFinite, InflightAssumption DEF InflightExact, TypeOK
<1>11. MainInv'
  BY DEF MainInv
<1> QED BY <1>2, <1>3, <1>8, <1>9, <1>10, <1>11

\* One round of the dispatch loop.
LEMMA DispatchStep ==
    ASSUME IInv, main \in {"top", "relock"}, Dispatch,
           UNCHANGED <<plan, deps_remaining, results, first_error, job>>
    PROVE  IInv'
<1>1. CASE ready_queue # <<>> /\ inflight < MaxInflight
  BY <1>1, TakeStep, InflightAssumption DEF Dispatch, IInv, TypeOK
<1>2. CASE ~(ready_queue # <<>> /\ inflight < MaxInflight)
  <2>1. /\ UNCHANGED <<ready_queue, inflight, current>>
        /\ \/ main' = "asleep"
           \/ main' = "collect" /\ inflight = 0 /\ ready_queue = <<>>
    BY <1>2 DEF Dispatch
  <2>2. TypeOK'
    BY <2>1 DEF IInv, TypeOK
  <2>3. MainInv'
    BY <2>1 DEF MainInv
  <2> QED BY <2>1, <2>2, <2>3, QuietStep DEF schedVars
<1> QED BY <1>1, <1>2

\* pool.submit: the node that was counted becomes a live job.
LEMMA SubmitStep ==
    ASSUME IInv, MainSubmit
    PROVE  IInv'
<1> USE DEF IInv
<1> DEFINE c == current
<1>1. /\ main = "submit" /\ main' = "relock" /\ current' = 0
      /\ c \in Node /\ job[c] = "none"
      /\ job' = [job EXCEPT ![c] = "submitted"]
      /\ UNCHANGED <<plan, deps_remaining, results, ready_queue, inflight, first_error>>
  BY DEF MainSubmit, JobInv, schedVars
<1>2. job'[c] = "submitted" /\ \A n \in Node : n # c => job'[n] = job[n]
  BY <1>1 DEF TypeOK
<1>3. TypeOK'
  BY <1>1 DEF TypeOK
<1>4. DepsInv'
  BY <1>1 DEF DepsInv, Open
<1>5. \A n \in Node : Fresh(n)' <=> Fresh(n)
  BY <1>1, <1>2, ZeroNoNode DEF Fresh
<1>6. \A i \in DOMAIN ready_queue : ready_queue[i] \in Node
  BY ElementOfSeq, LenProperties DEF TypeOK
<1>7. QueueInv'
  BY <1>1, <1>5, <1>6 DEF QueueInv
<1>8. JobInv'
  BY <1>1, <1>2 DEF JobInv
<1>9. InflightExact'
  <2>1. Live' = Live \cup {c} /\ c \notin Live
    BY <1>1, <1>2 DEF Live
  <2>2. Cardinality(Live') = Cardinality(Live) + 1
    BY <2>1, LiveFinite, FS_AddElement
  <2> QED BY <1>1, <2>2, LiveFinite DEF InflightExact
<1>10. MainInv'
  BY <1>1 DEF MainInv
<1> QED BY <1>3, <1>4, <1>7, <1>8, <1>9, <1>10

-----------------------------------------------------------------------------
(***************************************************************************)
(* The steps of a job.                                                     *)
(***************************************************************************)

\* A live job ends: one less is in flight, whatever the calling thread does, and
\* a thread that has left its loop would have waited for it.
LEMMA LiveEnds ==
    ASSUME IInv, NEW n \in Node, job[n] = "running", job'[n] \in {"notify", "done"},
           \A m \in Node : m # n => job'[m] = job[m],
           inflight' = inflight - 1, (main' = "submit") = (main = "submit")
    PROVE  /\ InflightExact' /\ inflight' \in Nat /\ inflight > 0
           /\ main \notin {"collect", "returned", "threw"}
<1>1. Live' = Live \ {n} /\ n \in Live
  BY DEF Live
<1>2. Cardinality(Live') = Cardinality(Live) - 1 /\ Cardinality(Live') \in Nat
  BY <1>1, LiveFinite, FS_RemoveElement, FS_CardinalityType
<1>3. /\ inflight = Cardinality(Live) + (IF main = "submit" THEN 1 ELSE 0)
      /\ inflight <= MaxInflight /\ inflight \in Nat
  BY DEF IInv, InflightExact, TypeOK
<1>4. inflight' \in Nat /\ inflight > 0
  BY <1>2, <1>3, LiveFinite
<1>5. InflightExact'
  BY <1>2, <1>3, <1>4, LiveFinite, InflightAssumption DEF InflightExact
<1>6. main \notin {"collect", "returned", "threw"}
  BY <1>4 DEF IInv, MainInv
<1> QED BY <1>4, <1>5, <1>6

\* run_node_job stores the result and wakes the successors whose countdown ends.
LEMMA SucceedsStep ==
    ASSUME IInv, NEW n \in Node, JobSucceeds(n)
    PROVE  IInv'
<1> USE DEF IInv
<1> DEFINE left == [m \in Node |-> deps_remaining[m] - Cardinality(Slots(plan, m, {n}))]
           woken == {m \in Node : Slots(plan, m, {n}) # {} /\ left[m] = 0}
<1>0. /\ job[n] = "running"
      /\ plan \in Plans /\ results \in [Node -> BOOLEAN]
      /\ results' = [results EXCEPT ![n] = TRUE]
      /\ deps_remaining' = left
      /\ inflight' = inflight - 1
      /\ job' = [job EXCEPT ![n] = "notify"]
      /\ UNCHANGED <<plan, first_error, main, current>>
  BY DEF JobSucceeds, TypeOK
<1>1. job'[n] = "notify" /\ \A m \in Node : m # n => job'[m] = job[m]
  BY <1>0 DEF TypeOK
<1>2. n \in Open /\ Open' = Open \ {n}
  BY <1>0 DEF JobInv, Open
<1>3. DepsInv'
  <2> SUFFICES ASSUME NEW m \in Node
               PROVE  deps_remaining'[m] = Cardinality(Slots(plan, m, Open \ {n}))
    BY <1>0, <1>2 DEF DepsInv
  <2> QED BY <1>0, <1>2, SlotsRemove DEF DepsInv
<1>4. \A m \in Node : /\ deps_remaining[m] \in Nat /\ deps_remaining'[m] \in Nat
                      /\ Cardinality(Slots(plan, m, {n})) \in Nat
                      /\ deps_remaining'[m]
                           = deps_remaining[m] - Cardinality(Slots(plan, m, {n}))
  BY <1>0, <1>3, SlotsFinite DEF DepsInv
<1>5. \A m \in Node : Cardinality(Slots(plan, m, {n})) = 0 <=> Slots(plan, m, {n}) = {}
  BY <1>0, SlotsFinite, FS_EmptySet
<1>6. \A m \in Node : Fresh(m)' <=> Fresh(m)
  BY <1>0, <1>1 DEF Fresh
<1>7. ~Fresh(n)
  BY <1>0 DEF Fresh
<1>8. \A m \in woken : m \in Node /\ Fresh(m) /\ deps_remaining[m] # 0 /\ deps_remaining'[m] = 0
  <2> SUFFICES ASSUME NEW m \in woken
               PROVE  m \in Node /\ Fresh(m) /\ deps_remaining[m] # 0 /\ deps_remaining'[m] = 0
    OBVIOUS
  <2>1. m \in Node /\ Slots(plan, m, {n}) # {} /\ deps_remaining'[m] = 0
    BY <1>0
  <2>2. Cardinality(Slots(plan, m, {n})) # 0
    BY <1>5, <2>1
  <2>3. deps_remaining[m] # 0
    <3> HIDE DEF left, woken
    <3> QED BY <1>4, <2>1, <2>2
  <2> QED BY <2>1, <2>3 DEF QueueInv
<1>9. PICK s \in Ascending(woken) : ready_queue' = ready_queue \o s
  BY DEF JobSucceeds
<1>10. /\ s \in Seq(Node) /\ Elems(s) = woken
       /\ \A i, j \in DOMAIN s : s[i] = s[j] => i = j
  <2>1. IsFiniteSet(woken) /\ woken \subseteq Node
    BY NodeFinite, FS_Subset
  <2> HIDE DEF woken
  <2> QED BY <1>9, <2>1, AscendingFacts
<1>11. ASSUME NEW m \in Node, deps_remaining'[m] = 0, Fresh(m)
       PROVE  m \in Elems(ready_queue) \cup woken
  <2>1. CASE deps_remaining[m] = 0
    BY <1>11, <2>1 DEF QueueInv
  <2>2. CASE deps_remaining[m] # 0
    <3> DEFINE k == Cardinality(Slots(plan, m, {n}))
    <3>1. deps_remaining[m] \in Nat /\ k \in Nat /\ deps_remaining'[m] = deps_remaining[m] - k
      BY <1>4
    <3> HIDE DEF k, left, woken
    <3>2. k # 0
      BY <1>11, <2>2, <3>1
    <3>3. Slots(plan, m, {n}) # {}
      BY <1>5, <3>2 DEF k
    <3> QED BY <1>0, <1>11, <3>3 DEF woken, left
  <2> QED BY <2>1, <2>2
<1>12. \A m \in Node : deps_remaining[m] = 0 => deps_remaining'[m] = 0
  <2> HIDE DEF left, woken
  <2> QED BY <1>4
<1> HIDE DEF left, woken
<1>13. QueueInv'
  <2> DEFINE q == ready_queue
  <2>1. /\ q \in Seq(Node) /\ Len(q) \in Nat /\ Len(s) \in Nat
        /\ DOMAIN q = 1..Len(q) /\ DOMAIN s = 1..Len(s)
        /\ DOMAIN ready_queue' = 1..(Len(q) + Len(s))
        /\ \A i \in 1..(Len(q) + Len(s)) :
              ready_queue'[i] = IF i <= Len(q) THEN q[i] ELSE s[i - Len(q)]
        /\ Elems(ready_queue') = Elems(q) \cup woken
    BY <1>9, <1>10, ConcatProperties, LenProperties, ElemsConcat DEF TypeOK
  <2>2. \A i \in DOMAIN s : s[i] \in woken
    BY <1>10 DEF Elems
  <2>3. \A m \in Elems(q) : m \in Node /\ Fresh(m) /\ deps_remaining[m] = 0
    <3>1. \A i \in 1..Len(q) : q[i] \in Node /\ Fresh(q[i]) /\ deps_remaining[q[i]] = 0
      BY <2>1, ElementOfSeq DEF QueueInv
    <3> QED BY <2>1, <3>1 DEF Elems
  <2>4. \A i \in DOMAIN ready_queue' : ready_queue'[i] \in Elems(q) \cup woken
    BY <2>1 DEF Elems
  <2>5. \A m \in Elems(q) \cup woken : m \in Node /\ Fresh(m)' /\ deps_remaining'[m] = 0
    BY <1>6, <1>8, <1>12, <2>3
  <2>6. \A i, j \in DOMAIN ready_queue' : ready_queue'[i] = ready_queue'[j] => i = j
    <3> SUFFICES ASSUME NEW i \in 1..(Len(q) + Len(s)), NEW j \in 1..(Len(q) + Len(s)),
                        i < j, ready_queue'[i] = ready_queue'[j]
                 PROVE  FALSE
      BY <2>1
    <3>1. CASE j <= Len(q)
      <4>1. q[i] = q[j] /\ i \in DOMAIN q /\ j \in DOMAIN q
        BY <2>1, <3>1
      <4> QED BY <4>1 DEF QueueInv
    <3>2. CASE i <= Len(q) /\ j > Len(q)
      <4>1. /\ q[i] = s[j - Len(q)] /\ i \in DOMAIN q /\ j - Len(q) \in DOMAIN s
        BY <2>1, <3>2
      <4>2. q[i] \in Elems(q) /\ q[i] \in woken
        BY <2>2, <4>1 DEF Elems
      <4> QED BY <1>8, <2>3, <4>2
    <3>3. CASE i > Len(q)
      <4>1. /\ s[i - Len(q)] = s[j - Len(q)]
            /\ i - Len(q) \in DOMAIN s /\ j - Len(q) \in DOMAIN s
        BY <2>1, <3>3
      <4>2. i - Len(q) = j - Len(q)
        BY <1>10, <4>1
      <4> QED BY <2>1, <4>2
    <3> QED BY <2>1, <3>1, <3>2, <3>3
  <2>7. \A m \in Node : deps_remaining'[m] = 0 /\ Fresh(m)' => m \in Elems(ready_queue')
    BY <1>6, <1>11, <2>1
  <2>8. \A m \in Node : ~(Fresh(m)') => deps_remaining'[m] = 0
    BY <1>6, <1>12 DEF QueueInv
  <2>9. \A i \in DOMAIN ready_queue' :
           /\ job'[ready_queue'[i]] = "none" /\ ready_queue'[i] # current'
           /\ deps_remaining'[ready_queue'[i]] = 0
    BY <2>4, <2>5 DEF Fresh
  <2> QED BY <2>6, <2>7, <2>8, <2>9 DEF QueueInv, Fresh
<1>14. JobInv'
  BY <1>0, <1>1 DEF JobInv
<1>15. InflightExact' /\ inflight' \in Nat /\ main \notin {"collect", "returned", "threw"}
  BY <1>0, <1>1, LiveEnds
<1>16. TypeOK'
  <2>1. deps_remaining' \in [Node -> Nat]
    BY <1>0, <1>4 DEF left
  <2>2. ready_queue' \in Seq(Node)
    BY <1>9, <1>10, ConcatProperties DEF TypeOK
  <2> QED BY <1>0, <1>15, <2>1, <2>2 DEF TypeOK
<1>17. MainInv'
  BY <1>0, <1>15 DEF MainInv
<1> QED BY <1>3, <1>13, <1>14, <1>15, <1>16, <1>17

\* A job that fails leaves the countdowns and the queue alone.
LEMMA FailsStep ==
    ASSUME IInv, NEW n \in Node, JobFails(n)
    PROVE  IInv'
<1> USE DEF IInv
<1>1. /\ job[n] = "running" /\ job' = [job EXCEPT ![n] = "done"]
      /\ first_error' = TRUE /\ inflight' = inflight - 1 /\ main' = Woken
      /\ UNCHANGED <<plan, deps_remaining, results, ready_queue, current>>
  BY DEF JobFails
<1>2. job'[n] = "done" /\ \A m \in Node : m # n => job'[m] = job[m]
  BY <1>1 DEF TypeOK
<1>3. /\ (main' = "submit") = (main = "submit")
      /\ main' \in {"top", "submit", "relock", "asleep", "drain", "draining",
                    "collect", "returned", "threw"}
      /\ main' \in {"collect", "returned", "threw"} => main' = main
  BY <1>1 DEF Woken, TypeOK
<1>4. InflightExact' /\ inflight' \in Nat /\ main \notin {"collect", "returned", "threw"}
  BY <1>1, <1>2, <1>3, LiveEnds
<1>5. TypeOK'
  BY <1>1, <1>3, <1>4 DEF TypeOK
<1>6. DepsInv'
  BY <1>1 DEF DepsInv, Open
<1>7. \A m \in Node : Fresh(m)' <=> Fresh(m)
  BY <1>1, <1>2 DEF Fresh
<1>8. \A i \in DOMAIN ready_queue : ready_queue[i] \in Node
  BY ElementOfSeq, LenProperties DEF TypeOK
<1>9. QueueInv'
  BY <1>1, <1>7, <1>8 DEF QueueInv
<1>10. JobInv'
  BY <1>1, <1>2, <1>3 DEF JobInv
<1>11. MainInv'
  BY <1>3, <1>4 DEF MainInv
<1> QED BY <1>4, <1>5, <1>6, <1>9, <1>10, <1>11

\* Every step keeps the invariant.
LEMMA NextIInv == IInv /\ [Next]_vars => IInv'
<1> SUFFICES ASSUME IInv, [Next]_vars PROVE IInv'
  OBVIOUS
<1> USE DEF IInv
<1>1. CASE MainTop
  <2>1. CASE ~first_error
    BY <1>1, <2>1, DispatchStep DEF MainTop
  <2>2. CASE first_error
    <3>1. /\ UNCHANGED <<plan, schedVars, current, job>> /\ main = "top" /\ main' = "drain"
      BY <1>1, <2>2 DEF MainTop, schedVars
    <3>2. TypeOK' /\ MainInv'
      BY <3>1 DEF TypeOK, MainInv, schedVars
    <3> QED BY <3>1, <3>2, QuietStep
  <2> QED BY <2>1, <2>2
<1>2. CASE MainSubmit
  BY <1>2, SubmitStep
<1>3. CASE MainRelock
  BY <1>3, DispatchStep DEF MainRelock
<1>4. CASE MainDrain
  <2>1. /\ UNCHANGED <<plan, schedVars, current, job>> /\ main = "drain"
        /\ main' \in {"threw", "draining"} /\ (main' = "threw" => inflight = 0)
    BY <1>4 DEF MainDrain
  <2>2. TypeOK' /\ MainInv'
    BY <2>1 DEF TypeOK, MainInv, schedVars
  <2> QED BY <2>1, <2>2, QuietStep
<1>5. CASE MainCollect
  <2>1. UNCHANGED <<plan, schedVars, current, job>> /\ main = "collect" /\ main' = "returned"
    BY <1>5 DEF MainCollect
  <2>2. TypeOK' /\ MainInv'
    BY <2>1 DEF TypeOK, MainInv, schedVars
  <2> QED BY <2>1, <2>2, QuietStep
<1>6. CASE MainSpuriousWake
  <2>1. /\ UNCHANGED <<plan, schedVars, current, job>> /\ main \in {"asleep", "draining"}
        /\ main' \in {"top", "drain"}
    BY <1>6 DEF MainSpuriousWake, Woken
  <2>2. TypeOK' /\ MainInv'
    BY <2>1 DEF TypeOK, MainInv, schedVars
  <2> QED BY <2>1, <2>2, QuietStep
<1>7. ASSUME NEW n \in Node, JobStart(n) \/ JobNotify(n) PROVE IInv'
  <2>1. /\ UNCHANGED <<plan, schedVars, current>>
        /\ \/ job[n] = "submitted" /\ job' = [job EXCEPT ![n] = "running"]
           \/ job[n] = "notify" /\ job' = [job EXCEPT ![n] = "done"]
        /\ main' \in {main, Woken}
    BY <1>7 DEF JobStart, JobNotify
  <2>2. /\ (main' = "submit") = (main = "submit")
        /\ main' \in {"top", "submit", "relock", "asleep", "drain", "draining",
                      "collect", "returned", "threw"}
        /\ main' \in {"collect", "returned", "threw"} => main' = main
    BY <2>1 DEF Woken, TypeOK
  <2>3. TypeOK' /\ MainInv'
    BY <2>1, <2>2 DEF TypeOK, MainInv, schedVars
  <2>4. \A m \in Node : job'[m] = job[m]
                        \/ (job[m] = "submitted" /\ job'[m] = "running")
                        \/ (job[m] = "notify" /\ job'[m] = "done")
    BY <2>1 DEF TypeOK
  <2> QED BY <2>1, <2>2, <2>3, <2>4, QuietStep
<1>8. ASSUME NEW n \in Node, JobSucceeds(n) PROVE IInv'
  BY <1>8, SucceedsStep
<1>9. ASSUME NEW n \in Node, JobFails(n) PROVE IInv'
  BY <1>9, FailsStep
<1>10. CASE UNCHANGED vars
  <2>1. UNCHANGED <<plan, schedVars, current, job, main>>
    BY <1>10 DEF vars
  <2>2. TypeOK' /\ MainInv'
    BY <2>1 DEF TypeOK, MainInv, schedVars
  <2> QED BY <2>1, <2>2, QuietStep
<1> QED BY <1>1, <1>2, <1>3, <1>4, <1>5, <1>6, <1>7, <1>8, <1>9, <1>10
        DEF Next, MainStep, JobStep

-----------------------------------------------------------------------------
(***************************************************************************)
(* The theorems.                                                           *)
(***************************************************************************)

\* The bookkeeping of execute_plan_parallel is sound for every plan and limit:
\* countdowns and the counter keep their types, a job that is submitted finds
\* the results of all its inputs, and inflight is exact and within
\* max_nodes_inflight although the mutex is given up around each submit.
THEOREM ParallelJobsSound == Spec => []JobsSound
<1>1. IInv => JobsSound
  <2> SUFFICES ASSUME IInv, NEW n \in Node, job[n] \in {"submitted", "running"},
                      NEW k \in DOMAIN DepsOf(plan, n)
               PROVE  results[DepsOf(plan, n)[k]]
    BY DEF IInv, JobsSound, InputsPresent
  <2>1. deps_remaining[n] = 0
    BY DEF IInv, QueueInv, Fresh
  <2>2. Slots(plan, n, Open) = {}
    BY <2>1, CountdownOver DEF IInv
  <2>3. DepsOf(plan, n)[k] \in Node
    BY DepsOfType, ElementOfSeq, LenProperties DEF IInv, TypeOK
  <2> QED BY <2>2, <2>3 DEF Slots, Open
<1>2. IInv /\ [Next]_vars => IInv'
  BY NextIInv
<1> QED BY InitIInv, <1>1, <1>2, PTL DEF Spec

\* execute_plan_parallel never returns or throws before every job has left its last
\* critical section, so no job touches results, counters or errors afterwards; a job
\* that has succeeded may still be about to call notify_one, on a state that is gone.
\* And a return without a recorded error has a result for every node: by acyclicity a
\* node without one would leave another that is ready, hence in the empty queue.
THEOREM ParallelEndsComplete == Spec => []EndsComplete
<1>1. IInv => EndsComplete
  <2> SUFFICES ASSUME IInv PROVE EndsComplete
    OBVIOUS
  <2>1. main \in {"collect", "returned", "threw"} => Live = {}
    <3> SUFFICES ASSUME main \in {"collect", "returned", "threw"} PROVE Live = {}
      OBVIOUS
    <3>1. Cardinality(Live) = 0
      BY LiveFinite DEF IInv, MainInv, InflightExact
    <3> QED BY <3>1, LiveFinite, FS_EmptySet
  <2>2. ASSUME main \in {"collect", "returned"}, ~first_error, Open # {} PROVE FALSE
    <3>1. Open \in SUBSET Node /\ plan \in Plans
      BY DEF Open, IInv, TypeOK
    <3>2. PICK n \in Open : Slots(plan, n, Open) = {}
      BY <2>2, <3>1, PlansAssumption DEF Acyclic
    <3>3. n \in Node /\ ~results[n] /\ deps_remaining[n] = 0
      BY <3>2, CountdownOver DEF Open, IInv
    <3>4. n # current
      BY <2>2, <3>3, ZeroNoNode DEF IInv, JobInv
    <3>5. job[n] = "none"
      BY <2>1, <2>2, <3>3 DEF IInv, TypeOK, JobInv, Live
    <3>6. n \in Elems(ready_queue)
      BY <3>3, <3>4, <3>5 DEF IInv, QueueInv, Fresh
    <3>7. ready_queue = <<>>
      BY <2>2 DEF IInv, MainInv
    <3> QED BY <3>6, <3>7 DEF Elems
  <2>3. ASSUME Ended, NEW n \in Node
        PROVE  job[n] \in {"none", "done"} \/ (job[n] = "notify" /\ results[n])
    BY <2>1, <2>3 DEF Ended, Live, IInv, TypeOK, JobInv
  <2> QED BY <2>2, <2>3 DEF EndsComplete, Open
<1>2. IInv /\ [Next]_vars => IInv'
  BY NextIInv
<1> QED BY InitIInv, <1>1, <1>2, PTL DEF Spec

-----------------------------------------------------------------------------
(***************************************************************************)
(* The pool that runs the jobs: module ThreadPool on its own, for every    *)
(* finite number of workers, of tasks (with any tasks submitted from the   *)
(* bodies of others) and any waiters.                                      *)
(***************************************************************************)
-----------------------------------------------------------------------------
(***************************************************************************)
(* The inductive invariant.  in_flight alone says how many tasks are under *)
(* way; that none of them is dropped or executed twice needs to know where *)
(* each accepted task is: in the queue, with one worker, or executed.      *)
(***************************************************************************)
Pending == {t \in Task : Accepted(t) /\ t \notin ran}
Counting == {w \in Worker : worker[w].at = "count"}
Runs(w, t) == worker[w].at = "run" /\ worker[w].task = t

\* The queue holds each of its tasks once, and only tasks that nobody has taken.
PoolQueueInv ==
    /\ \A i, j \in DOMAIN tasks : tasks[i] = tasks[j] => i = j
    /\ \A i \in DOMAIN tasks : tasks[i] \in Pending
    /\ \A i \in DOMAIN tasks, w \in Worker : ~Runs(w, tasks[i])

\* A worker holds a task of its own, pending until it has run and counted after.
HoldInv ==
    /\ \A w \in Worker : worker[w].at = "run" => worker[w].task \in Pending
    /\ \A w \in Worker : worker[w].at = "count" => worker[w].task \in ran
    /\ \A v, w \in Worker :
          /\ worker[v].at \in {"run", "count"} /\ worker[w].at \in {"run", "count"}
          /\ worker[v].task = worker[w].task
          => v = w

\* An accepted task is in the queue, with a worker, or has run; nothing else runs.
PlaceInv ==
    /\ \A t \in Pending : (\E i \in DOMAIN tasks : tasks[i] = t) \/ (\E w \in Worker : Runs(w, t))
    /\ \A t \in ran : Accepted(t)

\* A worker leaves a stopped pool with an empty queue, which stays empty.
StopInv ==
    /\ stop = (dtor # "none")
    /\ \A w \in Worker : worker[w].at = "exited" => stop /\ tasks = <<>>
    /\ dtor = "destroyed" => \A w \in Worker : worker[w].at = "exited"

\* The types but for the range of in_flight, which needs the exact count.
PoolTypes ==
    /\ tasks \in Seq(Task)
    /\ in_flight \in Nat
    /\ stop \in BOOLEAN
    /\ sub \in [Task -> {"idle", "notify", "returned", "threw"}]
    /\ ran \subseteq Task
    /\ worker \in [Worker -> [at : {"check", "asleep", "run", "count", "notify", "exited"},
                              task : Task \cup {NoTask}]]
    /\ waiter \in [Waiter -> {"idle", "check", "holding", "asleep", "returned"}]
    /\ dtor \in {"none", "notify", "join", "destroyed"}

PoolInv ==
    /\ PoolTypes /\ PoolQueueInv /\ HoldInv /\ PlaceInv /\ StopInv /\ InFlightExact

-----------------------------------------------------------------------------
(***************************************************************************)
(* Counting.                                                               *)
(***************************************************************************)

\* The exact count, spelled out.
LEMMA CountExact ==
    /\ InFlightExact <=> in_flight = Cardinality(Pending) + Cardinality(Counting)
    /\ InFlightExact' <=> in_flight' = Cardinality(Pending') + Cardinality(Counting')
BY DEF InFlightExact, Pending, Counting

\* The sets that in_flight counts are finite.
LEMMA CountedFinite ==
    ASSUME NEW P \in SUBSET Task, NEW C \in SUBSET Worker
    PROVE  /\ IsFiniteSet(P) /\ Cardinality(P) \in Nat
           /\ IsFiniteSet(C) /\ Cardinality(C) \in Nat
BY PoolAssumption, FS_Subset, FS_CardinalityType

\* Pending tasks and workers with an executed task of their own are never more
\* than the tasks there are: in_flight_ stays within its range.
LEMMA CountBound ==
    ASSUME NEW P \in SUBSET Task, NEW R \in SUBSET Task, P \cap R = {},
           NEW C \in SUBSET Worker, NEW h \in [C -> R],
           \A v, w \in C : h[v] = h[w] => v = w
    PROVE  Cardinality(P) + Cardinality(C) \in 0..Cardinality(Task)
<1>1. /\ IsFiniteSet(P) /\ Cardinality(P) \in Nat
      /\ IsFiniteSet(C) /\ Cardinality(C) \in Nat
      /\ IsFiniteSet(R) /\ Cardinality(R) \in Nat
  BY CountedFinite
<1>2. h \in Injection(C, R)
  BY DEF Injection, IsInjective
<1>3. Cardinality(C) <= Cardinality(R)
  BY <1>1, <1>2, FS_Injection
<1>4. /\ IsFiniteSet(P \cup R)
      /\ Cardinality(P \cup R) = Cardinality(P) + Cardinality(R) - Cardinality(P \cap R)
  BY <1>1, FS_Union
<1>5. Cardinality(P \cap R) = 0
  BY FS_EmptySet
<1>6. Cardinality(P \cup R) <= Cardinality(Task) /\ Cardinality(Task) \in Nat
  BY PoolAssumption, FS_Subset, FS_CardinalityType
<1> QED BY <1>1, <1>3, <1>4, <1>5, <1>6

\* What in_flight counts when one of its two sets changes by one element.
LEMMA CountSteps ==
    ASSUME NEW P \in SUBSET Task, NEW C \in SUBSET Worker
    PROVE  /\ \A t \in Task \ P : Cardinality(P \cup {t}) = Cardinality(P) + 1
           /\ \A t \in P : Cardinality(P \ {t}) = Cardinality(P) - 1 /\ Cardinality(P) >= 1
           /\ \A w \in Worker \ C : Cardinality(C \cup {w}) = Cardinality(C) + 1
           /\ \A w \in C : Cardinality(C \ {w}) = Cardinality(C) - 1 /\ Cardinality(C) >= 1
<1>1. /\ IsFiniteSet(P) /\ Cardinality(P) \in Nat
      /\ IsFiniteSet(C) /\ Cardinality(C) \in Nat
  BY CountedFinite
<1>2. \A t \in Task \ P : Cardinality(P \cup {t}) = Cardinality(P) + 1
  BY <1>1, FS_AddElement
<1>3. \A w \in Worker \ C : Cardinality(C \cup {w}) = Cardinality(C) + 1
  BY <1>1, FS_AddElement
<1>4. \A t \in P : Cardinality(P \ {t}) = Cardinality(P) - 1 /\ Cardinality(P \ {t}) \in Nat
  BY <1>1, FS_RemoveElement, FS_CardinalityType
<1>5. \A w \in C : Cardinality(C \ {w}) = Cardinality(C) - 1 /\ Cardinality(C \ {w}) \in Nat
  BY <1>1, FS_RemoveElement, FS_CardinalityType
<1> QED BY <1>1, <1>2, <1>3, <1>4, <1>5

\* With the invariant, the exact count is within the range of the type.
LEMMA CountInRange ==
    ASSUME sub \in [Task -> {"idle", "notify", "returned", "threw"}], ran \subseteq Task,
           HoldInv, InFlightExact
    PROVE  in_flight \in 0..Cardinality(Task)
<1> DEFINE h == [w \in Counting |-> worker[w].task]
<1>1. Pending \in SUBSET Task /\ Counting \in SUBSET Worker /\ Pending \cap ran = {}
  BY DEF Pending, Counting
<1>2. h \in [Counting -> ran]
  BY DEF HoldInv, Counting
<1>3. \A v, w \in Counting : h[v] = h[w] => v = w
  BY DEF HoldInv, Counting
<1> HIDE DEF h
<1>4. Cardinality(Pending) + Cardinality(Counting) \in 0..Cardinality(Task)
  BY <1>1, <1>2, <1>3, CountBound
<1> QED BY <1>4, CountExact

-----------------------------------------------------------------------------
(***************************************************************************)
(* The steps.                                                              *)
(***************************************************************************)

\* Steps that change neither the tasks, their places nor the count, and move
\* workers only between checking, sleeping and notifying.
LEMMA PoolQuietStep ==
    ASSUME PoolInv, UNCHANGED <<tasks, in_flight, ran>>, PoolTypes',
           stop' = (dtor' # "none"), stop => stop',
           dtor' = "destroyed" => \A w \in Worker : worker'[w].at = "exited",
           \A t \in Task : Accepted(t)' <=> Accepted(t),
           \A w \in Worker :
              \/ worker'[w] = worker[w]
              \/ /\ worker[w].at \notin {"run", "count", "exited"}
                 /\ worker'[w].at \notin {"run", "count"}
                 /\ worker'[w].at = "exited" => stop /\ tasks = <<>>
    PROVE  PoolInv'
<1>1. Pending' = Pending
  BY DEF Pending
<1>2. Counting' = Counting
  BY DEF Counting
<1>3. \A w \in Worker, t \in Task : Runs(w, t)' <=> Runs(w, t)
  BY DEF Runs
<1>4. tasks \in Seq(Task) /\ \A i \in DOMAIN tasks : tasks[i] \in Task
  BY DEF PoolInv, PoolTypes
<1>5. PoolQueueInv'
  BY <1>1, <1>3, <1>4 DEF PoolInv, PoolQueueInv
<1>6. HoldInv'
  BY <1>1 DEF PoolInv, HoldInv
<1>7. PlaceInv'
  BY <1>1, <1>3 DEF PoolInv, PlaceInv, Pending, PoolTypes
<1>8. StopInv'
  BY DEF PoolInv, StopInv
<1>9. InFlightExact'
  BY <1>1, <1>2, CountExact DEF PoolInv, Pending, Counting
<1> QED BY <1>5, <1>6, <1>7, <1>8, <1>9 DEF PoolInv

\* submit: a new task goes to the end of the queue and is counted, or is refused.
LEMMA PoolSubmitStep ==
    ASSUME PoolInv, NEW t \in Task, Submit(t)
    PROVE  PoolInv'
<1> USE DEF PoolInv
<1>1. CASE stop
  <2>1. /\ sub' = [sub EXCEPT ![t] = "threw"]
        /\ UNCHANGED <<tasks, in_flight, stop, ran, worker, waiter, dtor>>
        /\ sub[t] = "idle"
    BY <1>1 DEF Submit, MaySubmit
  <2>2. PoolTypes'
    BY <2>1 DEF PoolTypes
  <2>3. \A s \in Task : Accepted(s)' <=> Accepted(s)
    BY <2>1 DEF Accepted, PoolTypes
  <2> QED BY <2>1, <2>2, <2>3, PoolQuietStep DEF StopInv
<1>2. CASE ~stop
  <2>1. /\ sub' = [sub EXCEPT ![t] = "notify"]
        /\ tasks' = Append(tasks, t)
        /\ in_flight' = in_flight + 1
        /\ UNCHANGED <<stop, ran, worker, waiter, dtor>>
        /\ sub[t] = "idle"
    BY <1>2 DEF Submit, MaySubmit
  <2>2. PoolTypes'
    BY <2>1 DEF PoolTypes
  <2>3. t \notin ran /\ t \notin Pending
    BY <2>1 DEF PlaceInv, Pending, Accepted
  <2>4. Pending' = Pending \cup {t}
    BY <2>1, <2>3 DEF Pending, Accepted, PoolTypes
  <2>5. /\ DOMAIN tasks = 1..Len(tasks) /\ Len(tasks) \in Nat
        /\ DOMAIN tasks' = 1..(Len(tasks) + 1)
        /\ \A i \in DOMAIN tasks : tasks'[i] = tasks[i] /\ tasks[i] \in Task
        /\ tasks'[Len(tasks) + 1] = t
    BY <2>1, AppendProperties, LenProperties, ElementOfSeq DEF PoolTypes
  <2>6. \A i \in DOMAIN tasks : tasks[i] # t
    BY <2>3 DEF PoolQueueInv
  <2>7. \A w \in Worker : ~Runs(w, t)
    BY <2>3 DEF HoldInv, Runs
  <2>8. \A i \in DOMAIN tasks' : i \in DOMAIN tasks \/ i = Len(tasks) + 1
    BY <2>5
  <2>9. PoolQueueInv'
    <3>1. \A i, j \in DOMAIN tasks' : tasks'[i] = tasks'[j] => i = j
      BY <2>5, <2>6, <2>8 DEF PoolQueueInv
    <3>2. \A i \in DOMAIN tasks' : tasks'[i] \in Pending'
      BY <2>4, <2>5, <2>8 DEF PoolQueueInv
    <3>3. \A i \in DOMAIN tasks', w \in Worker : ~Runs(w, tasks'[i])
      BY <2>5, <2>7, <2>8 DEF PoolQueueInv
    <3> QED BY <3>1, <3>2, <3>3, <2>1 DEF PoolQueueInv, Runs
  <2>10. HoldInv'
    BY <2>1, <2>4 DEF HoldInv
  <2>11. PlaceInv'
    <3>1. ASSUME NEW s \in Pending'
          PROVE  (\E i \in DOMAIN tasks' : tasks'[i] = s) \/ (\E w \in Worker : Runs(w, s)')
      <4>1. CASE s = t
        BY <4>1, <2>5
      <4>2. CASE s \in Pending
        <5>1. CASE \E i \in DOMAIN tasks : tasks[i] = s
          <6>1. DOMAIN tasks \subseteq DOMAIN tasks'
            BY <2>5
          <6> QED BY <5>1, <6>1, <2>5
        <5>2. CASE \E w \in Worker : Runs(w, s)
          BY <5>2, <2>1 DEF Runs
        <5> QED BY <4>2, <5>1, <5>2 DEF PlaceInv
      <4> QED BY <3>1, <4>1, <4>2, <2>4
    <3>2. \A s \in ran' : Accepted(s)'
      BY <2>1 DEF PlaceInv, Accepted, PoolTypes
    <3> QED BY <3>1, <3>2 DEF PlaceInv
  <2>12. StopInv'
    BY <1>2, <2>1 DEF StopInv
  <2>13. InFlightExact'
    <3>1. Counting' = Counting /\ Counting \in SUBSET Worker /\ Pending \in SUBSET Task
      BY <2>1 DEF Counting, Pending
    <3>2. Cardinality(Pending') = Cardinality(Pending) + 1
      BY <2>3, <2>4, <3>1, CountSteps
    <3>3. Cardinality(Pending) \in Nat /\ Cardinality(Counting) \in Nat
      BY <3>1, CountedFinite
    <3>4. in_flight = Cardinality(Pending) + Cardinality(Counting)
      BY CountExact
    <3>5. in_flight' = Cardinality(Pending') + Cardinality(Counting')
      BY <2>1, <3>1, <3>2, <3>3, <3>4
    <3> QED BY <3>5, CountExact
  <2> QED BY <2>2, <2>9, <2>10, <2>11, <2>12, <2>13
<1> QED BY <1>1, <1>2 DEF PoolTypes

\* The worker that takes the head of the queue.
LEMMA PoolTakeStep ==
    ASSUME PoolInv, NEW w \in Worker, worker[w].at = "check", tasks # <<>>,
           worker' = [worker EXCEPT ![w] = At("run", Head(tasks))],
           tasks' = Tail(tasks), UNCHANGED <<in_flight, stop, sub, ran, waiter, dtor>>
    PROVE  PoolInv'
<1> USE DEF PoolInv
<1>1. /\ DOMAIN tasks = 1..Len(tasks) /\ Len(tasks) \in Nat /\ Len(tasks) > 0
      /\ Head(tasks) = tasks[1] /\ tasks[1] \in Task /\ 1 \in DOMAIN tasks
      /\ tasks' \in Seq(Task) /\ DOMAIN tasks' = 1..(Len(tasks) - 1)
      /\ \A i \in DOMAIN tasks' : tasks'[i] = tasks[i + 1] /\ i + 1 \in DOMAIN tasks
  BY HeadTailProperties, LenProperties, ElementOfSeq DEF PoolTypes
<1>2. /\ worker'[w] = At("run", tasks[1])
      /\ \A v \in Worker : v # w => worker'[v] = worker[v]
      /\ worker' \in [Worker -> [at : {"check", "asleep", "run", "count", "notify", "exited"},
                                 task : Task \cup {NoTask}]]
  BY <1>1 DEF PoolTypes, At
<1>3. PoolTypes'
  BY <1>1, <1>2 DEF PoolTypes
<1>4. Pending' = Pending /\ tasks[1] \in Pending
  BY <1>1 DEF Pending, Accepted, PoolQueueInv
<1>5. /\ \A t : Runs(w, t)' <=> t = tasks[1]
      /\ \A v \in Worker : \A t : v # w => (Runs(v, t)' <=> Runs(v, t))
      /\ \A t : ~Runs(w, t)
  BY <1>2 DEF Runs, At
<1>6. PoolQueueInv'
  <2>1. \A i, j \in DOMAIN tasks' : tasks'[i] = tasks'[j] => i = j
    <3> SUFFICES ASSUME NEW i \in DOMAIN tasks', NEW j \in DOMAIN tasks', tasks'[i] = tasks'[j]
                 PROVE  i = j
      OBVIOUS
    <3>1. i + 1 = j + 1
      BY <1>1 DEF PoolQueueInv
    <3> QED BY <3>1, <1>1
  <2>2. \A i \in DOMAIN tasks' : tasks'[i] \in Pending'
    BY <1>1, <1>4 DEF PoolQueueInv
  <2>3. ASSUME NEW i \in DOMAIN tasks', NEW v \in Worker
        PROVE  \A t : t = tasks'[i] => ~Runs(v, t)'
    <3>1. i + 1 # 1 /\ tasks'[i] # tasks[1]
      BY <1>1 DEF PoolQueueInv
    <3> QED BY <1>1, <1>5, <3>1 DEF PoolQueueInv
  <2> QED BY <2>1, <2>2, <2>3 DEF PoolQueueInv, Runs
<1>7. HoldInv'
  <2>1. \A v \in Worker : worker[v].at \in {"run", "count"} => worker[v].task # tasks[1]
    BY <1>1, <1>4 DEF PoolQueueInv, HoldInv, Runs, Pending
  <2> QED BY <1>2, <1>4, <2>1 DEF HoldInv, At
<1>8. PlaceInv'
  <2>1. ASSUME NEW t \in Pending'
        PROVE  (\E i \in DOMAIN tasks' : tasks'[i] = t) \/ (\E v \in Worker : Runs(v, t)')
    <3>1. CASE t = tasks[1]
      BY <3>1, <1>5
    <3>2. CASE t # tasks[1] /\ \E i \in DOMAIN tasks : tasks[i] = t
      <4>1. PICK i \in DOMAIN tasks : tasks[i] = t /\ i # 1
        BY <3>2
      <4>2. i - 1 \in DOMAIN tasks' /\ (i - 1) + 1 = i
        BY <1>1, <4>1
      <4> QED BY <1>1, <4>1, <4>2
    <3>3. CASE \E v \in Worker : Runs(v, t)
      BY <3>3, <1>5
    <3> QED BY <1>4, <2>1, <3>1, <3>2, <3>3 DEF PlaceInv
  <2> QED BY <2>1 DEF PlaceInv, Accepted
<1>9. StopInv'
  BY <1>1, <1>2 DEF StopInv, At
<1>10. InFlightExact'
  <2>1. Counting' = Counting
    BY <1>2 DEF Counting, At
  <2> QED BY <1>4, <2>1, CountExact
<1> QED BY <1>3, <1>6, <1>7, <1>8, <1>9, <1>10

\* A worker that finds nothing to take sleeps or leaves.
LEMMA WorkerCheckStep ==
    ASSUME PoolInv, NEW w \in Worker, WorkerCheck(w)
    PROVE  PoolInv'
<1>1. CASE tasks # <<>>
  BY <1>1, PoolTakeStep DEF WorkerCheck
<1>2. CASE tasks = <<>>
  <2>1. /\ UNCHANGED <<tasks, in_flight, stop, sub, ran, waiter, dtor>>
        /\ worker[w].at = "check"
        /\ \/ worker' = [worker EXCEPT ![w].at = "asleep"]
           \/ stop /\ worker' = [worker EXCEPT ![w].at = "exited"]
    BY <1>2 DEF WorkerCheck
  <2>2. PoolTypes'
    <3>1. PICK at \in {"asleep", "exited"} : worker' = [worker EXCEPT ![w].at = at]
      BY <2>1
    <3>2. worker' \in [Worker -> [at : {"check", "asleep", "run", "count", "notify", "exited"},
                                  task : Task \cup {NoTask}]]
      BY <3>1 DEF PoolInv, PoolTypes
    <3> QED BY <2>1, <3>2 DEF PoolInv, PoolTypes
  <2>3. \A v \in Worker :
           \/ worker'[v] = worker[v]
           \/ /\ worker[v].at \notin {"run", "count", "exited"}
              /\ worker'[v].at \notin {"run", "count"}
              /\ worker'[v].at = "exited" => stop /\ tasks = <<>>
    BY <1>2, <2>1 DEF PoolInv, PoolTypes
  <2>4. dtor = "destroyed" => \A v \in Worker : worker'[v].at = "exited"
    BY <2>1 DEF PoolInv, StopInv
  <2> QED BY <2>1, <2>2, <2>3, <2>4, PoolQuietStep DEF PoolInv, StopInv, Accepted
<1> QED BY <1>1, <1>2

\* The body of a task has ended: the task is no longer pending, and its worker
\* has not counted it down.
LEMMA WorkerRunStep ==
    ASSUME PoolInv, NEW w \in Worker, WorkerRun(w)
    PROVE  PoolInv'
<1> USE DEF PoolInv
<1> DEFINE t == worker[w].task
<1>1. /\ worker[w].at = "run" /\ t \in Pending /\ t \in Task
      /\ ran' = ran \cup {t}
      /\ worker' = [worker EXCEPT ![w].at = "count"]
      /\ UNCHANGED <<tasks, in_flight, stop, sub, waiter, dtor>>
  BY DEF WorkerRun, HoldInv, Pending
<1>2. /\ worker'[w].at = "count" /\ worker'[w].task = t
      /\ \A v \in Worker : v # w => worker'[v] = worker[v]
  BY <1>1 DEF PoolTypes
<1>3. PoolTypes'
  BY <1>1 DEF PoolTypes
<1>4. Pending' = Pending \ {t}
  BY <1>1 DEF Pending, Accepted
<1>5. \A v \in Worker : \A s : Runs(v, s)' <=> (Runs(v, s) /\ v # w)
  BY <1>2 DEF Runs
<1>6. \A i \in DOMAIN tasks : tasks[i] # t
  BY <1>1 DEF PoolQueueInv, Runs
<1>7. PoolQueueInv'
  BY <1>1, <1>4, <1>5, <1>6 DEF PoolQueueInv
<1>8. HoldInv'
  <2>1. \A v \in Worker : v # w /\ worker[v].at \in {"run", "count"} => worker[v].task # t
    BY <1>1 DEF HoldInv
  <2> QED BY <1>1, <1>2, <1>4, <2>1 DEF HoldInv
<1>9. PlaceInv'
  <2>1. \A s \in Pending' : ~Runs(w, s)
    BY <1>4 DEF Runs
  <2>2. Accepted(t)' /\ \A s \in ran : Accepted(s)'
    BY <1>1 DEF Pending, Accepted, PlaceInv
  <2> QED BY <1>1, <1>4, <1>5, <2>1, <2>2 DEF PlaceInv
<1>10. StopInv'
  BY <1>1, <1>2 DEF StopInv
<1>11. InFlightExact'
  <2>1. Counting' = Counting \cup {w} /\ w \in Worker \ Counting
    BY <1>1, <1>2 DEF Counting
  <2>2. Counting \in SUBSET Worker /\ Pending \in SUBSET Task
    BY DEF Counting, Pending
  <2>3. /\ Cardinality(Pending') = Cardinality(Pending) - 1
        /\ Cardinality(Counting') = Cardinality(Counting) + 1
    BY <1>1, <1>4, <2>1, <2>2, CountSteps
  <2>4. Cardinality(Pending) \in Nat /\ Cardinality(Counting) \in Nat
    BY <2>2, CountedFinite DEF PoolInv
  <2>5. in_flight = Cardinality(Pending) + Cardinality(Counting)
    BY CountExact
  <2>6. in_flight' = Cardinality(Pending') + Cardinality(Counting')
    BY <1>1, <2>3, <2>4, <2>5
  <2> QED BY <2>6, CountExact
<1> QED BY <1>3, <1>7, <1>8, <1>9, <1>10, <1>11

\* --in_flight_ never goes below zero: the worker itself is counted.
LEMMA WorkerCountStep ==
    ASSUME PoolInv, NEW w \in Worker, WorkerCount(w)
    PROVE  PoolInv'
<1> USE DEF PoolInv
<1>1. /\ worker[w].at = "count"
      /\ in_flight' = in_flight - 1
      /\ \E a \in {"notify", "check"} : worker' = [worker EXCEPT ![w] = At(a, NoTask)]
      /\ UNCHANGED <<tasks, stop, sub, ran, waiter, dtor>>
  BY DEF WorkerCount
<1>2. /\ worker'[w].at \in {"notify", "check"}
      /\ \A v \in Worker : v # w => worker'[v] = worker[v]
      /\ worker' \in [Worker -> [at : {"check", "asleep", "run", "count", "notify", "exited"},
                                 task : Task \cup {NoTask}]]
  BY <1>1 DEF PoolTypes, At
<1>3. Pending' = Pending
  BY <1>1 DEF Pending, Accepted
<1>4. Counting' = Counting \ {w} /\ w \in Counting
  BY <1>1, <1>2 DEF Counting
<1>5. Counting \in SUBSET Worker /\ Pending \in SUBSET Task
  BY DEF Counting, Pending
<1>6. Cardinality(Counting') = Cardinality(Counting) - 1 /\ Cardinality(Counting) >= 1
  BY <1>4, <1>5, CountSteps
<1>7. Cardinality(Pending) \in Nat /\ Cardinality(Counting) \in Nat
  BY <1>5, CountedFinite
<1>8. in_flight = Cardinality(Pending) + Cardinality(Counting)
  BY CountExact
<1>9. in_flight' = Cardinality(Pending') + Cardinality(Counting') /\ in_flight' \in Nat
  BY <1>1, <1>3, <1>6, <1>7, <1>8
<1>10. InFlightExact'
  BY <1>9, CountExact
<1>11. PoolTypes'
  BY <1>1, <1>2, <1>9 DEF PoolTypes
<1>12. \A v \in Worker : \A s : Runs(v, s)' <=> Runs(v, s)
  BY <1>1, <1>2 DEF Runs
<1>13. PoolQueueInv'
  BY <1>1, <1>3, <1>12 DEF PoolQueueInv
<1>14. HoldInv'
  BY <1>1, <1>2, <1>3 DEF HoldInv
<1>15. PlaceInv'
  BY <1>1, <1>3, <1>12 DEF PlaceInv, Accepted
<1>16. StopInv'
  BY <1>1, <1>2 DEF StopInv
<1> QED BY <1>10, <1>11, <1>13, <1>14, <1>15, <1>16

-----------------------------------------------------------------------------
(***************************************************************************)
(* The theorems.                                                           *)
(***************************************************************************)

LEMMA InitPoolInv == PoolInit => PoolInv
<1> SUFFICES ASSUME PoolInit PROVE PoolInv
  OBVIOUS
<1>1. PoolTypes
  <2>1. tasks \in Seq(Task)
    BY DEF PoolInit
  <2> QED BY <2>1 DEF PoolInit, PoolTypes, At
<1>2. Pending = {} /\ Counting = {}
  BY DEF PoolInit, Pending, Accepted, Counting, At
<1>3. DOMAIN tasks = {}
  BY DEF PoolInit
<1>4. PoolQueueInv
  BY <1>3 DEF PoolQueueInv
<1>5. HoldInv /\ StopInv
  BY DEF PoolInit, HoldInv, StopInv, At
<1>6. PlaceInv
  BY <1>2 DEF PoolInit, PlaceInv
<1>7. InFlightExact
  <2>1. in_flight = Cardinality(Pending) + Cardinality(Counting)
    BY <1>2, FS_EmptySet DEF PoolInit
  <2> QED BY <2>1, CountExact
<1> QED BY <1>1, <1>4, <1>5, <1>6, <1>7 DEF PoolInv

\* Every step keeps the invariant.
LEMMA NextPoolInv == PoolInv /\ [PoolNext]_poolVars => PoolInv'
<1> SUFFICES ASSUME PoolInv, [PoolNext]_poolVars PROVE PoolInv'
  OBVIOUS
<1> USE DEF PoolInv
<1>1. ASSUME NEW t \in Task, Submit(t) PROVE PoolInv'
  BY <1>1, PoolSubmitStep
<1>2. ASSUME NEW t \in Task, SubmitNotify(t) PROVE PoolInv'
  <2>1. \A s \in Task : Accepted(s)' <=> Accepted(s)
    BY <1>2 DEF SubmitNotify, Accepted, PoolTypes
  <2>2. \A v \in Worker :
           \/ worker'[v] = worker[v]
           \/ worker[v].at = "asleep" /\ worker'[v].at = "check"
    BY <1>2 DEF SubmitNotify, NotifyOne, Asleep, PoolTypes
  <2>3. PoolTypes'
    BY <1>2 DEF SubmitNotify, NotifyOne, Asleep, PoolTypes
  <2>4. UNCHANGED <<tasks, in_flight, stop, ran, dtor>>
    BY <1>2 DEF SubmitNotify
  <2> QED BY <2>1, <2>2, <2>3, <2>4, PoolQuietStep DEF StopInv
<1>3. ASSUME NEW w \in Worker, WorkerCheck(w) PROVE PoolInv'
  BY <1>3, WorkerCheckStep
<1>4. ASSUME NEW w \in Worker, WorkerRun(w) PROVE PoolInv'
  BY <1>4, WorkerRunStep
<1>5. ASSUME NEW w \in Worker, WorkerCount(w) PROVE PoolInv'
  BY <1>5, WorkerCountStep
<1>6. ASSUME NEW w \in Worker, WorkerNotify(w) \/ WorkerSpuriousWake(w) PROVE PoolInv'
  <2>1. /\ worker[w].at \in {"notify", "asleep"}
        /\ worker' = [worker EXCEPT ![w].at = "check"]
        /\ UNCHANGED <<tasks, in_flight, stop, sub, ran, dtor>>
        /\ waiter' \in [Waiter -> {"idle", "check", "holding", "asleep", "returned"}]
    BY <1>6 DEF WorkerNotify, WorkerSpuriousWake, PoolTypes
  <2>2. \A v \in Worker :
           \/ worker'[v] = worker[v]
           \/ worker[v].at \in {"notify", "asleep"} /\ worker'[v].at = "check"
    BY <2>1 DEF PoolTypes
  <2>3. PoolTypes'
    BY <2>1 DEF PoolTypes
  <2> QED BY <2>1, <2>2, <2>3, PoolQuietStep DEF StopInv, Accepted
<1>7. ASSUME NEW x \in Waiter,
             WaitBegin(x) \/ WaitStep(x) \/ WaitSpuriousWake(x)
      PROVE  PoolInv'
  <2>1. /\ UNCHANGED <<tasks, in_flight, stop, sub, ran, worker, dtor>>
        /\ waiter' \in [Waiter -> {"idle", "check", "holding", "asleep", "returned"}]
    BY <1>7 DEF WaitBegin, WaitStep,
           WaitCheck, WaitSleep, WaitSpuriousWake, PoolTypes
  <2>2. PoolTypes'
    BY <2>1 DEF PoolTypes
  <2> QED BY <2>1, <2>2, PoolQuietStep DEF StopInv, Accepted
<1>8. CASE DtorStop
  <2>1. PoolTypes' /\ UNCHANGED <<tasks, in_flight, sub, ran, worker>> /\ stop' /\ dtor' = "notify"
    BY <1>8 DEF DtorStop, PoolTypes
  <2> QED BY <2>1, PoolQuietStep DEF StopInv, Accepted
<1>9. CASE DtorNotify
  <2>1. PoolTypes' /\ UNCHANGED <<tasks, in_flight, stop, sub, ran>>
    BY <1>9 DEF DtorNotify, NotifyAll, Asleep, PoolTypes
  <2>2. \A v \in Worker :
           \/ worker'[v] = worker[v]
           \/ worker[v].at = "asleep" /\ worker'[v].at = "check"
    BY <1>9 DEF DtorNotify, NotifyAll, Asleep, PoolTypes
  <2>3. dtor = "notify" /\ dtor' = "join"
    BY <1>9 DEF DtorNotify
  <2> QED BY <2>1, <2>2, <2>3, PoolQuietStep DEF StopInv, Accepted
<1>10. CASE DtorJoin
  <2>1. PoolTypes' /\ UNCHANGED <<tasks, in_flight, stop, sub, ran, worker>>
    BY <1>10 DEF DtorJoin, PoolTypes
  <2>2. /\ dtor = "join" /\ dtor' = "destroyed"
        /\ \A w \in Worker : worker[w].at = "exited"
    BY <1>10 DEF DtorJoin
  <2> QED BY <2>1, <2>2, PoolQuietStep DEF StopInv, Accepted
<1>11. CASE UNCHANGED poolVars
  <2>1. PoolTypes' /\ UNCHANGED <<tasks, in_flight, stop, sub, ran, worker, dtor>>
    BY <1>11 DEF poolVars, PoolTypes
  <2> QED BY <2>1, PoolQuietStep DEF StopInv, Accepted
<1> QED BY <1>1, <1>2, <1>3, <1>4, <1>5, <1>6, <1>7, <1>8, <1>9, <1>10, <1>11
        DEF PoolNext, WorkerStep, DtorStep

\* A pool without workers left has no pending task.
LEMMA PoolInvDrains == PoolInv => DrainSound
<1> SUFFICES ASSUME PoolInv PROVE DrainSound
  OBVIOUS
<1> USE DEF PoolInv
<1>1. in_flight \in 0..Cardinality(Task)
  BY CountInRange DEF PoolTypes
<1>2. PoolTypeOK
  BY <1>1 DEF PoolTypes, PoolTypeOK
<1>3. ASSUME dtor = "destroyed", NEW t \in Task, Accepted(t) PROVE t \in ran
  <2>1. tasks = <<>> /\ \A w \in Worker : worker[w].at = "exited"
    BY <1>3, PoolAssumption DEF StopInv
  <2>2. DOMAIN tasks = {}
    BY <2>1
  <2>3. t \notin Pending
    BY <2>1, <2>2 DEF PlaceInv, Runs
  <2> QED BY <1>3, <2>3 DEF Pending
<1> QED BY <1>2, <1>3 DEF DrainSound, DestroyDrains

\* In every pool the counter wait_idle sleeps on is exact, within its range, and
\* the destructor returns only when every accepted task has been executed
\* (thread_pool.h: submit, worker_loop, ~ThreadPool).
THEOREM PoolDrainSound == PoolSpec => []DrainSound
<1>1. PoolInv /\ [PoolNext]_poolVars => PoolInv'
  BY NextPoolInv
<1> QED BY InitPoolInv, <1>1, PoolInvDrains, PTL DEF PoolSpec

\* wait_idle returns only at a moment at which every task accepted so far, by
\* whomever, has been executed, although workers count down without the mutex.
THEOREM PoolIdleMeansDrained == PoolSpec => IdleMeansDrained
<1> DEFINE Step == \A x \in Waiter : waiter[x] # "returned" /\ waiter'[x] = "returned"
                      => \A t \in Task : Accepted(t) => t \in ran
<1>1. PoolInv /\ [PoolNext]_poolVars => [Step]_poolVars
  <2> SUFFICES ASSUME PoolInv, PoolNext, NEW x \in Waiter,
                      waiter[x] # "returned", waiter'[x] = "returned",
                      NEW t \in Task, Accepted(t)
               PROVE  t \in ran
    OBVIOUS
  <2>1. in_flight = 0
    <3>1. waiter' # waiter
      OBVIOUS
    <3>2. \/ \E w \in Worker : WorkerNotify(w)
          \/ \E y \in Waiter : WaitBegin(y) \/ WaitStep(y) \/ WaitSpuriousWake(y)
      BY <3>1 DEF PoolNext, Submit, SubmitNotify, WorkerStep,
         WorkerCheck, WorkerRun, WorkerCount,
         WorkerSpuriousWake, DtorStop, DtorStep, DtorNotify, DtorJoin
    <3>3. CASE \E w \in Worker : WorkerNotify(w)
      BY <3>3 DEF WorkerNotify
    <3>4. CASE \E y \in Waiter : WaitBegin(y) \/ WaitStep(y) \/ WaitSpuriousWake(y)
      BY <3>4 DEF PoolInv, PoolTypes, WaitBegin, WaitStep,
         WaitCheck, WaitSleep, WaitSpuriousWake
    <3> QED BY <3>2, <3>3, <3>4
  <2>2. Pending \in SUBSET Task /\ Counting \in SUBSET Worker
    BY DEF Pending, Counting
  <2>3. /\ IsFiniteSet(Pending) /\ Cardinality(Pending) \in Nat
        /\ Cardinality(Counting) \in Nat
    BY <2>2, CountedFinite DEF PoolInv
  <2>4. Cardinality(Pending) + Cardinality(Counting) = 0
    BY <2>1, CountExact DEF PoolInv
  <2>5. Pending = {}
    BY <2>3, <2>4, FS_EmptySet
  <2> QED BY <2>5 DEF Pending
<1>2. PoolInv /\ [PoolNext]_poolVars => PoolInv'
  BY NextPoolInv
<1> QED BY InitPoolInv, <1>1, <1>2, PTL DEF PoolSpec, IdleMeansDrained

=============================================================================
