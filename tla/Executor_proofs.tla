---------------------------- MODULE Executor_proofs ----------------------------
(***************************************************************************)
(* Proofs about Executor, for every set of plans: validate_plan accepts    *)
(* exactly the well-formed ones, and executing one of them never looks up  *)
(* a result that is not there.                                             *)
(***************************************************************************)
EXTENDS Executor, FiniteSetTheorems, SequenceTheorems, WellFoundedInduction, TLAPS

-----------------------------------------------------------------------------
(***************************************************************************)
(* The inductive invariant.                                                *)
(***************************************************************************)
Graphed == phase \in {"check", "accepted", "sort", "fetch", "run", "collect", "done", "failed"}
Running == phase \in {"fetch", "run", "collect", "done", "failed"}

\* How many nodes are in node_index, and how many have been checked.
Seen == IF phase = "head" THEN 0 ELSE IF phase = "index" THEN i - 1 ELSE Len(plan.nodes)
Checked ==
    IF phase \in {"head", "index"} THEN 0
    ELSE IF phase = "nodes" THEN i - 1 ELSE Len(plan.nodes)

\* node_index and the ids of the nodes seen are inverse to each other.
IndexInv ==
    phase # "rejected" =>
        /\ \A m \in 1..Seen : plan.nodes[m].id \in Ids /\ node_index[plan.nodes[m].id] = m
        /\ \A x \in Ids : node_index[x] \in 1..Seen /\ plan.nodes[node_index[x]].id = x

\* What has been checked holds.
CheckInv ==
    /\ phase \notin {"head", "rejected"} => plan.head_ok
    /\ phase # "rejected" =>
         \A m \in 1..Checked : plan.nodes[m].ok /\ Elems(DepsAt(plan, m)) \subseteq Ids
    /\ Graphed => Elems(plan.outputs) \subseteq Ids

\* The ids Kahn's loop has not processed.
Open == Ids \ Elems(order)

\* Kahn's loop: in_degree counts the open dependencies, the queue holds the open ids
\* that have none, once each, and what is processed is in topological order.
KahnInv ==
    /\ in_degree \in [Ids -> Nat]
    /\ \A x \in Ids : in_degree[x] = Cardinality(Slots(Deps(x), Open))
    /\ Elems(ready) = {x \in Open : in_degree[x] = 0}
    /\ \A k, l \in DOMAIN ready : ready[k] = ready[l] => k = l
    /\ Elems(order) \subseteq Ids
    /\ \A k, l \in DOMAIN order : order[k] = order[l] => k = l
    /\ \A k \in DOMAIN order : Elems(Deps(order[k])) \subseteq {order[l] : l \in 1..(k - 1)}

\* The execution has the results of the first i - 1 nodes of a complete order.
RunInv ==
    /\ ~Running => results = {}
    /\ Running => /\ ready = <<>>
                  /\ Elems(order) = Ids
                  /\ results = {order[l] : l \in 1..(i - 1)}
                  /\ i <= Len(order) + 1
    /\ phase = "run" => i <= Len(order)
    /\ phase \in {"collect", "done"} => i = Len(order) + 1

\* The first loop starts at the first node.
HeadInv == phase = "head" => i = 1

IndInv ==
    TypeOK /\ HeadInv /\ IndexInv /\ CheckInv /\ (Graphed => KahnInv) /\ AcceptanceExact /\ RunInv

-----------------------------------------------------------------------------
(***************************************************************************)
(* Facts about plans and orders.                                           *)
(***************************************************************************)

\* The parts of a plan.
LEMMA PlanFacts ==
    ASSUME NEW p \in Plans
    PROVE  /\ p.nodes \in Seq(PlanNode)
           /\ Len(p.nodes) \in Nat /\ DOMAIN p.nodes = 1..Len(p.nodes)
           /\ p.outputs \in Seq(Id)
           /\ \A n \in DOMAIN p.nodes : p.nodes[n].id \in Id /\ DepsAt(p, n) \in Seq(Id)
<1>1. p.nodes \in Seq(PlanNode) /\ p.outputs \in Seq(Id)
  BY PlansAssumption
<1>2. Len(p.nodes) \in Nat /\ DOMAIN p.nodes = 1..Len(p.nodes)
  BY <1>1, LenProperties
<1>3. ASSUME NEW n \in DOMAIN p.nodes
      PROVE  p.nodes[n].id \in Id /\ DepsAt(p, n) \in Seq(Id)
  <2>1. p.nodes[n] \in PlanNode
    BY <1>1, <1>2, ElementOfSeq
  <2>2. p.nodes[n].id \in Id /\ p.nodes[n].inputs \in Seq(Id) /\ p.nodes[n].refs \in Seq(Id)
    BY <2>1 DEF PlanNode
  <2> QED BY <2>2, ConcatProperties DEF DepsAt
<1> QED BY <1>1, <1>2, <1>3

\* A sequence without repetitions is as long as its set of elements is large.
LEMMA DistinctLength ==
    ASSUME NEW S, NEW s \in Seq(S), \A k, l \in DOMAIN s : s[k] = s[l] => k = l
    PROVE  IsFiniteSet(Elems(s)) /\ Cardinality(Elems(s)) = Len(s)
<1>1. Len(s) \in Nat /\ DOMAIN s = 1..Len(s) /\ s \in [1..Len(s) -> S]
  BY LenProperties
<1>2. IsFiniteSet(1..Len(s)) /\ Cardinality(1..Len(s)) = Len(s)
  BY <1>1, FS_Interval
<1>3. s \in Bijection(1..Len(s), Elems(s))
  BY <1>1 DEF Bijection, Injection, Surjection, Elems, IsInjective
<1>4. ExistsBijection(1..Len(s), Elems(s))
  BY <1>3 DEF ExistsBijection
<1> QED BY <1>2, <1>4, FS_Bijection

\* The enumerations of a finite set are duplicate-free sequences over it.
LEMMA AnyOrderFacts ==
    ASSUME NEW S, IsFiniteSet(S), NEW s \in AnyOrder(S)
    PROVE  /\ s \in Seq(S) /\ Elems(s) = S
           /\ \A k, l \in DOMAIN s : s[k] = s[l] => k = l
<1>1. Cardinality(S) \in Nat /\ s \in [1..Cardinality(S) -> S] /\ Elems(s) = S
  BY FS_CardinalityType DEF AnyOrder
<1>2. s \in Seq(S)
  BY <1>1
<1>3. IsFiniteSet(1..Cardinality(S)) /\ Cardinality(1..Cardinality(S)) = Cardinality(S)
  BY <1>1, FS_Interval
<1>4. s \in Surjection(1..Cardinality(S), S)
  BY <1>1 DEF Surjection, Elems
<1>5. s \in Injection(1..Cardinality(S), S)
  BY <1>3, <1>4, FS_SurjSameCardinalityImpliesInj
<1> QED BY <1>1, <1>2, <1>5 DEF Injection, IsInjective

\* What the elements of a concatenation are.
LEMMA ElemsConcat ==
    ASSUME NEW S, NEW s \in Seq(S), NEW t \in Seq(S)
    PROVE  Elems(s \o t) = Elems(s) \cup Elems(t)
<1>1. /\ DOMAIN s = 1..Len(s) /\ DOMAIN t = 1..Len(t)
      /\ DOMAIN (s \o t) = 1..(Len(s) + Len(t))
      /\ Len(s) \in Nat /\ Len(t) \in Nat
  BY ConcatProperties, LenProperties
<1>2. \A k \in 1..(Len(s) + Len(t)) :
         (s \o t)[k] = IF k <= Len(s) THEN s[k] ELSE t[k - Len(s)]
  BY ConcatProperties
<1>3. \A k \in 1..Len(s) : k \in 1..(Len(s) + Len(t)) /\ (s \o t)[k] = s[k]
  BY <1>1, <1>2
<1>4. \A k \in 1..Len(t) : Len(s) + k \in 1..(Len(s) + Len(t)) /\ (s \o t)[Len(s) + k] = t[k]
  BY <1>1, <1>2
<1>5. \A k \in 1..(Len(s) + Len(t)) : k <= Len(s) \/ k - Len(s) \in 1..Len(t)
  BY <1>1
<1>6. Elems(s) \cup Elems(t) \subseteq Elems(s \o t)
  BY <1>1, <1>3, <1>4 DEF Elems
<1>7. Elems(s \o t) \subseteq Elems(s) \cup Elems(t)
  BY <1>1, <1>2, <1>5 DEF Elems
<1> QED BY <1>6, <1>7

\* Once every node is indexed, the ids are those of the plan, as many as it has
\* nodes.
LEMMA IndexFacts ==
    ASSUME TypeOK, IndexInv, phase \notin {"head", "index", "rejected"}
    PROVE  /\ Ids = NodeIds(plan)
           /\ \A m, n \in DOMAIN plan.nodes : plan.nodes[m].id = plan.nodes[n].id => m = n
           /\ IsFiniteSet(Ids) /\ Cardinality(Ids) = Len(plan.nodes)
<1>1. /\ Len(plan.nodes) \in Nat /\ DOMAIN plan.nodes = 1..Len(plan.nodes)
  BY PlanFacts DEF TypeOK
<1>2. /\ \A m \in DOMAIN plan.nodes :
           plan.nodes[m].id \in Ids /\ node_index[plan.nodes[m].id] = m
      /\ \A x \in Ids : node_index[x] \in DOMAIN plan.nodes /\ plan.nodes[node_index[x]].id = x
  BY <1>1 DEF IndexInv, Seen
<1>3. Ids = NodeIds(plan)
  BY <1>2 DEF NodeIds
<1>4. \A m, n \in DOMAIN plan.nodes : plan.nodes[m].id = plan.nodes[n].id => m = n
  BY <1>2
<1> DEFINE f == [m \in 1..Len(plan.nodes) |-> plan.nodes[m].id]
<1>5. f \in Bijection(1..Len(plan.nodes), Ids)
  BY <1>1, <1>2 DEF Bijection, Injection, Surjection, IsInjective
<1>6. ExistsBijection(1..Len(plan.nodes), Ids)
  BY <1>5 DEF ExistsBijection
<1>7. IsFiniteSet(1..Len(plan.nodes)) /\ Cardinality(1..Len(plan.nodes)) = Len(plan.nodes)
  BY <1>1, FS_Interval
<1> QED BY <1>3, <1>4, <1>6, <1>7, FS_Bijection

\* A node's dependencies are ids of the plan.
LEMMA DepsFacts ==
    ASSUME TypeOK, IndexInv, CheckInv,
           phase \notin {"head", "index", "nodes", "rejected"}, NEW x \in Ids
    PROVE  /\ Deps(x) \in Seq(Ids) /\ Elems(Deps(x)) \subseteq Ids
           /\ Len(Deps(x)) \in Nat /\ DOMAIN Deps(x) = 1..Len(Deps(x))
<1>1. Len(plan.nodes) \in Nat /\ DOMAIN plan.nodes = 1..Len(plan.nodes)
  BY PlanFacts DEF TypeOK
<1>2. node_index[x] \in 1..Len(plan.nodes)
  BY <1>1 DEF TypeOK
<1>3. Deps(x) \in Seq(Id)
  BY <1>1, <1>2, PlanFacts DEF TypeOK, Deps
<1>4. Elems(Deps(x)) \subseteq Ids
  BY <1>2 DEF CheckInv, Checked, Deps
<1>5. Len(Deps(x)) \in Nat /\ DOMAIN Deps(x) = 1..Len(Deps(x))
  BY <1>3, LenProperties
<1>6. Deps(x) \in [1..Len(Deps(x)) -> Ids]
  <2>1. \A k \in 1..Len(Deps(x)) : Deps(x)[k] \in Ids
    BY <1>4, <1>5 DEF Elems
  <2>2. Deps(x) = [k \in 1..Len(Deps(x)) |-> Deps(x)[k]]
    BY <1>3, <1>5
  <2> QED BY <1>3, <1>5, <2>1, <2>2, LenProperties
<1> QED BY <1>4, <1>5, <1>6

\* The positions that name a member of S are finitely many.
LEMMA SlotsFinite ==
    ASSUME NEW D, NEW deps \in Seq(D), NEW S
    PROVE  /\ IsFiniteSet(Slots(deps, S)) /\ Cardinality(Slots(deps, S)) \in Nat
           /\ Cardinality(Slots(deps, S)) = 0 <=> Slots(deps, S) = {}
<1>1. DOMAIN deps = 1..Len(deps) /\ Len(deps) \in Nat
  BY LenProperties
<1>2. IsFiniteSet(DOMAIN deps)
  BY <1>1, FS_Interval
<1>3. Slots(deps, S) \in SUBSET (DOMAIN deps)
  BY DEF Slots
<1>4. IsFiniteSet(Slots(deps, S))
  BY <1>2, <1>3, FS_Subset
<1> QED BY <1>4, FS_CardinalityType, FS_EmptySet

\* Taking one id out of S takes exactly its positions away.
LEMMA SlotsRemove ==
    ASSUME NEW D, NEW deps \in Seq(D), NEW S, NEW y \in S
    PROVE  Cardinality(Slots(deps, S \ {y}))
             = Cardinality(Slots(deps, S)) - Cardinality(Slots(deps, {y}))
<1> DEFINE A == Slots(deps, S)
           B == Slots(deps, {y})
<1>1. IsFiniteSet(A) /\ IsFiniteSet(B)
  BY SlotsFinite
<1>2. Slots(deps, S \ {y}) = A \ B
  BY DEF Slots
<1>3. A \cap B = B
  BY DEF Slots
<1>4. Cardinality(A \ B) = Cardinality(A) - Cardinality(A \cap B)
  BY <1>1, FS_Difference
<1> QED BY <1>2, <1>3, <1>4

\* All of S: every position, if the list is over S.
LEMMA SlotsAll ==
    ASSUME NEW S, NEW deps \in Seq(S)
    PROVE  Cardinality(Slots(deps, S)) = Len(deps) /\ Len(deps) \in Nat
<1>1. /\ DOMAIN deps = 1..Len(deps) /\ Len(deps) \in Nat
      /\ \A k \in 1..Len(deps) : deps[k] \in S
  BY LenProperties, ElementOfSeq
<1>2. Slots(deps, S) = 1..Len(deps)
  BY <1>1 DEF Slots
<1>3. \A n \in Nat : Cardinality(1..n) = n
  BY FS_Interval
<1> QED BY <1>1, <1>2, <1>3

-----------------------------------------------------------------------------
(***************************************************************************)
(* Kahn's algorithm.                                                       *)
(***************************************************************************)

\* Building the graph establishes the invariant of the loop.
LEMMA BuildStep ==
    ASSUME TypeOK, IndexInv, CheckInv, phase \in {"outputs", "accepted"},
           BuildGraph, UNCHANGED <<plan, node_index>>
    PROVE  KahnInv' /\ ready' \in Seq(Id) /\ order' \in Seq(Id)
<1> DEFINE sources == {x \in Ids : Len(Deps(x)) = 0}
<1>1. IsFiniteSet(sources) /\ sources \subseteq Ids
  <2>1. IsFiniteSet(Ids)
    BY IndexFacts
  <2>2. sources \in SUBSET Ids
    OBVIOUS
  <2> QED BY <2>1, <2>2, FS_Subset
<1>2. /\ in_degree' = [x \in Ids |-> Len(Deps(x))]
      /\ ready' \in AnyOrder(sources)
      /\ order' = <<>>
  BY DEF BuildGraph
<1>3. DOMAIN order' = {} /\ Elems(order') = {}
  BY <1>2 DEF Elems
<1>4. Ids' = Ids /\ Open' = Ids /\ \A x : DepsAt(plan', node_index'[x]) = Deps(x)
  <2>1. Ids' = Ids /\ \A x : DepsAt(plan', node_index'[x]) = Deps(x)
    BY DEF Ids, Deps
  <2> QED BY <1>3, <2>1 DEF Open
<1>5. \A x \in Ids : Len(Deps(x)) \in Nat /\ Cardinality(Slots(Deps(x), Ids)) = Len(Deps(x))
  BY DepsFacts, SlotsAll
<1>6. /\ ready' \in Seq(sources) /\ Elems(ready') = sources
      /\ \A k, l \in DOMAIN ready' : ready'[k] = ready'[l] => k = l
  <2> HIDE DEF sources
  <2> QED BY <1>1, <1>2, AnyOrderFacts
<1>7. ready' \in Seq(Id)
  <2>1. sources \subseteq Id
    BY <1>1 DEF TypeOK
  <2> HIDE DEF sources
  <2> QED BY <1>6, <2>1, SeqMonotonic
<1>8. in_degree' \in [Ids -> Nat] /\ \A x \in Ids : in_degree'[x] = Cardinality(Slots(Deps(x), Ids))
  BY <1>2, <1>5
<1>9. Elems(ready') = {x \in Ids : in_degree'[x] = 0}
  BY <1>2, <1>6
<1> QED BY <1>2, <1>4, <1>6, <1>7, <1>8, <1>9, <1>3 DEF KahnInv, Deps


\* A turn of the loop preserves it.
LEMMA PopStep ==
    ASSUME TypeOK, IndexInv, CheckInv, KahnInv, phase \in {"check", "sort"},
           Pop, UNCHANGED <<plan, node_index>>
    PROVE  KahnInv' /\ ready' \in Seq(Id) /\ order' \in Seq(Id)
<1> DEFINE curr == Head(ready)
           slots(x) == Cardinality(Slots(Deps(x), {curr}))
           left == [x \in Ids |-> in_degree[x] - slots(x)]
           woken == {x \in Ids : Slots(Deps(x), {curr}) # {} /\ left[x] = 0}
<1>1. /\ ready \in Seq(Id) /\ ready # <<>> /\ order \in Seq(Id)
      /\ order' = Append(order, curr)
      /\ in_degree' = left
  BY DEF TypeOK, Pop
<1>2. PICK q \in PlanOrder(woken) : ready' = Tail(ready) \o q
  BY DEF Pop
<1>3. Ids' = Ids /\ \A x : DepsAt(plan', node_index'[x]) = Deps(x)
  BY DEF Ids, Deps
<1>4. /\ Len(ready) \in Nat /\ Len(ready) > 0 /\ DOMAIN ready = 1..Len(ready)
      /\ curr = ready[1] /\ 1 \in DOMAIN ready
      /\ Tail(ready) \in Seq(Id) /\ Len(Tail(ready)) = Len(ready) - 1
      /\ DOMAIN Tail(ready) = 1..(Len(ready) - 1)
      /\ \A k \in 1..(Len(ready) - 1) : Tail(ready)[k] = ready[k + 1]
  BY <1>1, EmptySeq, LenProperties, HeadTailProperties
<1>5. /\ Len(order) \in Nat /\ DOMAIN order = 1..Len(order)
      /\ order' \in Seq(Id) /\ DOMAIN order' = 1..(Len(order) + 1)
      /\ \A k \in 1..Len(order) : order'[k] = order[k]
      /\ order'[Len(order) + 1] = curr
  <2>1. curr \in Id
    BY <1>1, <1>4, ElementOfSeq
  <2> QED BY <1>1, <2>1, AppendProperties, LenProperties
<1>6. curr \in Open /\ curr \in Ids /\ in_degree[curr] = 0
  BY <1>4 DEF KahnInv, Elems, Open
<1>7. Elems(order') = Elems(order) \cup {curr}
  <2>1. \A k \in DOMAIN order' : k \in DOMAIN order \/ k = Len(order) + 1
    BY <1>5
  <2>2. \A k \in DOMAIN order : k \in DOMAIN order'
    BY <1>5
  <2>3. Len(order) + 1 \in DOMAIN order'
    BY <1>5
  <2> HIDE DEF curr
  <2> QED BY <1>5, <2>1, <2>2, <2>3 DEF Elems
<1>8. Open' = Open \ {curr}
  BY <1>3, <1>7 DEF Open
<1>9. \A x \in Ids : /\ slots(x) \in Nat
                     /\ slots(x) = 0 <=> Slots(Deps(x), {curr}) = {}
                     /\ Cardinality(Slots(Deps(x), Open \ {curr}))
                          = Cardinality(Slots(Deps(x), Open)) - slots(x)
                     /\ Cardinality(Slots(Deps(x), Open \ {curr})) \in Nat
  <2> SUFFICES ASSUME NEW x \in Ids
               PROVE  /\ slots(x) \in Nat
                      /\ slots(x) = 0 <=> Slots(Deps(x), {curr}) = {}
                      /\ Cardinality(Slots(Deps(x), Open \ {curr}))
                           = Cardinality(Slots(Deps(x), Open)) - slots(x)
                      /\ Cardinality(Slots(Deps(x), Open \ {curr})) \in Nat
    OBVIOUS
  <2>1. Deps(x) \in Seq(Ids)
    BY DepsFacts
  <2> HIDE DEF curr
  <2> QED BY <1>6, <2>1, SlotsFinite, SlotsRemove
<1> HIDE DEF curr
<1>10. /\ in_degree' \in [Ids -> Nat]
       /\ \A x \in Ids : /\ in_degree'[x] = Cardinality(Slots(Deps(x), Open \ {curr}))
                         /\ in_degree[x] \in Nat
                         /\ in_degree'[x] = in_degree[x] - slots(x)
  <2>1. \A x \in Ids : in_degree[x] = Cardinality(Slots(Deps(x), Open)) /\ in_degree[x] \in Nat
    BY DEF KahnInv
  <2>2. \A x \in Ids : in_degree'[x] = in_degree[x] - slots(x)
    BY <1>1
  <2>3. \A x \in Ids : in_degree'[x] = Cardinality(Slots(Deps(x), Open \ {curr}))
    BY <1>9, <2>1, <2>2
  <2>4. \A x \in Ids : in_degree'[x] \in Nat
    BY <1>9, <2>3
  <2> QED BY <1>1, <2>1, <2>2, <2>3, <2>4
<1> HIDE DEF slots
<1>11. \A x \in Ids : x \in woken <=> in_degree'[x] = 0 /\ in_degree[x] # 0
  <2> SUFFICES ASSUME NEW x \in Ids
               PROVE  x \in woken <=> in_degree'[x] = 0 /\ in_degree[x] # 0
    OBVIOUS
  <2>1. x \in woken <=> slots(x) # 0 /\ in_degree'[x] = 0
    BY <1>1, <1>9
  <2>2. /\ in_degree[x] \in Nat /\ slots(x) \in Nat
        /\ in_degree'[x] = in_degree[x] - slots(x)
    BY <1>9, <1>10
  <2>3. \A a, b, c \in Nat : c = a - b => (b # 0 /\ c = 0 <=> c = 0 /\ a # 0)
    OBVIOUS
  <2>4. in_degree'[x] \in Nat
    BY <1>10
  <2> HIDE DEF left, woken
  <2>5. slots(x) # 0 /\ in_degree'[x] = 0 <=> in_degree'[x] = 0 /\ in_degree[x] # 0
    BY <2>2, <2>3, <2>4
  <2> QED BY <2>1, <2>5
<1>12. woken \subseteq Ids
  OBVIOUS
<1> HIDE DEF left, woken
<1>13. /\ q \in Seq(woken) /\ q \in Seq(Id) /\ Elems(q) = woken
       /\ \A k, l \in DOMAIN q : q[k] = q[l] => k = l
  <2>1. IsFiniteSet(woken) /\ woken \subseteq Id
    <3>1. woken \in SUBSET Ids /\ IsFiniteSet(Ids)
      BY <1>12, IndexFacts
    <3> QED BY <3>1, FS_Subset DEF TypeOK
  <2>2. q \in AnyOrder(woken)
    BY <1>2 DEF PlanOrder
  <2>3. /\ q \in Seq(woken) /\ Elems(q) = woken
        /\ \A k, l \in DOMAIN q : q[k] = q[l] => k = l
    BY <2>1, <2>2, AnyOrderFacts
  <2> QED BY <2>1, <2>3, SeqMonotonic
<1>14. Elems(Tail(ready)) = Elems(ready) \ {curr}
  <2>1. ASSUME NEW x \in Elems(Tail(ready)) PROVE x \in Elems(ready) \ {curr}
    <3>1. PICK k \in 1..(Len(ready) - 1) : x = Tail(ready)[k]
      BY <1>4, <2>1 DEF Elems
    <3>2. x = ready[k + 1] /\ k + 1 \in DOMAIN ready /\ k + 1 # 1
      BY <1>4, <3>1
    <3>3. x # curr
      BY <1>4, <3>2 DEF KahnInv
    <3> QED BY <3>2, <3>3 DEF Elems
  <2>2. ASSUME NEW x \in Elems(ready) \ {curr} PROVE x \in Elems(Tail(ready))
    <3>1. PICK k \in 1..Len(ready) : x = ready[k]
      BY <1>4, <2>2 DEF Elems
    <3>2. k # 1
      BY <1>4, <2>2, <3>1
    <3>3. k - 1 \in 1..(Len(ready) - 1) /\ ready[(k - 1) + 1] = x
      BY <1>4, <3>1, <3>2
    <3>4. k - 1 \in DOMAIN Tail(ready) /\ Tail(ready)[k - 1] = x
      BY <1>4, <3>3
    <3> QED BY <3>4 DEF Elems
  <2> QED BY <2>1, <2>2
<1>15. \A k, l \in DOMAIN Tail(ready) : Tail(ready)[k] = Tail(ready)[l] => k = l
  <2> SUFFICES ASSUME NEW k \in 1..(Len(ready) - 1), NEW l \in 1..(Len(ready) - 1),
                      Tail(ready)[k] = Tail(ready)[l]
               PROVE  k = l
    BY <1>4
  <2>1. k + 1 \in DOMAIN ready /\ l + 1 \in DOMAIN ready /\ ready[k + 1] = ready[l + 1]
    BY <1>4
  <2>2. k + 1 = l + 1
    BY <2>1 DEF KahnInv
  <2> QED BY <2>2
<1>16. ready' \in Seq(Id) /\ Elems(ready') = (Elems(ready) \ {curr}) \cup woken
  <2>1. Tail(ready) \o q \in Seq(Id)
    BY <1>4, <1>13, ConcatProperties
  <2>2. Elems(Tail(ready) \o q) = Elems(Tail(ready)) \cup Elems(q)
    <3> DEFINE t == Tail(ready)
    <3>1. t \in Seq(Id) /\ q \in Seq(Id)
      BY <1>4, <1>13
    <3> HIDE DEF t
    <3>2. Elems(t \o q) = Elems(t) \cup Elems(q)
      BY <3>1, ElemsConcat
    <3> QED BY <3>2 DEF t
  <2> QED BY <1>2, <1>13, <1>14, <2>1, <2>2
<1>17. Elems(ready') = {x \in Open \ {curr} : in_degree'[x] = 0}
  <2>1. ASSUME NEW x \in Elems(ready') PROVE x \in Open \ {curr} /\ in_degree'[x] = 0
    <3>1. CASE x \in Elems(ready) \ {curr}
      <4>1. x \in Open \ {curr} /\ x \in Ids /\ in_degree[x] = 0
        BY <3>1 DEF KahnInv, Open
      <4>2. slots(x) \in Nat /\ in_degree'[x] \in Nat /\ in_degree'[x] = 0 - slots(x)
        BY <1>9, <1>10, <4>1
      <4> QED BY <4>1, <4>2
    <3>2. CASE x \in woken
      <4>1. x \in Ids /\ in_degree'[x] = 0 /\ in_degree[x] # 0
        BY <1>11, <1>12, <3>2
      <4>2. x # curr
        BY <1>6, <4>1
      <4>3. x \notin Elems(order)
        <5> SUFFICES ASSUME NEW k \in DOMAIN order, x = order[k] PROVE FALSE
          BY DEF Elems
        <5>1. Elems(Deps(x)) \subseteq {order[l] : l \in 1..(k - 1)}
          BY DEF KahnInv
        <5>2. Elems(Deps(x)) \cap Open = {}
          <6>1. \A l \in 1..(k - 1) : l \in DOMAIN order
            BY <1>5
          <6> QED BY <5>1, <6>1 DEF Open, Elems
        <5>3. Slots(Deps(x), Open) = {}
          BY <5>2 DEF Slots, Elems
        <5>4. in_degree[x] = 0
          BY <4>1, <5>3, FS_EmptySet DEF KahnInv
        <5> QED BY <4>1, <5>4
      <4> QED BY <4>1, <4>2, <4>3 DEF Open
    <3> QED BY <1>16, <2>1, <3>1, <3>2
  <2>2. ASSUME NEW x \in Open \ {curr}, in_degree'[x] = 0 PROVE x \in Elems(ready')
    <3>1. x \in Ids
      BY DEF Open
    <3>2. CASE in_degree[x] = 0
      BY <1>16, <2>2, <3>2 DEF KahnInv
    <3>3. CASE in_degree[x] # 0
      BY <1>11, <1>16, <2>2, <3>1, <3>3
    <3> QED BY <3>2, <3>3
  <2> QED BY <2>1, <2>2
<1>18. \A k, l \in DOMAIN ready' : ready'[k] = ready'[l] => k = l
  <2> DEFINE t == Tail(ready)
  <2>1. /\ t \in Seq(Id) /\ Len(t) \in Nat /\ Len(q) \in Nat
        /\ DOMAIN t = 1..Len(t) /\ DOMAIN q = 1..Len(q)
        /\ DOMAIN ready' = 1..(Len(t) + Len(q))
        /\ \A k \in 1..(Len(t) + Len(q)) :
              ready'[k] = IF k <= Len(t) THEN t[k] ELSE q[k - Len(t)]
    BY <1>2, <1>4, <1>13, ConcatProperties, LenProperties
  <2>2. \A k \in DOMAIN t, l \in DOMAIN q : t[k] # q[l]
    <3> SUFFICES ASSUME NEW k \in DOMAIN t, NEW l \in DOMAIN q, t[k] = q[l] PROVE FALSE
      OBVIOUS
    <3>1. t[k] \in Elems(ready) /\ q[l] \in woken
      BY <1>13, <1>14 DEF Elems
    <3> QED BY <1>11, <1>12, <3>1 DEF KahnInv
  <2>3. \A k, l \in DOMAIN t : t[k] = t[l] => k = l
    BY <1>15
  <2> HIDE DEF t
  <2> SUFFICES ASSUME NEW k \in 1..(Len(t) + Len(q)), NEW l \in 1..(Len(t) + Len(q)),
                      k < l, ready'[k] = ready'[l]
               PROVE  FALSE
    BY <2>1
  <2>4. CASE l <= Len(t)
    <3>1. t[k] = t[l] /\ k \in DOMAIN t /\ l \in DOMAIN t
      BY <2>1, <2>4
    <3> QED BY <2>3, <3>1
  <2>5. CASE k <= Len(t) /\ l > Len(t)
    <3>1. t[k] = q[l - Len(t)] /\ k \in DOMAIN t /\ l - Len(t) \in DOMAIN q
      BY <2>1, <2>5
    <3> QED BY <2>2, <3>1
  <2>6. CASE k > Len(t)
    <3>1. /\ q[k - Len(t)] = q[l - Len(t)]
          /\ k - Len(t) \in DOMAIN q /\ l - Len(t) \in DOMAIN q
      BY <2>1, <2>6
    <3>2. k - Len(t) = l - Len(t)
      BY <1>13, <3>1
    <3> QED BY <2>1, <3>2
  <2> QED BY <2>1, <2>4, <2>5, <2>6
<1>19. \A k, l \in DOMAIN order' : order'[k] = order'[l] => k = l
  <2>1. \A k \in DOMAIN order : order[k] # curr
    BY <1>6 DEF Open, Elems
  <2>2. \A k \in DOMAIN order' : k \in DOMAIN order \/ k = Len(order) + 1
    BY <1>5
  <2> QED BY <1>5, <2>1, <2>2 DEF KahnInv
<1>20. \A k \in DOMAIN order' :
          Elems(DepsAt(plan', node_index'[order'[k]])) \subseteq {order'[l] : l \in 1..(k - 1)}
  <2> SUFFICES ASSUME NEW k \in DOMAIN order'
               PROVE  Elems(Deps(order'[k])) \subseteq {order'[l] : l \in 1..(k - 1)}
    BY <1>3
  <2>1. CASE k \in DOMAIN order
    <3>1. \A l \in 1..(k - 1) : order'[l] = order[l]
      BY <1>5, <2>1
    <3>2. Elems(Deps(order[k])) \subseteq {order[l] : l \in 1..(k - 1)}
      BY <2>1 DEF KahnInv
    <3> QED BY <1>5, <2>1, <3>1, <3>2
  <2>2. CASE k = Len(order) + 1
    <3>1. Deps(curr) \in Seq(Ids) /\ Elems(Deps(curr)) \subseteq Ids
      BY <1>6, DepsFacts
    <3>2. Slots(Deps(curr), Open) = {}
      <4>1. Cardinality(Slots(Deps(curr), Open)) = 0
        BY <1>6 DEF KahnInv
      <4> QED BY <3>1, <4>1, SlotsFinite
    <3>3. Elems(Deps(curr)) \subseteq Elems(order)
      BY <3>1, <3>2 DEF Slots, Elems, Open
    <3>4. Elems(order) = {order'[l] : l \in 1..(k - 1)}
      <4>1. k - 1 = Len(order)
        BY <1>5, <2>2
      <4> QED BY <1>5, <4>1 DEF Elems
    <3> QED BY <1>5, <2>2, <3>3, <3>4
  <2> QED BY <1>5, <2>1, <2>2
<1>21. Elems(order') \subseteq Ids
  BY <1>6, <1>7 DEF KahnInv
<1> QED BY <1>3, <1>5, <1>8, <1>10, <1>16, <1>17, <1>18, <1>19, <1>20, <1>21 DEF KahnInv, Deps

\* A non-empty set of naturals has a least member.
LEMMA LeastNatural ==
    ASSUME NEW K \in SUBSET Nat, K # {}
    PROVE  \E k \in K : \A l \in K : k <= l
<1>1. IsWellFoundedOn(OpToRel(<, Nat), Nat)
  BY NatLessThanWellFounded
<1>2. PICK k \in K : \A l \in K : ~(<<l, k>> \in OpToRel(<, Nat))
  BY <1>1, WFMin
<1>3. \A l \in K : ~(l < k)
  BY <1>2 DEF OpToRel
<1> QED BY <1>3

\* Every id processed: the graph has no cycle, since the first processed member of a
\* set depends on none of the others.
LEMMA ProcessedAcyclic ==
    ASSUME TypeOK, IndexInv, KahnInv, phase \notin {"head", "index", "rejected"},
           Elems(order) = Ids
    PROVE  Acyclic(plan)
<1> SUFFICES ASSUME NEW S \in SUBSET NodeIds(plan), S # {}
             PROVE  \E n \in DOMAIN plan.nodes :
                       plan.nodes[n].id \in S /\ Elems(DepsAt(plan, n)) \cap S = {}
  BY DEF Acyclic
<1>1. S \subseteq Elems(order)
  BY IndexFacts
<1>2. Len(order) \in Nat /\ DOMAIN order = 1..Len(order)
  BY LenProperties DEF TypeOK
<1> DEFINE K == {k \in DOMAIN order : order[k] \in S}
<1>3. K \in SUBSET Nat /\ K # {}
  BY <1>1, <1>2 DEF Elems
<1>4. PICK k \in K : \A l \in K : k <= l
  <2> HIDE DEF K
  <2> QED BY <1>3, LeastNatural
<1>5. \A l \in 1..(k - 1) : order[l] \notin S
  <2> SUFFICES ASSUME NEW l \in 1..(k - 1), order[l] \in S PROVE FALSE
    OBVIOUS
  <2>1. l \in K /\ l < k
    BY <1>2
  <2> QED BY <1>2, <1>4, <2>1
<1>6. Elems(Deps(order[k])) \subseteq {order[l] : l \in 1..(k - 1)}
  BY DEF KahnInv
<1>7. order[k] \in Ids /\ order[k] \in S
  BY DEF Elems
<1>8. node_index[order[k]] \in DOMAIN plan.nodes /\ plan.nodes[node_index[order[k]]].id = order[k]
  BY <1>7 DEF TypeOK, IndexInv
<1> QED BY <1>5, <1>6, <1>7, <1>8 DEF Deps

\* The queue empty and an id left: the ids left all depend on one another.
LEMMA StuckCyclic ==
    ASSUME TypeOK, IndexInv, CheckInv, KahnInv,
           phase \notin {"head", "index", "nodes", "rejected"}, ready = <<>>, Open # {}
    PROVE  ~Acyclic(plan)
<1>1. Open \in SUBSET NodeIds(plan)
  BY IndexFacts DEF Open
<1> SUFFICES ASSUME NEW n \in DOMAIN plan.nodes, plan.nodes[n].id \in Open,
                    Elems(DepsAt(plan, n)) \cap Open = {}
             PROVE  FALSE
  BY <1>1 DEF Acyclic
<1> DEFINE x == plan.nodes[n].id
<1>2. x \in Ids /\ node_index[x] = n
  <2>1. n \in 1..Len(plan.nodes)
    BY PlanFacts DEF TypeOK
  <2> QED BY <2>1 DEF IndexInv, Seen
<1>3. Elems(ready) = {}
  BY DEF Elems
<1>4. in_degree[x] # 0
  BY <1>3 DEF KahnInv
<1>5. Slots(Deps(x), Open) = {}
  BY <1>2 DEF Slots, Elems, Deps
<1> QED BY <1>2, <1>4, <1>5, FS_EmptySet DEF KahnInv

\* Comparing processed with the number of nodes tells whether an id is left.
LEMMA ProcessedCount ==
    ASSUME TypeOK, IndexInv, KahnInv, phase \notin {"head", "index", "rejected"}
    PROVE  /\ Len(order) = Len(plan.nodes) <=> Elems(order) = Ids
           /\ Len(order) \in Nat /\ Len(order) <= Len(plan.nodes)
<1>1. IsFiniteSet(Elems(order)) /\ Cardinality(Elems(order)) = Len(order) /\ Len(order) \in Nat
  BY DistinctLength, LenProperties DEF TypeOK, KahnInv
<1>2. IsFiniteSet(Ids) /\ Cardinality(Ids) = Len(plan.nodes)
  BY IndexFacts
<1>3. Elems(order) \in SUBSET Ids
  BY DEF KahnInv
<1>4. /\ Cardinality(Elems(order)) <= Cardinality(Ids)
      /\ Cardinality(Ids) = Cardinality(Elems(order)) => Ids = Elems(order)
  BY <1>2, <1>3, FS_Subset
<1> QED BY <1>1, <1>2, <1>4

\* Everything checked and no cycle: the plan is well-formed.
LEMMA CheckedWellFormed ==
    ASSUME TypeOK, IndexInv, CheckInv, Graphed
    PROVE  WellFormed(plan) <=> Acyclic(plan)
<1>1. Ids = NodeIds(plan)
      /\ \A m, n \in DOMAIN plan.nodes : plan.nodes[m].id = plan.nodes[n].id => m = n
  BY IndexFacts DEF Graphed
<1>2. DOMAIN plan.nodes = 1..Len(plan.nodes)
  BY PlanFacts DEF TypeOK
<1>3. /\ plan.head_ok
      /\ \A m \in 1..Len(plan.nodes) : plan.nodes[m].ok /\ Elems(DepsAt(plan, m)) \subseteq Ids
      /\ Elems(plan.outputs) \subseteq Ids
  BY DEF CheckInv, Checked, Graphed
<1> QED BY <1>1, <1>2, <1>3 DEF WellFormed

\* The invariant of the loop is about the graph and the loop's state only.
LEMMA KahnUnchanged ==
    ASSUME KahnInv, UNCHANGED <<plan, node_index, in_degree, ready, order>>
    PROVE  KahnInv'
<1>1. Ids' = Ids /\ Open' = Open /\ \A x : DepsAt(plan', node_index'[x]) = Deps(x)
  BY DEF Ids, Open, Deps
<1>2. \A x \in Ids' : in_degree'[x] = Cardinality(Slots(DepsAt(plan', node_index'[x]), Open'))
  BY <1>1 DEF KahnInv
<1>3. \A k \in DOMAIN order' :
         Elems(DepsAt(plan', node_index'[order'[k]])) \subseteq {order'[l] : l \in 1..(k - 1)}
  BY <1>1 DEF KahnInv
<1>4. in_degree' \in [Ids' -> Nat] /\ Elems(ready') = {x \in Open' : in_degree'[x] = 0}
  BY <1>1 DEF KahnInv
<1>5. /\ \A k, l \in DOMAIN ready' : ready'[k] = ready'[l] => k = l
      /\ Elems(order') \subseteq Ids'
      /\ \A k, l \in DOMAIN order' : order'[k] = order'[l] => k = l
  BY <1>1 DEF KahnInv
<1> QED BY <1>2, <1>3, <1>4, <1>5 DEF KahnInv, Deps

-----------------------------------------------------------------------------
(***************************************************************************)
(* The invariant is inductive: one lemma per action.                       *)
(***************************************************************************)

\* Before validate_plan nothing has been looked at.
LEMMA InitIndInv == Init => IndInv
<1> SUFFICES ASSUME Init PROVE IndInv
  OBVIOUS
<1>1. Ids = {} /\ Seen = 0 /\ Checked = 0
  BY DEF Init, Ids, Seen, Checked
<1>2. TypeOK
  <2>1. Len(plan.nodes) \in Nat
    BY PlanFacts DEF Init
  <2>2. <<>> \in Seq(Id)
    BY EmptySeq
  <2> QED BY <1>1, <2>1, <2>2 DEF Init, TypeOK
<1>3. IndexInv
  BY <1>1 DEF IndexInv
<1>4. CheckInv
  BY <1>1 DEF CheckInv, Init, Graphed
<1>5. ~Graphed /\ ~Running /\ ~Accepted /\ phase = "head"
  BY DEF Init, Graphed, Running, Accepted
<1>6. AcceptanceExact /\ RunInv /\ HeadInv
  BY <1>5 DEF Init, AcceptanceExact, RunInv, HeadInv
<1> QED BY <1>2, <1>3, <1>4, <1>5, <1>6 DEF IndInv

\* The head is in order, or the plan is not well-formed.
LEMMA CheckHeadStep == IndInv /\ CheckHead => IndInv'
<1> SUFFICES ASSUME IndInv, CheckHead PROVE IndInv'
  OBVIOUS
<1>1. /\ phase = "head" /\ UNCHANGED <<plan, i, node_index, in_degree, ready, order, results>>
      /\ Ids' = Ids /\ results = {}
  BY DEF CheckHead, kahnVars, Ids, IndInv, RunInv, Running
<1>2. CASE plan.head_ok
  <2>1. phase' = "index"
    BY <1>2 DEF CheckHead
  <2>2. TypeOK'
    BY <1>1, <2>1 DEF IndInv, TypeOK
  <2>3. Ids = {}
    <3>1. \A x \in Ids : node_index[x] \in 1..0
      BY <1>1 DEF IndInv, IndexInv, Seen
    <3> QED BY <3>1
  <2>4. i = 1
    BY <1>1 DEF IndInv, HeadInv
  <2> QED BY <1>1, <1>2, <2>1, <2>2, <2>3, <2>4
      DEF IndInv, IndexInv, CheckInv, Seen, Checked, Graphed, Running, Accepted, AcceptanceExact, RunInv, HeadInv
<1>3. CASE ~plan.head_ok
  <2>1. phase' = "rejected"
    BY <1>3 DEF CheckHead
  <2>2. TypeOK'
    BY <1>1, <2>1 DEF IndInv, TypeOK
  <2>3. ~WellFormed(plan)
    BY <1>3 DEF WellFormed
  <2> QED BY <1>1, <2>1, <2>2, <2>3
      DEF IndInv, IndexInv, CheckInv, Graphed, Running, Accepted, AcceptanceExact, RunInv, HeadInv
<1> QED BY <1>2, <1>3

\* A node is indexed, or its id is taken and the plan is not well-formed.
LEMMA IndexNodeStep == IndInv /\ IndexNode => IndInv'
<1> SUFFICES ASSUME IndInv, IndexNode PROVE IndInv'
  OBVIOUS
<1> DEFINE y == plan.nodes[i].id
           len == Len(plan.nodes)
<1>1. /\ phase = "index" /\ UNCHANGED <<plan, in_degree, ready, order, results>>
      /\ results = {} /\ plan.head_ok
  BY DEF IndexNode, kahnVars, IndInv, RunInv, Running, CheckInv
<1>2. /\ len \in Nat /\ DOMAIN plan.nodes = 1..len /\ i \in 1..(len + 1)
      /\ \A m \in 1..len : plan.nodes[m].id \in Id
  BY PlanFacts DEF IndInv, TypeOK
<1>3. /\ \A m \in 1..(i - 1) : plan.nodes[m].id \in Ids /\ node_index[plan.nodes[m].id] = m
      /\ \A x \in Ids : node_index[x] \in 1..(i - 1) /\ plan.nodes[node_index[x]].id = x
  BY <1>1 DEF IndInv, IndexInv, Seen
<1>4. CASE i > len
  <2>1. phase' = "nodes" /\ i' = 1 /\ UNCHANGED node_index /\ Ids' = Ids
    BY <1>1, <1>2, <1>4 DEF IndexNode, Ids
  <2>2. i - 1 = len
    BY <1>2, <1>4
  <2>3. TypeOK'
    BY <1>1, <1>2, <2>1 DEF IndInv, TypeOK
  <2>4. IndexInv'
    BY <1>1, <1>3, <2>1, <2>2 DEF IndexInv, Seen
  <2>5. CheckInv'
    BY <1>1, <2>1 DEF CheckInv, Checked, Graphed
  <2> QED BY <1>1, <2>1, <2>3, <2>4, <2>5
      DEF IndInv, Graphed, Running, Accepted, AcceptanceExact, RunInv, HeadInv
<1>5. CASE i <= len /\ y \in Ids
  <2>1. phase' = "rejected" /\ UNCHANGED <<i, node_index>> /\ Ids' = Ids
    BY <1>1, <1>2, <1>5 DEF IndexNode, Ids
  <2>2. TypeOK'
    BY <1>1, <2>1 DEF IndInv, TypeOK
  <2>3. ~WellFormed(plan)
    <3>1. /\ node_index[y] \in DOMAIN plan.nodes /\ i \in DOMAIN plan.nodes
          /\ plan.nodes[node_index[y]].id = plan.nodes[i].id /\ node_index[y] # i
      BY <1>2, <1>3, <1>5
    <3> QED BY <3>1 DEF WellFormed
  <2> QED BY <1>1, <2>1, <2>2, <2>3
      DEF IndInv, IndexInv, CheckInv, Graphed, Running, Accepted, AcceptanceExact, RunInv, HeadInv
<1>6. CASE i <= len /\ y \notin Ids
  <2>1. /\ phase' = "index" /\ i' = i + 1
        /\ node_index' = [x \in Ids \cup {y} |-> IF x \in Ids THEN node_index[x] ELSE i]
    BY <1>1, <1>2, <1>6 DEF IndexNode
  <2>2. Ids' = Ids \cup {y}
    BY <2>1 DEF Ids
  <2>3. i \in 1..len /\ i + 1 \in 1..(len + 1) /\ (i + 1) - 1 = i
    BY <1>2, <1>6
  <2>4. \A m \in 1..i : m \in 1..(i - 1) \/ m = i
    BY <2>3
  <2>5. \A m \in 1..i : plan.nodes[m].id \in Ids' /\ node_index'[plan.nodes[m].id] = m
    BY <1>3, <1>6, <2>1, <2>2, <2>4
  <2>6. \A x \in Ids' : node_index'[x] \in 1..i /\ plan.nodes[node_index'[x]].id = x
    <3>1. ASSUME NEW x \in Ids PROVE node_index'[x] \in 1..i /\ plan.nodes[node_index'[x]].id = x
      <4>1. node_index'[x] = node_index[x] /\ node_index[x] \in 1..(i - 1)
        BY <1>3, <2>1
      <4> QED BY <1>3, <2>3, <4>1
    <3>2. node_index'[y] = i
      BY <1>6, <2>1
    <3> QED BY <2>2, <2>3, <3>1, <3>2
  <2>7. TypeOK'
    <3>1. y \in Id
      BY <1>2, <2>3
    <3>2. Ids' \subseteq Id
      BY <2>2, <3>1 DEF IndInv, TypeOK
    <3>3. \A x \in Ids' : node_index'[x] \in DOMAIN plan.nodes
      BY <1>2, <2>3, <2>6
    <3>4. node_index' \in [Ids' -> DOMAIN plan'.nodes]
      BY <1>1, <2>1, <2>2, <3>3
    <3> QED BY <1>1, <2>1, <2>3, <3>2, <3>4 DEF IndInv, TypeOK
  <2>8. IndexInv'
    BY <1>1, <2>1, <2>3, <2>5, <2>6 DEF IndexInv, Seen
  <2>9. CheckInv'
    BY <1>1, <2>1 DEF CheckInv, Checked, Graphed
  <2> QED BY <1>1, <2>1, <2>7, <2>8, <2>9
      DEF IndInv, Graphed, Running, Accepted, AcceptanceExact, RunInv, HeadInv
<1> QED BY <1>2, <1>4, <1>5, <1>6

\* A node is in order, or the plan is not well-formed.
LEMMA CheckNodeStep == IndInv /\ CheckNode => IndInv'
<1> SUFFICES ASSUME IndInv, CheckNode PROVE IndInv'
  OBVIOUS
<1> DEFINE len == Len(plan.nodes)
           good(m) == plan.nodes[m].ok /\ Elems(DepsAt(plan, m)) \subseteq Ids
<1>1. /\ phase = "nodes" /\ UNCHANGED <<plan, node_index, in_degree, ready, order, results>>
      /\ Ids' = Ids /\ results = {} /\ plan.head_ok
  BY DEF CheckNode, kahnVars, Ids, IndInv, RunInv, Running, CheckInv
<1>2. len \in Nat /\ DOMAIN plan.nodes = 1..len /\ i \in 1..(len + 1)
  BY PlanFacts DEF IndInv, TypeOK
<1>3. \A m \in 1..(i - 1) : good(m)
  BY <1>1 DEF IndInv, CheckInv, Checked
<1>4. IndexInv'
  <2>1. Seen = len /\ (phase' # "rejected" => Seen' = len)
    BY <1>1 DEF CheckNode, Seen
  <2> QED BY <1>1, <2>1 DEF IndInv, IndexInv
<1>5. CASE i > len
  <2>1. phase' = "outputs" /\ i' = i
    BY <1>1, <1>2, <1>5 DEF CheckNode
  <2>2. i - 1 = len
    BY <1>2, <1>5
  <2>3. TypeOK'
    BY <1>1, <2>1 DEF IndInv, TypeOK
  <2>4. CheckInv'
    BY <1>1, <1>3, <2>1, <2>2 DEF CheckInv, Checked, Graphed
  <2> QED BY <1>1, <1>4, <2>1, <2>3, <2>4
      DEF IndInv, Graphed, Running, Accepted, AcceptanceExact, RunInv, HeadInv
<1>6. CASE i <= len /\ good(i)
  <2>1. phase' = "nodes" /\ i' = i + 1
    BY <1>1, <1>2, <1>6 DEF CheckNode
  <2>2. i + 1 \in 1..(len + 1) /\ (i + 1) - 1 = i /\ \A m \in 1..i : m \in 1..(i - 1) \/ m = i
    BY <1>2, <1>6
  <2>3. TypeOK'
    BY <1>1, <2>1, <2>2 DEF IndInv, TypeOK
  <2>4. \A m \in 1..i : good(m)
    BY <1>3, <1>6, <2>2
  <2>5. CheckInv'
    BY <1>1, <2>1, <2>2, <2>4 DEF CheckInv, Checked, Graphed
  <2> QED BY <1>1, <1>4, <2>1, <2>3, <2>5
      DEF IndInv, Graphed, Running, Accepted, AcceptanceExact, RunInv, HeadInv
<1>7. CASE i <= len /\ ~good(i)
  <2>1. phase' = "rejected" /\ i' = i
    BY <1>1, <1>2, <1>7 DEF CheckNode
  <2>2. TypeOK'
    BY <1>1, <2>1 DEF IndInv, TypeOK
  <2>3. ~WellFormed(plan)
    <3>1. Ids = NodeIds(plan)
      BY <1>1, IndexFacts DEF IndInv
    <3>2. i \in DOMAIN plan.nodes
      BY <1>2, <1>7
    <3> QED BY <1>7, <3>1, <3>2 DEF WellFormed
  <2> QED BY <1>1, <1>4, <2>1, <2>2, <2>3
      DEF IndInv, CheckInv, Graphed, Running, Accepted, AcceptanceExact, RunInv, HeadInv
<1> QED BY <1>2, <1>5, <1>6, <1>7

\* The outputs exist and the graph is built, or the plan is not well-formed.
LEMMA CheckOutputsStep == IndInv /\ CheckOutputs => IndInv'
<1> SUFFICES ASSUME IndInv, CheckOutputs PROVE IndInv'
  OBVIOUS
<1>1. /\ phase = "outputs" /\ UNCHANGED <<plan, i, node_index, results>>
      /\ Ids' = Ids /\ results = {} /\ plan.head_ok
  BY DEF CheckOutputs, Ids, IndInv, RunInv, Running, CheckInv
<1>2. IndexInv'
  <2>1. Seen = Len(plan.nodes) /\ (phase' # "rejected" => Seen' = Len(plan.nodes))
    BY <1>1 DEF CheckOutputs, Seen
  <2> QED BY <1>1, <2>1 DEF IndInv, IndexInv
<1>3. CASE Elems(plan.outputs) \subseteq Ids
  <2>1. phase' = "check" /\ BuildGraph
    BY <1>3 DEF CheckOutputs
  <2>2. KahnInv' /\ ready' \in Seq(Id) /\ order' \in Seq(Id)
    BY <1>1, <2>1, BuildStep DEF IndInv
  <2>3. TypeOK'
    BY <1>1, <2>1, <2>2 DEF IndInv, TypeOK, KahnInv
  <2>4. CheckInv'
    BY <1>1, <1>3, <2>1 DEF IndInv, CheckInv, Checked, Graphed
  <2> QED BY <1>1, <1>2, <2>1, <2>2, <2>3, <2>4
      DEF IndInv, Running, Accepted, AcceptanceExact, RunInv, HeadInv
<1>4. CASE ~(Elems(plan.outputs) \subseteq Ids)
  <2>1. phase' = "rejected" /\ UNCHANGED <<in_degree, ready, order>>
    BY <1>4 DEF CheckOutputs, kahnVars
  <2>2. TypeOK'
    BY <1>1, <2>1 DEF IndInv, TypeOK
  <2>3. ~WellFormed(plan)
    <3>1. Ids = NodeIds(plan)
      BY <1>1, IndexFacts DEF IndInv
    <3> QED BY <1>4, <3>1 DEF WellFormed
  <2> QED BY <1>1, <1>2, <2>1, <2>2, <2>3
      DEF IndInv, CheckInv, Graphed, Running, Accepted, AcceptanceExact, RunInv, HeadInv
<1> QED BY <1>3, <1>4

\* What a step within the accepted part leaves alone.
LEMMA GraphedStep ==
    ASSUME IndInv, Graphed, phase' # "rejected", Graphed', UNCHANGED <<plan, node_index>>
    PROVE  IndexInv' /\ CheckInv' /\ HeadInv'
<1>1. Ids' = Ids
  BY DEF Ids
<1>2. Seen = Len(plan.nodes) /\ Seen' = Seen /\ Checked = Len(plan.nodes) /\ Checked' = Checked
  BY DEF Graphed, Seen, Checked
<1>3. IndexInv'
  BY <1>1, <1>2 DEF IndInv, IndexInv, Graphed
<1>4. CheckInv'
  BY <1>1, <1>2 DEF IndInv, CheckInv, Graphed
<1> QED BY <1>3, <1>4 DEF HeadInv, Graphed

\* A turn of Kahn's loop, or its end: the count decides whether there is a cycle.
LEMMA CheckCycleStep == IndInv /\ CheckCycle => IndInv'
<1> SUFFICES ASSUME IndInv, CheckCycle PROVE IndInv'
  OBVIOUS
<1>1. /\ phase = "check" /\ UNCHANGED <<plan, i, node_index, results>>
      /\ Ids' = Ids /\ results = {} /\ Graphed /\ KahnInv
  BY DEF CheckCycle, Ids, IndInv, RunInv, Running, Graphed
<1>2. CASE Pop /\ phase' = phase
  <2>1. KahnInv' /\ ready' \in Seq(Id) /\ order' \in Seq(Id)
    BY <1>1, <1>2, PopStep DEF IndInv
  <2>2. TypeOK'
    BY <1>1, <1>2, <2>1 DEF IndInv, TypeOK, KahnInv
  <2>3. IndexInv' /\ CheckInv' /\ HeadInv'
    BY <1>1, <1>2, GraphedStep DEF Graphed
  <2> QED BY <1>1, <1>2, <2>1, <2>2, <2>3
      DEF IndInv, Running, Accepted, AcceptanceExact, RunInv
<1>3. CASE ready = <<>> /\ Len(order) = Len(plan.nodes)
  <2>1. phase' = "accepted" /\ UNCHANGED <<in_degree, ready, order>>
    BY <1>1, <1>3 DEF CheckCycle, kahnVars, Pop
  <2>2. Elems(order) = Ids
    BY <1>1, <1>3, ProcessedCount DEF IndInv
  <2>3. WellFormed(plan)
    BY <1>1, <2>2, ProcessedAcyclic, CheckedWellFormed DEF IndInv
  <2>4. TypeOK'
    BY <1>1, <2>1 DEF IndInv, TypeOK
  <2>5. IndexInv' /\ CheckInv' /\ HeadInv'
    BY <1>1, <2>1, GraphedStep DEF Graphed
  <2>6. KahnInv'
    BY <1>1, <2>1, KahnUnchanged
  <2> QED BY <1>1, <2>1, <2>3, <2>4, <2>5, <2>6
      DEF IndInv, Running, Accepted, AcceptanceExact, RunInv
<1>4. CASE ready = <<>> /\ Len(order) # Len(plan.nodes)
  <2>1. phase' = "rejected" /\ UNCHANGED <<in_degree, ready, order>>
    BY <1>1, <1>4 DEF CheckCycle, kahnVars, Pop
  <2>2. Open # {}
    <3>1. Elems(order) # Ids /\ Elems(order) \subseteq Ids
      BY <1>1, <1>4, ProcessedCount DEF IndInv, KahnInv
    <3> QED BY <3>1 DEF Open
  <2>3. ~WellFormed(plan)
    BY <1>1, <1>4, <2>2, StuckCyclic DEF WellFormed, IndInv
  <2>4. TypeOK'
    BY <1>1, <2>1 DEF IndInv, TypeOK
  <2> QED BY <1>1, <2>1, <2>3, <2>4
      DEF IndInv, IndexInv, CheckInv, Graphed, Running, Accepted, AcceptanceExact, RunInv, HeadInv
<1> QED BY <1>1, <1>2, <1>3, <1>4 DEF CheckCycle

\* The executor builds the graph again.
LEMMA SortBeginStep == IndInv /\ Sort => IndInv'
<1> SUFFICES ASSUME IndInv, Sort PROVE IndInv'
  OBVIOUS
<1>1. /\ phase = "accepted" /\ phase' = "sort" /\ BuildGraph
      /\ UNCHANGED <<plan, i, node_index, results>> /\ Ids' = Ids /\ results = {}
  BY DEF Sort, Ids, IndInv, RunInv, Running
<1>2. KahnInv' /\ ready' \in Seq(Id) /\ order' \in Seq(Id)
  BY <1>1, BuildStep DEF IndInv
<1>3. TypeOK'
  BY <1>1, <1>2 DEF IndInv, TypeOK, KahnInv
<1>4. IndexInv' /\ CheckInv' /\ HeadInv'
  BY <1>1, GraphedStep DEF Graphed
<1> QED BY <1>1, <1>2, <1>3, <1>4 DEF IndInv, Running, Accepted, AcceptanceExact, RunInv

\* The executor sorts again, and a well-formed plan leaves no id behind.
LEMMA SortStepStep == IndInv /\ SortStep => IndInv'
<1> SUFFICES ASSUME IndInv, SortStep PROVE IndInv'
  OBVIOUS
<1>1. /\ phase = "sort" /\ UNCHANGED <<plan, node_index, results>>
      /\ Ids' = Ids /\ results = {} /\ Graphed /\ KahnInv /\ WellFormed(plan)
  BY DEF SortStep, Ids, IndInv, RunInv, Running, Graphed, AcceptanceExact, Accepted
<1>2. CASE Pop /\ UNCHANGED <<phase, i>>
  <2>1. KahnInv' /\ ready' \in Seq(Id) /\ order' \in Seq(Id)
    BY <1>1, <1>2, PopStep DEF IndInv
  <2>2. TypeOK'
    BY <1>1, <1>2, <2>1 DEF IndInv, TypeOK, KahnInv
  <2>3. IndexInv' /\ CheckInv' /\ HeadInv'
    BY <1>1, <1>2, GraphedStep DEF Graphed
  <2> QED BY <1>1, <1>2, <2>1, <2>2, <2>3
      DEF IndInv, Running, Accepted, AcceptanceExact, RunInv
<1>3. CASE ready = <<>> /\ phase' = "fetch" /\ i' = 1 /\ UNCHANGED <<in_degree, ready, order>>
  <2>1. Elems(order) = Ids
    <3>1. Open = {}
      BY <1>1, <1>3, StuckCyclic DEF WellFormed, IndInv
    <3> QED BY <1>1, <3>1 DEF Open, KahnInv
  <2>2. TypeOK'
    <3>1. Len(plan.nodes) \in Nat
      BY PlanFacts DEF IndInv, TypeOK
    <3> QED BY <1>1, <1>3, <3>1 DEF IndInv, TypeOK
  <2>3. IndexInv' /\ CheckInv' /\ HeadInv'
    BY <1>1, <1>3, GraphedStep DEF Graphed
  <2>4. KahnInv'
    BY <1>1, <1>3, KahnUnchanged
  <2>5. RunInv'
    <3>1. Len(order) \in Nat
      BY LenProperties DEF IndInv, TypeOK
    <3>2. {order[l] : l \in 1..(1 - 1)} = {}
      OBVIOUS
    <3> QED BY <1>1, <1>3, <2>1, <3>1, <3>2 DEF RunInv, Running
  <2> QED BY <1>1, <1>3, <2>2, <2>3, <2>4, <2>5 DEF IndInv, Accepted, AcceptanceExact
<1> QED BY <1>1, <1>2, <1>3 DEF SortStep, kahnVars

\* The steps of the execution: only phase, i and results change.
LEMMA RunningStep ==
    ASSUME IndInv, Running, Running', UNCHANGED <<plan, node_index, in_degree, ready, order>>,
           i' \in Nat \ {0}, i' <= Len(order) + 1, results' \subseteq Id,
           phase' \in {"fetch", "run", "collect", "done", "failed"}
    PROVE  TypeOK' /\ HeadInv' /\ IndexInv' /\ CheckInv' /\ KahnInv' /\ AcceptanceExact'
<1>1. Graphed /\ Graphed' /\ Accepted /\ Accepted' /\ phase' # "rejected" /\ Ids' = Ids
  BY DEF Running, Graphed, Accepted, Ids
<1>2. IndexInv' /\ CheckInv' /\ HeadInv'
  BY <1>1, GraphedStep
<1>3. KahnInv'
  BY <1>1, KahnUnchanged DEF IndInv
<1>4. AcceptanceExact'
  BY <1>1 DEF IndInv, AcceptanceExact
<1>5. i' \in 1..(Len(plan.nodes) + 1)
  <2>1. Len(order) \in Nat /\ Len(order) <= Len(plan.nodes)
    BY <1>1, ProcessedCount DEF IndInv, Running
  <2>2. Len(plan.nodes) \in Nat
    BY PlanFacts DEF IndInv, TypeOK
  <2> QED BY <2>1, <2>2
<1>6. TypeOK'
  BY <1>1, <1>5 DEF IndInv, TypeOK
<1> QED BY <1>2, <1>3, <1>4, <1>6

\* The next node, or the end of the order.
LEMMA FetchStep == IndInv /\ Fetch => IndInv'
<1> SUFFICES ASSUME IndInv, Fetch PROVE IndInv'
  OBVIOUS
<1>1. /\ phase = "fetch" /\ UNCHANGED <<plan, i, node_index, in_degree, ready, order, results>>
      /\ phase' = IF i > Len(order) THEN "collect" ELSE "run"
      /\ Running /\ Running' /\ Ids' = Ids
  BY DEF Fetch, kahnVars, Running, Ids
<1>2. i \in Nat \ {0} /\ i <= Len(order) + 1 /\ results \subseteq Id /\ Len(order) \in Nat
  BY <1>1, LenProperties DEF IndInv, TypeOK, RunInv
<1>3. TypeOK' /\ HeadInv' /\ IndexInv' /\ CheckInv' /\ KahnInv' /\ AcceptanceExact'
  BY <1>1, <1>2, RunningStep
<1>4. RunInv'
  BY <1>1, <1>2 DEF IndInv, RunInv
<1> QED BY <1>3, <1>4 DEF IndInv

\* A node adds its result, or fails.
LEMMA RunStep == IndInv /\ Run => IndInv'
<1> SUFFICES ASSUME IndInv, Run PROVE IndInv'
  OBVIOUS
<1>1. /\ phase = "run" /\ UNCHANGED <<plan, node_index, in_degree, ready, order>>
      /\ Running /\ Running' /\ Ids' = Ids
  BY DEF Run, kahnVars, Running, Ids
<1>2. /\ i \in Nat \ {0} /\ i <= Len(order) /\ results \subseteq Id /\ Len(order) \in Nat
      /\ order[i] \in Id /\ results = {order[l] : l \in 1..(i - 1)}
      /\ ready = <<>> /\ Elems(order) = Ids
  <2>1. /\ i \in Nat \ {0} /\ results \subseteq Id /\ order \in Seq(Id) /\ Len(order) \in Nat
    BY LenProperties DEF IndInv, TypeOK
  <2>2. /\ i <= Len(order) /\ results = {order[l] : l \in 1..(i - 1)}
        /\ ready = <<>> /\ Elems(order) = Ids
    BY <1>1 DEF IndInv, RunInv
  <2>3. i \in 1..Len(order)
    BY <2>1, <2>2
  <2> QED BY <2>1, <2>2, <2>3, ElementOfSeq
<1>3. CASE results' = results \cup {order[i]} /\ i' = i + 1 /\ phase' = "fetch"
  <2>1. TypeOK' /\ HeadInv' /\ IndexInv' /\ CheckInv' /\ KahnInv' /\ AcceptanceExact'
    BY <1>1, <1>2, <1>3, RunningStep
  <2>2. results' = {order[l] : l \in 1..i} /\ (i + 1) - 1 = i /\ i + 1 <= Len(order) + 1
    <3>1. 1..i = (1..(i - 1)) \cup {i}
      BY <1>2
    <3> QED BY <1>2, <1>3, <3>1
  <2>3. RunInv'
    BY <1>1, <1>2, <1>3, <2>2 DEF RunInv, Running
  <2> QED BY <2>1, <2>3 DEF IndInv
<1>4. CASE phase' = "failed" /\ UNCHANGED <<i, results>>
  <2>1. TypeOK' /\ HeadInv' /\ IndexInv' /\ CheckInv' /\ KahnInv' /\ AcceptanceExact'
    BY <1>1, <1>2, <1>4, RunningStep
  <2>2. RunInv'
    BY <1>1, <1>2, <1>4 DEF RunInv, Running
  <2> QED BY <2>1, <2>2 DEF IndInv
<1> QED BY <1>3, <1>4 DEF Run

\* The outputs are read.
LEMMA CollectStep == IndInv /\ Collect => IndInv'
<1> SUFFICES ASSUME IndInv, Collect PROVE IndInv'
  OBVIOUS
<1>1. /\ phase = "collect" /\ phase' = "done"
      /\ UNCHANGED <<plan, i, node_index, in_degree, ready, order, results>>
      /\ Running /\ Running' /\ Ids' = Ids
  BY DEF Collect, kahnVars, Running, Ids
<1>2. i \in Nat \ {0} /\ i <= Len(order) + 1 /\ results \subseteq Id
  BY <1>1 DEF IndInv, TypeOK, RunInv
<1>3. TypeOK' /\ HeadInv' /\ IndexInv' /\ CheckInv' /\ KahnInv' /\ AcceptanceExact'
  BY <1>1, <1>2, RunningStep
<1>4. RunInv'
  BY <1>1 DEF IndInv, RunInv
<1> QED BY <1>3, <1>4 DEF IndInv

\* Every step preserves the invariant.
LEMMA NextIndInv == IndInv /\ [Next]_vars => IndInv'
<1> SUFFICES ASSUME IndInv, [Next]_vars PROVE IndInv'
  OBVIOUS
<1>1. CASE UNCHANGED vars
  <2>1. /\ UNCHANGED <<plan, phase, i, node_index, in_degree, ready, order, results>>
        /\ Ids' = Ids /\ Seen' = Seen /\ Checked' = Checked
        /\ Graphed' = Graphed /\ Running' = Running /\ Accepted' = Accepted
    BY <1>1 DEF vars, Ids, Seen, Checked, Graphed, Running, Accepted
  <2>2. TypeOK' /\ HeadInv' /\ IndexInv'
    BY <2>1 DEF IndInv, TypeOK, HeadInv, IndexInv
  <2>3. CheckInv' /\ AcceptanceExact' /\ RunInv'
    BY <2>1 DEF IndInv, CheckInv, AcceptanceExact, RunInv
  <2>4. (Graphed => KahnInv)'
    BY <2>1, KahnUnchanged DEF IndInv
  <2> QED BY <2>2, <2>3, <2>4 DEF IndInv
<1> QED BY <1>1, CheckHeadStep, IndexNodeStep, CheckNodeStep, CheckOutputsStep, CheckCycleStep,
           SortBeginStep, SortStepStep, FetchStep, RunStep, CollectStep DEF Next

-----------------------------------------------------------------------------
(***************************************************************************)
(* Theorems.                                                               *)
(***************************************************************************)

\* The inductive invariant holds.
THEOREM Invariance == Spec => []IndInv
<1>1. Init => IndInv
  BY InitIndInv
<1>2. IndInv /\ [Next]_vars => IndInv'
  BY NextIndInv
<1> QED BY <1>1, <1>2, PTL DEF Spec

\* Types of validate_plan and execute_plan_sequential; in_degree never goes below 0.
THEOREM TypeCorrect == Spec => []TypeOK
<1>1. IndInv => TypeOK
  BY DEF IndInv
<1> QED BY <1>1, Invariance, PTL

\* For every plan, validate_plan accepts it if and only if it is well-formed.
THEOREM ValidationIsExact == Spec => []AcceptanceExact
<1>1. IndInv => AcceptanceExact
  BY DEF IndInv
<1> QED BY <1>1, Invariance, PTL

\* No results.at of the sequential executor throws.
THEOREM LookupsNeverFail == Spec => []LookupsSucceed
<1>1. IndInv => LookupsSucceed
  <2> SUFFICES ASSUME IndInv PROVE LookupsSucceed
    OBVIOUS
  <2>0. Len(order) \in Nat /\ DOMAIN order = 1..Len(order) /\ i \in Nat \ {0}
    BY LenProperties DEF IndInv, TypeOK
  <2>1. phase = "run" => Elems(Deps(order[i])) \subseteq results
    <3> SUFFICES ASSUME phase = "run" PROVE Elems(Deps(order[i])) \subseteq results
      OBVIOUS
    <3>1. i \in DOMAIN order /\ results = {order[l] : l \in 1..(i - 1)} /\ KahnInv
      BY <2>0 DEF IndInv, RunInv, Running, Graphed
    <3> QED BY <3>1 DEF KahnInv
  <2>2. phase = "collect" => Elems(plan.outputs) \subseteq results
    <3> SUFFICES ASSUME phase = "collect" PROVE Elems(plan.outputs) \subseteq results
      OBVIOUS
    <3>1. /\ results = {order[l] : l \in 1..(i - 1)} /\ i = Len(order) + 1
          /\ Elems(order) = Ids /\ Elems(plan.outputs) \subseteq Ids
      BY DEF IndInv, RunInv, Running, CheckInv, Graphed
    <3>2. i - 1 = Len(order)
      BY <2>0, <3>1
    <3> QED BY <2>0, <3>1, <3>2 DEF Elems
  <2> QED BY <2>1, <2>2 DEF LookupsSucceed
<1> QED BY <1>1, Invariance, PTL

\* A clean execution runs every node of the plan, each once.
THEOREM EachNodeRunsOnce == Spec => []RunsEachOnce
<1>1. IndInv => RunsEachOnce
  <2> SUFFICES ASSUME IndInv PROVE RunsEachOnce
    OBVIOUS
  <2>0. Len(order) \in Nat /\ DOMAIN order = 1..Len(order) /\ i \in Nat \ {0}
    BY LenProperties DEF IndInv, TypeOK
  <2>1. phase = "run" => order[i] \notin results
    <3> SUFFICES ASSUME phase = "run" PROVE order[i] \notin results
      OBVIOUS
    <3>1. i <= Len(order) /\ results = {order[l] : l \in 1..(i - 1)} /\ KahnInv
      BY DEF IndInv, RunInv, Running, Graphed
    <3>2. i \in DOMAIN order /\ \A l \in 1..(i - 1) : l \in DOMAIN order /\ l # i
      BY <2>0, <3>1
    <3> QED BY <3>1, <3>2 DEF KahnInv
  <2>2. phase = "done" => results = NodeIds(plan)
    <3> SUFFICES ASSUME phase = "done" PROVE results = NodeIds(plan)
      OBVIOUS
    <3>1. /\ results = {order[l] : l \in 1..(i - 1)} /\ i = Len(order) + 1 /\ Elems(order) = Ids
      BY DEF IndInv, RunInv, Running
    <3>2. i - 1 = Len(order)
      BY <2>0, <3>1
    <3>3. Ids = NodeIds(plan)
      BY IndexFacts DEF IndInv
    <3> QED BY <2>0, <3>1, <3>2, <3>3 DEF Elems
  <2> QED BY <2>1, <2>2 DEF RunsEachOnce
<1> QED BY <1>1, Invariance, PTL

=============================================================================
