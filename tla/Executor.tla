------------------------------- MODULE Executor -------------------------------
(***************************************************************************)
(* One plan on its way through validate_plan and, if it is accepted,       *)
(* execute_plan_sequential.  Node ids are what a plan file says they are:  *)
(* repeated, or naming no node.  Whether a node's op is registered and its *)
(* parameters, expressions, predicates and endpoints are in order is one   *)
(* bit; so is the head of the plan (schema_version, capabilities).  Module *)
(* WritesEffect says what a node's task is and adds what validate_plan     *)
(* finds out about its writes.                                             *)
(***************************************************************************)
EXTENDS Integers, Sequences, FiniteSets

CONSTANTS
    Id,      \* node ids
    Task,    \* what a node's op and params can be
    Plans    \* the parsed plans considered

PlanNode == [id : Id, task : Task, ok : BOOLEAN, inputs : Seq(Id), refs : Seq(Id)]

ASSUME PlansAssumption ==
    Plans \subseteq [head_ok : BOOLEAN, nodes : Seq(PlanNode), outputs : Seq(Id)]

VARIABLES
    plan,        \* the plan (immutable)
    phase,       \* where the program is
    i,           \* index of the loop it is in
    node_index,  \* node_id -> index, for the ids seen so far
    in_degree,   \* per id, dependencies not yet processed
    ready,       \* Kahn's queue
    order,       \* ids processed (topo_order; its length is processed)
    results      \* ids whose RowSet is in results

vars == <<plan, phase, i, node_index, in_degree, ready, order, results>>
kahnVars == <<in_degree, ready, order>>

Ids == DOMAIN node_index
Elems(s) == {s[k] : k \in DOMAIN s}

\* A node's dependencies: its inputs, then its NodeRef parameters.
DepsAt(p, n) == p.nodes[n].inputs \o p.nodes[n].refs
Deps(x) == DepsAt(plan, node_index[x])

\* Positions in a list of dependencies that name a member of S: each is one entry
\* of successors and one count of in_degree.
Slots(deps, S) == {k \in DOMAIN deps : deps[k] \in S}

\* The members of S once each, in any order (the iteration of an unordered_map).
AnyOrder(S) == {q \in [1..Cardinality(S) -> S] : Elems(q) = S}

\* The members of S in the order of plan.nodes (the order within successors[curr]).
PlanOrder(S) ==
    {q \in AnyOrder(S) : \A k, l \in DOMAIN q : k < l => node_index[q[k]] < node_index[q[l]]}

TypeOK ==
    /\ plan \in Plans
    /\ phase \in {"head", "index", "nodes", "outputs", "check", "accepted", "sort",
                  "fetch", "run", "collect", "done", "failed", "rejected"}
    /\ i \in 1..(Len(plan.nodes) + 1)
    /\ Ids \subseteq Id
    /\ node_index \in [Ids -> DOMAIN plan.nodes]
    /\ DOMAIN in_degree \subseteq Id
    /\ in_degree \in [DOMAIN in_degree -> Nat]
    /\ ready \in Seq(Id)
    /\ order \in Seq(Id)
    /\ results \subseteq Id

Init ==
    /\ plan \in Plans
    /\ phase = "head"
    /\ i = 1
    /\ node_index = [x \in {} |-> 0]
    /\ in_degree = [x \in {} |-> 0]
    /\ ready = <<>>
    /\ order = <<>>
    /\ results = {}

-----------------------------------------------------------------------------
(***************************************************************************)
(* validate_plan                                                           *)
(***************************************************************************)
CheckHead ==
    /\ phase = "head"
    /\ phase' = IF plan.head_ok THEN "index" ELSE "rejected"
    /\ UNCHANGED <<plan, i, node_index, kahnVars, results>>

\* One id more in node_index, or a duplicate.
IndexNode ==
    /\ phase = "index"
    /\ \/ /\ i > Len(plan.nodes)
          /\ phase' = "nodes"
          /\ i' = 1
          /\ UNCHANGED node_index
       \/ /\ i <= Len(plan.nodes)
          /\ plan.nodes[i].id \in Ids
          /\ phase' = "rejected"
          /\ UNCHANGED <<i, node_index>>
       \/ /\ i <= Len(plan.nodes)
          /\ plan.nodes[i].id \notin Ids
          /\ node_index' = [x \in Ids \cup {plan.nodes[i].id} |->
                              IF x \in Ids THEN node_index[x] ELSE i]
          /\ i' = i + 1
          /\ UNCHANGED phase
    /\ UNCHANGED <<plan, kahnVars, results>>

\* One node's op, inputs, parameters and references.
CheckNode ==
    /\ phase = "nodes"
    /\ \/ /\ i > Len(plan.nodes)
          /\ phase' = "outputs"
          /\ UNCHANGED i
       \/ /\ i <= Len(plan.nodes)
          /\ plan.nodes[i].ok /\ Elems(DepsAt(plan, i)) \subseteq Ids
          /\ i' = i + 1
          /\ UNCHANGED phase
       \/ /\ i <= Len(plan.nodes)
          /\ ~(plan.nodes[i].ok /\ Elems(DepsAt(plan, i)) \subseteq Ids)
          /\ phase' = "rejected"
          /\ UNCHANGED i
    /\ UNCHANGED <<plan, node_index, kahnVars, results>>

\* Mutant: NodeRef parameters are not counted.
BuildInputsOnly ==
    /\ in_degree' = [x \in Ids |-> Len(plan.nodes[node_index[x]].inputs)]
    /\ ready' \in AnyOrder({x \in Ids : plan.nodes[node_index[x]].inputs = <<>>})
    /\ order' = <<>>

\* Building in_degree, successors and the initial queue.
BuildGraph ==
    /\ in_degree' = [x \in Ids |-> Len(Deps(x))]
    /\ ready' \in AnyOrder({x \in Ids : Len(Deps(x)) = 0})
    /\ order' = <<>>

CheckOutputs ==
    /\ phase = "outputs"
    /\ \/ /\ Elems(plan.outputs) \subseteq Ids
          /\ phase' = "check"
          /\ BuildGraph
       \/ /\ ~(Elems(plan.outputs) \subseteq Ids)
          /\ phase' = "rejected"
          /\ UNCHANGED kahnVars
    /\ UNCHANGED <<plan, i, node_index, results>>

\* Mutant: successors without repetitions.
PopDistinct ==
    /\ ready # <<>>
    /\ LET curr == Head(ready)
           left == [x \in Ids |-> IF Slots(Deps(x), {curr}) = {} THEN in_degree[x]
                                  ELSE in_degree[x] - 1]
       IN  /\ order' = Append(order, curr)
           /\ in_degree' = left
           /\ \E q \in PlanOrder({x \in Ids : Slots(Deps(x), {curr}) # {} /\ left[x] = 0}) :
                ready' = Tail(ready) \o q

\* One turn of Kahn's loop: take curr, count it out of its successors.
Pop ==
    /\ ready # <<>>
    /\ LET curr == Head(ready)
           left == [x \in Ids |-> in_degree[x] - Cardinality(Slots(Deps(x), {curr}))]
       IN  /\ order' = Append(order, curr)
           /\ in_degree' = left
           /\ \E q \in PlanOrder({x \in Ids : Slots(Deps(x), {curr}) # {} /\ left[x] = 0}) :
                ready' = Tail(ready) \o q

CheckCycle ==
    /\ phase = "check"
    /\ \/ Pop /\ UNCHANGED phase
       \/ /\ ready = <<>>
          /\ phase' = IF Len(order) = Len(plan.nodes) THEN "accepted" ELSE "rejected"
          /\ UNCHANGED kahnVars
    /\ UNCHANGED <<plan, i, node_index, results>>

-----------------------------------------------------------------------------
(***************************************************************************)
(* execute_plan_sequential                                                 *)
(***************************************************************************)
Sort ==
    /\ phase = "accepted"
    /\ phase' = "sort"
    /\ BuildGraph
    /\ UNCHANGED <<plan, i, node_index, results>>

SortStep ==
    /\ phase = "sort"
    /\ \/ Pop /\ UNCHANGED <<phase, i>>
       \/ /\ ready = <<>>
          /\ phase' = "fetch"
          /\ i' = 1
          /\ UNCHANGED kahnVars
    /\ UNCHANGED <<plan, node_index, results>>

\* Before a node runs: results.at for its inputs and NodeRefs.
Fetch ==
    /\ phase = "fetch"
    /\ phase' = IF i > Len(order) THEN "collect" ELSE "run"
    /\ UNCHANGED <<plan, i, node_index, kahnVars, results>>

\* The task and the check of its output contract succeed, or one of them throws.
Run ==
    /\ phase = "run"
    /\ \/ /\ results' = results \cup {order[i]}
          /\ i' = i + 1
          /\ phase' = "fetch"
       \/ /\ phase' = "failed"
          /\ UNCHANGED <<i, results>>
    /\ UNCHANGED <<plan, node_index, kahnVars>>

\* results.at for the outputs of the plan.
Collect ==
    /\ phase = "collect"
    /\ phase' = "done"
    /\ UNCHANGED <<plan, i, node_index, kahnVars, results>>

Next ==
    \/ CheckHead \/ IndexNode \/ CheckNode \/ CheckOutputs \/ CheckCycle
    \/ Sort \/ SortStep \/ Fetch \/ Run \/ Collect

Spec == Init /\ [][Next]_vars

-----------------------------------------------------------------------------
(***************************************************************************)
(* Properties                                                              *)
(***************************************************************************)

\* What a plan has to be, said without an algorithm: ids are unique, everything
\* named exists, and no set of nodes depends on itself throughout.
NodeIds(p) == {p.nodes[n].id : n \in DOMAIN p.nodes}
Acyclic(p) ==
    \A S \in SUBSET NodeIds(p) : S # {} =>
        \E n \in DOMAIN p.nodes :
            p.nodes[n].id \in S /\ Elems(DepsAt(p, n)) \cap S = {}
WellFormed(p) ==
    /\ p.head_ok
    /\ \A m, n \in DOMAIN p.nodes : p.nodes[m].id = p.nodes[n].id => m = n
    /\ \A n \in DOMAIN p.nodes :
         p.nodes[n].ok /\ Elems(DepsAt(p, n)) \subseteq NodeIds(p)
    /\ Elems(p.outputs) \subseteq NodeIds(p)
    /\ Acyclic(p)

Accepted == phase \in {"accepted", "sort", "fetch", "run", "collect", "done", "failed"}

\* validate_plan accepts the well-formed plans and rejects the others; Kahn's count
\* of processed nodes finds exactly the plans with a cycle, repeated inputs and
\* self references included.
AcceptanceExact ==
    /\ Accepted => WellFormed(plan)
    /\ phase = "rejected" => ~WellFormed(plan)

\* No results.at of an executed plan throws: whatever order the hash map gave the
\* sources, a node's inputs and NodeRefs have run before it, and at the end every
\* output has.
LookupsSucceed ==
    /\ phase = "run" => Elems(Deps(order[i])) \subseteq results
    /\ phase = "collect" => Elems(plan.outputs) \subseteq results

\* An execution that ends without an error has run every node, and each of them
\* once: results.emplace would silently drop a second result.
RunsEachOnce ==
    /\ phase = "run" => order[i] \notin results
    /\ phase = "done" => results = NodeIds(plan)

=============================================================================
