------------------------------- MODULE PlanGraph -------------------------------
(***************************************************************************)
(* Plans as the schedulers see them: nodes by their index in plan.nodes,   *)
(* each with its list of inputs and of NodeRef parameters.                 *)
(***************************************************************************)
EXTENDS Integers, Sequences, FiniteSets

CONSTANTS
    N,           \* number of nodes of the plan
    Plans        \* the plans considered: node index -> its inputs and NodeRefs

Node == 1..N

\* The deps of init_scheduler_state and init_async_scheduler_state: inputs, then
\* the NodeRef parameters.  An id listed twice is two dependencies.
DepsOf(p, n) == p[n].inputs \o p[n].refs

\* Positions of DepsOf(p, n) that name a node of S.
Slots(p, n, S) == {k \in DOMAIN DepsOf(p, n) : DepsOf(p, n)[k] \in S}

\* validate_plan has rejected cyclic plans before any scheduler sees them:
\* every non-empty set of nodes has a member that depends on none of them.
Acyclic(p) ==
    \A S \in SUBSET Node : S # {} => \E n \in S : Slots(p, n, S) = {}

ASSUME NAssumption == N \in Nat
ASSUME PlansAssumption ==
    /\ Plans \subseteq [Node -> [inputs : Seq(Node), refs : Seq(Node)]]
    /\ \A p \in Plans : Acyclic(p)

-----------------------------------------------------------------------------
(***************************************************************************)
(* Plans for model checking: every acyclic plan whose nodes have at most   *)
(* two inputs, the repeated one included, and one NodeRef, with at most    *)
(* MaxDeps dependencies and in every order of its nodes.  Three of them    *)
(* make the complete graph on three nodes.                                 *)
(***************************************************************************)
MaxDeps == 3
SmallPlans ==
    LET inputs == {<<>>} \cup {<<m>> : m \in Node} \cup {<<m, m>> : m \in Node}
        refs   == {<<>>} \cup {<<m>> : m \in Node}
    IN  {p \in [Node -> [inputs : inputs, refs : refs]] :
            /\ Acyclic(p)
            /\ Cardinality({e \in Node \X (1..MaxDeps) : e[2] \in DOMAIN DepsOf(p, e[1])})
                   <= MaxDeps}

-----------------------------------------------------------------------------
Elems(s) == {s[i] : i \in DOMAIN s}

\* S in plan order: the order in which the code's index loops visit it.
Ascending(S) ==
    {s \in [1..Cardinality(S) -> S] :
        /\ Elems(s) = S
        /\ \A i, j \in DOMAIN s : i < j => s[i] < s[j]}

=============================================================================
