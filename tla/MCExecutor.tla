------------------------------ MODULE MCExecutor ------------------------------
(***************************************************************************)
(* Plans for model checking the executor: graphs of every shape over three *)
(* nodes, cyclic ones included, small plans with every kind of flaw, and   *)
(* one node with tasks whose writes depend on their parameters.            *)
(***************************************************************************)
EXTENDS WritesEffect

MCId == 1..4          \* no node has id 4
MaxDeps == 3          \* dependencies of a plan, all nodes together

\* A task that writes nothing.
NoField == [p \in {} |-> None]
Plain == [spec |-> [params_schema |-> NoField, writes |-> <<>>, writes_effect |-> None],
          given |-> NoField]

Inputs(S) == {<<>>} \cup {<<m>> : m \in S} \cup {<<m, m>> : m \in S}
Refs(S) == {<<>>} \cup {<<m>> : m \in S}
Node(ids, oks, S) ==
    [id : ids, task : {Plain}, ok : oks, inputs : Inputs(S), refs : Refs(S)]
NumDeps(n) == Len(n.inputs) + Len(n.refs)

\* Nodes 1, 2 and 3, in this order: the executor looks at positions only to order
\* the queue.  Node 1 has at most one dependency.
Graphs ==
    {s \in {<<a, b, c>> : a \in {n \in Node({1}, {TRUE}, 1..3) : NumDeps(n) <= 1},
                          b \in Node({2}, {TRUE}, 1..3),
                          c \in Node({3}, {TRUE}, 1..3)} :
        NumDeps(s[1]) + NumDeps(s[2]) + NumDeps(s[3]) <= MaxDeps}

\* Up to two nodes with ids that may clash, references to a node that is not
\* there, and any one of the other checks failing.
Small ==
    {<<>>} \cup {<<a>> : a \in Node({1}, BOOLEAN, {1, 4})}
           \cup {<<a, b>> : a \in {n \in Node({1}, BOOLEAN, {2, 4}) : NumDeps(n) <= 1},
                            b \in {n \in Node({1, 2}, {TRUE}, {1, 4}) : NumDeps(n) <= 1}}

-----------------------------------------------------------------------------
(* Tasks: parameters k (a key), m and n (enums) and every shape of effect  *)
(* over them.                                                              *)

Field(type, required, nullable, default) ==
    [type |-> type, required |-> required, nullable |-> nullable, default |-> default]

Optional(type) == Field(type, FALSE, TRUE, None)

KeyFields ==
    {Field("int", TRUE, FALSE, None), Field("int", FALSE, FALSE, None),
     Field("int", FALSE, FALSE, Int_(3)), Optional("string")}
EnumFields ==
    {Optional("string"), Field("string", FALSE, FALSE, Text("a")), Optional("int")}
Schemas ==
    [k : KeyFields, m : EnumFields, n : {Optional(t) : t \in {"string", "float", "bool"}}]

Leaves == {KeysOf(<<>>), KeysOf(<<3, 2, 3>>), FromParam("k")}
NoCases(p) == SwitchEnum(p, [c \in {} |-> KeysOf(<<>>)])
Switches ==
    {SwitchEnum("m", [a |-> x, b |-> KeysOf(<<3>>)]) : x \in Leaves}
      \cup {SwitchEnum("m", [a |-> SwitchEnum("n", [c |-> KeysOf(<<0>>), d |-> FromParam("k")]),
                             b |-> KeysOf(<<>>)]),
            SwitchEnum("n", [c |-> KeysOf(<<3>>)]), NoCases("m"),
            SwitchEnum("m", [a |-> NoCases("n")])}
Effects ==
    {None, UnionOf(<<>>)} \cup Leaves \cup Switches
      \cup {UnionOf(<<x, y>>) : x \in Leaves, y \in Switches}
      \cup {UnionOf(<<x, UnionOf(<<SwitchEnum("n", [c |-> FromParam("k")])>>)>>) : x \in Switches}

Givens ==
    UNION {[names -> {Null, Int_(0), Int_(Width + 3), Whole(2), Text("a"), Text("z")}] :
             names \in {{}, {"k"}, {"m"}, {"k", "m"}}}
      \cup {[k |-> Int_(3), n |-> v] : v \in {Text("c"), Fraction, Flag, Text("z")}}
      \cup {[k |-> Whole(2), m |-> Text("a"), n |-> Text("d")]}

Specs == [params_schema : Schemas, writes : {<<>>, <<IdKey>>, <<2, 3>>}, writes_effect : Effects]

\* Those that a node can have and pass the checks.
Tasks ==
    {t \in [spec : {s \in Specs : Registered(s)}, given : Givens] :
        ParamsValid(t.spec.params_schema, t.given)}

MCTask == Tasks \cup {Plain}

-----------------------------------------------------------------------------
MCPlans ==
    [head_ok : {TRUE}, nodes : Graphs, outputs : {<<3>>, <<1, 2>>}]
      \cup [head_ok : BOOLEAN, nodes : Small, outputs : {<<>>, <<1>>, <<4>>}]
      \cup [head_ok : {TRUE}, outputs : {<<1>>},
            nodes : {<<n>> : n \in [id : {1}, task : Tasks, ok : {TRUE},
                                    inputs : {<<>>}, refs : {<<>>}]}]

=============================================================================
