---------------------------- MODULE MCPlanMeaning ----------------------------
(***************************************************************************)
(* Texts for dslc: one per expression or predicate, and a few plans of     *)
(* several calls in which numbers, handles and order can be confused.      *)
(***************************************************************************)
EXTENDS PlanMeaning

-----------------------------------------------------------------------------
(* Trees.                                                                  *)

Num(v) == [k |-> "num", v |-> v, finite |-> TRUE]
Lit(kind) == [k |-> kind]
Str(s) == [k |-> "str", s |-> s]
Prop(obj, name) == [k |-> "prop", obj |-> obj, name |-> name]
Un(o, x) == [k |-> "unary", o |-> o, x |-> x]
Bin(l, o, r) == [k |-> "binary", l |-> l, o |-> o, r |-> r]
Call(fn, args) == [k |-> "call", fn |-> fn, args |-> args]
Paren(x) == [k |-> "paren", x |-> x]
B(fn, args) == [k |-> "builder", fn |-> fn, args |-> args]

KeyA == Prop("Key", "a")
KeyB == Prop("Key", "b")
ParamW == Prop("P", "w")
Unknown == Prop("Key", "missing")
Huge == [k |-> "num", v |-> 0, finite |-> FALSE]

Leaves == {Num(2), Lit("null"), KeyA, ParamW}

\* Leaves under one operator, operators under an operator, and what is refused.
Exprs ==
  Leaves \cup {Unknown, Huge, Lit("true"), Lit("ident")}
  \cup {Bin(l, o, r) : l \in Leaves, r \in {Num(2), KeyA, ParamW}, o \in {"+", "-", "*"}}
  \cup {Call("coalesce", <<l, r>>) : l \in Leaves, r \in {Num(2), KeyA}}
  \cup {Un(o, x) : o \in {"-", "+", "!"}, x \in Leaves}
  \cup {Bin(KeyA, o, Paren(Bin(ParamW, q, Num(2)))) : o, q \in {"+", "-", "*"}}
  \cup {Bin(Bin(KeyA, o, ParamW), q, KeyB) : o, q \in {"-", "*"}}
  \cup {Un("-", Paren(Bin(KeyA, "-", KeyB))), Bin(KeyA, "/", Num(2)), Bin(KeyA, "+", Unknown),
        Call("coalesce", <<KeyA>>), Call("coalesce", <<Bin(KeyA, "*", ParamW), Un("-", Num(2))>>),
        Call("coalesce", <<KeyA, Huge>>), Call("f", <<KeyA, KeyB>>), Paren(Call("f", <<KeyA>>))}

BExprs ==
  {B("E.key", <<KeyA>>), B("E.param", <<ParamW>>), B("E.constNull", <<>>), B("E.const", <<Num(2)>>),
   B("E.key", <<Unknown>>), B("E.const", <<Huge>>)}

BuilderExprs ==
  BExprs
  \cup {B(f, <<l, r>>) : f \in {"E.add", "E.sub", "E.coalesce"}, l \in BExprs, r \in {B("E.key", <<KeyA>>)}}
  \cup {B("E.neg", <<B("E.mul", <<B("E.key", <<KeyA>>), B("E.param", <<ParamW>>)>>)>>)}

Cmp(o) == Bin(KeyA, o, Num(2))

Regexes ==
  {Call("regex", <<KeyA, p>>) : p \in {Str("x"), ParamW, Num(2)}}
  \cup {Call("regex", <<KeyA, Str("x"), f>>) : f \in {Str(""), Str("i"), Str("g"), Num(2)}}
  \cup {Call("regex", <<ParamW, Str("x")>>), Call("regex", <<KeyA>>)}

Preds ==
  {Lit("true"), Lit("false"), Lit("null"), KeyA, Paren(Lit("true")), Un("!", KeyA)}
  \cup {Bin(l, o, r) : l \in Leaves, r \in {Num(2), KeyA, Lit("null"), Paren(Lit("null"))},
                       o \in {"==", "!==", "<"}}
  \cup {Bin(KeyA, o, ParamW) : o \in {"===", "!=", "<=", ">", ">="}}
  \cup {Bin(p, o, q) : p, q \in {Cmp("<"), Bin(KeyA, "==", Lit("null"))}, o \in {"&&", "||"}}
  \cup {Un("!", Paren(Bin(Cmp("<"), o, Cmp(">")))) : o \in {"&&", "||"}}
  \cup {Bin(Cmp("<"), "&&", Unknown), Bin(Bin(KeyA, "+", Num(1)), "<", Num(2)),
        Bin(KeyA, "==", Lit("undefined")), Bin(KeyA, "+", KeyB)}
  \cup Regexes

BPred(fn, args) == B(fn, args)

BuilderPreds ==
  LET a == B("E.key", <<KeyA>>)
      two == B("E.const", <<Num(2)>>)
      cmp(o, x, y) == [k |-> "builder", fn |-> "Pred.cmp", cmp |-> o, args |-> <<x, y>>]
      inList(list) == [k |-> "builder", fn |-> "Pred.in", args |-> <<a>>, list |-> list]
  IN {cmp(o, a, two) : o \in {"==", "<", ">="}} \cup {cmp("==", a, B("E.constNull", <<>>))}
     \cup {inList(<<>>), inList(<<Num(1), Num(2)>>), inList(<<Num(1), Str("x")>>)}
     \cup {B("Pred.isNull", <<a>>), B("Pred.notNull", <<a>>), B("Pred.constBool", <<Lit("true")>>),
           B("Pred.constBool", <<Num(2)>>), B("Pred.not", <<B("Pred.isNull", <<a>>)>>),
           B("Pred.and", <<cmp("<", a, two), B("Pred.notNull", <<a>>)>>),
           B("Pred.or", <<cmp("<", a, two), B("Pred.isNull", <<a>>)>>),
           B("Pred.regex", <<KeyA, Str("x"), Str("i")>>), B("Pred.regex", <<KeyA, ParamW>>),
           B("Pred.regex", <<KeyA, Str("x"), Str("g")>>)}

-----------------------------------------------------------------------------
(* Texts.                                                                  *)

Tree(t) == [t |-> "tree", tree |-> t]
Whole(n) == [t |-> "int", v |-> n]
Key == [t |-> "key", key |-> "a"]
Ep == [t |-> "endpoint"]
NoOpts == [n \in {} |-> Undefined]
NoExt == [c \in {} |-> "null"]

Site(task, opts) == [task |-> task, opts |-> opts, ext |-> NoExt, visible |-> TRUE]
Viewer == Site(ViewerImpl, [endpoint |-> Ep])
Vm(tree) == Site(VmImpl, [expr |-> Tree(tree), outKey |-> Key])
Filter(tree) == Site(FilterImpl, [pred |-> Tree(tree)])
Hidden(site) == [site EXCEPT !.visible = FALSE]
WithExt(site, ext) == [site EXCEPT !.ext = ext]

On(site, input) == [do |-> "call", site |-> site, input |-> input, rhs |-> 0, caught |-> FALSE]
With(site, input, rhs) == [On(site, input) EXCEPT !.rhs = rhs]
Tried(step) == [step EXCEPT !.caught = TRUE]
Require(cap, payload) == [do |-> "require", cap |-> cap, payload |-> payload, caught |-> FALSE]

Plan(name, sites, visited, steps, result) ==
  [sites |-> sites, visited |-> visited,
   imports |-> {[importer |-> "plan", path |-> "package"]},
   builds |-> <<[name |-> name, steps |-> steps, result |-> result]>>]

\* viewer().task(...), the call under test last.
OneCall(site) == Plan("a", <<Viewer, site>>, <<2, 1>>, <<On(1, 0), On(2, 1)>>, 2)

\* Natural and builder expressions mixed, in a chain, in a loop, in a fragment, swallowed.
Chain == Plan("a", <<Viewer, Vm(Bin(KeyA, "+", Num(1))), Vm(B("E.key", <<KeyB>>)), Vm(Bin(KeyA, "-", KeyB))>>,
              <<4, 3, 2, 1>>, <<On(1, 0), On(2, 1), On(3, 2), On(4, 3)>>, 4)
Loop == Plan("a", <<Viewer, Vm(B("E.const", <<Num(2)>>)), Vm(Un("-", KeyA)), Filter(Cmp(">"))>>,
             <<1, 2, 3, 4>>, <<On(1, 0), On(2, 1), On(3, 2), On(2, 3), On(3, 4), On(4, 5), On(4, 6)>>, 5)
Filters == Plan("a", <<Viewer, Filter(Cmp("<")), Filter(BPred("Pred.constBool", <<Lit("true")>>)),
                       Filter(Cmp(">")), Vm(KeyA)>>,
                <<5, 4, 3, 2, 1>>, <<On(1, 0), On(2, 1), On(3, 2), On(4, 3), On(5, 4)>>, 5)
Unused == Plan("a", <<Viewer, Vm(Num(1)), Vm(KeyB)>>, <<1, 2, 3>>, <<On(1, 0), On(3, 1)>>, 2)
Fragment == Plan("a", <<Viewer, Hidden(Vm(KeyA))>>, <<1, 2>>, <<On(1, 0), On(2, 1)>>, 2)
Swallowed == Plan("a", <<Viewer, Hidden(Vm(KeyA)), Vm(KeyB)>>, <<1, 3>>,
                  <<On(1, 0), Tried(On(2, 1)), On(3, 1)>>, 3)
SwallowedExt ==
  Plan("a", <<Viewer, WithExt(Vm(B("E.key", <<KeyA>>)), [c \in {"c1"} |-> "undefined"]), Vm(KeyB)>>,
       <<1, 2, 3>>, <<On(1, 0), Tried(On(2, 1)), On(3, 1)>>, 3)
ReturnsSwallowed == Plan("a", <<Viewer, Hidden(Vm(KeyA))>>, <<1>>, <<On(1, 0), Tried(On(2, 1))>>, 2)
UsesSwallowed == Plan("a", <<Viewer, Hidden(Vm(KeyA)), Site(TakeImpl, [count |-> Whole(1)])>>, <<1, 3>>,
                      <<On(1, 0), Tried(On(2, 1)), On(3, 2)>>, 1)

\* Two branches that meet; the right side is own or of another context.
Fork(rhs, result) ==
  Plan("a", <<Viewer, Site(FollowImpl, [endpoint |-> Ep, fanout |-> Whole(2)]), Site(ConcatImpl, NoOpts)>>,
       <<3, 2, 1>>, <<On(1, 0), On(2, 1), On(2, 1), With(3, 2, rhs)>>, result)

\* Every task, with options that are accepted.
Tour ==
  LET fan == [endpoint |-> Ep, fanout |-> Whole(1)]
      sites == <<Site(FixedSourceImpl, [rowCount |-> Whole(3)]), Site(MediaImpl, fan), Site(RecommendationImpl, fan),
                 Site(SortImpl, [by |-> Key, order |-> [t |-> "string"]]), Site(TakeImpl, [count |-> Whole(1)]),
                 Site(BusyCpuImpl, [busyWaitMs |-> Whole(1), trace |-> [t |-> "string"]]),
                 Site(SleepImpl, [durationMs |-> Whole(1), failAfterSleep |-> [t |-> "bool"]])>>
  IN Plan("a", sites, <<>>, [i \in 1..7 |-> On(i, i - 1)], 7)

\* Options and extensions that are refused.
Wrong ==
  {OneCall(Site(TakeImpl, o)) : o \in {NoOpts, [count |-> [t |-> "real"]], [count |-> Whole(1), trace |-> Whole(1)],
                                       [count |-> Whole(1), trace |-> Undefined]}}
  \cup {OneCall(Site(SortImpl, [by |-> [t |-> "string"]])), OneCall(Site(MediaImpl, [endpoint |-> [t |-> "string"], fanout |-> Whole(1)]))}

Capability(steps, ext) ==
  Plan("a", <<WithExt(Viewer, ext)>>, <<1>>, Append(steps, On(1, 0)), Len(steps) + 1)

Capabilities ==
  {Capability(<<Require(c, p)>>, NoExt) : c \in {"c1", "c2", "other"}, p \in {"absent", "null", "fits", "misfit", "undefined", "hole"}}
  \cup {Capability(<<Require("c1", "absent")>>, [c \in {d} |-> "fits"]) : d \in {"c1", "c2"}}

Import(importer, path) == [importer |-> importer, path |-> path]
Imports ==
  {[Fork(3, 4) EXCEPT !.imports = @ \cup {Import(i, p)}] :
     i \in {"plan", "plans_fragment", "other_fragment"}, p \in {"fragment", "other"}}

TwoPlans == [Fork(3, 4) EXCEPT !.builds = @ \o @]
NoPlan == [Fork(3, 4) EXCEPT !.builds = <<>>]

\* The plans worth an edit, and the others.
DraftTexts == <<Chain, Fork(3, 4), Swallowed, NoPlan>>
OtherTexts == <<Loop, Filters, Unused, Fragment, SwallowedExt, ReturnsSwallowed, UsesSwallowed, Tour, TwoPlans,
                Fork(0, 4), Fork(2, 3), Plan("b", <<Viewer>>, <<1>>, <<On(1, 0)>>, 1)>>

TextOfB == Plan("b", <<Viewer, Vm(KeyA)>>, <<2, 1>>, <<On(1, 0), On(2, 1)>>, 2)
TextOfBad == Plan("bad-name", <<Viewer>>, <<1>>, <<On(1, 0)>>, 1)

MCFiles == {"a", "b", "bad-name"}
MCBaseName == [f \in MCFiles |-> f]
\* A version is known by what is particular to it.
Named(kind, values) == {[kind |-> kind, of |-> x] : x \in values}
Versions ==
  Named("expr", Exprs \cup BuilderExprs) \cup Named("pred", Preds \cup BuilderPreds)
  \cup Named("draft", DOMAIN DraftTexts) \cup Named("other", DOMAIN OtherTexts)
  \cup Named("text", Wrong \cup Capabilities \cup Imports)

MCText == [ v \in Versions \cup Named("file", {"b", "bad-name"}) |->
  CASE v.kind = "file" -> IF v.of = "b" THEN TextOfB ELSE TextOfBad
    [] v.kind = "expr" -> OneCall(Vm(v.of))
    [] v.kind = "pred" -> OneCall(Filter(v.of))
    [] v.kind = "draft" -> DraftTexts[v.of]
    [] v.kind = "other" -> OtherTexts[v.of]
    [] v.kind = "text" -> v.of ]

\* Time for a build, an edit and a kill where a text can be edited; elsewhere one start.
MCSessions ==
  {[files |-> [f \in MCFiles |-> IF f = "a" THEN v ELSE [kind |-> "file", of |-> f]],
    acts |-> IF v.kind = "draft" THEN 3 ELSE 1] : v \in Versions}
MCDrafts == [f \in MCFiles |-> IF f = "a" THEN Named("draft", DOMAIN DraftTexts) \cup {None} ELSE {}]
MCSorted == <<"a", "bad-name", "b">>
MCBatches == {<<"a", "b">>} \cup {<<f>> : f \in MCFiles}
MCValidName(name) == name # "bad-name"
MCCapSchema == [c \in {"c1", "c2"} |-> IF c = "c1" THEN "object" ELSE "none"]

MCKeyIds == [n \in {"a", "b"} |-> IF n = "a" THEN 1 ELSE 2]
MCParamIds == [n \in {"w"} |-> 1]
MCRows ==
  LET values == {Null, 0, 3}
  IN {[key |-> [i \in 1..2 |-> IF i = 1 THEN a ELSE 5], param |-> [i \in {1} |-> w], matches |-> m] :
        a \in values, w \in {Null, 2},
        m \in {{}, {<<1, [literal |-> "x"], "">>}, {<<1, [literal |-> "x"], "i">>}, {<<1, [param |-> 1], "">>}}}

=============================================================================
