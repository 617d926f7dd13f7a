---------------------------- MODULE ExprCompiler ----------------------------
(***************************************************************************)
(* The natural syntax of expressions and predicates: the TypeScript trees  *)
(* that dslc takes out of a plan (ast-extractor.ts), their compilation to  *)
(* the intermediate form of the engine (expr-compiler.ts,                  *)
(* pred-compiler.ts), the builders that make the same form directly        *)
(* (expr.ts, pred.ts) and the engine's evaluation of it (expr_eval.h,      *)
(* pred_eval.h).                                                           *)
(*                                                                         *)
(* A tree is a record with the kind of its node in "k":                    *)
(*   num (v, or finite = FALSE for a literal like 1e999), null, true,      *)
(*   false, str (s), undefined, ident, prop (obj.name), unary (o x),       *)
(*   binary (l o r), call (fn(args)), paren (x), builder (a call of E.* or *)
(*   Pred.*, fn(args)).                                                    *)
(***************************************************************************)
EXTENDS Integers, Sequences, FiniteSets

CONSTANTS
  KeyIds,       \* the tokens of Key: a function from names to identifiers
  ParamIds,     \* the tokens of P
  Null          \* the engine's std::nullopt

(***************************************************************************)
(* What a compilation returns when it refuses a tree.                      *)
(***************************************************************************)
Refused == [op |-> "refused"]

Ok(r) == r.op # "refused"

-----------------------------------------------------------------------------
(* Which arguments of a task call are taken out of the plan.               *)

ExprBuilders == {"E.const", "E.constNull", "E.key", "E.param", "E.neg",
                 "E.add", "E.sub", "E.mul", "E.coalesce"}

IsExprBuilderStyle(n) == n.k = "builder" /\ n.fn \in ExprBuilders

IsPredBuilderStyle(n) == n.k = "builder" /\ n.fn \notin ExprBuilders

RECURSIVE IsNaturalExpr(_)
IsNaturalExpr(n) ==
  /\ ~ IsExprBuilderStyle(n)
  /\ \/ n.k \in {"num", "null", "unary", "binary"}
     \/ n.k = "paren" /\ IsNaturalExpr(n.x)
     \/ n.k = "prop" /\ n.obj \in {"Key", "P"}
     \/ n.k = "call" /\ n.fn = "coalesce"

LogicalOps == {"&&", "||"}

\* The operators of comparison, == and != being normalised.
CmpOps == [ o \in {"==", "===", "!=", "!==", "<", "<=", ">", ">="} |->
            IF o = "===" THEN "==" ELSE IF o = "!==" THEN "!=" ELSE o ]

RECURSIVE IsNaturalPred(_)
IsNaturalPred(n) ==
  /\ ~ IsPredBuilderStyle(n)
  /\ \/ n.k \in {"true", "false"}
     \/ n.k = "paren" /\ IsNaturalPred(n.x)
     \/ n.k = "unary" /\ n.o = "!"
     \/ n.k = "binary" /\ n.o \in LogicalOps \cup DOMAIN CmpOps
     \/ n.k = "call" /\ n.fn = "regex"

-----------------------------------------------------------------------------
(* Key.name and P.name, the number and null: the leaves of both languages. *)

CompileRef(n) ==
  CASE n.obj = "Key" /\ n.name \in DOMAIN KeyIds ->
         [op |-> "key_ref", key_id |-> KeyIds[n.name]]
    [] n.obj = "P" /\ n.name \in DOMAIN ParamIds ->
         [op |-> "param_ref", param_id |-> ParamIds[n.name]]
    [] OTHER -> Refused

CompileNumber(n) == IF n.finite THEN [op |-> "const_number", value |-> n.v] ELSE Refused

ArithmeticOps == [ o \in {"+", "-", "*"} |->
                   IF o = "+" THEN "add" ELSE IF o = "-" THEN "sub" ELSE "mul" ]

\* A node of two operands, refused if one of them is.
Binary(op, a, b) == IF Ok(a) /\ Ok(b) THEN [op |-> op, a |-> a, b |-> b] ELSE Refused

RECURSIVE CompileExpr(_)
CompileExpr(n) ==
  CASE n.k = "num" -> CompileNumber(n)
    [] n.k = "null" -> [op |-> "const_null"]
    [] n.k = "unary" /\ n.o = "-" ->
         LET x == CompileExpr(n.x) IN IF Ok(x) THEN [op |-> "neg", x |-> x] ELSE Refused
    [] n.k = "unary" /\ n.o = "+" -> CompileExpr(n.x)
    [] n.k = "binary" /\ n.o \in DOMAIN ArithmeticOps ->
         Binary(ArithmeticOps[n.o], CompileExpr(n.l), CompileExpr(n.r))
    [] n.k = "prop" -> CompileRef(n)
    [] n.k = "call" /\ n.fn = "coalesce" /\ Len(n.args) = 2 ->
         Binary("coalesce", CompileExpr(n.args[1]), CompileExpr(n.args[2]))
    [] n.k = "paren" -> CompileExpr(n.x)
    [] OTHER -> Refused

RECURSIVE CompileTerm(_)
CompileTerm(n) ==
  CASE n.k = "num" -> CompileNumber(n)
    [] n.k = "null" -> [op |-> "const_null"]
    [] n.k = "prop" -> CompileRef(n)
    [] n.k = "paren" -> CompileTerm(n.x)
    [] OTHER -> Refused

(***************************************************************************)
(* A comparison: undefined is refused, null beside == and != becomes       *)
(* is_null and not_null, and is refused beside the others.                 *)
(***************************************************************************)
CompileComparison(n) ==
  LET cmp  == CmpOps[n.o]
      term == CompileTerm(IF n.l.k = "null" THEN n.r ELSE n.l)
      a    == CompileTerm(n.l)
      b    == CompileTerm(n.r)
  IN CASE "undefined" \in {n.l.k, n.r.k} -> Refused
       [] "null" \in {n.l.k, n.r.k} /\ Ok(term) /\ cmp = "==" -> [op |-> "is_null", x |-> term]
       [] "null" \in {n.l.k, n.r.k} /\ Ok(term) /\ cmp = "!=" -> [op |-> "not_null", x |-> term]
       [] "null" \notin {n.l.k, n.r.k} /\ Ok(a) /\ Ok(b) ->
            [op |-> "cmp", cmp |-> cmp, a |-> a, b |-> b]
       [] OTHER -> Refused

\* regex(Key.x, "pattern" or P.y, flags): flags are absent, "" or "i".
CompileRegexCall(n) ==
  LET arg(i) == n.args[i]
      ref(i) == CompileRef(arg(i))
      key    == arg(1).k = "prop" /\ arg(1).obj = "Key" /\ Ok(ref(1))
      flags  == IF Len(n.args) = 3 THEN arg(3) ELSE [k |-> "str", s |-> ""]
      regex(p) == [op |-> "regex", key_id |-> ref(1).key_id, pattern |-> p, flags |-> flags.s]
  IN CASE Len(n.args) \notin 2..3 -> Refused
       [] ~ key \/ flags.k # "str" -> Refused
       [] flags.s \notin {"", "i"} -> Refused
       [] arg(2).k = "str" -> regex([literal |-> arg(2).s])
       [] arg(2).k = "prop" /\ arg(2).obj = "P" /\ Ok(ref(2)) -> regex([param |-> ref(2).param_id])
       [] OTHER -> Refused

RECURSIVE CompilePred(_)
CompilePred(n) ==
  CASE n.k \in {"true", "false"} -> [op |-> "const_bool", value |-> n.k = "true"]
    [] n.k = "paren" -> CompilePred(n.x)
    [] n.k = "unary" /\ n.o = "!" ->
         LET x == CompilePred(n.x) IN IF Ok(x) THEN [op |-> "not", x |-> x] ELSE Refused
    [] n.k = "binary" /\ n.o \in LogicalOps ->
         Binary(IF n.o = "&&" THEN "and" ELSE "or", CompilePred(n.l), CompilePred(n.r))
    [] n.k = "binary" /\ n.o \in DOMAIN CmpOps -> CompileComparison(n)
    [] n.k = "call" /\ n.fn = "regex" -> CompileRegexCall(n)
    [] OTHER -> Refused

-----------------------------------------------------------------------------
(* The builders E and Pred. A call is a node of kind "builder" with the     *)
(* function and its arguments; a token Key.name is undefined if the registry *)
(* has no such name, and every builder throws at an undefined argument.    *)

\* The builders of the nodes with two operands.
BinaryBuilders == [ f \in {"E.add", "E.sub", "E.mul", "E.coalesce"} |->
  CASE f = "E.add" -> "add" [] f = "E.sub" -> "sub" [] f = "E.mul" -> "mul" [] OTHER -> "coalesce" ]

\* token.id; a builder does not look at the kind of the token.
IsToken(n) == n.k = "prop" /\ Ok(CompileRef(n))

TokenId(n) == IF n.obj = "Key" THEN KeyIds[n.name] ELSE ParamIds[n.name]

RECURSIVE BuildExpr(_)
BuildExpr(n) ==
  LET arg(i) == BuildExpr(n.args[i])
  IN CASE n.k # "builder" -> Refused
       [] n.fn = "E.const" -> IF n.args[1].k = "num" THEN CompileNumber(n.args[1]) ELSE Refused
       [] n.fn = "E.constNull" -> [op |-> "const_null"]
       [] n.fn = "E.key" /\ IsToken(n.args[1]) -> [op |-> "key_ref", key_id |-> TokenId(n.args[1])]
       [] n.fn = "E.param" /\ IsToken(n.args[1]) -> [op |-> "param_ref", param_id |-> TokenId(n.args[1])]
       [] n.fn = "E.neg" -> IF Ok(arg(1)) THEN [op |-> "neg", x |-> arg(1)] ELSE Refused
       [] n.fn \in DOMAIN BinaryBuilders -> Binary(BinaryBuilders[n.fn], arg(1), arg(2))
       [] OTHER -> Refused

\* Pred.in takes literals that are all numbers or all strings, or none.
Homogeneous(list) == \E k \in {"num", "str"} : \A i \in DOMAIN list : list[i].k = k

Literal(n) == IF n.k = "num" THEN n.v ELSE n.s

BuildRegex(n) ==
  LET flags == IF Len(n.args) = 3 THEN n.args[3] ELSE [k |-> "str", s |-> ""]
  IN IF /\ IsToken(n.args[1])
        /\ n.args[2].k = "str" \/ IsToken(n.args[2])
        /\ flags.k = "str"
     THEN IF flags.s \in {"", "i"}
          THEN [op |-> "regex", key_id |-> TokenId(n.args[1]), flags |-> flags.s,
                pattern |-> IF n.args[2].k = "str" THEN [literal |-> n.args[2].s]
                            ELSE [param |-> TokenId(n.args[2])]]
          ELSE Refused
     ELSE Refused

RECURSIVE BuildPred(_)
BuildPred(n) ==
  LET pred(i) == BuildPred(n.args[i])
      expr(i) == BuildExpr(n.args[i])
  IN CASE n.k # "builder" -> Refused
       [] n.fn = "Pred.constBool" ->
            IF n.args[1].k \in {"true", "false"}
            THEN [op |-> "const_bool", value |-> n.args[1].k = "true"] ELSE Refused
       [] n.fn = "Pred.and" -> Binary("and", pred(1), pred(2))
       [] n.fn = "Pred.or" -> Binary("or", pred(1), pred(2))
       [] n.fn = "Pred.not" -> IF Ok(pred(1)) THEN [op |-> "not", x |-> pred(1)] ELSE Refused
       [] n.fn = "Pred.cmp" /\ Ok(expr(1)) /\ Ok(expr(2)) ->
            [op |-> "cmp", cmp |-> n.cmp, a |-> expr(1), b |-> expr(2)]
       [] n.fn = "Pred.in" /\ Ok(expr(1)) /\ Homogeneous(n.list) ->
            [op |-> "in", lhs |-> expr(1), list |-> {Literal(n.list[i]) : i \in DOMAIN n.list}]
       [] n.fn = "Pred.isNull" /\ Ok(expr(1)) -> [op |-> "is_null", x |-> expr(1)]
       [] n.fn = "Pred.notNull" /\ Ok(expr(1)) -> [op |-> "not_null", x |-> expr(1)]
       [] n.fn = "Pred.regex" -> BuildRegex(n)
       [] OTHER -> Refused

-----------------------------------------------------------------------------
(* The engine. A row gives each key and each parameter its number or Null, *)
(* and the pairs of a string key and a pattern that match.                 *)

Arithmetic(op, a, b) ==
  IF Null \in {a, b} THEN Null
  ELSE CASE op = "add" -> a + b [] op = "sub" -> a - b [] op = "mul" -> a * b

RECURSIVE EvalExpr(_, _)
EvalExpr(e, row) ==
  CASE e.op = "const_number" -> e.value
    [] e.op = "const_null" -> Null
    [] e.op = "key_ref" -> row.key[e.key_id]
    [] e.op = "param_ref" -> row.param[e.param_id]
    [] e.op = "neg" -> Arithmetic("sub", 0, EvalExpr(e.x, row))
    [] e.op = "coalesce" ->
         LET a == EvalExpr(e.a, row) IN IF a = Null THEN EvalExpr(e.b, row) ELSE a
    [] OTHER -> Arithmetic(e.op, EvalExpr(e.a, row), EvalExpr(e.b, row))

Compare(cmp, a, b) ==
  CASE cmp = "==" -> a = b [] cmp = "!=" -> a # b [] cmp = "<" -> a < b
    [] cmp = "<=" -> a <= b [] cmp = ">" -> a > b [] cmp = ">=" -> a >= b

\* eval_pred_impl has a third value, unknown, which no operator introduces.
RECURSIVE EvalPred(_, _)
EvalPred(p, row) ==
  CASE p.op = "const_bool" -> p.value
    [] p.op = "and" -> EvalPred(p.a, row) /\ EvalPred(p.b, row)
    [] p.op = "or" -> EvalPred(p.a, row) \/ EvalPred(p.b, row)
    [] p.op = "not" -> ~ EvalPred(p.x, row)
    [] p.op = "is_null" -> EvalExpr(p.x, row) = Null
    [] p.op = "not_null" -> EvalExpr(p.x, row) # Null
    [] p.op = "cmp" ->
         LET a == EvalExpr(p.a, row)
             b == EvalExpr(p.b, row)
             explicit == "const_null" \in {p.a.op, p.b.op}
         IN CASE explicit /\ p.cmp = "==" -> a = Null /\ b = Null
              [] explicit /\ p.cmp = "!=" -> (a = Null) # (b = Null)
              [] Null \in {a, b} -> FALSE
              [] OTHER -> Compare(p.cmp, a, b)
    [] p.op = "in" -> LET v == EvalExpr(p.lhs, row) IN v # Null /\ v \in p.list
    [] p.op = "regex" -> <<p.key_id, p.pattern, p.flags>> \in row.matches

-----------------------------------------------------------------------------
(* The reference: what an author means by an expression or a predicate,    *)
(* read from the source tree without the intermediate form.  Arithmetic    *)
(* with null is null; a comparison with the literal null asks for null; any *)
(* other comparison with a null operand is false.                          *)

RefValue(n, row) == IF n.obj = "Key" THEN row.key[KeyIds[n.name]] ELSE row.param[ParamIds[n.name]]

Symbol == [ f \in DOMAIN BinaryBuilders |->
            CASE f = "E.add" -> "+" [] f = "E.sub" -> "-" [] f = "E.mul" -> "*" [] OTHER -> "??" ]

RECURSIVE ValueOf(_, _)
ValueOf(n, row) ==
  LET both(o, l, r) ==
        LET a == ValueOf(l, row)
            b == ValueOf(r, row)
        IN CASE o = "??" -> IF a # Null THEN a ELSE b
             [] a = Null \/ b = Null -> Null
             [] o = "+" -> a + b
             [] o = "-" -> a - b
             [] o = "*" -> a * b
      negated(x) == LET v == ValueOf(x, row) IN IF v = Null THEN Null ELSE 0 - v
  IN CASE n.k = "num" -> n.v
       [] n.k = "null" -> Null
       [] n.k = "prop" -> RefValue(n, row)
       [] n.k = "paren" -> ValueOf(n.x, row)
       [] n.k = "unary" -> IF n.o = "-" THEN negated(n.x) ELSE ValueOf(n.x, row)
       [] n.k = "binary" -> both(n.o, n.l, n.r)
       [] n.k = "call" -> both("??", n.args[1], n.args[2])
       [] n.k = "builder" ->
            CASE n.fn = "E.neg" -> negated(n.args[1])
              [] n.fn = "E.constNull" -> Null
              [] n.fn \in DOMAIN Symbol -> both(Symbol[n.fn], n.args[1], n.args[2])
              [] OTHER -> ValueOf(n.args[1], row)

RECURSIVE IsNullLiteral(_)
IsNullLiteral(n) ==
  n.k = "null" \/ (n.k = "paren" /\ IsNullLiteral(n.x)) \/ (n.k = "builder" /\ n.fn = "E.constNull")

RECURSIVE Holds(_, _)
Holds(n, row) ==
  LET compared(cmp, l, r) ==
        LET a == ValueOf(l, row)
            b == ValueOf(r, row)
        IN IF cmp \in {"==", "!="} /\ (IsNullLiteral(l) \/ IsNullLiteral(r))
           THEN (a = b) = (cmp = "==")
           ELSE a # Null /\ b # Null /\ Compare(cmp, a, b)
      matched == \E m \in row.matches :
                   /\ m[1] = KeyIds[n.args[1].name]
                   /\ m[2] = IF n.args[2].k = "str" THEN [literal |-> n.args[2].s]
                             ELSE [param |-> ParamIds[n.args[2].name]]
                   /\ m[3] = IF Len(n.args) = 3 THEN n.args[3].s ELSE ""
      listed == LET v == ValueOf(n.args[1], row) IN \E i \in DOMAIN n.list : v # Null /\ v = Literal(n.list[i])
  IN CASE n.k \in {"true", "false"} -> n.k = "true"
       [] n.k = "paren" -> Holds(n.x, row)
       [] n.k = "unary" -> ~ Holds(n.x, row)
       [] n.k = "binary" ->
            CASE n.o = "&&" -> Holds(n.l, row) /\ Holds(n.r, row)
              [] n.o = "||" -> Holds(n.l, row) \/ Holds(n.r, row)
              [] n.o \in {"==", "==="} -> compared("==", n.l, n.r)
              [] n.o \in {"!=", "!=="} -> compared("!=", n.l, n.r)
              [] OTHER -> compared(n.o, n.l, n.r)
       [] n.k = "call" -> matched
       [] n.k = "builder" ->
            CASE n.fn = "Pred.constBool" -> n.args[1].k = "true"
              [] n.fn = "Pred.and" -> Holds(n.args[1], row) /\ Holds(n.args[2], row)
              [] n.fn = "Pred.or" -> Holds(n.args[1], row) \/ Holds(n.args[2], row)
              [] n.fn = "Pred.not" -> ~ Holds(n.args[1], row)
              [] n.fn = "Pred.cmp" -> compared(n.cmp, n.args[1], n.args[2])
              [] n.fn = "Pred.in" -> listed
              [] n.fn = "Pred.isNull" -> ValueOf(n.args[1], row) = Null
              [] n.fn = "Pred.notNull" -> ValueOf(n.args[1], row) # Null
              [] n.fn = "Pred.regex" -> matched

=============================================================================
