------------------------------- MODULE Expressions -------------------------------
(***************************************************************************)
(* Expressions: the recursive descent of parse_expression, by precedence   *)
(* climbing, and eval_expr, the walk of the tree it builds.  A statement   *)
(* LET x = <expression> is read and then executed.                         *)
(*                                                                         *)
(* A token is [kind, text]; the lexer has told operators, names, builtin   *)
(* functions and literals apart.  What a name followed by parentheses      *)
(* means is found at run time: an array, a FUNCTION, or an array that      *)
(* dimensions itself.  The FUNCTIONs here have one INTEGER parameter and   *)
(* return it plus one; each call is logged with its argument.  Fields of   *)
(* records and functions of strings are left out.                          *)
(***************************************************************************)
EXTENDS Numbers, SequencesExt

CONSTANTS
    Sources,        \* what is read: [tokens, written], see MCExpressions
    LiteralValue,   \* the value of each literal
    VariableValue,  \* the variables of the program and their values
    ArrayNames,     \* the arrays it has dimensioned; elements are SINGLE 0
    Functions_,     \* its FUNCTIONs
    ByVal,          \* those whose parameter is BYVAL
    Top             \* the upper bound of an array that dimensions itself, 10

Tok(k, t) == [kind |-> k, text |-> t]
End       == Tok("end", "")

(* ASTNode.                                                                 *)
Lit(t)         == [k |-> "lit", text |-> t]
Var(n)         == [k |-> "var", text |-> n]
Un(op, e)      == [k |-> "un", text |-> op, e |-> e]
Bin(op, l, r)  == [k |-> "bin", text |-> op, l |-> l, r |-> r]
Paren(e)       == [k |-> "paren", e |-> e]
Func(f, args)  == [k |-> "func", text |-> f, args |-> args]
Access(n, args) == [k |-> "access", text |-> n, args |-> args]
NoTree         == [k |-> "none"]

ASSUME SourcesOK ==
    \A s \in Sources : s.tokens # <<>> /\ s.tokens[Len(s.tokens)] = End

--------------------------------------------------------------------------------
(* The parser.  A call returns the tree it has read and the position of the *)
(* token after it, 0 when it has reported a syntax error.                   *)

Read(t, i) == [tree |-> t, next |-> i]
Refused    == Read(NoTree, 0)

PrecMutant(op) ==    \* MOD on the level of * and /
    CASE op = "IMP" -> 1 [] op = "EQV" -> 2 [] op = "XOR" -> 3 [] op = "OR" -> 4
      [] op = "AND" -> 5 [] op = "NOT" -> 6 [] op \in RelationalOps -> 7
      [] op \in {"+", "-"} -> 8 [] op = "\\" -> 10
      [] op \in {"*", "/", "MOD"} -> 11 [] op = "^" -> 13

(* get_binop_prec                                                           *)
Prec(op) ==
    CASE op = "IMP" -> 1
      [] op = "EQV" -> 2
      [] op = "XOR" -> 3
      [] op = "OR"  -> 4
      [] op = "AND" -> 5
      [] op = "NOT" -> 6
      [] op \in RelationalOps -> 7
      [] op \in {"+", "-"}    -> 8
      [] op = "MOD" -> 9
      [] op = "\\"  -> 10
      [] op \in {"*", "/"}    -> 11
      [] op = "^"   -> 13

RECURSIVE ParseBinop(_, _, _), Climb(_, _, _), ParseUnary(_, _), ParsePrimary(_, _),
          ParseArguments(_, _, _)

(* parse_binop(min_prec): a unary operand, then operators that bind at      *)
(* least as tightly as min_prec.                                            *)
ParseBinop(s, i, min) == Climb(s, ParseUnary(s, i), min)

Climb(s, left, min) ==
    IF left.next = 0 \/ s[left.next].kind # "op" \/ Prec(s[left.next].text) < min
    THEN left
    ELSE LET op    == s[left.next].text
             right == ParseBinop(s, left.next + 1,
                                 IF op = "^" THEN Prec(op) ELSE Prec(op) + 1)
         IN  IF right.next = 0 THEN Refused
             ELSE Climb(s, Read(Bin(op, left.tree, right.tree), right.next), min)

(* parse_unary: -, + and NOT take the next unary operand, no more.          *)
ParseUnary(s, i) ==
    IF s[i] \notin {Tok("op", "-"), Tok("op", "+"), Tok("op", "NOT")}
    THEN ParsePrimary(s, i)
    ELSE LET r == ParseUnary(s, i + 1) IN
         IF r.next = 0 \/ s[i].text = "+" THEN r
         ELSE Read(Un(s[i].text, r.tree), r.next)

(* The arguments from i on, up to the closing parenthesis; tree is the      *)
(* sequence of them.                                                        *)
ParseArguments(s, i, args) ==
    LET r == ParseBinop(s, i, 1) IN
    CASE args = <<>> /\ s[i].kind = ")" -> Read(args, i + 1)
      [] OTHER ->
         IF r.next = 0 THEN Refused
         ELSE CASE s[r.next].kind = "," -> ParseArguments(s, r.next + 1, Append(args, r.tree))
                [] s[r.next].kind = ")" -> Read(Append(args, r.tree), r.next + 1)
                [] OTHER -> Refused

ParsePrimary(s, i) ==
    LET called == s[i + 1].kind = "("
        args   == ParseArguments(s, i + 2, <<>>)
        inner  == ParseBinop(s, i + 1, 1)
        node(N(_, _)) == IF args.next = 0 THEN Refused
                         ELSE Read(N(s[i].text, args.tree), args.next)
    IN  CASE s[i].kind = "lit"     -> Read(Lit(s[i].text), i + 1)
          [] s[i].kind = "builtin" -> IF called THEN node(Func)
                                      ELSE Read(Func(s[i].text, <<>>), i + 1)
          [] s[i].kind = "name"    -> IF called THEN node(Access)
                                      ELSE Read(Var(s[i].text), i + 1)
          [] s[i].kind = "("       ->
                IF inner.next = 0 \/ s[inner.next].kind # ")" THEN Refused
                ELSE Read(Paren(inner.tree), inner.next + 1)
          [] OTHER -> Refused

(* parse_expression, then expect_end_of_statement.                          *)
ParseExpression(s) ==
    LET r == ParseBinop(s, 1, 1) IN
    IF r.next = 0 \/ s[r.next] # End THEN NoTree ELSE r.tree

--------------------------------------------------------------------------------
(* The evaluator.  Its state is what an expression may change: the          *)
(* variables, the module's arrays, the arrays of the scope of a call whose  *)
(* parameters are being bound, and the calls made so far.  An array maps    *)
(* the tuples of subscripts to its elements.                                *)

Zero  == Num("SINGLE", <<0, 1>>)
Array(ndims) == [[1..ndims -> 0..Top] -> {Zero}]
NewArray(ndims) == CHOOSE a \in Array(ndims) : TRUE

Start == [vars |-> VariableValue, arrays |-> [n \in ArrayNames |-> NewArray(1)],
          local |-> <<>>, binding |-> FALSE, calls |-> <<>>]

With(f, n, x) == [m \in DOMAIN f \cup {n} |-> IF m = n THEN x ELSE f[m]]
Gives(v, st)  == [v |-> v, st |-> st]

(* scope_lookup of an array: the scope of the call, then the module.        *)
IsArray(n, st) == n \in DOMAIN st.local \cup DOMAIN st.arrays
ArrayOf(n, st) == IF n \in DOMAIN st.local THEN st.local[n] ELSE st.arrays[n]

(* An array that is used before it is dimensioned dimensions itself in the  *)
(* current scope.                                                           *)
AutoDim(n, ndims, st) ==
    IF IsArray(n, st) THEN st
    ELSE IF st.binding THEN [st EXCEPT !.local = With(@, n, NewArray(ndims))]
    ELSE [st EXCEPT !.arrays = With(@, n, NewArray(ndims))]

(* Where a value lives, and putting a value there.                          *)
Nowhere == [k |-> "nowhere"]
Put(where, v, st) ==
    CASE where.k = "nowhere" -> st
      [] where.k = "var"     -> [st EXCEPT !.vars[where.n] = v]
      [] where.n \in DOMAIN st.local -> [st EXCEPT !.local[where.n][where.subs] = v]
      [] OTHER                       -> [st EXCEPT !.arrays[where.n][where.subs] = v]

RECURSIVE Eval(_, _)

(* Some expressions, from left to right; the first that fails ends it.      *)
EvalAll(es, st) ==
    FoldLeft(LAMBDA done, e :
                 IF Failed(done.v) THEN done
                 ELSE LET r == Eval(e, done.st)
                      IN  [v |-> r.v, st |-> r.st, vals |-> Append(done.vals, r.v)],
             [v |-> Zero, st |-> st, vals |-> <<>>], es)

Subscripts(vals) == [i \in 1..Len(vals) |-> ToLong(vals[i])]

EvalVariable(n, st) ==
    IF n \in DOMAIN st.vars THEN Gives(st.vars[n], st)
    ELSE Gives(Zero, [st EXCEPT !.vars = With(@, n, Zero)])

EvalBinary(e, st) ==
    LET r == EvalAll(<<e.l, e.r>>, st)
    IN  IF Failed(r.v) THEN Gives(r.v, r.st)
        ELSE Gives(Apply(r.vals[1], r.vals[2], e.text), r.st)

EvalUnary(e, st) ==
    LET r == Eval(e.e, st)
    IN  IF Failed(r.v) THEN r ELSE Gives(UnaryOp(r.v, e.text), r.st)

EvalBuiltin(e, st) ==
    LET r == EvalAll(e.args, st)
    IN  IF Failed(r.v) THEN Gives(r.v, r.st)
        ELSE IF e.args = <<>> THEN Gives(Error(ArgumentCountMismatch), r.st)
        ELSE Gives(Builtin(e.text, r.vals[1]), r.st)

EvalElement(e, st) ==
    LET r    == EvalAll(e.args, AutoDim(e.text, Len(e.args), st))
        subs == Subscripts(r.vals)
        a    == ArrayOf(e.text, r.st)
    IN  IF Failed(r.v) THEN Gives(r.v, r.st)
        ELSE IF subs \in DOMAIN a THEN Gives(a[subs], r.st)
        ELSE Gives(Error(SubscriptOutOfRange), r.st)

(* resolve_lvalue of an argument, once more and now in the scope of the     *)
(* call: there the name of a FUNCTION is that of an array.                  *)
Resolve(arg, st) ==
    CASE arg.k = "var" -> [where |-> [k |-> "var", n |-> arg.text], v |-> Zero, st |-> st]
      [] arg.k = "access" ->
            LET r    == EvalAll(arg.args, AutoDim(arg.text, Len(arg.args), st))
                subs == Subscripts(r.vals)
            IN  [where |-> IF ~Failed(r.v) /\ subs \in DOMAIN ArrayOf(arg.text, r.st)
                           THEN [k |-> "element", n |-> arg.text, subs |-> subs]
                           ELSE Nowhere,
                 v |-> r.v, st |-> r.st]
      [] OTHER -> [where |-> Nowhere, v |-> Zero, st |-> st]

At(where, st) == IF where.k = "var" THEN st.vars[where.n]
                 ELSE ArrayOf(where.n, st)[where.subs]

ByReferenceMutant(f, arg) ==     \* parentheses no longer make it a value
    IF arg.k = "paren" THEN arg.e ELSE arg

(* The argument as the binding of the parameters sees it: a value unless it *)
(* is a bare variable or element and the parameter is not BYVAL.            *)
ByReference(f, arg) == IF f \in ByVal THEN Paren(arg) ELSE arg

(* A FUNCTION f%(n%): f% = n% + 1.  Its arguments are evaluated, its        *)
(* parameter is bound, its body is executed, the parameter is written back. *)
(* If binding has left an array of the name of f, there is no return value. *)
EvalCall(e, st) ==
    LET a     == EvalAll(e.args, st)
        inner == [a.st EXCEPT !.local = <<>>, !.binding = TRUE]
        b     == IF e.args = <<>> THEN [where |-> Nowhere, v |-> Zero, st |-> inner]
                 ELSE Resolve(ByReference(e.text, e.args[1]), inner)
        param == Coerce(CASE e.args = <<>>           -> Zero
                          [] b.where.k = "nowhere"   -> a.vals[1]
                          [] OTHER                   -> At(b.where, b.st), "INTEGER")
        back  == Put(b.where, param, b.st)
        value == Coerce(BinaryOp(param, Integer(1), "+"), "INTEGER")
        after == [back EXCEPT !.local = a.st.local, !.binding = a.st.binding,
                              !.calls = Append(@, <<e.text, param.what[1]>>)]
    IN  CASE Failed(a.v)   -> Gives(a.v, a.st)
          [] Failed(b.v)   -> Gives(b.v, b.st)
          [] Failed(param) -> Gives(param, b.st)
          [] e.text \in DOMAIN b.st.local -> Gives(Integer(0), after)
          [] OTHER         -> Gives(value, after)

(* eval_expr.  The name of a variable that is used as an array: the array   *)
(* cannot be entered in the scope, and its symbol is NULL.                  *)
Eval(e, st) ==
    CASE e.k = "lit"   -> Gives(LiteralValue[e.text], st)
      [] e.k = "var"   -> EvalVariable(e.text, st)
      [] e.k = "bin"   -> EvalBinary(e, st)
      [] e.k = "un"    -> EvalUnary(e, st)
      [] e.k = "paren" -> Eval(e.e, st)
      [] e.k = "func"  -> EvalBuiltin(e, st)
      [] e.k = "access" ->
            CASE IsArray(e.text, st)       -> EvalElement(e, st)
              [] e.text \in Functions_     -> EvalCall(e, st)
              [] e.text \in DOMAIN st.vars -> Gives(Crashed, st)
              [] OTHER                     -> EvalElement(e, st)

--------------------------------------------------------------------------------
(* A statement PRINT <expression>: it is read before the program starts and *)
(* evaluated when it is executed.                                           *)

VARIABLES
    source,   \* one of Sources
    phase,    \* "text", "read", "refused" or "done"
    tree,     \* the ASTNode
    result    \* [v, st] of eval_expr

vars == <<source, phase, tree, result>>

Init ==
    /\ source \in Sources
    /\ phase = "text"
    /\ tree = NoTree
    /\ result = Gives(Zero, Start)

(* parse_expression of the statement; a syntax error ends the run.          *)
Parse ==
    /\ phase = "text"
    /\ tree' = ParseExpression(source.tokens)
    /\ phase' = IF tree' = NoTree THEN "refused" ELSE "read"
    /\ UNCHANGED <<source, result>>

(* exec_print calls eval_expr.                                              *)
Evaluate ==
    /\ phase = "read"
    /\ result' = Eval(tree, Start)
    /\ phase' = "done"
    /\ UNCHANGED <<source, tree>>

Done == phase \in {"refused", "done"} /\ UNCHANGED vars

Next == Parse \/ Evaluate \/ Done

Spec == Init /\ [][Next]_vars

--------------------------------------------------------------------------------
(* What an expression means.                                                *)

(* The operators from the loosest to the tightest, as in the table of       *)
(* implementation_phase_1.md; a sign is a prefix - or +.                    *)
Levels == << {"IMP"}, {"EQV"}, {"XOR"}, {"OR"}, {"AND"}, {"NOT"}, RelationalOps, {"+", "-"},
             {"MOD"}, {"\\"}, {"*", "/"}, {"sign"}, {"^"} >>
LevelOf(op) == CHOOSE i \in DOMAIN Levels : op \in Levels[i]
Level(t) == CASE t.k = "bin" -> LevelOf(t.text)
              [] t.k = "un"  -> LevelOf(IF t.text = "NOT" THEN "NOT" ELSE "sign")
              [] OTHER       -> Len(Levels) + 1

RECURSIVE LastPrefix(_), Respects(_), Yield(_), Kind(_), Exact(_), Calls(_),
          PlainArguments(_), OperandsFit(_)

(* The level of the loosest prefix operator with nothing closed after it.   *)
LastPrefix(t) ==
    CASE t.k = "bin" -> LastPrefix(t.r)
      [] t.k = "un"  -> Min({Level(t), LastPrefix(t.e)})
      [] OTHER       -> Len(Levels) + 1

(* The tree needs no parentheses it does not have: ^ groups to the right,   *)
(* all other operators to the left; what follows a prefix operator belongs  *)
(* to its operand as long as it binds more tightly.                         *)
Respects(t) ==
    CASE t.k = "bin"   -> /\ Respects(t.l) /\ Respects(t.r)
                          /\ LastPrefix(t.l) >= Level(t)
                          /\ IF t.text = "^" THEN Level(t.l) > Level(t) ELSE Level(t.l) >= Level(t)
                          /\ \/ t.r.k = "un" \/ Level(t.r) > Level(t)
                             \/ t.text = "^" /\ Level(t.r) = Level(t)
      [] t.k = "un"    -> Respects(t.e) /\ (t.e.k = "un" \/ Level(t.e) > Level(t))
      [] t.k = "paren" -> Respects(t.e)
      [] t.k \in {"func", "access"} -> \A i \in DOMAIN t.args : Respects(t.args[i])
      [] OTHER -> TRUE

Separated(ts) == FoldLeft(LAMBDA a, b : IF a = <<>> THEN b ELSE a \o <<Tok(",", "")>> \o b,
                          <<>>, ts)
Yield(t) ==
    CASE t.k = "bin"   -> Yield(t.l) \o <<Tok("op", t.text)>> \o Yield(t.r)
      [] t.k = "un"    -> <<Tok("op", t.text)>> \o Yield(t.e)
      [] t.k = "paren" -> <<Tok("(", "")>> \o Yield(t.e) \o <<Tok(")", "")>>
      [] t.k = "lit"   -> <<Tok("lit", t.text)>>
      [] t.k = "var"   -> <<Tok("name", t.text)>>
      [] OTHER -> <<Tok(IF t.k = "func" THEN "builtin" ELSE "name", t.text), Tok("(", "")>>
                  \o Separated([i \in DOMAIN t.args |-> Yield(t.args[i])]) \o <<Tok(")", "")>>

(* The value as a fraction, computed as the manual has it: exactly, but     *)
(* where the more precise operand of + - * / ^ and of the comparisons is a  *)
(* SINGLE the other becomes one too, and the result is one.  Undefined if   *)
(* it or a part of it is not a number within LONG, or not defined in        *)
(* mathematics, or negates IntMin.                                          *)
Undefined == <<0, 0>>
Within(q) == IF q[2] # 0 /\ LongMin * q[2] <= q[1] /\ q[1] <= LongMax * q[2]
             THEN q ELSE Undefined
Nearest(q) == CHOOSE n \in LONGs :
                 LET off == 2 * (IF n * q[2] > q[1] THEN n * q[2] - q[1] ELSE q[1] - n * q[2])
                 IN  off < q[2] \/ (off = q[2] /\ n % 2 = 0)
Towards0(m, n) == CHOOSE k \in LONGs \cup {LongMax + 1} :
                     LET r == m - k * n IN r * r < n * n /\ r * m >= 0
AsTruth(b) == <<IF b THEN -1 ELSE 0, 1>>

ExactOp(op, p, q) ==
    LET m == Nearest(p)
        n == Nearest(q)
        k == Towards0(m, n)
    IN
    CASE op = "+" -> Plus(p, q)
      [] op = "-" -> Minus(p, q)
      [] op = "*" -> Times(p, q)
      [] op = "/" -> IF q[1] = 0 THEN Undefined ELSE Over(p, q)
      [] op = "\\" -> IF n = 0 THEN Undefined ELSE <<k, 1>>
      [] op = "MOD" -> IF n = 0 \/ k \notin LONGs THEN Undefined ELSE <<m - k * n, 1>>
      [] op = "^" -> IF Whole(q) /\ q[1] >= 0 THEN Power(p, q) ELSE Undefined
      [] op = "="  -> AsTruth(Minus(p, q)[1] = 0)
      [] op = "<>" -> AsTruth(Minus(p, q)[1] # 0)
      [] op = "<"  -> AsTruth(Minus(p, q)[1] < 0)
      [] op = ">"  -> AsTruth(Minus(p, q)[1] > 0)
      [] op = "<=" -> AsTruth(Minus(p, q)[1] <= 0)
      [] op = ">=" -> AsTruth(Minus(p, q)[1] >= 0)
      [] ~({m, n} \subseteq {-1, 0}) -> Undefined
      [] op = "AND" -> AsTruth(m = -1 /\ n = -1)
      [] op = "OR"  -> AsTruth(m = -1 \/ n = -1)
      [] op = "XOR" -> AsTruth(m # n)
      [] op = "EQV" -> AsTruth(m = n)
      [] op = "IMP" -> AsTruth(m = -1 => n = -1)

ExactBuiltin(f, q) ==
    CASE f = "ABS" -> IF q = <<IntMin, 1>> THEN Undefined ELSE Magnitude(q)
      [] f = "INT" -> <<CHOOSE n \in LONGs : n * q[2] <= q[1] /\ q[1] < (n + 1) * q[2], 1>>
      [] f = "FIX" -> <<Towards0(q[1], q[2]), 1>>
      [] f = "SGN" -> <<CHOOSE s \in -1..1 : s * q[1] > 0 \/ (s = 0 /\ q[1] = 0), 1>>
      [] f = "CINT" -> IF Nearest(q) \in INTEGERs THEN <<Nearest(q), 1>> ELSE Undefined
      [] f = "CLNG" -> <<Nearest(q), 1>>
      [] f = "CSNG" -> ToSingle(q)
      [] OTHER -> q

(* A variable that a by-reference call would round is left out.             *)
ExactCall(t, q) ==
    IF \/ Nearest(q) \notin INTEGERs \/ Nearest(q) + 1 \notin INTEGERs
       \/ t.args[1].k = "var" /\ ~Whole(q)
    THEN Undefined ELSE <<Nearest(q) + 1, 1>>

ExactLeaf(v) == IF v.type = "STRING" THEN Undefined ELSE v.what

(* The precision of a number; all whole numbers are of one kind.            *)
KindOf(type) == IF type \in {"SINGLE", "DOUBLE"} THEN type ELSE "WHOLE"
ArithmeticOps == {"+", "-", "*", "/", "^"}
Precision(t) == Promote(Kind(t.l), Kind(t.r))     \* of the operands together
Kind(t) ==
    CASE t.k = "lit" -> KindOf(LiteralValue[t.text].type)
      [] t.k = "var" -> IF t.text \in DOMAIN VariableValue
                        THEN KindOf(VariableValue[t.text].type) ELSE "SINGLE"
      [] t.k = "bin" -> IF t.text \notin ArithmeticOps THEN "WHOLE"
                        ELSE IF t.text = "/" THEN Promote(Precision(t), "SINGLE")
                        ELSE KindOf(Precision(t))
      [] t.k = "un"  -> IF t.text = "NOT" THEN "WHOLE" ELSE Kind(t.e)
      [] t.k = "paren" -> Kind(t.e)
      [] t.k = "func"  -> CASE t.text = "CSNG" -> "SINGLE"
                            [] t.text \in {"INT", "FIX", "CDBL"} -> "DOUBLE"
                            [] t.text = "ABS" -> Kind(t.args[1])
                            [] OTHER -> "WHOLE"
      [] OTHER -> IF t.text \in Functions_ THEN "WHOLE" ELSE "SINGLE"

(* The operands of t in the precision of the more precise one.              *)
InPrecision(t, q) ==
    IF t.text \in ArithmeticOps \cup RelationalOps /\ Precision(t) = "SINGLE"
    THEN ToSingle(q) ELSE q

Exact(t) ==
    CASE t = NoTree    -> Undefined
      [] t.k = "lit"   -> ExactLeaf(LiteralValue[t.text])
      [] t.k = "var"   -> IF t.text \in DOMAIN VariableValue
                          THEN ExactLeaf(VariableValue[t.text]) ELSE <<0, 1>>
      [] t.k = "paren" -> Exact(t.e)
      [] t.k = "bin"   -> LET p == Exact(t.l)
                              q == Exact(t.r)
                          IN  IF \/ Undefined \in {p, q}
                                 \/ Undefined \in {Within(InPrecision(t, p)), Within(InPrecision(t, q))}
                              THEN Undefined
                              ELSE LET r == ExactOp(t.text, InPrecision(t, p), InPrecision(t, q))
                                   IN  Within(IF Kind(t) = "SINGLE" THEN ToSingle(r) ELSE r)
      [] t.k = "un"    -> LET q == Exact(t.e)
                          IN  IF q = Undefined THEN Undefined
                              ELSE IF t.text = "NOT" THEN Within(<<-Nearest(q) - 1, 1>>)
                              ELSE IF q = <<IntMin, 1>> THEN Undefined
                              ELSE Within(<<-q[1], q[2]>>)
      [] Len(t.args) # 1 -> Undefined
      [] OTHER ->
            LET q == Exact(t.args[1])
            IN  IF q = Undefined THEN Undefined
                ELSE CASE t.k = "func" -> Within(ExactBuiltin(t.text, q))
                       [] t.text \in Functions_ -> ExactCall(t, q)
                       [] OTHER -> IF /\ t.text \notin DOMAIN VariableValue
                                      /\ Nearest(q) \in 0..Top
                                   THEN <<0, 1>> ELSE Undefined

(* The calls of FUNCTIONs, from left to right, each after those in its      *)
(* argument, with the argument's value.                                     *)
Calls(t) ==
    CASE t.k = "bin" -> Calls(t.l) \o Calls(t.r)
      [] t.k \in {"un", "paren"} -> Calls(t.e)
      [] t.k = "func"   -> FlattenSeq([i \in DOMAIN t.args |-> Calls(t.args[i])])
      [] t.k = "access" ->
            FlattenSeq([i \in DOMAIN t.args |-> Calls(t.args[i])])
            \o IF t.text \in Functions_
               THEN << <<t.text, Nearest(Exact(t.args[1]))>> >> ELSE <<>>
      [] OTHER -> <<>>

(* No FUNCTION is given a bare call, or an element at a subscript that      *)
(* makes one, for a parameter that is not BYVAL.                            *)
PlainArguments(t) ==
    CASE t.k = "bin" -> PlainArguments(t.l) /\ PlainArguments(t.r)
      [] t.k \in {"un", "paren"} -> PlainArguments(t.e)
      [] t.k \in {"func", "access"} ->
            \A i \in DOMAIN t.args :
                /\ PlainArguments(t.args[i])
                /\ t.k = "access" /\ t.text \in Functions_ \ ByVal /\ t.args[i].k = "access"
                   => Calls(t.args[i]) = <<>>
      [] OTHER -> TRUE

SameValue(p, q) == p[1] * q[2] = q[1] * p[2]

(* No operand has more digits than the precision it is converted to.        *)
OperandsFit(t) ==
    CASE t.k = "bin" ->
            /\ OperandsFit(t.l) /\ OperandsFit(t.r)
            /\ \A e \in {t.l, t.r} : SameValue(InPrecision(t, Exact(e)), Exact(e))
      [] t.k \in {"un", "paren"} -> OperandsFit(t.e)
      [] t.k \in {"func", "access"} -> \A i \in DOMAIN t.args : OperandsFit(t.args[i])
      [] OTHER -> TRUE

SameNumber(v, q) == ~Failed(v) /\ v.what[2] # 0 /\ SameValue(v.what, q)

--------------------------------------------------------------------------------
(* Properties.                                                              *)

(* A value has the range of its type: what leaves INTEGER has become LONG   *)
(* or an error, never an INTEGER of more than 16 bits (coerce.c).           *)
TypeOK ==
    /\ phase \in {"text", "read", "refused", "done"}
    /\ (phase \in {"read", "done"}) = (tree # NoTree)
    /\ Failed(result.v) \/ result.v.type \in Types
    /\ result.v.type = "INTEGER" => result.v.what[1] \in INTEGERs
    /\ result.v.type = "LONG" => result.v.what[1] \in LONGs
    /\ result.st.local = <<>> \/ Failed(result.v)

(* An expression is read as the tree that was written, by the precedence    *)
(* of its operators in implementation_phase_1.md, their grouping and the    *)
(* parentheses; what is not an expression is refused (parse_binop,          *)
(* parse_unary, parse_primary).  Two kinds of text are read otherwise, see  *)
(* MCExpressions: parse_unary gives -, + and NOT a single operand.          *)
TreesAsWritten == phase # "text" => tree = source.written

(* freebasic.txt:2091: the operands of an arithmetic or relational          *)
(* operation are converted to the precision of the most precise, and the    *)
(* result to the final one.  fbval_binary_op and fbval_compare convert      *)
(* neither operand, so a LONG beside a SINGLE keeps its digits.             *)
ManualResults ==
    LET q == Exact(source.written)
    IN  phase = "done" /\ q # Undefined /\ PlainArguments(source.written)
            => SameNumber(result.v, q)

(* An expression whose parts stay within LONG and whose operands lose       *)
(* nothing when they are converted to a common precision has the value that *)
(* the manual's rules give it: every + - * / ^ of a SINGLE rounded once, in *)
(* the order of the tree, and all else exact, whatever the types on the way *)
(* (fbval_binary_op, fbval_coerce, eval_expr).                              *)
ExactResults == OperandsFit(source.written) => ManualResults

(* The FUNCTIONs of an expression are called from left to right, each once, *)
(* with the values of their arguments (eval_builtin_func).                  *)
CallsAsWritten ==
    phase = "done" /\ Exact(source.written) # Undefined
    /\ PlainArguments(source.written) /\ OperandsFit(source.written)
        => result.st.calls = Calls(source.written)

================================================================================
