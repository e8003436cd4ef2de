--------------------------------- MODULE Numbers ---------------------------------
(***************************************************************************)
(* Values and the operators on them: coerce.c, the conversions of value.c  *)
(* and the builtin functions that round or convert (builtins_math.c).      *)
(*                                                                         *)
(* INTEGER and LONG have IntBits and LongBits bits.  Every operator works  *)
(* on doubles and converts the result: a number is here a fraction <<n,d>> *)
(* with d >= 0, d = 0 for an infinity or a NaN.  A SINGLE has SingleBits    *)
(* binary digits and one of the Exponents; a double that becomes one is    *)
(* rounded.  The rounding of DOUBLE itself is left out.  A string is its   *)
(* length: all the strings of a run are made of one letter.                *)
(*                                                                         *)
(* A conversion of a double that no int32_t holds, and the negation of the *)
(* least LONG, are undefined in C; WildLong is what the target makes of    *)
(* them (the least LONG on x86).  A value of type "ERROR" stands for       *)
(* fb_error with that code, "CRASH" for the death of the process.          *)
(***************************************************************************)
EXTENDS Integers, FiniteSetsExt

CONSTANTS
    IntBits, LongBits,   \* 16 and 32 in the code
    SingleBits,          \* 24: a SINGLE is m * 2^e with m below 2^SingleBits
    Exponents,           \* -149..104: the exponents e
    WildLong             \* an out-of-range conversion to int32_t

IntMax  == 2^(IntBits - 1) - 1
IntMin  == -IntMax - 1
LongMax == 2^(LongBits - 1) - 1
LongMin == -LongMax - 1

INTEGERs == IntMin..IntMax
LONGs    == LongMin..LongMax

ASSUME WidthsOK ==
    /\ IntMax \in Nat /\ LongMax \in Nat
    /\ (IntMax + 1) * (IntMax + 1) <= LongMax
    /\ WildLong \in LONGs
    /\ SingleBits \in Nat \ {0} /\ Exponents \subseteq Int
    /\ \A e \in Exponents : (IF e >= 0 THEN 2^e ELSE 2^(-e)) \in Nat \ {0}

NumericTypes == {"INTEGER", "LONG", "SINGLE", "DOUBLE"}
Types        == NumericTypes \cup {"STRING"}

(* FBValue; what = the fraction of a number, or the length of a string.     *)
Num(t, q)    == [type |-> t, what |-> q]
Integer(n)   == Num("INTEGER", <<n, 1>>)
Long(n)      == Num("LONG", <<n, 1>>)
String(l)    == Num("STRING", <<l, 1>>)
Error(code)  == Num("ERROR", <<code, 1>>)
Crashed      == Num("CRASH", <<0, 1>>)
Failed(v)    == v.type \in {"ERROR", "CRASH"}

Overflow         == 6
DivisionByZero   == 11
TypeMismatch     == 13
SubscriptOutOfRange   == 9
ArgumentCountMismatch == 37

--------------------------------------------------------------------------------
(* Fractions.                                                               *)

Positive(n, d) == IF d < 0 THEN <<-n, -d>> ELSE <<n, d>>
Plus(p, q)     == IF p[2] = 0 /\ q[2] = 0 /\ p[1] * q[1] > 0 THEN p
                  ELSE <<p[1] * q[2] + q[1] * p[2], p[2] * q[2]>>
Minus(p, q)    == Plus(p, <<-q[1], q[2]>>)
Times(p, q)    == <<p[1] * q[1], p[2] * q[2]>>
Over(p, q)     == LET s == IF q[1] < 0 THEN -1 ELSE 1
                  IN  <<s * p[1] * q[2], s * p[2] * q[1]>>
Less(p, q)     == p[1] * q[2] < q[1] * p[2]
Whole(q)       == q[2] # 0 /\ q[1] % q[2] = 0

(* pow, for whole exponents.                                                *)
Power(p, q) ==
    LET k == q[1] \div q[2]
    IN  IF k >= 0 THEN <<p[1]^k, p[2]^k>> ELSE Positive(p[2]^(-k), p[1]^(-k))

(* rint: to the nearest, halves to the even one.                            *)
Rint(q) ==
    LET f == q[1] \div q[2]
        r == 2 * (q[1] % q[2])
    IN  IF r < q[2] \/ (r = q[2] /\ f % 2 = 0) THEN f ELSE f + 1

(* The quotient of C, which rounds towards zero, and its remainder.         *)
Quotient(a, b)  == LET n == IF a < 0 THEN -a ELSE a
                       m == IF b < 0 THEN -b ELSE b
                   IN  IF (a < 0) = (b < 0) THEN n \div m ELSE -(n \div m)
Remainder(a, b) == a - b * Quotient(a, b)

--------------------------------------------------------------------------------
(* Conversions.                                                             *)

InLong(n) == IF n \in LONGs THEN n ELSE WildLong

(* fbval_to_double: a string counts as 0.                                   *)
ToDouble(v) == IF v.type = "STRING" THEN <<0, 1>> ELSE v.what

(* (int32_t)rint(q)                                                         *)
RoundLong(q) == IF q[2] = 0 THEN WildLong ELSE InLong(Rint(q))
ToLong(v)    == RoundLong(ToDouble(v))

(* A 32-bit result is an INTEGER if it fits one.                            *)
NarrowMutant(n) == IF n <= IntMax THEN Integer(n) ELSE Long(n)
Narrow(n) == IF n \in INTEGERs THEN Integer(n) ELSE Long(n)

(* (float)q: the fraction q in steps of 2^e, for the finest e for which the  *)
(* number of steps has no more than SingleBits bits; infinite beyond all.   *)
InSteps(q, e) == IF e >= 0 THEN Rint(<<q[1], q[2] * 2^e>>) ELSE Rint(<<q[1] * 2^(-e), q[2]>>)
Fits(q, e)    == InSteps(q, e) \in (1 - 2^SingleBits)..(2^SingleBits - 1)
Finest(q)     == {e \in Exponents : Fits(q, e) /\ \A f \in Exponents : f < e => ~Fits(q, f)}
ToSingle(q) ==
    LET e == CHOOSE e \in Finest(q) : TRUE
    IN  IF q[2] = 0 THEN q
        ELSE IF Finest(q) = {} THEN <<IF q[1] < 0 THEN -1 ELSE 1, 0>>
        ELSE IF e >= 0 THEN <<InSteps(q, e) * 2^e, 1>> ELSE <<InSteps(q, e), 2^(-e)>>

(* fbval_single and fbval_double of a double.                               *)
InFloat(t, q) == Num(t, IF t = "SINGLE" THEN ToSingle(q) ELSE q)

(* fbval_coerce; only INTEGER has its range checked.                        *)
CoerceMutant(v, t) ==     \* INTEGER is cut instead of checked
    IF v.type = t THEN v
    ELSE IF t = "INTEGER" THEN Integer(((ToLong(v) - IntMin) % 2^IntBits) + IntMin)
    ELSE IF t = "LONG" THEN Long(ToLong(v))
    ELSE InFloat(t, v.what)

Coerce(v, t) ==
    IF v.type = t THEN v
    ELSE IF "STRING" \in {v.type, t} THEN Error(TypeMismatch)
    ELSE IF t = "INTEGER"
         THEN IF ToLong(v) \in INTEGERs THEN Integer(ToLong(v)) ELSE Error(Overflow)
    ELSE IF t = "LONG" THEN Long(ToLong(v))
    ELSE InFloat(t, v.what)

(* fb_promote_type, for numbers.                                            *)
Promote(s, t) ==
    CASE "DOUBLE" \in {s, t} -> "DOUBLE"
      [] "SINGLE" \in {s, t} -> "SINGLE"
      [] "LONG"   \in {s, t} -> "LONG"
      [] OTHER               -> "INTEGER"

--------------------------------------------------------------------------------
(* Operators.  Both operands have been evaluated; a mismatch is found first. *)

IntegerOps    == {"\\", "MOD"}
RelationalOps == {"=", "<>", "<", ">", "<=", ">="}
LogicalOps    == {"AND", "OR", "XOR", "EQV", "IMP"}

(* \ and MOD: 32-bit idiv, which traps on the one quotient it cannot hold.  *)
WholeDivision(op, m, n) ==
    IF n = 0 THEN Error(DivisionByZero)
    ELSE IF m = LongMin /\ n = -1 THEN Crashed
    ELSE Narrow(IF op = "MOD" THEN Remainder(m, n) ELSE Quotient(m, n))

InTypeMutant(t, q) ==     \* INTEGER results are cut to 16 bits
    CASE t = "INTEGER" -> Integer(((RoundLong(q) - IntMin) % 2^IntBits) + IntMin)
      [] t = "LONG"    -> Long(RoundLong(q))
      [] OTHER         -> InFloat(t, q)

(* The last switch of fbval_binary_op: the result in the promoted type.     *)
InType(t, q) ==
    CASE t = "INTEGER" -> Narrow(RoundLong(q))
      [] t = "LONG"    -> Long(RoundLong(q))
      [] OTHER         -> InFloat(t, q)

(* fbval_binary_op; an operator it does not know (a NOT between two          *)
(* operands) gives 0.                                                       *)
BinaryOp(a, b, op) ==
    LET p == ToDouble(a)
        q == ToDouble(b)
        t == Promote(a.type, b.type)
    IN  IF a.type = "STRING" /\ b.type = "STRING" /\ op = "+"
        THEN String(a.what[1] + b.what[1])
        ELSE IF "STRING" \in {a.type, b.type} THEN Error(TypeMismatch)
        ELSE
             CASE op \in IntegerOps -> WholeDivision(op, ToLong(a), ToLong(b))
               [] op = "+" -> InType(t, Plus(p, q))
               [] op = "-" -> InType(t, Minus(p, q))
               [] op = "*" -> InType(t, Times(p, q))
               [] op = "/" -> IF q[1] = 0 /\ q[2] # 0 THEN Error(DivisionByZero)
                              ELSE InFloat(IF t = "DOUBLE" THEN t ELSE "SINGLE", Over(p, q))
               [] op = "^" -> InType(t, Power(p, q))
               [] OTHER    -> InType(t, <<0, 1>>)

(* fbval_unary_op: an int16_t wraps, NOT works on 32 bits.                   *)
UnaryOp(v, op) ==
    IF v.type = "STRING" THEN Error(TypeMismatch)
    ELSE IF op = "NOT" THEN Narrow(-ToLong(v) - 1)
    ELSE
         CASE v.type = "INTEGER" -> Integer(IF v.what[1] = IntMin THEN IntMin ELSE -v.what[1])
           [] v.type = "LONG"    -> Long(IF v.what[1] = LongMin THEN WildLong ELSE -v.what[1])
           [] OTHER              -> Num(v.type, <<-v.what[1], v.what[2]>>)

Truth(b) == Integer(IF b THEN -1 ELSE 0)

(* fbval_compare: a NaN is equal to everything.                             *)
Compare(a, b, op) ==
    LET below == Less(a.what, b.what)
        above == Less(b.what, a.what)
    IN  IF (a.type = "STRING") # (b.type = "STRING") THEN Error(TypeMismatch)
        ELSE Truth(CASE op = "="  -> ~below /\ ~above
                     [] op = "<>" -> below \/ above
                     [] op = "<"  -> below
                     [] op = ">"  -> above
                     [] op = "<=" -> ~above
                     [] op = ">=" -> ~below)

(* Bit i of a number in two's complement, and the number with given bits.   *)
Bit(n, i) == (n \div 2^i) % 2 = 1
FromBits(B(_)) ==
    MapThenSumSet(LAMBDA i : IF B(i) THEN 2^i ELSE 0, 0..(LongBits - 2))
    - (IF B(LongBits - 1) THEN 2^(LongBits - 1) ELSE 0)

(* fbval_logical_op, on 32 bits.                                            *)
LogicalOp(a, b, op) ==
    LET m == ToLong(a)
        n == ToLong(b)
        B(i) == CASE op = "AND" -> Bit(m, i) /\ Bit(n, i)
                  [] op = "OR"  -> Bit(m, i) \/ Bit(n, i)
                  [] op = "XOR" -> Bit(m, i) # Bit(n, i)
                  [] op = "EQV" -> Bit(m, i) = Bit(n, i)
                  [] op = "IMP" -> Bit(m, i) => Bit(n, i)
    IN  IF "STRING" \in {a.type, b.type} THEN Error(TypeMismatch)
        ELSE Narrow(FromBits(B))

(* eval_expr, AST_BINARY_OP: which of the three.                            *)
Apply(a, b, op) ==
    CASE op \in RelationalOps -> Compare(a, b, op)
      [] op \in LogicalOps    -> LogicalOp(a, b, op)
      [] OTHER                -> BinaryOp(a, b, op)

--------------------------------------------------------------------------------
(* Builtin functions of one number.  A string counts as 0 where the function *)
(* computes, and is a mismatch where it converts.                           *)

Magnitude(q) == IF q[1] < 0 THEN <<-q[1], q[2]>> ELSE q
Floor(q)     == IF q[2] = 0 THEN q ELSE <<q[1] \div q[2], 1>>

Builtin(f, v) ==
    LET q == ToDouble(v) IN
    CASE f = "ABS" -> Coerce(Num("DOUBLE", Magnitude(q)),
                             IF v.type = "STRING" THEN "DOUBLE" ELSE v.type)
      [] f = "INT" -> Num("DOUBLE", Floor(q))
      [] f = "FIX" -> Num("DOUBLE", IF q[1] >= 0 THEN Floor(q)
                                    ELSE LET r == Floor(Magnitude(q)) IN <<-r[1], r[2]>>)
      [] f = "SGN" -> Integer(IF q[1] > 0 THEN 1 ELSE IF q[1] < 0 THEN -1 ELSE 0)
      [] f = "CINT" -> Coerce(v, "INTEGER")
      [] f = "CLNG" -> Coerce(v, "LONG")
      [] f = "CSNG" -> Coerce(v, "SINGLE")
      [] f = "CDBL" -> Coerce(v, "DOUBLE")
================================================================================
