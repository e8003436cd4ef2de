------------------------------ MODULE MCExpressions ------------------------------
(* Expressions over small numbers: INTEGER has 4 bits, LONG 8 and SINGLE 6.  *)
EXTENDS Expressions

Literals == [two |-> Integer(2), three |-> Integer(3), zero |-> Integer(0),
             most |-> Integer(IntMax), half |-> Num("SINGLE", <<5, 2>>),
             long |-> Long(20), far |-> Long(LongMax), text |-> String(1)]
Variables == [least |-> Integer(IntMin), lowest |-> Long(LongMin), deep |-> Integer(-7),
              real |-> Num("DOUBLE", <<-5, 2>>), low |-> Long(-100), odd |-> Long(101)]
Leaves == {Lit(l) : l \in DOMAIN Literals} \cup {Var(n) : n \in DOMAIN Variables \cup {"new"}}

Two   == Lit("two")
Three == Lit("three")
Zeros == Lit("zero")

(* One operator of each level, and all of them.                             *)
OnePerLevel == {"IMP", "EQV", "XOR", "OR", "AND", "=", "<", "-", "+", "MOD", "\\", "*", "/"}
AllOps      == RelationalOps \cup LogicalOps \cup {"+", "-", "*", "/", "\\", "MOD", "^"}

(* The shapes of two and of three operators in a row.                       *)
InARow2(o, p, a, b, c) == {Bin(p, Bin(o, a, b), c), Bin(o, a, Bin(p, b, c))}
InARow3(o, p, q, a, b, c, d) ==
    {Bin(q, l, d) : l \in InARow2(o, p, a, b, c)}
    \cup {Bin(o, a, r) : r \in InARow2(p, q, b, c, d)}
    \cup {Bin(p, Bin(o, a, b), Bin(q, c, d))}

Rows3 == UNION {InARow3(o, p, q, Three, Lit("most"), Two, Two) :
                    o \in OnePerLevel, p \in OnePerLevel, q \in {"^", "\\", "MOD", "<", "AND", "EQV"}}
Powers == UNION {InARow2(o, "^", a, b, c) \cup InARow2("^", o, a, b, c) \cup {Bin("^", a, Un("-", b))} :
                    o \in AllOps, a \in {Three, Var("deep")}, b \in {Two}, c \in {Two, Zeros}}
Typed == UNION {InARow2(o, p, a, b, c) :
                    o \in {"+", "*", "\\", "/"}, p \in {"-", "MOD", "<", "AND"},
                    a \in {Lit("far"), Lit("half"), Var("least"), Var("deep"), Lit("text")},
                    b \in {Lit("most"), Var("deep"), Lit("long")}, c \in {Three, Var("low")}}
Pairs == {Bin(o, a, b) : o \in AllOps \ {"^"}, a \in Leaves, b \in Leaves}

(* Signs, NOT, parentheses and the builtin functions around these.          *)
Wrapped(e) == {Paren(e), Un("-", Paren(e)), Un("NOT", Paren(e)), Un("-", Un("NOT", Paren(e)))}
              \cup {Func(f, <<e>>) : f \in {"ABS", "INT", "FIX", "SGN", "CINT", "CLNG", "CSNG", "CDBL"}}
Signs  == UNION {Wrapped(e) : e \in Leaves \cup {Bin("/", a, Two) : a \in Leaves}}
          \cup {Un(u, a) : u \in {"-", "NOT"}, a \in Leaves}
          \cup {Bin(o, Un(u, a), Un(v, b)) : o \in OnePerLevel, u, v \in {"-", "NOT"},
                                             a \in {Two, Var("least")}, b \in {Three, Var("real")}}

(* Calls of FUNCTIONs and elements of arrays, in each other.                *)
Name1(e) == {Access(n, <<e>>) : n \in {"inc", "val", "arr", "auto"}}
Simple   == {Two, Var("real"), Lit("half"), Bin("+", Two, Three), Lit("text"), Var("new"), Lit("most")}
Nest1    == UNION {Name1(e) : e \in Simple}
Nest2    == UNION {Name1(e) \cup Name1(Paren(e)) \cup Name1(Bin("+", e, Two)) : e \in Nest1}
Nest3    == UNION {Name1(e) : e \in Nest2}
Nested   == Nest1 \cup Nest2 \cup Nest3
            \cup {Bin(o, a, b) : o \in {"-", "\\"}, a \in Nest1, b \in Nest1 \cup {Var("real")}}
            \cup {Access("new", <<Two>>),
                  Access("arr", <<Two, Two>>), Access("auto", <<Two, Three>>), Access("inc", <<>>),
                  Access("real", <<Two>>), Func("ABS", <<>>), Access("arr", <<Var("low")>>)}

Written == {t \in Rows3 \cup Powers \cup Typed \cup Pairs \cup Signs \cup Nested : Respects(t)}

(* What is not an expression: a token too few, too many or in the wrong     *)
(* place.                                                                   *)
Malformed ==
    LET op == Tok("op", "*")  num == Tok("lit", "two")
        open == Tok("(", "")  close == Tok(")", "")  name == Tok("name", "arr")
        comma == Tok(",", "")
    IN  {<<op, num>>, <<num, op>>, <<num, num>>, <<num, op, op, num>>, <<open, num>>,
         <<num, close>>, <<open, close>>, <<name, open, num>>, <<name, open, num, comma, close>>,
         <<name, open, comma, num, close>>, <<open, num, comma, num, close>>, <<comma>>,
         <<name, open, num, num, close>>, <<num, op, open, num, op, close>>, <<close>>}

Sentence(t) == [tokens |-> Yield(t) \o <<End>>, written |-> t]
Source == {Sentence(t) : t \in Written}
          \cup {[tokens |-> m \o <<End>>, written |-> NoTree] : m \in Malformed \cup {<<>>}}

(* Texts whose reading is not that of the tables: NOT before a comparison,  *)
(* a sign before a power.                                                   *)
NotRelational == {Sentence(Un("NOT", Bin(o, a, b))) : o \in RelationalOps, a, b \in {Two, Three}}
MinusPower    == {Sentence(Un("-", Bin("^", a, b))) : a, b \in {Two, Three}}

(* A LONG that has a digit more than a SINGLE, and a SINGLE.               *)
LongAndSingle == {Sentence(Bin(o, Var("odd"), Lit("half"))) : o \in AllOps \ {"^"}}

(* The conversion to SINGLE against its definition: no SINGLE is nearer.    *)
SingleRange == -6..8
Singles     == {IF e >= 0 THEN <<m * 2^e, 1>> ELSE <<m, 2^(-e)>> : m \in -63..63, e \in SingleRange}
OffBy(r, q) == Magnitude(Minus(r, q))
Tried       == {<<n, d>> : n \in {-129, -127, -3, 0, 1, 65, 66, 67, 127, 251},
                           d \in {1, 3, 7}}

ASSUME SingleIsNearest ==
    \A q \in Tried :
        LET r == ToSingle(q)  off == OffBy(r, q)
        IN  /\ \E s \in Singles : SameValue(s, r)
            /\ \A s \in Singles : ~Less(OffBy(s, q), off)

(* What the target makes of a conversion that is out of range.             *)
Least32 == -(2^(LongBits - 1))

FunctionNames == {"inc", "val"}
ValueFunction == {"val"}
Dimensioned   == {"arr"}
================================================================================
