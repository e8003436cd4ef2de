----------------------------- MODULE MCControlFlow -----------------------------
(***************************************************************************)
(* Families of small programs for the statement executor.  Each run gives  *)
(* Programs one family, and TLC runs the interpreter on every program of   *)
(* it from every initial value of x.  The FOR loops count in i and j.      *)
(***************************************************************************)
EXTENDS ControlFlow

Blocks    == {"main", "none", "a", "b", "c"}
Variables == {"x", "i", "j"}

StartWith(S) == {[v \in Variables |-> IF v = "x" THEN n ELSE 0] : n \in S}
UpTo2 == StartWith(0..2)
UpTo3 == StartWith(0..3)

(* Constructors of statements.                                              *)
S(op)        == [op |-> op, cond |-> "true", to |-> <<NoTarget>>, n |-> 0,
                 what |-> "for", body |-> NoBlock, alt |-> NoBlock,
                 var |-> "x", limit |-> 0, step |-> 1]
Dec          == [S("let") EXCEPT !.cond = "pos"]
Set(n)       == [S("let") EXCEPT !.n = n]
Divide       == [S("let") EXCEPT !.cond = "div", !.n = 1]
If(c, b)     == [S("if") EXCEPT !.cond = c, !.body = b]
Select(n, b) == [S("select") EXCEPT !.n = n, !.body = b]
ForIn(v, n, l, s, b) ==
    [S("for") EXCEPT !.var = v, !.n = n, !.limit = l, !.step = s, !.body = b]
For(n, b)    == ForIn(IF b = "a" THEN "i" ELSE "j", 1, n, 1, b)
While(c, b)  == [S("while") EXCEPT !.cond = c, !.body = b]
DoPre(c, b)  == [S("do") EXCEPT !.cond = c, !.body = b, !.n = 1]
DoPost(c, b) == [S("do") EXCEPT !.cond = c, !.body = b]
Exit(w)      == [S("exit") EXCEPT !.what = w]
Jump(op, t)  == [S(op) EXCEPT !.to = <<t>>]
Branch(op, t, u) == [S(op) EXCEPT !.to = <<t, u>>]
Call(b)      == [S("call") EXCEPT !.body = b]
CallArg(b)   == [S("call") EXCEPT !.body = b, !.cond = "div"]
Fn(b)        == [S("let_fn") EXCEPT !.body = b]
FnArg(b)     == [S("let_fn") EXCEPT !.body = b, !.cond = "div"]
Narrow(s)    == [s EXCEPT !.cond = "narrow"]
Error(n)     == [S("error") EXCEPT !.n = n]

Program(main, a, b, c) ==
    [n \in Blocks |-> CASE n = "main" -> main
                        [] n = "a"    -> a
                        [] n = "b"    -> b
                        [] n = "c"    -> c
                        [] n = "none" -> <<>>]

LoopsOf(c, b) == {For(2, b), While(c, b), DoPre(c, b), DoPost(c, b)}
Choices(b)    == {If("pos", b), Select(1, b)}

--------------------------------------------------------------------------------
(* EXIT used as it is meant: of the innermost loop, from a loop in a loop   *)
(* and from an IF or SELECT CASE in a loop, and of a procedure from its own *)
(* body or a choice in it.  x bounds every WHILE and DO.                    *)

Bodies(w) == { <<Dec>>, <<Dec, Exit(w)>>, <<Exit(w), Dec>>, <<If("pos", "c"), Dec>> }

LoopPrograms ==
    UNION { { Program(<<o, Set(1)>>, <<i, Dec>>, b, <<Exit(i.op)>>) : b \in Bodies(i.op) } :
            o \in LoopsOf("pos", "a"), i \in LoopsOf("pos", "b") }
    \cup
    UNION { { Program(<<o, Dec>>, <<i, Dec>>, b, <<Exit(o.op)>>) : b \in Bodies(o.op) } :
            o \in LoopsOf("pos", "a"), i \in Choices("b") }
    \cup
    { Program(<<c, Dec>>, <<i, Dec>>, <<e, Dec>>, <<Dec>>) :
        c \in {Call("a")}, i \in Choices("b"), e \in {Exit("sub"), Exit("def")} }
    \cup
    { Program(<<c, Dec>>, <<i, Dec>>, <<e, Dec>>, <<Dec>>) :
        c \in {Fn("a")}, i \in Choices("b"), e \in {Exit("function"), Exit("def")} }

(* FOR loops that count down, that do not run, whose body assigns their own *)
(* variable, whose increment passes the largest INTEGER, and whose limit    *)
(* fails after the variable is assigned.                                    *)
ForPrograms ==
    { Program(<<f, Dec>>, a, <<Dec>>, <<Exit("for")>>) :
        f \in {ForIn("i", 2, 0, -1, "a"), ForIn("i", 2, 0, 1, "a"), ForIn("x", 0, 4, 2, "a"),
               ForIn("x", 6, 1, -1, "a"), ForIn("i", MAX_INTEGER - 1, MAX_INTEGER, 1, "a"),
               [ForIn("x", 0, 2, 1, "a") EXCEPT !.cond = "div"]},
        a \in {<<If("pos", "b")>>, <<For(2, "c"), Dec>>, <<Dec, If("pos", "c")>>} }

--------------------------------------------------------------------------------
(* Three statements that jump about, with at most one jump in a block and   *)
(* that one last.                                                           *)

Targets == {0, 2, NoTarget}
JumpStatements ==
    {Dec, S("return"), S("end"), If("pos", "a"), Branch("on_goto", 2, 0),
     Branch("on_gosub", 2, NoTarget)}
    \cup {Jump(op, t) : op \in {"goto", "gosub"}, t \in Targets}

JumpPrograms ==
    { Program(<<s, t, u>>, a, <<>>, <<>>) :
        s, t, u \in JumpStatements,
        a \in { <<Jump("gosub", 2)>>, <<Dec, Jump("goto", 0)>>, <<S("return")>> } }
    \cup      \* the jump two blocks or calls deep
    { Program(<<s, t, S("return")>>, <<Dec, q>>, b, <<>>) :
        s \in {Call("a"), Fn("a"), If("pos", "a")}, t \in {Dec, S("return")},
        q \in {If("pos", "b"), Select(1, "b"), Call("b")},
        b \in { <<Jump("gosub", 2)>>, <<Dec, Jump("gosub", 1)>>, <<S("return")>> } }

--------------------------------------------------------------------------------
(* Procedures that call themselves and each other, and a handler for what   *)
(* goes wrong at the top level around a call.                               *)

CallPrograms ==
    { Program(<<s, Call("a"), Dec>>, a, b, <<Dec, Exit("function"), Dec>>) :
        s \in {Dec, Call("a"), CallArg("a"), Narrow(Call("a")), Fn("c"), FnArg("c"),
               Narrow(Fn("c"))},
        a \in { <<Dec, If("pos", "b")>>, <<If("pos", "b"), Dec>> },
        b \in { <<Dec, Call("a")>>, <<Dec, Fn("c"), Call("a")>>, <<Dec, Fn("c")>>,
                <<S("end")>>, <<Call(NoBlock)>>, <<Jump("goto", 2)>> } }
    \cup
    { Program(<<s, Fn("a"), Dec>>, <<Dec, If("pos", "b")>>, b, <<Dec, Exit("sub"), Dec>>) :
        s \in {Fn("a"), FnArg("a"), Narrow(Fn("a"))},
        b \in { <<Dec, Fn("a")>>, <<Dec, Call("c"), Fn("a")>>, <<Exit("function")>>, <<S("end")>> } }
    \cup
    { Program(<<s, Call("a"), Dec>>, <<If("pos", "b"), Dec>>, <<Exit("sub")>>, <<>>) :
        s \in {Dec, CallArg("a")} }
    \cup
    { Program(<<Call("a"), Dec>>, <<DoPre("pos", "b"), Dec>>, b, <<Dec, Exit("function"), Dec>>) :
        b \in { <<Dec, Call("a")>>, <<Dec, Fn("c"), Call("a")>>, <<S("end")>>, <<Call(NoBlock)>> } }
    \cup
    { Program(<<Jump("on_error", 3), f, S("end"), S("resume_next")>>, <<Dec>>, <<Dec>>, <<Dec>>) :
        f \in {FnArg("a"), Fn("a"), Divide, Call(NoBlock)} }

StructuredPrograms == LoopPrograms \cup ForPrograms \cup CallPrograms

--------------------------------------------------------------------------------
(* Errors trapped at the top level: statement s, in or out of blocks, may   *)
(* fail; the handler at index 4 runs h and falls off the end.               *)

MayFail ==
    {Divide, Error(0), Error(5), S("return"), S("resume"), Jump("goto", NoTarget),
     Jump("gosub", NoTarget), [If("div", "a") EXCEPT !.alt = "b"], [ForIn("x", 0, 2, 1, "a") EXCEPT !.cond = "div"], ForIn("i", MAX_INTEGER, MAX_INTEGER, 1, "c"),
     While("div", "a"), DoPost("div", "a"), Call(NoBlock), FnArg("c")}

Resumes == {S("resume_next"), Jump("resume_label", 3), S("resume"), S("on_error_0"), S("end")}

TrapPrograms ==
    { Program(<<e, s, t, S("end"), h, r>>, a, <<Dec>>, <<Dec>>) :
        e \in {Jump("on_error", 4)}, s \in MayFail, t \in {Dec, Divide, S("on_error_0")},
        h \in {Dec, Set(1)}, r \in Resumes,
        a \in { <<Dec, Divide>>, <<Dec>> } }

--------------------------------------------------------------------------------
(* Errors inside blocks, procedures and the handler itself, trapped by a    *)
(* handler set at the top level; and, for the actions they alone reach,     *)
(* programs that change their handler inside a block.                       *)

NestedBlocks ==
    { <<Dec, Error(6)>>, <<Dec, Divide>>,
      <<Jump("on_error", 4), Divide>>, <<S("on_error_0"), Divide>>, <<S("clear"), Error(6)>> }

NestedPrograms ==
    { Program(<<Jump("on_error", 4), s, t, S("end"), h, Jump("resume_label", r)>>, a, <<>>, <<>>) :
        s \in {Dec, S("clear"), If("true", "a"), Call("a")},
        t \in {If("true", "a"), CallArg("a"), Fn("a")},
        h \in {Dec, Error(7)}, r \in {3, NoTarget}, a \in NestedBlocks }

(* An error of the handler, and trapped errors of calls: in a body, in the  *)
(* conversion of an argument, in an argument's value.                       *)
HandlerPrograms ==
    { Program(<<Jump("on_error", 3), s, S("end"), Dec, s, Jump("resume_label", 2)>>,
              <<Divide>>, <<>>, <<>>) : s \in {Divide, Error(5), Call("a")} }

TrappedCallPrograms ==
    { Program(<<Jump("on_error", 3), s, S("end"), S("resume_next")>>, a, <<Dec>>, <<>>) :
        s \in {Call("a"), Fn("a"), CallArg("a"), Narrow(Fn("a"))},
        a \in {<<Divide>>, <<Call("b"), Error(5)>>} }

(* An EXIT SUB or EXIT FUNCTION out of a loop.                              *)
ExitFromLoopPrograms ==
    { Program(<<Call("a"), Dec>>, <<l>>, <<Dec, Exit("sub")>>, <<>>) : l \in LoopsOf("true", "b") }
    \cup
    { Program(<<Fn("a"), Dec>>, <<l>>, <<Dec, Exit("function")>>, <<>>) : l \in LoopsOf("true", "b") }

JumpAndTrapPrograms == JumpPrograms \cup TrapPrograms \cup NestedPrograms

================================================================================
