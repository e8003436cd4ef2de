------------------------------- MODULE MCPrintUsing -------------------------------
(* All short formats over two thirds of the special characters, and longer  *)
(* ones that put their parts together.  The arrays of the engine are as     *)
(* small as that some numbers and some fields do not fit them.              *)
EXTENDS PrintUsing

Alphabet == {"#", ".", ",", "+", "-", "$", "*", "!", "\\", "_", "x"}
Shortest == UNION {[1..n -> Alphabet] : n \in 0..2}
Short    == Shortest \cup {<<a, b, c>> : a \in {"#", "\\"}, b, c \in Alphabet}

Fixed    == {<<"#">>, <<"#", "#", ",", "#">>, <<"#", ".", "#">>}
Joined(fixed) ==
    {a \o b \o c \o d :
        a \in {<<>>, <<"+">>}, b \in {<<>>, <<"*", "*", "$">>},
        c \in fixed, d \in {Carets, <<"-">>, <<"&", "x", "!">>}}

MCChar       == Alphabet \cup {"^", "&", " ", "%", "9", "E", "0", "a", "b", "c", "nul", "newline"}
MCFormats    == Short \cup Joined(Fixed)
MCValueLists == {<<>>, <<Number(TRUE, 1), Str(<<"a", "b", Nul, "c">>), Number(FALSE, 4)>>,
                 <<Number(FALSE, 6), Number(TRUE, 3)>>}
================================================================================
