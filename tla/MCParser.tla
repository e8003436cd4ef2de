-------------------------------- MODULE MCParser --------------------------------
(***************************************************************************)
(* Sources for Parser: programs as trees, the text each is written as, and *)
(* what must come of it.  Every construct is nested in every part of every *)
(* other one, written with one statement to a line or with colons.         *)
(***************************************************************************)
EXTENDS Parser

(* A statement as it is written: the node it should become, but that an IF  *)
(* on one line is a "line if".                                              *)
Block(kind, name, parts) == [kind |-> kind, name |-> name, parts |-> parts]
Statement(kind, name)    == Node(kind, name)

IsLabel(stmt) == stmt.kind \in {"label", "lineno"}
IsLoop(stmt)  == stmt.kind \in {"for", "while", "do"}

(* Constructs by the names of their parts.                                  *)
Loops == { Block(k, "", <<"body">>) : k \in {"for", "while"} }
         \cup { Block("do", n, <<"body">>) : n \in {"", "pre", "post"} }
Ifs   == { Block("if", "", p) :
             p \in { <<"then">>, <<"then", "else">>, <<"then", "elseif", "else">> } }
LineIfs == { Block("line if", "", p) : p \in { <<"then">>, <<"then", "else">> } }
Selects == { Block("select", "", p) : p \in { <<"head">>, <<"head", "case", "else">> } }
Procs   == { Block(k, "f", <<"body">>) : k \in {"sub", "function"} }
Constructs == Loops \cup Ifs \cup LineIfs \cup Selects

word(name) == Statement("word", name)

(* The construct with body in part k and a statement in each other part.    *)
Filled(c, k, body) ==
    [c EXCEPT !.parts = [j \in 1..Len(@) |->
        [part |-> @[j],
         body |-> IF j = k THEN body ELSE IF @[j] = "head" THEN <<>> ELSE <<word("other")>>]]]

Fillable(c) == { k \in 1..Len(c.parts) : c.parts[k] # "head" }

--------------------------------------------------------------------------------
(* Writing.  sep is the separator of the program; a single-line IF ends its *)
(* line all the same.                                                       *)
T(kind)    == << [kind |-> kind, name |-> ""] >>
N(kind, n) == << [kind |-> kind, name |-> n] >>
ExprThen   == T("expr") \o T("then")

After(stmt, sep) == IF IsLabel(stmt) THEN <<>>
                    ELSE T(IF stmt.kind = "line if" THEN "eol" ELSE sep)

RECURSIVE Text(_, _)
Lines(body, sep)  == FlattenSeq([i \in 1..Len(body) |-> Text(body[i], sep) \o After(body[i], sep)])
InLine(body)      == IF body = <<Statement("goto", "10")>> THEN N("int", "10")
                     ELSE FlattenSeq([i \in 1..Len(body) |->
                         (IF i = 1 THEN <<>> ELSE T("colon")) \o Text(body[i], "colon")])
PartText(p, sep)  ==
    CASE p.part = "head" -> <<>>
      [] p.part = "elseif" -> T("elseif") \o ExprThen \o T("eol") \o Lines(p.body, sep)
      [] p.part = "case" -> T("case") \o T("expr") \o T(sep) \o Lines(p.body, sep)
      [] p.part = "else" -> T("else") \o T(sep) \o Lines(p.body, sep)
      [] OTHER -> T(sep) \o Lines(p.body, sep)
Text(stmt, sep) ==
    LET Parts == FlattenSeq([i \in 1..Len(stmt.parts) |->
                     IF stmt.kind = "select" /\ stmt.parts[i].part = "else"
                     THEN T("case") \o PartText(stmt.parts[i], sep) ELSE PartText(stmt.parts[i], sep)])
    IN  CASE stmt.kind = "word"   -> N("word", stmt.name)
          [] stmt.kind = "label"  -> N("ident", stmt.name) \o T("colon")
          [] stmt.kind = "lineno" -> N("lineno", stmt.name)
          [] stmt.kind = "call"   -> N("ident", stmt.name) \o T("expr")
          [] stmt.kind = "end"    -> T("end")
          [] stmt.kind = "goto"   -> T("goto") \o N(IF stmt.name = "10" THEN "int" ELSE "ident", stmt.name)
          [] stmt.kind = "data"   -> T("data") \o (IF stmt.name = "" THEN <<>> ELSE N("int", stmt.name))
          [] stmt.kind = "dim"    -> T("dim") \o N("ident", stmt.name)
          [] stmt.kind = "if"     -> T("if") \o ExprThen \o Parts \o T("end") \o T("if")
          [] stmt.kind = "line if" ->
                T("if") \o ExprThen \o InLine(stmt.parts[1].body)
                \o (IF Len(stmt.parts) = 1 THEN <<>> ELSE T("else") \o InLine(stmt.parts[2].body))
          [] stmt.kind = "for"    -> T("for") \o T("expr") \o Parts \o T("next")
                                     \o (IF sep = "eol" THEN N("ident", "i") ELSE <<>>)
          [] stmt.kind = "while"  -> T("while") \o T("expr") \o Parts \o T("wend")
          [] stmt.kind = "do"     -> T("do") \o (IF stmt.name = "pre" THEN T("while") \o T("expr") ELSE <<>>)
                                     \o Parts \o T("loop")
                                     \o (IF stmt.name = "post" THEN T("until") \o T("expr") ELSE <<>>)
          [] stmt.kind = "select" -> T("select") \o T("case") \o T("expr") \o T("eol") \o Parts
                                     \o T("end") \o T("select")
          [] OTHER -> T(stmt.kind) \o N("ident", stmt.name) \o Parts \o T("end") \o T(stmt.kind)

Raw(program, sep) ==
    LET text == Lines(program, sep) IN
    IF program = <<>> THEN T("eol")
    ELSE IF IsLabel(Last(program)) THEN text \o T("eol") ELSE Front(text) \o T("eol")

--------------------------------------------------------------------------------
(* What it should come to.                                                  *)

RECURSIVE NodeOf(_), Within(_)
NodeOf(stmt) ==
    [kind |-> CASE stmt.kind = "line if" -> "if" [] stmt.kind = "lineno" -> "label" [] OTHER -> stmt.kind,
     name |-> stmt.name,
     parts |-> [i \in 1..Len(stmt.parts) |->
                   [part |-> stmt.parts[i].part,
                    body |-> [j \in 1..Len(stmt.parts[i].body) |-> NodeOf(stmt.parts[i].body[j])]]]]

(* stmt and the statements in it, as they are written.                      *)
Within(stmt) ==
    <<stmt>> \o FlattenSeq([i \in 1..Len(stmt.parts) |->
        FlattenSeq([j \in 1..Len(stmt.parts[i].body) |-> Within(stmt.parts[i].body[j])])])

(* The names of the statements of one of kinds with the index of the        *)
(* statement of the program they are in.                                    *)
Indexed(program, kinds) ==
    FlattenSeq([i \in 1..Len(program) |->
        LET found == SelectSeq(Within(program[i]), LAMBDA s : s.kind \in kinds)
        IN  [j \in 1..Len(found) |-> <<found[j].name, i - 1>>]])

Means(program, result) ==
    LET data == Indexed(program, {"data"}) IN
    [status     |-> result,
     statements |-> [i \in 1..Len(program) |-> NodeOf(program[i])],
     labels     |-> Indexed(program, {"label"}),
     line_map   |-> Indexed(program, {"lineno"}),
     procedures |-> Indexed(program, {"sub", "function"}),
     data       |-> [i \in 1..Len(data) |-> data[i][1]]]

Written(program, sep) == [raw |-> Raw(program, sep), means |-> Means(program, "done")]

--------------------------------------------------------------------------------
(* The programs.  Labels and line numbers begin a line; a block is not      *)
(* inside a single-line IF, a loop may be; nothing follows a single-line IF *)
(* inside another one, whose ELSE would be the inner one's.                 *)

Leaves == { <<>>, <<word("p"), word("q")>>, <<Statement("call", "f"), word("p")>>,
            <<Statement("goto", "10")>>, <<word("p"), Statement("goto", "a")>> }
LabelLeaves == { <<Statement("label", "b"), word("p")>>, <<word("p"), Statement("label", "b")>>,
                 <<Statement("lineno", "20"), word("p")>> }

MayHold(outer, k, inner) ==
    outer.kind = "line if" =>
        \/ IsLoop(inner)
        \/ inner.kind = "line if" /\ (k = Len(outer.parts) \/ Len(inner.parts) = 2)

(* outer holds inner, which holds leaf.                                     *)
Nested(outer, k, inner, l, leaf) ==
    LET core == Filled(inner, l, leaf)
    IN  Filled(outer, k, IF outer.kind = "line if" /\ core.kind = "line if" THEN <<word("p"), core>>
                         ELSE <<word("p"), core, word("q")>>)

Legal(outer, inner, leaf, sep) ==
    /\ leaf = <<>> => inner.kind # "line if"
    /\ leaf \in LabelLeaves => sep = "eol" /\ outer.kind # "line if" /\ inner.kind # "line if"

Nestings(sep) ==
    UNION { { Nested(outer, k, inner, l, leaf) :
                k \in { k \in Fillable(outer) : MayHold(outer, k, inner) }, l \in Fillable(inner),
                leaf \in { leaf \in Leaves \cup LabelLeaves : Legal(outer, inner, leaf, sep) } }
            : outer \in Constructs \cup Procs, inner \in Constructs }

Around(stmt) == << Statement("label", "a"), Statement("dim", "v"), Statement("data", "1"), stmt,
                   Statement("lineno", "10"), Statement("data", "2"), Statement("end", "") >>

(* A part that the grammar asks for is missing at i.                        *)
Missing(raw, i) ==
    \/ raw[i].kind \in {"expr", "then", "next", "wend", "loop"}
    \/ /\ i > 1
       /\ \/ raw[i - 1].kind = "select" /\ raw[i].kind = "case"
          \/ raw[i - 1].kind \in {"dim", "goto", "sub", "function"} /\ raw[i].kind = "ident"
          \/ raw[i - 1].kind = "end" /\ raw[i].kind \in {"if", "select", "sub", "function"}

Broken(program) ==
    LET raw == Raw(program, "eol")
    IN  { [raw |-> RemoveAt(raw, i), means |-> Means(program, "error")] :
            i \in { i \in 1..Len(raw) : Missing(raw, i) } }

Simple == { << Filled(c, k, <<Statement("goto", "a")>>), Statement("dim", "v") >> :
              c \in Constructs \cup Procs, k \in 1..3 }

(* END alone, in a body that END alone does not end.                         *)
Stops == { Filled(c, 1, << Statement("end", ""), word("p") >>) : c \in Loops \cup Procs }

MCSources ==
    { Written(Around(stmt), "eol") : stmt \in Nestings("eol") }
    \cup { Written(<<stmt, word("r")>>, "colon") : stmt \in Nestings("colon") }
    \cup { Written(<<>>, "eol"), Written(<<word("p"), Statement("lineno", "10")>>, "eol") }
    \cup { Written(<<Statement("data", ""), word("p")>>, sep) : sep \in Separators }
    \cup { Written(<<stmt>>, "eol") : stmt \in Stops }
    \cup UNION { Broken(program) : program \in Simple }

================================================================================
