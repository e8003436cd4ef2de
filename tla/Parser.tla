--------------------------------- MODULE Parser ---------------------------------
(***************************************************************************)
(* The parser: from the tokens of a source to the statements, labels, line *)
(* numbers, procedures and DATA pool that the interpreter runs.            *)
(*                                                                         *)
(* The recursive descent is a stack of the constructs that are being read, *)
(* the program at its bottom.  A step is one call of parse_statement with  *)
(* the separator its caller then looks for, or the end of one part of a    *)
(* construct.  An expression is one token, and so is a simple statement.   *)
(***************************************************************************)
EXTENDS Integers, Sequences, SequencesExt, FiniteSetsExt

CONSTANT Sources    \* [raw, means]: tokens, and what should become of them

VARIABLES
    source,      \* the source that is parsed
    tokens,      \* what the lexer made of it
    pos,         \* the next token
    open,        \* the constructs being read, innermost last
    labels,      \* labels: <<name, statement index>>, in order
    line_map,    \* line numbers, likewise
    procedures,  \* names of SUBs and FUNCTIONs, likewise
    data_pool,   \* the items of the DATA statements
    status       \* parsing, done, or stopped by a syntax error

parserVars == <<source, tokens, pos, open, labels, line_map, procedures, data_pool, status>>
tables == <<labels, line_map, procedures, data_pool>>

Separators == {"eol", "colon"}
Keywords   == {"if", "then", "elseif", "else", "end", "for", "next", "while", "wend", "do",
               "until", "loop", "select", "case", "sub", "function", "dim", "data", "goto"}
TokenKinds == Separators \cup Keywords
              \cup {"ident", "int", "lineno", "label", "expr", "comma", "word"}

(* The lexer knows no labels until its last pass.                           *)
ASSUME SourcesOK ==
    \A src \in Sources : src.raw \in Seq([kind : TokenKinds \ {"label"}, name : STRING])

(* A construct while it is read.  part names the part being read, parts     *)
(* holds those before it; more is FALSE once a statement of a single-line   *)
(* IF was not followed by a colon.                                          *)
Frame(kind, name, part, parts, body, more) ==
    [kind |-> kind, name |-> name, part |-> part, parts |-> parts, body |-> body, more |-> more]

First(kind, name, part) == Frame(kind, name, part, <<>>, <<>>, TRUE)

Node(kind, name)  == [kind |-> kind, name |-> name, parts |-> <<>>]
Part(f)           == [part |-> f.part, body |-> f.body]
Finished(f, name) == [kind |-> IF f.kind = "line if" THEN "if" ELSE f.kind,
                      name |-> name, parts |-> Append(f.parts, Part(f))]

--------------------------------------------------------------------------------
(* Names ending in "Mutant" are wrong variants of the definition that       *)
(* follows them, each with one plausible bug; nothing in Spec uses them.    *)

(* The lexer's last pass: an identifier at the start of a statement and     *)
(* before a colon is a label, and its colon goes.  done is what the tokens  *)
(* before i have become; the colon of a label no longer separates.          *)
Relabelled(done, raw, i) ==
    LET last == IF done = <<>> THEN "eol" ELSE Last(done).kind
    IN  IF last = "label" /\ raw[i - 1].kind = "ident" THEN done
        ELSE IF /\ last \in Separators \cup {"lineno"}
                /\ raw[i].kind = "ident" /\ i < Len(raw) /\ raw[i + 1].kind = "colon"
        THEN Append(done, [raw[i] EXCEPT !.kind = "label"])
        ELSE Append(done, raw[i])

Labelled(raw) ==
    LET Pass[i \in 0..Len(raw)] == IF i = 0 THEN <<>> ELSE Relabelled(Pass[i - 1], raw, i)
    IN  Pass[Len(raw)]

Init ==
    /\ source \in Sources
    /\ tokens = Labelled(source.raw)
    /\ pos = 1
    /\ open = << First("program", "", "body") >>
    /\ labels = <<>> /\ line_map = <<>> /\ procedures = <<>> /\ data_pool = <<>>
    /\ status = "parsing"

Kind(i)    == IF i <= Len(tokens) THEN tokens[i].kind ELSE "eof"
Name(i)    == tokens[i].name
SkipEol(i) == IF Kind(i) = "eol" THEN i + 1 ELSE i    \* the lexer never emits two

Top        == Last(open)
statements == open[1].body          \* prog->statements
AtEndOfStatement(i) == Kind(i) \in Separators \cup {"eof"}

SyntaxError == status' = "error" /\ UNCHANGED <<source, tokens, pos, open, tables>>

(* To the frame at the end of stack goes what parse_statement returned, a   *)
(* node or nothing; then the separator at i.  The program registers         *)
(* procedures and collects DATA from its own statements only.               *)
Deliver(stack, result, i) ==
    LET f == Last(stack)
        new == Frame(f.kind, f.name, f.part, f.parts, f.body \o result, Kind(i) = "colon")
        top == Len(stack) = 1 /\ result # <<>>
    IN
    /\ open' = Append(Front(stack), new)
    /\ pos' = IF Kind(i) = "colon" THEN i + 1 ELSE IF f.kind = "line if" THEN i ELSE SkipEol(i)
    /\ procedures' = IF top /\ result[1].kind \in {"sub", "function"}
                     THEN Append(procedures, <<result[1].name, Len(f.body)>>) ELSE procedures
    /\ data_pool' = IF top /\ result[1].kind = "data"
                    THEN Append(data_pool, result[1].name) ELSE data_pool
    /\ UNCHANGED <<source, tokens, status>>

(* A construct begins; its first part starts at i.                          *)
Begin(frame, i) ==
    /\ open' = Append(open, frame) /\ pos' = i
    /\ UNCHANGED <<source, tokens, tables, status>>

(* The part being read ends and the part named part starts at i, with what  *)
(* body already holds: the GOTO of a line number after ELSE, which nothing  *)
(* may follow.                                                              *)
NextPartMutant(part, body, i) ==    \* the body is not reset
    /\ open' = Append(Front(open), Frame(Top.kind, Top.name, part, Append(Top.parts, Part(Top)),
                                         Top.body \o body, body = <<>>))
    /\ pos' = i
    /\ UNCHANGED <<source, tokens, tables, status>>

NextPart(part, body, i) ==
    /\ open' = Append(Front(open), Frame(Top.kind, Top.name, part, Append(Top.parts, Part(Top)),
                                         body, body = <<>>))
    /\ pos' = i
    /\ UNCHANGED <<source, tokens, tables, status>>

(* The construct on top ends as name; the next token is at i.               *)
Finish(name, i) ==
    /\ Deliver(Front(open), << Finished(Top, name) >>, i)
    /\ UNCHANGED <<labels, line_map>>

--------------------------------------------------------------------------------
(* parse_statement.  s is the token it starts with, blank lines skipped.    *)

Return(result, i) == Deliver(open, result, i) /\ UNCHANGED <<labels, line_map>>

(* The index that the next statement of the program will have, even while   *)
(* the statement being read is inside another one.                          *)
StmtCount == Len(statements)

LineNumberMutant(s) ==    \* a line number alone is no statement
    /\ Kind(s) = "lineno"
    /\ line_map' = Append(line_map, <<Name(s), StmtCount>>) /\ UNCHANGED labels
    /\ Deliver(open, <<>>, s + 1)

LineNumber(s) ==
    /\ Kind(s) = "lineno"
    /\ line_map' = Append(line_map, <<Name(s), StmtCount>>) /\ UNCHANGED labels
    /\ Deliver(open, <<Node("label", Name(s))>>, s + 1)

LabelDef(s) ==
    /\ Kind(s) = "label"
    /\ labels' = Append(labels, <<Name(s), StmtCount>>) /\ UNCHANGED line_map
    /\ Deliver(open, <<Node("label", Name(s))>>, s + 1)

(* PRINT, an assignment and every other statement on its own.               *)
Word(s) == Kind(s) = "word" /\ Return(<<Node("word", Name(s))>>, s + 1)

(* A name alone, or with arguments: a SUB is called.                        *)
CallStatement(s) ==
    /\ Kind(s) = "ident"
    /\ Return(<<Node("call", Name(s))>>, IF Kind(s + 1) = "expr" THEN s + 2 ELSE s + 1)

Goto(s) ==
    /\ Kind(s) = "goto"
    /\ IF Kind(s + 1) \in {"int", "ident"} THEN Return(<<Node("goto", Name(s + 1))>>, s + 2)
       ELSE SyntaxError

(* Where there is no item the item is an empty string.                      *)
Data(s) ==
    /\ Kind(s) = "data"
    /\ IF AtEndOfStatement(s + 1) THEN Return(<<Node("data", "")>>, s + 1)
       ELSE Return(<<Node("data", Name(s + 1))>>, s + 2)

(* DIM and CONST become statements of the program, wherever they are.       *)
Dim(s) ==
    /\ Kind(s) = "dim"
    /\ IF Kind(s + 1) # "ident" THEN SyntaxError
       ELSE LET program == [open[1] EXCEPT !.body = Append(@, Node("dim", Name(s + 1)))]
            IN  Deliver(<<program>> \o Tail(open), <<>>, s + 2) /\ UNCHANGED <<labels, line_map>>

(* END alone ends the program; END IF and the like are left for the         *)
(* construct they end, which stays where it is.                             *)
EndStatement(s) ==
    /\ Kind(s) = "end"
    /\ IF Kind(s + 1) \in {"if", "select", "sub", "function"} THEN Return(<<>>, s)
       ELSE Return(<<Node("end", "")>>, s + 1)

(* A token that starts no statement is passed over in silence.              *)
SkipToken(s) ==
    /\ Kind(s) \in {"colon", "then", "elseif", "else", "next", "wend", "until", "loop",
                    "case", "int", "expr", "comma"}
    /\ Return(<<>>, s + 1)

EndOfFileMutant(s) == Kind(s) = "eof" /\ Return(<<>>, s + 1)    \* advances past the end

EndOfFile(s) == Kind(s) = "eof" /\ Return(<<>>, s)

(* IF: a block when THEN ends the line, else a single line, whose THEN may  *)
(* be followed by a line number for GOTO.                                   *)
BeginIf(s) ==
    /\ Kind(s) = "if"
    /\ IF ~(Kind(s + 1) = "expr" /\ Kind(s + 2) = "then") THEN SyntaxError
       ELSE IF AtEndOfStatement(s + 3)
       THEN Begin(First("if", "", "then"), SkipEol(IF Kind(s + 3) = "colon" THEN s + 4 ELSE s + 3))
       ELSE IF Kind(s + 3) = "int"
       THEN Begin(Frame("line if", "", "then", <<>>, <<Node("goto", Name(s + 3))>>, FALSE), s + 4)
       ELSE Begin(First("line if", "", "then"), s + 3)

BeginLoop(s) ==
    \/ /\ Kind(s) \in {"for", "while"}
       /\ IF Kind(s + 1) # "expr" THEN SyntaxError
          ELSE Begin(First(Kind(s), "", "body"), SkipEol(s + 2))
    \/ /\ Kind(s) = "do"
       /\ IF Kind(s + 1) \notin {"while", "until"}
          THEN Begin(First("do", "", "body"), SkipEol(s + 1))
          ELSE IF Kind(s + 2) # "expr" THEN SyntaxError
          ELSE Begin(First("do", "pre", "body"), SkipEol(s + 3))

BeginSelect(s) ==
    /\ Kind(s) = "select"
    /\ IF ~(Kind(s + 1) = "case" /\ Kind(s + 2) = "expr") THEN SyntaxError
       ELSE Begin(First("select", "", "head"), SkipEol(s + 3))

BeginProcedure(s) ==
    /\ Kind(s) \in {"sub", "function"}
    /\ IF Kind(s + 1) # "ident" THEN SyntaxError
       ELSE Begin(First(Kind(s), Name(s + 1), "body"), SkipEol(s + 2))

--------------------------------------------------------------------------------
(* The loops that call parse_statement, each until a token of its own.      *)

PartEndsMutant ==     \* END ends a procedure whatever follows it
    \/ Kind(pos) = "eof"
    \/ Top.kind = "if" /\ (Kind(pos) = "end" \/ (Top.part # "else" /\ Kind(pos) \in {"elseif", "else"}))
    \/ Top.kind = "for" /\ Kind(pos) = "next"
    \/ Top.kind = "while" /\ Kind(pos) = "wend"
    \/ Top.kind = "do" /\ Kind(pos) = "loop"
    \/ Top.kind = "select" /\ (Top.part = "head" \/ Kind(pos) \in {"case", "end"})
    \/ Top.kind \in {"sub", "function"} /\ Kind(pos) = "end"
    \/ Top.kind = "line if" /\ \/ ~Top.more \/ AtEndOfStatement(pos)
                               \/ Top.part = "then" /\ Kind(pos) = "else"

PartEnds ==
    \/ Kind(pos) = "eof"
    \/ Top.kind = "if" /\ (Kind(pos) = "end" \/ (Top.part # "else" /\ Kind(pos) \in {"elseif", "else"}))
    \/ Top.kind = "for" /\ Kind(pos) = "next"
    \/ Top.kind = "while" /\ Kind(pos) = "wend"
    \/ Top.kind = "do" /\ Kind(pos) = "loop"
    \/ Top.kind = "select" /\ (Top.part = "head" \/ Kind(pos) \in {"case", "end"})
    \/ Top.kind \in {"sub", "function"} /\ Kind(pos) = "end" /\ Kind(pos + 1) = Top.kind
    \/ Top.kind = "line if" /\ \/ ~Top.more \/ AtEndOfStatement(pos)
                               \/ Top.part = "then" /\ Kind(pos) = "else"

ParseStatement ==
    /\ status = "parsing" /\ ~PartEnds
    /\ LET s == SkipEol(pos) IN
          \/ LineNumber(s) \/ LabelDef(s) \/ Word(s) \/ CallStatement(s) \/ Goto(s)
          \/ Data(s) \/ Dim(s) \/ EndStatement(s) \/ SkipToken(s) \/ EndOfFile(s)
          \/ BeginIf(s) \/ BeginLoop(s) \/ BeginSelect(s) \/ BeginProcedure(s)

(* expect(END), expect(k).                                                  *)
FinishWithEnd(k, name) ==
    IF Kind(pos) = "end" /\ Kind(pos + 1) = k THEN Finish(name, pos + 2) ELSE SyntaxError

EndIfPart ==
    /\ Top.kind = "if"
    /\ IF Kind(pos) = "elseif"
       THEN IF Kind(pos + 1) = "expr" /\ Kind(pos + 2) = "then"
            THEN NextPart("elseif", <<>>, SkipEol(pos + 3))
            ELSE SyntaxError
       ELSE IF Kind(pos) = "else" THEN NextPart("else", <<>>, SkipEol(pos + 1))
       ELSE FinishWithEnd("if", "")

EndLineIfPart ==
    /\ Top.kind = "line if"
    /\ IF Top.part = "then" /\ Kind(pos) = "else"
       THEN IF Kind(pos + 1) = "int"
            THEN NextPart("else", <<Node("goto", Name(pos + 1))>>, pos + 2)
            ELSE NextPart("else", <<>>, pos + 1)
       ELSE Finish("", pos)

(* NEXT may name variables; however many it names, one FOR ends.            *)
AfterNames(i) ==
    IF Kind(i) # "ident" THEN i
    ELSE Min({ j \in (i + 1)..(Len(tokens) + 1) :
                  ~(Kind(j) = "comma" \/ (Kind(j) = "ident" /\ Kind(j - 1) = "comma")) })

EndFor ==
    /\ Top.kind = "for"
    /\ IF Kind(pos) = "next" THEN Finish("", AfterNames(pos + 1)) ELSE SyntaxError

EndWhile ==
    /\ Top.kind = "while"
    /\ IF Kind(pos) = "wend" THEN Finish("", pos + 1) ELSE SyntaxError

EndDo ==
    /\ Top.kind = "do"
    /\ IF Kind(pos) # "loop" THEN SyntaxError
       ELSE IF ~(Top.name = "" /\ Kind(pos + 1) \in {"while", "until"}) THEN Finish(Top.name, pos + 1)
       ELSE IF Kind(pos + 2) = "expr" THEN Finish("post", pos + 3)
       ELSE SyntaxError

EndCase ==
    /\ Top.kind = "select"
    /\ IF Kind(pos) # "case" THEN FinishWithEnd("select", "")
       ELSE IF Kind(pos + 1) \in {"else", "expr"}
       THEN NextPart(IF Kind(pos + 1) = "else" THEN "else" ELSE "case", <<>>, SkipEol(pos + 2))
       ELSE SyntaxError

EndProcedure ==
    /\ Top.kind \in {"sub", "function"}
    /\ FinishWithEnd(Top.kind, Top.name)

EndProgram ==
    /\ Top.kind = "program"
    /\ status' = "done" /\ UNCHANGED <<source, tokens, pos, open, tables>>

EndPart ==
    /\ status = "parsing" /\ PartEnds
    /\ \/ EndIfPart \/ EndLineIfPart \/ EndFor \/ EndWhile \/ EndDo \/ EndCase
       \/ EndProcedure \/ EndProgram

(* The program runs, or the process has exited.                             *)
Parsed == status # "parsing" /\ UNCHANGED parserVars

Next == ParseStatement \/ EndPart \/ Parsed

Spec == Init /\ [][Next]_parserVars /\ WF_parserVars(Next)

--------------------------------------------------------------------------------
(* Properties.                                                              *)

TypeOK ==
    /\ \A i \in 1..Len(tokens) : tokens[i].kind \in TokenKinds
    /\ pos \in 1..(Len(tokens) + 1)
    /\ open # <<>> /\ open[1].kind = "program"
    /\ \A i \in 2..Len(open) : open[i].kind # "program"
    /\ status \in {"parsing", "done", "error"}

(* The parser decides: a program that is written as the language asks is    *)
(* read to its end and one with a construct that lacks a part is refused;   *)
(* parse_statement, which passes over what it does not know and leaves END  *)
(* where it is, never turns for ever.                                       *)
Decided == <>(status = source.means.status)

(* Every statement is where it was written: each construct has its own      *)
(* parts, an ELSE belongs to the innermost IF before it, nothing is lost    *)
(* and nothing moves into or out of a body.                                 *)
StatementsAsWritten == status = "done" => statements = source.means.statements

(* A jump to a label or line number goes to the statement of the program    *)
(* that it stands before or in, also when the body it is in is still open   *)
(* when it is registered.                                                   *)
LabelsAsWritten ==
    status = "done" => labels = source.means.labels /\ line_map = source.means.line_map

(* READ finds the items of all DATA statements in the order of the source,  *)
(* and calls find every procedure.                                          *)
TablesAsWritten ==
    status = "done" => data_pool = source.means.data /\ procedures = source.means.procedures

(* What the parser makes of a source is the program that was written.       *)
ProgramAsWritten == StatementsAsWritten /\ LabelsAsWritten /\ TablesAsWritten

(* Every label, line number and procedure that can be looked up is that of  *)
(* a statement of the program, also one at the very end of the source or in *)
(* a body that was still open when it was registered: what ControlFlow      *)
(* assumes of the targets of jumps.                                         *)
JumpTargetsExist ==
    status = "done" =>
        \A table \in {labels, line_map, procedures} :
            \A j \in 1..Len(table) : table[j][2] \in 0..(StmtCount - 1)

================================================================================
