-------------------------------- MODULE Lexer --------------------------------
(***************************************************************************)
(* lexer.c: characters into tokens.  lexer_tokenize goes round a loop that *)
(* looks at the character under pos and, with at_line_start and the last   *)
(* token as its only memory, lets one of the scan_ functions take a token; *)
(* then it passes over the tokens once more to find the labels.            *)
(*                                                                         *)
(* A source is a sequence of characters.  Letters have one case, as every  *)
(* comparison in lexer.c ignores it.  A token keeps its kind, line and     *)
(* text (value) and, for the properties, its first character and the one   *)
(* after its last; keywords are one kind.  Left out: columns, the values   *)
(* of numbers (only the type that their digits give them), and the lengths *)
(* of the buffers (256 for names and numbers, 32767 for strings).          *)
(*                                                                         *)
(* Definitions ending in Mutant are plausible slips, used to test the      *)
(* properties.                                                             *)
(***************************************************************************)
EXTENDS Naturals, Sequences, SequencesExt, FiniteSetsExt, TLC

CONSTANTS
    Sources,    \* records: chars, a sequence of characters, and the tokens it is
                \* written from, or Unclaimed where nothing is said of them
    Keywords    \* the words of the table keywords[]

Unclaimed == <<>>
Rem == <<"R", "E", "M">>

ASSUME KeywordsOK == Rem \in Keywords

VARIABLES
    source,         \* the source that is read
    pos,            \* index of the next character
    line,           \* number of the line it is on
    at_line_start,  \* no token since the end of the last line, strings apart
    tokens,         \* what lexer_emit has appended
    phase,          \* "scan", "labels" or "done"
    i               \* the token the pass over the labels is at

vars == <<source, pos, line, at_line_start, tokens, phase, i>>

--------------------------------------------------------------------------------
(* Characters.                                                              *)

Digit    == {"0", "1", "2", "3", "4", "5", "6", "7", "8", "9"}
OctDigit == Digit \ {"8", "9"}
HexDigit == Digit \cup {"A", "B", "C", "D", "E", "F"}
Letter   == {"A", "B", "C", "D", "E", "F", "G", "H", "I", "J", "K", "L", "M", "N",
             "O", "P", "Q", "R", "S", "T", "U", "V", "W", "X", "Y", "Z"}
WordChar == Letter \cup Digit \cup {"_"}
Blank    == {" ", "\t"}
LF       == "\n"
CR       == "\r"
LineEnd  == {CR, LF}
Quote    == "\""
End      == "end of source"

Chars == source.chars

(* lexer_peek and lexer_peek_ahead.                                         *)
At(p) == IF p <= Len(Chars) THEN Chars[p] ELSE End

(* The loops over characters: the first index from p on whose character is  *)
(* not of a class, or is one of those looked for.                           *)
RunEnd(p, class)   == Min({q \in p..(Len(Chars) + 1) : At(q) \notin class})
FirstFrom(p, stop) == Min({q \in p..(Len(Chars) + 1) : At(q) \in stop})

(* CR LF is one end of line.                                                *)
AfterLineEnd(p) ==
    CASE At(p) = CR /\ At(p + 1) = LF -> p + 2
      [] At(p) \in LineEnd            -> p + 1
      [] OTHER                        -> p

Text(from, next) == SubSeq(Chars, from, next - 1)

(* make_token and lexer_emit.                                               *)
Token(kind, value, next) ==
    [kind |-> kind, value |-> value, line |-> line, from |-> pos, next |-> next]
Emit(kind, value, next) ==
    /\ tokens' = Append(tokens, Token(kind, value, next))
    /\ pos' = next

--------------------------------------------------------------------------------
(* The lexemes, as the scan_ functions find their ends.                     *)

(* check_line_continuation: _ with nothing but blanks after it.             *)
Continued(p) == At(p) = "_" /\ At(RunEnd(p + 1, Blank)) \in LineEnd \cup {End}
AfterContinuation(p) == RunEnd(AfterLineEnd(RunEnd(p + 1, Blank)), Blank)

(* The closing quote is skipped also where the source ended before it.      *)
StringFromMutant(p) ==
    LET scan[q \in Nat] ==
            CASE At(q) = End   -> [value |-> <<>>, next |-> q + 1]
              [] At(q) = Quote /\ At(q + 1) # Quote -> [value |-> <<>>, next |-> q + 1]
              [] OTHER -> LET rest == scan[IF At(q) = Quote THEN q + 2 ELSE q + 1]
                          IN  [rest EXCEPT !.value = <<At(q)>> \o @]
    IN  scan[p + 1]

(* scan_string: a doubled quote stands for one and does not end the literal. *)
(* Line ends do not either.                                                 *)
StringFrom(p) ==
    LET scan[q \in Nat] ==
            CASE At(q) = End   -> [value |-> <<>>, next |-> q]
              [] At(q) = Quote /\ At(q + 1) # Quote -> [value |-> <<>>, next |-> q + 1]
              [] OTHER -> LET rest == scan[IF At(q) = Quote THEN q + 2 ELSE q + 1]
                          IN  [rest EXCEPT !.value = <<At(q)>> \o @]
    IN  scan[p + 1]

(* scan_number: digits, one point if what follows makes it a decimal one,   *)
(* one exponent with its sign.                                              *)
Exponent == {"E", "D"}
NumberEnd(p) ==
    LET scan[q \in Nat, dot, exp \in BOOLEAN] ==
            CASE At(q) \in Digit -> scan[q + 1, dot, exp]
              [] At(q) = "." /\ ~dot /\ ~exp /\ At(q + 1) \in Digit \cup Exponent \cup {"#", "!"}
                     -> scan[q + 1, TRUE, exp]
              [] At(q) \in Exponent /\ ~exp
                     -> scan[IF At(q + 1) \in {"+", "-"} THEN q + 2 ELSE q + 1, dot, TRUE]
              [] OTHER -> q
    IN  scan[p, FALSE, FALSE]

(* The type a literal's suffix gives it.                                    *)
SuffixKind == [c \in {"%", "&", "!", "#"} |->
    CASE c = "%" -> "INTEGER" [] c = "&" -> "LONG" [] c = "!" -> "SINGLE" [] c = "#" -> "DOUBLE"]

(* Comparison of a number without leading zeros with a bound, by digits.    *)
Significant(t) ==
    LET nonzero == {j \in 1..Len(t) : t[j] # "0"}
    IN  IF nonzero = {} THEN <<>> ELSE SubSeq(t, Min(nonzero), Len(t))
DigitValue == [c \in Digit |-> CHOOSE n \in 0..9 : ToString(n) = c]
AtMost(t, bound) ==
    LET d == Significant(t)
    IN  \/ Len(d) < Len(bound)
        \/ /\ Len(d) = Len(bound)
           /\ \/ d = bound
              \/ \E j \in 1..Len(d) : /\ DigitValue[d[j]] < DigitValue[bound[j]]
                                      /\ \A h \in 1..(j - 1) : d[h] = bound[h]
MaxInteger == <<"3", "2", "7", "6", "7">>
MaxLong    == <<"2", "1", "4", "7", "4", "8", "3", "6", "4", "7">>

NumberKind(t) ==
    CASE Contains(t, "D") -> "DOUBLE"
      [] Contains(t, ".") \/ Contains(t, "E") -> "SINGLE"
      [] AtMost(t, MaxInteger) -> "INTEGER"
      [] AtMost(t, MaxLong) -> "LONG"
      [] OTHER -> "SINGLE"

Operators == {"+", "-", "*", "/", "\\", "^", "(", ")", ",", ";", ":", ".", "#", "=", "<", ">"}
TwoCharacters == {<<"<", ">">>, <<"<", "=">>, <<">", "=">>}

--------------------------------------------------------------------------------
(* lexer_init.                                                              *)
Init ==
    /\ source \in Sources
    /\ pos = 1 /\ line = 1 /\ at_line_start = TRUE
    /\ tokens = <<>> /\ phase = "scan" /\ i = 1

(* A turn of the loop of lexer_tokenize.                                    *)
Turn == phase = "scan" /\ At(pos) # End /\ UNCHANGED <<source, phase, i>>

SkipContinuation ==
    /\ Turn /\ Continued(pos)
    /\ pos' = AfterContinuation(pos) /\ line' = line + 1
    /\ UNCHANGED <<tokens, at_line_start>>

SkipWhitespace ==
    /\ Turn /\ At(pos) \in Blank
    /\ pos' = RunEnd(pos, Blank)
    /\ UNCHANGED <<tokens, line, at_line_start>>

(* Empty lines leave no EOL of their own.                                   *)
NeedsEol == tokens = <<>> \/ Last(tokens).kind # "EOL"
Newline ==
    /\ Turn /\ At(pos) \in LineEnd
    /\ LET next == AfterLineEnd(pos)
       IN  IF NeedsEol THEN Emit("EOL", <<>>, next) ELSE pos' = next /\ UNCHANGED tokens
    /\ line' = line + 1 /\ at_line_start' = TRUE

(* lexer_scan_token; a string leaves at_line_start as it was.               *)
ScanToken == Turn /\ ~Continued(pos) /\ UNCHANGED line

ScanString ==
    /\ ScanToken /\ At(pos) = Quote
    /\ Emit("STRING", StringFrom(pos).value, StringFrom(pos).next)
    /\ UNCHANGED at_line_start

ScanMore == ScanToken /\ at_line_start' = FALSE

(* What follows the digits is not looked at, so nothing is rewound.         *)
IsLineNumberMutant(p) == at_line_start /\ At(p) \in Digit

(* The first number of a line, if nothing is glued to it.                   *)
IsLineNumber(p) ==
    /\ at_line_start /\ At(p) \in Digit
    /\ At(RunEnd(p, Digit)) \in Blank \cup LineEnd \cup {":", End}

LineNumber ==
    /\ ScanMore /\ IsLineNumber(pos)
    /\ Emit("LINENO", Text(pos, RunEnd(pos, Digit)), RunEnd(pos, Digit))

StartsNumber(p) == At(p) \in Digit \/ (At(p) = "." /\ At(p + 1) \in Digit)

ScanNumber ==
    /\ ScanMore /\ StartsNumber(pos) /\ ~IsLineNumber(pos)
    /\ LET e == NumberEnd(pos)
           t == Text(pos, e)
       IN  IF At(e) \in DOMAIN SuffixKind THEN Emit(SuffixKind[At(e)], t, e + 1)
                                          ELSE Emit(NumberKind(t), t, e)

(* scan_hex and scan_octal: without a suffix an INTEGER up to &HFFFF and    *)
(* &O77777, by the number of significant digits.                            *)
ScanBased(class, from, widest) ==
    LET e == RunEnd(from, class)
        t == Text(from, e)
    IN  IF At(e) \in {"&", "%"} THEN Emit(SuffixKind[At(e)], t, e + 1)
        ELSE Emit(IF Len(Significant(t)) <= widest THEN "INTEGER" ELSE "LONG", t, e)

ScanHex ==
    /\ ScanMore /\ At(pos) = "&" /\ At(pos + 1) = "H"
    /\ ScanBased(HexDigit, pos + 2, 4)

ScanOctal ==
    /\ ScanMore /\ At(pos) = "&" /\ At(pos + 1) \in OctDigit \cup {"O"}
    /\ ScanBased(OctDigit, IF At(pos + 1) = "O" THEN pos + 2 ELSE pos + 1, 5)

SkipComment ==
    /\ ScanMore /\ At(pos) = "'"
    /\ Emit("REM", <<>>, FirstFrom(pos, LineEnd \cup {End}))

(* scan_identifier: with $ the keywords that end in it come first; any      *)
(* other suffix makes a variable of every word, a keyword too.              *)
IdentKind == [c \in {"$", "%", "&", "!", "#"} |->
    CASE c = "$" -> "IDENT_STR" [] c = "%" -> "IDENT_INT" [] c = "&" -> "IDENT_LONG"
      [] c = "!" -> "IDENT_SINGLE" [] c = "#" -> "IDENT_DOUBLE"]

ScanIdentifier ==
    /\ ScanMore /\ At(pos) \in Letter \cup {"_"}
    /\ LET e == RunEnd(pos, WordChar)
           t == Text(pos, e)
       IN  CASE At(e) = "$" /\ Append(t, "$") \in Keywords
                                       -> Emit("KEYWORD", Append(t, "$"), e + 1)
             [] At(e) \in DOMAIN IdentKind -> Emit(IdentKind[At(e)], t, e + 1)
             [] t = Rem                -> Emit("REM", t, FirstFrom(e, LineEnd \cup {End}))
             [] OTHER                  -> Emit(IF t \in Keywords THEN "KEYWORD" ELSE "IDENT", t, e)

(* $INCLUDE.                                                                *)
ScanDollar ==
    /\ ScanMore /\ At(pos) = "$" /\ At(pos + 1) \in Letter
    /\ LET e == RunEnd(pos + 1, Letter)
           t == Text(pos, e)
       IN  Emit(IF t \in Keywords THEN "KEYWORD" ELSE "IDENT", t, e)

ScanOperator ==
    /\ ScanMore /\ At(pos) \in Operators /\ ~StartsNumber(pos)
    /\ LET next == IF <<At(pos), At(pos + 1)>> \in TwoCharacters THEN pos + 2 ELSE pos + 1
       IN  Emit("OPERATOR", Text(pos, next), next)

(* Any other character is passed over without a word.                       *)
Unknown(p) ==
    \/ At(p) \notin WordChar \cup Blank \cup LineEnd \cup Operators \cup {Quote, "'", "&", "$"}
    \/ At(p) = "&" /\ At(p + 1) \notin OctDigit \cup {"H", "O"}
    \/ At(p) = "$" /\ At(p + 1) \notin Letter

SkipCharacter ==
    /\ ScanMore /\ Unknown(pos)
    /\ pos' = pos + 1 /\ UNCHANGED tokens

EndOfSource ==
    /\ phase = "scan" /\ At(pos) = End
    /\ tokens' = tokens \o (IF tokens # <<>> /\ NeedsEol THEN <<Token("EOL", <<>>, pos)>> ELSE <<>>)
                        \o <<Token("EOF", <<>>, pos)>>
    /\ phase' = "labels"
    /\ UNCHANGED <<source, pos, line, at_line_start, i>>

IsColon(t) == t.kind = "OPERATOR" /\ t.value = <<":">>

(* No label is looked for after a line number.                              *)
OpensMutant(t) == t.kind = "EOL" \/ IsColon(t)

(* The post-pass: an identifier with a colon after it, first in its         *)
(* statement, is a label and takes its colon with it.                       *)
Opens(t) == t.kind \in {"EOL", "LINENO"} \/ IsColon(t)
IsLabel(j) ==
    /\ tokens[j].kind = "IDENT" /\ IsColon(tokens[j + 1])
    /\ j > 1 => Opens(tokens[j - 1])

Labelled(j) == [RemoveAt(tokens, j + 1) EXCEPT ![j].kind = "LABEL"]

FindLabel ==
    /\ phase = "labels" /\ i < Len(tokens)
    /\ tokens' = IF IsLabel(i) THEN Labelled(i) ELSE tokens
    /\ i' = i + 1
    /\ UNCHANGED <<source, pos, line, at_line_start, phase>>

Return ==
    /\ phase = "labels" /\ i >= Len(tokens)
    /\ phase' = "done"
    /\ UNCHANGED <<source, pos, line, at_line_start, tokens, i>>

Done == phase = "done" /\ UNCHANGED vars

Next ==
    \/ SkipContinuation \/ SkipWhitespace \/ Newline \/ ScanString \/ LineNumber \/ ScanNumber
    \/ ScanHex \/ ScanOctal \/ SkipComment \/ ScanIdentifier \/ ScanDollar \/ ScanOperator
    \/ SkipCharacter \/ EndOfSource \/ FindLabel \/ Return \/ Done

Spec == Init /\ [][Next]_vars

--------------------------------------------------------------------------------
(* Properties.                                                              *)

Kinds ==
    {"STRING", "LINENO", "INTEGER", "LONG", "SINGLE", "DOUBLE", "REM", "KEYWORD", "IDENT",
     "IDENT_STR", "IDENT_INT", "IDENT_LONG", "IDENT_SINGLE", "IDENT_DOUBLE", "LABEL",
     "OPERATOR", "EOL", "EOF"}

TypeOK ==
    /\ pos \in 1..(Len(Chars) + 1) /\ line \in 1..(Len(Chars) + 2)
    /\ at_line_start \in BOOLEAN
    /\ \A j \in 1..Len(tokens) : /\ tokens[j].kind \in Kinds
                                 /\ tokens[j].value \in Seq(STRING)
                                 /\ tokens[j].from \in 1..tokens[j].next
                                 /\ tokens[j].next <= pos
    /\ phase \in {"scan", "labels", "done"}
    /\ i \in 1..(Len(tokens) + 1)

(* The lexemes of the language, each as the set of its texts and without a  *)
(* scan: a number is digits, a point with digits, an exponent and a suffix, *)
(* of which only the one or the other may be missing.                       *)
All(t, m, n, class) == \A j \in m..n : t[j] \in class

NumberText(t) ==
    /\ t[1] \in Digit \cup {"."}
    /\ All(t, 2, Len(t), Digit \cup Exponent \cup DOMAIN SuffixKind \cup {".", "+", "-"})
    /\ \E a \in 0..Len(t), b \in 0..Len(t), c \in 0..Len(t) :
           /\ a <= b /\ b <= c /\ a + b > 0
           /\ All(t, 1, a, Digit)
           /\ a < b => /\ t[a + 1] = "." /\ All(t, a + 2, b, Digit)
                       /\ \/ b > a + 1
                          \/ a > 0 /\ b < Len(t) /\ t[b + 1] \in Exponent \cup {"#", "!"}
           /\ b < c => /\ t[b + 1] \in Exponent
                       /\ LET s == IF b + 1 < c /\ t[b + 2] \in {"+", "-"} THEN 1 ELSE 0
                          IN  All(t, b + 2 + s, c, Digit)
           /\ Len(t) <= c + 1 /\ All(t, c + 1, Len(t), DOMAIN SuffixKind)

(* Digits to a base, with the & or % that fixes their type.                 *)
BasedText(t) ==
    \E n \in {Len(t) - 1, Len(t)} :
        /\ All(t, n + 1, Len(t), {"&", "%"}) /\ n >= 2 /\ t[1] = "&"
        /\ \/ t[2] = "H" /\ All(t, 3, n, HexDigit)
           \/ t[2] \in OctDigit \cup {"O"} /\ All(t, 3, n, OctDigit)

WordText(t) ==
    /\ t[1] \in Letter \cup {"_"} /\ All(t, 2, Len(t) - 1, WordChar)
    /\ t[Len(t)] \in WordChar \cup DOMAIN IdentKind

(* Quotes inside a string come in pairs.                                    *)
StringText(t) ==
    LET Quotes(n) == Cardinality({j \in 2..n : t[j] = Quote})
    IN  /\ t[1] = Quote
        /\ \A n \in 2..Len(t) : t[n] = Quote /\ Quotes(n) % 2 = 1 => n = Len(t) \/ t[n + 1] = Quote

CommentText(t) ==
    /\ All(t, 1, Len(t), STRING \ LineEnd)
    /\ \/ t[1] = "'"
       \/ /\ IsPrefix(Rem, t)
          /\ Len(t) > 3 => t[4] \notin WordChar \cup DOMAIN IdentKind

Lexeme(t) ==
    /\ t # <<>>
    /\ \/ NumberText(t) \/ BasedText(t) \/ WordText(t) \/ StringText(t) \/ CommentText(t)
       \/ t[1] = "$" /\ Len(t) > 1 /\ All(t, 2, Len(t), Letter)
       \/ t \in {<<c>> : c \in Operators} \cup TwoCharacters

(* The last token, where it is made of characters, is the longest lexeme    *)
(* that starts where it starts.                                             *)
LongestLexeme(t) ==
    t.kind \notin {"EOL", "EOF"} =>
        /\ Lexeme(Text(t.from, t.next))
        /\ \A q \in (t.next + 1)..(Len(Chars) + 1) : ~Lexeme(Text(t.from, q))

(* Between one token and the next are only blanks, continuations, ends of   *)
(* lines that were empty, and characters that start no lexeme.              *)
NothingLost(from, next, afterEol) ==
    \A p \in from..(next - 1) :
        \/ Chars[p] \in Blank
        \/ Chars[p] \in LineEnd /\ afterEol
        \/ \E u \in from..p : /\ Continued(u)
                             /\ p < AfterContinuation(u)
        \/ \A q \in (p + 1)..(Len(Chars) + 1) : ~Lexeme(Text(p, q))

(* A token's line is one more than the ends of lines before it, those in    *)
(* string literals left out.                                                *)
LinesBefore(p) ==
    Cardinality({q \in 1..(p - 1) :
        /\ Chars[q] \in LineEnd
        /\ ~(q > 1 /\ Chars[q] = LF /\ Chars[q - 1] = CR)
        /\ \A j \in 1..Len(tokens) :
               tokens[j].kind = "STRING" => q \notin tokens[j].from..(tokens[j].next - 1)})

(* While the source is scanned no character is lost, split or counted to    *)
(* the wrong line: each token is the longest lexeme of what is left, all    *)
(* that lies between is filling, and errors are reported at its line        *)
(* (lexer_tokenize and all scan_ functions).                                *)
Tokenized ==
    phase = "scan" /\ tokens # <<>> =>
        LET t == Last(tokens)
            n == Len(tokens) - 1
        IN  /\ LongestLexeme(t)
            /\ IF n = 0 THEN NothingLost(1, t.from, FALSE)
                        ELSE NothingLost(tokens[n].next, t.from, tokens[n].kind = "EOL")
            /\ t.line = LinesBefore(t.from) + 1

(* A program means the same however it is laid out: with more blanks,       *)
(* continued lines, empty lines and either end of line its tokens are those *)
(* it was written from, labels and line numbers at the start of statements. *)
TokensAsWritten ==
    phase = "done" /\ source.written # Unclaimed =>
        [j \in 1..Len(tokens) |-> <<tokens[j].kind, tokens[j].value>>] = source.written

================================================================================
