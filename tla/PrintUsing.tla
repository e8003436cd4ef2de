-------------------------------- MODULE PrintUsing --------------------------------
(***************************************************************************)
(* PRINT USING: exec_print_using_stmt and the format engine of             *)
(* print_using.c.  The engine walks the format string again and again: it  *)
(* copies literal characters, and at every field it shows the next value,  *)
(* until the values are used up; the rest of the format is then copied as  *)
(* it is, fields included.                                                 *)
(*                                                                         *)
(* A character is a string of length one.  A number is its sign and how    *)
(* many digits it has before the decimal point, once rounded; every digit  *)
(* is written "9".  A string value is a sequence of characters, which ends *)
(* for the engine at a NUL, as the format does.  The engine exists twice,  *)
(* with putchar and with a buffer for PRINT #n; the two differ in nothing  *)
(* but where the characters go.                                            *)
(***************************************************************************)
EXTENDS Integers, SequencesExt, FiniteSetsExt

CONSTANTS
    Char,         \* the characters there are
    Formats,      \* format strings
    ValueLists,   \* what is printed: sequences of values
    NumberSize,   \* the characters of num_str and its NUL (64 in the build)
    FieldSize,    \* those of field[] (128)
    MaxPasses     \* bound: walks of the format

Comma == ","  Underscore == "_"  Space == " "  Nul == "nul"

Number(neg, d) == [kind |-> "number", neg |-> neg, digits |-> d, text |-> <<>>]
Str(t)         == [kind |-> "string", neg |-> FALSE, digits |-> 1, text |-> t]

Value == [kind : {"number", "string"}, neg : BOOLEAN, digits : Nat \ {0}, text : Seq(Char)]

ASSUME FormatsOK ==
    /\ {"+", "-", "$", "*", "#", Comma, ".", "^", "!", "&", "\\", Underscore} \subseteq Char
    /\ {Space, "%", "0", "9", "E", "newline"} \subseteq Char
    /\ Formats \subseteq Seq(Char) /\ ValueLists \subseteq Seq(Value)
    /\ NumberSize \in Nat \ {0, 1} /\ FieldSize \in Nat \ {0, 1}
    /\ MaxPasses \in Nat

VARIABLES
    device,    \* the console or an open file, or a file that is closed
    format,    \* what the format expression gives, a string or not
    fmt, values,
    semicolon, \* the statement ends with a ; or a comma; nobody looks
    fpos,      \* the position in fmt, from 1
    vi,        \* values shown
    passes,    \* walks of fmt begun
    phase,     \* statement, outer, inner, rest, done, overrun, or the error
    out        \* what is shown: [value, text], value 0 for a literal

vars == <<device, format, fmt, values, semicolon, fpos, vi, passes, phase, out>>
given == <<device, format, fmt, values, semicolon>>

Init ==
    /\ device \in {"ready", "closed"}
    /\ format \in {"string", "number"}
    /\ fmt \in Formats /\ values \in ValueLists
    /\ semicolon \in BOOLEAN
    /\ fpos = 1 /\ vi = 0 /\ passes = 0
    /\ phase = "statement"
    /\ out = <<>>

--------------------------------------------------------------------------------
(* Names ending in "Mutant" are wrong variants of the definition that       *)
(* follows them, each with one plausible bug; nothing in Spec uses them.    *)

At(f, p, s)   == p + Len(s) - 1 <= Len(f) /\ SubSeq(f, p, p + Len(s) - 1) = s
Past(f, p, s) == IF At(f, p, s) THEN p + Len(s) ELSE p
Skip(f, p, c) == Min({q \in p..(Len(f) + 1) : q = Len(f) + 1 \/ f[q] # c})
Times(n, c)   == [i \in 1..Max({0, n}) |-> c]

Carets == <<"^", "^", "^", "^">>

PartMutant(f) ==   \* digits behind a comma are left
    [k \in 1..9 |-> [p \in 1..(Len(f) + 1) |->
       CASE k = 1 -> Past(f, p, <<"+">>)
         [] k = 2 -> Past(f, p, <<"$", "$">>)
         [] k = 3 -> IF At(f, p, <<"*", "*", "$">>) THEN p + 3 ELSE Past(f, p, <<"*", "*">>)
         [] k = 4 -> Skip(f, p, "#")
         [] k = 5 -> Skip(f, p, Comma)
         [] k = 6 -> p
         [] k = 7 -> IF At(f, p, <<".">>) THEN Skip(f, p + 1, "#") ELSE p
         [] k = 8 -> Past(f, p, Carets)
         [] k = 9 -> IF At(f, p, <<"+">>) THEN p + 1 ELSE Past(f, p, <<"-">>)]]

(* The parts a numeric field may have, in their order: where the kth part   *)
(* ends if it begins at p.  A part that is not there ends where it begins.  *)
Part(f) ==
    [k \in 1..9 |-> [p \in 1..(Len(f) + 1) |->
       CASE k = 1 -> Past(f, p, <<"+">>)
         [] k = 2 -> Past(f, p, <<"$", "$">>)
         [] k = 3 -> IF At(f, p, <<"*", "*", "$">>) THEN p + 3 ELSE Past(f, p, <<"*", "*">>)
         [] k = 4 -> Skip(f, p, "#")
         [] k = 5 -> Skip(f, p, Comma)
         [] k = 6 -> Skip(f, p, "#")
         [] k = 7 -> IF At(f, p, <<".">>) THEN Skip(f, p + 1, "#") ELSE p
         [] k = 8 -> Past(f, p, Carets)
         [] k = 9 -> IF At(f, p, <<"+">>) THEN p + 1 ELSE Past(f, p, <<"-">>)]]

(* scan_numeric_spec: length 0 if no numeric field begins at p.             *)
ScanNumeric(f, p) ==
    LET part == Part(f)
        end[k \in 0..9] == IF k = 0 THEN p ELSE part[k][end[k - 1]]
        digits == (end[4] - end[3]) + (end[6] - end[5])
    IN  [length   |-> IF digits = 0 /\ end[3] = p THEN 0 ELSE end[9] - p,
         before   |-> digits,
         after    |-> IF end[7] > end[6] THEN end[7] - end[6] - 1 ELSE 0,
         plus     |-> end[1] > p,
         dollar   |-> end[2] > end[1] \/ end[3] - end[2] = 3,
         star     |-> end[3] > end[2],
         comma    |-> end[5] > end[4],
         dot      |-> end[7] > end[6],
         exponent |-> end[8] > end[7],
         plusEnd  |-> end[9] > end[8] /\ f[end[8]] = "+",
         minusEnd |-> end[9] > end[8] /\ f[end[8]] = "-"]

(* scan_string_spec: the length of a string field at p and its width, -1    *)
(* for the whole string.  A \ without its partner is no field.              *)
ScanString(f, p) ==
    LET close == {q \in (p + 1)..Len(f) : f[q] = "\\"} IN
    CASE f[p] = "!" -> [length |-> 1, width |-> 1]
      [] f[p] = "&" -> [length |-> 1, width |-> -1]
      [] f[p] = "\\" /\ close # {} ->
            [length |-> Min(close) - p + 1, width |-> Min(close) - p + 1]
      [] OTHER -> [length |-> 0, width |-> 0]

--------------------------------------------------------------------------------
(* format_number and format_string_val.                                     *)

One(b) == IF b THEN 1 ELSE 0
Put(b, c) == IF b THEN <<c>> ELSE <<>>

(* What snprintf leaves of t in an array of size characters.                *)
Cut(t, size) == IF Len(t) < size THEN t ELSE SubSeq(t, 1, size - 1)

(* A comma before every third digit from the right.                         *)
Grouped(n, commas) ==
    LET length == n + (IF commas THEN (n - 1) \div 3 ELSE 0)
    IN  [i \in 1..length |-> IF commas /\ (length - i + 1) % 4 = 0 THEN Comma ELSE "9"]

(* Scientific: %.*E in a width that counts the field's # and point.         *)
Scientific(s, v) ==
    LET total     == IF s.before + s.after < 1 THEN 1 ELSE s.before + s.after
        precision == total - 1 + s.after
        mantissa  == <<"9">> \o (IF precision > 0 THEN <<".">> \o Times(precision, "9")
                                 ELSE <<>>)
        number    == Cut(mantissa \o <<"E", "+", "9", "9">>, NumberSize)
        pad       == s.before + One(s.dot) + s.after + 5 - Len(number)
        sign      == IF v.neg THEN "-" ELSE IF s.plus \/ s.plusEnd THEN "+" ELSE Space
    IN  <<sign>> \o Cut(Times(pad, Space) \o number, FieldSize - 1)

PadMutant(s, v, digits) ==    \* the minus sign is not counted
    s.before + One(s.dollar) + One(s.plus) - Len(digits) - One(s.plus) - One(s.dollar)

(* What is left of the field's positions before the point; < 0: overflow.   *)
Pad(s, v, digits) ==
    s.before + One(s.dollar) + One(s.plus) - Len(digits) - One(v.neg \/ s.plus)
    - One(s.dollar)

(* num_str: the digits and decimals that are left of the number.            *)
Whole(v) == IF v.digits < NumberSize THEN v.digits ELSE NumberSize - 1
Decimals(s, v) ==
    LET room == NumberSize - 2 - v.digits
    IN  IF s.after <= room THEN s.after ELSE IF room > 0 THEN room ELSE 0

(* The decimals that num_str has not got are filled up with 0.              *)
Fraction(s, v) ==
    IF s.dot THEN <<".">> \o (Times(Decimals(s, v), "9") \o Times(s.after - Decimals(s, v), "0"))
    ELSE <<>>

FormatNumber(s, v) ==
    LET digits == Grouped(Whole(v), s.comma)
        pad    == Pad(s, v, digits)
        sign   == IF v.neg THEN <<"-">> ELSE Put(s.plus, "+")
        end    == IF s.plusEnd THEN <<IF v.neg THEN "-" ELSE "+">>
                  ELSE Put(s.minusEnd, IF v.neg THEN "-" ELSE Space)
    IN  IF s.exponent THEN Scientific(s, v)
        ELSE Put(pad < 0, "%") \o Times(pad, IF s.star THEN "*" ELSE Space) \o sign
             \o Put(s.dollar, "$") \o digits \o Fraction(s, v) \o end

(* The text fits field[], which nobody checks; the % is put elsewhere.      *)
FieldFits(s, v) ==
    LET t == FormatNumber(s, v)
    IN  s.exponent \/ Len(t) < FieldSize \/ (Len(t) = FieldSize /\ t[1] = "%")

CString(t) ==
    IF Nul \in ToSet(t) THEN SubSeq(t, 1, Min({i \in 1..Len(t) : t[i] = Nul}) - 1) ELSE t

(* The first width characters, filled up with blanks.  A number is printed  *)
(* in a string field as the empty string.                                   *)
FormatString(width, t) ==
    LET c == CString(t) IN
    IF width = -1 THEN c
    ELSE [i \in 1..width |-> IF i <= Len(c) THEN c[i] ELSE Space]

Shown(i, t) == [value |-> i, text |-> t]
Literal(c)  == Shown(0, <<c>>)

--------------------------------------------------------------------------------
(* The statement and the loops of exec_print_using.                         *)

(* The file has to be open and the format a string; the file comes first.   *)
Start ==
    /\ phase = "statement"
    /\ phase' = CASE device = "closed"   -> "badFileNumber"
                  [] device = "ready" /\ format = "number" -> "typeMismatch"
                  [] OTHER -> "outer"
    /\ UNCHANGED <<given, fpos, vi, passes, out>>

RecycleMutant ==      \* the first character is not recycled
    /\ phase = "outer" /\ vi < Len(values)
    /\ fpos > Len(fmt) => passes < MaxPasses
    /\ IF fpos > Len(fmt) THEN fpos' = 2 /\ passes' = passes + 1
       ELSE UNCHANGED <<fpos, passes>>
    /\ phase' = "inner"
    /\ UNCHANGED <<given, vi, out>>

RecycleNeverMutant ==       \* the position is not reset
    /\ phase = "outer" /\ vi < Len(values)
    /\ phase' = "inner"
    /\ UNCHANGED <<given, fpos, vi, passes, out>>

(* The head of the outer loop: at the end of the format, from the start.    *)
Recycle ==
    /\ phase = "outer" /\ vi < Len(values)
    /\ fpos > Len(fmt) => passes < MaxPasses
    /\ IF fpos > Len(fmt) THEN fpos' = 1 /\ passes' = passes + 1
       ELSE UNCHANGED <<fpos, passes>>
    /\ phase' = "inner"
    /\ UNCHANGED <<given, vi, out>>

ValuesShown ==
    /\ phase = "outer" /\ vi = Len(values)
    /\ phase' = "rest"
    /\ UNCHANGED <<given, fpos, vi, passes, out>>

FormatEnds ==
    /\ phase = "inner" /\ fpos > Len(fmt)
    /\ phase' = "outer"
    /\ UNCHANGED <<given, fpos, vi, passes, out>>

EscapedMutant == fmt[fpos] = Underscore /\ fpos + 1 < Len(fmt)

Escaped   == fmt[fpos] = Underscore /\ fpos < Len(fmt)
NumericAt == ScanNumeric(fmt, fpos)
StringAt  == ScanString(fmt, fpos)

(* In both loops an underscore makes the next character a literal.          *)
Escape ==
    /\ phase \in {"inner", "rest"} /\ fpos <= Len(fmt) /\ Escaped
    /\ out' = Append(out, Literal(fmt[fpos + 1]))
    /\ fpos' = fpos + 2
    /\ UNCHANGED <<given, vi, passes, phase>>

NumericField ==
    /\ phase = "inner" /\ fpos <= Len(fmt) /\ ~Escaped
    /\ NumericAt.length > 0 /\ FieldFits(NumericAt, values[vi + 1])
    /\ out' = Append(out, Shown(vi + 1, FormatNumber(NumericAt, values[vi + 1])))
    /\ vi' = vi + 1
    /\ fpos' = fpos + NumericAt.length
    /\ phase' = "outer"
    /\ UNCHANGED <<given, passes>>

(* A field that does not fit is written past the end of field[]; what the   *)
(* program does from there on is not defined.                               *)
Overrun ==
    /\ phase = "inner" /\ fpos <= Len(fmt) /\ ~Escaped
    /\ NumericAt.length > 0 /\ ~FieldFits(NumericAt, values[vi + 1])
    /\ phase' = "overrun"
    /\ UNCHANGED <<given, fpos, vi, passes, out>>

StringField ==
    /\ phase = "inner" /\ fpos <= Len(fmt) /\ ~Escaped
    /\ NumericAt.length = 0 /\ StringAt.length > 0
    /\ out' = Append(out, Shown(vi + 1, FormatString(StringAt.width, values[vi + 1].text)))
    /\ vi' = vi + 1
    /\ fpos' = fpos + StringAt.length
    /\ phase' = "outer"
    /\ UNCHANGED <<given, passes>>

LiteralChar ==
    /\ phase = "inner" /\ fpos <= Len(fmt) /\ ~Escaped
    /\ NumericAt.length = 0 /\ StringAt.length = 0
    /\ out' = Append(out, Literal(fmt[fpos]))
    /\ fpos' = fpos + 1
    /\ UNCHANGED <<given, vi, passes, phase>>

(* Behind the last value every character is a literal.                      *)
RestChar ==
    /\ phase = "rest" /\ fpos <= Len(fmt) /\ ~Escaped
    /\ out' = Append(out, Literal(fmt[fpos]))
    /\ fpos' = fpos + 1
    /\ UNCHANGED <<given, vi, passes, phase>>

(* The line is always ended.                                                *)
Newline ==
    /\ phase = "rest" /\ fpos > Len(fmt)
    /\ phase' = "done"
    /\ out' = Append(out, Literal("newline"))
    /\ UNCHANGED <<given, fpos, vi, passes>>

Next ==
    \/ Start \/ Recycle \/ ValuesShown \/ FormatEnds
    \/ Escape \/ NumericField \/ Overrun \/ StringField \/ LiteralChar
    \/ RestChar \/ Newline

(* The statement runs on one thread and waits for nothing.                  *)
Spec == Init /\ [][Next]_vars /\ WF_vars(Next)

--------------------------------------------------------------------------------
(* Properties.                                                              *)

(* The shape of the state.  A field is only shown when there is a value for *)
(* it, and the position never leaves the format by more than its end: the   *)
(* code indexes values[] and fmt[] without a check of its own in places.    *)
TypeOK ==
    /\ phase \in {"statement", "outer", "inner", "rest", "done", "overrun",
                  "badFileNumber", "typeMismatch"}
    /\ vi \in 0..Len(values) /\ passes \in 0..MaxPasses
    /\ fpos \in 1..(Len(fmt) + 1)
    /\ \A i \in 1..Len(out) : out[i].value \in 0..vi

(* What the manual says of a format.  A numeric field is an optional +, $$, *)
(* ** or **$, digit positions with commas, a point with more positions,     *)
(* four or five carets and a sign; it has one of the first, or a digit      *)
(* position before or after the point.  A comma at the end of the format is *)
(* none of its parts.                                                       *)
Heads  == {a \o b \o c : a \in {<<>>, <<"+">>}, b \in {<<>>, <<"$", "$">>},
                          c \in {<<>>, <<"*", "*">>, <<"*", "*", "$">>}}
Tails  == {a \o b : a \in {<<>>, Carets}, b \in {<<>>, <<"+">>, <<"-">>}}
Five   == {<<"^">> \o Carets \o b : b \in {<<>>, <<"+">>, <<"-">>}}
Only(f, i, j, c) == \A k \in i..j : f[k] = c

(* The text of f from p on that ends before q.                              *)
IsNumeric(f, p, q) ==
    \E a \in Heads, z \in Tails \cup Five :
        LET s == p + Len(a)
            e == q - Len(z)
        IN  /\ s <= e /\ At(f, p, a) /\ At(f, e, z)
            /\ q = Len(f) + 1 => f[Len(f)] # Comma
            /\ \E i \in s..e : \E j \in i..e : \E k \in j..e :
                  /\ Only(f, s, i - 1, "#") /\ Only(f, i, j - 1, Comma) /\ Only(f, j, k - 1, "#")
                  /\ k < e => f[k] = "." /\ Only(f, k + 1, e - 1, "#")
                  /\ a # <<>> \/ (i - s) + (k - j) > 0 \/ (k = p /\ k + 1 < e)

LongestNumeric(f, p) ==
    Max({0} \cup {n \in 1..(Len(f) - p + 1) : IsNumeric(f, p, p + n)})

(* Where the scan knows all that the manual does: it does not know fields   *)
(* that begin with a point, commas at the end, and five carets.             *)
Known(f, p) ==
    /\ f[p] # "." /\ f[Len(f)] # Comma
    /\ ~\E i \in 1..(Len(f) - 4) : Only(f, i, i + 4, "^")

(* There the engine, wherever it looks for a field, finds the longest       *)
(* numeric one there is, though it tries the parts once, in one order, and  *)
(* never goes back.                                                         *)
FieldsAreLongest ==
    phase = "inner" /\ fpos <= Len(fmt) /\ Known(fmt, fpos) =>
        NumericAt.length = LongestNumeric(fmt, fpos)

(* "A decimal point may be inserted at any position in the field"           *)
(* (freebasic.txt:13791-13792), and PRINT USING ".##";.999 is an example:   *)
(* a field may begin with its point.  To the scan .## is no field.          *)
PointsBeginFields ==
    phase = "inner" /\ fpos <= Len(fmt) /\ fmt[fpos] = "." =>
        NumericAt.length = LongestNumeric(fmt, fpos)

(* A comma: "If it appears at the end of the format string, it is printed   *)
(* as part of the string" (freebasic.txt:13834-13836).  The scan takes it   *)
(* for a part of the field.                                                 *)
LastCommaStays ==
    phase = "inner" /\ fpos <= Len(fmt) /\ fmt[Len(fmt)] = Comma =>
        fpos + NumericAt.length <= Len(fmt)

(* The format cut into pieces from its start: escapes, fields, literals.    *)
(* That the scan's numeric fields are the right ones is said above.         *)
Piece(f, p) ==
    LET n == ScanNumeric(f, p).length
        s == ScanString(f, p).length
    IN  IF f[p] = Underscore /\ p < Len(f) THEN [kind |-> "literal", at |-> p + 1, next |-> p + 2]
        ELSE IF n > 0 THEN [kind |-> "numeric", at |-> p, next |-> p + n]
        ELSE IF s > 0 THEN [kind |-> "string", at |-> p, next |-> p + s]
        ELSE [kind |-> "literal", at |-> p, next |-> p + 1]

Pieces(f) ==
    LET from[p \in 1..(Len(f) + 1)] ==
            IF p > Len(f) THEN <<>>
            ELSE LET c == Piece(f, p) IN <<c>> \o from[c.next]
    IN  from[1]

IsField(c)  == c.kind # "literal"
HasField(f) == \E c \in ToSet(Pieces(f)) : IsField(c)

(* A piece with the value that falls to it.                                 *)
Show(f, c, i) ==
    CASE c.kind = "literal" -> Literal(f[c.at])
      [] c.kind = "numeric" -> Shown(i, FormatNumber(ScanNumeric(f, c.at), values[i]))
      [] c.kind = "string"  ->
            Shown(i, FormatString(ScanString(f, c.at).width, values[i].text))

(* The rest of a format, escapes apart, as it is.                           *)
Verbatim(f, p) ==
    LET from[q \in 1..(Len(f) + 1)] ==
            IF q > Len(f) THEN <<>>
            ELSE IF f[q] = Underscore /\ q < Len(f)
                 THEN <<Literal(f[q + 1])>> \o from[q + 2]
            ELSE <<Literal(f[q])>> \o from[q + 1]
    IN  from[p]

(* The pieces ps repeated without end, cut behind the last value's field;   *)
(* fields are the indices of those that show a value.                       *)
FieldsUpTo(fields, i) == Cardinality({j \in fields : j <= i})
Nth(fields, k)        == CHOOSE i \in fields : FieldsUpTo(fields, i) = k

Repeated(ps, fields) ==
    LET n     == Len(ps)
        per   == Cardinality(fields)
        walks == (Len(values) - 1) \div per
        last  == Nth(fields, ((Len(values) - 1) % per) + 1)
        In(i) == ((i - 1) % n) + 1
    IN  [i \in 1..(walks * n + last) |->
            Show(fmt, ps[In(i)], ((i - 1) \div n) * per + FieldsUpTo(fields, In(i)))]
        \o Verbatim(fmt, ps[last].next)

Promised(ps) ==
    IF values = <<>> THEN Verbatim(fmt, 1)
    ELSE Repeated(ps, {i \in 1..Len(ps) : IsField(ps[i])})

EndOfLine == <<Literal("newline")>>

(* When PRINT USING is done it has shown the format over and over with the  *)
(* values in their order, every value once and every literal as often as    *)
(* the format was walked, then the rest of the format ("the format string   *)
(* is reused from the beginning", implementation_phase_2.md:1764), and it   *)
(* has ended the line, unless the statement ends with a semicolon: of that  *)
(* this property says nothing.  How a field shows its value is the engine's *)
(* business here.                                                           *)
AsPromised ==
    phase = "done" =>
        \/ out = Promised(Pieces(fmt)) \o EndOfLine
        \/ semicolon /\ out = Promised(Pieces(fmt))

(* "the trailing semicolon suppresses the final newline"                    *)
(* (implementation_phase_2.md:1772).  The parser drops it, and exec_print_  *)
(* using ends the line whatever the statement ends with.                    *)
SemicolonStays == phase = "done" /\ semicolon => Last(out) # Literal("newline")

(* A field of nothing but digit positions, a point and a leading sign keeps *)
(* its column: it is as wide as it is written, unless a % says the number   *)
(* is wider.  A number that fits num_str loses no digit in a field without  *)
(* an exponent, and no number its minus sign.  This is about fields that    *)
(* fit field[].                                                             *)
Plain(s) == ~s.dollar /\ ~s.star /\ ~s.comma /\ ~s.exponent /\ ~s.plusEnd /\ ~s.minusEnd
Nines(t) == Cardinality({i \in 1..Len(t) : t[i] = "9"})
NumberFits(s, v) == v.digits + (IF s.after > 0 THEN 1 + s.after ELSE 0) < NumberSize
ColumnsKept ==
    phase = "inner" /\ fpos <= Len(fmt) /\ NumericAt.length > 0 =>
        LET v == values[vi + 1]
            t == FormatNumber(NumericAt, v)
        IN  FieldFits(NumericAt, v) =>
            /\ Plain(NumericAt) => (t[1] = "%") = (Len(t) > NumericAt.length)
            /\ ~NumericAt.exponent /\ NumberFits(NumericAt, v) => Nines(t) = v.digits + NumericAt.after
            /\ v.neg => Contains(t, "-")

(* A - at the end of a field "causes a negative number to be printed with a *)
(* trailing minus sign" (freebasic.txt:13806-13808), as in "68.95-".  The   *)
(* engine shows the leading one as well.                                    *)
MinusTrails ==
    \A i \in 1..Len(out) : out[i].value > 0 /\ Last(out[i].text) = "-" =>
        \A j \in 1..(Len(out[i].text) - 1) : out[i].text[j] # "-"

(* "If the number to be printed is larger than the specified numeric field, *)
(* a percent sign (%) is printed in front of the number" (freebasic.txt:    *)
(* 13861-13863): a number that has none is not wider than the field.  $$    *)
(* and ** are no digit positions to the engine, so it marks those as well   *)
(* that fit.                                                                *)
PercentMeansWider ==
    phase = "inner" /\ fpos <= Len(fmt) /\ NumericAt.length > 0 =>
        LET t == FormatNumber(NumericAt, values[vi + 1])
        IN  t[1] = "%" => Len(t) - 1 > NumericAt.length

(* A format with a field in it is used up by its values: PRINT USING ends,  *)
(* unless a field overruns its array before.                                *)
(* The outer loop has no other way out than a value shown, so a format of   *)
(* literals alone, or the empty one, keeps the program in it for ever.      *)
Ends ==
    phase = "statement" /\ device = "ready" /\ format = "string" /\ HasField(fmt)
        ~> phase \in {"done", "overrun"}

================================================================================
