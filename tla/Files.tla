--------------------------------- MODULE Files ---------------------------------
(***************************************************************************)
(* The file table and the file statements: OPEN, CLOSE, RESET, KILL, NAME, *)
(* WRITE # and PRINT #, INPUT # and LINE INPUT #, GET and PUT in RANDOM    *)
(* and BINARY files with FIELD and LSET, SEEK, EOF.                        *)
(*                                                                         *)
(* A file is a sequence of bytes.  Between it and the interpreter is the C *)
(* library: what a handle has written waits in pend until the library has  *)
(* a reason to write it out, and what it has read stays in a buffer, so    *)
(* that a later read may find there what the file held before.             *)
(*                                                                         *)
(* A program is any order of the statements it may be made of.  After an   *)
(* error it goes on, as with RESUME NEXT.                                  *)
(***************************************************************************)
EXTENDS Integers, Sequences, SequencesExt

CONSTANTS
    FileNames,   \* names of files
    MaxFiles,    \* FB_MAX_FILES (255 in the build)
    Vars,        \* names of string variables
    Byte,        \* the bytes there are; a tab is taken for a blank
    RecLen,      \* the record length of every RANDOM file
    FieldSize,   \* the bytes INPUT # has for an item and its NUL (4096)
    Programs,    \* what a program's statements are made of
    Sharing      \* TRUE: files are read and PUT under several numbers at once

Nums  == 1..MaxFiles
Modes == {"input", "output", "append", "random", "binary"}

(* Bytes that mean something; any other byte stands for itself.             *)
Quote == "quote"  Comma == "comma"  CR == "cr"  LF == "lf"
Space == "space"  Nul == "nul"
Unset == "unset"     \* a byte of memory that nobody has written
NoVar == "none"      \* GET and PUT without a variable
Unknown == -1

(* numbers: the file numbers it uses, 0 for any that is out of range;       *)
(* modes: how it opens each file; moved: the files it KILLs and NAMEs;      *)
(* lines: its PRINT # and WRITE # statements;                               *)
(* lists: its FIELD statements, sequences of [var, width]; texts: what it   *)
(* assigns to each variable; places: records and bytes it names; bytes, a   *)
(* bound: the lengths of any two of its files taken together.               *)
ProgramOK(p) ==
    /\ p.numbers \subseteq 0..MaxFiles
    /\ p.modes \in [FileNames -> SUBSET Modes] /\ p.moved \subseteq FileNames
    /\ \A line \in p.lines :
          /\ line.write \in BOOLEAN /\ line.items # <<>>
          /\ line.items \in Seq([string : BOOLEAN, text : Seq(Byte)])
    /\ \A l \in p.lists :
          /\ l \in Seq([var : Vars, width : Nat])
          /\ \A i, j \in 1..Len(l) : l[i].var = l[j].var => i = j
    /\ DOMAIN p.texts \subseteq Vars /\ \A v \in DOMAIN p.texts : p.texts[v] \subseteq Seq(Byte)
    /\ p.places \subseteq Nat /\ p.bytes \in Nat

ASSUME ConstantsOK ==
    /\ MaxFiles \in Nat /\ RecLen \in Nat \ {0} /\ FieldSize \in Nat \ {0}
    /\ Sharing \in BOOLEAN /\ NoVar \notin Vars
    /\ {Quote, Comma, CR, LF, Space, Nul, Unset} \subseteq Byte /\ "eof" \notin Byte
    /\ \A p \in Programs : ProgramOK(p)

VARIABLES
    program,  \* what the program is made of
    dir,      \* the files there are
    disk,     \* what each of them holds
    files,    \* the file table
    strs,     \* the value of each string variable
    err,      \* the error of the last statement, or 0
    plain,    \* history: files written by WRITE # to OUTPUT and APPEND only
    fields,   \* history: the items those were given
    taken     \* history: the items each number has read of one, if only those

history == <<plain, fields, taken>>
fileVars == <<program, dir, disk, files, strs, err, history>>


Closed == [mode |-> "closed", file |-> NoVar, pos |-> 1, pend |-> <<>>,
           cached |-> FALSE, cache |-> <<>>, map |-> <<>>]

Init ==
    /\ program \in Programs
    /\ dir = {} /\ disk = [f \in FileNames |-> <<>>]
    /\ files = [n \in Nums |-> Closed]
    /\ strs = [v \in Vars |-> <<>>]
    /\ err = 0
    /\ plain = FileNames /\ fields = [f \in FileNames |-> <<>>]
    /\ taken = [n \in Nums |-> Unknown]

--------------------------------------------------------------------------------
(* Names ending in "Mutant" are wrong variants of the definition that       *)
(* follows them, each with one plausible bug; nothing in Spec uses them.    *)

IsOpen(n)    == n \in Nums /\ files[n].mode # "closed"
OpenOn(f)    == {n \in Nums : files[n].mode # "closed" /\ files[n].file = f}
First(S)     == CHOOSE i \in S : \A j \in S : i <= j
Fits(f, end) ==      \* within the bound, f may grow to end bytes
    /\ end <= program.bytes
    /\ \A g \in FileNames \ {f} : end + Len(disk[g]) <= program.bytes
Smaller(i, j) == IF i < j THEN i ELSE j

(* The first position from i on whose byte is in S, or the end.             *)
Find(view, i, S) ==
    IF \E j \in i..Len(view) : view[j] \in S
    THEN First({j \in i..Len(view) : view[j] \in S}) ELSE Len(view) + 1

(* What C functions that take a string see of b: it ends at a NUL.          *)
CString(b) == SubSeq(b, 1, Find(b, 1, {Nul}) - 1)


(* File f does not hold what WRITE # wrote any more.                        *)
Spoil(f) == plain' = plain \ {f} /\ fields' = [fields EXCEPT ![f] = <<>>]

Fail(code) ==
    /\ err' = code
    /\ UNCHANGED <<program, dir, disk, files, strs, history>>

End == err' = 0 /\ UNCHANGED program   \* the statement ends without error

--------------------------------------------------------------------------------
(* The C library and the operating system.                                  *)

(* c with the bytes b written from position at on; a gap is filled with 0.  *)
Overwrite(c, at, b) ==
    IF b = <<>> THEN c
    ELSE [i \in 1..(IF Len(c) < at + Len(b) - 1 THEN at + Len(b) - 1 ELSE Len(c)) |->
            IF i \in at..(at + Len(b) - 1) THEN b[i - at + 1]
            ELSE IF i <= Len(c) THEN c[i] ELSE Nul]

(* Where what handle h has pending goes: a file opened with "a" is only     *)
(* ever written at its end.                                                 *)
PendAt(h) == IF h.mode = "append" THEN Len(disk[h.file]) + 1 ELSE h.pos

(* The files once the handles in S have nothing pending, and h after that.  *)
(* No file is written through two handles of which one buffers.             *)
Flushed(S) ==
    [f \in FileNames |->
        LET w == {n \in S \cap OpenOn(f) : files[n].pend # <<>>} IN
        IF w = {} THEN disk[f]
        ELSE LET h == files[First(w)] IN Overwrite(disk[f], PendAt(h), h.pend)]

Synced(h) == [h EXCEPT !.pos = PendAt(h) + Len(h.pend), !.pend = <<>>,
                       !.cached = h.cached /\ h.pend = <<>>]
AfterSync(h) == IF h.pend = <<>> THEN h ELSE Synced(h)

(* What a read may find: the file, or the buffer of an earlier read, which  *)
(* ends where the file ended then; past it the library may look again.      *)
Readable(n) == files[n].mode \notin {"output", "append"}
Views(n) ==
    LET h == files[n]  now == Flushed({n})[h.file] IN
    IF ~h.cached \/ h.pend # <<>> THEN {now}
    ELSE {now, h.cache, h.cache \o SubSeq(now, Len(h.cache) + 1, Len(now))}

Here(n) == AfterSync(files[n]).pos

(* Handle n reads view and is left at pos.                                  *)
Read(n, view, pos) ==
    /\ disk' = Flushed({n})
    /\ files' = [files EXCEPT ![n] = [AfterSync(files[n]) EXCEPT
                    !.pos = pos, !.cached = TRUE, !.cache = view]]

--------------------------------------------------------------------------------
(* OPEN, CLOSE, RESET, KILL, NAME.                                          *)

(* The manual's rule: a file that is open for OUTPUT or APPEND is open on   *)
(* one number only.  Without Sharing so is every file.                      *)
MayOpen(f, mode) ==
    IF Sharing /\ mode \notin {"output", "append"}
    THEN \A n \in OpenOn(f) : files[n].mode \notin {"output", "append"}
    ELSE OpenOn(f) = {}

FileOpen(n, f, mode) ==
    /\ disk' = [disk EXCEPT ![f] = IF mode = "output" THEN <<>> ELSE disk[f]]
    /\ dir' = dir \cup {f}
    /\ files' = [files EXCEPT ![n] = [Closed EXCEPT !.mode = mode, !.file = f]]
    /\ plain' = plain \cup (IF mode = "output" THEN {f} ELSE {})
    /\ fields' = [fields EXCEPT ![f] = IF mode = "output" THEN <<>> ELSE fields[f]]
    /\ taken' = [taken EXCEPT ![n] = IF mode = "input" THEN 0 ELSE Unknown]

(* fb_file_open: number, then slot, then the file itself.                   *)
ExecOpen(n, f, mode) ==
    \/ n \notin Nums /\ Fail(52)
    \/ IsOpen(n) /\ Fail(55)
    \/ n \in Nums /\ ~IsOpen(n) /\ mode \in program.modes[f] /\ MayOpen(f, mode)
       /\ IF mode = "input" /\ f \notin dir THEN Fail(53)
          ELSE FileOpen(n, f, mode) /\ End /\ UNCHANGED strs

CloseFiles(S) ==
    /\ disk' = Flushed(S)
    /\ files' = [n \in Nums |-> IF n \in S THEN Closed ELSE files[n]]
    /\ End /\ UNCHANGED <<dir, strs, history>>

ExecClose(n) == CloseFiles({n})   \* a number that is not open is no error
ExecReset    == CloseFiles(Nums)  \* also CLOSE without a number, and the end

(* KILL and NAME look at no file table; the program must have closed the    *)
(* files.                                                                   *)
ExecKill(f) ==
    /\ OpenOn(f) = {}
    /\ IF f \notin dir THEN Fail(53)
       ELSE /\ dir' = dir \ {f} /\ disk' = [disk EXCEPT ![f] = <<>>]
            /\ plain' = plain \cup {f} /\ fields' = [fields EXCEPT ![f] = <<>>]
            /\ End /\ UNCHANGED <<files, strs, taken>>

ExecName(f, g) ==
    /\ f # g /\ OpenOn(f) \cup OpenOn(g) = {}
    /\ IF f \notin dir THEN Fail(53)
       ELSE /\ dir' = (dir \ {f}) \cup {g}
            /\ disk' = [disk EXCEPT ![g] = disk[f], ![f] = <<>>]
            /\ plain' = (IF f \in plain THEN plain \cup {g} ELSE plain \ {g}) \cup {f}
            /\ fields' = [fields EXCEPT ![g] = fields[f], ![f] = <<>>]
            /\ End /\ UNCHANGED <<files, strs, taken>>

--------------------------------------------------------------------------------
(* PRINT # and WRITE #.                                                     *)

(* An item of WRITE #: a string in quotes or a number; of PRINT #: as is.   *)
(* Of a string only what is before its first NUL is written.                *)
Shown(write, item) ==
    IF write /\ item.string THEN <<Quote>> \o CString(item.text) \o <<Quote>>
    ELSE CString(item.text)

ItemsMutant(line, k) ==    \* no comma between the items
    LET Items[i \in 0..k] ==
            IF i = 0 THEN <<>> ELSE Items[i - 1] \o Shown(line.write, line.items[i])
    IN  Items[k]

(* The bytes of the first k items, in the order they are written.           *)
Items(line, k) ==
    LET It[i \in 0..k] ==
            IF i = 0 THEN <<>>
            ELSE It[i - 1] \o (IF i > 1 /\ line.write THEN <<Comma>> ELSE <<>>)
                           \o Shown(line.write, line.items[i])
    IN  It[k]

Given(line, k) == [i \in 1..k |-> line.items[i].text]

(* The bytes go to handle n, the first k items of line among them.  A       *)
(* handle for INPUT drops them.                                             *)
Emit(n, bytes, line, k) ==
    LET h == files[n] IN
    /\ Fits(h.file, PendAt(h) + Len(h.pend) + Len(bytes) - 1)
    /\ IF h.mode = "input" THEN UNCHANGED <<files, history>>
       ELSE /\ files' = [files EXCEPT ![n].pend = h.pend \o bytes]
            /\ IF line.write /\ h.mode \in {"output", "append"}
               THEN /\ fields' = [fields EXCEPT ![h.file] =
                                    IF h.file \in plain THEN @ \o Given(line, k) ELSE @]
                    /\ UNCHANGED <<plain, taken>>
               ELSE Spoil(h.file) /\ UNCHANGED taken
    /\ UNCHANGED <<program, dir, disk, strs>>

(* Text is not written to a file that is open under another number too.     *)
MayEmit(n) == IsOpen(n) => OpenOn(files[n].file) = {n}

ExecPrintFile(n, line) ==
    /\ MayEmit(n)
    /\ IF ~IsOpen(n) THEN Fail(52)
       ELSE Emit(n, Items(line, Len(line.items)) \o <<CR, LF>>, line, Len(line.items))
            /\ err' = 0

(* An error in the item after the first k: what is written stays, with the  *)
(* comma that goes before that item.                                        *)
PrintFileFails(n, line, k) ==
    /\ MayEmit(n) /\ IsOpen(n) /\ k < Len(line.items)
    /\ Emit(n, Items(line, k) \o (IF k > 0 /\ line.write THEN <<Comma>> ELSE <<>>), line, k)
    /\ err' = 11

--------------------------------------------------------------------------------
(* INPUT #, LINE INPUT # and EOF.                                           *)

At(view, i) == IF i \in 1..Len(view) THEN view[i] ELSE "eof"

Blank == {Space, CR, LF}
SkipBlank(view, i) ==
    IF \E j \in i..Len(view) : view[j] \notin Blank
    THEN First({j \in i..Len(view) : view[j] \notin Blank}) ELSE Len(view) + 1

(* What is left of the item b: what the buffer holds of it, up to a NUL.    *)
Buffered(b) == CString(SubSeq(b, 1, Smaller(Len(b), FieldSize - 1)))

InputFieldMutant(view, i) ==   \* the byte after a closing quote is left
    LET quoted == At(view, i) = Quote
        stop   == IF quoted THEN Find(view, i + 1, {Quote}) ELSE Find(view, i + 1, {Comma, CR, LF})
    IN  [text |-> Buffered(SubSeq(view, IF quoted THEN i + 1 ELSE i, stop - 1)),
         next |-> Smaller(stop + 1, Len(view) + 1)]

(* The field that starts with the byte at i, and the position after it and  *)
(* its delimiter.  The first byte is not looked at as a delimiter, and      *)
(* after a closing quote the next byte goes, whatever it is.                *)
InputField(view, i) ==
    LET quoted == At(view, i) = Quote
        stop   == IF quoted THEN Find(view, i + 1, {Quote})
                  ELSE Find(view, i + 1, {Comma, CR, LF})
        ending == IF quoted THEN stop + 1 ELSE stop
    IN  [text |-> Buffered(SubSeq(view, IF quoted THEN i + 1 ELSE i, stop - 1)),
         next |-> Smaller(IF At(view, ending) = CR /\ (quoted \/ At(view, ending + 1) = LF)
                          THEN ending + 2 ELSE ending + 1, Len(view) + 1)]

(* A handle that cannot be read is at its end.                              *)
ExecInputFile(n) ==
    IF ~IsOpen(n) THEN Fail(52)
    ELSE IF ~Readable(n) THEN Fail(62)
    ELSE \E view \in Views(n) :
        LET i == SkipBlank(view, Here(n))  field == InputField(view, i) IN
        /\ IF i > Len(view)
           THEN Read(n, view, i) /\ err' = 62 /\ UNCHANGED taken
           ELSE /\ Read(n, view, field.next)
                /\ err' = 0
                /\ taken' = [taken EXCEPT ![n] = IF @ = Unknown THEN @ ELSE @ + 1]
        /\ UNCHANGED <<program, dir, strs, plain, fields>>

(* At the end of the file the line is empty; no error is raised.            *)
ExecLineInputFile(n) ==
    \/ ~IsOpen(n) /\ Fail(52)
    \/ /\ IsOpen(n) /\ ~Readable(n)
       /\ End /\ UNCHANGED <<dir, disk, files, strs, history>>
    \/ /\ IsOpen(n) /\ Readable(n)
       /\ \E view \in Views(n) :
             Read(n, view, Smaller(Find(view, Here(n), {LF}) + 1, Len(view) + 1))
       /\ taken' = [taken EXCEPT ![n] = Unknown]
       /\ End /\ UNCHANGED <<dir, strs, plain, fields>>

(* EOF: for INPUT a byte is read and put back; else a look at the length.   *)
AtEof(n, view) == Here(n) > Len(view)

EvalEof(n) ==
    /\ IsOpen(n)
    /\ IF files[n].mode = "input"
       THEN \E view \in Views(n) : Read(n, view, Here(n))
       ELSE /\ disk' = Flushed({n})
            /\ files' = [files EXCEPT ![n] = AfterSync(@)]
    /\ End /\ UNCHANGED <<dir, strs, history>>

--------------------------------------------------------------------------------
(* GET, PUT, SEEK, FIELD, LET, LSET and RSET.                               *)

Bytes(c, from, len) ==     \* len bytes of c, as far as there are
    SubSeq(c, from, Smaller(from + len - 1, Len(c)))
Padded(b, len, with) ==    \* the first len bytes of b, and more if need be
    [i \in 1..len |-> IF i <= Len(b) THEN b[i] ELSE with]

(* The width of the fields before the i-th.                                 *)
Offset(map, i) == LET Off[j \in 0..(i - 1)] == IF j = 0 THEN 0 ELSE Off[j - 1] + map[j].width
                  IN  Off[i - 1]
(* The fields that are used: those that end inside the record.              *)
Mapped(map) == {i \in 1..Len(map) : Offset(map, i) + map[i].width <= RecLen}

(* The variables once record has been read with v for GET's own variable:   *)
(* that first, then the fields.                                             *)
FromRecord(map, record, v) ==
    [x \in Vars |->
        IF \E i \in Mapped(map) : map[i].var = x
        THEN LET i == CHOOSE i \in Mapped(map) : map[i].var = x
             IN  SubSeq(record, Offset(map, i) + 1, Offset(map, i) + map[i].width)
        ELSE IF x = v THEN record ELSE strs[x]]

(* The record that PUT writes: blanks, the fields, and over them all v.     *)
ToRecord(map, v) ==
    IF v # NoVar THEN Padded(strs[v], RecLen, Space)
    ELSE [b \in 1..RecLen |->
            LET covering == {i \in Mapped(map) : b - Offset(map, i) \in 1..map[i].width} IN
            IF covering = {} THEN Space
            ELSE LET i == CHOOSE i \in covering : TRUE
                 IN  Padded(strs[map[i].var], map[i].width, Space)[b - Offset(map, i)]]

(* The position of record r, or of byte r; r = 0 or none is the position    *)
(* the file is at.                                                          *)
PositionMutant(n, r) ==      \* record 0 taken for a record
    IF r < 0 THEN Here(n)
    ELSE IF files[n].mode = "random" THEN (r - 1) * RecLen + 1 ELSE r

Position(n, r) ==
    IF r <= 0 THEN Here(n)
    ELSE IF files[n].mode = "random" THEN (r - 1) * RecLen + 1 ELSE r

GetRecord(n, r, v) ==
    /\ files[n].mode = "random"
    /\ \E view \in Views(n) :
          LET b == Bytes(view, Position(n, r), RecLen) IN
          /\ Read(n, view, Position(n, r) + Len(b))
          /\ strs' = FromRecord(files[n].map, Padded(b, RecLen, Nul), v)

(* GET into a string reads as many bytes as it has; what the file has not   *)
(* got stays as malloc gave it.                                             *)
GetBinary(n, r, v) ==
    /\ files[n].mode = "binary"
    /\ \E view \in Views(n) :
          LET b == IF v = NoVar THEN <<>> ELSE Bytes(view, Position(n, r), Len(strs[v])) IN
          /\ Read(n, view, Position(n, r) + Len(b))
          /\ strs' = [x \in Vars |-> IF x = v THEN Padded(b, Len(strs[v]), Unset) ELSE strs[x]]

ExecGet(n, r, v) ==
    \/ ~IsOpen(n) /\ Fail(52)
    \/ /\ IsOpen(n) /\ (GetRecord(n, r, v) \/ GetBinary(n, r, v))
       /\ End /\ UNCHANGED <<dir, history>>

WrittenMutant(n, at, b) ==    \* the buffer of earlier reads is kept
    /\ disk' = [Flushed({n}) EXCEPT ![files[n].file] = Overwrite(@, at, b)]
    /\ files' = [files EXCEPT ![n] = [AfterSync(@) EXCEPT !.pos = at + Len(b)]]

(* The bytes b are written at once, at position at.                         *)
Written(n, at, b) ==
    /\ disk' = [Flushed({n}) EXCEPT ![files[n].file] = Overwrite(@, at, b)]
    /\ files' = [files EXCEPT ![n] =
                   [AfterSync(@) EXCEPT !.pos = at + Len(b), !.cached = FALSE]]

PutBytes(n, v) ==
    IF files[n].mode = "random" THEN ToRecord(files[n].map, v)
    ELSE IF v = NoVar THEN <<>> ELSE strs[v]

(* PUT in another mode than RANDOM and BINARY does nothing, as does GET.    *)
ExecPut(n, r, v) ==
    \/ ~IsOpen(n) /\ Fail(52)
    \/ /\ IsOpen(n) /\ files[n].mode \in {"random", "binary"}
       /\ Fits(files[n].file, Position(n, r) + Len(PutBytes(n, v)) - 1)
       /\ Written(n, Position(n, r), PutBytes(n, v))
       /\ Spoil(files[n].file)
       /\ End /\ UNCHANGED <<dir, strs, taken>>

(* SEEK to 0 fails and is ignored.                                          *)
ExecSeek(n, p) ==
    \/ ~IsOpen(n) /\ Fail(52)
    \/ /\ IsOpen(n)
       /\ disk' = Flushed({n})
       /\ files' = [files EXCEPT ![n] = [AfterSync(@) EXCEPT !.pos = Position(n, p)]]
       /\ IF files[n].mode = "output" THEN Spoil(files[n].file) ELSE UNCHANGED <<plain, fields>>
       /\ taken' = [taken EXCEPT ![n] = IF files[n].mode = "input" /\ p = 1 THEN 0
                                        ELSE IF p = 0 THEN @ ELSE Unknown]
       /\ End /\ UNCHANGED <<dir, strs>>

ExecField(n, list) ==
    IF ~IsOpen(n) THEN Fail(52)
    ELSE /\ files' = [files EXCEPT ![n].map = list]
         /\ End /\ UNCHANGED <<dir, disk, strs, history>>

ExecLet(v, t) ==
    /\ strs' = [strs EXCEPT ![v] = t]
    /\ End /\ UNCHANGED <<dir, disk, files, history>>

(* LSET and RSET keep the length of the variable.                           *)
ExecLset(v, t) ==
    /\ strs' = [strs EXCEPT ![v] = Padded(t, Len(strs[v]), Space)]
    /\ End /\ UNCHANGED <<dir, disk, files, history>>

ExecRset(v, t) ==
    LET w == Len(strs[v])  c == Smaller(Len(t), w) IN
    /\ strs' = [strs EXCEPT ![v] = [i \in 1..w |-> IF i <= w - c THEN Space ELSE t[i - w + c]]]
    /\ End /\ UNCHANGED <<dir, disk, files, history>>

--------------------------------------------------------------------------------

Table ==
    \/ \E n \in program.numbers, f \in FileNames, mode \in Modes : ExecOpen(n, f, mode)
    \/ \E n \in program.numbers : ExecClose(n)
    \/ ExecReset
    \/ \E f \in program.moved : ExecKill(f)
    \/ \E f, g \in program.moved : ExecName(f, g)

Sequential ==
    \E n \in program.numbers :
        \/ ExecInputFile(n) \/ ExecLineInputFile(n) \/ EvalEof(n)
        \/ \E line \in program.lines :
              \/ ExecPrintFile(n, line)
              \/ \E j \in 0..(Len(line.items) - 1) : PrintFileFails(n, line, j)

Named == DOMAIN program.texts

Random ==
    \/ \E n \in program.numbers, r \in program.places :
          \/ ExecSeek(n, r)
          \/ \E v \in Named \cup {NoVar} : ExecGet(n, r, v) \/ ExecPut(n, r, v)
    \/ \E n \in program.numbers, list \in program.lists : ExecField(n, list)
    \/ \E v \in Named : \E t \in program.texts[v] : ExecLet(v, t) \/ ExecLset(v, t) \/ ExecRset(v, t)

Next == Table \/ Sequential \/ Random

Spec == Init /\ [][Next]_fileVars

--------------------------------------------------------------------------------
(* Properties.  Those about the items of WRITE # are about programs whose   *)
(* strings have in them no quotes, which WRITE # does not escape, and no    *)
(* NUL, and whose items fit the buffer of INPUT #.  A number is what %d and *)
(* %g print.                                                                *)

Storable(t) == Len(t) < FieldSize /\ \A j \in 1..Len(t) : t[j] # Nul

PlainItem(item) ==
    /\ Storable(item.text)
    /\ IF item.string THEN \A j \in 1..Len(item.text) : item.text[j] # Quote
       ELSE /\ item.text # <<>>
            /\ \A j \in 1..Len(item.text) : item.text[j] \notin {Quote, Comma, Space, CR, LF}

ItemsPlain ==
    \A p \in Programs : \A line \in p.lines :
        line.write => \A i \in 1..Len(line.items) : PlainItem(line.items[i])

Handles == [mode : Modes \cup {"closed"}, file : FileNames \cup {NoVar}, pos : Nat \ {0},
            pend : Seq(Byte), cached : BOOLEAN, cache : Seq(Byte),
            map : {<<>>} \cup program.lists]

TypeOK ==
    /\ program \in Programs /\ dir \subseteq FileNames /\ plain \subseteq FileNames
    /\ disk \in [FileNames -> Seq(Byte)] /\ \A f \in FileNames : Len(disk[f]) <= program.bytes
    /\ files \in [Nums -> Handles] /\ \A n \in Nums : IsOpen(n) => files[n].file \in dir
    /\ strs \in [Vars -> Seq(Byte)] /\ err \in {0, 11, 52, 53, 55, 62}
    /\ fields \in [FileNames -> Seq(Seq(Byte))] /\ taken \in [Nums -> Nat \cup {Unknown}]

(* What is read from a file that WRITE # wrote is what was written, item by *)
(* item: strings come back whole, commas and leading blanks in them         *)
(* included, whatever the lines they were on and the errors between them.   *)
ReadsBack ==
    \A n \in Nums :
        LET f == files[n].file IN
        IsOpen(n) /\ taken[n] # Unknown /\ f \in plain /\ taken[n] < Len(fields[f]) =>
            \A view \in Views(n) :
                InputField(view, SkipBlank(view, Here(n))).text = fields[f][taken[n] + 1]

(* On such a file EOF tells whether INPUT # has an item left to read: a     *)
(* loop WHILE NOT EOF reads all of them and never past the end.             *)
EofTellsInput ==
    \A n \in Nums :
        LET f == files[n].file IN
        IsOpen(n) /\ taken[n] # Unknown /\ f \in plain =>
            \A view \in Views(n) : AtEof(n, view) <=> taken[n] = Len(fields[f])

(* What a GET finds is what the file holds, not what it held at an earlier  *)
(* GET; it may at most not see yet that the file has grown.                 *)
GetSeesFile ==
    \A n \in Nums : IsOpen(n) /\ Readable(n) =>
        \A view \in Views(n) : IsPrefix(view, Flushed({n})[files[n].file])

================================================================================
