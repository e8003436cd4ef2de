# A verification project for FBasic

FBasic (`src/basic`, `src/platform`) is an interpreter for a classic BASIC
dialect in C99. This directory holds TLA+ models of its core, the TLC
configurations that check them on small instances, and proofs that TLAPS checks
for every instance. Paths below are relative to the repository; `I`, `P`, `L`
and `V` stand for `src/basic/src/interpreter.c`, `parser.c`, `lexer.c` and
`value.c`.

1. [The system](#the-system)
2. [The modules](#the-modules)
3. [The runs](#the-runs)
4. [What is proved](#what-is-proved)
5. [Where the code and its documents part](#where-the-code-and-its-documents-part)
6. [What is not modelled](#what-is-not-modelled)
7. [Plan](#plan)

## The system

`main` reads a source, `lexer_tokenize` makes tokens of it, `parser_parse` makes a
`Program`, and `interp_run` walks its tree. There is one thread, no signal handler
and nothing asynchronous. What is hard is elsewhere: control that is spread over
flags, a `pc` and a `longjmp`; variables that are kept in two places; pointers into
arrays that other statements free; reference counts dropped by hand on every path; a
file table on top of a buffering C library; a scanner whose only memory is the last
token; a recursive-descent parser that registers jump targets while the statements
they name are still being read.

| Component (source) | State | Operations | Hard because | Correct when |
|---|---|---|---|---|
| Statement executor (`I`) | `pc`, `running`, `gosub_stack`, the five `exit_*` flags, the C stack | `interp_run`, `exec_block`, `exec_<statement>` | a jump only assigns `pc`; an EXIT is a flag raised in one C frame and taken in another; `longjmp` drops frames that had something to restore | control stays in the program; every EXIT is taken by the construct it names and by no other; RETURN goes behind its GOSUB; programs end |
| Error trapping (`I`, `error.c`) | `on_error_target`, `err_jmp`, `has_err_jmp`, `in_error_handler`, `error_pc` | ON ERROR, RESUME, ERROR, `fb_error` | armed at the head of the loop, used anywhere; a second error in the handler | a set handler always catches; RESUME goes back into the program |
| Call frames, scopes, parameters (`callframe.c`, `symtable.c`, `I`) | `call_stack`, `current_scope`, symbols with `ref_addr` | CALL, FUNCTION calls, DEF FN, DIM, SHARED, STATIC, CONST, SWAP, READ, INPUT | a reference is a *copy* that is written back; the stack has a limit that is silently ignored | a parameter behaves as another name of the caller's variable; no reference outlives its variable |
| Arrays (`array.c`, `I`) | `FBArray`: bounds and a block; symbols and parameters that point at them | DIM, REDIM, ERASE, SHARED, element access, use without DIM | ERASE frees what others point to; a parameter points into the block; indices are flattened | an element is where its subscripts say; nothing points to freed memory |
| Expressions (`P`, `I`) | the tree, the values on the C stack | `parse_expression`, `eval_expr`, FUNCTION calls in expressions | precedence climbing; a name with parentheses is three different things; a call runs statements | the tree is what was written; values are exact; calls are made once, in order |
| Numbers and coercion (`coerce.c`, `V`, builtins) | none | `fbval_coerce`, operators, CINT, FIX, ... | everything goes through `double` and back into 16 and 32 bits | no silent loss in range |
| DATA, READ, RESTORE (`I`, `P`) | `data_pool`, `data_ptr` | READ, RESTORE | the pointer moves before the item is coerced; a READ can run in a READ | every item goes to one target, in order, with its type |
| String memory (`V`) | `refcount` of every `FBString` | `fbstr_new/ref/unref/cow`, `fbval_copy/release` | every statement and expression takes and drops holds by hand; LSET writes in place | a count is the number of holders; nobody else's string changes |
| Records (`udt.c`) | instances with fields | field access, assignment | an assignment copies a pointer | see above |
| Files (`fileio.c`, `I`, `fileio_linux.c`) | `FBFile` table, FIELD maps, stdio buffers | OPEN, CLOSE, RESET, KILL, NAME, PRINT #, WRITE #, INPUT #, LINE INPUT #, EOF, GET, PUT, SEEK, FIELD, LSET, RSET | written data waits in a buffer, read data is kept in one; errors in the middle of a line | what was written is read back; EOF agrees with INPUT #; GET finds what the file holds |
| PRINT USING (`print_using.c`, `I`) | position in the format, values left | `exec_print_using_stmt`, the format engine | optional parts of a field tried in one order without backing up; the format is recycled | fields as long as can be, columns kept, the loop ends |
| Lexer (`L`) | `pos`, `line`, `at_line_start`, the tokens | `lexer_tokenize`, `scan_<class>` | what a character means depends on the last token; continuations, comments and line ends interleave | no character lost or read twice; layout changes nothing |
| Parser (`P`) | tokens, `pos`, `Program`: statements, `labels`, `line_map`, procedures, DATA pool | `parse_statement`, one loop per block construct | each caller looks for its own end token; single-line and block IF; labels are registered before their statement exists | every statement is where it was written, jumps find their statement, the parser stops |
| Console, system services | the terminal, the operating system | output, SHELL, directories | – | – |

They interact by direct calls and by shared state: the executor calls the scopes,
arrays, strings and files; `fb_error` may leave any of them by `longjmp` to
`interp_run`; an expression may call a FUNCTION, and so run statements in the
middle of any statement; the parser hands the executor resolved indices.
`PROJECT.json` lists each component with the modules that model it, and under
`hazards` each place where the difficulty bites, with the properties that would
show it.

## The modules

| Module | Models | Composed with |
|---|---|---|
| `ControlFlow` | the statement executor, error trapping, call frames' limit, scopes' lifetime | `ControlFlowProofs`, `MCControlFlow` |
| `ByReference` | what a program may rely on about variables: a location per variable, names that stand for locations | abstract specification of `Procedures` |
| `Procedures` | scopes, symbols, parameters, write-back | `INSTANCE ByReference WITH ...`; `ProcedureProofs`, `MCProcedures` |
| `ArrayStore` | what a program may rely on about arrays: an element for each tuple of subscripts | abstract specification of `Arrays` |
| `Arrays` | `FBArray`s, the symbols and parameters that point at them, and the statements that use them | `INSTANCE ArrayStore WITH ...`; `ArrayProofs`, `MCArrays` |
| `Numbers` | values, conversions, operators and numeric builtins as operators, integers at their width | used by `Expressions` and `DataPool` |
| `Expressions` | reading an expression and evaluating it | `Numbers`; `MCExpressions` |
| `DataPool` | READ, RESTORE, typed variables, coercion, nested READs, trapped errors | `Numbers`; `DataPoolProofs`, `MCDataPool` |
| `Strings` | reference counts, copy on write, who holds what | `StringsProofs`, `MCStrings` |
| `Files` | the file table and its statements over the C library's buffers | `FilesProofs`, `MCFiles` |
| `PrintUsing` | the scan of a format and what it shows | `PrintUsingProofs`, `MCPrintUsing` |
| `Lexer` | characters to tokens | `MCLexer` |
| `Parser` | tokens to statements, labels, line numbers, procedures, DATA | `ParserProofs`, `MCParser` |

Names follow the source: `ExecGosub` is `exec_gosub`, `Cow` is `fbstr_cow`, and
so on; `PROJECT.json` gives the lines of each. A definition named `...Mutant` is a
wrong variant of its neighbour that some property must reject; no specification uses
one. In the modules where a statement can follow any other, a behaviour is that of
some program.

**ControlFlow.** The C stack of the tree walk is the variable `k`, a sequence of
frames: `interp_run`'s call of `exec_statement` (`top`), `exec_block` with its
position (`block`), the loops with the variable they count in or the condition they
test, and procedures with the scope they will restore. A step is one `exec_<statement>`
or one turn of a loop between two. `pc` and `old_pc` are `interp_run`'s. `Raise`
is `fb_error`: with `has_jmp` it does what the `longjmp` branch of `interp_run` does,
emptying `k` and restoring nothing else. A program is a function from names of
statement lists to statements; labels in it are already indices. Loops and conditions test variables of the program, and
each FOR reads and assigns its own at each turn (`Counter`, `Past`), as the body may. An
expression that divides by a variable stands for every expression whose evaluation may
fail, and an argument that does not fit its parameter (`Misfits`) for every conversion
that does. CALL makes the callee's scope current when all its arguments are bound; a
FUNCTION's arguments are evaluated before its scope exists, and converted when it is
current already.

**Procedures and ByReference.** A symbol has a value and, when it is a reference,
an address; both are kept, as `FBSymbol.value` and `ref_addr` are. `ExecCall`
and `EvalFunction` bind in the code's order (a FUNCTION switches scopes before it
resolves its arguments, a SUB after), and `ProcedureReturn` writes back in
parameter order. The refinement maps a reference to the location it refers to.

**Arrays and ArrayStore.** The heap maps addresses to `FBArray`s: bounds per
dimension, whether it is dynamic, and a block of cells. `Index` (with `Flat`) and the bounds
test are `fbarray_index`; a use without DIM makes an array of 0 to 10 in each dimension
(`Used`). A symbol has an address, and SHARED enters a second symbol with the same one. The
arrays of a scope that ends stay allocated: `scope_free` frees none. A call's parameter has the address of
a cell and a copy. REDIM and DIM run only at the module level, since the parser moves
them there. `ArrayStore` has no addresses: a name means the array of the call or of
the module, an array is a function from tuples to values, and a parameter is another
name of an element. The refinement reads each array through its symbols.

**Numbers, Expressions, DataPool.** A number is a type and a fraction, so that
operators that go through `double` can be compared with exact arithmetic;
INTEGER and LONG have `IntBits` and `LongBits` bits and every conversion checks or
wraps as the code does. A conversion to SINGLE, and a SINGLE result, is rounded to
`SingleBits` significant bits (`ToSingle`); DOUBLE is exact. `Expressions` has the parser's precedence climbing and the
evaluator as recursive operators, one step for each, over a source that is a
sequence of tokens. What is checked against them is defined without either: `Respects`
and `Yield` say which trees a text stands for by the documents' table of precedence,
`Exact` what a tree is worth by the manual's rules of conversion, `Calls` which calls it
makes. `DataPool` has `exec_read` one target at a time: it
takes the item, evaluates the target's subscript (whose FUNCTION may READ, RESTORE
and fail itself), coerces, stores. `reads` is the stack of READs under way; `stored`
and `dropped` are histories of where the items went.

**Strings.** A block is held by a literal of the program, a variable, a
field, or a temp, an `FBValue` in a C local. Statements consume temps in the order
of the code's copies and releases. What a function computes is any text. `lost`
counts the holds that MKI$, GET # and a trapped error never drop, so that
`CountsExact` is an equation, not a bound.

**Files.** A file is a sequence of bytes; a handle has a position, what it has
written and the C library has not (`pend`), and what it has read ahead (`cache`).
`Views` is the set of what a read may find. This part is external: the repository
calls stdio. Texts end at a NUL byte on their way through C strings (`CString`), and INPUT # keeps
`FieldSize - 1` bytes of an item. After an error the program goes on, as with RESUME NEXT; an error in
item *j* of a PRINT # or WRITE # leaves the items before it in the file.

**PrintUsing.** `ScanNumeric` and `ScanString` are the code's scans, which try each
optional part of a field once and in one order. The two loops of the engine are
actions: one character or field of the format in a step, the start of another pass
over it, and the rest that is copied after the last value. A number is its sign and
the number of its digits. The two arrays a number goes through are there: `num_str` of
`NumberSize` cuts it, `field` of `FieldSize` is written without a check, and a field that passes
its end is the step `Overrun`, after which nothing is defined.

**Lexer.** One step of `lexer_tokenize`'s loop is an action per branch: end of line,
blanks, continuation, comment, string, line number, number, `&H`/`&O`, word,
operator, anything else. The pass over the labels is one step per token. What is
checked against it, `Lexeme`, says which texts are tokens without any scan.

**Parser.** The recursive descent is the stack `open` of the constructs being
read. `ParseStatement` is a call of `parse_statement` with the separator its caller
then looks for; `EndPart` is the end of one part of a construct (THEN, ELSEIF, CASE,
a loop's body). `Labelled` is the lexer's last pass, which finds labels and drops
their colons. An expression, and a simple statement with its arguments, is one token.

## The runs

Deadlock is checked in all runs but those of `Arrays` and `PrintUsing`: an error in a call
ends the program there, and PRINT USING is one statement that ends. Every action and
every disjunct of the next-state relations is taken in some passing run.

| Run (states) | Instance | What it shows |
|---|---|---|
| `structured` (11 000) | loops in loops, IF and SELECT in loops, FOR loops up, down, over the largest INTEGER and with a body that assigns their variable, arguments that fail, SUBs and FUNCTIONs that call themselves and each other, `x` from 0 to 3, call stack of 2 | `CallsMatch`: current and saved scopes follow the calls, none leaks, pushes refused at the limit leave nothing behind; `PendingExitUnwinds`: an EXIT only unwinds; `Terminates` |
| `jumps_and_traps` (150 000) | every program of three statements among GOTO, GOSUB, RETURN, END, ON x GOTO/GOSUB, with a jump or RETURN inside an IF, and GOSUB and RETURN two blocks or calls deep; errors in fourteen kinds of statement at the top level, in blocks, in arguments, in procedures and in the handler, with every RESUME; GOSUB stack of 2 | `ControlStaysDefined`: no index that control may be sent to is negative; `SetHandlerCatches`: no exit on an error outside the handler while one is set; `GosubReturnsToNext`: RETURN goes behind the statement that holds the GOSUB |
| `procedures` (31 000) | two names, values 0 and 1, depth 3, a SUB with two parameters, one BYVAL, a FUNCTION | `ImplementsByReference`: copy and write-back implements by-reference; `ReferencesLive`; `ConstantsStay`: no statement these programs have changes a CONST |
| `arrays` (106 000) | two names, two `FBArray`s, bounds of one and two dimensions and a REDIM to none, two calls deep | `ImplementsArrayStore`; `ArraysSound`: every element in its block and in no other's place, nothing points to a freed array |
| `expressions` (28 000) | 9 300 expressions: every operator on every pair of operands, every three operators of different levels in a row, signs, NOT, parentheses and builtins around these, calls in arguments and subscripts three deep; texts with a token missing or too many; INTEGER of 4 bits, LONG of 8, SINGLE of 6 | `TreesAsWritten`, `ExactResults`: where no operand loses a digit in the wider operand's type, the result is what the manual's rules say; `CallsAsWritten`. An ASSUME compares `ToSingle` with all SINGLEs: none is nearer |
| `data_pool` (97 000) | a variable and an element, INTEGER, SINGLE or STRING each; items 33.5 (too large for the INTEGER here, rounded by the SINGLE), 2.5 and "5"; a READ in a READ; errors fatal or trapped, with RESUME and RESUME NEXT | `ItemsAccounted`: each item went to one target or was lost to one error; `ReadExact`: a cell says what the item it read says, rounded once |
| `strings` (1 200 000) | two variables, one record, two texts, 5 blocks, 2 temps, counts to 3; variables symmetric | `CountsExact`; `SoleWriter`: overwriting in place touches one variable only |
| `files` (300 000) | two files, two numbers, a few bytes, five kinds of program: text, rewound, record, record with an overlong FIELD, binary | `ReadsBack`, `EofTellsInput`, `GetSeesFile` |
| `print_using` (46 000) | every format of up to two characters of eleven, those of three that begin with `#` or `\`, and longer ones put together from the parts of a field with others and literals behind it; none, two and three values, some too long for `num_str`; arrays of 6 and 9 characters | `FieldsAreLongest`, `AsPromised`, `ColumnsKept`; `Ends` |
| `lexer` (190 000) | every text of up to three pieces out of 18, of four out of ten; lines of tokens of every class, with each layout of blanks, continuations, comments, labels, line numbers and line ends | `Tokenized`: longest tokens, nothing lost between them, right lines; `TokensAsWritten` |
| `parser` (54 000) | 3 200 sources: every construct in every part of every other, on lines and with colons, with labels, line numbers, GOTOs; empty bodies; END alone; DATA without items; each required token missing | `ProgramAsWritten`, `JumpTargetsExist`, `Decided` |

| `restore_label` | that of `data_pool` | `RestoresToLabel` is violated: nothing fills `data_labels`, so RESTORE with a label goes to the first item |

Each passing run also checks its module's `TypeOK` (`jumps_and_traps` leaves that to
`structured` and the proof).

**Promises that are broken.** `restore_label` is the run whose property, a promise of the
manual, the code breaks. The other promises of the documents that the code breaks and that the models can
state are definitions beside the properties, quoted there with their line, and have a configuration each,
or one for the five of PRINT USING. They are no part of the runs; `tlc -config
TrappedCall.cfg MCControlFlow` shows the first, and so on (`-continue` shows all five of the last one).

| Configuration, module | Instance | Violated | What the code does |
|---|---|---|---|
| `TrappedCall`, `MCControlFlow` | errors in a SUB's body and in arguments | `TrapUnwindsCalls` | `call_sp` and `current_scope` stay those of the call |
| `HandlerError`, `MCControlFlow` | a handler that fails | `HandlerErrorsAreFatal` | it is entered again |
| `ExitFromLoop`, `MCControlFlow` | EXIT SUB and EXIT FUNCTION in a loop of each kind | `Terminates` | DO and WHILE do not look at those flags |
| `ConstChanged`, `MCProcedures` | that of `procedures` without `AliasFree` | `ConstantsNeverChange` | a CONST is READ into |
| `SharedRecord`, `MCFiles` | the record program of `files` on two numbers | `GetSeesFile` | GET finds the buffer of an earlier GET |
| `NotRelational`, `MinusPower`, `MCExpressions` | NOT before a comparison; a sign before a power | `TreesAsWritten` | a sign or NOT binds tighter than any operator |
| `OperandPrecision`, `MCExpressions` | a LONG and a SINGLE that has fewer digits | `ManualResults` | the operands are not converted to SINGLE first |
| `StringItem`, `LargeItem`, `MCDataPool` | that of `data_pool` with INTEGER only; with LONG and an item of 200 | `StringsRefused`; `LargeRefused` | `atof`; no check of LONG's range |
| `ReadUndone`, `MCDataPool` | that of `data_pool` with SINGLE | `ReadsStand` | the write-back stores the value from before the READ |
| `PrintUsingManual`, `MCPrintUsing` | that of `print_using` | `PointsBeginFields`, `LastCommaStays`, `MinusTrails`, `PercentMeansWider`, `SemicolonStays` | `.##` is no field to the scan; a comma at the end is part of the field; `#-` shows both signs; `$$` and `**` mark what fits; the parser drops the semicolon |

**Why the bounds are enough.** Stacks of two reach "empty", "below" and "at the
limit", and programs in the runs push past each limit; a third level of call
adds another frame of the same kind. Three statements are the fewest in which a
jump can go back, stay and go forward. Two names are enough for a
parameter to shadow, alias and cross another; depth 3 gives a reference to a
reference. Two `FBArray`s are the fewest with which one can be freed, allocated
again and confused with another; `MaxSet` lets one element at a time differ from the
rest, which is enough to see a value in the wrong place. `IntBits` 4 and
`LongBits` 8 have the relation of 16 and 32 that matters (a product of two INTEGERs
fits a LONG, `WidthsOK`), and `SingleBits` 6 that of 24: a SINGLE holds every INTEGER
and not every LONG. `Exponents` reaches beyond LONG on one side and below the items and
literals on the other. Constants at and next to each limit are among the
operands. Three items of DATA are one before, at and after an error.
For strings, two variables and a literal are the least that can share
a block wrongly; of the five blocks the
literals and the record start with three, which leaves two for what is computed. A RANDOM
file of two records of two bytes has a record to overwrite, one
to append and one past the end. In a format, a field next to another field, to an
escape and to a literal are the cases; with three values a format of one field is
walked three times, and `MaxPasses` is never what stops it. `NumberSize` 6 for 64 and
`FieldSize` 9 for 128 (4096 in `Files`: 3) are passed by some of the numbers and fields and not by others;
`MAX_INTEGER` 9 by a FOR that counts over it. The lexer looks at most three characters ahead. In
the parser two levels of nesting give each construct as outer and as inner one; a third
repeats what the stack does with the second. `MaxScopes`, `MaxStr`, `MaxTemps`,
`MaxHolds`, `Depth`, `MaxCalls`, `MaxSet`, `MaxPasses` and the files' `bytes` bound
the exploration only: a step that would pass one is not taken. (`bytes` bounds where a statement
may write in one file and the length of the other besides.) No property is guarded by them.

**Fairness.** `ControlFlow`, `Parser` and `PrintUsing` have weak fairness of the whole
next-state relation: the interpreter is one thread that never waits for another, so as
long as it has a step it takes it. Nothing stronger is assumed. `Terminates` holds for
the programs of `structured`, whose WHILE and DO loops all count down, and is violated for
those of `ExitFromLoop.cfg` under the same fairness; `Decided` holds for all of
`parser`'s sources; `Ends` for the formats with a field in them. The other modules
state safety only.

**Preconditions.** Where the code does not keep a promise for every program, the
property names the programs for which it does; what lies outside is listed in the
section on divergences.

- `~in_error_handler` (`SetHandlerCatches`): of an error in the handler the documents say that
  it is fatal; `HandlerErrorsAreFatal` is about that.
- `TrapDiscipline` (`ControlStaysDefined`, `SetHandlerCatches`): handlers are set and
  dropped at the top level, RESUME names labels that exist. Without it a `RESUME` to an
  unknown label reads `statements[-1]`, and a handler set in a block is armed one
  statement late.
- `JumpsLast` (`GosubReturnsToNext`): nothing is executed between a jump and the end of the
  top-level statement around it. A jump is the last statement of its block, the block is the
  last thing its own block runs, and so on up to the top level, and no loop is among them.
  Otherwise GOSUB pushes the statement behind the target of the jump before it: a GOSUB in a
  FOR loop returns to the wrong place from the second turn on.
- `ExitsNest` (`PendingExitUnwinds`): an EXIT names the innermost loop or procedure around it. A
  loop of another kind in between does not look at the flag and turns for ever, and
  without a construct to take it the flag stays up. All programs of `structured` are so.
- `AliasFree` (the run `procedures`; in the proofs `ReferencesLive` and `ImplementsByReference`): programs do not write one cell through two names in one
  call, do not pass constants by reference or SWAP and READ into them, do not SHARE a name
  twice, and pass FUNCTIONs arguments that mean the same in the callee's scope.
- `UsesWell`, `ErasesWell`, `SharesWell` (`Arrays`): an element that is a parameter is
  used through the parameter only while the call lasts, an array in use by a call or
  under a SHARED name is not erased, an erased array is not used again.
- `WellTyped` (`DataPool`): SWAP and by-reference arguments join variables of equal type.
- `OperandsFit` (`ExactResults`): no operand loses a digit in the type of the more precise one.
  Otherwise the manual's result and the code's are different numbers (`ManualResults`).
- `Readable` (`ReadExact`): items that the manual lets READ store in a variable of that type,
  no text in a number and no number in an integer type that does not hold it.
- `Lent` and `Moved` (`ConstantsStay`): the steps that may change a constant, READ, INPUT,
  SWAP and what writes through a parameter it is lent to. They are what the property says, not a
  premise: the theorem is about every program.
- `Known` (`FieldsAreLongest`): no field that begins with a point, no comma at the end of the
  format, no five carets.
- `FieldFits`, `NumberFits` (`ColumnsKept`): fields that `field` holds, and, for the digits,
  numbers that `num_str` holds, in fields without an exponent, whose digits are C's `%E`.
- `PlainArguments` (`ManualResults`, `ExactResults`, `CallsAsWritten`): no by-reference argument is itself
  a call, or an element whose subscript makes one.
- `~Sharing` (`GetSeesFile`, `ReadsBack`, `EofTellsInput`): a file is open on one number at
  a time. OPEN does not look whether it is open already, and two numbers have two buffers.
  (That a file open for OUTPUT or APPEND has one number is in the model always, by the manual's rule.)
- `ItemsPlain` (`ReadsBack`, `EofTellsInput`): the strings WRITE # writes contain no quote,
  which it does not double, and no NUL byte, at which they are cut; items are shorter than the
  buffer of INPUT #, and a number prints as digits, sign, point and exponent.
- `HasField` (`Ends`): the format has a field. (`phase = "overrun"` counts as an end: what
  happens from there on is not defined.)

## What is proved

Twenty-eight theorems, for every value of the constants and not only the runs':

| Theorem | Statement |
|---|---|
| `ControlFlowProofs!TypeCorrect` | `Spec => []TypeOK`; neither stack passes its limit |
| `ControlFlowProofs!ControlDefined` | `Spec => []ControlStaysDefined` |
| `ControlFlowProofs!HandlerCatches` | `Spec => []SetHandlerCatches` |
| `ControlFlowProofs!GosubAlwaysToNext` | `Spec => GosubReturnsToNext` |
| `ControlFlowProofs!ExitsAlwaysUnwind` | `Spec => PendingExitUnwinds` |
| `ControlFlowProofs!CallsAlwaysMatch` | `Spec /\ [][~AbandonsCall]_vars => []CallsMatch` |
| `ProcedureProofs!TypeCorrect` | `Spec => []TypeOK`, with `AliasFree` or without it |
| `ProcedureProofs!ReferencesAlwaysLive` | `Spec => []ReferencesLive`, given `AliasFree` |
| `ProcedureProofs!ConstantsAlwaysStay` | `Spec => ConstantsStay`, for every program |
| `ProcedureProofs!AlwaysByReference` | `Spec => ImplementsByReference`, given `AliasFree` |
| `ParserProofs!TypeAlways` | `Spec => []TypeOK` |
| `ParserProofs!TargetsExist` | `Spec => []JumpTargetsExist` |
| `StringsProofs!TypeCorrect` | `Spec => []TypeOK` |
| `StringsProofs!CountsAlwaysExact` | `Spec => []CountsExact` |
| `StringsProofs!WriterAlwaysSole` | `Spec => SoleWriter` |
| `DataPoolProofs!TypesAlwaysKept` | `Spec => []TypeOK` for `WellTyped` programs |
| `DataPoolProofs!ItemsAlwaysAccounted` | `Spec => []ItemsAccounted` |
| `DataPoolProofs!ReadAlwaysExact` | `Spec => []ReadExact`, given `WellTyped` |
| `ArrayProofs!TypeAlways` | `Spec => []TypeOK`, given `WellUsed` |
| `ArrayProofs!ArraysAlwaysSound` | `Spec => []ArraysSound`, given `WellUsed` |
| `ArrayProofs!AlwaysArrayStore` | `Spec => ImplementsArrayStore`, given `WellUsed` |
| `FilesProofs!TypeAlways` | `Spec => []TypeOK`, files shared or not |
| `FilesProofs!AlwaysReadsBack` | `Spec => []ReadsBack`, given `~Sharing` and `ItemsPlain` |
| `FilesProofs!EofAlwaysTells` | `Spec => []EofTellsInput`, given `~Sharing` and `ItemsPlain` |
| `PrintUsingProofs!TypeAlways` | `Spec => []TypeOK` |
| `PrintUsingProofs!LongestAlways` | `Spec => []FieldsAreLongest` |
| `PrintUsingProofs!ColumnsAlways` | `Spec => []ColumnsKept` |
| `PrintUsingProofs!PromisedAlways` | `Spec => []AsPromised` |

*Assumptions.* Those the modules state of their constants, which TLC evaluates in each
run: sizes are natural numbers; every program is `WellFormed`, that is, bodies are never the
main list and each resolved label is the index of a statement (`TargetsExist` is the
parser's side of that); in `Parser` the sources are sequences of tokens, none of them marked
as a label yet, and nothing is assumed of their order; in `Strings` the
variables, records and texts are finite sets; in `DataPool` items, constants and lists
have their types; in `Arrays` bounds and subscripts are sequences of integers that are not
empty, and sizes fit an `int`; in `Files` a statement has at least one item, texts are
sequences of bytes, the variables of a FIELD are different ones, and the record length
is positive; in `PrintUsing` formats and string values are sequences of characters, and a
number has a digit at least; in `Numbers` a SINGLE has a bit at least and powers of two are
positive. `TrapDiscipline`, `JumpsLast` and `ExitsNest` are
premises inside the properties they concern.

*The executor.* `TypeOK` is not inductive: a statement that runs must be one of the
program's, so `TypeInv` adds `StackOK` (only the bottom frame runs the main list,
and then it is the only frame, blocks are at positions from 1) and `StatementOK`
(`old_pc` is an index of the program while a statement is in progress, which is
what an error stores in `error_pc`). For the two trap properties `JumpInv` adds
`TrapOK` (while a statement is executed the jump buffer is armed exactly when
there is a handler; the handler's index, and `error_pc` while it runs, are in the
program) and `GosubOK` (a return index is at least 1). Each action has a lemma that it keeps
the type and one that it keeps `JumpInv`; `TopLevelOnly` is where `TrapDiscipline` is
used.

*Jumps and EXITs.* Both premises name an object of the program text: `JumpsLast` a set *J* of
the blocks that may jump, `ExitsNest` the construct *C* gives each block to; the invariants say
what the C stack looks like for any such *J* or *C*. A frame is `Spent` when it executes no
statement any more. `LastInv`: below a block of *J* all frames are spent, and either `pc` is
still the index of the statement in progress or all frames are (`PcKept`). A frame that executes
a statement is not spent, so GOSUB finds the `pc` it should. `NestInv`: below a block there are only
blocks down to the frame of its construct (`Nested`), and a flag that is up is the one of the
first frame that is no block (`Pending`). So that frame is the first to look at a flag
(`NoFlagUp`), and what is above it returns.

*Calls.* `CallsMatch` finds the innermost call below a frame with CHOOSE; the
invariant `CallInv` says the same of a set of indices (`Innermost`), so that it
can be followed through a push and a pop (`MatchedPush`, `MatchedPop`). Every
other step leaves the call frames where they are, with what they hold
(`SameCalls`), whatever it does to the blocks and loops around them. What the theorem
excludes is `AbandonsCall`: an error trapped while a call is on the C stack, or by a step
that has made the scope of one, which a FUNCTION has made current by then; and CLEAR in a
procedure. So these are the only ways in which the executor loses track of its calls; both are
real: `TrappedCall.cfg` shows the first, and `structured` takes neither.

*Procedures.* Two definitions are recursive functions: a FUNCTION's parameters are
bound one after the other, each in the scopes the last one left (`Bound`), and a return
writes its parameters back one after the other (`WrittenBack`). Induction over the numbers,
here and in the other proof modules that need it, is stated with sets: `LeastElement` comes from
the well-foundedness of `<`, `EveryNumber` and `UpTo` from that. With it
`BoundUnfolds` and `WrittenBackUnfolds` give the equations of the two functions, and
`BoundFacts`, `BoundMatches` and `WrittenBackSame` what they compute. The invariant `Inductive` is
`TypeOK` with three more parts. `Rooted`: a name that is not there has nothing, and
a reference leads to a declared name of its own or an outer scope. `FramesRooted`:
the same of each frame's bindings. Under `AliasFree`, `Disciplined`: a reference leads
to a name that is no reference, is strictly below it and has the same value and kind
(`Coherent`), and each binding of a frame is the reference its parameter holds
(`FrameKept`). TLC checked it on the run before it was proved.
`TypeOK` needs the first three parts alone, so it holds for programs that do not keep to the
discipline too, up to the crash that ends them.
The discipline makes a write-back a copy of a value onto itself
(`WrittenBackSame`): that is why the order of the write-backs, and writing back
parameters the body never changed, cannot be seen. CALL and FUNCTION bind their arguments in
different ways, in one step and in stages; `CallEnters` and `FunctionEnters` reduce both to
`Entering`, and what follows is proved once.
For the refinement each action has a lemma that it is a step of `ByReference` or
changes nothing there and keeps the constants. They rest on what an operator of scopes
does to the three abstract variables (`WidenedAbstract`, `StoredAbstract`,
`EnteredAbstract`, `AppendedMeaning`, `PrefixMeaning`): an assignment through a
reference changes two symbols and one location.

*Strings.* `Inv` is `TypeOK` with counts that may be any integer, and `Counted`: the
count of a block is the number of literals, variables, temps and fields that hold it
(`Held`) plus what was lost. Every action has one lemma, and each of these compares two sums:
what the calls of New, Ref, Unref and Write do to the count, and what the
assignments do to the holders (`HoldsUpdate`, `HoldsAppend`, `HoldsPop`). That counts are
natural numbers follows afterwards. For `SoleWriter` a step is cut in two: the calls
that only allocate and take holds leave the text of what is allocated alone (`Grows`), the
releases leave all texts alone (`Shrinks`), and in between stands the one write, to
a block with count 1 that a variable holds, which by `Counted` nobody else can hold
(`SoleHolder`).

*DATA.* `TypedInv` adds to `TypeOK` that a parameter has the type of the
variable it goes back to (`CallTyped`) and that each READ under way has a target left
(`ReadsServed`). `ItemsAccounted` needs that the items held by READs under way
are below `data_ptr` and that no two READs hold the same fresh one (`AccountInv`).
`ReadExact` is inductive with the types (`ExactInv`): a value moves by SWAP and by a
parameter's copy, which join equal types, so what is left to show is the store itself.
`ReadSays` goes through the conversions, and `RintIsNearest` says that rounding is off by
at most a half.

*Arrays.* The first part is about numbers. `Flat` is a recursive function of the
dimension, and a block is the product of the sizes; by induction over the dimensions
a flattened index is in the block (`FlatInRange`), two tuples with one
index are one (`FlatDecides`: the last subscript is the quotient, `SameDigits`) and each
cell has its tuple (`FlatReaches`, `SplitDigit`). This is the place where TLC sees two
dimensions and the theorem all of them. The second part is about pointers. The invariant `Inv` is
`Sound`, five statements about the heap, the scopes and the parameters: `Typed`;
`Live`, a symbol points to an array that is allocated or to none; `Sole`, an array has
one symbol that owns it; `Shares`, what SHARED entered is what the module has under
the name; `Lends`, a parameter leads into the block of an array that its caller, or one
further out, owns. `NothingDangles` alone is not inductive: that ERASE or the end of a call frees
nothing that is in use follows from `Sole`, `Shares` and `Lends`. Each statement is taken apart into
what it does to the heap and the scopes, with a lemma for each such step
(`InsertSound`, `EraseSound`, `PushSound`, `PopSound`, `ShareSound`, `StoreSound`,
`RedimSound`, `CopySound`), since SWAP, for one, may make two arrays before it exchanges two cells.
The third part is the refinement. It needs `Kept`: while a call lasts its parameter's
copy is what the cell holds, no other parameter leads to that cell, and some subscripts of
the program address it. So the write-back at the return stores what is there
already. `Views` and `NamesIn` are the abstract state as a function of a heap, scopes and
parameters; `SeenUsed`, `SpotStored`, `PushedView`, `PoppedView` and their like say how each step
changes it, and a lemma per statement (`DimRefines`, ... `SwapRefines`) concludes that it is
a step of `ArrayStore` or changes nothing there and keeps `Kept`. TLC checked `Inv` and `Kept` on
the run before they were proved.

*The parser.* A label is registered with the number of statements the program has
so far, while the statement it is in does not yet exist. `Inv` says that an entry is
below that number, or equal to it while a construct is open, and that the program
is at the bottom of the stack and nowhere else. A statement that ends at the top
level, a construct that closes and a DIM that moves up all make the number grow
(`StayRegistered`); at the end only the program is open, so all entries are below it.
`TypeOK` bounds `pos`. A parser that skips tokens it has not looked at would pass the end:
`InPlace` says that it stands at a token or, once it has looked for one and found none, just
behind the last. Each action has a lemma (`...Stays`) that it passes only what it has looked
at (`Ahead`), also NEXT, which reads a list of names of any length. That the pass over the labels
keeps each token's kind, or makes it a label, is an induction over its recursive
function (`LabelledUnfolds`, `LabelledTyped`).

*Files.* `TypeOK` is not inductive: `CLOSE` writes out what is pending, so that a file
stays within its bound needs `PendFits`, and `PendFits` needs `Sole`: while a handle writes
text nobody else has the file open. Both hold with `Sharing` too. `GetSeesFile` needs
`CacheExact`: what a handle has read ahead is what the file holds, unless the handle has
written since. The three other parts are about text. `Spelled(c, a, b, t)` says, without
a scan, that the bytes of `c` from `a` up to `b` are item `t` and its delimiter, and
`Parsed` that a file is a list of items, each where the last one ends. `Logged` is the invariant:
the bytes a WRITE # file holds, with those still pending, are `Parsed` as the items written,
and a handle that has read *k* of them stands where the *k*-th ends. A WRITE # appends, and what
was spelled before is so afterwards (`SpelledStays`, `ParsedMore`), also when an error ends the
line early and the last delimiter is a comma. That each branch of `WRITE #` spells its items is an
induction over the items of the line (`ParsedLine`), since their concatenation is a recursive
function. On the other side `SpelledReads` shows that the scan of `INPUT #`
stops where the item does, and `ItemAhead` puts the two together: each view of the file begins with the
next item, so INPUT # returns it, and EOF is true where the last one ends. A lemma for each
statement (`LogStep`, `LogRead`, `LogMove`, `LogSpoil`, `LogOpen`, `LogClose`, `LogDirectory`) shows that it
keeps `Logged`. After SEEK or LINE INPUT # the handle is not between two items, and `taken` is
`Unknown`; after PRINT # or PUT the file is not one of WRITE # any more (`Spoil`). TLC checked
the parts on the run before they were proved.

*PRINT USING.* The scan is a recursive function over the nine parts of a field, and
`ScanEnds` unfolds it: `EndsAt(f, p, e)` says that each part begins where the one before it ends.
For `FieldsAreLongest` the parts of any numeric text are laid out the same way (`Fits`), from
`IsNumeric` (`NumericFits`) and back to it (`FitsNumeric`). `Greedy` compares the two part by part:
what the scan has taken is at least what any other reading has, because a part that is taken early
(`**` before `$`, digits before a comma) can only be followed by less. So trying the parts once, in one
order, never misses a longer field. `ColumnsKept` counts: `FormatNumber` is a concatenation
(`Joined`), and its length and its nines are the sums of those of its parts; a comma every three digits
adds no digit (`GroupedFacts`). `AsPromised` relates a loop with two positions to two definitions
that recurse from the end of the format, the pieces (`Cut`) and the rest (`Verbatim`). `Down`
is the recursion they share: it has a solution for any format (`DownExists`) and one step of it
takes one piece off (`AtNext`). The invariant `ShowInv` says that *j* pieces of the present walk are
behind the position, that what is shown so far is the pieces repeated with the values that fall to
them (`Progress`), and, where the values are used up, that the last piece was a field (`Underway`);
from there on that what is shown and the rest of the format make up what was promised.
`DivMod` and `NthField` say that the closed form of `Repeated`, with its quotient and
remainder, counts the same walks and fields as the loop.

*Left to TLC.* Out of the prover's reach: `Terminates`, `Decided` and `Ends` (liveness
under fairness), and what RECURSIVE operators compute, which the SMT solver cannot be
given: the trees and values of `Expressions`. Recursive functions are within reach, as
`Procedures`, `Arrays`, `Parser`, `Files` and `PrintUsing` show. `ProgramAsWritten` and
`TokensAsWritten` compare with texts that the instance brings with their meaning, so they are no
theorems for every value of the constants. Not proved yet: the types of `Expressions` and the
invariants of `Lexer`; see the plan.

## Where the code and its documents part

`restore_label` is a run: nothing fills `data_labels`, so RESTORE with a label goes to
the first item. Those of the table of broken promises have a property and a configuration. The others were met while modelling; the models have them as the code has
them, or a precondition excludes them.

- *Control.* A trapped error in a SUB leaves `call_sp` and `current_scope` as the SUB
  had them (`I`:3021, `implementation_phase_6.md:630`). EXIT SUB in a DO loop never leaves
  the loop (`I`:1086, `phase_4.md:408`). An error in the handler enters it again
  (`phase_6.md:631` has it fatal). GOTO out of a loop or block only sets `pc`; the rest of
  the block runs first (`phase_1.md:2454`). A GOTO to its own statement falls through
  (`I`:3041). "No RESUME" is never raised (`phase_6.md:643`), ERR and ERL are not reset
  (`:627`). The 257th call is not refused (`phase_4.md:1052`).
- *Variables.* By-reference arguments are copied and written back (`phase_4.md:106`,
  `:1056` say alias): passing one variable twice, or writing it under its
  module-level name, loses an assignment. A FUNCTION's by-reference arguments are resolved
  in its own scope (`I`:768, `phase_4.md:1053`), so `ten%(inc%(1))` finds an array
  `inc%` there and gives 0, not 20 (`:1050`). A parameter without a type always receives and
  returns 0 (`:1054`). STATIC does not persist (`I`:1365, `:1057`). A CONST can be
  changed through a parameter, READ, INPUT and SWAP. SHARED twice dereferences a null
  pointer. An INPUT or LSET to a reference changes only the copy, READ only the cell. DIM
  and CONST in a SUB or a block become module-level statements (`P`:1081,
  `freebasic.txt:1832`). A name's suffix is dropped: `a$` and `a%` are one variable, of
  the type of its first mention.
- *Arrays.* After ERASE of a dynamic array PRINT of an element crashes, an assignment is
  "Subscript out of range", and REDIM has no effect (`phase_3.md:531`). `a = 1: PRINT a(1)`
  crashes. `REDIM a(3 TO 1, 2)` leaves an array without elements. Sizes are products of
  `int` that may overflow (`array.c:18`); UBOUND of `b(40000)` is -25536.
- *Expressions and numbers.* `4 ^ - 2` is 0 (`freebasic.txt:2240`: .0625). `-2^2` is 4 and
  `NOT 1 = 2` is 0: a sign or NOT binds tighter than any operator
  (`phase_1.md:79`). `1 NOT 2` is 0 without an error. LONG overflow is silent
  (`freebasic.txt:2335`), operands of different precision are not converted to one before the
  operation (`freebasic.txt:2091`), `ABS` of -32768 is "Overflow", `x& \ -1` with the least LONG kills
  the process.
- *DATA.* An overflow that is trapped and RESUMEd reads the items after the lost one into
  the statement's targets. SWAP of different types does not complain
  (`freebasic.txt:17432`). Unquoted text loses its blanks. A string read into a
  number is `atof` of it, without an error, and so is a number too large for a LONG
  (`freebasic.txt:14378`, `:14384`). What a READ stores in a parameter the write-back undoes.
- *Strings and records.* MKI$ and GET # take a hold nobody drops (`phase_2.md:1752`); a
  trapped error drops none (`phase_6.md:635`). Assigning a record shares it (`V`:137,
  `phase_3.md:1274` asks for a deep copy); `Strings` has the sharing, but the run has one
  record, since two exceed its time.
- *Files.* GET returns a buffered record after PUT on another number (`freebasic.txt:12144`).
  FIELD variables are empty, so LSET has no room before the first GET
  (`freebasic.txt:10902`); FIELD makes its variables in the scope it runs in. An item of
  PRINT # whose FUNCTION CLOSEs the number leaves a pointer to a closed file (`I`:2206).
  KILL of an open file is allowed (`freebasic.txt:9812`); GET and PUT in other modes are
  ignored; a GET past the end does not advance and, in BINARY mode, leaves bytes
  unset; a string with a quote or a NUL byte in it, or longer than the buffer of INPUT #, does not read back. INPUT$ at the end of a file
  never returns.
- *PRINT USING.* A format without a field and with a value never returns. `##.##-` with
  -68.95 shows `%-68.95-`, `##+` with -5 `-5-`; `**#.#` and `##,###.##` mark
  numbers that fit with % (`phase_2.md:1644`), so does `$$#` (`freebasic.txt:13857`).
  `##.##^^^^` shows the number in C's `E` form. `.##` is a literal point and a field of two (`freebasic.txt:13914`), a comma at the end of the format belongs to the field
  (`freebasic.txt:13834`), and a fifth caret is a literal (`freebasic.txt:13844`). A number longer than `num_str` is cut, and a field
  longer than `field` is written past its end. With fewer values than fields the rest of the
  format is printed as it is, `#` included. A `;` at the end does not keep the line
  (`phase_2.md:1772`).
- *The lexer.* `PRINT#1` and `CLOSE#1` without a blank are DOUBLE variables (`src/README.md:17`
  has `PRINT#`). A string that is not closed runs across line ends, which are not
  counted. `1ELSE` loses its E to the exponent. A call of a SUB without arguments between two
  colons becomes a label and is lost (`L`:740). Characters that start no token, such as `?`, are
  skipped. `&H` numbers up to FFFF are INTEGER, `&` numbers above 77777 LONG.
- *The parser.* A stray `END IF` (or END SELECT, SUB, FUNCTION) in a construct it does not
  end, such as an IF around a FOR that lacks its NEXT, is put back for ever: the
  parser hangs. END alone is a syntax error in a block IF or SELECT CASE. NEXT j, i
  ends one loop. A line that ends in a colon before NEXT, and SELECT CASE x: CASE on
  one line, are refused. DATA in a body is not in the pool (`implementation.md:47`).

## What is not modelled

The rounding of DOUBLE, the digits of a number as it is printed and the
functions that compute with them (SIN, SQR, RND, VAL) are out of TLC's reach. The console,
SHELL, directories and time are output, or calls passed to the operating system, without
state of their own. MID$ and its like are pure functions of their arguments, which matter
here for the strings they hold. DEFtype, OPTION BASE and whole arrays as parameters, TYPE
definitions with nested records, fixed-length strings, and the file statements LOF, LOC, FREEFILE,
INPUT$ and GET and PUT of numbers and records are not modelled yet. The size limits of
strings, names and literals are left out, but for the arrays of PRINT USING and INPUT #. FBString, array and scope memory is assumed to be available:
`fb_malloc` exits the process otherwise. Undefined behaviour is in the models where
the code can reach it (`status = "undefined"`, `crashed`, `"CRASH"` values, `Unset`
bytes, `WildLong`).

## Plan

Done, in this order: `ControlFlow` with its proofs, `Procedures`, `Strings`, `Files`,
`Parser`; then `Numbers` with `Expressions`, `Arrays` with `ArrayStore`, `DataPool`,
`PrintUsing`, `Lexer`, and the proofs of `Strings`, `DataPool` and of the calls; then the
proofs of `Procedures` and of `Arrays` with their refinements, of `ReadExact`, of `Parser`'s
types, of `Files`, of `PrintUsing`, and of the jumps and EXITs. Next:

1. Proofs: the types of `Lexer`, which bound every index into the source, and `Tokenized`.
2. `Files`: GET and PUT of numbers, LOF, LOC, FREEFILE; an item of PRINT # that closes its
   own number, as a composition with the calls of `ControlFlow`.
3. Types of variables (DEFtype, first mention), nested records and two record variables in
   `Strings`.
4. Whole arrays as parameters in `Arrays`; a trapped error in a call there.
