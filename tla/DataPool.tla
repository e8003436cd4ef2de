--------------------------------- MODULE DataPool ---------------------------------
(***************************************************************************)
(* READ, RESTORE and what they do to variables of a type: exec_read,       *)
(* exec_restore, the coercion of LET, SWAP, and the parameter of a SUB,    *)
(* with errors that stop the program or are trapped and RESUMEd.           *)
(*                                                                         *)
(* READ goes through its targets one at a time.  A target may be an array  *)
(* element whose subscript calls a FUNCTION; the FUNCTION's statements run *)
(* after READ has taken the item and before it stores it, and they may     *)
(* READ and RESTORE themselves.                                            *)
(*                                                                         *)
(* A variable has the type of its first mention, here that of Init.  A     *)
(* string item is kept as atof of its text, 0 for letters; the text that   *)
(* READ makes of a number is kept as that number.  Statements come in any order, so a behaviour is that of some  *)
(* program.  ON ERROR is not in force during a CALL: what a trapped error  *)
(* leaves of a procedure is the business of ControlFlow.                   *)
(***************************************************************************)
EXTENDS Numbers, SequencesExt

CONSTANTS
    Names,        \* simple variables of the module level
    Elements,     \* array elements; their subscript calls a FUNCTION
    VarTypes,     \* the types they may have
    Pool,         \* the items of the DATA statements, in order
    DataAt,       \* label -> the index of the first item behind it
    Lists,        \* the lists of targets of the program's READs
    LetValues,    \* the constants it assigns
    Depth,        \* bound: READs under way at one time
    WellTyped     \* TRUE: SWAP and by-reference only between equal types

Param  == "param"            \* the parameter of the SUB
Cells  == Names \cup Elements
Items  == 1..Len(Pool)
Text(q) == [type |-> "STRING", what |-> q]

Unset  == "unset"            \* ptype of a parameter without suffix or AS
NoCall == [to |-> "none", type |-> Unset, value |-> Integer(0), from |-> 0]
NoStmt == <<"none">>

ASSUME DataOK ==
    /\ Param \notin Cells /\ Names \cap Elements = {}
    /\ \A l \in DOMAIN DataAt : DataAt[l] \in 0..Len(Pool)
    /\ \A l \in Lists : l # <<>>
    /\ Depth \in Nat \ {0} /\ WellTyped \in BOOLEAN

Values == [type : Types, what : Int \X Nat]

ASSUME TypesOK ==
    /\ VarTypes \subseteq Types /\ Pool \in Seq(Values) /\ LetValues \subseteq Values
    /\ Lists \subseteq Seq(Cells \cup {Param})
    /\ \A it \in Items : Pool[it].type \in {"INTEGER", "LONG"} => Pool[it].what[2] = 1

VARIABLES
    types,      \* the type of every variable and element
    cells,      \* what they hold
    call,       \* the SUB that is active: its parameter's address, type and copy,
                \* and from of the copy
    data_ptr,   \* items taken
    reads,      \* the READs under way, innermost last: [list, i, item, fresh]
    trap,       \* ON ERROR GOTO is in force
    failed,     \* the statement RESUME goes back to
    again,      \* the statement RESUME has gone back to
    status,     \* running, or stopped by an error
    from,       \* history: the item a cell's value was READ from, 0 for none
    stored, dropped   \* history: how often an item was stored, or lost to an
                      \* error, since the last RESTORE

vars == <<types, cells, call, data_ptr, reads, trap, failed, again, status, from,
          stored, dropped>>
history == <<from, stored, dropped>>

Zero(t) == IF t = "STRING" THEN Text(<<0, 1>>) ELSE Num(t, <<0, 1>>)
Never   == [i \in Items |-> 0]

Init ==
    /\ types \in [Cells -> VarTypes]
    /\ cells = [c \in Cells |-> Zero(types[c])]
    /\ call = NoCall
    /\ data_ptr = 0
    /\ reads = <<>>
    /\ trap = FALSE
    /\ failed = NoStmt /\ again = NoStmt
    /\ status = "running"
    /\ from = [c \in Cells |-> 0]
    /\ stored = Never /\ dropped = Never

--------------------------------------------------------------------------------
(* Names ending in "Mutant" are wrong variants of the definition that       *)
(* follows them, each with one plausible bug; nothing in Spec uses them.    *)

(* fbval_coerce with a target that is no type makes every number 0.         *)
CoerceTo(v, t) ==
    IF t # Unset THEN Coerce(v, t)
    ELSE IF v.type = "STRING" THEN Error(TypeMismatch) ELSE Integer(0)

ForReadMutant(v, t) ==    \* one number is as good as another
    CASE t = "STRING" /\ v.type # "STRING" -> Text(v.what)
      [] t # "STRING" /\ v.type = "STRING" -> CoerceTo(Num("DOUBLE", v.what), t)
      [] OTHER -> v

(* exec_read: a number becomes a string, a string the number it spells.     *)
ForRead(v, t) ==
    CASE t = "STRING" /\ v.type # "STRING" -> Text(v.what)
      [] t # "STRING" /\ v.type = "STRING" -> CoerceTo(Num("DOUBLE", v.what), t)
      [] OTHER -> CoerceTo(v, t)

(* Where a target's value is, and which type it has to be: of an element     *)
(* the type of what it holds, of a variable that of its symbol.             *)
Address(n) == IF n = Param THEN call.to ELSE n
TypeOf(n)  == CASE n = Param      -> call.type
                [] n \in Elements -> cells[n].type
                [] OTHER          -> types[n]

Innermost  == Last(reads)
Target     == Innermost.list[Innermost.i]
Holding    == reads # <<>> /\ Innermost.item # 0

(* A statement starts at the module level or in the SUB, or in a FUNCTION   *)
(* that a subscript calls.  After a RESUME it is the one resumed.           *)
MayStart(stmt) ==
    /\ status = "running"
    /\ again \in {NoStmt, stmt}
    /\ reads = <<>> \/ (Holding /\ Target \in Elements)

(* fb_error: caught, it abandons everything up to the top-level statement.  *)
Fail(stmt) ==
    /\ IF trap THEN failed' = (IF reads = <<>> THEN stmt ELSE <<"read", reads[1].list>>)
                    /\ UNCHANGED status
       ELSE status' = "stopped" /\ UNCHANGED failed
    /\ reads' = <<>>
    /\ again' = NoStmt
    /\ dropped' = [i \in Items |->
                     dropped[i] + Cardinality({d \in 1..Len(reads) :
                                     reads[d].fresh /\ reads[d].item = i})]
    /\ UNCHANGED <<types, cells, call, data_ptr, trap, from, stored>>

--------------------------------------------------------------------------------
(* exec_read.                                                               *)

ReadStart(list) ==
    /\ MayStart(<<"read", list>>)
    /\ Len(reads) < Depth
    /\ Contains(list, Param) => call # NoCall /\ reads = <<>>
    /\ again' = NoStmt
    /\ reads' = Append(reads, [list |-> list, i |-> 1, item |-> 0, fresh |-> TRUE])
    /\ UNCHANGED <<types, cells, call, data_ptr, trap, failed, status, history>>

Reading == status = "running" /\ reads # <<>> /\ ~Holding

MovedMutant(step) == IF step = "store" THEN data_ptr + 1 ELSE data_ptr

(* data_ptr++ follows the copy of the item, before the target is looked for. *)
Moved(step) == IF step = "copy" THEN data_ptr + 1 ELSE data_ptr

TakeItem ==
    /\ Reading /\ Innermost.i <= Len(Innermost.list) /\ data_ptr < Len(Pool)
    /\ reads' = [reads EXCEPT ![Len(reads)] =
                    [Innermost EXCEPT !.item = data_ptr + 1, !.fresh = TRUE]]
    /\ data_ptr' = Moved("copy")
    /\ UNCHANGED <<types, cells, call, trap, failed, again, status, history>>

OutOfData ==
    /\ Reading /\ Innermost.i <= Len(Innermost.list) /\ data_ptr = Len(Pool)
    /\ Fail(NoStmt)

(* The target's address is found, the item converted and stored; a copy     *)
(* that a parameter keeps does not change.                                  *)
StoreItem ==
    LET it == Innermost.item
        a  == Address(Target)
        v  == ForRead(Pool[it], TypeOf(Target))
    IN
    /\ status = "running" /\ Holding
    /\ IF Failed(v) THEN Fail(NoStmt)
       ELSE /\ cells' = [cells EXCEPT ![a] = v]
            /\ from' = [from EXCEPT ![a] = it]
            /\ stored' = [stored EXCEPT ![it] = @ + (IF Innermost.fresh THEN 1 ELSE 0)]
            /\ reads' = [reads EXCEPT ![Len(reads)] =
                            [Innermost EXCEPT !.i = Innermost.i + 1, !.item = 0]]
            /\ data_ptr' = Moved("store")
            /\ UNCHANGED <<types, call, trap, failed, again, status, dropped>>

ReadEnd ==
    /\ Reading /\ Innermost.i > Len(Innermost.list)
    /\ reads' = Front(reads)
    /\ UNCHANGED <<types, cells, call, data_ptr, trap, failed, again, status, history>>

(* parser_parse never fills data_labels.                                    *)
data_labels == <<>>

(* exec_restore: a label that data_labels does not have is the beginning.   *)
RestoreIndex(l) == IF l \in DOMAIN data_labels THEN data_labels[l] ELSE 0

ExecRestore(l) ==
    /\ MayStart(<<"restore", l>>)
    /\ data_ptr' = RestoreIndex(l)
    /\ reads' = [d \in 1..Len(reads) |-> [reads[d] EXCEPT !.fresh = FALSE]]
    /\ again' = NoStmt
    /\ stored' = Never /\ dropped' = Never
    /\ UNCHANGED <<types, cells, call, trap, failed, status, from>>

--------------------------------------------------------------------------------
(* The other statements that store.                                         *)

(* exec_assign_value; through the parameter, the cell and then the copy.    *)
ExecLet(n, w) ==
    LET stmt == <<"let", n, w>>
        v    == CoerceTo(w, TypeOf(n))
    IN
    /\ MayStart(stmt)
    /\ n = Param => call # NoCall /\ reads = <<>>
    /\ IF Failed(v) THEN Fail(stmt)
       ELSE /\ cells' = [cells EXCEPT ![Address(n)] = v]
            /\ from' = [from EXCEPT ![Address(n)] = 0]
            /\ call' = IF n = Param THEN [call EXCEPT !.value = v, !.from = 0] ELSE call
            /\ again' = NoStmt
            /\ UNCHANGED <<types, data_ptr, reads, trap, failed, status, stored, dropped>>

(* exec_swap looks at no type.                                              *)
ExecSwap(n, m) ==
    /\ MayStart(<<"swap", n, m>>)
    /\ WellTyped => types[n] = types[m]
    /\ cells' = [cells EXCEPT ![n] = cells[m], ![m] = cells[n]]
    /\ from' = [from EXCEPT ![n] = from[m], ![m] = from[n]]
    /\ again' = NoStmt
    /\ UNCHANGED <<types, call, data_ptr, reads, trap, failed, status, stored, dropped>>

(* exec_call with one argument by reference: the parameter copies what the   *)
(* variable holds, in its own type.                                         *)
ExecCall(n, t) ==
    LET v == CoerceTo(cells[n], t) IN
    /\ MayStart(NoStmt) /\ reads = <<>> /\ call = NoCall /\ ~trap
    /\ WellTyped => t = types[n]
    /\ IF Failed(v) THEN Fail(NoStmt)
       ELSE /\ call' = [to |-> n, type |-> t, value |-> v,
                         from |-> IF t = types[n] THEN from[n] ELSE 0]
            /\ UNCHANGED <<types, cells, data_ptr, reads, trap, failed, again, status,
                           history>>

(* The end of the SUB: the copy is written back as it is, over whatever the *)
(* variable holds by now.                                                   *)
ProcedureReturn ==
    /\ MayStart(NoStmt) /\ reads = <<>> /\ call # NoCall
    /\ cells' = [cells EXCEPT ![call.to] = call.value]
    /\ from' = [from EXCEPT ![call.to] = call.from]
    /\ call' = NoCall
    /\ UNCHANGED <<types, data_ptr, reads, trap, failed, again, status, stored, dropped>>

--------------------------------------------------------------------------------
(* Error trapping.                                                          *)

ExecOnError ==
    /\ MayStart(NoStmt) /\ reads = <<>> /\ call = NoCall /\ ~trap
    /\ trap' = TRUE
    /\ UNCHANGED <<types, cells, call, data_ptr, reads, failed, again, status, history>>

(* RESUME runs the statement again from its beginning.                      *)
ExecResume ==
    /\ MayStart(NoStmt) /\ reads = <<>> /\ failed # NoStmt
    /\ again' = failed /\ failed' = NoStmt
    /\ UNCHANGED <<types, cells, call, data_ptr, reads, trap, status, history>>

ExecResumeNext ==
    /\ MayStart(NoStmt) /\ reads = <<>> /\ failed # NoStmt
    /\ failed' = NoStmt
    /\ UNCHANGED <<types, cells, call, data_ptr, reads, trap, again, status, history>>

Stopped == status = "stopped" /\ UNCHANGED vars

Next ==
    \/ \E l \in Lists : ReadStart(l)
    \/ TakeItem \/ OutOfData \/ StoreItem \/ ReadEnd
    \/ \E l \in DOMAIN DataAt : ExecRestore(l)
    \/ \E n \in Names \cup {Param}, v \in LetValues : ExecLet(n, v)
    \/ \E n, m \in Names : ExecSwap(n, m)
    \/ \E n \in Names, t \in VarTypes \cup {Unset} : ExecCall(n, t)
    \/ ProcedureReturn
    \/ ExecOnError \/ ExecResume \/ ExecResumeNext
    \/ Stopped

Spec == Init /\ [][Next]_vars

--------------------------------------------------------------------------------
(* Properties.                                                              *)

Read == [list : Lists, i : Nat, item : {0} \cup Items, fresh : BOOLEAN]

(* The shape of the state: READs are nested no deeper than Depth, every one *)
(* is inside its list but for the moment it ends, and all but the innermost *)
(* hold an item for an array element.                                       *)
Shape ==
    /\ types \in [Cells -> VarTypes] /\ cells \in [Cells -> Values]
    /\ call \in [to : Names \cup {"none"}, type : VarTypes \cup {Unset}, value : Values,
                 from : {0} \cup Items]
    /\ data_ptr \in 0..Len(Pool)
    /\ reads \in Seq(Read) /\ Len(reads) <= Depth
    /\ \A d \in 1..Len(reads) :
          /\ reads[d].i \in 1..(Len(reads[d].list) + 1)
          /\ d < Len(reads) => reads[d].item # 0 /\ reads[d].list[reads[d].i] \in Elements
    /\ trap \in BOOLEAN /\ status \in {"running", "stopped"}
    /\ from \in [Cells -> {0} \cup Items]

(* What a variable holds is of the type the variable has, so an int16_t is  *)
(* never read through the pointer of a string.  exec_read, exec_swap and    *)
(* exec_call write through an address whose type nobody stores, and only    *)
(* some of them convert: SWAP and a parameter without a type do not, so     *)
(* this holds of the programs that are WellTyped.                           *)
TypesKept == \A c \in Cells : cells[c].type = types[c]

TypeOK == Shape /\ TypesKept

(* Whatever READs do inside each other and whatever errors abandon, every   *)
(* item before data_ptr has gone to exactly one target since the last       *)
(* RESTORE, or is held by a READ on its way there, or was lost with a READ  *)
(* that failed; and no item after it has gone anywhere.  Between the copy   *)
(* of the item and its store arbitrary statements may run.                  *)
Held(i) == Cardinality({d \in 1..Len(reads) : reads[d].item = i /\ reads[d].fresh})
ItemsAccounted ==
    \A i \in Items : stored[i] + dropped[i] + Held(i) = (IF i <= data_ptr THEN 1 ELSE 0)

(* The items freebasic.txt lets READ store in a variable of type t: no      *)
(* string in a number (14378), no number too large for the type (14384).    *)
Readable(item, t) ==
    /\ item.type = "STRING" => t = "STRING"
    /\ t \in {"INTEGER", "LONG"} => item.what[2] # 0 /\ Rint(item.what) \in LONGs

(* What READ makes of such an item: the nearest whole number in an INTEGER  *)
(* or LONG, the SINGLE it rounds to, otherwise the same number, or text.    *)
Says(v, item) ==
    CASE v.type \in {"INTEGER", "LONG"} ->
            LET twice == 2 * (v.what[1] * item.what[2] - item.what[1])
            IN  twice <= item.what[2] /\ -twice <= item.what[2]
      [] v.type = "SINGLE" /\ item.type # "SINGLE" -> v.what = ToSingle(item.what)
      [] OTHER -> v.what = item.what

(* A value that was READ goes on saying what its item says, rounded once    *)
(* and never cut, through the FUNCTIONs that run between the copy of the    *)
(* item and its store, SWAPs, and the copies of parameters: what comes back *)
(* at the end of a SUB is the value from before it, whole.  Items that the  *)
(* manual makes errors and exec_read stores are StringsRefused and          *)
(* LargeRefused.                                                            *)
Faithful(v, it) == it # 0 /\ Readable(Pool[it], v.type) => Says(v, Pool[it])
ReadExact == \A c \in Cells : Faithful(cells[c], from[c])

(* freebasic.txt:14378: "Attempting to read a string value into a numeric   *)
(* variable produces a run-time syntax error."  exec_read stores atof.      *)
StringsRefused ==
    \A c \in Cells : from[c] # 0 /\ Pool[from[c]].type = "STRING" => cells[c].type = "STRING"

(* freebasic.txt:14384: "Reading a numeric value too large for a variable   *)
(* produces a run-time error."  fbval_coerce checks INTEGER, not LONG.      *)
LargeRefused ==
    \A c \in Cells : from[c] # 0 /\ Pool[from[c]].type # "STRING"
                        => Readable(Pool[from[c]], cells[c].type)

(* implementation_phase_4.md:1053: "Modifications to parameters visible in  *)
(* caller."  A READ into the parameter changes the variable, not the copy   *)
(* that exec_call writes back over it.                                      *)
ReadsStand ==
    [][ProcedureReturn /\ from[call.to] # 0 => from'[call.to] = from[call.to]]_vars

(* implementation.md:47 and freebasic.txt:14634: after RESTORE with a label *)
(* the next READ gets the first item of the DATA statement there.           *)
RestoresToLabel ==
    [][\A l \in DOMAIN DataAt : ExecRestore(l) => data_ptr' = DataAt[l]]_vars
================================================================================
