-------------------------------- MODULE Strings --------------------------------
(***************************************************************************)
(* Strings and records in memory: FBString's reference counts and copy on  *)
(* write, who holds a string, and the statements that take and drop holds. *)
(*                                                                         *)
(* A string is held by a literal of the program (the AST keeps one hold),  *)
(* by variables, by fields of record instances, and by temps, the FBValues *)
(* in C locals while a statement evaluates its expressions.  A step is one *)
(* evaluation or one statement's use of what has been evaluated, in the    *)
(* order of its releases and copies.  A longjmp forgets the temps.         *)
(*                                                                         *)
(* What functions compute is left open: their result is any text.          *)
(***************************************************************************)
EXTENDS Integers, Sequences, FiniteSets

CONSTANTS
    Vars,      \* names of string variables
    Records,   \* names of variables of a TYPE with one string field
    Texts,     \* what a string may contain
    Empty,     \* the empty string, one of Texts
    FirstHolds, \* the block each literal and each record starts with
    MaxStr,    \* bound: FBString blocks the allocator has
    MaxTemps,  \* bound: values an expression has evaluated at one time
    MaxHolds   \* bound: the largest refcount of a block

Ids  == 1..MaxStr
None == 0      \* no block, or a variable that has no symbol yet

ASSUME ConstantsOK ==
    /\ Empty \in Texts /\ IsFiniteSet(Vars) /\ IsFiniteSet(Records) /\ IsFiniteSet(Texts)
    /\ MaxTemps \in Nat /\ MaxStr \in Nat /\ MaxHolds \in Nat
    /\ FirstHolds \in [Texts \cup Records -> Ids] /\ Texts \cap Records = {}
    /\ \A x, y \in Texts \cup Records : FirstHolds[x] = FirstHolds[y] => x = y

VARIABLES
    rc,        \* refcount of each block; 0 when it is not allocated
    text,      \* its contents
    literal,   \* the block of each literal of the program
    vars,      \* the block of each variable
    temps,     \* the blocks of the values being computed
    instance,  \* the instance each record variable points to
    field,     \* the block of the string field of each instance
    lost       \* history: holds on each block that nobody will release

strVars == <<rc, text, literal, vars, temps, instance, field, lost>>

(* The holds on block s, each with who has it.                              *)
Holders(s) ==
    {<<"literal", t>> : t \in {u \in Texts : literal[u] = s}}
    \cup {<<"variable", v>> : v \in {w \in Vars : vars[w] = s}}
    \cup {<<"temp", i>> : i \in {j \in 1..Len(temps) : temps[j] = s}}
    \cup {<<"field", r>> : r \in {q \in Records : field[q] = s}}

--------------------------------------------------------------------------------
(* Names ending in "Mutant" are wrong variants of the definition that       *)
(* follows them, each with one plausible bug; nothing in Spec uses them.    *)

(* FBString.  The operators take and return a heap h, [rc, text].           *)

Heap == [rc |-> rc, text |-> text]
Commit(h) == rc' = h.rc /\ text' = h.text

Free(h)      == {s \in Ids : h.rc[s] = 0}
Available(h) == Free(h) # {}
NextFree(h)  == CHOOSE s \in Free(h) : TRUE     \* any will do

(* fbstr_new: a block that is held once, by the caller.                     *)
New(h, t) ==
    LET s == NextFree(h) IN
    [rc |-> [h.rc EXCEPT ![s] = 1], text |-> [h.text EXCEPT ![s] = t]]

MayRef(s) == rc[s] < MaxHolds
Ref(h, s) == [h EXCEPT !.rc[s] = @ + 1]

(* fbstr_unref; a block whose count reaches 0 is freed, its contents gone.  *)
Unref(h, s) ==
    IF s = None THEN h
    ELSE [h EXCEPT !.rc[s] = @ - 1, !.text[s] = IF h.rc[s] > 1 THEN @ ELSE Empty]

Write(h, s, t) == [h EXCEPT !.text[s] = t]

CowMutant(h, s) ==    \* the literal's hold is not counted
    IF h.rc[s] <= 2 THEN [h |-> h, s |-> s]
    ELSE [h |-> Unref(New(h, h.text[s]), s), s |-> NextFree(h)]

(* fbstr_cow: s itself when it is held once, else a copy of it.             *)
Cow(h, s) ==
    IF h.rc[s] = 1 THEN [h |-> h, s |-> s]
    ELSE [h |-> Unref(New(h, h.text[s]), s), s |-> NextFree(h)]

--------------------------------------------------------------------------------
(* The program is parsed: every literal holds its string, every record      *)
(* variable has been given an instance of its own.                          *)
Init ==
    /\ literal = [t \in Texts |-> FirstHolds[t]]
    /\ field = [r \in Records |-> FirstHolds[r]]
    /\ instance = [r \in Records |-> r]
    /\ rc = [s \in Ids |-> IF \E x \in Texts \cup Records : FirstHolds[x] = s THEN 1 ELSE 0]
    /\ text = [s \in Ids |-> IF \E t \in Texts : FirstHolds[t] = s
                             THEN CHOOSE t \in Texts : FirstHolds[t] = s ELSE Empty]
    /\ vars = [v \in Vars |-> None]
    /\ temps = <<>>
    /\ lost = [s \in Ids |-> 0]

Lose(more) == lost' = [s \in Ids |-> lost[s] + more[s]]

Top       == temps[Len(temps)]
Popped(n) == SubSeq(temps, 1, Len(temps) - n)
Room      == Len(temps) < MaxTemps

--------------------------------------------------------------------------------
(* Expressions.                                                             *)

(* A literal, or an item of the DATA pool: a copy of the FBValue.           *)
EvalLiteral(t) ==
    /\ Room /\ MayRef(literal[t])
    /\ Commit(Ref(Heap, literal[t])) /\ temps' = Append(temps, literal[t])
    /\ UNCHANGED <<literal, vars, instance, field, lost>>

(* An unknown variable is created holding a new empty string.               *)
EvalVariable(v) ==
    LET new == vars[v] = None
        h   == IF new THEN New(Heap, Empty) ELSE Heap
        s   == IF new THEN NextFree(Heap) ELSE vars[v]
    IN
    /\ Room /\ (IF new THEN Available(Heap) ELSE MayRef(s))
    /\ Commit(Ref(h, s))
    /\ vars' = [vars EXCEPT ![v] = s] /\ temps' = Append(temps, s)
    /\ UNCHANGED <<literal, instance, field, lost>>

EvalField(r) ==
    /\ Room /\ MayRef(field[instance[r]])
    /\ Commit(Ref(Heap, field[instance[r]])) /\ temps' = Append(temps, field[instance[r]])
    /\ UNCHANGED <<literal, vars, instance, field, lost>>

(* a$ + b$: the result is made, then both operands are released.            *)
EvalConcat(t) ==
    /\ Len(temps) >= 2 /\ Available(Heap)
    /\ Commit(Unref(Unref(New(Heap, t), temps[Len(temps) - 1]), Top))
    /\ temps' = Append(Popped(2), NextFree(Heap))
    /\ UNCHANGED <<literal, vars, instance, field, lost>>

(* LEFT$, UCASE$ and the like: the result is made, the argument released.   *)
EvalFunction(t) ==
    /\ Len(temps) >= 1 /\ Available(Heap)
    /\ Commit(Unref(New(Heap, t), Top))
    /\ temps' = Append(Popped(1), NextFree(Heap))
    /\ UNCHANGED <<literal, vars, instance, field, lost>>

(* MKI$ and its kin pass a new string to fbval_string, which takes a second *)
(* hold on it.                                                              *)
EvalMk(t) ==
    /\ Room /\ Available(Heap)
    /\ Commit(Ref(New(Heap, t), NextFree(Heap)))
    /\ temps' = Append(temps, NextFree(Heap))
    /\ Lose([s \in Ids |-> IF s = NextFree(Heap) THEN 1 ELSE 0])
    /\ UNCHANGED <<literal, vars, instance, field>>

--------------------------------------------------------------------------------
(* Statements.  Each ends the evaluation of its own expressions: it starts  *)
(* with exactly the values it uses.                                         *)

(* PRINT, a comparison, an IF: the value is used and released.              *)
Consume ==
    /\ Len(temps) = 1
    /\ Commit(Unref(Heap, Top)) /\ temps' = <<>>
    /\ UNCHANGED <<literal, vars, instance, field, lost>>

ExecLetMutant(v) ==        \* the value is stored without a hold of its own
    /\ Len(temps) = 1 /\ (vars[v] = None => Available(Heap))
    /\ Commit(Unref(Unref(Heap, Top), vars[v]))
    /\ vars' = [vars EXCEPT ![v] = Top] /\ temps' = <<>>
    /\ UNCHANGED <<literal, instance, field, lost>>

(* LET v = value, FOR, READ: a coerced copy, the value released, the old    *)
(* contents released.  A variable is created before it is assigned.         *)
ExecLet(v) ==
    LET h == IF vars[v] = None THEN New(Heap, Empty) ELSE Heap
        old == IF vars[v] = None THEN NextFree(Heap) ELSE vars[v]
    IN
    /\ Len(temps) = 1 /\ (vars[v] = None => Available(Heap))
    /\ Commit(Unref(Unref(Ref(h, Top), Top), old))
    /\ vars' = [vars EXCEPT ![v] = Top] /\ temps' = <<>>
    /\ UNCHANGED <<literal, instance, field, lost>>

ExecLetFieldMutant(r) ==   \* the moved value is released as well
    /\ Len(temps) = 1
    /\ Commit(Unref(Unref(Heap, field[instance[r]]), Top))
    /\ field' = [field EXCEPT ![instance[r]] = Top] /\ temps' = <<>>
    /\ UNCHANGED <<literal, vars, instance, lost>>

(* r.f = value: the field's old contents are released, the value is moved.  *)
ExecLetField(r) ==
    /\ Len(temps) = 1
    /\ Commit(Unref(Heap, field[instance[r]]))
    /\ field' = [field EXCEPT ![instance[r]] = Top] /\ temps' = <<>>
    /\ UNCHANGED <<literal, vars, instance, lost>>

(* r = q for whole records: the pointer to the instance is copied.          *)
ExecLetRecord(r, q) ==
    /\ temps = <<>>
    /\ instance' = [instance EXCEPT ![r] = instance[q]]
    /\ UNCHANGED <<rc, text, literal, vars, temps, field, lost>>

(* INPUT, LINE INPUT: the old contents go, a new string comes.              *)
ExecInput(v, t) ==
    LET h == Unref(Heap, vars[v]) IN
    /\ temps = <<>> /\ Available(h)
    /\ Commit(New(h, t))
    /\ vars' = [vars EXCEPT ![v] = NextFree(h)]
    /\ UNCHANGED <<literal, temps, instance, field, lost>>

(* GET # into a string or into FIELD variables: like MKI$.                  *)
ExecGet(v, t) ==
    LET h == Unref(Heap, vars[v]) IN
    /\ temps = <<>> /\ vars[v] # None /\ Available(h)
    /\ Commit(Ref(New(h, t), NextFree(h)))
    /\ vars' = [vars EXCEPT ![v] = NextFree(h)]
    /\ Lose([s \in Ids |-> IF s = NextFree(h) THEN 1 ELSE 0])
    /\ UNCHANGED <<literal, temps, instance, field>>

(* LSET and RSET: the variable's string is made its own, overwritten, and   *)
(* the value is released.                                                   *)
ExecLset(v, t) ==
    LET c == Cow(Heap, vars[v]) IN
    /\ Len(temps) = 1 /\ vars[v] # None
    /\ rc[vars[v]] # 1 => Available(Heap)
    /\ Commit(Unref(Write(c.h, c.s, t), Top))
    /\ vars' = [vars EXCEPT ![v] = c.s] /\ temps' = <<>>
    /\ UNCHANGED <<literal, instance, field, lost>>

(* SWAP exchanges the FBValues; the holds move with them.                   *)
ExecSwap(v, w) ==
    /\ temps = <<>> /\ vars[v] # None /\ vars[w] # None
    /\ vars' = [vars EXCEPT ![v] = vars[w], ![w] = vars[v]]
    /\ UNCHANGED <<rc, text, literal, temps, instance, field, lost>>

(* The end of a procedure, and CLEAR: the symbols of a scope are released.  *)
ScopeFree(S) ==
    /\ temps = <<>> /\ \A v \in S : vars[v] # None
    /\ rc' = [s \in Ids |-> rc[s] - Cardinality({v \in S : vars[v] = s})]
    /\ text' = [s \in Ids |-> IF rc'[s] = 0 THEN Empty ELSE text[s]]
    /\ vars' = [v \in Vars |-> IF v \in S THEN None ELSE vars[v]]
    /\ UNCHANGED <<literal, temps, instance, field, lost>>

(* An error that is trapped: longjmp passes over the releases.              *)
Trap ==
    /\ temps # <<>>
    /\ temps' = <<>>
    /\ Lose([s \in Ids |-> Cardinality({i \in 1..Len(temps) : temps[i] = s})])
    /\ UNCHANGED <<rc, text, literal, vars, instance, field>>

--------------------------------------------------------------------------------
EvalExpr ==
    \/ \E t \in Texts : EvalLiteral(t) \/ EvalConcat(t) \/ EvalFunction(t) \/ EvalMk(t)
    \/ \E v \in Vars : EvalVariable(v)
    \/ \E r \in Records : EvalField(r)

ExecStatement ==
    \/ Consume
    \/ \E v \in Vars : ExecLet(v)
    \/ \E v \in Vars, t \in Texts : ExecInput(v, t) \/ ExecGet(v, t) \/ ExecLset(v, t)
    \/ \E v, w \in Vars : ExecSwap(v, w)
    \/ \E r \in Records : ExecLetField(r)
    \/ \E r, q \in Records : ExecLetRecord(r, q)
    \/ \E S \in SUBSET Vars \ {{}} : ScopeFree(S)

Next == EvalExpr \/ ExecStatement \/ Trap

Spec == Init /\ [][Next]_strVars

--------------------------------------------------------------------------------
(* Properties.                                                              *)

TypeOK ==
    /\ rc \in [Ids -> Nat] /\ text \in [Ids -> Texts]
    /\ literal \in [Texts -> Ids]
    /\ vars \in [Vars -> Ids \cup {None}]
    /\ temps \in Seq(Ids) /\ Len(temps) <= MaxTemps
    /\ instance \in [Records -> Records] /\ field \in [Records -> Ids]
    /\ lost \in [Ids -> Nat]

(* Every block's count is the number of its holders and of the holds that   *)
(* were lost: no string is freed while it is held, and apart from MKI$,     *)
(* GET # and trapped errors none outlives its last holder.                  *)
CountsExact == \A s \in Ids : rc[s] = Cardinality(Holders(s)) + lost[s]

(* A string that lives on is overwritten only when one variable alone holds *)
(* it, so no statement changes a variable it does not name.                 *)
SoleWriter ==
    [][\A s \in Ids : rc[s] > 0 /\ rc'[s] > 0 /\ text'[s] # text[s] =>
          \E v \in Vars : Holders(s) = {<<"variable", v>>}]_strVars

================================================================================
