------------------------------- MODULE Procedures -------------------------------
(***************************************************************************)
(* Variables, scopes and parameters of the interpreter: scope_lookup and   *)
(* scope_insert, LET, PRINT, SWAP, DIM, CONST, SHARED and STATIC, DEF FN,  *)
(* and the binding and write-back of parameters in SUB and FUNCTION calls. *)
(*                                                                         *)
(* A symbol that is a reference holds the address it refers to and also a  *)
(* value of its own, copied from that address when it was bound.  Reading  *)
(* the symbol reads the copy; an assignment to it writes both; what others *)
(* write to the address does not reach the copy.                           *)
(*                                                                         *)
(* Statements come in any order, so a behaviour is that of some program.   *)
(* Expressions are a variable or a constant.  Errors stop the program.     *)
(***************************************************************************)
EXTENDS Integers, Sequences

CONSTANTS
    Names,        \* the names of variables and parameters
    Values,       \* what a variable may hold; 0 is among them
    Procedures,   \* [params, byval, result] of every SUB and FUNCTION
    Depth,        \* bound: the module level and the active procedures
    AliasFree     \* TRUE: only programs that keep to the discipline below

NoName  == "none"            \* the result variable of a SUB
Lost    == "lost"            \* a result variable that could not be created
NoRef   == <<0, NoName>>     \* ref_addr of a symbol that is no reference

ProcType ==
    [params : Seq(Names), byval : Seq(BOOLEAN), result : Names \cup {NoName}]

ASSUME ConstantsOK ==
    /\ 0 \in Values /\ {NoName, Lost} \cap Names = {}
    /\ Depth \in Nat \ {0} /\ AliasFree \in BOOLEAN
    /\ \A p \in Procedures :
          /\ p \in ProcType /\ Len(p.byval) = Len(p.params)
          /\ \A i, j \in 1..Len(p.params) : p.params[i] = p.params[j] => i = j

Locations == (1..Depth) \X Names
Symbol == [kind : {"none", "variable", "const"}, value : Values,
           ref : Locations \cup {NoRef}]

NoSymbol       == [kind |-> "none", value |-> 0, ref |-> NoRef]
Variable(v)    == [kind |-> "variable", value |-> v, ref |-> NoRef]
Reference(v, l) == [kind |-> "variable", value |-> v, ref |-> l]
EmptyScope     == [n \in Names |-> NoSymbol]

VARIABLES
    scopes,   \* global_scope, then the scope of each active procedure
    frames,   \* their CallFrames: result variable and param_bindings
    out,      \* what the last PRINT showed
    status    \* running, stopped by an error, crashed (a null pointer)

vars == <<scopes, frames, out, status>>

Frame == [result : Names \cup {NoName, Lost},
          bindings : Seq([param : Names, addr : Locations \cup {NoRef}])]

Init ==
    /\ scopes = <<EmptyScope>>
    /\ frames = << [result |-> NoName, bindings |-> <<>>] >>
    /\ out = 0
    /\ status = "running"

--------------------------------------------------------------------------------
(* Scopes.  s stands for the sequence of scopes; its last one is current,   *)
(* and every other scope has the global scope for its parent.               *)

(* Names ending in "Mutant" are wrong variants of the definition that       *)
(* follows them, each with one plausible bug; nothing in Spec uses them.    *)

Declared(s, d, n) == s[d][n].kind # "none"

(* The scope in which scope_lookup finds n.                                 *)
Home(s, n) == IF Declared(s, Len(s), n) THEN Len(s) ELSE 1

Found(s, n)  == Declared(s, Len(s), n) \/ Declared(s, 1, n)
SymbolOf(s, n) == s[Home(s, n)][n]

(* resolve_or_create_var: an unknown name becomes a local variable.         *)
Using(s, n) == IF Found(s, n) THEN s ELSE [s EXCEPT ![Len(s)][n] = Variable(0)]

(* resolve_lvalue: a reference stands for the address it refers to.         *)
Lvalue(s, n) ==
    IF SymbolOf(s, n).ref # NoRef THEN SymbolOf(s, n).ref ELSE <<Home(s, n), n>>

Cell(s, l)     == s[l[1]][l[2]].value
Put(s, l, v)   == [s EXCEPT ![l[1]][l[2]].value = v]

--------------------------------------------------------------------------------
(* The discipline of programs that never see the copy differ from the cell: *)
(* a cell with references is written by assignment through its only one,    *)
(* constants are not passed by reference, swapped or read into, a           *)
(* FUNCTION's arguments mean the same in the callee's scope, and no name is *)
(* SHARED over a local one.                                                 *)

References(s, l) ==
    {r \in (1..Len(s)) \X Names : s[r[1]][r[2]].ref = l}
MayWrite(s, n) ==
    AliasFree => References(s, Lvalue(s, n)) \subseteq {<<Home(s, n), n>>}
MayMove(s, n) ==
    AliasFree => /\ References(s, Lvalue(s, n)) = {}
                 /\ SymbolOf(s, n).kind # "const"

Running == status = "running"
Crash   == status' = "crashed" /\ UNCHANGED <<scopes, frames, out>>

--------------------------------------------------------------------------------
(* Statements that read and write variables.                                *)

AssignedMutant(s, n, v) ==   \* the copy is not refreshed
    Put(s, Lvalue(s, n), v)

(* exec_assign_value: through a reference, the cell and then the copy.      *)
Assigned(s, n, v) == Put(Put(s, Lvalue(s, n), v), <<Home(s, n), n>>, v)

ExecLetMutant(n, v) ==       \* CONST is not looked at
    LET s == Using(scopes, n) IN
    /\ Running /\ MayWrite(s, n)
    /\ scopes' = Assigned(s, n, v) /\ UNCHANGED <<frames, out, status>>

ExecLet(n, v) ==
    LET s == Using(scopes, n) IN
    /\ Running /\ MayWrite(s, n)
    /\ IF SymbolOf(s, n).kind = "const"
       THEN status' = "stopped" /\ UNCHANGED scopes
       ELSE scopes' = Assigned(s, n, v) /\ UNCHANGED status
    /\ UNCHANGED <<frames, out>>

(* A variable in an expression: the symbol's own value.                     *)
ExecPrint(n) ==
    LET s == Using(scopes, n) IN
    /\ Running
    /\ scopes' = s /\ out' = SymbolOf(s, n).value
    /\ UNCHANGED <<frames, status>>

(* READ stores in the cell alone; INPUT and LSET in the symbol alone.  None  *)
(* looks at CONST.                                                          *)
ExecRead(n, v) ==
    LET s == Using(scopes, n) IN
    /\ Running /\ MayMove(s, n)
    /\ scopes' = Put(s, Lvalue(s, n), v)
    /\ UNCHANGED <<frames, out, status>>

ExecInput(n, v) ==
    LET s == Using(scopes, n) IN
    /\ Running /\ MayMove(s, n)
    /\ scopes' = Put(s, <<Home(s, n), n>>, v)
    /\ UNCHANGED <<frames, out, status>>

(* SWAP exchanges what the two addresses hold, and no copies.               *)
ExecSwap(n, m) ==
    LET s == Using(Using(scopes, n), m) IN
    /\ Running /\ MayMove(s, n) /\ MayMove(s, m)
    /\ scopes' = Put(Put(s, Lvalue(s, n), Cell(s, Lvalue(s, m))),
                     Lvalue(s, m), Cell(s, Lvalue(s, n)))
    /\ UNCHANGED <<frames, out, status>>

DimMutant(d, n) ==           \* the existing variable is not looked for
    /\ Running
    /\ IF Declared(scopes, d, n) THEN Crash
       ELSE /\ scopes' = [scopes EXCEPT ![d][n] = Variable(0)]
            /\ UNCHANGED <<frames, out, status>>

(* DIM, DIM SHARED and STATIC of a name that is there already do nothing;   *)
(* what STATIC marks is kept no longer than any other local variable.  The  *)
(* parser makes a DIM or CONST written in a procedure a statement of the    *)
(* module level, so these run in the global scope only.                     *)
Dim(d, n) ==
    /\ Running
    /\ scopes' = IF Declared(scopes, d, n) THEN scopes
                 ELSE [scopes EXCEPT ![d][n] = Variable(0)]
    /\ UNCHANGED <<frames, out, status>>

ExecDim(n)    == Len(scopes) = 1 /\ Dim(1, n)    \* DIM SHARED as well
ExecStatic(n) == Len(scopes) > 1 /\ Dim(Len(scopes), n)

ExecConst(n, v) ==
    /\ Running /\ Len(scopes) = 1
    /\ scopes' = IF Declared(scopes, 1, n) THEN scopes
                 ELSE [scopes EXCEPT ![1][n] = [kind |-> "const", value |-> v, ref |-> NoRef]]
    /\ UNCHANGED <<frames, out, status>>

(* SHARED: a module-level variable, created if need be, gets a local        *)
(* reference.  The result of inserting a name the scope has is not tested.  *)
ExecShared(n) ==
    LET s == IF Declared(scopes, 1, n) THEN scopes
             ELSE [scopes EXCEPT ![1][n] = Variable(0)] IN
    /\ Running
    /\ AliasFree => Len(scopes) > 1 /\ ~Declared(scopes, Len(scopes), n)
    /\ IF Declared(s, Len(s), n) THEN Crash
       ELSE /\ scopes' = [s EXCEPT ![Len(s)][n] =
                            [s[1][n] EXCEPT !.ref = <<1, n>>]]
            /\ UNCHANGED <<frames, out, status>>

(* DEF FN FNx(n) = m, applied to v: the value of n is saved, replaced and   *)
(* restored, in whatever scope n is found.                                  *)
EvalDefFn(n, v, m) ==
    LET s == Using(Put(Using(scopes, n), <<Home(Using(scopes, n), n), n>>, v), m) IN
    /\ Running
    /\ out' = SymbolOf(s, m).value
    /\ scopes' = Using(Using(scopes, n), m)
    /\ UNCHANGED <<frames, status>>

--------------------------------------------------------------------------------
(* Calls.  args are variables; paren[i] says the argument is in parentheses *)
(* of its own, which makes it an expression.                                *)

ByRef(p, paren, i) == ~p.byval[i] /\ ~paren[i]

UsingAll(s, args) ==
    [d \in 1..Len(s) |-> [n \in Names |->
        IF \E i \in DOMAIN args : args[i] = n THEN Using(s, n)[d][n] ELSE s[d][n]]]

MayPass(s, p, args, paren) ==
    AliasFree => \A i \in DOMAIN args :
        ByRef(p, paren, i) => SymbolOf(s, args[i]).kind # "const"

Pushed(p, addrs) ==
    Append(frames, [result |-> p.result,
                    bindings |-> [i \in 1..Len(p.params) |->
                                    [param |-> p.params[i], addr |-> addrs[i]]]])

(* The symbol of parameter i.  By reference it copies the cell, by value it *)
(* is the argument's value.                                                 *)
Argument(s, p, args, paren, i) ==
    IF ByRef(p, paren, i)
    THEN Reference(Cell(s, Lvalue(s, args[i])), Lvalue(s, args[i]))
    ELSE Variable(SymbolOf(s, args[i]).value)

(* exec_call: the arguments are resolved in the caller's scope.             *)
ExecCall(p, args, paren) ==
    LET s == UsingAll(scopes, args)
        Index(n) == {i \in 1..Len(p.params) : p.params[i] = n}
        callee == [n \in Names |->
            IF Index(n) = {} THEN NoSymbol
            ELSE Argument(s, p, args, paren, CHOOSE i \in Index(n) : TRUE)]
    IN
    /\ Running /\ p.result = NoName /\ Len(scopes) < Depth
    /\ MayPass(s, p, args, paren)
    /\ scopes' = Append(s, callee)
    /\ frames' = Pushed(p, [i \in 1..Len(p.params) |->
                               Argument(s, p, args, paren, i).ref])
    /\ UNCHANGED <<out, status>>

(* A FUNCTION's arguments are evaluated in the caller's scope, argv, and    *)
(* then those by reference are resolved again in the callee's, with the     *)
(* parameters before them already in it.  Stage i has bound i of them.      *)
BindArgument(stage, p, args, paren, argv, i) ==
    LET s == IF ByRef(p, paren, i) THEN Using(stage.s, args[i]) ELSE stage.s
        l == Lvalue(s, args[i])
    IN  [s |-> [s EXCEPT ![Len(s)][p.params[i]] =
                  IF ByRef(p, paren, i) THEN Reference(Cell(s, l), l) ELSE Variable(argv[i])],
         addrs |-> Append(stage.addrs, IF ByRef(p, paren, i) THEN l ELSE NoRef),
         null |-> stage.null \/ Declared(s, Len(s), p.params[i])]

Bound(s, p, args, paren, argv) ==
    LET Stage[i \in 0..Len(p.params)] ==
            IF i = 0 THEN [s |-> s, addrs |-> <<>>, null |-> FALSE]
            ELSE BindArgument(Stage[i - 1], p, args, paren, argv, i)
    IN  Stage[Len(p.params)]

EvalFunction(p, args, paren) ==
    LET s      == UsingAll(scopes, args)
        argv   == [i \in 1..Len(p.params) |-> SymbolOf(s, args[i]).value]
        b      == Bound(Append(s, EmptyScope), p, args, paren, argv)
        taken  == Declared(b.s, Len(b.s), p.result)   \* a parameter has its name
    IN
    /\ Running /\ p.result # NoName /\ Len(scopes) < Depth
    /\ MayPass(s, p, args, paren)
    /\ AliasFree => /\ ~b.null /\ ~taken
                    /\ \A i \in 1..Len(p.params) :
                          ByRef(p, paren, i) => b.addrs[i] = Lvalue(s, args[i])
    /\ IF b.null THEN Crash
       ELSE /\ scopes' = IF taken THEN b.s
                         ELSE [b.s EXCEPT ![Len(b.s)][p.result] = Variable(0)]
            /\ frames' = Pushed([p EXCEPT !.result = IF taken THEN Lost ELSE @], b.addrs)
            /\ UNCHANGED <<out, status>>

ReturnedMutant ==   \* the frame is not popped
    frames

Returned == SubSeq(frames, 1, Len(frames) - 1)

(* Every parameter by reference is written back, in order.                  *)
WrittenBack(s, f) ==
    LET own == Len(s)
        Back[i \in 0..Len(f.bindings)] ==
            IF i = 0 THEN s
            ELSE LET b == f.bindings[i] IN
                 IF b.addr = NoRef THEN Back[i - 1]
                 ELSE Put(Back[i - 1], b.addr, Back[i - 1][own][b.param].value)
    IN  Back[Len(f.bindings)]

(* The body is over: the result is read, the parameters are written back,   *)
(* and the scope goes.                                                      *)
ProcedureReturn ==
    LET own  == Len(scopes)
        f    == frames[own]
    IN
    /\ Running /\ own > 1
    /\ scopes' = SubSeq(WrittenBack(scopes, f), 1, own - 1)
    /\ frames' = Returned
    /\ out' = IF f.result = NoName THEN out
              ELSE IF f.result = Lost THEN 0 ELSE scopes[own][f.result].value
    /\ UNCHANGED status

--------------------------------------------------------------------------------
ExecStatement ==
    \/ \E n \in Names : \/ ExecPrint(n) \/ ExecShared(n) \/ ExecDim(n) \/ ExecStatic(n)
    \/ \E n \in Names, v \in Values : \/ ExecLet(n, v) \/ ExecConst(n, v)
                                      \/ ExecRead(n, v) \/ ExecInput(n, v)
    \/ \E n, m \in Names : ExecSwap(n, m)
    \/ \E n, m \in Names, v \in Values : EvalDefFn(n, v, m)

Call ==
    \E p \in Procedures :
        \E args \in [1..Len(p.params) -> Names], paren \in [1..Len(p.params) -> BOOLEAN] :
            ExecCall(p, args, paren) \/ EvalFunction(p, args, paren)

(* The program has ended or has no defined behaviour left.                  *)
Stopped == status # "running" /\ UNCHANGED vars

Next == ExecStatement \/ Call \/ ProcedureReturn \/ Stopped

Spec == Init /\ [][Next]_vars

--------------------------------------------------------------------------------
(* Properties.                                                              *)

TypeOK ==
    /\ scopes \in Seq([Names -> Symbol]) /\ Len(scopes) \in 1..Depth
    /\ frames \in Seq(Frame) /\ Len(frames) = Len(scopes)
    /\ out \in Values
    /\ status \in {"running", "stopped", "crashed"}

(* A reference refers to a variable of a scope that outlives it, and no     *)
(* symbol that is not there is ever dereferenced.                           *)
ReferencesLive ==
    /\ status # "crashed"
    /\ \A d \in 1..Len(scopes), n \in Names :
          LET l == scopes[d][n].ref IN
          l # NoRef => l[1] < d /\ Declared(scopes, l[1], l[2])

(* A parameter of a call under way stands for l or is written back to it.   *)
Lent(l) ==
    \/ \E d \in 1..Len(scopes), n \in Names :
          scopes[d][n].kind = "variable" /\ scopes[d][n].ref = l
    \/ \E i \in DOMAIN frames[Len(frames)].bindings :
          frames[Len(frames)].bindings[i].addr = l

(* READ, INPUT or SWAP is given a name that stands for l.                   *)
Moved(l) ==
    \E n \in Names :
        /\ l \in {Lvalue(scopes, n), <<Home(scopes, n), n>>}
        /\ \/ \E v \in Values : ExecRead(n, v) \/ ExecInput(n, v)
           \/ \E m \in Names : ExecSwap(n, m) \/ ExecSwap(m, n)

(* In every program a CONST stays a CONST, and no statement gives it        *)
(* another value but READ, INPUT or SWAP of its name and what writes        *)
(* through a parameter it was passed to: those look at no kind.             *)
ConstantsStay ==
    [][\A n \in Names :
          scopes[1][n].kind = "const" =>
             /\ scopes'[1][n].kind = "const"
             /\ \/ scopes'[1][n].value = scopes[1][n].value
                \/ Lent(<<1, n>>) \/ Moved(<<1, n>>)]_vars

(* What the manual says of constants: they do not change while the program  *)
(* runs.                                                                    *)
ConstantsNeverChange ==
    [][\A n \in Names :
          scopes[1][n].kind = "const" => scopes'[1][n] = scopes[1][n]]_vars

(* What the names of scopes s stand for, what is stored there, which places *)
(* are constants, and which variables the frames fs will return.            *)
Meaning(s) ==
    [d \in 1..Len(s) |-> [n \in Names |->
        IF ~Declared(s, d, n) THEN NoRef
        ELSE IF s[d][n].ref # NoRef THEN s[d][n].ref ELSE <<d, n>>]]
Own(s, l)    == l[1] <= Len(s) /\ s[l[1]][l[2]].ref = NoRef
Contents(s)  == [l \in Locations |-> IF Own(s, l) THEN Cell(s, l) ELSE 0]
Constants(s) == {l \in Locations : Own(s, l) /\ s[l[1]][l[2]].kind = "const"}
Results(fs)  == [d \in 1..Len(fs) |-> fs[d].result]

(* Programs that keep to the discipline behave as if every reference were   *)
(* another name of the caller's variable.                                   *)
Abstract == INSTANCE ByReference WITH
    env    <- Meaning(scopes),
    store  <- Contents(scopes),
    consts <- Constants(scopes),
    result <- Results(frames)

ImplementsByReference == Abstract!Spec

================================================================================
