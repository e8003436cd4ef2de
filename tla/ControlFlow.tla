------------------------------ MODULE ControlFlow ------------------------------
(***************************************************************************)
(* The statement executor of the BASIC interpreter: interp_run's loop over *)
(* the top-level statements, exec_block and the loop statements that call  *)
(* it recursively, the jumps, the EXIT flags, SUB and FUNCTION calls, and  *)
(* error trapping with setjmp/longjmp.                                     *)
(*                                                                         *)
(* The C call stack of the tree walk is the variable k, a stack of frames  *)
(* whose last element is the running activation.  A step of the model is   *)
(* one exec_<statement> call, or one turn of a loop between two of them.   *)
(***************************************************************************)
EXTENDS Integers, Sequences, FiniteSets

CONSTANTS
    BlockNames,       \* names of the statement lists of a program
    Programs,         \* the parsed programs the interpreter may be given
    Vars,             \* INTEGER variables of a program, module level and DIM SHARED
    MAX_INTEGER,      \* largest INTEGER (32767 in the build)
    MAX_GOSUB_STACK,  \* entries of gosub_stack (256 in the build)
    CALL_STACK_MAX,   \* entries of call_stack (256 in the build)
    MaxScopes,        \* bound: scopes beside the global one alive at a time
    InitialValues     \* what the variables may hold at the start

NoBlock  == "none"   \* a missing ELSE body, or an undefined procedure
NoTarget == -1       \* what program_find_label returns for an unknown label
NoStmt   == -1       \* old_pc between two turns of interp_run's loop

INTEGERs == (-MAX_INTEGER - 1)..MAX_INTEGER

(***************************************************************************)
(* Abstract syntax.  "to" holds jump targets already looked up: a label is *)
(* the index of its top-level statement, or NoTarget.  A condition looks   *)
(* at the variable "var" of its statement: "pos" tests it; "div" divides   *)
(* by it, standing for every expression whose evaluation may fail; and     *)
(* "narrow" is an argument, evaluated with success, that does not fit its  *)
(* parameter when the variable is 0.                                       *)
(***************************************************************************)
Conds     == {"true", "pos", "div", "narrow"}
ExitFlags == {"for", "do", "while", "sub", "function"}
Ops == {"let", "if", "select", "for", "while", "do", "goto", "gosub", "return",
        "end", "exit", "on_goto", "on_gosub", "call", "let_fn", "on_error",
        "on_error_0", "resume", "resume_next", "resume_label", "error", "clear"}

Stmt == [op : Ops, cond : Conds, to : Seq(Int), n : Nat,
         what : ExitFlags \cup {"def"}, body : BlockNames, alt : BlockNames,
         var : Vars, limit : Int, step : Int]

FrameKinds == {"top", "block", "for", "while", "do", "sub", "function"}
Frame == [fn : FrameKinds, blk : BlockNames, i : Nat, cond : Conds,
          var : Vars, limit : Int, step : Int, saved : Nat, own : Nat]

(* Error numbers of error.h. *)
ERR_RETURN_WITHOUT_GOSUB   == 3
ERR_OVERFLOW               == 6
ERR_OUT_OF_MEMORY          == 7
ERR_UNDEFINED_LABEL        == 8
ERR_DIVISION_BY_ZERO       == 11
ERR_RESUME_WITHOUT_ERROR   == 20
ERR_SUBPROGRAM_NOT_DEFINED == 35

(***************************************************************************)
(* What the parser guarantees of a program: bodies are never the main      *)
(* list, every resolved label is the index of a top-level statement, and   *)
(* the literals are INTEGERs.                                              *)
(***************************************************************************)
WellFormed(p) ==
    /\ p \in [BlockNames -> Seq(Stmt)]
    /\ p[NoBlock] = <<>>
    /\ \A b \in BlockNames : \A i \in 1..Len(p[b]) :
          /\ p[b][i].body # "main" /\ p[b][i].alt # "main"
          /\ p[b][i].to # <<>>
          /\ p[b][i].n \in INTEGERs
          /\ p[b][i].cond = "narrow" => p[b][i].op \in {"call", "let_fn"}
          /\ \A j \in 1..Len(p[b][i].to) :
                p[b][i].to[j] \in {NoTarget} \cup 0..(Len(p["main"]) - 1)

ASSUME ConstantsOK ==
    /\ {"main", NoBlock} \subseteq BlockNames
    /\ MAX_GOSUB_STACK \in Nat /\ CALL_STACK_MAX \in Nat /\ MaxScopes \in Nat
    /\ Vars # {} /\ MAX_INTEGER \in Nat
    /\ InitialValues \subseteq [Vars -> INTEGERs]
    /\ \A p \in Programs : WellFormed(p)

VARIABLES
    prog,             \* interp->prog, fixed for the run
    val,              \* the values of the program's variables
    pc, old_pc,       \* next top-level statement; the one being executed
    running,
    k,                \* the C stack of the tree walk
    gosub_stack, exits,
    call_sp, current_scope,
    scopes,           \* scopes allocated and not freed; 0 is global_scope
    on_error_target, has_jmp, in_error_handler, error_pc, err_code,
    status            \* the process: running, returned, exited, undefined

errVars  == <<in_error_handler, error_pc, err_code>>
callVars == <<call_sp, current_scope, scopes>>
vars == <<prog, val, pc, old_pc, running, k, gosub_stack, exits, callVars,
          on_error_target, has_jmp, errVars, status>>

StmtCount == Len(prog["main"])

--------------------------------------------------------------------------------
(* The C stack and the statement about to be executed.                      *)

Top   == k[Len(k)]
Below == SubSeq(k, 1, Len(k) - 1)

(* A frame; cond, var, limit and step are a loop's, saved and own a call's. *)
NewFrame(fn, blk, i) ==
    [fn |-> fn, blk |-> blk, i |-> i, cond |-> "true", var |-> CHOOSE v \in Vars : TRUE,
     limit |-> 0, step |-> 0, saved |-> 0, own |-> 0]
Block(b) == NewFrame("block", b, 1)

(* Names ending in "Mutant" are wrong variants of the definition that       *)
(* follows them, each with one plausible bug; nothing in Spec uses them.    *)

(* exec_block stops at the end of its list, when the program has stopped,   *)
(* and when any EXIT flag is raised; interp_run looks at no flag.           *)
BlockGoesOn ==
    /\ Top.i <= Len(prog[Top.blk])
    /\ running
    /\ exits = {}

StmtReady ==
    /\ status = "run" /\ k # <<>>
    /\ \/ Top.fn = "top"
       \/ Top.fn = "block" /\ BlockGoesOn

Cur  == prog[Top.blk][Top.i]
Rest == IF Top.fn = "top" THEN Below
        ELSE Append(Below, [Top EXCEPT !.i = Top.i + 1])

At(op)         == StmtReady /\ Cur.op = op
AtFrame(kind)  == status = "run" /\ k # <<>> /\ Top.fn = kind

(* What becomes of the condition of s, a statement or a loop's frame.       *)
Fails(s)   == s.cond = "div" /\ val[s.var] = 0
Misfits(s) == s.cond = "narrow" /\ val[s.var] = 0
Holds(s)   == s.cond = "true" \/ val[s.var] > 0

(* Go on with the C stack s, raising no error.                              *)
Proceed(s) ==
    /\ k' = s
    /\ UNCHANGED <<old_pc, errVars, status>>

(* fb_error: longjmp to interp_run when a handler is armed, else exit(1).   *)
(* longjmp(buf, 0) makes setjmp return 1.  The C stack is dropped; nothing  *)
(* the dropped activations would have restored is restored.                 *)
Raise(code) ==
    IF has_jmp
    THEN /\ in_error_handler' = TRUE
         /\ error_pc' = old_pc
         /\ err_code' = IF code = 0 THEN 1 ELSE code
         /\ pc' = on_error_target
         /\ k' = <<>>
         /\ old_pc' = NoStmt
         /\ UNCHANGED status
    ELSE /\ status' = "exited"
         /\ UNCHANGED <<pc, old_pc, k, errVars>>

--------------------------------------------------------------------------------
(* interp_run.                                                              *)

Init ==
    /\ prog \in Programs
    /\ val \in InitialValues
    /\ pc = 0 /\ old_pc = NoStmt /\ running = TRUE
    /\ k = <<>> /\ gosub_stack = <<>> /\ exits = {}
    /\ call_sp = 0 /\ current_scope = 0 /\ scopes = {0}
    /\ on_error_target = NoTarget /\ has_jmp = FALSE
    /\ in_error_handler = FALSE /\ error_pc = 0 /\ err_code = 0
    /\ status = "run"

LoopHead == status = "run" /\ k = <<>> /\ old_pc = NoStmt

StartStatement ==
    /\ LoopHead /\ running /\ pc \in 0..(StmtCount - 1)
    /\ old_pc' = pc
    /\ k' = <<NewFrame("top", "main", pc + 1)>>
    /\ UNCHANGED <<prog, val, pc, running, gosub_stack, exits, callVars,
                   on_error_target, errVars, status>>

FetchArmedMutant ==    \* no else branch: the handler is never disarmed
    StartStatement /\ has_jmp' = (has_jmp \/ on_error_target >= 0)

FetchOnceMutant ==     \* setjmp once, before the loop
    StartStatement /\ has_jmp' = has_jmp

(* The head of the loop: arm the error handler if one is set and start the  *)
(* statement at pc.                                                         *)
Fetch == StartStatement /\ has_jmp' = (on_error_target >= 0)

(* pc is never compared with 0: statements[-1] is read.                     *)
FetchWild ==
    /\ LoopHead /\ running /\ pc < 0
    /\ status' = "undefined"
    /\ UNCHANGED <<prog, val, pc, old_pc, running, k, gosub_stack, exits, callVars,
                   on_error_target, has_jmp, errVars>>

(* The statement is over: step to the next one unless a jump changed pc.    *)
Advance ==
    /\ status = "run" /\ k = <<>> /\ old_pc # NoStmt
    /\ pc' = IF pc = old_pc THEN pc + 1 ELSE pc
    /\ old_pc' = NoStmt
    /\ UNCHANGED <<prog, val, running, k, gosub_stack, exits, callVars,
                   on_error_target, has_jmp, errVars, status>>

Finish ==
    /\ LoopHead /\ (~running \/ pc >= StmtCount)
    /\ status' = "returned"
    /\ has_jmp' = FALSE
    /\ UNCHANGED <<prog, val, pc, old_pc, running, k, gosub_stack, exits, callVars,
                   on_error_target, errVars>>

--------------------------------------------------------------------------------
(* Assignments, and the statements that choose a block.                     *)

Untouched == UNCHANGED <<prog, running, on_error_target, has_jmp>>

(* LET: with "pos" the variable is decremented, otherwise it becomes n; a   *)
(* right-hand side that fails leaves it as it was.                          *)
ExecLet ==
    /\ At("let")
    /\ IF Fails(Cur)
       THEN Raise(ERR_DIVISION_BY_ZERO) /\ UNCHANGED val
       ELSE /\ val' = [val EXCEPT ![Cur.var] =
                           IF Cur.cond # "pos" THEN Cur.n ELSE IF @ > 0 THEN @ - 1 ELSE 0]
            /\ Proceed(Rest) /\ UNCHANGED pc
    /\ Untouched /\ UNCHANGED <<gosub_stack, exits, callVars>>

ExecIf ==
    /\ At("if")
    /\ IF Fails(Cur)
       THEN Raise(ERR_DIVISION_BY_ZERO)
       ELSE /\ Proceed(Append(Rest, Block(IF Holds(Cur) THEN Cur.body ELSE Cur.alt)))
            /\ UNCHANGED pc
    /\ Untouched /\ UNCHANGED <<val, gosub_stack, exits, callVars>>

(* SELECT CASE of the variable: CASE n runs body, CASE ELSE runs alt.       *)
ExecSelectCase ==
    /\ At("select")
    /\ Proceed(Append(Rest, Block(IF val[Cur.var] = Cur.n THEN Cur.body ELSE Cur.alt)))
    /\ Untouched /\ UNCHANGED <<val, pc, gosub_stack, exits, callVars>>

--------------------------------------------------------------------------------
(* Loops.  A loop's frame is on top between two turns of the C loop: it     *)
(* tests running, its own EXIT flag and its condition, then either calls    *)
(* exec_block for the body or clears the flag and returns.                  *)

EnterLoop(fn, turns) ==
    Proceed(Append(Rest, [NewFrame(fn, Cur.body, turns) EXCEPT
                             !.cond = Cur.cond, !.var = Cur.var,
                             !.limit = Cur.limit, !.step = Cur.step]))

(* FOR var = n TO limit STEP step: var is assigned before the limit, the    *)
(* expression that may fail, is evaluated.                                  *)
ExecFor ==
    /\ At("for")
    /\ val' = [val EXCEPT ![Cur.var] = Cur.n]
    /\ IF Cur.cond = "div" /\ Cur.n = 0
       THEN Raise(ERR_DIVISION_BY_ZERO)
       ELSE EnterLoop("for", 0) /\ UNCHANGED pc
    /\ Untouched /\ UNCHANGED <<gosub_stack, exits, callVars>>

ExecWhile ==
    /\ At("while")
    /\ EnterLoop("while", 0)
    /\ Untouched /\ UNCHANGED <<val, pc, gosub_stack, exits, callVars>>

(* DO ... LOOP: n = 0 for a condition after LOOP, which the first turn does *)
(* not test; n = 1 for a condition after DO.                                *)
ExecDoLoop ==
    /\ At("do")
    /\ EnterLoop("do", Cur.n)
    /\ Untouched /\ UNCHANGED <<val, pc, gosub_stack, exits, callVars>>

LeaveLoop ==
    /\ exits' = exits \ {Top.fn}
    /\ Proceed(Below) /\ UNCHANGED pc

Turn(i) ==
    /\ Proceed(Append(Append(Below, [Top EXCEPT !.i = i]), Block(Top.blk)))
    /\ UNCHANGED <<pc, exits>>

LoopStoppedMutant == ~running   \* the loop does not look at its EXIT flag

LoopStopped == ~running \/ Top.fn \in exits

(* The variable for the next test: its value before the first turn, and     *)
(* after a turn whatever the body has left in it, one step on.              *)
Counter == IF Top.i = 0 THEN val[Top.var] ELSE val[Top.var] + Top.step

(* A step of 0 has no limit.                                                *)
Past(c) == \/ Top.step > 0 /\ c > Top.limit
           \/ Top.step < 0 /\ c < Top.limit

ForStepMutant ==       \* the variable is not advanced
    /\ AtFrame("for")
    /\ IF LoopStopped \/ Past(val[Top.var]) THEN LeaveLoop ELSE Turn(1)
    /\ UNCHANGED val
    /\ Untouched /\ UNCHANGED <<gosub_stack, callVars>>

(* One turn of exec_for's loop: the increment is an assignment, and fails   *)
(* when the result is no INTEGER.                                           *)
ForStep ==
    /\ AtFrame("for")
    /\ IF LoopStopped
       THEN LeaveLoop /\ UNCHANGED val
       ELSE IF Counter \notin INTEGERs
       THEN Raise(ERR_OVERFLOW) /\ UNCHANGED <<val, exits>>
       ELSE /\ val' = [val EXCEPT ![Top.var] = Counter]
            /\ IF Past(Counter) THEN LeaveLoop ELSE Turn(1)
    /\ Untouched /\ UNCHANGED <<gosub_stack, callVars>>

TestAndTurn ==
    IF Fails(Top) THEN Raise(ERR_DIVISION_BY_ZERO) /\ UNCHANGED exits
    ELSE IF Holds(Top) THEN Turn(1) ELSE LeaveLoop

WhileStep ==
    /\ AtFrame("while")
    /\ IF LoopStopped THEN LeaveLoop ELSE TestAndTurn
    /\ Untouched /\ UNCHANGED <<val, gosub_stack, callVars>>

DoLoopStep ==
    /\ AtFrame("do")
    /\ IF LoopStopped THEN LeaveLoop
       ELSE IF Top.i = 0 THEN Turn(1) ELSE TestAndTurn
    /\ Untouched /\ UNCHANGED <<val, gosub_stack, callVars>>

(* exec_block returns.                                                      *)
BlockEnd ==
    /\ AtFrame("block") /\ ~BlockGoesOn
    /\ Proceed(Below)
    /\ Untouched /\ UNCHANGED <<val, pc, gosub_stack, exits, callVars>>

(* EXIT DEF is parsed but raises no flag.                                   *)
ExecExit ==
    /\ At("exit")
    /\ exits' = exits \cup ({Cur.what} \cap ExitFlags)
    /\ Proceed(Rest)
    /\ Untouched /\ UNCHANGED <<val, pc, gosub_stack, callVars>>

--------------------------------------------------------------------------------
(* Jumps.  A jump only assigns pc: the blocks and loops it is nested in run *)
(* on, and the jump takes effect when the top-level statement is over.      *)

JumpTo(target) ==
    IF target = NoTarget
    THEN Raise(ERR_UNDEFINED_LABEL)
    ELSE pc' = target /\ Proceed(Rest)

ExecGoto ==
    /\ At("goto")
    /\ JumpTo(Cur.to[1])
    /\ Untouched /\ UNCHANGED <<val, gosub_stack, exits, callVars>>

ExecGosubSelfMutant ==    \* the GOSUB itself is pushed
    /\ At("gosub")
    /\ IF Len(gosub_stack) >= MAX_GOSUB_STACK
       THEN Raise(ERR_OUT_OF_MEMORY) /\ UNCHANGED gosub_stack
       ELSE gosub_stack' = Append(gosub_stack, pc) /\ JumpTo(Cur.to[1])
    /\ Untouched /\ UNCHANGED <<val, exits, callVars>>

(* The return index is pushed before the label is looked up.                *)
ExecGosub ==
    /\ At("gosub")
    /\ IF Len(gosub_stack) >= MAX_GOSUB_STACK
       THEN Raise(ERR_OUT_OF_MEMORY) /\ UNCHANGED gosub_stack
       ELSE /\ gosub_stack' = Append(gosub_stack, pc + 1)
            /\ JumpTo(Cur.to[1])
    /\ Untouched /\ UNCHANGED <<val, exits, callVars>>

ExecReturn ==
    /\ At("return")
    /\ IF gosub_stack = <<>>
       THEN Raise(ERR_RETURN_WITHOUT_GOSUB) /\ UNCHANGED gosub_stack
       ELSE /\ gosub_stack' = SubSeq(gosub_stack, 1, Len(gosub_stack) - 1)
            /\ pc' = gosub_stack[Len(gosub_stack)]
            /\ Proceed(Rest)
    /\ Untouched /\ UNCHANGED <<val, exits, callVars>>

(* ON var GOTO / GOSUB: out of range, or an unknown label: no branch, no error. *)
OnBranchTarget ==
    IF val[Cur.var] \in 1..Len(Cur.to) THEN Cur.to[val[Cur.var]] ELSE NoTarget

ExecOnGoto ==
    /\ At("on_goto")
    /\ pc' = IF OnBranchTarget = NoTarget THEN pc ELSE OnBranchTarget
    /\ Proceed(Rest)
    /\ Untouched /\ UNCHANGED <<val, gosub_stack, exits, callVars>>

ExecOnGosub ==
    /\ At("on_gosub")
    /\ IF OnBranchTarget = NoTarget
       THEN Proceed(Rest) /\ UNCHANGED <<pc, gosub_stack>>
       ELSE IF Len(gosub_stack) >= MAX_GOSUB_STACK
       THEN Raise(ERR_OUT_OF_MEMORY) /\ UNCHANGED gosub_stack
       ELSE /\ gosub_stack' = Append(gosub_stack, pc + 1)
            /\ pc' = OnBranchTarget
            /\ Proceed(Rest)
    /\ Untouched /\ UNCHANGED <<val, exits, callVars>>

ExecEnd ==
    /\ At("end")
    /\ running' = FALSE
    /\ Proceed(Rest)
    /\ UNCHANGED <<prog, val, pc, gosub_stack, exits, callVars, on_error_target, has_jmp>>

--------------------------------------------------------------------------------
(* Procedure calls.                                                         *)

Fresh == CHOOSE s \in 1..MaxScopes : s \notin scopes
ScopeAvailable == \E s \in 1..MaxScopes : s \notin scopes

PushedMutant(sp) == sp + 1   \* no test for a full stack

(* callstack_push and callstack_pop; no caller looks at their result.       *)
Pushed(sp) == IF sp >= CALL_STACK_MAX THEN sp ELSE sp + 1
Popped(sp) == IF sp = 0 THEN sp ELSE sp - 1

(* Call frame pushed, scope entered, own EXIT flag dropped, body started.   *)
EnterProcedure(fn) ==
    /\ call_sp' = Pushed(call_sp)
    /\ current_scope' = Fresh
    /\ exits' = exits \ {fn}
    /\ Proceed(Rest \o << [NewFrame(fn, Cur.body, 0) EXCEPT
                              !.saved = current_scope, !.own = Fresh],
                          Block(Cur.body) >>)
    /\ UNCHANGED pc

(* What an argument that fails or does not fit its parameter raises.        *)
RaiseArgument == Raise(IF Fails(Cur) THEN ERR_DIVISION_BY_ZERO ELSE ERR_OVERFLOW)

(* CALL: the callee's scope exists while the arguments are evaluated and    *)
(* converted, and becomes current when all of them are bound.               *)
ExecCall ==
    /\ At("call")
    /\ IF Cur.body = NoBlock
       THEN Raise(ERR_SUBPROGRAM_NOT_DEFINED) /\ UNCHANGED <<callVars, exits>>
       ELSE /\ ScopeAvailable
            /\ scopes' = scopes \cup {Fresh}
            /\ IF Fails(Cur) \/ Misfits(Cur)
               THEN RaiseArgument /\ UNCHANGED <<call_sp, current_scope, exits>>
               ELSE EnterProcedure("sub")
    /\ Untouched /\ UNCHANGED <<val, gosub_stack>>

(* A FUNCTION called by the right-hand side of a LET: its arguments are     *)
(* evaluated before its scope is created, but converted, and the variables  *)
(* given by reference looked up, when that scope is current already.        *)
EvalFunction ==
    /\ At("let_fn")
    /\ IF Fails(Cur)
       THEN RaiseArgument /\ UNCHANGED <<callVars, exits>>
       ELSE /\ ScopeAvailable
            /\ scopes' = scopes \cup {Fresh}
            /\ current_scope' = Fresh
            /\ IF Misfits(Cur)
               THEN RaiseArgument /\ UNCHANGED <<call_sp, exits>>
               ELSE EnterProcedure("function")
    /\ Untouched /\ UNCHANGED <<val, gosub_stack>>

ProcedureReturnMutant ==   \* the caller's scope is not restored
    /\ AtFrame("sub") \/ AtFrame("function")
    /\ exits' = exits \ {Top.fn}
    /\ call_sp' = Popped(call_sp) /\ scopes' = scopes \ {Top.own}
    /\ Proceed(Below)
    /\ Untouched /\ UNCHANGED <<val, pc, gosub_stack, current_scope>>

(* The body is over: restore the scope, pop the call frame, free the scope. *)
ProcedureReturn ==
    /\ AtFrame("sub") \/ AtFrame("function")
    /\ exits' = exits \ {Top.fn}
    /\ current_scope' = Top.saved
    /\ call_sp' = Popped(call_sp)
    /\ scopes' = scopes \ {Top.own}
    /\ Proceed(Below)
    /\ Untouched /\ UNCHANGED <<val, pc, gosub_stack>>

--------------------------------------------------------------------------------
(* Error trapping.                                                          *)

(* ON ERROR GOTO label: an unknown label leaves no handler.                 *)
ExecOnError ==
    /\ At("on_error")
    /\ on_error_target' = Cur.to[1]
    /\ Proceed(Rest)
    /\ UNCHANGED <<prog, val, pc, running, gosub_stack, exits, callVars, has_jmp>>

(* ON ERROR GOTO 0: inside a handler it stops the program.                  *)
ExecOnErrorOff ==
    /\ At("on_error_0")
    /\ on_error_target' = NoTarget
    /\ in_error_handler' = FALSE
    /\ running' = (running /\ ~in_error_handler)
    /\ k' = Rest
    /\ UNCHANGED <<prog, val, pc, old_pc, gosub_stack, exits, callVars, has_jmp,
                   error_pc, err_code, status>>

ResumeAt(target) ==
    IF ~in_error_handler
    THEN Raise(ERR_RESUME_WITHOUT_ERROR)
    ELSE /\ in_error_handler' = FALSE
         /\ pc' = target
         /\ k' = Rest
         /\ UNCHANGED <<old_pc, error_pc, err_code, status>>

ExecResume ==
    /\ \/ At("resume")       /\ ResumeAt(error_pc)
       \/ At("resume_next")  /\ ResumeAt(error_pc + 1)
       \/ At("resume_label") /\ ResumeAt(Cur.to[1])
    /\ Untouched /\ UNCHANGED <<val, gosub_stack, exits, callVars>>

ExecErrorStmt ==
    /\ At("error")
    /\ Raise(Cur.n)
    /\ Untouched /\ UNCHANGED <<val, gosub_stack, exits, callVars>>

(* CLEAR: variables and error state go; the GOSUB stack stays.              *)
ExecClear ==
    /\ At("clear")
    /\ val' = [v \in Vars |-> 0]
    /\ current_scope' = 0
    /\ on_error_target' = NoTarget
    /\ in_error_handler' = FALSE
    /\ err_code' = 0
    /\ k' = Rest
    /\ UNCHANGED <<prog, pc, old_pc, running, gosub_stack, exits, call_sp, scopes,
                   has_jmp, error_pc, status>>

--------------------------------------------------------------------------------
ExecStatement ==
    \/ ExecLet \/ ExecIf \/ ExecSelectCase
    \/ ExecFor \/ ExecWhile \/ ExecDoLoop \/ ExecExit
    \/ ExecGoto \/ ExecGosub \/ ExecReturn \/ ExecOnGoto \/ ExecOnGosub \/ ExecEnd
    \/ ExecCall \/ EvalFunction
    \/ ExecOnError \/ ExecOnErrorOff \/ ExecResume \/ ExecErrorStmt \/ ExecClear

Unwind == ForStep \/ WhileStep \/ DoLoopStep \/ BlockEnd \/ ProcedureReturn

InterpRun == Fetch \/ FetchWild \/ Advance \/ Finish

(* The process has ended, or has no defined behaviour left.                 *)
Stopped == status # "run" /\ UNCHANGED vars

Next == ExecStatement \/ Unwind \/ InterpRun \/ Stopped

(* The interpreter is one thread that always takes its next step.           *)
Spec == Init /\ [][Next]_vars /\ WF_vars(Next)

--------------------------------------------------------------------------------
(* Properties.                                                              *)

TypeOK ==
    /\ prog \in Programs
    /\ val \in [Vars -> INTEGERs] /\ pc \in Int /\ old_pc \in Int
    /\ running \in BOOLEAN
    /\ k \in Seq(Frame)
    /\ gosub_stack \in Seq(Int) /\ Len(gosub_stack) <= MAX_GOSUB_STACK
    /\ exits \subseteq ExitFlags
    /\ call_sp \in 0..CALL_STACK_MAX
    /\ current_scope \in Nat /\ scopes \subseteq 0..MaxScopes
    /\ on_error_target \in Int /\ has_jmp \in BOOLEAN
    /\ in_error_handler \in BOOLEAN /\ error_pc \in Int /\ err_code \in Nat
    /\ status \in {"run", "returned", "exited", "undefined"}

(* Programs that set and drop their error handler only at the top level,    *)
(* not in the middle of a block, and RESUME only at labels that exist.      *)
TrapDiscipline(p) ==
    \A b \in BlockNames : \A i \in 1..Len(p[b]) :
        /\ b # "main" => p[b][i].op \notin {"on_error", "on_error_0", "clear"}
        /\ p[b][i].op = "resume_label" => p[b][i].to[1] # NoTarget

(* No index control can be sent to is negative: the next statement, every   *)
(* return index on the GOSUB stack, and the statement a RESUME goes back    *)
(* to, which is in the program.  statements[] is read without a check of    *)
(* the lower bound.                                                         *)
ControlStaysDefined ==
    TrapDiscipline(prog) =>
        /\ pc >= 0
        /\ \A i \in 1..Len(gosub_stack) : gosub_stack[i] >= 1
        /\ in_error_handler => error_pc \in 0..(StmtCount - 1)
        /\ status # "undefined"

(* Outside the handler, the process never exits on an error while an error  *)
(* handler is set: the jmp_buf armed at the last fetch agrees with          *)
(* on_error_target.  (On an error in the handler it should exit: see        *)
(* HandlerErrorsAreFatal.)                                                  *)
SetHandlerCatches ==
    TrapDiscipline(prog) =>
        (status = "exited" /\ ~in_error_handler => on_error_target = NoTarget)

(* An error is trapped: the C stack is dropped in the middle of a statement. *)
Trapped == k # <<>> /\ k' = <<>> /\ has_jmp /\ old_pc' = NoStmt

(* docs/implementation_phase_6.md, "No nested errors": an error inside the  *)
(* error handler is fatal, so no error is trapped before the RESUME.        *)
HandlerErrorsAreFatal == [][in_error_handler => ~Trapped]_vars

(* docs/implementation_phase_6.md, "Call chain search": an error in a SUB   *)
(* or FUNCTION that the module-level handler traps unwinds the call stack.  *)
TrapUnwindsCalls == LoopHead => call_sp = 0 /\ current_scope = 0

JumpOps   == {"goto", "gosub", "return", "on_goto", "on_gosub",
              "resume", "resume_next", "resume_label"}
LoopOps   == {"for", "while", "do"}
BranchOps == {"if", "select", "call", "let_fn"}

(* J holds the blocks a jump may be executed in or below.  A jump is the    *)
(* last statement of its block, a statement that runs a block of J is the   *)
(* last of its own, and no loop runs a block of J.                          *)
EndInJumps(p, J) ==
    \A b \in BlockNames : \A i \in 1..Len(p[b]) :
        LET s == p[b][i]
            last == b # "main" => b \in J /\ i = Len(p[b])
        IN  /\ s.op \in JumpOps => last
            /\ s.op \in BranchOps /\ {s.body, s.alt} \cap J # {} => last
            /\ s.op \in LoopOps => s.body \notin J

(* Programs that execute nothing between a jump and the end of the          *)
(* top-level statement the jump is nested in.                               *)
JumpsLast(p) == \E J \in SUBSET BlockNames : EndInJumps(p, J)

(* What a GOSUB pushes is the statement after the top-level one that        *)
(* contains it: pc, which is what the code adds 1 to, has not been assigned *)
(* since that statement was fetched.                                        *)
GosubReturnsToNext ==
    [][Len(gosub_stack') > Len(gosub_stack) /\ JumpsLast(prog)
          => gosub_stack'[Len(gosub_stack')] = old_pc + 1]_vars

(* C gives each block the construct it is run by: the innermost loop or     *)
(* procedure around it, or "top".  Every EXIT names the construct it is in. *)
NestsIn(p, C) ==
    /\ C["main"] = "top"
    /\ \A b \in BlockNames : \A i \in 1..Len(p[b]) :
          LET s == p[b][i]
              Runs(c, kind) == c # NoBlock => C[c] = kind
          IN  /\ s.op \in {"if", "select"} => Runs(s.body, C[b]) /\ Runs(s.alt, C[b])
              /\ s.op \in LoopOps  => Runs(s.body, s.op)
              /\ s.op = "call"     => Runs(s.body, "sub")
              /\ s.op = "let_fn"   => Runs(s.body, "function")
              /\ s.op = "exit"     => s.what \in {C[b], "def"}

(* Programs whose EXITs all leave the innermost loop or procedure.          *)
ExitsNest(p) == \E C \in [BlockNames -> ExitFlags \cup {"top"}] : NestsIn(p, C)

(* While an EXIT is pending the C stack only unwinds: no loop on the way to *)
(* the loop or procedure that is left starts another turn, and the flag is  *)
(* down when the top-level statement is over (one left up would make every  *)
(* later block a no-op).                                                    *)
PendingExitUnwinds ==
    [][exits # {} /\ ExitsNest(prog) => Len(k') < Len(k)]_vars

CallFrames == {i \in 1..Len(k) : k[i].fn \in {"sub", "function"}}

(* The innermost procedure's scope is the current one, each outer call will *)
(* restore the scope of the call around it, and no other scope is allocated. *)
ScopesMatchCalls ==
    LET OwnScope(i) ==    \* the scope statements run in below frame i
            IF \E j \in CallFrames : j < i
            THEN k[CHOOSE j \in CallFrames : j < i /\ \A h \in CallFrames : h < i => h <= j].own
            ELSE 0
    IN  status = "run" =>
        /\ current_scope = OwnScope(Len(k) + 1)
        /\ \A i \in CallFrames : k[i].saved = OwnScope(i)
        /\ scopes = {0} \cup {k[i].own : i \in CallFrames}
        /\ \A i, j \in CallFrames : k[i].own = k[j].own => i = j

(* call_stack never holds more frames than there are calls, so its frames   *)
(* are gone when the statement is over, even after pushes that were refused. *)
CallStackNotAhead == call_sp <= Cardinality(CallFrames)

(* Scopes and call_stack follow the C stack's calls, whatever EXIT, END,    *)
(* errors in arguments and refused pushes do on the way.                    *)
CallsMatch == ScopesMatchCalls /\ CallStackNotAhead

(* The program comes to its end.                                            *)
Terminates == <>(status # "run")

================================================================================
