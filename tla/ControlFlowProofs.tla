--------------------------- MODULE ControlFlowProofs ---------------------------
(***************************************************************************)
(* Proofs about the statement executor, for every set of well-formed       *)
(* programs and every value of the bounds.                                 *)
(***************************************************************************)
EXTENDS ControlFlow, SequenceTheorems, FiniteSetTheorems, TLAPS

(* Frames below the level of interp_run: a block's position is at least 1,  *)
(* and the main list is run only by interp_run itself.                      *)
InnerFrames ==
    {f \in Frame : f.fn # "top" /\ f.blk # "main" /\ (f.fn = "block" => f.i >= 1)}

TopFrames ==
    {f \in Frame : f.fn = "top" /\ f.blk = "main" /\ f.i \in 1..StmtCount}

(* The C stack is interp_run's own call of exec_statement, or what that     *)
(* call has become.                                                         *)
StackOK == k \in Seq(InnerFrames) \/ \E f \in TopFrames : k = <<f>>

(* A statement is in progress exactly while it has an index to go back to.  *)
StatementOK ==
    /\ old_pc \in {NoStmt} \cup 0..(StmtCount - 1)
    /\ k # <<>> => old_pc # NoStmt

TypeInv == TypeOK /\ StackOK /\ StatementOK

(* The part of it that Proceed and Raise decide.                            *)
FlowOK ==
    /\ k \in Seq(Frame) /\ StackOK
    /\ old_pc \in Int /\ StatementOK
    /\ in_error_handler \in BOOLEAN /\ error_pc \in Int /\ err_code \in Nat
    /\ status \in {"run", "returned", "exited", "undefined"}

--------------------------------------------------------------------------------
(* Facts about sequences.                                                   *)

LEMMA FrontType ==
    ASSUME NEW T, NEW s \in Seq(T), s # <<>>
    PROVE  /\ SubSeq(s, 1, Len(s) - 1) \in Seq(T)
           /\ s[Len(s)] \in T
           /\ Len(SubSeq(s, 1, Len(s) - 1)) = Len(s) - 1
           /\ \A i \in 1..(Len(s) - 1) : SubSeq(s, 1, Len(s) - 1)[i] = s[i]
  <1>1. Len(s) \in Nat /\ Len(s) >= 1
    <2>1. Len(s) \in Nat \ {0}
      BY EmptySeq
    <2>2. \A m \in Nat \ {0} : m \in Nat /\ m >= 1
      OBVIOUS
    <2>. QED BY <2>1, <2>2, Zenon
  <1>2. \A i \in 1..(Len(s) - 1) : s[i] \in T
    BY <1>1, ElementOfSeq
  <1>3. /\ SubSeq(s, 1, Len(s) - 1) \in Seq(T)
        /\ Len(SubSeq(s, 1, Len(s) - 1)) = IF 1 <= Len(s) - 1 THEN (Len(s) - 1) - 1 + 1 ELSE 0
        /\ \A i \in 1..((Len(s) - 1) - 1 + 1) : SubSeq(s, 1, Len(s) - 1)[i] = s[1 + i - 1]
    BY <1>1, <1>2, SubSeqProperties
  <1>4. s[Len(s)] \in T
    BY <1>1, ElementOfSeq
  <1>5. \A i \in 1..(Len(s) - 1) : SubSeq(s, 1, Len(s) - 1)[i] = s[i]
    <2>. SUFFICES ASSUME NEW i \in 1..(Len(s) - 1) PROVE SubSeq(s, 1, Len(s) - 1)[i] = s[i]
      OBVIOUS
    <2>1. i \in 1..((Len(s) - 1) - 1 + 1) /\ 1 + i - 1 = i
      BY <1>1
    <2>. QED BY <1>3, <2>1
  <1>6. Len(SubSeq(s, 1, Len(s) - 1)) = Len(s) - 1
    <2>1. CASE 1 <= Len(s) - 1
      <3>1. Len(SubSeq(s, 1, Len(s) - 1)) = (Len(s) - 1) - 1 + 1
        BY <1>3, <2>1, Zenon
      <3>. QED BY <1>1, <3>1
    <2>2. CASE Len(s) = 1
      <3>1. ~(1 <= Len(s) - 1) /\ Len(s) - 1 = 0
        BY <2>2
      <3>. QED BY <1>3, <3>1, Zenon
    <2>3. 1 <= Len(s) - 1 \/ Len(s) = 1
      <3>1. \A m \in Nat : m >= 1 => (1 <= m - 1 \/ m = 1)
        OBVIOUS
      <3>. QED BY <1>1, <3>1, Zenon
    <2>. QED BY <2>1, <2>2, <2>3
  <1>. QED BY <1>3, <1>4, <1>5, <1>6, Zenon

LEMMA SingleFront ==
    ASSUME NEW f PROVE SubSeq(<<f>>, 1, Len(<<f>>) - 1) = <<>> /\ <<f>>[Len(<<f>>)] = f
  OBVIOUS

LEMMA AppendType ==
    ASSUME NEW T, NEW s \in Seq(T), NEW e \in T PROVE Append(s, e) \in Seq(T)
  OBVIOUS

LEMMA ProgramType == TypeOK => WellFormed(prog) /\ StmtCount \in Nat
  <1>1. ASSUME TypeOK PROVE WellFormed(prog)
    BY <1>1, ConstantsOK DEF TypeOK
  <1>2. ASSUME WellFormed(prog) PROVE StmtCount \in Nat
    <2>1. prog["main"] \in Seq(Stmt)
      BY <1>2, ConstantsOK DEF WellFormed
    <2>. QED BY <2>1, LenProperties DEF StmtCount
  <1>. QED BY <1>1, <1>2

(* What is below the top of the C stack is inner frames.                    *)
LEMMA BelowType ==
    ASSUME StackOK, k # <<>>
    PROVE  Below \in Seq(InnerFrames) /\ Top \in InnerFrames \cup TopFrames
  <1>1. CASE k \in Seq(InnerFrames)
    BY <1>1, FrontType DEF Below, Top
  <1>2. ASSUME NEW f \in TopFrames, k = <<f>>
        PROVE  Below \in Seq(InnerFrames) /\ Top \in InnerFrames \cup TopFrames
    <2>1. Below = <<>> /\ Top = f
      BY <1>2, SingleFront DEF Below, Top
    <2>. QED BY <2>1
  <1>. QED BY <1>1, <1>2 DEF StackOK

(* The statement about to be executed is a statement of the program, and    *)
(* one nested in a block is not in the main list.                           *)
LEMMA CurType ==
    ASSUME TypeOK, StackOK, StmtReady
    PROVE  /\ Top.blk \in BlockNames /\ Top.i \in 1..Len(prog[Top.blk])
           /\ Cur \in Stmt /\ Cur.body # "main" /\ Cur.alt # "main" /\ Cur.to # <<>>
           /\ Cur.n \in INTEGERs
           /\ \A j \in 1..Len(Cur.to) : Cur.to[j] \in {NoTarget} \cup 0..(StmtCount - 1)
           /\ Top.fn # "top" => Top.blk # "main"
  <1>1. WellFormed(prog)
    BY ProgramType
  <1>2. Top \in InnerFrames \cup TopFrames
    BY BelowType DEF StmtReady
  <1>3. Top.blk \in BlockNames /\ Top.i \in 1..Len(prog[Top.blk])
    <2>1. CASE Top.fn = "top"
      BY <1>2, <2>1 DEF TopFrames, InnerFrames, Frame, StmtCount
    <2>2. CASE Top.fn = "block" /\ BlockGoesOn
      BY <1>1, <1>2, <2>2 DEF InnerFrames, TopFrames, Frame, BlockGoesOn, WellFormed
    <2>. QED BY <2>1, <2>2 DEF StmtReady
  <1>4. prog[Top.blk] \in Seq(Stmt)
    BY <1>1, <1>3 DEF WellFormed
  <1>5. Cur \in Stmt
    BY <1>3, <1>4 DEF Cur
  <1>6. Top.fn # "top" => Top.blk # "main"
    BY <1>2 DEF InnerFrames, TopFrames
  <1>. QED BY <1>1, <1>3, <1>5, <1>6 DEF WellFormed, Cur, StmtCount

LEMMA RestType ==
    ASSUME TypeOK, StackOK, StmtReady PROVE Rest \in Seq(InnerFrames)
  <1>1. Below \in Seq(InnerFrames) /\ Top \in InnerFrames \cup TopFrames
    BY BelowType DEF StmtReady
  <1>2. CASE Top.fn = "top"
    BY <1>1, <1>2 DEF Rest
  <1>3. CASE Top.fn = "block"
    <2>0. Top \in InnerFrames /\ Top \in Frame
      BY <1>1, <1>3 DEF InnerFrames, TopFrames
    <2>a. Top.i + 1 \in Nat /\ Top.i + 1 >= 1
      BY <2>0 DEF Frame
    <2>b. [Top EXCEPT !.i = Top.i + 1] \in Frame
      BY <2>0, <2>a DEF Frame
    <2>1. [Top EXCEPT !.i = Top.i + 1] \in InnerFrames
      BY <2>0, <2>a, <2>b DEF InnerFrames, Frame
    <2>. QED BY <1>1, <1>3, <2>1, AppendType DEF Rest
  <1>. QED BY <1>2, <1>3 DEF StmtReady

LEMMA NewFrameType ==
    ASSUME NEW fn \in FrameKinds \ {"top"}, NEW b \in BlockNames \ {"main"}, NEW i \in Nat,
           fn = "block" => i >= 1
    PROVE  NewFrame(fn, b, i) \in InnerFrames
  <1>1. (CHOOSE v \in Vars : TRUE) \in Vars
    BY ConstantsOK DEF ConstantsOK
  <1>. QED BY <1>1 DEF NewFrame, InnerFrames, Frame, FrameKinds, Conds

--------------------------------------------------------------------------------
(* Type correctness.                                                        *)

LEMMA InnerStackType ==
    ASSUME NEW s \in Seq(InnerFrames) PROVE s \in Seq(Frame)
  <1>1. InnerFrames \subseteq Frame
    BY DEF InnerFrames
  <1>. QED BY <1>1, SeqMonotonic

(* Going on with a stack of inner frames.                                   *)
LEMMA ProceedType ==
    ASSUME TypeInv, k # <<>>, prog' = prog, NEW s \in Seq(InnerFrames), Proceed(s)
    PROVE  FlowOK'
  <1>1. k' = s /\ k' \in Seq(InnerFrames) /\ k' \in Seq(Frame)
    BY InnerStackType DEF Proceed
  <1>2. old_pc' = old_pc /\ UNCHANGED <<errVars, status>>
    BY DEF Proceed
  <1>3. InnerFrames' = InnerFrames
    BY DEF InnerFrames
  <1>4. StackOK'
    BY <1>1, <1>3 DEF StackOK
  <1>5. StatementOK'
    BY <1>2 DEF TypeInv, StatementOK, StmtCount
  <1>. QED BY <1>1, <1>2, <1>4, <1>5 DEF FlowOK, TypeInv, TypeOK, errVars

(* An error: the C stack is dropped, or the process ends.                   *)
LEMMA RaiseType ==
    ASSUME TypeInv, k # <<>>, prog' = prog, NEW code \in Nat, Raise(code)
    PROVE  FlowOK' /\ pc' \in Int
  <1>1. CASE has_jmp
    <2>1. k' = <<>> /\ old_pc' = NoStmt
      BY <1>1 DEF Raise
    <2>2. StackOK' /\ k' \in Seq(Frame)
      BY <2>1 DEF StackOK
    <2>3. StatementOK'
      BY <2>1 DEF StatementOK
    <2>. QED BY <1>1, <2>1, <2>2, <2>3 DEF Raise, FlowOK, TypeInv, TypeOK, NoStmt
  <1>2. CASE ~has_jmp
    <2>1. UNCHANGED <<prog, pc, old_pc, k, errVars>> /\ status' = "exited"
      BY <1>2 DEF Raise
    <2>2. StackOK'
      BY <2>1 DEF TypeInv, StackOK, InnerFrames, TopFrames, StmtCount
    <2>3. StatementOK'
      BY <2>1 DEF TypeInv, StatementOK, StmtCount
    <2>. QED BY <2>1, <2>2, <2>3 DEF FlowOK, TypeInv, TypeOK, errVars
  <1>. QED BY <1>1, <1>2

(* What the type invariant says of the variables a statement may change     *)
(* besides the C stack.                                                     *)
DataOK ==
    /\ prog \in Programs /\ val \in [Vars -> INTEGERs] /\ pc \in Int /\ running \in BOOLEAN
    /\ gosub_stack \in Seq(Int) /\ Len(gosub_stack) <= MAX_GOSUB_STACK
    /\ exits \subseteq ExitFlags /\ call_sp \in 0..CALL_STACK_MAX
    /\ current_scope \in Nat /\ scopes \subseteq 0..MaxScopes
    /\ on_error_target \in Int /\ has_jmp \in BOOLEAN

LEMMA TypeInvParts == (TypeInv => DataOK /\ FlowOK) /\ (DataOK' /\ FlowOK' => TypeInv')
  BY DEF TypeInv, TypeOK, DataOK, FlowOK

(* A statement that raises an error or goes on with a stack of inner frames. *)
LEMMA ReadyType ==
    ASSUME TypeInv, StmtReady
    PROVE  /\ k # <<>> /\ status = "run" /\ old_pc \in 0..(StmtCount - 1)
           /\ Rest \in Seq(InnerFrames)
           /\ Cur \in Stmt /\ Cur.body # "main" /\ Cur.alt # "main" /\ Cur.n \in Nat
           /\ Cur.n \in INTEGERs /\ Cur.var \in Vars
           /\ \A j \in 1..Len(Cur.to) : Cur.to[j] \in {NoTarget} \cup 0..(StmtCount - 1)
           /\ Cur.to[1] \in {NoTarget} \cup 0..(StmtCount - 1)
  <1>1. k # <<>> /\ status = "run"
    BY DEF StmtReady
  <1>2. old_pc \in 0..(StmtCount - 1)
    BY <1>1 DEF TypeInv, StatementOK
  <1>3. Rest \in Seq(InnerFrames)
    BY RestType DEF TypeInv
  <1>4. /\ Cur \in Stmt /\ Cur.body # "main" /\ Cur.alt # "main" /\ Cur.to # <<>>
        /\ \A j \in 1..Len(Cur.to) : Cur.to[j] \in {NoTarget} \cup 0..(StmtCount - 1)
        /\ Cur.n \in INTEGERs
    BY CurType DEF TypeInv
  <1>5. Cur.n \in Nat /\ Cur.to \in Seq(Int) /\ Cur.var \in Vars
    BY <1>4 DEF Stmt
  <1>6. 1 \in 1..Len(Cur.to)
    <2>1. Len(Cur.to) \in Nat \ {0}
      BY <1>4, <1>5, EmptySeq
    <2>2. \A m \in Nat \ {0} : 1 \in 1..m
      OBVIOUS
    <2>. QED BY <2>1, <2>2, Zenon
  <1>. QED BY <1>1, <1>2, <1>3, <1>4, <1>5, <1>6

LEMMA BlockType ==
    ASSUME TypeInv, StmtReady, NEW b \in {Cur.body, Cur.alt}
    PROVE  Append(Rest, Block(b)) \in Seq(InnerFrames)
  <1>1. b \in BlockNames \ {"main"}
    BY ReadyType DEF Stmt
  <1>2. Block(b) \in InnerFrames
    BY <1>1, NewFrameType DEF Block, FrameKinds
  <1>. QED BY <1>2, ReadyType, AppendType

(* Entering a loop, and the frame of a loop taking another turn.            *)
LEMMA LoopType ==
    ASSUME TypeInv, StmtReady, NEW fn \in {"for", "while", "do"}, NEW turns \in Nat,
           prog' = prog, EnterLoop(fn, turns)
    PROVE  FlowOK'
  <1>1. /\ Cur.body \in BlockNames \ {"main"} /\ Cur.cond \in Conds
        /\ Cur.var \in Vars /\ Cur.limit \in Int /\ Cur.step \in Int
    BY ReadyType DEF Stmt
  <1>2. NewFrame(fn, Cur.body, turns) \in InnerFrames
    BY <1>1, NewFrameType DEF FrameKinds
  <1>3. [NewFrame(fn, Cur.body, turns) EXCEPT !.cond = Cur.cond, !.var = Cur.var,
                    !.limit = Cur.limit, !.step = Cur.step] \in InnerFrames
    BY <1>1, <1>2 DEF InnerFrames, Frame
  <1>. QED BY <1>3, ReadyType, AppendType, ProceedType DEF EnterLoop

LEMMA LoopFrameType ==
    ASSUME TypeInv, NEW fn \in {"for", "while", "do", "block", "sub", "function"},
           AtFrame(fn)
    PROVE  /\ k # <<>> /\ status = "run"
           /\ Below \in Seq(InnerFrames) /\ Top \in InnerFrames
           /\ Top.i \in Nat /\ Top.blk \in BlockNames \ {"main"} /\ Top.saved \in Nat
  <1>1. k # <<>> /\ status = "run" /\ Top.fn # "top"
    BY DEF AtFrame
  <1>2. Below \in Seq(InnerFrames) /\ Top \in InnerFrames
    BY <1>1, BelowType DEF TypeInv, TopFrames
  <1>. QED BY <1>1, <1>2 DEF InnerFrames, Frame

LEMMA TurnType ==
    ASSUME TypeInv, NEW fn \in {"for", "while", "do"}, AtFrame(fn), NEW i \in Nat,
           prog' = prog, Turn(i)
    PROVE  FlowOK' /\ UNCHANGED <<pc, exits>>
  <1>1. [Top EXCEPT !.i = i] \in InnerFrames
    <2>1. Top \in InnerFrames /\ Top.fn = fn
      BY LoopFrameType DEF AtFrame
    <2>. QED BY <2>1 DEF InnerFrames, Frame
  <1>2. Block(Top.blk) \in InnerFrames
    BY LoopFrameType, NewFrameType DEF Block, FrameKinds
  <1>3. Append(Append(Below, [Top EXCEPT !.i = i]), Block(Top.blk)) \in Seq(InnerFrames)
    BY <1>1, <1>2, LoopFrameType, AppendType
  <1>. QED BY <1>3, LoopFrameType, ProceedType DEF Turn

LEMMA LeaveLoopType ==
    ASSUME TypeInv, NEW fn \in {"for", "while", "do"}, AtFrame(fn), prog' = prog, LeaveLoop
    PROVE  FlowOK' /\ pc' = pc /\ exits' \subseteq exits
  BY LoopFrameType, ProceedType DEF LeaveLoop

LEMMA TestAndTurnType ==
    ASSUME TypeInv, NEW fn \in {"for", "while", "do"}, AtFrame(fn), prog' = prog, TestAndTurn
    PROVE  FlowOK' /\ pc' \in Int /\ exits' \subseteq exits
  <1>1. CASE Fails(Top)
    BY <1>1, LoopFrameType, RaiseType DEF TestAndTurn, ERR_DIVISION_BY_ZERO
  <1>2. CASE ~Fails(Top) /\ Holds(Top)
    BY <1>2, TurnType DEF TestAndTurn, TypeInv, TypeOK
  <1>3. CASE ~Fails(Top) /\ ~Holds(Top)
    BY <1>3, LeaveLoopType DEF TestAndTurn, TypeInv, TypeOK
  <1>. QED BY <1>1, <1>2, <1>3

(* A jump to a label the parser knows or does not know.                     *)
LEMMA JumpToType ==
    ASSUME TypeInv, StmtReady, prog' = prog, JumpTo(Cur.to[1])
    PROVE  FlowOK' /\ pc' \in Int
  <1>1. CASE Cur.to[1] = NoTarget
    BY <1>1, ReadyType, RaiseType DEF JumpTo, ERR_UNDEFINED_LABEL
  <1>2. CASE Cur.to[1] # NoTarget
    <2>1. Cur.to[1] \in Int
      BY ReadyType DEF NoTarget, Stmt
    <2>. QED BY <1>2, <2>1, ReadyType, ProceedType DEF JumpTo
  <1>. QED BY <1>1, <1>2

LEMMA PushedType == call_sp \in 0..CALL_STACK_MAX =>
                    Pushed(call_sp) \in 0..CALL_STACK_MAX /\ Popped(call_sp) \in 0..CALL_STACK_MAX
  BY ConstantsOK DEF Pushed, Popped, ConstantsOK

LEMMA FreshType == ScopeAvailable => Fresh \in 1..MaxScopes /\ Fresh \notin scopes
  BY DEF ScopeAvailable, Fresh

(* The return index pushed by a GOSUB, and the stack without its last entry. *)
LEMMA GosubStackType ==
    ASSUME gosub_stack \in Seq(Int), pc \in Int
    PROVE  /\ Len(gosub_stack) < MAX_GOSUB_STACK =>
                 /\ Append(gosub_stack, pc + 1) \in Seq(Int)
                 /\ Len(Append(gosub_stack, pc + 1)) <= MAX_GOSUB_STACK
  <1>1. pc + 1 \in Int /\ MAX_GOSUB_STACK \in Nat /\ Len(gosub_stack) \in Nat
    BY LenProperties, ConstantsOK DEF ConstantsOK
  <1>2. Append(gosub_stack, pc + 1) \in Seq(Int)
    BY <1>1, AppendType
  <1>3. Len(Append(gosub_stack, pc + 1)) = Len(gosub_stack) + 1
    BY <1>1
  <1>4. \A m, n \in Nat : m < n => m + 1 <= n
    OBVIOUS
  <1>. QED BY <1>1, <1>2, <1>3, <1>4

(* Entering a procedure once its scope is available.                        *)
LEMMA EnterProcedureType ==
    ASSUME TypeInv, StmtReady, NEW fn \in {"sub", "function"}, prog' = prog,
           ScopeAvailable, scopes' = scopes \cup {Fresh}, EnterProcedure(fn)
    PROVE  /\ FlowOK' /\ pc' = pc /\ exits' \subseteq exits
           /\ call_sp' \in 0..CALL_STACK_MAX /\ current_scope' \in Nat
           /\ scopes' \subseteq 0..MaxScopes
  <1> DEFINE call == [NewFrame(fn, Cur.body, 0) EXCEPT !.saved = current_scope, !.own = Fresh]
             pair == <<call, Block(Cur.body)>>
  <1>1. Fresh \in 1..MaxScopes /\ Fresh \in Nat
    BY FreshType, ConstantsOK DEF ConstantsOK
  <1>2. Cur.body \in BlockNames \ {"main"}
    BY ReadyType DEF Stmt
  <1>3. NewFrame(fn, Cur.body, 0) \in InnerFrames /\ Block(Cur.body) \in InnerFrames
    BY <1>2, NewFrameType DEF Block, FrameKinds
  <1>4. call \in InnerFrames
    BY <1>1, <1>3 DEF InnerFrames, Frame, TypeInv, TypeOK
  <1>5. pair \in Seq(InnerFrames)
    BY <1>3, <1>4
  <1>6. Rest \o pair \in Seq(InnerFrames)
    BY <1>5, ReadyType, ConcatProperties
  <1>7. Proceed(Rest \o pair)
    BY DEF EnterProcedure
  <1>8. FlowOK'
    BY <1>6, <1>7, ReadyType, ProceedType
  <1>9. call_sp' \in 0..CALL_STACK_MAX
    BY PushedType DEF EnterProcedure, TypeInv, TypeOK
  <1>10. current_scope' \in Nat /\ scopes' \subseteq 0..MaxScopes
    BY <1>1, ConstantsOK DEF EnterProcedure, TypeInv, TypeOK, ConstantsOK
  <1>. QED BY <1>8, <1>9, <1>10 DEF EnterProcedure

--------------------------------------------------------------------------------
(* Every action preserves the type invariant.                               *)

LEMMA InitType == Init => TypeInv
  <1>. SUFFICES ASSUME Init PROVE TypeInv
    OBVIOUS
  <1>1. k = <<>> /\ k \in Seq(Frame) /\ k \in Seq(InnerFrames)
    BY DEF Init
  <1>2. gosub_stack \in Seq(Int) /\ Len(gosub_stack) <= MAX_GOSUB_STACK
    BY ConstantsOK DEF Init, ConstantsOK
  <1>3. /\ val \in [Vars -> INTEGERs] /\ call_sp \in 0..CALL_STACK_MAX /\ scopes \subseteq 0..MaxScopes
        /\ pc \in Int /\ old_pc \in Int /\ on_error_target \in Int
    BY ConstantsOK DEF Init, ConstantsOK, NoStmt, NoTarget
  <1>4. TypeOK
    BY <1>1, <1>2, <1>3 DEF Init, TypeOK
  <1>5. StackOK /\ StatementOK
    BY <1>1 DEF Init, StackOK, StatementOK
  <1>. QED BY <1>4, <1>5 DEF TypeInv

LEMMA ExecLetType == ASSUME TypeInv, ExecLet PROVE TypeInv'
  <1>1. StmtReady /\ prog' = prog /\ UNCHANGED <<running, on_error_target, has_jmp, gosub_stack,
            exits, call_sp, current_scope, scopes>>
    BY DEF ExecLet, At, Untouched, callVars
  <1>2. CASE Fails(Cur)
    BY <1>1, <1>2, ReadyType, RaiseType, TypeInvParts DEF ExecLet, DataOK, ERR_DIVISION_BY_ZERO
  <1>3. CASE ~Fails(Cur)
    <2>1. val' \in [Vars -> INTEGERs] /\ UNCHANGED pc
      <3>1. /\ val \in [Vars -> INTEGERs] /\ Cur.var \in Vars /\ Cur.n \in INTEGERs
            /\ MAX_INTEGER \in Nat
        BY <1>1, ReadyType, ConstantsOK DEF TypeInv, TypeOK, ConstantsOK
      <3>2. \A n \in INTEGERs : (IF n > 0 THEN n - 1 ELSE 0) \in INTEGERs
        BY <3>1 DEF INTEGERs
      <3>3. /\ val' = [val EXCEPT ![Cur.var] =
                          IF Cur.cond # "pos" THEN Cur.n ELSE IF @ > 0 THEN @ - 1 ELSE 0]
            /\ UNCHANGED pc
        BY <1>3 DEF ExecLet
      <3>. QED BY <3>1, <3>2, <3>3
    <2>2. FlowOK'
      BY <1>1, <1>3, ReadyType, ProceedType DEF ExecLet
    <2>. QED BY <1>1, <2>1, <2>2, TypeInvParts DEF DataOK
  <1>. QED BY <1>2, <1>3

LEMMA ExecIfType == ASSUME TypeInv, ExecIf PROVE TypeInv'
  <1>1. StmtReady /\ prog' = prog /\ UNCHANGED <<val, running, on_error_target, has_jmp,
            gosub_stack, exits, call_sp, current_scope, scopes>>
    BY DEF ExecIf, At, Untouched, callVars
  <1>2. CASE Fails(Cur)
    BY <1>1, <1>2, ReadyType, RaiseType, TypeInvParts DEF ExecIf, DataOK, ERR_DIVISION_BY_ZERO
  <1>3. CASE ~Fails(Cur)
    <2>1. FlowOK'
      BY <1>1, <1>3, ReadyType, BlockType, ProceedType DEF ExecIf
    <2>. QED BY <1>1, <1>3, <2>1, TypeInvParts DEF ExecIf, DataOK
  <1>. QED BY <1>2, <1>3

LEMMA ExecSelectCaseType == ASSUME TypeInv, ExecSelectCase PROVE TypeInv'
  <1>1. StmtReady /\ prog' = prog /\ UNCHANGED <<val, pc, running, on_error_target, has_jmp,
            gosub_stack, exits, call_sp, current_scope, scopes>>
    BY DEF ExecSelectCase, At, Untouched, callVars
  <1>2. FlowOK'
    BY <1>1, ReadyType, BlockType, ProceedType DEF ExecSelectCase
  <1>. QED BY <1>1, <1>2, TypeInvParts DEF DataOK

LEMMA EnterLoopsType == ASSUME TypeInv, ExecFor \/ ExecWhile \/ ExecDoLoop PROVE TypeInv'
  <1>1. StmtReady /\ prog' = prog /\ UNCHANGED <<running, on_error_target, has_jmp,
            gosub_stack, exits, call_sp, current_scope, scopes>>
    BY DEF ExecFor, ExecWhile, ExecDoLoop, At, Untouched, callVars
  <1>2. FlowOK' /\ pc' \in Int
    <2>1. CASE ExecFor /\ Cur.cond = "div" /\ Cur.n = 0
      BY <1>1, <2>1, ReadyType, RaiseType DEF ExecFor, ERR_DIVISION_BY_ZERO
    <2>2. CASE ExecFor /\ ~(Cur.cond = "div" /\ Cur.n = 0)
      BY <1>1, <2>2, ReadyType, LoopType DEF ExecFor, TypeInv, TypeOK
    <2>3. CASE ExecWhile
      BY <1>1, <2>3, ReadyType, LoopType DEF ExecWhile, TypeInv, TypeOK
    <2>4. CASE ExecDoLoop
      BY <1>1, <2>4, ReadyType, LoopType DEF ExecDoLoop, TypeInv, TypeOK
    <2>. QED BY <2>1, <2>2, <2>3, <2>4
  <1>3. val' \in [Vars -> INTEGERs]
    <2>1. val \in [Vars -> INTEGERs] /\ Cur.n \in INTEGERs
      BY <1>1, ReadyType DEF TypeInv, TypeOK
    <2>2. CASE ExecFor
      BY <2>1, <2>2 DEF ExecFor
    <2>3. CASE ExecWhile \/ ExecDoLoop
      BY <2>1, <2>3 DEF ExecWhile, ExecDoLoop
    <2>. QED BY <2>2, <2>3
  <1>. QED BY <1>1, <1>2, <1>3, TypeInvParts DEF DataOK

(* A turn of FOR leaves the loop, runs its body, or raises an error.        *)
LEMMA ForStepCases ==
    ForStep => /\ AtFrame("for")
               /\ LeaveLoop \/ Turn(1) \/ (Raise(ERR_OVERFLOW) /\ exits' = exits)
  BY DEF ForStep

LEMMA ForStepFlow ==
    ASSUME TypeInv, prog' = prog, AtFrame("for"),
           LeaveLoop \/ Turn(1) \/ (Raise(ERR_OVERFLOW) /\ exits' = exits)
    PROVE  FlowOK' /\ pc' \in Int /\ exits' \subseteq exits
  <1>1. CASE LeaveLoop
    BY <1>1, LeaveLoopType DEF TypeInv, TypeOK
  <1>2. CASE Turn(1)
    BY <1>2, TurnType DEF TypeInv, TypeOK
  <1>3. CASE Raise(ERR_OVERFLOW) /\ exits' = exits
    BY <1>3, RaiseType, LoopFrameType DEF ERR_OVERFLOW
  <1>. QED BY <1>1, <1>2, <1>3

LEMMA LoopStepsType == ASSUME TypeInv, ForStep \/ WhileStep \/ DoLoopStep PROVE TypeInv'
  <1>1. prog' = prog /\ UNCHANGED <<running, on_error_target, has_jmp,
            gosub_stack, call_sp, current_scope, scopes>>
    BY DEF ForStep, WhileStep, DoLoopStep, Untouched, callVars
  <1>2. FlowOK' /\ pc' \in Int /\ exits' \subseteq exits
    <2>1. CASE ForStep
      BY <1>1, <2>1, ForStepCases, ForStepFlow
    <2>2. CASE WhileStep
      BY <1>1, <2>2, LeaveLoopType, TestAndTurnType DEF WhileStep, TypeInv, TypeOK
    <2>3. CASE DoLoopStep
      BY <1>1, <2>3, LeaveLoopType, TestAndTurnType, TurnType DEF DoLoopStep, TypeInv, TypeOK
    <2>. QED BY <2>1, <2>2, <2>3
  <1>3. val' \in [Vars -> INTEGERs]
    <2>1. val \in [Vars -> INTEGERs]
      BY DEF TypeInv, TypeOK
    <2>2. CASE ForStep
      BY <2>1, <2>2 DEF ForStep
    <2>3. CASE WhileStep \/ DoLoopStep
      BY <2>1, <2>3 DEF WhileStep, DoLoopStep
    <2>. QED BY <2>2, <2>3
  <1>. QED BY <1>1, <1>2, <1>3, TypeInvParts DEF DataOK

LEMMA BlockEndType == ASSUME TypeInv, BlockEnd PROVE TypeInv'
  <1>1. FlowOK'
    BY LoopFrameType, ProceedType DEF BlockEnd, Untouched
  <1>. QED BY <1>1, TypeInvParts DEF BlockEnd, Untouched, DataOK, callVars

LEMMA ExecExitType == ASSUME TypeInv, ExecExit PROVE TypeInv'
  <1>1. FlowOK'
    BY ReadyType, ProceedType DEF ExecExit, At, Untouched
  <1>. QED BY <1>1, TypeInvParts DEF ExecExit, Untouched, DataOK, callVars

LEMMA ExecGotoType == ASSUME TypeInv, ExecGoto PROVE TypeInv'
  <1>1. StmtReady /\ prog' = prog /\ UNCHANGED <<val, running, on_error_target, has_jmp,
            gosub_stack, exits, call_sp, current_scope, scopes>>
    BY DEF ExecGoto, At, Untouched, callVars
  <1>2. FlowOK' /\ pc' \in Int
    BY <1>1, JumpToType DEF ExecGoto
  <1>. QED BY <1>1, <1>2, TypeInvParts DEF DataOK

LEMMA ExecGosubType == ASSUME TypeInv, ExecGosub PROVE TypeInv'
  <1>1. StmtReady /\ prog' = prog /\ UNCHANGED <<val, running, on_error_target, has_jmp,
            exits, call_sp, current_scope, scopes>>
    BY DEF ExecGosub, At, Untouched, callVars
  <1>2. gosub_stack \in Seq(Int) /\ Len(gosub_stack) \in Nat /\ MAX_GOSUB_STACK \in Nat
    BY LenProperties, ConstantsOK DEF TypeInv, TypeOK, ConstantsOK
  <1>3. CASE Len(gosub_stack) >= MAX_GOSUB_STACK
    <2>1. FlowOK' /\ pc' \in Int /\ UNCHANGED gosub_stack
      BY <1>1, <1>3, ReadyType, RaiseType DEF ExecGosub, ERR_OUT_OF_MEMORY
    <2>. QED BY <1>1, <2>1, TypeInvParts DEF DataOK
  <1>4. CASE Len(gosub_stack) < MAX_GOSUB_STACK
    <2>1. ~(Len(gosub_stack) >= MAX_GOSUB_STACK)
      BY <1>2, <1>4
    <2>2. FlowOK' /\ pc' \in Int
      BY <1>1, <2>1, JumpToType DEF ExecGosub
    <2>3. gosub_stack' \in Seq(Int) /\ Len(gosub_stack') <= MAX_GOSUB_STACK
      BY <1>4, <2>1, GosubStackType DEF ExecGosub, TypeInv, TypeOK
    <2>. QED BY <1>1, <2>2, <2>3, TypeInvParts DEF DataOK
  <1>. QED BY <1>2, <1>3, <1>4

LEMMA ExecReturnType == ASSUME TypeInv, ExecReturn PROVE TypeInv'
  <1>1. StmtReady /\ prog' = prog /\ UNCHANGED <<val, running, on_error_target, has_jmp,
            exits, call_sp, current_scope, scopes>>
    BY DEF ExecReturn, At, Untouched, callVars
  <1>2. CASE gosub_stack = <<>>
    <2>1. FlowOK' /\ pc' \in Int /\ UNCHANGED gosub_stack
      BY <1>1, <1>2, ReadyType, RaiseType DEF ExecReturn, ERR_RETURN_WITHOUT_GOSUB
    <2>. QED BY <1>1, <2>1, TypeInvParts DEF DataOK
  <1>3. CASE gosub_stack # <<>>
    <2>1. gosub_stack \in Seq(Int) /\ Len(gosub_stack) \in Nat /\ MAX_GOSUB_STACK \in Nat
          /\ Len(gosub_stack) <= MAX_GOSUB_STACK
      BY LenProperties, ConstantsOK DEF TypeInv, TypeOK, ConstantsOK
    <2>2. /\ gosub_stack' \in Seq(Int) /\ pc' \in Int
          /\ Len(gosub_stack') = Len(gosub_stack) - 1
      BY <1>3, <2>1, FrontType DEF ExecReturn
    <2>3. \A m, n \in Nat : m <= n => m - 1 <= n
      OBVIOUS
    <2>4. Len(gosub_stack') <= MAX_GOSUB_STACK
      BY <2>1, <2>2, <2>3
    <2>5. FlowOK'
      BY <1>1, <1>3, ReadyType, ProceedType DEF ExecReturn
    <2>. QED BY <1>1, <2>2, <2>4, <2>5, TypeInvParts DEF DataOK
  <1>. QED BY <1>2, <1>3

(* The branch ON x GOTO or ON x GOSUB takes, if any.                        *)
LEMMA OnBranchTargetType ==
    ASSUME TypeInv, StmtReady PROVE OnBranchTarget \in {NoTarget} \cup 0..(StmtCount - 1)
  BY ReadyType DEF OnBranchTarget

LEMMA ExecOnGotoType == ASSUME TypeInv, ExecOnGoto PROVE TypeInv'
  <1>1. StmtReady /\ prog' = prog /\ UNCHANGED <<val, running, on_error_target, has_jmp,
            gosub_stack, exits, call_sp, current_scope, scopes>>
    BY DEF ExecOnGoto, At, Untouched, callVars
  <1>2. OnBranchTarget \in Int /\ pc \in Int
    BY <1>1, OnBranchTargetType, ProgramType DEF NoTarget, TypeInv, TypeOK
  <1>3. pc' \in Int
    BY <1>2 DEF ExecOnGoto
  <1>4. FlowOK'
    BY <1>1, ReadyType, ProceedType DEF ExecOnGoto
  <1>. QED BY <1>1, <1>3, <1>4, TypeInvParts DEF DataOK

LEMMA ExecOnGosubType == ASSUME TypeInv, ExecOnGosub PROVE TypeInv'
  <1>1. StmtReady /\ prog' = prog /\ UNCHANGED <<val, running, on_error_target, has_jmp,
            exits, call_sp, current_scope, scopes>>
    BY DEF ExecOnGosub, At, Untouched, callVars
  <1>2. gosub_stack \in Seq(Int) /\ Len(gosub_stack) \in Nat /\ MAX_GOSUB_STACK \in Nat
    BY LenProperties, ConstantsOK DEF TypeInv, TypeOK, ConstantsOK
  <1>3. OnBranchTarget \in Int
    BY <1>1, OnBranchTargetType, ProgramType DEF NoTarget, TypeInv
  <1>4. CASE OnBranchTarget = NoTarget
    <2>1. FlowOK' /\ UNCHANGED <<pc, gosub_stack>>
      BY <1>1, <1>4, ReadyType, ProceedType DEF ExecOnGosub
    <2>. QED BY <1>1, <2>1, TypeInvParts DEF DataOK
  <1>5. CASE OnBranchTarget # NoTarget /\ Len(gosub_stack) >= MAX_GOSUB_STACK
    <2>1. FlowOK' /\ pc' \in Int /\ UNCHANGED gosub_stack
      BY <1>1, <1>5, ReadyType, RaiseType DEF ExecOnGosub, ERR_OUT_OF_MEMORY
    <2>. QED BY <1>1, <2>1, TypeInvParts DEF DataOK
  <1>6. CASE OnBranchTarget # NoTarget /\ Len(gosub_stack) < MAX_GOSUB_STACK
    <2>1. ~(Len(gosub_stack) >= MAX_GOSUB_STACK)
      BY <1>2, <1>6
    <2>2. FlowOK' /\ pc' \in Int
      BY <1>1, <1>3, <1>6, <2>1, ReadyType, ProceedType DEF ExecOnGosub
    <2>3. gosub_stack' \in Seq(Int) /\ Len(gosub_stack') <= MAX_GOSUB_STACK
      BY <1>6, <2>1, GosubStackType DEF ExecOnGosub, TypeInv, TypeOK
    <2>. QED BY <1>1, <2>2, <2>3, TypeInvParts DEF DataOK
  <1>. QED BY <1>2, <1>4, <1>5, <1>6

LEMMA ExecEndType == ASSUME TypeInv, ExecEnd PROVE TypeInv'
  <1>1. FlowOK'
    BY ReadyType, ProceedType DEF ExecEnd, At
  <1>. QED BY <1>1, TypeInvParts DEF ExecEnd, DataOK, callVars

LEMMA RaiseArgumentType ==
    ASSUME TypeInv, StmtReady, prog' = prog, RaiseArgument PROVE FlowOK' /\ pc' \in Int
  BY ReadyType, RaiseType DEF RaiseArgument, ERR_DIVISION_BY_ZERO, ERR_OVERFLOW

LEMMA ScopesType ==
    ASSUME TypeInv, ScopeAvailable, scopes' = scopes \cup {Fresh}
    PROVE  scopes' \subseteq 0..MaxScopes /\ Fresh \in Nat
  <1>1. Fresh \in 1..MaxScopes /\ MaxScopes \in Nat
    BY FreshType, ConstantsOK DEF ConstantsOK
  <1>. QED BY <1>1 DEF TypeInv, TypeOK

LEMMA ExecCallType == ASSUME TypeInv, ExecCall PROVE TypeInv'
  <1>1. StmtReady /\ prog' = prog /\ UNCHANGED <<val, running, on_error_target, has_jmp, gosub_stack>>
    BY DEF ExecCall, At, Untouched
  <1>2. CASE Cur.body = NoBlock
    BY <1>1, <1>2, ReadyType, RaiseType, TypeInvParts
       DEF ExecCall, DataOK, callVars, ERR_SUBPROGRAM_NOT_DEFINED
  <1>3. CASE Cur.body # NoBlock /\ (Fails(Cur) \/ Misfits(Cur))
    <2>1. /\ scopes' = scopes \cup {Fresh} /\ ScopeAvailable
          /\ RaiseArgument /\ UNCHANGED <<call_sp, current_scope, exits>>
      BY <1>3 DEF ExecCall
    <2>. QED BY <1>1, <2>1, ScopesType, RaiseArgumentType, TypeInvParts DEF DataOK
  <1>4. CASE Cur.body # NoBlock /\ ~(Fails(Cur) \/ Misfits(Cur))
    BY <1>1, <1>4, EnterProcedureType, TypeInvParts DEF ExecCall, DataOK
  <1>. QED BY <1>2, <1>3, <1>4

LEMMA EvalFunctionType == ASSUME TypeInv, EvalFunction PROVE TypeInv'
  <1>1. StmtReady /\ prog' = prog /\ UNCHANGED <<val, running, on_error_target, has_jmp, gosub_stack>>
    BY DEF EvalFunction, At, Untouched
  <1>2. CASE Fails(Cur)
    <2>1. RaiseArgument /\ UNCHANGED <<call_sp, current_scope, scopes, exits>>
      BY <1>2 DEF EvalFunction, callVars
    <2>. QED BY <1>1, <2>1, RaiseArgumentType, TypeInvParts DEF DataOK
  <1>3. CASE ~Fails(Cur) /\ Misfits(Cur)
    <2>1. /\ scopes' = scopes \cup {Fresh} /\ ScopeAvailable /\ current_scope' = Fresh
          /\ RaiseArgument /\ UNCHANGED <<call_sp, exits>>
      BY <1>3 DEF EvalFunction
    <2>. QED BY <1>1, <2>1, ScopesType, RaiseArgumentType, TypeInvParts DEF DataOK
  <1>4. CASE ~Fails(Cur) /\ ~Misfits(Cur)
    BY <1>1, <1>4, EnterProcedureType, TypeInvParts DEF EvalFunction, DataOK
  <1>. QED BY <1>2, <1>3, <1>4

LEMMA ProcedureReturnType == ASSUME TypeInv, ProcedureReturn PROVE TypeInv'
  <1>1. prog' = prog /\ UNCHANGED <<val, pc, running, on_error_target, has_jmp, gosub_stack>>
    BY DEF ProcedureReturn, Untouched
  <1>2. PICK fn \in {"sub", "function"} : AtFrame(fn)
    BY DEF ProcedureReturn
  <1>3. Below \in Seq(InnerFrames) /\ k # <<>> /\ Top.saved \in Nat
    BY <1>2, LoopFrameType
  <1>4. FlowOK'
    BY <1>1, <1>3, ProceedType DEF ProcedureReturn
  <1>5. call_sp' \in 0..CALL_STACK_MAX
    BY PushedType DEF ProcedureReturn, TypeInv, TypeOK
  <1>6. exits' \subseteq ExitFlags /\ scopes' \subseteq 0..MaxScopes /\ current_scope' \in Nat
    BY <1>3 DEF ProcedureReturn, TypeInv, TypeOK
  <1>. QED BY <1>1, <1>4, <1>5, <1>6, TypeInvParts DEF DataOK

(* Going on with Rest when the error variables change too.                  *)
LEMMA GoOnType ==
    ASSUME TypeInv, StmtReady, prog' = prog, k' = Rest, old_pc' = old_pc, status' = status,
           in_error_handler' \in BOOLEAN, error_pc' \in Int, err_code' \in Nat
    PROVE  FlowOK'
  <1>1. k' \in Seq(InnerFrames) /\ k' \in Seq(Frame) /\ k # <<>>
    BY ReadyType, InnerStackType
  <1>2. InnerFrames' = InnerFrames
    BY DEF InnerFrames
  <1>3. StackOK' /\ StatementOK'
    BY <1>1, <1>2 DEF StackOK, TypeInv, StatementOK, StmtCount
  <1>. QED BY <1>1, <1>3 DEF FlowOK, TypeInv, TypeOK

LEMMA ExecOnErrorType == ASSUME TypeInv, ExecOnError PROVE TypeInv'
  <1>1. StmtReady /\ Cur.to[1] \in Int
    BY ReadyType, ProgramType DEF ExecOnError, At, NoTarget, TypeInv
  <1>2. FlowOK'
    BY <1>1, ReadyType, ProceedType DEF ExecOnError
  <1>. QED BY <1>1, <1>2, TypeInvParts DEF ExecOnError, DataOK, callVars

LEMMA ExecOnErrorOffType == ASSUME TypeInv, ExecOnErrorOff PROVE TypeInv'
  <1>1. FlowOK'
    BY GoOnType DEF ExecOnErrorOff, At, TypeInv, TypeOK
  <1>2. on_error_target' \in Int /\ running' \in BOOLEAN
    BY DEF ExecOnErrorOff, NoTarget, TypeInv, TypeOK
  <1>. QED BY <1>1, <1>2, TypeInvParts DEF ExecOnErrorOff, DataOK, callVars

LEMMA ResumeAtType ==
    ASSUME TypeInv, StmtReady, prog' = prog, NEW target \in Int, ResumeAt(target)
    PROVE  FlowOK' /\ pc' \in Int
  <1>1. CASE in_error_handler
    BY <1>1, GoOnType DEF ResumeAt, TypeInv, TypeOK
  <1>2. CASE ~in_error_handler
    BY <1>2, ReadyType, RaiseType DEF ResumeAt, ERR_RESUME_WITHOUT_ERROR
  <1>. QED BY <1>1, <1>2

LEMMA ExecResumeType == ASSUME TypeInv, ExecResume PROVE TypeInv'
  <1>1. StmtReady /\ prog' = prog /\ UNCHANGED <<val, running, on_error_target, has_jmp,
            gosub_stack, exits, call_sp, current_scope, scopes>>
    BY DEF ExecResume, At, Untouched, callVars
  <1>2. error_pc \in Int /\ error_pc + 1 \in Int /\ Cur.to[1] \in Int
    BY <1>1, ReadyType, ProgramType DEF TypeInv, TypeOK, NoTarget
  <1>3. FlowOK' /\ pc' \in Int
    BY <1>1, <1>2, ResumeAtType DEF ExecResume
  <1>. QED BY <1>1, <1>3, TypeInvParts DEF DataOK

LEMMA ExecErrorStmtType == ASSUME TypeInv, ExecErrorStmt PROVE TypeInv'
  <1>1. FlowOK' /\ pc' \in Int
    BY ReadyType, RaiseType DEF ExecErrorStmt, At, Untouched
  <1>. QED BY <1>1, TypeInvParts DEF ExecErrorStmt, Untouched, DataOK, callVars

LEMMA ExecClearType == ASSUME TypeInv, ExecClear PROVE TypeInv'
  <1>1. FlowOK'
    BY GoOnType DEF ExecClear, At, TypeInv, TypeOK
  <1>2. on_error_target' \in Int
    BY DEF ExecClear, NoTarget
  <1>3. val' \in [Vars -> INTEGERs]
    <2>1. 0 \in INTEGERs
      BY ConstantsOK DEF INTEGERs, ConstantsOK
    <2>. QED BY <2>1 DEF ExecClear
  <1>. QED BY <1>1, <1>2, <1>3, TypeInvParts DEF ExecClear, DataOK

(* interp_run's own steps.                                                  *)
LEMMA FetchType == ASSUME TypeInv, Fetch PROVE TypeInv'
  <1>1. /\ pc \in 0..(StmtCount - 1) /\ old_pc' = pc /\ prog' = prog
        /\ k' = <<NewFrame("top", "main", pc + 1)>>
        /\ UNCHANGED <<val, pc, running, gosub_stack, exits, call_sp, current_scope, scopes,
              on_error_target, in_error_handler, error_pc, err_code, status>>
        /\ has_jmp' \in BOOLEAN
    BY DEF Fetch, StartStatement, callVars, errVars
  <1>2. StmtCount \in Nat
    BY ProgramType DEF TypeInv
  <1>3. pc + 1 \in 1..StmtCount /\ pc + 1 \in Nat /\ pc # NoStmt /\ pc \in Int
    BY <1>1, <1>2 DEF NoStmt
  <1>4. NewFrame("top", "main", pc + 1) \in Frame
    <2>1. (CHOOSE v \in Vars : TRUE) \in Vars
      BY ConstantsOK DEF ConstantsOK
    <2>. QED BY <1>3, <2>1, ConstantsOK DEF NewFrame, Frame, FrameKinds, Conds, ConstantsOK
  <1>5. NewFrame("top", "main", pc + 1) \in TopFrames
    BY <1>3, <1>4 DEF TopFrames, NewFrame
  <1>6. TopFrames' = TopFrames
    BY <1>1 DEF TopFrames, StmtCount
  <1>7. k' \in Seq(Frame)
    BY <1>1, <1>4
  <1>8. StackOK'
    BY <1>1, <1>5, <1>6 DEF StackOK
  <1>9. StatementOK'
    BY <1>1, <1>3 DEF StatementOK, StmtCount
  <1>10. FlowOK'
    BY <1>1, <1>3, <1>7, <1>8, <1>9 DEF FlowOK, TypeInv, TypeOK
  <1>. QED BY <1>1, <1>10, TypeInvParts DEF DataOK

LEMMA OtherRunStepsType == ASSUME TypeInv, FetchWild \/ Advance \/ Finish PROVE TypeInv'
  <1>1. UNCHANGED <<prog, val, running, k, gosub_stack, exits, call_sp, current_scope, scopes,
                    on_error_target, in_error_handler, error_pc, err_code>>
    BY DEF FetchWild, Advance, Finish, callVars, errVars
  <1>2. StackOK'
    BY <1>1 DEF TypeInv, StackOK, InnerFrames, TopFrames, StmtCount
  <1>3. StatementOK' /\ old_pc' \in Int
    <2>1. CASE Advance
      BY <2>1 DEF Advance, StatementOK, NoStmt
    <2>2. CASE FetchWild \/ Finish
      BY <1>1, <2>2 DEF FetchWild, Finish, TypeInv, TypeOK, StatementOK, StmtCount
    <2>. QED BY <2>1, <2>2
  <1>4. pc' \in Int
    BY DEF FetchWild, Advance, Finish, TypeInv, TypeOK
  <1>5. has_jmp' \in BOOLEAN /\ status' \in {"run", "returned", "exited", "undefined"}
    BY Zenon DEF FetchWild, Advance, Finish, TypeInv, TypeOK
  <1>6. FlowOK'
    BY <1>1, <1>2, <1>3, <1>5 DEF FlowOK, TypeInv, TypeOK
  <1>. QED BY <1>1, <1>4, <1>5, <1>6, TypeInvParts DEF DataOK

LEMMA StutterType == ASSUME TypeInv, UNCHANGED vars PROVE TypeInv'
  <1>1. UNCHANGED <<prog, val, pc, old_pc, running, k, gosub_stack, exits, call_sp, current_scope,
                    scopes, on_error_target, has_jmp, in_error_handler, error_pc, err_code, status>>
    BY DEF vars, callVars, errVars
  <1>2. StackOK' /\ StatementOK'
    BY <1>1 DEF TypeInv, StackOK, StatementOK, InnerFrames, TopFrames, StmtCount
  <1>. QED BY <1>1, <1>2 DEF TypeInv, TypeOK

LEMMA StepType == TypeInv /\ [Next]_vars => TypeInv'
  <1>. SUFFICES ASSUME TypeInv, [Next]_vars PROVE TypeInv'
    OBVIOUS
  <1>1. CASE ExecStatement
    BY <1>1, ExecLetType, ExecIfType, ExecSelectCaseType, EnterLoopsType, ExecExitType,
       ExecGotoType, ExecGosubType, ExecReturnType, ExecOnGotoType, ExecOnGosubType,
       ExecEndType, ExecCallType, EvalFunctionType, ExecOnErrorType, ExecOnErrorOffType,
       ExecResumeType, ExecErrorStmtType, ExecClearType DEF ExecStatement
  <1>2. CASE Unwind
    BY <1>2, LoopStepsType, BlockEndType, ProcedureReturnType DEF Unwind
  <1>3. CASE InterpRun
    BY <1>3, FetchType, OtherRunStepsType DEF InterpRun
  <1>4. CASE Stopped \/ UNCHANGED vars
    BY <1>4, StutterType DEF Stopped
  <1>. QED BY <1>1, <1>2, <1>3, <1>4 DEF Next

(* Every variable keeps its type, in every program and for every bound: in  *)
(* particular neither of the two fixed-size stacks is ever overrun.         *)
THEOREM TypeCorrect == Spec => []TypeOK
  <1>1. TypeInv => TypeOK
    BY DEF TypeInv
  <1>. QED BY InitType, StepType, <1>1, PTL DEF Spec

--------------------------------------------------------------------------------
(* Where control can be sent, in programs that keep TrapDiscipline.  The    *)
(* invariant adds to ControlStaysDefined and SetHandlerCatches what keeps   *)
(* them true: the handler's index is a statement's, and while a statement   *)
(* is executed has_jmp says whether there is a handler.                     *)

TrapOK ==
    /\ pc >= 0
    /\ in_error_handler => error_pc \in 0..(StmtCount - 1)
    /\ on_error_target \in {NoTarget} \cup 0..(StmtCount - 1)
    /\ k # <<>> => (has_jmp <=> on_error_target # NoTarget)
    /\ status # "undefined"
    /\ status = "exited" => on_error_target = NoTarget

GosubOK == \A i \in 1..Len(gosub_stack) : gosub_stack[i] >= 1

JumpInv == TrapDiscipline(prog) => TrapOK /\ GosubOK

(* What every step may assume.                                              *)
Disciplined == TypeInv /\ TrapDiscipline(prog) /\ TrapOK /\ GosubOK

(* A statement whose handler and error variables stay as they are.          *)
LEMMA ProceedJump ==
    ASSUME Disciplined, k # <<>>, status = "run", NEW s, Proceed(s), pc' >= 0,
           UNCHANGED <<prog, on_error_target, has_jmp>>
    PROVE  TrapOK'
  <1>1. UNCHANGED <<in_error_handler, error_pc, status>>
    BY DEF Proceed, errVars
  <1>. QED BY <1>1 DEF Disciplined, TrapOK, StmtCount

(* An error goes to the handler of the statement being executed, if there   *)
(* is one, and remembers that statement.                                    *)
LEMMA RaiseJump ==
    ASSUME Disciplined, k # <<>>, status = "run", NEW code, Raise(code),
           UNCHANGED <<prog, on_error_target, has_jmp>>
    PROVE  TrapOK'
  <1>1. old_pc \in 0..(StmtCount - 1)
    BY DEF Disciplined, TypeInv, StatementOK
  <1>2. StmtCount \in Nat
    BY ProgramType DEF Disciplined, TypeInv
  <1>3. CASE has_jmp
    <2>1. on_error_target \in 0..(StmtCount - 1)
      BY <1>3 DEF Disciplined, TrapOK
    <2>2. pc' >= 0 /\ error_pc' \in 0..(StmtCount - 1) /\ k' = <<>> /\ status' = status
      BY <1>1, <1>2, <1>3, <2>1 DEF Raise
    <2>. QED BY <2>1, <2>2 DEF Disciplined, TrapOK, StmtCount
  <1>4. CASE ~has_jmp
    <2>1. UNCHANGED <<pc, k, in_error_handler, error_pc>> /\ status' = "exited"
      BY <1>4 DEF Raise, errVars
    <2>. QED BY <1>4, <2>1 DEF Disciplined, TrapOK, StmtCount
  <1>. QED BY <1>3, <1>4

LEMMA KeepJump ==
    ASSUME Disciplined, TrapOK', UNCHANGED gosub_stack PROVE TrapOK' /\ GosubOK'
  BY DEF Disciplined, GosubOK

(* The statements that set or drop a handler run at the top level, where    *)
(* nothing is left of the C stack when they are done.                       *)
LEMMA TopLevelOnly ==
    ASSUME Disciplined, StmtReady, Cur.op \in {"on_error", "on_error_0", "clear"}
    PROVE  Rest = <<>>
  <1>1. Top.blk \in BlockNames /\ Top.i \in 1..Len(prog[Top.blk])
        /\ (Top.fn # "top" => Top.blk # "main")
    BY CurType DEF Disciplined, TypeInv
  <1>2. Top.blk = "main"
    BY <1>1 DEF Disciplined, TrapDiscipline, Cur
  <1>3. Top.fn = "top"
    BY <1>1, <1>2
  <1>4. PICK f \in TopFrames : k = <<f>>
    <2>1. Top \notin InnerFrames
      BY <1>3 DEF InnerFrames
    <2>2. k \notin Seq(InnerFrames)
      BY <2>1, FrontType DEF StmtReady, Top
    <2>. QED BY <2>2 DEF Disciplined, TypeInv, StackOK
  <1>. QED BY <1>3, <1>4, SingleFront DEF Rest, Below

(* A jump: to a statement of the program, or the error for an unknown label. *)
LEMMA JumpToJump ==
    ASSUME Disciplined, StmtReady, JumpTo(Cur.to[1]), UNCHANGED <<prog, on_error_target, has_jmp>>
    PROVE  TrapOK'
  <1>1. k # <<>> /\ status = "run" /\ Cur.to[1] \in {NoTarget} \cup 0..(StmtCount - 1)
    BY ReadyType DEF Disciplined
  <1>2. StmtCount \in Nat
    BY ProgramType DEF Disciplined, TypeInv
  <1>3. CASE Cur.to[1] = NoTarget
    BY <1>1, <1>3, RaiseJump DEF JumpTo
  <1>4. CASE Cur.to[1] # NoTarget
    <2>1. Proceed(Rest) /\ pc' = Cur.to[1]
      BY <1>4 DEF JumpTo
    <2>2. pc' >= 0
      BY <1>1, <1>2, <1>4, <2>1
    <2>. QED BY <1>1, <2>1, <2>2, ProceedJump
  <1>. QED BY <1>3, <1>4

LEMMA PushJump ==
    ASSUME Disciplined, gosub_stack' = Append(gosub_stack, pc + 1) PROVE GosubOK'
  <1>1. gosub_stack \in Seq(Int) /\ pc \in Int /\ pc >= 0 /\ pc + 1 \in Int /\ pc + 1 >= 1
    BY DEF Disciplined, TypeInv, TypeOK, TrapOK
  <1>2. Len(gosub_stack) \in Nat
    BY <1>1, LenProperties
  <1>3. \A i \in 1..Len(gosub_stack') : gosub_stack'[i] >= 1
    <2>. SUFFICES ASSUME NEW i \in 1..Len(gosub_stack') PROVE gosub_stack'[i] >= 1
      OBVIOUS
    <2>1. gosub_stack'[i] = IF i = Len(gosub_stack) + 1 THEN pc + 1 ELSE gosub_stack[i]
      BY <1>1, <1>2
    <2>2. i = Len(gosub_stack) + 1 \/ i \in 1..Len(gosub_stack)
      <3>1. Len(gosub_stack') = Len(gosub_stack) + 1
        BY <1>1
      <3>2. \A m \in Nat : \A j \in 1..(m + 1) : j = m + 1 \/ j \in 1..m
        OBVIOUS
      <3>. QED BY <1>2, <3>1, <3>2, Zenon
    <2>3. CASE i = Len(gosub_stack) + 1
      <3>1. gosub_stack'[i] = pc + 1
        BY <2>1, <2>3, Zenon
      <3>. QED BY <1>1, <3>1
    <2>4. CASE i # Len(gosub_stack) + 1
      <3>1. gosub_stack'[i] = gosub_stack[i]
        BY <2>1, <2>4, Zenon
      <3>2. i \in 1..Len(gosub_stack)
        BY <2>2, <2>4, Zenon
      <3>. QED BY <3>1, <3>2 DEF Disciplined, GosubOK
    <2>. QED BY <2>3, <2>4
  <1>. QED BY <1>3 DEF GosubOK

(* The statements that only go on, choose a block, enter a loop or fail.    *)
LEMMA StayingStatementsJump ==
    ASSUME Disciplined, ExecLet \/ ExecIf \/ ExecSelectCase \/ ExecFor \/ ExecWhile
                        \/ ExecDoLoop \/ ExecExit \/ ExecErrorStmt
    PROVE  TrapOK' /\ GosubOK'
  <1>1. k # <<>> /\ status = "run" /\ pc >= 0 /\ UNCHANGED <<prog, on_error_target, has_jmp, gosub_stack>>
    BY DEF ExecLet, ExecIf, ExecSelectCase, ExecFor, ExecWhile, ExecDoLoop, ExecExit, ExecErrorStmt,
           At, StmtReady, Untouched, Disciplined, TrapOK
  <1>2. (\E code : Raise(code)) \/ (UNCHANGED pc /\ \E s : Proceed(s))
    BY DEF ExecLet, ExecIf, ExecSelectCase, ExecFor, ExecWhile, ExecDoLoop, ExecExit, ExecErrorStmt,
           EnterLoop
  <1>3. TrapOK'
    <2>1. ASSUME NEW code, Raise(code) PROVE TrapOK'
      BY <1>1, <2>1, RaiseJump
    <2>2. ASSUME UNCHANGED pc, NEW s, Proceed(s) PROVE TrapOK'
      BY <1>1, <2>2, ProceedJump
    <2>. QED BY <1>2, <2>1, <2>2
  <1>. QED BY <1>1, <1>3, KeepJump

LEMMA UnwindJump == ASSUME Disciplined, Unwind PROVE TrapOK' /\ GosubOK'
  <1>1. k # <<>> /\ status = "run" /\ pc >= 0 /\ UNCHANGED <<prog, on_error_target, has_jmp, gosub_stack>>
    BY DEF Unwind, ForStep, WhileStep, DoLoopStep, BlockEnd, ProcedureReturn, AtFrame, Untouched,
           Disciplined, TrapOK
  <1>2. (\E code : Raise(code)) \/ (UNCHANGED pc /\ \E s : Proceed(s))
    BY DEF Unwind, ForStep, WhileStep, DoLoopStep, BlockEnd, ProcedureReturn, LeaveLoop, Turn, TestAndTurn
  <1>3. TrapOK'
    <2>1. ASSUME NEW code, Raise(code) PROVE TrapOK'
      BY <1>1, <2>1, RaiseJump
    <2>2. ASSUME UNCHANGED pc, NEW s, Proceed(s) PROVE TrapOK'
      BY <1>1, <2>2, ProceedJump
    <2>. QED BY <1>2, <2>1, <2>2
  <1>. QED BY <1>1, <1>3, KeepJump

LEMMA CallsJump == ASSUME Disciplined, ExecCall \/ EvalFunction PROVE TrapOK' /\ GosubOK'
  <1>1. k # <<>> /\ status = "run" /\ pc >= 0 /\ UNCHANGED <<prog, on_error_target, has_jmp, gosub_stack>>
    BY DEF ExecCall, EvalFunction, At, StmtReady, Untouched, Disciplined, TrapOK
  <1>2. (\E code : Raise(code)) \/ (UNCHANGED pc /\ \E s : Proceed(s))
    BY DEF ExecCall, EvalFunction, EnterProcedure, RaiseArgument
  <1>3. TrapOK'
    <2>1. ASSUME NEW code, Raise(code) PROVE TrapOK'
      BY <1>1, <2>1, RaiseJump
    <2>2. ASSUME UNCHANGED pc, NEW s, Proceed(s) PROVE TrapOK'
      BY <1>1, <2>2, ProceedJump
    <2>. QED BY <1>2, <2>1, <2>2
  <1>. QED BY <1>1, <1>3, KeepJump

LEMMA ExecGotoJump == ASSUME Disciplined, ExecGoto PROVE TrapOK' /\ GosubOK'
  BY JumpToJump, KeepJump DEF ExecGoto, At, Untouched

LEMMA ExecGosubJump == ASSUME Disciplined, ExecGosub PROVE TrapOK' /\ GosubOK'
  <1>1. StmtReady /\ k # <<>> /\ status = "run" /\ UNCHANGED <<prog, on_error_target, has_jmp>>
    BY DEF ExecGosub, At, StmtReady, Untouched
  <1>2. CASE Len(gosub_stack) >= MAX_GOSUB_STACK
    BY <1>1, <1>2, RaiseJump, KeepJump DEF ExecGosub
  <1>3. CASE ~(Len(gosub_stack) >= MAX_GOSUB_STACK)
    BY <1>1, <1>3, JumpToJump, PushJump DEF ExecGosub
  <1>. QED BY <1>2, <1>3

LEMMA ExecReturnJump == ASSUME Disciplined, ExecReturn PROVE TrapOK' /\ GosubOK'
  <1>1. k # <<>> /\ status = "run" /\ UNCHANGED <<prog, on_error_target, has_jmp>>
    BY DEF ExecReturn, At, StmtReady, Untouched
  <1>2. CASE gosub_stack = <<>>
    BY <1>1, <1>2, RaiseJump, KeepJump DEF ExecReturn
  <1>3. CASE gosub_stack # <<>>
    <2>1. /\ gosub_stack' = SubSeq(gosub_stack, 1, Len(gosub_stack) - 1)
          /\ pc' = gosub_stack[Len(gosub_stack)] /\ Proceed(Rest)
      BY <1>3 DEF ExecReturn
    <2>2. gosub_stack \in Seq(Int)
      BY DEF Disciplined, TypeInv, TypeOK
    <2>3. gosub_stack \in Seq(Nat \ {0})
      <3>1. gosub_stack \in [1..Len(gosub_stack) -> Nat \ {0}]
        <4>1. \A i \in 1..Len(gosub_stack) : gosub_stack[i] \in Int /\ gosub_stack[i] >= 1
          BY <2>2, ElementOfSeq DEF Disciplined, GosubOK
        <4>2. \A n \in Int : n >= 1 => n \in Nat \ {0}
          OBVIOUS
        <4>3. gosub_stack \in [1..Len(gosub_stack) -> Int]
          BY <2>2, LenProperties
        <4>4. \A i \in 1..Len(gosub_stack) : gosub_stack[i] \in Nat \ {0}
          BY <4>1, <4>2, Zenon
        <4>. QED BY <4>3, <4>4, Zenon
      <3>2. Len(gosub_stack) \in Nat
        BY <2>2, LenProperties
      <3>. QED BY <3>1, <3>2, SeqDef, Zenon
    <2>4. pc' \in Nat \ {0} /\ gosub_stack' \in Seq(Nat \ {0})
      BY <1>3, <2>1, <2>3, FrontType, Zenon
    <2>5. \A n \in Nat \ {0} : n >= 1 /\ n >= 0
      OBVIOUS
    <2>6. GosubOK'
      BY <2>4, <2>5, ElementOfSeq DEF GosubOK
    <2>7. TrapOK'
      BY <1>1, <2>1, <2>4, <2>5, ProceedJump
    <2>. QED BY <2>6, <2>7
  <1>. QED BY <1>2, <1>3

LEMMA ExecOnBranchJump == ASSUME Disciplined, ExecOnGoto \/ ExecOnGosub PROVE TrapOK' /\ GosubOK'
  <1>1. StmtReady /\ k # <<>> /\ status = "run" /\ UNCHANGED <<prog, on_error_target, has_jmp>>
    BY DEF ExecOnGoto, ExecOnGosub, At, StmtReady, Untouched
  <1>2. pc >= 0 /\ (OnBranchTarget # NoTarget => OnBranchTarget >= 0)
    BY <1>1, OnBranchTargetType, ProgramType DEF Disciplined, TypeInv, TrapOK
  <1>3. CASE ExecOnGoto
    BY <1>1, <1>2, <1>3, ProceedJump, KeepJump DEF ExecOnGoto
  <1>4. CASE ExecOnGosub
    <2>1. CASE OnBranchTarget = NoTarget
      BY <1>1, <1>2, <1>4, <2>1, ProceedJump, KeepJump DEF ExecOnGosub
    <2>2. CASE OnBranchTarget # NoTarget /\ Len(gosub_stack) >= MAX_GOSUB_STACK
      BY <1>1, <1>4, <2>2, RaiseJump, KeepJump DEF ExecOnGosub
    <2>3. CASE OnBranchTarget # NoTarget /\ ~(Len(gosub_stack) >= MAX_GOSUB_STACK)
      BY <1>1, <1>2, <1>4, <2>3, ProceedJump, PushJump DEF ExecOnGosub
    <2>. QED BY <2>1, <2>2, <2>3
  <1>. QED BY <1>3, <1>4

LEMMA ExecEndJump == ASSUME Disciplined, ExecEnd PROVE TrapOK' /\ GosubOK'
  <1>1. k # <<>> /\ status = "run" /\ pc' >= 0 /\ Proceed(Rest)
        /\ UNCHANGED <<prog, on_error_target, has_jmp, gosub_stack>>
    BY DEF ExecEnd, At, StmtReady, Disciplined, TrapOK
  <1>. QED BY <1>1, ProceedJump, KeepJump

(* The statements that set or drop the handler.                             *)
LEMMA HandlerJump ==
    ASSUME Disciplined, ExecOnError \/ ExecOnErrorOff \/ ExecClear PROVE TrapOK' /\ GosubOK'
  <1>1. /\ StmtReady /\ Cur.op \in {"on_error", "on_error_0", "clear"} /\ status = "run"
        /\ UNCHANGED <<prog, pc, gosub_stack, status>>
        /\ (in_error_handler' => in_error_handler) /\ error_pc' = error_pc /\ k' = Rest
    BY DEF ExecOnError, ExecOnErrorOff, ExecClear, At, StmtReady, Proceed, errVars
  <1>2. k' = <<>>
    BY <1>1, TopLevelOnly
  <1>3. on_error_target' \in {NoTarget} \cup 0..(StmtCount - 1)
    BY <1>1, ReadyType DEF ExecOnError, ExecOnErrorOff, ExecClear, Disciplined
  <1>4. TrapOK'
    BY <1>1, <1>2, <1>3 DEF Disciplined, TrapOK, StmtCount
  <1>. QED BY <1>1, <1>4, KeepJump

LEMMA ResumeJump == ASSUME Disciplined, ExecResume PROVE TrapOK' /\ GosubOK'
  <1>1. /\ StmtReady /\ k # <<>> /\ status = "run"
        /\ UNCHANGED <<prog, on_error_target, has_jmp, gosub_stack>>
    BY DEF ExecResume, At, StmtReady, Untouched
  <1>2. StmtCount \in Nat
    BY ProgramType DEF Disciplined, TypeInv
  <1>3. ASSUME NEW target, ResumeAt(target), in_error_handler => target >= 0 PROVE TrapOK'
    <2>1. CASE in_error_handler
      <3>1. /\ pc' = target /\ ~in_error_handler' /\ UNCHANGED status
        BY <1>3, <2>1 DEF ResumeAt
      <3>. QED BY <1>1, <1>3, <2>1, <3>1 DEF Disciplined, TrapOK, StmtCount
    <2>2. CASE ~in_error_handler
      BY <1>1, <1>3, <2>2, RaiseJump DEF ResumeAt
    <2>. QED BY <2>1, <2>2
  <1>4. in_error_handler => error_pc >= 0 /\ error_pc + 1 >= 0
    BY <1>2 DEF Disciplined, TrapOK
  <1>5. Cur.op = "resume_label" => Cur.to[1] >= 0
    <2>1. /\ Top.blk \in BlockNames /\ Top.i \in 1..Len(prog[Top.blk])
      BY <1>1, CurType DEF Disciplined, TypeInv
    <2>2. Cur.op = "resume_label" => Cur.to[1] # NoTarget
      BY <2>1 DEF Disciplined, TrapDiscipline, Cur
    <2>3. Cur.to[1] \in {NoTarget} \cup 0..(StmtCount - 1)
      BY <1>1, ReadyType DEF Disciplined
    <2>. QED BY <1>2, <2>2, <2>3
  <1>6. TrapOK'
    BY <1>3, <1>4, <1>5 DEF ExecResume, At
  <1>. QED BY <1>1, <1>6, KeepJump

LEMMA InterpRunJump == ASSUME Disciplined, InterpRun PROVE TrapOK' /\ GosubOK'
  <1>1. UNCHANGED <<prog, gosub_stack, on_error_target, in_error_handler, error_pc>> /\ status = "run"
        /\ pc \in Int /\ StmtCount \in Nat
    BY ProgramType DEF InterpRun, Fetch, StartStatement, FetchWild, Advance, Finish, errVars, LoopHead,
                       Disciplined, TypeInv, TypeOK
  <1>2. CASE Fetch
    <2>1. pc' = pc /\ status' = status /\ has_jmp' = (on_error_target >= 0)
      BY <1>2 DEF Fetch, StartStatement
    <2>2. on_error_target >= 0 <=> on_error_target # NoTarget
      BY <1>1 DEF Disciplined, TrapOK, NoTarget
    <2>. QED BY <1>1, <2>1, <2>2, KeepJump DEF Disciplined, TrapOK, StmtCount
  <1>3. CASE FetchWild
    BY <1>1, <1>3 DEF FetchWild, Disciplined, TrapOK
  <1>4. CASE Advance
    <2>1. pc' >= 0
      BY <1>1, <1>4 DEF Advance, Disciplined, TrapOK
    <2>. QED BY <1>1, <1>4, <2>1, KeepJump DEF Advance, Disciplined, TrapOK, StmtCount
  <1>5. CASE Finish
    <2>1. k = <<>> /\ k' = <<>> /\ pc' = pc /\ status' = "returned"
      BY <1>5 DEF Finish, LoopHead
    <2>. QED BY <1>1, <2>1, KeepJump DEF Disciplined, TrapOK, StmtCount
  <1>. QED BY <1>2, <1>3, <1>4, <1>5 DEF InterpRun

LEMMA StepJump == TypeInv /\ JumpInv /\ [Next]_vars => JumpInv'
  <1>. SUFFICES ASSUME TypeInv, JumpInv, [Next]_vars, TrapDiscipline(prog)' PROVE TrapOK' /\ GosubOK'
    BY DEF JumpInv
  <1>1. prog' = prog
    BY DEF Next, ExecStatement, Unwind, InterpRun, Stopped, vars, Untouched, ExecLet, ExecIf,
           ExecSelectCase, ExecFor, ExecWhile, ExecDoLoop, ExecExit, ExecGoto, ExecGosub, ExecReturn,
           ExecOnGoto, ExecOnGosub, ExecEnd, ExecCall, EvalFunction, ExecOnError, ExecOnErrorOff,
           ExecResume, ExecErrorStmt, ExecClear, ForStep, WhileStep, DoLoopStep, BlockEnd,
           ProcedureReturn, Fetch, StartStatement, FetchWild, Advance, Finish
  <1>2. Disciplined
    BY <1>1 DEF JumpInv, Disciplined, TrapDiscipline
  <1>3. CASE ExecStatement
    BY <1>2, <1>3, StayingStatementsJump, CallsJump, ExecGotoJump, ExecGosubJump, ExecReturnJump,
       ExecOnBranchJump, ExecEndJump, HandlerJump, ResumeJump DEF ExecStatement
  <1>4. CASE Unwind
    BY <1>2, <1>4, UnwindJump
  <1>5. CASE InterpRun
    BY <1>2, <1>5, InterpRunJump
  <1>6. CASE Stopped \/ UNCHANGED vars
    BY <1>2, <1>6 DEF Stopped, vars, errVars, Disciplined, TrapOK, GosubOK, StmtCount
  <1>. QED BY <1>3, <1>4, <1>5, <1>6 DEF Next

LEMMA InitJump == Init => JumpInv
  <1>. SUFFICES ASSUME Init PROVE TrapOK /\ GosubOK
    BY DEF JumpInv
  <1>1. GosubOK
    BY DEF Init, GosubOK
  <1>. QED BY <1>1 DEF Init, TrapOK

LEMMA SpecJump == Spec => [](TypeInv /\ JumpInv)
  BY InitType, InitJump, StepType, StepJump, PTL DEF Spec

(* No index that control can be sent to is ever negative, whatever the      *)
(* program, if it sets its handlers at the top level and resumes at labels  *)
(* that exist.                                                              *)
THEOREM ControlDefined == Spec => []ControlStaysDefined
  <1>1. JumpInv => ControlStaysDefined
    BY DEF JumpInv, TrapOK, GosubOK, ControlStaysDefined
  <1>. QED BY SpecJump, <1>1, PTL

(* The same programs never die of an error while they have a handler set:   *)
(* has_jmp, which is assigned once per top-level statement, is never out of *)
(* date while the statement is executed.                                    *)
THEOREM HandlerCatches == Spec => []SetHandlerCatches
  <1>1. JumpInv => SetHandlerCatches
    BY DEF JumpInv, TrapOK, SetHandlerCatches
  <1>. QED BY SpecJump, <1>1, PTL

--------------------------------------------------------------------------------
(* Calls: scopes and call_stack follow the calls that are in progress, for  *)
(* all sizes of the stacks, as long as no step abandons a call.             *)

(* What the executor does not undo: a trapped error that drops a call from  *)
(* the C stack, or the scope of one whose arguments are being bound, be it  *)
(* current already (FUNCTION) or not (SUB); and a CLEAR in a procedure.     *)
AbandonsCall ==
    \/ Trapped /\ (CallFrames # {} \/ scopes' # scopes)
    \/ At("clear") /\ CallFrames # {}

(* The calls of a C stack, and the scope of the innermost of those at C.    *)
CallKinds  == {"sub", "function"}
CallsIn(s) == {i \in 1..Len(s) : s[i].fn \in CallKinds}

Innermost(s, C, scope) ==
    \/ C = {} /\ scope = 0
    \/ \E j \in C : s[j].own = scope /\ \A h \in C : h <= j

Matched(s, scope, allocated) ==
    /\ Innermost(s, CallsIn(s), scope)
    /\ \A i \in CallsIn(s) : Innermost(s, {j \in CallsIn(s) : j < i}, s[i].saved)
    /\ allocated = {0} \cup {s[i].own : i \in CallsIn(s)}
    /\ \A i \in CallsIn(s) : s[i].own # 0
    /\ \A i, j \in CallsIn(s) : s[i].own = s[j].own => i = j

CallInv ==
    /\ status = "run" => Matched(k, current_scope, scopes)
    /\ call_sp <= Cardinality(CallsIn(k))

(* The same calls, frame by frame.                                          *)
SameCalls(s, t) == CallsIn(t) = CallsIn(s) /\ \A i \in CallsIn(s) : t[i] = s[i]

(* t has the calls of s and one more, above them, at n.                     *)
OneMore(s, t, n) ==
    /\ CallsIn(t) = CallsIn(s) \cup {n} /\ n \in Nat
    /\ \A i \in CallsIn(s) : i < n /\ t[i] = s[i]

--------------------------------------------------------------------------------
(* The match under changes of the C stack.                                  *)

LEMMA CallsFinite ==
    ASSUME NEW T, NEW s \in Seq(T)
    PROVE  IsFiniteSet(CallsIn(s)) /\ CallsIn(s) \subseteq Nat /\ Cardinality(CallsIn(s)) \in Nat
  <1>1. Len(s) \in Nat
    BY LenProperties
  <1>2. IsFiniteSet(1..Len(s)) /\ CallsIn(s) \in SUBSET (1..Len(s))
    BY <1>1, FS_Interval DEF CallsIn
  <1>3. IsFiniteSet(CallsIn(s))
    BY <1>2, FS_Subset
  <1>. QED BY <1>1, <1>2, <1>3, FS_CardinalityType

LEMMA MatchedSame ==
    ASSUME NEW s, NEW t, NEW scope, NEW allocated,
           Matched(s, scope, allocated), SameCalls(s, t)
    PROVE  Matched(t, scope, allocated)
  <1>1. CallsIn(t) = CallsIn(s) /\ \A i \in CallsIn(s) : t[i] = s[i]
    BY DEF SameCalls
  <1>2. Innermost(t, CallsIn(t), scope)
    BY <1>1, Zenon DEF Matched, Innermost
  <1>3. ASSUME NEW i \in CallsIn(s)
        PROVE  Innermost(t, {j \in CallsIn(s) : j < i}, t[i].saved)
    <2>1. Innermost(s, {j \in CallsIn(s) : j < i}, s[i].saved)
      BY DEF Matched
    <2>. QED BY <1>1, <2>1 DEF Innermost
  <1>4. {t[i].own : i \in CallsIn(s)} = {s[i].own : i \in CallsIn(s)}
    BY <1>1
  <1>. QED BY <1>1, <1>2, <1>3, <1>4 DEF Matched

LEMMA MatchedPush ==
    ASSUME NEW s, NEW t, NEW n, NEW scope, NEW allocated, NEW fresh,
           Matched(s, scope, allocated), OneMore(s, t, n), CallsIn(s) \subseteq Nat,
           t[n].saved = scope, t[n].own = fresh, fresh \notin allocated
    PROVE  Matched(t, fresh, allocated \cup {fresh})
  <1>1. /\ CallsIn(t) = CallsIn(s) \cup {n} /\ n \in Nat
        /\ \A i \in CallsIn(s) : i < n /\ t[i] = s[i]
    BY DEF OneMore
  <1>2. Innermost(t, CallsIn(t), fresh)
    <2>1. \A h \in CallsIn(t) : h <= n
      BY <1>1
    <2>. QED BY <1>1, <2>1 DEF Innermost
  <1>3. ASSUME NEW i \in CallsIn(t)
        PROVE  Innermost(t, {j \in CallsIn(t) : j < i}, t[i].saved)
    <2>1. CASE i = n
      <3>1. {j \in CallsIn(t) : j < i} = CallsIn(s)
        BY <1>1, <2>1
      <3>. QED BY <1>1, <2>1, <3>1 DEF Matched, Innermost
    <2>2. CASE i \in CallsIn(s)
      <3>1. {j \in CallsIn(t) : j < i} = {j \in CallsIn(s) : j < i}
        <4>1. ~(n < i)
          BY <1>1, <2>2
        <4>. QED BY <1>1, <4>1
      <3>2. Innermost(s, {j \in CallsIn(s) : j < i}, s[i].saved)
        BY <2>2 DEF Matched
      <3>. QED BY <1>1, <2>2, <3>1, <3>2 DEF Innermost
    <2>. QED BY <1>1, <2>1, <2>2
  <1>4. allocated \cup {fresh} = {0} \cup {t[i].own : i \in CallsIn(t)}
    BY <1>1 DEF Matched
  <1>5. fresh # 0 /\ \A i \in CallsIn(s) : t[i].own # fresh
    BY <1>1 DEF Matched
  <1>6. \A i \in CallsIn(t) : t[i].own # 0
    BY <1>1, <1>5 DEF Matched
  <1>7. \A i, j \in CallsIn(t) : t[i].own = t[j].own => i = j
    BY <1>1, <1>5 DEF Matched
  <1>. QED BY <1>2, <1>3, <1>4, <1>6, <1>7 DEF Matched

LEMMA MatchedPop ==
    ASSUME NEW s, NEW t, NEW n, NEW scope, NEW allocated,
           Matched(t, scope, allocated), OneMore(s, t, n), CallsIn(s) \subseteq Nat
    PROVE  Matched(s, t[n].saved, allocated \ {t[n].own})
  <1>1. /\ CallsIn(t) = CallsIn(s) \cup {n} /\ n \in Nat
        /\ \A i \in CallsIn(s) : i < n /\ t[i] = s[i]
    BY DEF OneMore
  <1>2. Innermost(s, CallsIn(s), t[n].saved)
    <2>1. {j \in CallsIn(t) : j < n} = CallsIn(s)
      BY <1>1
    <2>2. Innermost(t, CallsIn(s), t[n].saved)
      BY <1>1, <2>1 DEF Matched
    <2>. QED BY <1>1, <2>2 DEF Innermost
  <1>3. ASSUME NEW i \in CallsIn(s)
        PROVE  Innermost(s, {j \in CallsIn(s) : j < i}, s[i].saved)
    <2>1. {j \in CallsIn(t) : j < i} = {j \in CallsIn(s) : j < i}
      <3>1. ~(n < i)
        BY <1>1
      <3>. QED BY <1>1, <3>1
    <2>2. Innermost(t, {j \in CallsIn(s) : j < i}, t[i].saved)
      BY <1>1, <2>1 DEF Matched
    <2>. QED BY <1>1, <2>2 DEF Innermost
  <1>4. \A i \in CallsIn(s) : s[i].own # t[n].own /\ s[i].own # 0
    BY <1>1 DEF Matched
  <1>5. t[n].own # 0
    BY <1>1 DEF Matched
  <1>6. allocated = {0} \cup {s[i].own : i \in CallsIn(s)} \cup {t[n].own}
    BY <1>1 DEF Matched
  <1>7. allocated \ {t[n].own} = {0} \cup {s[i].own : i \in CallsIn(s)}
    BY <1>4, <1>5, <1>6
  <1>8. \A i, j \in CallsIn(s) : s[i].own = s[j].own => i = j
    BY <1>1 DEF Matched
  <1>. QED BY <1>2, <1>3, <1>4, <1>7, <1>8 DEF Matched

LEMMA OneMoreCounts ==
    ASSUME NEW T, NEW s \in Seq(T), NEW t, NEW n, OneMore(s, t, n)
    PROVE  Cardinality(CallsIn(t)) = Cardinality(CallsIn(s)) + 1
  <1>1. n \notin CallsIn(s) /\ CallsIn(t) = CallsIn(s) \cup {n}
    BY CallsFinite DEF OneMore
  <1>. QED BY <1>1, CallsFinite, FS_AddElement

--------------------------------------------------------------------------------
(* How the pieces of a step change the calls.                               *)

(* Pushing a frame that is no call.                                         *)
LEMMA AppendCalls ==
    ASSUME NEW T, NEW s \in Seq(T), NEW f, f.fn \notin CallKinds
    PROVE  SameCalls(s, Append(s, f))
  <1>1. s \in Seq(T \cup {f}) /\ f \in T \cup {f}
    BY SeqMonotonic
  <1>2. /\ Len(s) \in Nat /\ Len(Append(s, f)) = Len(s) + 1
        /\ \A i \in 1..Len(s) : Append(s, f)[i] = s[i]
        /\ Append(s, f)[Len(s) + 1] = f
    BY <1>1, AppendProperties, LenProperties
  <1>3. CallsIn(Append(s, f)) = CallsIn(s)
    <2>1. 1..(Len(s) + 1) = 1..Len(s) \cup {Len(s) + 1}
      BY <1>2
    <2>. QED BY <1>2, <2>1 DEF CallsIn
  <1>. QED BY <1>2, <1>3 DEF SameCalls, CallsIn

LEMMA SameTrans ==
    ASSUME NEW r, NEW s, NEW t, SameCalls(r, s), SameCalls(s, t) PROVE SameCalls(r, t)
  BY DEF SameCalls

(* Popping a frame that is no call.                                         *)
LEMMA BelowCalls ==
    ASSUME k \in Seq(Frame), k # <<>>
    PROVE  /\ Below \in Seq(Frame)
           /\ Top.fn \notin CallKinds => SameCalls(k, Below)
           /\ Top.fn \in CallKinds => OneMore(Below, k, Len(k)) /\ Top = k[Len(k)]
  <1>1. /\ Below \in Seq(Frame) /\ Len(Below) = Len(k) - 1
        /\ \A i \in 1..(Len(k) - 1) : Below[i] = k[i]
    BY FrontType DEF Below
  <1>2. Len(k) \in Nat /\ Len(k) # 0
    BY LenProperties, EmptySeq
  <1>3. 1..Len(k) = 1..(Len(k) - 1) \cup {Len(k)}
    BY <1>2
  <1>4. CASE Top.fn \notin CallKinds
    <2>1. CallsIn(k) = {i \in 1..(Len(k) - 1) : k[i].fn \in CallKinds}
      BY <1>3, <1>4 DEF CallsIn, Top
    <2>2. CallsIn(Below) = CallsIn(k)
      BY <1>1, <2>1 DEF CallsIn
    <2>. QED BY <1>1, <1>4, <2>1, <2>2 DEF SameCalls
  <1>5. CASE Top.fn \in CallKinds
    <2>1. CallsIn(k) = {i \in 1..(Len(k) - 1) : k[i].fn \in CallKinds} \cup {Len(k)}
      BY <1>3, <1>5 DEF CallsIn, Top
    <2>2. CallsIn(Below) = {i \in 1..(Len(k) - 1) : k[i].fn \in CallKinds}
      BY <1>1 DEF CallsIn
    <2>3. \A i \in CallsIn(Below) : i < Len(k) /\ k[i] = Below[i]
      BY <1>1, <1>2, <2>2
    <2>. QED BY <1>1, <1>2, <1>5, <2>1, <2>2, <2>3 DEF OneMore, Top
  <1>. QED BY <1>1, <1>4, <1>5

LEMMA RestCalls ==
    ASSUME TypeInv, StmtReady PROVE Rest \in Seq(Frame) /\ SameCalls(k, Rest)
  <1>1. Rest \in Seq(Frame)
    BY RestType, InnerStackType DEF TypeInv
  <1>2. k # <<>> /\ k \in Seq(Frame) /\ Top.fn \in {"top", "block"}
    BY DEF StmtReady, TypeInv, TypeOK
  <1>3. Below \in Seq(Frame) /\ SameCalls(k, Below)
    BY <1>2, BelowCalls DEF CallKinds
  <1>4. CASE Top.fn = "top"
    BY <1>1, <1>3, <1>4 DEF Rest
  <1>5. CASE Top.fn = "block"
    <2>1. Top \in Frame
      BY <1>2, FrontType DEF Top
    <2>2. [Top EXCEPT !.i = Top.i + 1].fn \notin CallKinds
      BY <1>5, <2>1 DEF Frame, CallKinds
    <2>3. SameCalls(Below, Append(Below, [Top EXCEPT !.i = Top.i + 1]))
      BY <1>3, <2>2, AppendCalls
    <2>. QED BY <1>1, <1>3, <1>5, <2>3, SameTrans DEF Rest
  <1>. QED BY <1>2, <1>4, <1>5

(* Pushing a frame that is no call on what a statement leaves.              *)
LEMMA PushCalls ==
    ASSUME TypeInv, StmtReady, NEW f, f.fn \notin CallKinds
    PROVE  SameCalls(k, Append(Rest, f))
  BY RestCalls, AppendCalls, SameTrans

LEMMA LoopCalls ==
    ASSUME TypeInv, status = "run", k # <<>>, Top.fn \notin CallKinds
    PROVE  /\ SameCalls(k, Below)
           /\ \A i : SameCalls(k, Append(Append(Below, [Top EXCEPT !.i = i]), Block(Top.blk)))
  <1>1. k \in Seq(Frame)
    BY DEF TypeInv, TypeOK
  <1>2. Below \in Seq(Frame) /\ SameCalls(k, Below) /\ Top \in Frame
    BY <1>1, BelowCalls, FrontType DEF Top
  <1>3. ASSUME NEW i
        PROVE  SameCalls(k, Append(Append(Below, [Top EXCEPT !.i = i]), Block(Top.blk)))
    <2>. DEFINE f == [Top EXCEPT !.i = i]
                s == Append(Below, f)
    <2>1. f.fn = Top.fn
      BY <1>2 DEF Frame
    <2>2. SameCalls(Below, s)
      BY <1>2, <2>1, AppendCalls
    <2>3. Below \in Seq(Frame \cup {f}) /\ f \in Frame \cup {f}
      BY <1>2, SeqMonotonic
    <2>4. s \in Seq(Frame \cup {f})
      BY <2>3, AppendType
    <2>5. Block(Top.blk).fn \notin CallKinds
      BY DEF Block, NewFrame, CallKinds
    <2>6. SameCalls(s, Append(s, Block(Top.blk)))
      BY <2>4, <2>5, AppendCalls
    <2>. QED BY <1>2, <2>2, <2>6, SameTrans
  <1>. QED BY <1>2, <1>3

--------------------------------------------------------------------------------
(* Every action preserves CallInv.                                          *)

LEMMA SameSelf == ASSUME NEW s PROVE SameCalls(s, s)
  BY DEF SameCalls

(* A step between the calls that are in progress.                           *)
LEMMA KeepMatch ==
    ASSUME CallInv, status = "run", SameCalls(k, k'), UNCHANGED callVars
    PROVE  CallInv'
  <1>1. Matched(k', current_scope, scopes)
    BY MatchedSame DEF CallInv
  <1>2. CallsIn(k') = CallsIn(k)
    BY DEF SameCalls
  <1>. QED BY <1>1, <1>2 DEF CallInv, callVars

(* An error: it ends the process, or is trapped where no call is dropped.   *)
LEMMA RaiseMatch ==
    ASSUME CallInv, status = "run", k # <<>>, NEW code, Raise(code), ~AbandonsCall,
           UNCHANGED call_sp, scopes' = scopes => UNCHANGED current_scope
    PROVE  CallInv'
  <1>1. CASE has_jmp
    <2>1. k' = <<>> /\ old_pc' = NoStmt
      BY <1>1 DEF Raise
    <2>2. CallsIn(k) = {} /\ scopes' = scopes
      BY <1>1, <2>1 DEF AbandonsCall, Trapped, CallFrames, CallsIn, CallKinds
    <2>3. SameCalls(k, k')
      BY <2>1, <2>2 DEF SameCalls, CallsIn
    <2>. QED BY <2>2, <2>3, KeepMatch DEF callVars
  <1>2. CASE ~has_jmp
    <2>1. k' = k /\ status' = "exited"
      BY <1>2 DEF Raise
    <2>. QED BY <2>1 DEF CallInv
  <1>. QED BY <1>1, <1>2

(* Statements that neither call nor return.                                 *)
Plain ==
    \/ ExecLet \/ ExecIf \/ ExecSelectCase \/ ExecFor \/ ExecWhile \/ ExecDoLoop \/ ExecExit
    \/ ExecGoto \/ ExecGosub \/ ExecReturn \/ ExecOnGoto \/ ExecOnGosub \/ ExecEnd
    \/ ExecOnError \/ ExecOnErrorOff \/ ExecResume \/ ExecErrorStmt

LEMMA PlainMatch == ASSUME TypeInv, CallInv, ~AbandonsCall, Plain PROVE CallInv'
  <1>1. StmtReady /\ UNCHANGED callVars
    BY DEF Plain, At, ExecLet, ExecIf, ExecSelectCase, ExecFor, ExecWhile, ExecDoLoop, ExecExit,
           ExecGoto, ExecGosub, ExecReturn, ExecOnGoto, ExecOnGosub, ExecEnd, ExecOnError,
           ExecOnErrorOff, ExecResume, ExecErrorStmt
  <1>2. k # <<>> /\ status = "run"
    BY <1>1 DEF StmtReady
  <1>3. ASSUME NEW b PROVE SameCalls(k, Append(Rest, Block(b)))
    BY <1>1, PushCalls DEF Block, NewFrame, CallKinds
  <1>4. ASSUME NEW fn \in {"for", "do", "while"}, NEW turns, EnterLoop(fn, turns)
        PROVE  SameCalls(k, k')
    BY <1>1, <1>4, PushCalls DEF EnterLoop, Proceed, NewFrame, CallKinds
  <1>5. (\E code : Raise(code)) \/ SameCalls(k, k')
    <2>1. CASE ExecIf \/ ExecSelectCase
      BY <1>3, <2>1 DEF ExecIf, ExecSelectCase, Proceed
    <2>2. CASE ExecFor \/ ExecWhile \/ ExecDoLoop
      BY <1>4, <2>2 DEF ExecFor, ExecWhile, ExecDoLoop
    <2>3. CASE ~(ExecIf \/ ExecSelectCase \/ ExecFor \/ ExecWhile \/ ExecDoLoop)
      <3>1. (\E code : Raise(code)) \/ k' = Rest
        BY <2>3 DEF Plain, ExecLet, ExecExit, ExecGoto, ExecGosub, ExecReturn, ExecOnGoto,
                    ExecOnGosub, ExecEnd, ExecOnError, ExecOnErrorOff, ExecResume, ExecErrorStmt,
                    JumpTo, ResumeAt, Proceed
      <3>. QED BY <1>1, <3>1, RestCalls
    <2>. QED BY <2>1, <2>2, <2>3
  <1>. QED BY <1>1, <1>2, <1>5, RaiseMatch, KeepMatch DEF callVars

(* CLEAR where no call is in progress changes no scope.                     *)
LEMMA ClearMatch == ASSUME TypeInv, CallInv, ~AbandonsCall, ExecClear PROVE CallInv'
  <1>1. /\ StmtReady /\ status = "run" /\ k' = Rest
        /\ current_scope' = 0 /\ UNCHANGED <<call_sp, scopes>>
    BY DEF ExecClear, At, StmtReady
  <1>2. CallsIn(k) = {}
    BY DEF AbandonsCall, ExecClear, CallFrames, CallsIn, CallKinds
  <1>3. current_scope = 0
    BY <1>1, <1>2 DEF CallInv, Matched, Innermost
  <1>. QED BY <1>1, <1>3, RestCalls, KeepMatch DEF callVars

LEMMA EnterMatch ==
    ASSUME TypeInv, CallInv, StmtReady, NEW fn \in CallKinds, ScopeAvailable,
           scopes' = scopes \cup {Fresh}, EnterProcedure(fn)
    PROVE  CallInv'
  <1>. DEFINE call == [NewFrame(fn, Cur.body, 0) EXCEPT !.saved = current_scope, !.own = Fresh]
              body == Block(Cur.body)
              n    == Len(Rest) + 1
  <1>1. Rest \in Seq(Frame) /\ SameCalls(k, Rest) /\ Len(Rest) \in Nat
    BY RestCalls, LenProperties
  <1>2. call.fn = fn /\ call.saved = current_scope /\ call.own = Fresh /\ body.fn = "block"
    BY DEF NewFrame, Block
  <1>3. k' = Rest \o <<call, body>> /\ current_scope' = Fresh /\ call_sp' = Pushed(call_sp)
    BY DEF EnterProcedure, Proceed
  <1>4. /\ Len(k') = Len(Rest) + 2 /\ k'[n] = call /\ k'[n + 1] = body
        /\ \A i \in 1..Len(Rest) : k'[i] = Rest[i]
    <2>. DEFINE T == Frame \cup {call, body}
    <2>1. Rest \in Seq(T) /\ <<call, body>> \in Seq(T)
      BY <1>1, SeqMonotonic
    <2>. HIDE DEF T, call, body
    <2>2. /\ Len(k') = Len(Rest) + Len(<<call, body>>)
          /\ \A i \in 1..Len(k') : k'[i] = IF i <= Len(Rest) THEN Rest[i]
                                           ELSE <<call, body>>[i - Len(Rest)]
      BY <1>3, <2>1, ConcatProperties
    <2>3. Len(<<call, body>>) = 2 /\ <<call, body>>[1] = call /\ <<call, body>>[2] = body
      OBVIOUS
    <2>4. Len(k') = Len(Rest) + 2
      BY <2>2, <2>3
    <2>5. n \in 1..Len(k') /\ ~(n <= Len(Rest)) /\ n - Len(Rest) = 1
      BY <1>1, <2>4
    <2>6. n + 1 \in 1..Len(k') /\ ~(n + 1 <= Len(Rest)) /\ n + 1 - Len(Rest) = 2
      BY <1>1, <2>4
    <2>7. \A i \in 1..Len(Rest) : i \in 1..Len(k') /\ i <= Len(Rest)
      BY <1>1, <2>4
    <2>8. k'[n] = <<call, body>>[1] /\ k'[n + 1] = <<call, body>>[2]
      BY <2>2, <2>5, <2>6
    <2>9. \A i \in 1..Len(Rest) : k'[i] = Rest[i]
      BY <2>2, <2>7
    <2>. QED BY <2>3, <2>4, <2>8, <2>9
  <1>. HIDE DEF call, body
  <1>5. OneMore(k, k', n)
    <2>1. 1..(Len(Rest) + 2) = 1..Len(Rest) \cup {n, n + 1} /\ n \in Nat
      BY <1>1
    <2>2. CallsIn(k') = CallsIn(Rest) \cup {n}
      BY <1>2, <1>4, <2>1 DEF CallsIn, CallKinds
    <2>3. \A i \in CallsIn(Rest) : i < n /\ i \in 1..Len(Rest)
      BY <1>1 DEF CallsIn
    <2>. QED BY <1>1, <1>4, <2>1, <2>2, <2>3 DEF OneMore, SameCalls
  <1>6. k \in Seq(Frame) /\ status = "run" /\ call_sp \in Int
    BY ConstantsOK DEF TypeInv, TypeOK, StmtReady, ConstantsOK
  <1>7. Fresh \notin scopes
    BY FreshType
  <1>8. Matched(k', Fresh, scopes \cup {Fresh})
    <2>1. Matched(k, current_scope, scopes)
      BY <1>6 DEF CallInv
    <2>2. CallsIn(k) \subseteq Nat
      BY <1>6, CallsFinite
    <2>3. k'[n].saved = current_scope /\ k'[n].own = Fresh
      BY <1>2, <1>4
    <2>. QED BY <1>5, <1>7, <2>1, <2>2, <2>3, MatchedPush
  <1>9. call_sp' <= Cardinality(CallsIn(k'))
    <2>1. Cardinality(CallsIn(k')) = Cardinality(CallsIn(k)) + 1
      BY <1>5, <1>6, OneMoreCounts
    <2>2. Cardinality(CallsIn(k)) \in Nat
      BY <1>6, CallsFinite
    <2>. QED BY <1>3, <1>6, <2>1, <2>2 DEF Pushed, CallInv
  <1>. QED BY <1>3, <1>8, <1>9 DEF CallInv

LEMMA CallsMatchKept ==
    ASSUME TypeInv, CallInv, ~AbandonsCall, ExecCall \/ EvalFunction PROVE CallInv'
  <1>1. StmtReady /\ k # <<>> /\ status = "run"
    BY DEF ExecCall, EvalFunction, At, StmtReady
  <1>2. ScopeAvailable => Fresh \notin scopes
    BY FreshType
  <1>3. \/ /\ \E code : Raise(code)
           /\ UNCHANGED call_sp /\ (scopes' = scopes => UNCHANGED current_scope)
        \/ /\ ScopeAvailable /\ scopes' = scopes \cup {Fresh}
           /\ \E fn \in CallKinds : EnterProcedure(fn)
    <2>1. CASE ExecCall
      BY <2>1 DEF ExecCall, RaiseArgument, callVars, CallKinds
    <2>2. CASE EvalFunction
      BY <1>2, <2>2 DEF EvalFunction, RaiseArgument, callVars, CallKinds
    <2>. QED BY <2>1, <2>2
  <1>. QED BY <1>1, <1>3, RaiseMatch, EnterMatch

LEMMA ReturnMatch == ASSUME TypeInv, CallInv, ProcedureReturn PROVE CallInv'
  <1>1. /\ status = "run" /\ k # <<>> /\ Top.fn \in CallKinds /\ k \in Seq(Frame)
        /\ call_sp \in 0..CALL_STACK_MAX
    BY DEF ProcedureReturn, AtFrame, CallKinds, TypeInv, TypeOK
  <1>2. /\ k' = Below /\ current_scope' = Top.saved /\ scopes' = scopes \ {Top.own}
        /\ call_sp' = Popped(call_sp)
    BY DEF ProcedureReturn, Proceed
  <1>3. Below \in Seq(Frame) /\ OneMore(Below, k, Len(k)) /\ Top = k[Len(k)]
    BY <1>1, BelowCalls
  <1>4. CallsIn(Below) \subseteq Nat /\ Cardinality(CallsIn(Below)) \in Nat
    BY <1>3, CallsFinite
  <1>5. Matched(Below, Top.saved, scopes \ {Top.own})
    BY <1>1, <1>3, <1>4, MatchedPop DEF CallInv
  <1>6. call_sp' <= Cardinality(CallsIn(Below))
    <2>1. Cardinality(CallsIn(k)) = Cardinality(CallsIn(Below)) + 1
      BY <1>3, OneMoreCounts
    <2>2. call_sp \in Int /\ call_sp <= Cardinality(CallsIn(k))
      BY <1>1, ConstantsOK DEF CallInv, ConstantsOK
    <2>. QED BY <1>2, <1>4, <2>1, <2>2 DEF Popped
  <1>. QED BY <1>2, <1>5, <1>6 DEF CallInv

LEMMA LoopMatch ==
    ASSUME TypeInv, CallInv, ~AbandonsCall, ForStep \/ WhileStep \/ DoLoopStep \/ BlockEnd
    PROVE  CallInv'
  <1>1. status = "run" /\ k # <<>> /\ Top.fn \notin CallKinds /\ UNCHANGED callVars
    BY DEF ForStep, WhileStep, DoLoopStep, BlockEnd, AtFrame, CallKinds
  <1>2. \/ \E code : Raise(code)
        \/ k' = Below
        \/ \E i : k' = Append(Append(Below, [Top EXCEPT !.i = i]), Block(Top.blk))
    BY DEF ForStep, WhileStep, DoLoopStep, BlockEnd, LeaveLoop, TestAndTurn, Turn, Proceed
  <1>3. (\E code : Raise(code)) \/ SameCalls(k, k')
    BY <1>1, <1>2, LoopCalls
  <1>. QED BY <1>1, <1>3, RaiseMatch, KeepMatch DEF callVars

(* interp_run itself runs while no call is in progress.                     *)
LEMMA InterpRunMatch == ASSUME CallInv, InterpRun PROVE CallInv'
  <1>1. status = "run" /\ UNCHANGED callVars
    BY DEF InterpRun, Fetch, StartStatement, FetchWild, Advance, Finish, LoopHead
  <1>2. SameCalls(k, k')
    <2>1. CASE Fetch
      <3>1. k = <<>> /\ k' = <<NewFrame("top", "main", pc + 1)>>
        BY <2>1 DEF Fetch, StartStatement, LoopHead
      <3>2. CallsIn(k) = {}
        BY <3>1 DEF CallsIn
      <3>3. CallsIn(k') = {}
        BY <3>1 DEF CallsIn, NewFrame, CallKinds
      <3>. QED BY <3>2, <3>3 DEF SameCalls
    <2>2. CASE FetchWild \/ Advance \/ Finish
      BY <2>2, SameSelf DEF FetchWild, Advance, Finish
    <2>. QED BY <2>1, <2>2 DEF InterpRun
  <1>. QED BY <1>1, <1>2, KeepMatch

LEMMA StepMatch == TypeInv /\ CallInv /\ [Next]_vars /\ [~AbandonsCall]_vars => CallInv'
  <1>. SUFFICES ASSUME TypeInv, CallInv, [Next]_vars, [~AbandonsCall]_vars PROVE CallInv'
    OBVIOUS
  <1>1. CASE UNCHANGED vars
    BY <1>1 DEF vars, callVars, CallInv
  <1>2. CASE ~AbandonsCall /\ ExecStatement
    BY <1>2, PlainMatch, ClearMatch, CallsMatchKept DEF ExecStatement, Plain
  <1>3. CASE ~AbandonsCall /\ Unwind
    BY <1>3, LoopMatch, ReturnMatch DEF Unwind
  <1>4. CASE InterpRun
    BY <1>4, InterpRunMatch
  <1>. QED BY <1>1, <1>2, <1>3, <1>4 DEF Next, Stopped

LEMMA InitMatch == Init => CallInv
  <1>. SUFFICES ASSUME Init PROVE CallInv
    OBVIOUS
  <1>1. CallsIn(k) = {}
    BY DEF Init, CallsIn
  <1>2. Matched(k, current_scope, scopes)
    BY <1>1 DEF Init, Matched, Innermost
  <1>3. Cardinality(CallsIn(k)) = 0
    BY <1>1, FS_EmptySet
  <1>. QED BY <1>2, <1>3 DEF Init, CallInv

(* What the invariant says with indices is what CallsMatch says with the    *)
(* innermost call below each frame.                                         *)
LEMMA InvIsMatch == TypeInv /\ CallInv => CallsMatch
  <1>. SUFFICES ASSUME TypeInv, CallInv PROVE CallsMatch
    OBVIOUS
  <1>1. CallFrames = CallsIn(k) /\ CallsIn(k) \subseteq Nat /\ Len(k) \in Nat
    BY CallsFinite, LenProperties DEF CallFrames, CallsIn, CallKinds, TypeInv, TypeOK
  <1>. DEFINE Calls(m)    == {j \in CallFrames : j < m}
              OwnScope(m) == IF \E j \in CallFrames : j < m
                             THEN k[CHOOSE j \in CallFrames :
                                       j < m /\ \A h \in CallFrames : h < m => h <= j].own
                             ELSE 0
  <1>2. ASSUME NEW m, NEW scope, Innermost(k, Calls(m), scope) PROVE OwnScope(m) = scope
    <2>1. CASE Calls(m) = {}
      BY <1>2, <2>1 DEF Innermost
    <2>2. CASE Calls(m) # {}
      <3>1. PICK j \in Calls(m) : k[j].own = scope /\ \A h \in Calls(m) : h <= j
        BY <1>2, <2>2 DEF Innermost
      <3>2. j \in CallFrames /\ j < m /\ \A h \in CallFrames : h < m => h <= j
        BY <3>1
      <3>3. \A i \in CallFrames : (i < m /\ \A h \in CallFrames : h < m => h <= i) => i = j
        BY <1>1, <3>2
      <3>4. (CHOOSE i \in CallFrames : i < m /\ \A h \in CallFrames : h < m => h <= i) = j
        BY <3>2, <3>3
      <3>. QED BY <3>1, <3>2, <3>4
    <2>. QED BY <2>1, <2>2
  <1>. HIDE DEF OwnScope
  <1>3. ASSUME status = "run"
        PROVE  /\ current_scope = OwnScope(Len(k) + 1)
               /\ \A i \in CallFrames : k[i].saved = OwnScope(i)
    <2>1. Matched(k, current_scope, scopes)
      BY <1>3 DEF CallInv
    <2>2. Calls(Len(k) + 1) = CallsIn(k)
      BY <1>1 DEF CallFrames
    <2>3. current_scope = OwnScope(Len(k) + 1)
      BY <1>2, <2>1, <2>2 DEF Matched
    <2>4. ASSUME NEW i \in CallFrames PROVE k[i].saved = OwnScope(i)
      BY <1>1, <1>2, <2>1 DEF Matched
    <2>. QED BY <2>3, <2>4
  <1>4. ScopesMatchCalls
    BY <1>1, <1>3 DEF ScopesMatchCalls, OwnScope, CallInv, Matched
  <1>5. CallStackNotAhead
    BY <1>1 DEF CallStackNotAhead, CallInv
  <1>. QED BY <1>4, <1>5 DEF CallsMatch

(* Whatever a program does with calls, loops, EXIT, END, refused pushes and *)
(* errors that end it, current_scope, the saved scopes, the allocated ones  *)
(* and call_stack follow the calls in progress; only a trapped error that   *)
(* drops a call, or a CLEAR in a procedure, can break this.                 *)
THEOREM CallsAlwaysMatch == Spec /\ [][~AbandonsCall]_vars => []CallsMatch
  <1>. QED BY InitType, StepType, InitMatch, StepMatch, InvIsMatch, PTL DEF Spec

--------------------------------------------------------------------------------
(* What GOSUB pushes.  A frame is spent when it will execute no statement   *)
(* any more; while a block of J is on the C stack the frames below it are,  *)
(* so that a jump leaves only spent frames.  As long as one frame is not,   *)
(* nothing has jumped and pc is the index of the statement in progress.     *)

Spent(f) ==
    \/ f.fn \in {"sub", "function"}
    \/ f.fn = "block" /\ f.i > Len(prog[f.blk])

AllSpent(s) == \A i \in 1..Len(s) : Spent(s[i])

SpentBelow(s, J) ==
    \A i \in 1..Len(s) :
        /\ s[i].fn \in LoopOps => s[i].blk \notin J
        /\ s[i].fn = "block" /\ s[i].blk \in J => \A h \in 1..(i - 1) : Spent(s[h])

PcKept == pc = old_pc \/ AllSpent(k)

LastInv(J) == EndInJumps(prog, J) => SpentBelow(k, J) /\ PcKept

(* What every step may assume.                                              *)
Lasting(J) == TypeInv /\ EndInJumps(prog, J) /\ SpentBelow(k, J) /\ PcKept

LEMMA NothingSpent == ASSUME NEW J PROVE AllSpent(<<>>) /\ SpentBelow(<<>>, J)
  BY DEF AllSpent, SpentBelow

(* A new frame on a stack of inner frames.                                  *)
LEMMA PushSpent ==
    ASSUME NEW T, NEW s \in Seq(T), NEW f, NEW J, SpentBelow(s, J),
           f.fn \in LoopOps => f.blk \notin J,
           f.fn = "block" /\ f.blk \in J => AllSpent(s)
    PROVE  SpentBelow(Append(s, f), J)
  <1>1. Len(s) \in Nat /\ Len(Append(s, f)) = Len(s) + 1
    BY LenProperties
  <1>2. \A i \in 1..Len(s) : Append(s, f)[i] = s[i]
    OBVIOUS
  <1>3. Append(s, f)[Len(s) + 1] = f
    OBVIOUS
  <1>. SUFFICES ASSUME NEW i \in 1..(Len(s) + 1)
       PROVE  LET g == Append(s, f)[i] IN
              /\ g.fn \in LoopOps => g.blk \notin J
              /\ g.fn = "block" /\ g.blk \in J => \A h \in 1..(i - 1) : Spent(Append(s, f)[h])
    BY <1>1 DEF SpentBelow
  <1>4. \A h \in 1..(i - 1) : h \in 1..Len(s) /\ Append(s, f)[h] = s[h]
    BY <1>1, <1>2
  <1>5. CASE i = Len(s) + 1
    <2>1. Append(s, f)[i] = f
      BY <1>3, <1>5, Zenon
    <2>. QED BY <1>4, <2>1 DEF AllSpent
  <1>6. CASE i \in 1..Len(s)
    <2>1. Append(s, f)[i] = s[i]
      BY <1>2, <1>6, Zenon
    <2>. QED BY <1>4, <1>6, <2>1 DEF SpentBelow
  <1>. QED BY <1>1, <1>5, <1>6

(* The same for the frames that stay spent.                                 *)
LEMMA PushAllSpent ==
    ASSUME NEW T, NEW s \in Seq(T), NEW f, AllSpent(s), Spent(f)
    PROVE  AllSpent(Append(s, f))
  <1>1. Len(s) \in Nat /\ Len(Append(s, f)) = Len(s) + 1
    BY LenProperties
  <1>2. \A i \in 1..Len(s) : Append(s, f)[i] = s[i]
    OBVIOUS
  <1>3. Append(s, f)[Len(s) + 1] = f
    OBVIOUS
  <1>4. ASSUME NEW i \in 1..(Len(s) + 1) PROVE Spent(Append(s, f)[i])
    <2>1. CASE i = Len(s) + 1
      BY <1>3, <2>1, Zenon
    <2>2. CASE i \in 1..Len(s)
      BY <1>2, <2>2, Zenon DEF AllSpent
    <2>. QED BY <1>1, <2>1, <2>2
  <1>. QED BY <1>1, <1>4 DEF AllSpent

(* What stays of the stack when its top returns.                            *)
LEMMA BelowSpent ==
    ASSUME TypeInv, k # <<>>, NEW J, SpentBelow(k, J)
    PROVE  /\ Below \in Seq(InnerFrames) /\ SpentBelow(Below, J)
           /\ AllSpent(k) => AllSpent(Below) /\ Spent(Top)
           /\ Top.fn \in LoopOps => Top.blk \notin J
           /\ Top.fn = "block" /\ Top.blk \in J => AllSpent(Below)
  <1>1. k \in Seq(Frame) /\ Below \in Seq(InnerFrames)
    BY BelowType DEF TypeInv, TypeOK
  <1>2. /\ Len(Below) = Len(k) - 1
        /\ \A i \in 1..(Len(k) - 1) : Below[i] = k[i]
    BY <1>1, FrontType DEF Below
  <1>3. Len(k) \in Nat /\ Len(k) \in 1..Len(k)
    BY <1>1, LenProperties, EmptySeq
  <1>4. \A i \in 1..(Len(k) - 1) : i \in 1..Len(k) /\ \A h \in 1..(i - 1) : h \in 1..(Len(k) - 1)
    BY <1>3
  <1>5. SpentBelow(Below, J)
    BY <1>2, <1>4 DEF SpentBelow
  <1>6. AllSpent(k) => AllSpent(Below) /\ Spent(Top)
    BY <1>2, <1>3, <1>4 DEF AllSpent, Top
  <1>7. /\ Top.fn \in LoopOps => Top.blk \notin J
        /\ Top.fn = "block" /\ Top.blk \in J => AllSpent(Below)
    BY <1>2, <1>3 DEF SpentBelow, AllSpent, Top
  <1>. QED BY <1>1, <1>5, <1>6, <1>7

(* While a statement is about to be executed nothing has jumped, and a      *)
(* statement that must be the last leaves only spent frames.                *)
LEMMA ReadySpent ==
    ASSUME NEW J, Lasting(J), StmtReady
    PROVE  /\ k # <<>> /\ pc = old_pc
           /\ Rest \in Seq(InnerFrames) /\ SpentBelow(Rest, J)
           /\ Cur.op \in JumpOps => AllSpent(Rest)
           /\ Cur.op \in BranchOps => \A b \in {Cur.body, Cur.alt} \cap J : AllSpent(Rest)
           /\ Cur.op \in LoopOps => Cur.body \notin J
  <1>1. TypeInv /\ EndInJumps(prog, J) /\ SpentBelow(k, J) /\ PcKept /\ k # <<>>
    BY DEF Lasting, StmtReady
  <1>2. /\ Below \in Seq(InnerFrames) /\ SpentBelow(Below, J)
        /\ AllSpent(k) => Spent(Top)
        /\ Top.fn = "block" /\ Top.blk \in J => AllSpent(Below)
    BY <1>1, BelowSpent
  <1>3. /\ Top.blk \in BlockNames /\ Top.i \in 1..Len(prog[Top.blk])
        /\ Top.fn # "top" => Top.blk # "main"
    BY <1>1, CurType DEF TypeInv
  <1>4. Top.fn \in {"top", "block"} /\ Top \in Frame
    <2>1. Top \in Frame
      BY <1>1, FrontType DEF Top, TypeInv, TypeOK
    <2>. QED BY <2>1 DEF StmtReady
  <1>5. Top.i \in Nat /\ Len(prog[Top.blk]) \in Nat
    <2>1. prog[Top.blk] \in Seq(Stmt)
      BY <1>1, <1>3, ProgramType DEF TypeInv, WellFormed
    <2>. QED BY <1>4, <2>1, LenProperties DEF Frame
  <1>6. ~Spent(Top)
    BY <1>3, <1>4, <1>5 DEF Spent
  <1>7. pc = old_pc
    BY <1>1, <1>2, <1>6 DEF PcKept
  <1>8. Rest \in Seq(InnerFrames)
    BY <1>1, RestType DEF TypeInv
  <1> DEFINE next == [Top EXCEPT !.i = Top.i + 1]
             last == Top.blk # "main" => Top.blk \in J /\ Top.i = Len(prog[Top.blk])
  <1>9. next.fn = Top.fn /\ next.blk = Top.blk /\ next.i = Top.i + 1
    BY <1>4 DEF Frame
  <1>10. SpentBelow(Rest, J)
    <2>1. CASE Top.fn = "top"
      BY <1>2, <2>1 DEF Rest
    <2>2. CASE Top.fn = "block"
      <3>1. next.fn \notin LoopOps
        BY <1>9, <2>2 DEF LoopOps
      <3>2. SpentBelow(Append(Below, next), J)
        BY <1>2, <1>9, <2>2, <3>1, PushSpent
      <3>. QED BY <2>2, <3>2 DEF Rest
    <2>. QED BY <1>4, <2>1, <2>2
  <1>11. last => AllSpent(Rest)
    <2>1. CASE Top.fn = "top"
      <3>1. k \notin Seq(InnerFrames)
        <4>1. Top \notin InnerFrames
          BY <2>1 DEF InnerFrames
        <4>. QED BY <1>1, <4>1, FrontType DEF Top
      <3>2. PICK f \in TopFrames : k = <<f>>
        BY <1>1, <3>1 DEF TypeInv, StackOK
      <3>3. Rest = <<>>
        BY <2>1, <3>2, SingleFront DEF Rest, Below
      <3>. QED BY <3>3, NothingSpent
    <2>2. ASSUME Top.fn = "block", last PROVE AllSpent(Rest)
      <3>1. Top.blk \in J /\ Top.i = Len(prog[Top.blk])
        BY <1>3, <2>2
      <3>2. Spent(next)
        BY <1>5, <1>9, <2>2, <3>1 DEF Spent
      <3>3. AllSpent(Append(Below, next))
        BY <1>2, <2>2, <3>1, <3>2, PushAllSpent
      <3>. QED BY <2>2, <3>3 DEF Rest
    <2>. QED BY <1>4, <2>1, <2>2
  <1>12. /\ Cur.op \in JumpOps => last
         /\ Cur.op \in BranchOps /\ {Cur.body, Cur.alt} \cap J # {} => last
         /\ Cur.op \in LoopOps => Cur.body \notin J
    BY <1>1, <1>3, Zenon DEF EndInJumps, Cur
  <1>. QED BY <1>1, <1>7, <1>8, <1>10, <1>11, <1>12

(* What a step has to establish, and what every step may use.               *)
Lasts(J) == SpentBelow(k', J) /\ (pc' = old_pc' \/ AllSpent(k'))

LEMMA LastingKept ==
    ASSUME NEW J, Lasts(J), prog' = prog PROVE SpentBelow(k, J)' /\ PcKept'
  BY DEF Lasts, SpentBelow, AllSpent, Spent, PcKept

LEMMA RaiseLasts == ASSUME NEW J, Lasting(J), NEW code, Raise(code) PROVE Lasts(J)
  BY NothingSpent DEF Raise, Lasts, Lasting, PcKept

LEMMA StayLasts ==
    ASSUME NEW J, Lasting(J), UNCHANGED <<k, pc, old_pc>> PROVE Lasts(J)
  BY DEF Lasts, Lasting, PcKept

(* A statement that is done, with or without a jump.                        *)
LEMMA RestLasts ==
    ASSUME NEW J, Lasting(J), StmtReady, k' = Rest, old_pc' = old_pc,
           pc' = pc \/ Cur.op \in JumpOps
    PROVE  Lasts(J)
  BY ReadySpent DEF Lasts

(* The frame of a block, a loop or a procedure body.                        *)
LEMMA BlockSpent ==
    ASSUME NEW J, NEW T, NEW s \in Seq(T), SpentBelow(s, J), NEW b, b \in J => AllSpent(s)
    PROVE  SpentBelow(Append(s, Block(b)), J)
  <1>1. Block(b).fn = "block" /\ Block(b).blk = b
    BY DEF Block, NewFrame
  <1>2. Block(b).fn \notin LoopOps
    BY <1>1 DEF LoopOps
  <1>. QED BY <1>1, <1>2, PushSpent

LEMMA EnterBlockLasts ==
    ASSUME NEW J, Lasting(J), StmtReady, Cur.op \in BranchOps, NEW b \in {Cur.body, Cur.alt},
           Proceed(Append(Rest, Block(b))), pc' = pc
    PROVE  Lasts(J)
  <1>1. /\ pc = old_pc /\ Rest \in Seq(InnerFrames) /\ SpentBelow(Rest, J)
        /\ b \in J => AllSpent(Rest)
    BY ReadySpent
  <1>. QED BY <1>1, BlockSpent DEF Proceed, Lasts

LEMMA EnterLoopLasts ==
    ASSUME NEW J, Lasting(J), StmtReady, Cur.op \in LoopOps, NEW fn \in LoopOps, NEW turns,
           EnterLoop(fn, turns), pc' = pc
    PROVE  Lasts(J)
  <1> DEFINE loop == [NewFrame(fn, Cur.body, turns) EXCEPT !.cond = Cur.cond, !.var = Cur.var,
                       !.limit = Cur.limit, !.step = Cur.step]
  <1>1. /\ pc = old_pc /\ Rest \in Seq(InnerFrames) /\ SpentBelow(Rest, J)
        /\ Cur.body \notin J
    BY ReadySpent
  <1>2. loop.fn = fn /\ loop.blk = Cur.body /\ loop.fn # "block"
    BY DEF NewFrame, LoopOps
  <1>3. SpentBelow(Append(Rest, loop), J)
    BY <1>1, <1>2, PushSpent
  <1>. QED BY <1>1, <1>3 DEF EnterLoop, Proceed, Lasts

LEMMA EnterProcedureLasts ==
    ASSUME NEW J, Lasting(J), StmtReady, Cur.op \in BranchOps, NEW fn \in {"sub", "function"},
           ScopeAvailable, EnterProcedure(fn)
    PROVE  Lasts(J)
  <1> DEFINE call == [NewFrame(fn, Cur.body, 0) EXCEPT !.saved = current_scope, !.own = Fresh]
  <1>1. /\ pc = old_pc /\ Rest \in Seq(InnerFrames) /\ SpentBelow(Rest, J)
        /\ Cur.body \in J => AllSpent(Rest)
    BY ReadySpent
  <1>2. call.fn = fn /\ call.fn \notin LoopOps \cup {"block"} /\ Spent(call)
    <2>1. call.fn = fn
      BY DEF NewFrame
    <2>. HIDE DEF call
    <2>. QED BY <2>1 DEF LoopOps, Spent
  <1>3. call \in InnerFrames
    <2>1. Cur.body \in BlockNames \ {"main"}
      BY ReadyType DEF Lasting, Stmt
    <2>2. NewFrame(fn, Cur.body, 0) \in InnerFrames
      BY <2>1, NewFrameType DEF FrameKinds
    <2>3. Fresh \in Nat /\ current_scope \in Nat
      BY FreshType, ConstantsOK DEF ConstantsOK, Lasting, TypeInv, TypeOK
    <2>. QED BY <2>2, <2>3 DEF InnerFrames, Frame
  <1>4. Append(Rest, call) \in Seq(InnerFrames)
    BY <1>1, <1>3, AppendType
  <1>5. SpentBelow(Append(Rest, call), J) /\ (Cur.body \in J => AllSpent(Append(Rest, call)))
    BY <1>1, <1>2, PushSpent, PushAllSpent
  <1>6. SpentBelow(Append(Append(Rest, call), Block(Cur.body)), J)
    BY <1>4, <1>5, BlockSpent
  <1>7. Rest \o <<call, Block(Cur.body)>> = Append(Append(Rest, call), Block(Cur.body))
    BY <1>1
  <1>. QED BY <1>1, <1>6, <1>7 DEF EnterProcedure, Proceed, Lasts

--------------------------------------------------------------------------------
(* Every action keeps the order.                                            *)

LEMMA StatementsLast ==
    ASSUME NEW J, Lasting(J), ExecLet \/ ExecExit \/ ExecErrorStmt \/ ExecEnd \/ ExecOnError
                              \/ ExecOnErrorOff \/ ExecClear
    PROVE  Lasts(J)
  <1>1. StmtReady
    BY DEF ExecLet, ExecExit, ExecErrorStmt, ExecEnd, ExecOnError, ExecOnErrorOff, ExecClear, At
  <1>2. (\E code : Raise(code)) \/ (k' = Rest /\ UNCHANGED <<old_pc, pc>>)
    BY DEF ExecLet, ExecExit, ExecErrorStmt, ExecEnd, ExecOnError, ExecOnErrorOff, ExecClear, Proceed
  <1>. QED BY <1>1, <1>2, RaiseLasts, RestLasts

LEMMA ChoicesLast == ASSUME NEW J, Lasting(J), ExecIf \/ ExecSelectCase PROVE Lasts(J)
  <1>1. StmtReady /\ Cur.op \in BranchOps
    BY DEF ExecIf, ExecSelectCase, At, BranchOps
  <1>2. \/ \E code : Raise(code)
        \/ pc' = pc /\ \E b \in {Cur.body, Cur.alt} : Proceed(Append(Rest, Block(b)))
    BY DEF ExecIf, ExecSelectCase
  <1>. QED BY <1>1, <1>2, RaiseLasts, EnterBlockLasts

LEMMA LoopsLast == ASSUME NEW J, Lasting(J), ExecFor \/ ExecWhile \/ ExecDoLoop PROVE Lasts(J)
  <1>1. StmtReady /\ Cur.op \in LoopOps
    BY DEF ExecFor, ExecWhile, ExecDoLoop, At, LoopOps
  <1>2. \/ \E code : Raise(code)
        \/ pc' = pc /\ \E fn \in LoopOps : \E turns : EnterLoop(fn, turns)
    BY DEF ExecFor, ExecWhile, ExecDoLoop, LoopOps
  <1>. QED BY <1>1, <1>2, RaiseLasts, EnterLoopLasts

LEMMA CallsLast == ASSUME NEW J, Lasting(J), ExecCall \/ EvalFunction PROVE Lasts(J)
  <1>1. StmtReady /\ Cur.op \in BranchOps
    BY DEF ExecCall, EvalFunction, At, BranchOps
  <1>2. \/ \E code : Raise(code)
        \/ ScopeAvailable /\ \E fn \in {"sub", "function"} : EnterProcedure(fn)
    BY DEF ExecCall, EvalFunction, RaiseArgument
  <1>. QED BY <1>1, <1>2, RaiseLasts, EnterProcedureLasts

LEMMA JumpsLastStep ==
    ASSUME NEW J, Lasting(J), ExecGoto \/ ExecGosub \/ ExecReturn \/ ExecOnGoto \/ ExecOnGosub
                              \/ ExecResume
    PROVE  Lasts(J)
  <1>1. StmtReady /\ Cur.op \in JumpOps
    BY DEF ExecGoto, ExecGosub, ExecReturn, ExecOnGoto, ExecOnGosub, ExecResume, At, JumpOps
  <1>2. (\E code : Raise(code)) \/ (k' = Rest /\ old_pc' = old_pc)
    BY DEF ExecGoto, ExecGosub, ExecReturn, ExecOnGoto, ExecOnGosub, ExecResume, ResumeAt, JumpTo, Proceed
  <1>. QED BY <1>1, <1>2, RaiseLasts, RestLasts

(* A loop's frame is not spent, so nothing has jumped between two turns,    *)
(* and no block of J is what the loop runs.                                 *)
LEMMA TurnLasts ==
    ASSUME NEW J, Lasting(J), NEW fn \in LoopOps, AtFrame(fn), NEW i, Turn(i) PROVE Lasts(J)
  <1>1. k # <<>> /\ Top.fn = fn /\ Top \in InnerFrames
    BY LoopFrameType DEF AtFrame, Lasting, LoopOps
  <1>2. /\ Below \in Seq(InnerFrames) /\ SpentBelow(Below, J)
        /\ AllSpent(k) => Spent(Top)
        /\ Top.blk \notin J
    BY <1>1, BelowSpent DEF Lasting
  <1>3. ~Spent(Top)
    BY <1>1 DEF Spent, LoopOps
  <1> DEFINE loop == [Top EXCEPT !.i = i]
  <1>4. loop.fn = fn /\ loop.blk = Top.blk /\ fn # "block"
    BY <1>1 DEF InnerFrames, Frame, LoopOps
  <1>5. SpentBelow(Append(Below, loop), J)
    BY <1>2, <1>4, PushSpent
  <1>6. Append(Below, loop) \in Seq(InnerFrames \cup {loop})
    BY <1>2, AppendType, SeqMonotonic
  <1>7. SpentBelow(Append(Append(Below, loop), Block(Top.blk)), J)
    BY <1>2, <1>5, <1>6, BlockSpent
  <1>. QED BY <1>2, <1>3, <1>7 DEF Turn, Proceed, Lasts, Lasting, PcKept

(* A frame that returns.                                                    *)
LEMMA PopLasts ==
    ASSUME NEW J, Lasting(J), k # <<>>, k' = Below, UNCHANGED <<pc, old_pc>> PROVE Lasts(J)
  BY BelowSpent DEF Lasting, Lasts, PcKept

LEMMA UnwindLasts == ASSUME NEW J, Lasting(J), Unwind PROVE Lasts(J)
  <1>1. k # <<>>
    BY DEF Unwind, ForStep, WhileStep, DoLoopStep, BlockEnd, ProcedureReturn, AtFrame
  <1>2. \/ \E code : Raise(code)
        \/ k' = Below /\ UNCHANGED <<pc, old_pc>>
        \/ \E fn \in LoopOps : AtFrame(fn) /\ \E i : Turn(i)
    BY DEF Unwind, ForStep, WhileStep, DoLoopStep, BlockEnd, ProcedureReturn, LeaveLoop, TestAndTurn,
           Proceed, LoopOps
  <1>. QED BY <1>1, <1>2, RaiseLasts, PopLasts, TurnLasts

(* A statement starts with pc its own index, and ends with no frame left.   *)
LEMMA InterpRunLasts == ASSUME NEW J, Lasting(J), InterpRun PROVE Lasts(J)
  <1>1. CASE Fetch
    <2>1. k' = <<NewFrame("top", "main", pc + 1)>> /\ pc' = old_pc'
      BY <1>1 DEF Fetch, StartStatement
    <2>2. Len(k') = 1 /\ k'[1].fn = "top"
      BY <2>1 DEF NewFrame
    <2>. QED BY <2>1, <2>2 DEF Lasts, SpentBelow, LoopOps
  <1>2. CASE FetchWild \/ Finish
    BY <1>2, StayLasts DEF FetchWild, Finish
  <1>3. CASE Advance
    BY <1>3, NothingSpent DEF Advance, Lasts
  <1>. QED BY <1>1, <1>2, <1>3 DEF InterpRun

LEMMA ProgStays == [Next]_vars => prog' = prog
  BY DEF Next, ExecStatement, Unwind, InterpRun, Stopped, vars, Untouched, ExecLet, ExecIf,
         ExecSelectCase, ExecFor, ExecWhile, ExecDoLoop, ExecExit, ExecGoto, ExecGosub, ExecReturn,
         ExecOnGoto, ExecOnGosub, ExecEnd, ExecCall, EvalFunction, ExecOnError, ExecOnErrorOff,
         ExecResume, ExecErrorStmt, ExecClear, ForStep, WhileStep, DoLoopStep, BlockEnd,
         ProcedureReturn, Fetch, StartStatement, FetchWild, Advance, Finish

LEMMA StepLasts ==
    ASSUME NEW J PROVE TypeInv /\ LastInv(J) /\ [Next]_vars => LastInv(J)'
  <1>. SUFFICES ASSUME TypeInv, LastInv(J), [Next]_vars, EndInJumps(prog, J)'
       PROVE  SpentBelow(k, J)' /\ PcKept'
    BY DEF LastInv
  <1>1. prog' = prog
    BY ProgStays
  <1>2. Lasting(J)
    BY <1>1 DEF LastInv, Lasting, EndInJumps
  <1>3. ASSUME ExecStatement PROVE Lasts(J)
    BY <1>2, <1>3, StatementsLast, ChoicesLast, LoopsLast, CallsLast, JumpsLastStep DEF ExecStatement
  <1>4. ASSUME Stopped \/ UNCHANGED vars PROVE Lasts(J)
    BY <1>2, <1>4, StayLasts DEF Stopped, vars
  <1>5. Lasts(J)
    BY <1>2, <1>3, <1>4, UnwindLasts, InterpRunLasts DEF Next
  <1>. QED BY <1>1, <1>5, LastingKept

LEMMA InitLasts == ASSUME NEW J PROVE Init => LastInv(J)
  BY NothingSpent DEF Init, LastInv, PcKept

JumpsKeptLast == \A J \in SUBSET BlockNames : LastInv(J)

LEMMA SpecLasts == Spec => [](TypeInv /\ JumpsKeptLast)
  <1>1. Init => JumpsKeptLast
    BY InitLasts DEF JumpsKeptLast
  <1>2. TypeInv /\ JumpsKeptLast /\ [Next]_vars => JumpsKeptLast'
    BY StepLasts DEF JumpsKeptLast
  <1>. QED BY InitType, StepType, <1>1, <1>2, PTL DEF Spec

(* Only GOSUB and ON x GOSUB make the stack longer.                         *)
LEMMA OnlyGosubPushes ==
    ASSUME TypeInv, [Next]_vars, Len(gosub_stack') > Len(gosub_stack)
    PROVE  StmtReady /\ gosub_stack' = Append(gosub_stack, pc + 1)
  <1>1. gosub_stack \in Seq(Int) /\ Len(gosub_stack) \in Nat
    BY LenProperties DEF TypeInv, TypeOK
  <1>2. gosub_stack' # gosub_stack
    BY <1>1
  <1>3. ~ExecReturn
    <2>1. SUFFICES ASSUME gosub_stack # <<>>,
                          gosub_stack' = SubSeq(gosub_stack, 1, Len(gosub_stack) - 1)
                   PROVE  FALSE
      BY <1>2 DEF ExecReturn
    <2>2. Len(gosub_stack') = Len(gosub_stack) - 1
      BY <1>1, <2>1, FrontType
    <2>. QED BY <1>1, <2>2
  <1>4. ExecGosub \/ ExecOnGosub
    BY <1>2, <1>3 DEF Next, ExecStatement, Unwind, InterpRun, Stopped, vars, Untouched, ExecLet, ExecIf,
         ExecSelectCase, ExecFor, ExecWhile, ExecDoLoop, ExecExit, ExecGoto,
         ExecOnGoto, ExecEnd, ExecCall, EvalFunction, ExecOnError, ExecOnErrorOff,
         ExecResume, ExecErrorStmt, ExecClear, ForStep, WhileStep, DoLoopStep, BlockEnd,
         ProcedureReturn, Fetch, StartStatement, FetchWild, Advance, Finish
  <1>. QED BY <1>2, <1>4 DEF ExecGosub, ExecOnGosub, At

(* In every program that executes nothing between a jump and the end of the *)
(* top-level statement around it, what a GOSUB pushes, however deep in      *)
(* blocks and procedures it is, is the statement after that one.            *)
THEOREM GosubAlwaysToNext == Spec => GosubReturnsToNext
  <1>1. ASSUME TypeInv, JumpsKeptLast, [Next]_vars
        PROVE  [Len(gosub_stack') > Len(gosub_stack) /\ JumpsLast(prog)
                  => gosub_stack'[Len(gosub_stack')] = old_pc + 1]_vars
    <2>. SUFFICES ASSUME Len(gosub_stack') > Len(gosub_stack), JumpsLast(prog)
         PROVE  gosub_stack'[Len(gosub_stack')] = old_pc + 1
      OBVIOUS
    <2>1. StmtReady /\ gosub_stack' = Append(gosub_stack, pc + 1)
      BY <1>1, OnlyGosubPushes
    <2>2. PICK J \in SUBSET BlockNames : EndInJumps(prog, J)
      BY DEF JumpsLast
    <2>3. pc = old_pc
      BY <1>1, <2>1, <2>2, ReadySpent DEF JumpsKeptLast, LastInv, Lasting
    <2>4. gosub_stack'[Len(gosub_stack')] = pc + 1
      <3>1. gosub_stack \in Seq(Int) /\ pc + 1 \in Int
        BY <1>1 DEF TypeInv, TypeOK
      <3>. QED BY <2>1, <3>1
    <2>. QED BY <2>3, <2>4
  <1>. QED BY SpecLasts, <1>1, PTL DEF Spec, GosubReturnsToNext

--------------------------------------------------------------------------------
(* A pending EXIT.  Every block on the C stack belongs to the construct     *)
(* NestsIn gives it, with nothing but blocks in between; so an EXIT raises  *)
(* the flag of the first frame below it that is no block, and that frame    *)
(* is the first to look at a flag.                                          *)

Blocks(s, first, last) == \A h \in first..last : s[h].fn = "block"

Encloses(s, i, kind) == \E t \in 1..(i - 1) : s[t].fn = kind /\ Blocks(s, t + 1, i)

Nested(s, C) ==
    \A i \in 1..Len(s) : s[i].blk # NoBlock =>
        /\ s[i].fn = "block" => C[s[i].blk] = "top" \/ Encloses(s, i, C[s[i].blk])
        /\ s[i].fn \in LoopOps => C[s[i].blk] = s[i].fn

Pending(s, flags) ==
    flags = {} \/ \E t \in 1..Len(s) : flags = {s[t].fn} /\ Blocks(s, t + 1, Len(s))

NestInv(C) == NestsIn(prog, C) => Nested(k, C) /\ Pending(k, exits)

(* What every step may assume, and what it has to establish.                *)
Nesting(C) == TypeInv /\ NestsIn(prog, C) /\ Nested(k, C) /\ Pending(k, exits)
Nests(C)   == Nested(k', C) /\ Pending(k', exits')

LEMMA NothingNested == ASSUME NEW C PROVE Nested(<<>>, C)
  BY DEF Nested

(* Two stacks that differ in positions and counters only.                   *)
SameShape(s, t) ==
    Len(t) = Len(s) /\ \A i \in 1..Len(s) : t[i].fn = s[i].fn /\ t[i].blk = s[i].blk

LEMMA ShapeEncloses ==
    ASSUME NEW T, NEW s \in Seq(T), NEW t, SameShape(s, t), NEW i \in 1..Len(s), NEW kind,
           Encloses(s, i, kind)
    PROVE  Encloses(t, i, kind)
  <1>1. PICK a \in 1..(i - 1) : s[a].fn = kind /\ Blocks(s, a + 1, i)
    BY DEF Encloses
  <1>2. a \in 1..Len(s) /\ \A h \in (a + 1)..i : h \in 1..Len(s)
    BY LenProperties
  <1>3. t[a].fn = kind /\ Blocks(t, a + 1, i)
    BY <1>1, <1>2 DEF SameShape, Blocks
  <1>. QED BY <1>3 DEF Encloses

LEMMA ShapeNested ==
    ASSUME NEW C, NEW T, NEW s \in Seq(T), NEW t, SameShape(s, t), Nested(s, C) PROVE Nested(t, C)
  BY ShapeEncloses DEF Nested, SameShape

(* A new frame on top.                                                      *)
LEMMA PushNested ==
    ASSUME NEW C, NEW T, NEW s \in Seq(T), NEW f, Nested(s, C), f.blk # NoBlock =>
               /\ f.fn = "block" => C[f.blk] = "top" \/ Encloses(Append(s, f), Len(s) + 1, C[f.blk])
               /\ f.fn \in LoopOps => C[f.blk] = f.fn
    PROVE  Nested(Append(s, f), C)
  <1> DEFINE u == Append(s, f)
  <1>1. Len(s) \in Nat /\ Len(u) = Len(s) + 1
    BY LenProperties
  <1>2. (\A i \in 1..Len(s) : u[i] = s[i]) /\ u[Len(s) + 1] = f
    OBVIOUS
  <1> HIDE DEF u
  <1>3. ASSUME NEW i \in 1..Len(s), NEW kind, Encloses(s, i, kind) PROVE Encloses(u, i, kind)
    <2>1. PICK a \in 1..(i - 1) : s[a].fn = kind /\ Blocks(s, a + 1, i)
      BY <1>3 DEF Encloses
    <2>2. a \in 1..Len(s) /\ \A h \in (a + 1)..i : h \in 1..Len(s)
      BY <1>1
    <2>3. u[a].fn = kind /\ Blocks(u, a + 1, i)
      BY <1>2, <2>1, <2>2 DEF Blocks
    <2>. QED BY <2>3 DEF Encloses
  <1>4. SUFFICES ASSUME NEW i \in 1..(Len(s) + 1), u[i].blk # NoBlock
        PROVE  /\ u[i].fn = "block" => C[u[i].blk] = "top" \/ Encloses(u, i, C[u[i].blk])
               /\ u[i].fn \in LoopOps => C[u[i].blk] = u[i].fn
    BY <1>1 DEF Nested, u
  <1>5. CASE i = Len(s) + 1
    <2>1. u[i] = f
      BY <1>2, <1>5, Zenon
    <2>. QED BY <1>4, <1>5, <2>1, Zenon DEF u
  <1>6. CASE i \in 1..Len(s)
    <2>1. u[i] = s[i]
      BY <1>2, <1>6, Zenon
    <2>. QED BY <1>3, <1>4, <1>6, <2>1 DEF Nested
  <1>. QED BY <1>1, <1>5, <1>6

(* A block pushed on the construct that runs it, or on a block of it.       *)
LEMMA PushEnclosed ==
    ASSUME NEW T, NEW s \in Seq(T), s # <<>>, NEW f, f.fn = "block", NEW kind,
           \/ s[Len(s)].fn = kind
           \/ s[Len(s)].fn = "block" /\ Encloses(s, Len(s), kind)
    PROVE  Encloses(Append(s, f), Len(s) + 1, kind)
  <1> DEFINE u == Append(s, f)
  <1>1. Len(s) \in Nat /\ Len(s) # 0
    BY LenProperties, EmptySeq
  <1>2. (\A i \in 1..Len(s) : u[i] = s[i]) /\ u[Len(s) + 1] = f
    OBVIOUS
  <1> HIDE DEF u
  <1>3. CASE s[Len(s)].fn = kind
    <2>1. Len(s) \in 1..(Len(s) + 1 - 1) /\ \A h \in (Len(s) + 1)..(Len(s) + 1) : h = Len(s) + 1
      BY <1>1
    <2>2. u[Len(s)].fn = kind /\ Blocks(u, Len(s) + 1, Len(s) + 1)
      BY <1>2, <1>3, <2>1 DEF Blocks
    <2>. QED BY <2>1, <2>2 DEF Encloses, u
  <1>4. CASE s[Len(s)].fn = "block" /\ Encloses(s, Len(s), kind)
    <2>1. PICK a \in 1..(Len(s) - 1) : s[a].fn = kind /\ Blocks(s, a + 1, Len(s))
      BY <1>4 DEF Encloses
    <2>2. /\ a \in 1..Len(s) /\ a \in 1..(Len(s) + 1 - 1)
          /\ \A h \in (a + 1)..(Len(s) + 1) : h = Len(s) + 1 \/ (h \in 1..Len(s) /\ h \in (a + 1)..Len(s))
      BY <1>1
    <2>3. u[a].fn = kind /\ Blocks(u, a + 1, Len(s) + 1)
      BY <1>2, <2>1, <2>2 DEF Blocks
    <2>. QED BY <2>2, <2>3 DEF Encloses, u
  <1>. QED BY <1>3, <1>4

(* The stack without its top, and with its top moved on.                    *)
LEMMA BelowNested ==
    ASSUME TypeInv, k # <<>>, NEW C, Nested(k, C)
    PROVE  Below \in Seq(InnerFrames) /\ Nested(Below, C)
  <1>1. k \in Seq(Frame) /\ Below \in Seq(InnerFrames)
    BY BelowType DEF TypeInv, TypeOK
  <1>2. /\ Len(Below) = Len(k) - 1 /\ Len(k) \in Nat
        /\ \A i \in 1..(Len(k) - 1) : Below[i] = k[i]
    BY <1>1, FrontType, LenProperties DEF Below
  <1>3. ASSUME NEW i \in 1..(Len(k) - 1), NEW kind, Encloses(k, i, kind) PROVE Encloses(Below, i, kind)
    <2>1. PICK a \in 1..(i - 1) : k[a].fn = kind /\ Blocks(k, a + 1, i)
      BY <1>3 DEF Encloses
    <2>2. a \in 1..(Len(k) - 1) /\ \A h \in (a + 1)..i : h \in 1..(Len(k) - 1)
      BY <1>2
    <2>3. Below[a].fn = kind /\ Blocks(Below, a + 1, i)
      BY <1>2, <2>1, <2>2 DEF Blocks
    <2>. QED BY <2>3 DEF Encloses
  <1>4. \A i \in 1..(Len(k) - 1) : i \in 1..Len(k)
    BY <1>2
  <1>5. Nested(Below, C)
    BY <1>2, <1>3, <1>4 DEF Nested
  <1>. QED BY <1>1, <1>5

LEMMA MovedShape ==
    ASSUME TypeInv, k # <<>>, NEW f, f.fn = Top.fn, f.blk = Top.blk, Below \in Seq(InnerFrames)
    PROVE  SameShape(k, Append(Below, f)) /\ Len(Append(Below, f)) = Len(k)
  <1>1. k \in Seq(Frame)
    BY DEF TypeInv, TypeOK
  <1>2. /\ Len(Below) = Len(k) - 1 /\ Len(k) \in Nat /\ Len(k) # 0
        /\ \A i \in 1..(Len(k) - 1) : Below[i] = k[i]
    BY <1>1, FrontType, LenProperties, EmptySeq DEF Below
  <1> DEFINE u == Append(Below, f)
  <1>3. /\ Len(u) = Len(Below) + 1 /\ u[Len(Below) + 1] = f
        /\ \A i \in 1..Len(Below) : u[i] = Below[i]
    OBVIOUS
  <1> HIDE DEF u
  <1>4. Len(u) = Len(k) /\ u[Len(k)] = f
    BY <1>2, <1>3
  <1>5. \A i \in 1..Len(k) : i = Len(k) \/ i \in 1..(Len(k) - 1)
    BY <1>2
  <1>6. \A i \in 1..Len(k) : u[i].fn = k[i].fn /\ u[i].blk = k[i].blk
    BY <1>2, <1>3, <1>4, <1>5 DEF Top
  <1>. QED BY <1>4, <1>6 DEF SameShape, u

(* A frame that returns drops its own flag; a block has none.               *)
LEMMA PopPending ==
    ASSUME TypeInv, k # <<>>, Pending(k, exits) PROVE Pending(Below, exits \ {Top.fn})
  <1>1. k \in Seq(Frame)
    BY DEF TypeInv, TypeOK
  <1>2. /\ Len(Below) = Len(k) - 1 /\ Len(k) \in Nat /\ Len(k) # 0
        /\ \A i \in 1..(Len(k) - 1) : Below[i] = k[i]
    BY <1>1, FrontType, LenProperties, EmptySeq DEF Below
  <1>3. CASE exits \ {Top.fn} = {}
    BY <1>3 DEF Pending
  <1>4. CASE exits \ {Top.fn} # {}
    <2>1. PICK t \in 1..Len(k) : exits = {k[t].fn} /\ Blocks(k, t + 1, Len(k))
      BY <1>4 DEF Pending
    <2>2. t # Len(k) /\ exits \ {Top.fn} = exits
      BY <1>4, <2>1 DEF Top
    <2>3. t \in 1..(Len(k) - 1) /\ \A h \in (t + 1)..(Len(k) - 1) :
                                       h \in (t + 1)..Len(k) /\ h \in 1..(Len(k) - 1)
      BY <1>2, <2>2
    <2>4. Below[t].fn = k[t].fn /\ Blocks(Below, t + 1, Len(Below))
      BY <1>2, <2>1, <2>3 DEF Blocks
    <2>. QED BY <1>2, <2>1, <2>2, <2>3, <2>4 DEF Pending
  <1>. QED BY <1>3, <1>4

(* No flag is up when a statement is executed or a loop goes on.            *)
LEMMA PendingTop ==
    ASSUME TypeInv, k # <<>>, Pending(k, exits), exits # {}
    PROVE  Top.fn = "block" \/ exits = {Top.fn}
  <1>1. Len(k) \in Nat /\ Len(k) # 0
    BY LenProperties, EmptySeq DEF TypeInv, TypeOK
  <1>2. PICK t \in 1..Len(k) : exits = {k[t].fn} /\ Blocks(k, t + 1, Len(k))
    BY DEF Pending
  <1>3. t = Len(k) \/ Len(k) \in (t + 1)..Len(k)
    BY <1>1
  <1>. QED BY <1>2, <1>3 DEF Blocks, Top

LEMMA NoFlagUp ==
    ASSUME TypeInv, Pending(k, exits),
           StmtReady \/ \E fn \in LoopOps : AtFrame(fn) /\ ~LoopStopped
    PROVE  exits = {}
  <1>1. k # <<>> /\ exits \subseteq ExitFlags
    BY DEF StmtReady, AtFrame, TypeInv, TypeOK
  <1>2. SUFFICES ASSUME exits # {} PROVE FALSE
    OBVIOUS
  <1>3. Top.fn = "block" \/ exits = {Top.fn}
    BY <1>1, <1>2, PendingTop
  <1>4. "top" \notin ExitFlags
    BY DEF ExitFlags
  <1>. QED BY <1>1, <1>2, <1>3, <1>4 DEF StmtReady, BlockGoesOn, AtFrame, LoopOps, LoopStopped

(* A statement about to be executed: what NestsIn says of it, and what it   *)
(* leaves of the stack.                                                     *)
LEMMA ReadyNested ==
    ASSUME NEW C, Nesting(C), StmtReady
    PROVE  /\ k # <<>> /\ exits = {}
           /\ Rest \in Seq(InnerFrames) /\ Nested(Rest, C)
           /\ Top.fn = "top" => Rest = <<>> /\ C[Top.blk] = "top"
           /\ Top.fn = "block" => /\ SameShape(k, Rest) /\ Len(Rest) = Len(k)
                                  /\ C[Top.blk] = "top" \/ Encloses(k, Len(k), C[Top.blk])
  <1>1. TypeInv /\ NestsIn(prog, C) /\ Nested(k, C) /\ k # <<>> /\ exits = {}
    BY NoFlagUp DEF Nesting, StmtReady
  <1>2. /\ Top.blk \in BlockNames /\ Top.i \in 1..Len(prog[Top.blk])
        /\ Below \in Seq(InnerFrames) /\ Nested(Below, C) /\ Rest \in Seq(InnerFrames)
    BY <1>1, CurType, BelowNested, RestType DEF TypeInv
  <1>3. ASSUME Top.fn = "top" PROVE Rest = <<>> /\ C[Top.blk] = "top"
    <2>1. k \notin Seq(InnerFrames)
      <3>1. Top \notin InnerFrames
        BY <1>3 DEF InnerFrames
      <3>. QED BY <1>1, <3>1, FrontType DEF Top
    <2>2. PICK f \in TopFrames : k = <<f>>
      BY <1>1, <2>1 DEF TypeInv, StackOK
    <2>3. Rest = <<>> /\ Top = f
      BY <1>3, <2>2, SingleFront DEF Rest, Below, Top
    <2>4. Top.blk = "main"
      BY <2>3 DEF TopFrames
    <2>. QED BY <1>1, <2>3, <2>4 DEF NestsIn
  <1>4. ASSUME Top.fn = "block"
        PROVE  /\ SameShape(k, Rest) /\ Len(Rest) = Len(k) /\ Nested(Rest, C)
               /\ C[Top.blk] = "top" \/ Encloses(k, Len(k), C[Top.blk])
    <2>1. Top \in Frame /\ k \in Seq(Frame) /\ Len(k) \in 1..Len(k)
      BY <1>1, FrontType, LenProperties, EmptySeq DEF Top, TypeInv, TypeOK
    <2> DEFINE next == [Top EXCEPT !.i = Top.i + 1]
    <2>2. next.fn = Top.fn /\ next.blk = Top.blk
      BY <2>1 DEF Frame
    <2>3. Rest = Append(Below, next)
      BY <1>4 DEF Rest
    <2> HIDE DEF next
    <2>4. SameShape(k, Rest) /\ Len(Rest) = Len(k)
      BY <1>1, <1>2, <2>2, <2>3, MovedShape
    <2>5. Nested(Rest, C)
      BY <1>1, <2>1, <2>4, ShapeNested
    <2>6. Top.blk # NoBlock
      <3>1. prog[NoBlock] = <<>>
        BY <1>1, ProgramType DEF TypeInv, WellFormed
      <3>. QED BY <1>2, <3>1
    <2>. QED BY <1>1, <1>4, <2>1, <2>4, <2>5, <2>6 DEF Nested, Top
  <1>5. Nested(Rest, C)
    <2>1. Top.fn \in {"top", "block"}
      BY DEF StmtReady
    <2>. QED BY <1>3, <1>4, <2>1, NothingNested
  <1>. QED BY <1>1, <1>2, <1>3, <1>4, <1>5

(* What NestsIn says of the statement.                                      *)
LEMMA CurNests ==
    ASSUME NEW C, Nesting(C), StmtReady
    PROVE  /\ Cur.op \in {"if", "select"} =>
                \A b \in {Cur.body, Cur.alt} : b # NoBlock => C[b] = C[Top.blk]
           /\ Cur.op \in LoopOps => (Cur.body # NoBlock => C[Cur.body] = Cur.op)
           /\ Cur.op = "call" => (Cur.body # NoBlock => C[Cur.body] = "sub")
           /\ Cur.op = "let_fn" => (Cur.body # NoBlock => C[Cur.body] = "function")
           /\ Cur.op = "exit" => Cur.what \in {C[Top.blk], "def"}
  <1>1. Top.blk \in BlockNames /\ Top.i \in 1..Len(prog[Top.blk])
    BY CurType DEF Nesting, TypeInv
  <1>. QED BY <1>1 DEF Nesting, NestsIn, Cur

LEMMA NoFlagNests == ASSUME NEW s PROVE Pending(s, {})
  BY DEF Pending

LEMMA RaiseNests ==
    ASSUME NEW C, Nesting(C), exits' = {}, NEW code, Raise(code) PROVE Nests(C)
  BY NothingNested, NoFlagNests DEF Raise, Nests, Nesting

LEMMA RestNests ==
    ASSUME NEW C, Nesting(C), StmtReady, k' = Rest, exits' = exits PROVE Nests(C)
  BY ReadyNested, NoFlagNests DEF Nests

LEMMA EnterBlockNests ==
    ASSUME NEW C, Nesting(C), StmtReady, NEW b, b # NoBlock => C[b] = C[Top.blk],
           Proceed(Append(Rest, Block(b))), exits' = exits
    PROVE  Nests(C)
  <1>1. Block(b).fn = "block" /\ Block(b).blk = b /\ Block(b).fn \notin LoopOps
    BY DEF Block, NewFrame, LoopOps
  <1>2. Rest \in Seq(InnerFrames) /\ Nested(Rest, C) /\ exits = {}
    BY ReadyNested
  <1>3. CASE C[Top.blk] = "top"
    <2>1. Nested(Append(Rest, Block(b)), C)
      BY <1>1, <1>2, <1>3, PushNested
    <2>. QED BY <1>2, <2>1, NoFlagNests DEF Proceed, Nests
  <1>4. CASE C[Top.blk] # "top"
    <2>1. /\ Top.fn = "block" /\ SameShape(k, Rest) /\ Len(Rest) = Len(k)
          /\ Encloses(k, Len(k), C[Top.blk]) /\ k # <<>>
      BY <1>4, ReadyNested DEF StmtReady
    <2>2. k \in Seq(Frame) /\ Len(k) \in 1..Len(k)
      BY <2>1, LenProperties, EmptySeq DEF Nesting, TypeInv, TypeOK
    <2>3. Encloses(Rest, Len(Rest), C[Top.blk]) /\ Rest[Len(Rest)].fn = "block" /\ Rest # <<>>
      <3>1. Encloses(Rest, Len(k), C[Top.blk])
        BY <2>1, <2>2, ShapeEncloses
      <3>2. Rest[Len(k)].fn = Top.fn
        BY <2>1, <2>2 DEF SameShape, Top
      <3>. QED BY <2>1, <2>2, <3>1, <3>2
    <2>4. Encloses(Append(Rest, Block(b)), Len(Rest) + 1, C[Top.blk])
      BY <1>1, <1>2, <2>3, PushEnclosed
    <2>5. Nested(Append(Rest, Block(b)), C)
      BY <1>1, <1>2, <2>4, PushNested
    <2>. QED BY <1>2, <2>5, NoFlagNests DEF Proceed, Nests
  <1>. QED BY <1>3, <1>4

LEMMA EnterLoopNests ==
    ASSUME NEW C, Nesting(C), StmtReady, Cur.op \in LoopOps, NEW turns,
           EnterLoop(Cur.op, turns), exits' = exits
    PROVE  Nests(C)
  <1> DEFINE loop == [NewFrame(Cur.op, Cur.body, turns) EXCEPT !.cond = Cur.cond, !.var = Cur.var,
                       !.limit = Cur.limit, !.step = Cur.step]
  <1>1. Rest \in Seq(InnerFrames) /\ Nested(Rest, C) /\ exits = {}
        /\ (Cur.body # NoBlock => C[Cur.body] = Cur.op)
    BY ReadyNested, CurNests
  <1>2. loop.fn = Cur.op /\ loop.blk = Cur.body
    BY DEF NewFrame
  <1> HIDE DEF loop
  <1>3. loop.fn # "block"
    BY <1>2 DEF LoopOps
  <1>4. Nested(Append(Rest, loop), C)
    BY <1>1, <1>2, <1>3, PushNested
  <1>. QED BY <1>1, <1>4, NoFlagNests DEF EnterLoop, Proceed, Nests, loop

(* A call and the body of the procedure: the body belongs to the call.      *)
LEMMA EnterProcedureNests ==
    ASSUME NEW C, Nesting(C), StmtReady, NEW fn \in {"sub", "function"},
           Cur.body # NoBlock => C[Cur.body] = fn, EnterProcedure(fn)
    PROVE  Nests(C)
  <1> DEFINE call == [NewFrame(fn, Cur.body, 0) EXCEPT !.saved = current_scope, !.own = Fresh]
             s == Append(Rest, call)
  <1>1. Rest \in Seq(InnerFrames) /\ Nested(Rest, C) /\ exits = {}
    BY ReadyNested
  <1>2. call.fn = fn
    BY DEF NewFrame
  <1>3. Block(Cur.body).fn = "block" /\ Block(Cur.body).blk = Cur.body /\ Block(Cur.body).fn \notin LoopOps
    BY DEF Block, NewFrame, LoopOps
  <1>4. Rest \o <<call, Block(Cur.body)>> = Append(s, Block(Cur.body))
    BY <1>1
  <1>5. k' = Append(s, Block(Cur.body)) /\ exits' = exits \ {fn}
    BY <1>4 DEF EnterProcedure, Proceed
  <1> HIDE DEF call
  <1>6. call.fn \notin LoopOps /\ call.fn # "block"
    BY <1>2 DEF LoopOps
  <1>7. Nested(s, C)
    BY <1>1, <1>6, PushNested
  <1>8. s \in Seq(InnerFrames \cup {call}) /\ s # <<>> /\ s[Len(s)] = call
    <2>1. Rest \in Seq(InnerFrames \cup {call})
      BY <1>1, SeqMonotonic
    <2>. QED BY <2>1
  <1> HIDE DEF s
  <1>9. Encloses(Append(s, Block(Cur.body)), Len(s) + 1, fn)
    BY <1>2, <1>3, <1>8, PushEnclosed
  <1>10. Nested(Append(s, Block(Cur.body)), C)
    BY <1>3, <1>7, <1>8, <1>9, PushNested
  <1>. QED BY <1>1, <1>5, <1>10, NoFlagNests DEF Nests

(* EXIT raises the flag of the construct that encloses it.                  *)
LEMMA ExitNests == ASSUME NEW C, Nesting(C), ExecExit PROVE Nests(C)
  <1>1. StmtReady /\ Cur.op = "exit" /\ k' = Rest /\ exits' = exits \cup ({Cur.what} \cap ExitFlags)
    BY DEF ExecExit, At, Proceed
  <1>2. /\ Rest \in Seq(InnerFrames) /\ Nested(Rest, C) /\ exits = {} /\ k # <<>>
        /\ Cur.what \in {C[Top.blk], "def"}
    BY <1>1, ReadyNested, CurNests
  <1>3. CASE Cur.what \notin ExitFlags
    BY <1>1, <1>2, <1>3, NoFlagNests DEF Nests
  <1>4. CASE Cur.what \in ExitFlags
    <2>1. Cur.what = C[Top.blk] /\ C[Top.blk] # "top"
      BY <1>2, <1>4 DEF ExitFlags
    <2>2. /\ Top.fn = "block" /\ SameShape(k, Rest) /\ Len(Rest) = Len(k)
          /\ Encloses(k, Len(k), Cur.what)
      BY <1>1, <2>1, ReadyNested DEF StmtReady
    <2>3. k \in Seq(Frame) /\ Len(k) \in 1..Len(k)
      BY <1>2, LenProperties, EmptySeq DEF Nesting, TypeInv, TypeOK
    <2>4. Encloses(Rest, Len(Rest), Cur.what)
      BY <2>2, <2>3, ShapeEncloses
    <2>5. PICK t \in 1..(Len(Rest) - 1) : Rest[t].fn = Cur.what /\ Blocks(Rest, t + 1, Len(Rest))
      BY <2>4 DEF Encloses
    <2>6. t \in 1..Len(Rest) /\ exits' = {Rest[t].fn}
      BY <1>1, <1>2, <1>4, <2>2, <2>3, <2>5
    <2>7. Pending(Rest, exits')
      BY <2>5, <2>6 DEF Pending
    <2>. QED BY <1>1, <1>2, <2>7 DEF Nests
  <1>. QED BY <1>3, <1>4

(* A loop that goes on.                                                     *)
LEMMA TurnNests ==
    ASSUME NEW C, Nesting(C), NEW fn \in LoopOps, AtFrame(fn), ~LoopStopped, NEW i, Turn(i)
    PROVE  Nests(C)
  <1>1. k # <<>> /\ Top.fn = fn /\ Top \in InnerFrames /\ exits = {} /\ exits' = exits
    BY LoopFrameType, NoFlagUp DEF AtFrame, Nesting, LoopOps, Turn
  <1> DEFINE loop == [Top EXCEPT !.i = i]
             s == Append(Below, loop)
  <1>2. loop.fn = fn /\ loop.blk = Top.blk
    BY <1>1 DEF InnerFrames, Frame
  <1>3. k' = Append(s, Block(Top.blk))
    BY DEF Turn, Proceed
  <1>4. Below \in Seq(InnerFrames)
    BY <1>1, BelowNested DEF Nesting
  <1> HIDE DEF loop
  <1>5. SameShape(k, s)
    BY <1>1, <1>2, <1>4, MovedShape DEF Nesting
  <1>6. Nested(s, C)
    BY <1>5, ShapeNested DEF Nesting, TypeInv, TypeOK
  <1>7. s \in Seq(InnerFrames \cup {loop}) /\ s # <<>> /\ s[Len(s)] = loop
    <2>1. Below \in Seq(InnerFrames \cup {loop})
      BY <1>4, SeqMonotonic
    <2>. QED BY <2>1
  <1> HIDE DEF s
  <1>8. Block(Top.blk).fn = "block" /\ Block(Top.blk).blk = Top.blk /\ Block(Top.blk).fn \notin LoopOps
    BY DEF Block, NewFrame, LoopOps
  <1>9. Top.blk # NoBlock => C[Top.blk] = fn
    <2>1. Len(k) \in 1..Len(k)
      BY <1>1, LenProperties, EmptySeq DEF Nesting, TypeInv, TypeOK
    <2>. QED BY <1>1, <2>1 DEF Nesting, Nested, Top
  <1>10. Encloses(Append(s, Block(Top.blk)), Len(s) + 1, fn)
    BY <1>2, <1>7, <1>8, PushEnclosed
  <1>11. Nested(Append(s, Block(Top.blk)), C)
    BY <1>6, <1>7, <1>8, <1>9, <1>10, PushNested
  <1>. QED BY <1>1, <1>3, <1>11, NoFlagNests DEF Nests

(* A frame that returns.                                                    *)
LEMMA PopNests ==
    ASSUME NEW C, Nesting(C), k # <<>>, k' = Below, exits' = exits \ {Top.fn} PROVE Nests(C)
  BY BelowNested, PopPending DEF Nesting, Nests

--------------------------------------------------------------------------------
(* Every action keeps the blocks in their constructs.                       *)

LEMMA StatementsNest ==
    ASSUME NEW C, Nesting(C),
           \/ ExecLet \/ ExecErrorStmt \/ ExecEnd \/ ExecOnError \/ ExecOnErrorOff \/ ExecClear
           \/ ExecGoto \/ ExecGosub \/ ExecReturn \/ ExecOnGoto \/ ExecOnGosub \/ ExecResume
    PROVE  Nests(C)
  <1>1. StmtReady /\ exits' = exits
    BY DEF ExecLet, ExecErrorStmt, ExecEnd, ExecOnError, ExecOnErrorOff, ExecClear, At,
           ExecGoto, ExecGosub, ExecReturn, ExecOnGoto, ExecOnGosub, ExecResume
  <1>2. exits' = {}
    BY <1>1, ReadyNested
  <1>3. (\E code : Raise(code)) \/ k' = Rest
    BY DEF ExecLet, ExecErrorStmt, ExecEnd, ExecOnError, ExecOnErrorOff, ExecClear, Proceed, JumpTo,
           ExecGoto, ExecGosub, ExecReturn, ExecOnGoto, ExecOnGosub, ExecResume, ResumeAt
  <1>. QED BY <1>1, <1>2, <1>3, RaiseNests, RestNests

LEMMA ChoicesNest == ASSUME NEW C, Nesting(C), ExecIf \/ ExecSelectCase PROVE Nests(C)
  <1>1. StmtReady /\ Cur.op \in {"if", "select"} /\ exits' = exits
    BY DEF ExecIf, ExecSelectCase, At
  <1>2. exits' = {} /\ \A b \in {Cur.body, Cur.alt} : b # NoBlock => C[b] = C[Top.blk]
    BY <1>1, ReadyNested, CurNests
  <1>3. \/ \E code : Raise(code)
        \/ \E b \in {Cur.body, Cur.alt} : Proceed(Append(Rest, Block(b)))
    BY DEF ExecIf, ExecSelectCase
  <1>. QED BY <1>1, <1>2, <1>3, RaiseNests, EnterBlockNests

LEMMA LoopsNest == ASSUME NEW C, Nesting(C), ExecFor \/ ExecWhile \/ ExecDoLoop PROVE Nests(C)
  <1>1. StmtReady /\ Cur.op \in LoopOps /\ exits' = exits
    BY DEF ExecFor, ExecWhile, ExecDoLoop, At, LoopOps
  <1>2. exits' = {}
    BY <1>1, ReadyNested
  <1>3. (\E code : Raise(code)) \/ (\E turns : EnterLoop(Cur.op, turns))
    BY DEF ExecFor, ExecWhile, ExecDoLoop, At
  <1>. QED BY <1>1, <1>2, <1>3, RaiseNests, EnterLoopNests

LEMMA CallsNest == ASSUME NEW C, Nesting(C), ExecCall \/ EvalFunction PROVE Nests(C)
  <1>1. StmtReady
    BY DEF ExecCall, EvalFunction, At
  <1>2. exits = {}
    BY <1>1, ReadyNested
  <1>3. \/ exits' = exits /\ \E code : Raise(code)
        \/ Cur.op = "call" /\ EnterProcedure("sub")
        \/ Cur.op = "let_fn" /\ EnterProcedure("function")
    BY DEF ExecCall, EvalFunction, At, RaiseArgument
  <1>. QED BY <1>1, <1>2, <1>3, RaiseNests, CurNests, EnterProcedureNests

(* With a flag up for it, or the program stopped, a loop returns; otherwise *)
(* no flag is up.                                                           *)
LEMMA UnwindNests == ASSUME NEW C, Nesting(C), Unwind PROVE Nests(C)
  <1>1. k # <<>>
    BY DEF Unwind, ForStep, WhileStep, DoLoopStep, BlockEnd, ProcedureReturn, AtFrame
  <1>2. exits \ {"block"} = exits
    BY DEF Nesting, TypeInv, TypeOK, ExitFlags
  <1>3. CASE BlockEnd \/ ProcedureReturn
    <2>1. k' = Below /\ exits' = exits \ {Top.fn}
      BY <1>2, <1>3 DEF BlockEnd, ProcedureReturn, AtFrame, Proceed
    <2>. QED BY <1>1, <2>1, PopNests
  <1>4. CASE ForStep \/ WhileStep \/ DoLoopStep
    <2>1. PICK fn \in LoopOps : AtFrame(fn)
      BY <1>4 DEF ForStep, WhileStep, DoLoopStep, LoopOps
    <2>2. CASE LeaveLoop
      BY <1>1, <2>2, PopNests DEF LeaveLoop, Proceed
    <2>3. CASE ~LoopStopped /\ exits' = exits /\ \E code : Raise(code)
      BY <2>1, <2>3, NoFlagUp, RaiseNests DEF Nesting
    <2>4. CASE ~LoopStopped /\ \E i : Turn(i)
      BY <2>1, <2>4, TurnNests
    <2>. QED BY <1>4, <2>2, <2>3, <2>4 DEF ForStep, WhileStep, DoLoopStep, TestAndTurn
  <1>. QED BY <1>3, <1>4 DEF Unwind

LEMMA InterpRunNests == ASSUME NEW C, Nesting(C), InterpRun PROVE Nests(C)
  <1>1. k = <<>> /\ exits' = exits
    BY DEF InterpRun, Fetch, StartStatement, FetchWild, Advance, Finish, LoopHead
  <1>2. exits = {}
    BY <1>1 DEF Nesting, Pending
  <1>3. CASE Fetch
    <2>1. k' = <<NewFrame("top", "main", pc + 1)>>
      BY <1>3 DEF Fetch, StartStatement
    <2>2. Len(k') = 1 /\ k'[1].fn = "top"
      BY <2>1 DEF NewFrame
    <2>3. Nested(k', C)
      BY <2>2 DEF Nested, LoopOps
    <2>. QED BY <1>1, <1>2, <2>3, NoFlagNests DEF Nests
  <1>4. CASE FetchWild \/ Advance \/ Finish
    BY <1>1, <1>2, <1>4, NothingNested, NoFlagNests DEF FetchWild, Advance, Finish, Nests
  <1>. QED BY <1>3, <1>4 DEF InterpRun

LEMMA StepNests == ASSUME NEW C PROVE TypeInv /\ NestInv(C) /\ [Next]_vars => NestInv(C)'
  <1>. SUFFICES ASSUME TypeInv, NestInv(C), [Next]_vars, NestsIn(prog, C)' PROVE Nests(C)
    BY DEF NestInv, Nests, Nested, Pending, Encloses, Blocks
  <1>1. Nesting(C)
    BY ProgStays DEF NestInv, Nesting, NestsIn
  <1>2. ASSUME ExecStatement PROVE Nests(C)
    BY <1>1, <1>2, StatementsNest, ChoicesNest, LoopsNest, CallsNest, ExitNests DEF ExecStatement
  <1>3. ASSUME Stopped \/ UNCHANGED vars PROVE Nests(C)
    <2>1. k' = k /\ exits' = exits
      BY <1>3 DEF Stopped, vars
    <2>. QED BY <1>1, <2>1 DEF Nesting, Nests
  <1>. QED BY <1>1, <1>2, <1>3, UnwindNests, InterpRunNests DEF Next

LEMMA InitNests == ASSUME NEW C PROVE Init => NestInv(C)
  BY NothingNested DEF Init, NestInv, Pending

AllNested == \A C \in [BlockNames -> ExitFlags \cup {"top"}] : NestInv(C)

LEMMA SpecNests == Spec => [](TypeInv /\ AllNested)
  <1>1. Init => AllNested
    BY InitNests DEF AllNested
  <1>2. TypeInv /\ AllNested /\ [Next]_vars => AllNested'
    BY StepNests DEF AllNested
  <1>. QED BY InitType, StepType, <1>1, <1>2, PTL DEF Spec

(* In every program whose EXITs name the innermost loop or procedure around *)
(* them, whatever the blocks, loops and calls below that one: from the EXIT *)
(* until its construct has returned each step takes a frame off the C       *)
(* stack, and no flag outlives the statement.                               *)
THEOREM ExitsAlwaysUnwind == Spec => PendingExitUnwinds
  <1>1. ASSUME TypeInv, AllNested, [Next]_vars
        PROVE  [exits # {} /\ ExitsNest(prog) => Len(k') < Len(k)]_vars
    <2>. SUFFICES ASSUME exits # {}, ExitsNest(prog), ~UNCHANGED vars PROVE Len(k') < Len(k)
      OBVIOUS
    <2>1. PICK C \in [BlockNames -> ExitFlags \cup {"top"}] : NestsIn(prog, C)
      BY DEF ExitsNest
    <2>2. Pending(k, exits)
      BY <1>1, <2>1 DEF AllNested, NestInv
    <2>3. k # <<>>
      BY <2>2 DEF Pending
    <2>4. ~StmtReady /\ \A fn \in LoopOps : AtFrame(fn) => LoopStopped
      BY <1>1, <2>2, NoFlagUp
    <2>5. ~ExecStatement
      BY <2>4 DEF ExecStatement, ExecLet, ExecIf, ExecSelectCase, ExecFor, ExecWhile, ExecDoLoop,
           ExecExit, ExecGoto, ExecGosub, ExecReturn, ExecOnGoto, ExecOnGosub, ExecEnd, ExecCall,
           EvalFunction, ExecOnError, ExecOnErrorOff, ExecResume, ExecErrorStmt, ExecClear, At
    <2>6. ~InterpRun
      BY <2>3 DEF InterpRun, Fetch, StartStatement, FetchWild, Advance, Finish, LoopHead
    <2>7. Unwind
      BY <1>1, <2>5, <2>6 DEF Next, Stopped
    <2>8. k' = Below
      BY <2>4, <2>7 DEF Unwind, ForStep, WhileStep, DoLoopStep, BlockEnd, ProcedureReturn, LeaveLoop,
           Proceed, LoopOps
    <2>9. Len(Below) = Len(k) - 1 /\ Len(k) \in Nat
      BY <1>1, <2>3, FrontType, LenProperties DEF Below, TypeInv, TypeOK
    <2>. QED BY <2>8, <2>9
  <1>. QED BY SpecNests, <1>1, PTL DEF Spec, PendingExitUnwinds

================================================================================
