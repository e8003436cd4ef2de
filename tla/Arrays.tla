---------------------------------- MODULE Arrays ----------------------------------
(***************************************************************************)
(* Arrays: array.c and the statements that make, use and free them.  An    *)
(* FBArray has bounds and a block of cells, found by flattening subscripts. *)
(* Symbols point at FBArrays: SHARED copies the pointer, a parameter points *)
(* into the block, ERASE frees both.                                        *)
(*                                                                         *)
(* One action is one statement of the module or of a SUB in progress.  DIM *)
(* and REDIM run at the module level only: parse_dim moves them out of the *)
(* bodies.  An error at the module level is trapped with RESUME NEXT; in a *)
(* call it ends the program (ControlFlow has what a trap does there).       *)
(***************************************************************************)
EXTENDS SequencesExt

CONSTANTS
    Names,       \* of arrays
    Addresses,   \* of FBArrays; bounds their number
    AllBounds,   \* the bounds programs give: sequences of <<lower, upper>>
    Subscripts,  \* the tuples of subscripts they use
    Values,      \* of elements
    Initial,     \* 0 or the empty string
    Top,         \* the upper bound of an array that dimensions itself, 10
    MaxCalls,    \* bound: calls in progress
    MaxSet,      \* bound: elements that differ from Initial
    WellUsed     \* programs keep to UsesWell

NULL == "null"

(* Sizes and their products fit an int, bounds an INTEGER.                  *)
ASSUME BoundsOK ==
    /\ AllBounds \subseteq Seq(Int \X Int) \ {<<>>} /\ Subscripts \subseteq Seq(Int) \ {<<>>}
    /\ Top \in Nat
    /\ Initial \in Values
    /\ WellUsed \in BOOLEAN
    /\ NULL \notin Addresses

VARIABLES
    heap,      \* the FBArrays that are allocated
    scopes,    \* the symbols of the module and of each call in progress
    params,    \* the parameter of each call: what it points to, and its copy
    running    \* FALSE after an error in a call, or a crash

vars == <<heap, scopes, params, running>>

SubscriptOutOfRange == 9
DuplicateDefinition == 10
TypeMismatch        == 13

(* A Symbol of kind SYM_ARRAY, or the scalar that SHARED makes.             *)
ArraySymbol(a) == [kind |-> "array", array |-> a, ref |-> FALSE]
Scalar         == [kind |-> "variable", array |-> NULL, ref |-> FALSE]
NoSymbols      == [n \in {} |-> Scalar]

--------------------------------------------------------------------------------
(* array.c                                                                  *)

Size(b, d)  == b[d][2] - b[d][1] + 1
ByItself(n) == [d \in 1..n |-> <<0, Top>>]     \* of an array used before DIM
Invalid(b)  == \E d \in DOMAIN b : Size(b, d) <= 0
Total(b)    == LET t[d \in 0..Len(b)] == IF d = 0 THEN 1 ELSE t[d - 1] * Size(b, d)
               IN  t[Len(b)]
Zeros(n)    == [i \in 1..n |-> Initial]
FBArray(b, dynamic) == [dims |-> b, dynamic |-> dynamic, data |-> Zeros(Total(b))]

Outside(b, s) == Len(s) # Len(b) \/ \E d \in DOMAIN b : s[d] < b[d][1] \/ s[d] > b[d][2]

(* fbarray_index: the last subscript varies fastest; -1 outside the bounds. *)
Flat(b, s) ==
    LET r[k \in 0..Len(b)] ==     \* of the last k dimensions
            IF k = 0 THEN [flat |-> 0, times |-> 1]
            ELSE LET d == Len(b) + 1 - k
                 IN  [flat  |-> r[k - 1].flat + (s[d] - b[d][1]) * r[k - 1].times,
                      times |-> r[k - 1].times * Size(b, d)]
    IN  r[Len(b)].flat
Index(b, s) == IF Outside(b, s) THEN -1 ELSE Flat(b, s)

(* The same as a table of what programs use.                                *)
Bounds   == AllBounds \cup {ByItself(Len(s)) : s \in Subscripts}
Position == [b \in Bounds |-> [s \in Subscripts |-> Index(b, s)]]

(* fbarray_redim: the block is replaced; bounds without elements leave none. *)
Redimmed(a, b) == [a EXCEPT !.dims = b, !.data = IF Invalid(b) THEN <<>> ELSE Zeros(Total(b))]

--------------------------------------------------------------------------------
(* Scopes.                                                                  *)

With(f, x, y) == [z \in DOMAIN f \cup {x} |-> IF z = x THEN y ELSE f[z]]
Without(f, X) == [z \in DOMAIN f \ X |-> f[z]]

Level == Len(scopes)
Calls == Len(params)

(* The heap and the scopes; scope_lookup in them: the call's scope, whose   *)
(* parent is the module's.                                                  *)
State == [heap |-> heap, scopes |-> scopes]

HomeMutant(st, n) == Level      \* the scope of a call has no parent
Home(st, n)     == IF n \in DOMAIN st.scopes[Level] THEN Level ELSE 1
Found(st, n)    == n \in DOMAIN st.scopes[Home(st, n)]
Symbol(st, n)   == st.scopes[Home(st, n)][n]
HasArray(st, n) == Found(st, n) /\ Symbol(st, n).array # NULL
ArrayOf(n)      == Symbol(State, n).array

PointedAt(st) ==
    {a \in Addresses : \/ \E i \in 1..Level : \E n \in DOMAIN st.scopes[i] : st.scopes[i][n].array = a
                       \/ \E i \in 1..Calls : params[i].to.array = a}
Free(st)  == Addresses \ (DOMAIN st.heap \cup PointedAt(st))
Room(st, n) == HasArray(st, n) \/ Free(st) # {}

(* scope_insert of a new FBArray in the current scope.                      *)
Insert(st, n, b, dynamic) ==
    LET a == CHOOSE a \in Free(st) : TRUE
    IN  [heap   |-> With(st.heap, a, FBArray(b, dynamic)),
         scopes |-> [st.scopes EXCEPT ![Level] = With(@, n, ArraySymbol(a))]]

(* A pointer to an element.                                                 *)
Pointer(a, i) == [array |-> a, index |-> i]
Nowhere       == Pointer(NULL, -1)
Deref(h, q)   == h[q.array].data[q.index + 1]
Stored(h, q, v) == [h EXCEPT ![q.array].data[q.index + 1] = v]

Element(st, n, s) ==
    LET a == Symbol(st, n).array
        i == Position[st.heap[a].dims][s]
    IN  IF a = NULL \/ i = -1 THEN Nowhere ELSE Pointer(a, i)

(* resolve_lvalue: an unknown name becomes an array of the current scope.   *)
Used(st, n, s) == IF Found(st, n) THEN st ELSE Insert(st, n, ByItself(Len(s)), FALSE)
Lvalue(n, s)   == Element(Used(State, n, s), n, s)

(* eval_expr: a symbol without an array is as unknown; but if it is one of  *)
(* the current scope, the new array cannot be entered.                      *)
Read(n, s)   == IF HasArray(State, n) THEN State ELSE Insert(State, n, ByItself(Len(s)), FALSE)
Rvalue(n, s) == Element(Read(n, s), n, s)
Lost(n)      == Found(State, n) /\ ~HasArray(State, n) /\ Home(State, n) = Level

Goes(st) == heap' = st.heap /\ scopes' = st.scopes

(* A statement that is done, an error, and the death of the process.        *)
Done        == UNCHANGED running
Fails(code) == running' = (Calls = 0)
Crashes     == running' = FALSE

Touched(n) == \E i \in 1..Calls : params[i].to.array # NULL /\ params[i].to.array = ArrayOf(n)
Aliased(n) == \E i \in 2..Level : \E m \in DOMAIN scopes[i] :
                  scopes[i][m].ref /\ scopes[i][m].array = ArrayOf(n)

(* An element that is a parameter is used through the parameter only, an    *)
(* array in use by a call is not erased, an erased array is not used again, *)
(* and SHARED names an array of the module once.                            *)
UsesWell(n, q) == WellUsed =>
    /\ Found(State, n) => HasArray(State, n)
    /\ \A i \in 1..Calls : q # Nowhere => params[i].to # q

ErasesWell(n) == WellUsed /\ HasArray(State, n) => ~Touched(n) /\ (heap[ArrayOf(n)].dynamic => ~Aliased(n))

SharesWell(n) == WellUsed => /\ n \in DOMAIN scopes[1] /\ n \notin DOMAIN scopes[Level]
                             /\ scopes[1][n].array # NULL

--------------------------------------------------------------------------------
(* Statements.                                                              *)

Init ==
    /\ heap = [a \in {} |-> FBArray(<<>>, FALSE)]
    /\ scopes = <<NoSymbols>>
    /\ params = <<>>
    /\ running = TRUE

(* exec_dim: nothing happens if the scope has the name.                     *)
Refused(n, b) == n \notin DOMAIN scopes[Level] /\ Invalid(b)
Declared(n, b, dynamic) ==
    IF n \in DOMAIN scopes[Level] \/ Invalid(b) THEN State ELSE Insert(State, n, b, dynamic)

ExecDim(n, b) ==
    /\ Calls = 0
    /\ Goes(Declared(n, b, FALSE))
    /\ IF Refused(n, b) THEN Fails(SubscriptOutOfRange) ELSE Done
    /\ UNCHANGED params

(* exec_redim: the first time it is a DIM; a static array is left as it is. *)
Static(n) == HasArray(State, n) /\ ~heap[ArrayOf(n)].dynamic
Redeclared(n, b) ==
    IF ~HasArray(State, n) THEN Declared(n, b, TRUE)
    ELSE IF Static(n) THEN State
    ELSE [heap |-> [heap EXCEPT ![ArrayOf(n)] = Redimmed(@, b)], scopes |-> scopes]

ExecRedim(n, b) ==
    /\ Calls = 0
    /\ UsesWell(n, Nowhere)
    /\ Goes(Redeclared(n, b))
    /\ IF Static(n) THEN Fails(DuplicateDefinition)
       ELSE IF ~HasArray(State, n) /\ Refused(n, b) THEN Fails(SubscriptOutOfRange)
       ELSE Done
    /\ UNCHANGED params

ErasedMutant(n) ==        \* the symbol keeps its pointer
    LET a == ArrayOf(n)
    IN  [heap   |-> IF heap[a].dynamic THEN Without(heap, {a}) ELSE heap,
         scopes |-> scopes]

(* exec_erase of an array: a dynamic one is freed, by the name at hand.     *)
Erased(n) ==
    LET a == ArrayOf(n)
    IN  IF heap[a].dynamic
        THEN [heap   |-> Without(heap, {a}),
              scopes |-> [scopes EXCEPT ![Home(State, n)][n].array = NULL]]
        ELSE [heap   |-> [heap EXCEPT ![a].data = Zeros(Len(@))], scopes |-> scopes]

ExecErase(n) ==
    /\ ErasesWell(n)
    /\ Goes(IF HasArray(State, n) THEN Erased(n) ELSE State)
    /\ Done
    /\ UNCHANGED params

SetElements ==
    Cardinality(UNION {{<<a, i>> : i \in {j \in DOMAIN heap[a].data : heap[a].data[j] # Initial}} :
                           a \in DOMAIN heap})

(* exec_assign_value.                                                       *)
ExecLet(n, s, v) ==
    LET q == Lvalue(n, s)
    IN  /\ Room(State, n)
        /\ UsesWell(n, q)
        /\ v = Initial \/ SetElements < MaxSet
        /\ IF q = Nowhere THEN Goes(Used(State, n, s)) /\ Fails(SubscriptOutOfRange)
           ELSE /\ heap' = Stored(Used(State, n, s).heap, q, v) /\ scopes' = Used(State, n, s).scopes
                /\ Done
        /\ UNCHANGED params

(* eval_expr of an element.                                                 *)
ExecPrint(n, s) ==
    LET q == Rvalue(n, s)
    IN  /\ Room(State, n)
        /\ UsesWell(n, Nowhere)
        /\ IF Lost(n) THEN Crashes /\ UNCHANGED <<heap, scopes>>
           ELSE /\ Goes(Read(n, s))
                /\ IF q = Nowhere THEN Fails(SubscriptOutOfRange) ELSE Done
        /\ UNCHANGED params

(* exec_swap of two elements: both are resolved, then exchanged.            *)
ExecSwap(n, s, m, t) ==
    LET one  == Used(State, n, s)
        both == Used(one, m, t)
        q    == Element(one, n, s)
        r    == Element(both, m, t)
    IN  /\ Room(State, n) /\ Room(one, m)
        /\ UsesWell(n, q) /\ UsesWell(m, r)
        /\ IF Nowhere \in {q, r} THEN Goes(both) /\ Fails(TypeMismatch)
           ELSE /\ heap' = Stored(Stored(both.heap, q, Deref(both.heap, r)), r, Deref(both.heap, q))
                /\ scopes' = both.scopes
                /\ Done
        /\ UNCHANGED params

Param(q, v) == [to |-> q, copy |-> v]

(* exec_call with an element: by reference, or by value in parentheses or   *)
(* if it has no address.                                                    *)
ExecCall(n, s, byval) ==
    LET q    == IF byval THEN Nowhere ELSE Lvalue(n, s)
        r    == Rvalue(n, s)
        st   == IF q = Nowhere THEN Read(n, s) ELSE Used(State, n, s)
        from == IF q = Nowhere THEN r ELSE q
    IN  /\ Calls < MaxCalls
        /\ Room(State, n)
        /\ UsesWell(n, q)
        /\ IF q = Nowhere /\ Lost(n) THEN Crashes /\ UNCHANGED <<heap, scopes, params>>
           ELSE IF from = Nowhere
                THEN Goes(st) /\ Fails(SubscriptOutOfRange) /\ UNCHANGED params
           ELSE /\ heap' = st.heap
                /\ scopes' = Append(st.scopes, NoSymbols)
                /\ params' = Append(params, Param(q, Deref(st.heap, from)))
                /\ Done

(* LET of the parameter: through the pointer, and into the symbol.          *)
ExecLetParam(v) ==
    /\ Calls > 0
    /\ v = Initial \/ SetElements < MaxSet
    /\ heap' = IF params[Calls].to = Nowhere THEN heap ELSE Stored(heap, params[Calls].to, v)
    /\ params' = [params EXCEPT ![Calls].copy = v]
    /\ Done
    /\ UNCHANGED scopes

(* exec_shared_stmt: the pointer is copied, and with it whether it is one.  *)
ExecShared(n) ==
    LET known  == IF n \in DOMAIN scopes[1] THEN scopes ELSE [scopes EXCEPT ![1] = With(@, n, Scalar)]
        symbol == [known[1][n] EXCEPT !.ref = TRUE]
    IN  /\ Calls > 0
        /\ SharesWell(n)
        /\ IF n \in DOMAIN scopes[Level] THEN Crashes /\ UNCHANGED scopes
           ELSE Done /\ scopes' = [known EXCEPT ![Level] = With(@, n, symbol)]
        /\ UNCHANGED <<heap, params>>

ProcedureReturnMutant ==      \* the caller's scope is not restored
    /\ Calls > 0
    /\ params' = Front(params)
    /\ Done
    /\ UNCHANGED <<heap, scopes>>

(* The end of a SUB: the parameter is written back, and scope_free frees    *)
(* the symbols but none of the arrays they point to: those that DIM         *)
(* themselves in a call are lost.                                           *)
ProcedureReturn ==
    LET p == params[Calls]
    IN  /\ Calls > 0
        /\ heap' = IF p.to = Nowhere THEN heap ELSE Stored(heap, p.to, p.copy)
        /\ scopes' = Front(scopes)
        /\ params' = Front(params)
        /\ Done

ExecStatement ==
    \/ \E n \in Names, b \in AllBounds : Free(State) # {} /\ (ExecDim(n, b) \/ ExecRedim(n, b))
    \/ \E n \in Names : ExecErase(n) \/ ExecShared(n)
    \/ \E n \in Names, s \in Subscripts :
            \/ ExecPrint(n, s)
            \/ \E v \in Values : ExecLet(n, s, v)
            \/ \E byval \in BOOLEAN : ExecCall(n, s, byval)
    \/ \E n, m \in Names, s, t \in Subscripts : ExecSwap(n, s, m, t)
    \/ \E v \in Values : ExecLetParam(v)
    \/ ProcedureReturn

Next == running /\ ExecStatement

Spec == Init /\ [][Next]_vars

--------------------------------------------------------------------------------
(* Properties.                                                              *)

TypeOK ==
    /\ DOMAIN heap \subseteq Addresses
    /\ \A a \in DOMAIN heap : /\ heap[a].dims \in Bounds
                              /\ heap[a].dynamic \in BOOLEAN
                              /\ heap[a].data \in Seq(Values)
    /\ Level = Calls + 1
    /\ \A i \in 1..Level : \A n \in DOMAIN scopes[i] :
           n \in Names /\ scopes[i][n].array \in Addresses \cup {NULL}
    /\ \A i \in 1..Calls : params[i].copy \in Values
    /\ running \in BOOLEAN

(* The tuples of subscripts within bounds, and what Index makes of them.   *)
Tuples(b) == {s \in [DOMAIN b -> UNION {b[d][1]..b[d][2] : d \in DOMAIN b}] :
                  \A d \in DOMAIN b : s[d] \in b[d][1]..b[d][2]}
Positions == [b \in Bounds |-> {Index(b, s) : s \in Tuples(b)}]
OneToOne  == [b \in Bounds |-> \A s, t \in Tuples(b) : Index(b, s) = Index(b, t) => s = t]

(* Each tuple of subscripts within an array's bounds has a cell of its own  *)
(* in its block, and the block has no others: also after REDIM, and of an   *)
(* array that dimensioned itself (fbarray_new, fbarray_redim, fbarray_index).*)
ElementsInBlock ==
    \A a \in DOMAIN heap : /\ Positions[heap[a].dims] = {i - 1 : i \in DOMAIN heap[a].data}
                           /\ OneToOne[heap[a].dims]

(* No symbol points to an array that was freed, no parameter into one or    *)
(* outside its block (exec_erase, exec_shared_stmt, exec_call).             *)
NothingDangles ==
    /\ \A i \in 1..Level : \A n \in DOMAIN scopes[i] :
           scopes[i][n].array \in DOMAIN heap \cup {NULL}
    /\ \A i \in 1..Calls : LET q == params[i].to IN
           q # Nowhere => q.array \in DOMAIN heap /\ q.index + 1 \in DOMAIN heap[q.array].data

(* Every pointer leads to an element: symbols to arrays that live, indices  *)
(* and parameters into their blocks, each element with a place of its own.  *)
ArraysSound == ElementsInBlock /\ NothingDangles

(* The arrays as ArrayStore has them.                                       *)
OwnArray(sym) ==
    IF sym.array = NULL THEN [bounds |-> <<>>, dynamic |-> TRUE, at |-> <<>>]
    ELSE LET a == heap[sym.array]
         IN  [bounds |-> a.dims, dynamic |-> a.dynamic,
              at |-> [s \in {s \in Subscripts : Position[a.dims][s] # -1} |->
                          a.data[Position[a.dims][s] + 1]]]
Own(i) == {n \in DOMAIN scopes[i] : ~scopes[i][n].ref}
OwnArrays(i) == [n \in Own(i) |-> OwnArray(scopes[i][n])]
Owner(a) == CHOOSE o \in (1..Level) \X Names : o[2] \in Own(o[1]) /\ scopes[o[1]][o[2]].array = a
Named(p) ==
    IF p.to = Nowhere THEN [k |-> "value", v |-> p.copy]
    ELSE [k |-> "element", home |-> Owner(p.to.array)[1], name |-> Owner(p.to.array)[2],
          subs |-> CHOOSE s \in Subscripts : Position[heap[p.to.array].dims][s] = p.to.index]

Store == INSTANCE ArrayStore WITH
             arrays <- <<OwnArrays(1)>> \o [i \in 1..Calls |-> OwnArrays(i + 1)],
             params <- [i \in 1..Calls |-> Named(params[i])]

(* Arrays behave as ArrayStore says, for programs that keep to UsesWell,    *)
(* ErasesWell and SharesWell: neither the shared pointers nor the blocks    *)
(* nor the copies of parameters show.                                       *)
ImplementsArrayStore == Store!Spec
================================================================================
