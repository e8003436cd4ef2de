-------------------------------- MODULE ArrayStore --------------------------------
(***************************************************************************)
(* What arrays promise: an array has bounds and one element for each tuple *)
(* of subscripts within them.  The module has arrays and so has each call; *)
(* a name means the array of the running call or else the module's.  The   *)
(* parameter of a call is another name of an element, or a value.          *)
(***************************************************************************)
EXTENDS Integers, Sequences

CONSTANTS Names, AllBounds, Subscripts, Values, Initial, Top

VARIABLES
    arrays,    \* those of the module and of each call in progress, by name
    params     \* the parameter of each call

vars == <<arrays, params>>

Value(v) == [k |-> "value", v |-> v]

Tuples(b)   == {s \in Subscripts : /\ Len(s) = Len(b)
                                   /\ \A d \in DOMAIN b : b[d][1] <= s[d] /\ s[d] <= b[d][2]}
Empty(b)    == \E d \in DOMAIN b : b[d][1] > b[d][2]
Array(b, dynamic) == [bounds |-> b, dynamic |-> dynamic, at |-> [s \in Tuples(b) |-> Initial]]
Gone        == [bounds |-> <<>>, dynamic |-> TRUE, at |-> <<>>]   \* erased
ByItself(n) == [d \in 1..n |-> <<0, Top>>]

With(f, x, y) == [z \in DOMAIN f \cup {x} |-> IF z = x THEN y ELSE f[z]]

Calls   == Len(params)
Home(n) == IF n \in DOMAIN arrays[Len(arrays)] THEN Len(arrays) ELSE 1
Known(n) == n \in DOMAIN arrays[Home(n)]
Its(n)   == arrays[Home(n)][n]
Set(n, a) == arrays' = [arrays EXCEPT ![Home(n)] = With(@, n, a)]

(* The arrays once an element of n is used at s.                            *)
Used(n, s) == IF Known(n) THEN arrays
              ELSE [arrays EXCEPT ![Len(arrays)] = With(@, n, Array(ByItself(Len(s)), FALSE))]
UsedHome(n) == IF Known(n) THEN Home(n) ELSE Len(arrays)
Has(n, s) == s \in DOMAIN Used(n, s)[UsedHome(n)][n].at
At(n, s)  == Used(n, s)[UsedHome(n)][n].at[s]

Init ==
    /\ arrays = <<[n \in {} |-> Gone]>>
    /\ params = <<>>

Dim(n, b) ==
    /\ Calls = 0 /\ ~Known(n) /\ ~Empty(b)
    /\ Set(n, Array(b, FALSE))
    /\ UNCHANGED params

(* A dynamic array may be given bounds without elements.                    *)
Redim(n, b) ==
    /\ Calls = 0
    /\ IF Known(n) THEN Its(n).dynamic ELSE ~Empty(b)
    /\ Set(n, Array(b, TRUE))
    /\ UNCHANGED params

Erase(n) ==
    /\ Known(n)
    /\ Set(n, IF Its(n).dynamic THEN Gone ELSE Array(Its(n).bounds, FALSE))
    /\ UNCHANGED params

Let(n, s, v) ==
    /\ Has(n, s)
    /\ arrays' = [Used(n, s) EXCEPT ![UsedHome(n)][n].at[s] = v]
    /\ UNCHANGED params

(* An element read, or used out of bounds: the array may be a new one.      *)
Use(n, s) ==
    /\ arrays' = Used(n, s)
    /\ UNCHANGED params

Swap(n, s, m, t) ==
    /\ Known(n) /\ Known(m)
    /\ s \in DOMAIN Its(n).at /\ t \in DOMAIN Its(m).at
    /\ arrays' = [arrays EXCEPT ![Home(n)][n].at[s] = Its(m).at[t],
                                ![Home(m)][m].at[t] = Its(n).at[s]]
    /\ UNCHANGED params

(* A swap that first makes one or both arrays exchanges nothing: their      *)
(* elements are all Initial, or it only puts Initial at the known one.      *)
SwapNew(n, s, m, t) ==
    LET one  == Used(n, s)
        both == [one EXCEPT ![Len(one)] =
                    IF Known(m) \/ m \in DOMAIN @ THEN @
                    ELSE With(@, m, Array(ByItself(Len(t)), FALSE))]
        hn   == UsedHome(n)
        hm   == UsedHome(m)
        found == s \in DOMAIN both[hn][n].at /\ t \in DOMAIN both[hm][m].at
    IN  /\ ~Known(n) \/ ~Known(m)
        /\ arrays' = IF ~found THEN both
                     ELSE [both EXCEPT ![hn][n].at[s] = both[hm][m].at[t],
                                       ![hm][m].at[t] = both[hn][n].at[s]]
        /\ UNCHANGED params

Element(home, n, s) == [k |-> "element", home |-> home, name |-> n, subs |-> s]

(* A SUB called with an element, or with its value in parentheses.          *)
Call(n, s, byval) ==
    /\ Has(n, s)
    /\ arrays' = Append(Used(n, s), [x \in {} |-> Gone])
    /\ params' = Append(params, IF byval THEN Value(At(n, s)) ELSE Element(UsedHome(n), n, s))

Param == params[Calls]

LetParam(v) ==
    /\ Calls > 0
    /\ IF Param.k = "element"
       THEN /\ arrays' = [arrays EXCEPT ![Param.home][Param.name].at[Param.subs] = v]
            /\ UNCHANGED params
       ELSE params' = [params EXCEPT ![Calls] = Value(v)] /\ UNCHANGED arrays

Return ==
    /\ Calls > 0
    /\ arrays' = SubSeq(arrays, 1, Calls)
    /\ params' = SubSeq(params, 1, Calls - 1)

Next ==
    \/ \E v \in Values : LetParam(v)
    \/ Return
    \/ \E n \in Names : Erase(n)
    \/ \E n \in Names, b \in AllBounds : Dim(n, b) \/ Redim(n, b)
    \/ \E n \in Names, s \in Subscripts :
            \/ Use(n, s)
            \/ \E byval \in BOOLEAN : Call(n, s, byval)
            \/ \E v \in Values : Let(n, s, v)
    \/ \E n, m \in Names, s, t \in Subscripts : Swap(n, s, m, t) \/ SwapNew(n, s, m, t)

Spec == Init /\ [][Next]_vars
================================================================================
