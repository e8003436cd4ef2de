------------------------------ MODULE ByReference ------------------------------
(***************************************************************************)
(* What a BASIC program may rely on about its variables: the module level  *)
(* and every active procedure have names of their own, a name stands for   *)
(* one location, and a parameter passed by reference, or a name SHARED     *)
(* with the module level, is another name of the caller's location.        *)
(* Reading a name gives what was last stored in its location, whatever     *)
(* name it was stored through.                                             *)
(***************************************************************************)
EXTENDS Integers, Sequences

CONSTANTS
    Names,        \* the names of variables and parameters
    Values,       \* what a variable may hold; 0 is among them
    Procedures,   \* [params, byval, result] of every SUB and FUNCTION
    Depth         \* bound: the module level and the active procedures

NoName    == "none"          \* the result variable of a SUB
Unbound   == <<0, NoName>>
Locations == (1..Depth) \X Names

VARIABLES
    env,      \* for each active procedure, what its names stand for
    store,    \* what each location holds
    consts,   \* the locations of CONSTs
    result,   \* for each active procedure, its result variable
    out       \* what the last PRINT showed

avars == <<env, store, consts, result, out>>

Init ==
    /\ env = << [n \in Names |-> Unbound] >>
    /\ store = [l \in Locations |-> 0]
    /\ consts = {}
    /\ result = <<NoName>>
    /\ out = 0

Level == Len(env)

(* The location of n: the procedure's own, else the module level's, else a  *)
(* new one of the procedure's.                                              *)
Visible(n) == \E d \in {1, Level} : env[d][n] # Unbound
Where(n)   == IF env[Level][n] # Unbound THEN env[Level][n]
              ELSE IF Visible(n) THEN env[1][n] ELSE <<Level, n>>

(* The environment once the names in used have been used.                   *)
Using(used) ==
    [d \in 1..Level |-> [n \in Names |->
        IF d = Level /\ n \in used /\ ~Visible(n) THEN <<d, n>> ELSE env[d][n]]]

Let(n, v) ==
    /\ Where(n) \notin consts
    /\ store' = [store EXCEPT ![Where(n)] = v]
    /\ env' = Using({n}) /\ UNCHANGED <<consts, result, out>>

Show(n) ==
    /\ out' = store[Where(n)]
    /\ env' = Using({n}) /\ UNCHANGED <<store, consts, result>>

Swap(n, m) ==
    /\ {Where(n), Where(m)} \cap consts = {}
    /\ store' = [store EXCEPT ![Where(n)] = store[Where(m)], ![Where(m)] = store[Where(n)]]
    /\ env' = Using({n, m}) /\ UNCHANGED <<consts, result, out>>

Declare(d, n) ==
    /\ env[d][n] = Unbound
    /\ env' = [env EXCEPT ![d][n] = <<d, n>>]
    /\ UNCHANGED <<store, consts, result, out>>

Const(n, v) ==
    /\ env[Level][n] = Unbound
    /\ env' = [env EXCEPT ![Level][n] = <<Level, n>>]
    /\ store' = [store EXCEPT ![<<Level, n>>] = v]
    /\ consts' = consts \cup {<<Level, n>>}
    /\ UNCHANGED <<result, out>>

Share(n) ==
    /\ Level > 1 /\ env[Level][n] = Unbound
    /\ env' = [env EXCEPT ![1][n] = <<1, n>>, ![Level][n] = <<1, n>>]
    /\ UNCHANGED <<store, consts, result, out>>

(* Procedure p starts with arguments args: parameter p.params[i] is the     *)
(* argument's location, or, when p or the call says by value, a location of *)
(* its own that starts with the argument's value.  A constant is passed by  *)
(* value.  The result variable is the procedure's own.                      *)
Enter(p, args, paren) ==
    LET new == Level + 1
        Param(n) == {i \in 1..Len(p.params) : p.params[i] = n}
        ByRef(i) == ~p.byval[i] /\ ~paren[i] /\ Where(args[i]) \notin consts
    IN
    /\ new <= Depth
    /\ env' = Append(Using({args[i] : i \in DOMAIN args}),
                     [n \in Names |->
                        IF \E i \in Param(n) : ByRef(i)
                        THEN Where(args[CHOOSE i \in Param(n) : TRUE])
                        ELSE IF Param(n) # {} \/ n = p.result THEN <<new, n>> ELSE Unbound])
    /\ store' = [l \in Locations |->
                    IF l[1] = new /\ \E i \in Param(l[2]) : ~ByRef(i)
                    THEN store[Where(args[CHOOSE i \in Param(l[2]) : TRUE])]
                    ELSE store[l]]
    /\ result' = Append(result, p.result)
    /\ UNCHANGED <<consts, out>>

(* A procedure ends; a FUNCTION shows the value of its result variable.     *)
Leave ==
    /\ Level > 1
    /\ out' = IF result[Level] = NoName THEN out ELSE store[env[Level][result[Level]]]
    /\ env' = SubSeq(env, 1, Level - 1)
    /\ result' = SubSeq(result, 1, Level - 1)
    /\ store' = [l \in Locations |-> IF l[1] = Level THEN 0 ELSE store[l]]
    /\ consts' = {l \in consts : l[1] # Level}

(* DEF FN with parameter n, applied to v, whose expression is the variable m. *)
Apply(n, v, m) ==
    /\ out' = IF m = n THEN v ELSE store[Where(m)]
    /\ env' = Using({n, m}) /\ UNCHANGED <<store, consts, result>>

Next ==
    \/ \E n \in Names : Show(n) \/ Share(n) \/ Declare(Level, n) \/ Declare(1, n)
    \/ \E n \in Names, v \in Values : Let(n, v) \/ Const(n, v)
    \/ \E n, m \in Names : Swap(n, m)
    \/ \E n, m \in Names, v \in Values : Apply(n, v, m)
    \/ \E p \in Procedures :
          \E args \in [1..Len(p.params) -> Names], paren \in [1..Len(p.params) -> BOOLEAN] :
             Enter(p, args, paren)
    \/ Leave

Spec == Init /\ [][Next]_avars

================================================================================
