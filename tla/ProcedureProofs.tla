------------------------------ MODULE ProcedureProofs ------------------------------
(***************************************************************************)
(* Proofs about Procedures: its types and its references first, then that  *)
(* it implements ByReference.                                              *)
(***************************************************************************)
EXTENDS Procedures, WellFoundedInduction, SequenceTheorems, TLAPS

--------------------------------------------------------------------------------
(* Induction over the numbers, stated with sets: P holds of every number if *)
(* the set of those it holds of has 0 and with each number the next one.    *)

(* A set of natural numbers that is not empty has a least element.          *)
LEMMA LeastElement ==
    ASSUME NEW T, T \subseteq Nat, T # {}
    PROVE  \E n \in T : \A m \in T : n <= m
<1> DEFINE Less == {ss \in Nat \X Nat : ss[1] < ss[2]}
<1>1. IsWellFoundedOn(Less, Nat)
  BY NatLessThanWellFounded DEF OpToRel
<1> HIDE DEF Less
<1>2. PICK n \in T : \A m \in T : ~(<<m, n>> \in Less)
  BY <1>1, WFMin
<1>3. ASSUME NEW m \in T PROVE n <= m
  <2>1. <<m, n>> \in Nat \X Nat /\ ~(<<m, n>> \in Less)
    BY <1>2
  <2>2. ~(<<m, n>>[1] < <<m, n>>[2])
    BY <2>1 DEF Less
  <2> QED BY <2>2
<1> QED BY <1>3

(* A set with 0 and with each of its numbers the next one has them all.     *)
LEMMA EveryNumber ==
    ASSUME NEW T, 0 \in T, \A n \in Nat : n \in T => n + 1 \in T
    PROVE  Nat \subseteq T
<1> SUFFICES ASSUME Nat \ T # {} PROVE FALSE
  OBVIOUS
<1>1. PICK n \in Nat \ T : \A m \in Nat \ T : n <= m
  BY LeastElement
<1>2. n # 0 /\ n - 1 \in Nat /\ n - 1 \in T
  BY <1>1
<1>3. (n - 1) + 1 \in T
  BY <1>2
<1> QED BY <1>2, <1>3

(* The same for the numbers up to k.                                        *)
LEMMA UpTo ==
    ASSUME NEW T, NEW k \in Nat, 0 \in T, \A i \in 1..k : i - 1 \in T => i \in T
    PROVE  0..k \subseteq T
<1> DEFINE U == {i \in Nat : i <= k => i \in T}
<1>1. 0 \in U
  OBVIOUS
<1>2. ASSUME NEW n \in Nat, n \in U, n + 1 <= k PROVE n + 1 \in T
  <2>1. n \in T /\ n + 1 \in 1..k /\ (n + 1) - 1 = n
    BY <1>2
  <2> QED BY <2>1
<1>3. \A n \in Nat : n \in U => n + 1 \in U
  BY <1>2
<1> HIDE DEF U
<1>4. Nat \subseteq U
  BY <1>1, <1>3, EveryNumber
<1> QED BY <1>4 DEF U

--------------------------------------------------------------------------------

Scope   == [Names -> Symbol]
Scopes  == Seq(Scope)

(* The places of variables in s.                                            *)
Places(s) == (1..Len(s)) \X Names

(* A name that is not there has nothing; one that is a reference refers to  *)
(* a name of its own scope or of one that outlives it.                      *)
Rooted(s) ==
    \A d \in 1..Len(s), n \in Names :
        /\ s[d][n].kind = "none" => s[d][n] = NoSymbol
        /\ s[d][n].ref # NoRef =>
              /\ s[d][n].ref \in Places(s) /\ s[d][n].ref[1] <= d
              /\ Declared(s, s[d][n].ref[1], s[d][n].ref[2])

--------------------------------------------------------------------------------
(* The operators on scopes.                                                 *)

LEMMA SymbolFacts ==
    /\ NoSymbol \in Symbol /\ EmptyScope \in Scope
    /\ NoSymbol.kind = "none" /\ NoSymbol.value = 0 /\ NoSymbol.ref = NoRef
    /\ \A v \in Values : /\ Variable(v) \in Symbol /\ Variable(v).kind = "variable"
                         /\ Variable(v).value = v /\ Variable(v).ref = NoRef
    /\ NoRef \notin Locations
  BY ConstantsOK DEF NoSymbol, EmptyScope, Scope, Symbol, Variable, NoRef, Locations

LEMMA ScopesFacts ==
    ASSUME NEW s \in Scopes
    PROVE  /\ Len(s) \in Nat
           /\ \A d \in 1..Len(s) : s[d] \in Scope
           /\ \A d \in 1..Len(s), n \in Names :
                 /\ s[d][n] \in Symbol
                 /\ s[d][n].kind \in {"none", "variable", "const"}
                 /\ s[d][n].value \in Values
                 /\ s[d][n].ref \in Locations \cup {NoRef}
<1>1. Len(s) \in Nat /\ \A d \in 1..Len(s) : s[d] \in Scope
  BY ElementOfSeq, LenProperties DEF Scopes
<1>2. \A d \in 1..Len(s), n \in Names : s[d][n] \in Symbol
  BY <1>1 DEF Scope
<1> QED BY <1>1, <1>2 DEF Symbol

LEMMA PutFacts ==
    ASSUME NEW s \in Scopes, NEW l \in Places(s), NEW v \in Values
    PROVE  /\ Put(s, l, v) \in Scopes /\ Len(Put(s, l, v)) = Len(s)
           /\ \A d \in 1..Len(s), n \in Names :
                 /\ Put(s, l, v)[d][n].kind = s[d][n].kind
                 /\ Put(s, l, v)[d][n].ref = s[d][n].ref
                 /\ Put(s, l, v)[d][n].value = IF l = <<d, n>> THEN v ELSE s[d][n].value
                 /\ l # <<d, n>> => Put(s, l, v)[d][n] = s[d][n]
<1> USE ScopesFacts
<1>1. PICK d0 \in 1..Len(s), n0 \in Names : l = <<d0, n0>>
  BY DEF Places
<1> DEFINE y == [s[d0][n0] EXCEPT !.value = v]
           e == [s[d0] EXCEPT ![n0] = y]
           t == [s EXCEPT ![d0] = e]
<1>2. Put(s, l, v) = t
  BY <1>1 DEF Put
<1>3. /\ y \in Symbol /\ y.kind = s[d0][n0].kind /\ y.ref = s[d0][n0].ref
      /\ y.value = v
  BY DEF Symbol
<1> HIDE DEF y
<1>4. e \in Scope /\ \A n \in Names : e[n] = IF n = n0 THEN y ELSE s[d0][n]
  BY <1>3 DEF Scope
<1> HIDE DEF e
<1>5. /\ t \in Scopes /\ Len(t) = Len(s)
      /\ \A d \in 1..Len(s) : t[d] = IF d = d0 THEN e ELSE s[d]
  BY <1>4, ExceptSeq DEF Scopes
<1> HIDE DEF t
<1>6. ASSUME NEW d \in 1..Len(s), NEW n \in Names
      PROVE  /\ t[d][n].kind = s[d][n].kind /\ t[d][n].ref = s[d][n].ref
             /\ t[d][n].value = IF l = <<d, n>> THEN v ELSE s[d][n].value
             /\ l # <<d, n>> => t[d][n] = s[d][n]
  <2>1. CASE d = d0 /\ n = n0
    BY <1>1, <1>3, <1>4, <1>5, <2>1
  <2>2. CASE ~(d = d0 /\ n = n0)
    BY <1>1, <1>4, <1>5, <2>2
  <2> QED BY <2>1, <2>2
<1> QED BY <1>2, <1>5, <1>6

(* scope_insert: y is entered under a name.                                 *)
Entered(s, d, n, y) == [s EXCEPT ![d][n] = y]

LEMMA EnterFacts ==
    ASSUME NEW s \in Scopes, NEW d0 \in 1..Len(s), NEW n0 \in Names, NEW y \in Symbol
    PROVE  /\ Entered(s, d0, n0, y) \in Scopes /\ Len(Entered(s, d0, n0, y)) = Len(s)
           /\ \A d \in 1..Len(s), n \in Names :
                 Entered(s, d0, n0, y)[d][n] = IF d = d0 /\ n = n0 THEN y ELSE s[d][n]
<1> USE ScopesFacts
<1> DEFINE e == [s[d0] EXCEPT ![n0] = y]
           t == [s EXCEPT ![d0] = e]
<1>1. e \in Scope /\ \A n \in Names : e[n] = IF n = n0 THEN y ELSE s[d0][n]
  BY DEF Scope
<1> HIDE DEF e
<1>2. /\ t \in Scopes /\ Len(t) = Len(s)
      /\ \A d \in 1..Len(s) : t[d] = IF d = d0 THEN e ELSE s[d]
  BY <1>1, ExceptSeq DEF Scopes
<1>3. Entered(s, d0, n0, y) = t
  BY DEF Entered, e
<1> QED BY <1>1, <1>2, <1>3

LEMMA UsingFacts ==
    ASSUME NEW s \in Scopes, Len(s) > 0, NEW n \in Names
    PROVE  /\ Using(s, n) \in Scopes /\ Len(Using(s, n)) = Len(s)
           /\ Found(Using(s, n), n)
           /\ \A d \in 1..Len(s), m \in Names :
                 Using(s, n)[d][m] = IF ~Found(s, n) /\ d = Len(s) /\ m = n THEN Variable(0)
                                     ELSE s[d][m]
<1> USE ScopesFacts, SymbolFacts
<1>1. CASE Found(s, n)
  BY <1>1 DEF Using
<1>2. CASE ~Found(s, n)
  <2>1. Using(s, n) = Entered(s, Len(s), n, Variable(0))
    BY <1>2 DEF Using, Entered
  <2>2. Variable(0) \in Symbol /\ Variable(0).kind # "none"
    BY ConstantsOK
  <2>3. Len(s) \in 1..Len(s)
    OBVIOUS
  <2> HIDE <1>2
  <2> DEFINE e == Len(s)
             y == Variable(0)
  <2>5. e \in 1..Len(s) /\ y \in Symbol
    BY <2>2, <2>3
  <2> HIDE DEF e, y
  <2>6. Entered(s, e, n, y) \in Scopes /\ Len(Entered(s, e, n, y)) = Len(s)
    BY <2>5, EnterFacts
  <2>7. \A d \in 1..Len(s), m \in Names :
              Entered(s, e, n, y)[d][m] = IF d = e /\ m = n THEN y ELSE s[d][m]
    BY <2>5, EnterFacts
  <2>4. /\ Using(s, n) \in Scopes /\ Len(Using(s, n)) = Len(s)
        /\ \A d \in 1..Len(s), m \in Names :
              Using(s, n)[d][m] = IF d = Len(s) /\ m = n THEN Variable(0) ELSE s[d][m]
    BY <2>1, <2>6, <2>7 DEF e, y
  <2> QED BY <1>2, <2>2, <2>3, <2>4 DEF Found, Declared
<1> QED BY <1>1, <1>2

LEMMA LvalueFacts ==
    ASSUME NEW s \in Scopes, Len(s) > 0, Rooted(s), NEW n \in Names, Found(s, n)
    PROVE  /\ Home(s, n) \in 1..Len(s) /\ Declared(s, Home(s, n), n)
           /\ SymbolOf(s, n) \in Symbol /\ SymbolOf(s, n).value \in Values
           /\ Lvalue(s, n) \in Places(s)
           /\ Declared(s, Lvalue(s, n)[1], Lvalue(s, n)[2])
           /\ Cell(s, Lvalue(s, n)) \in Values
<1> USE ScopesFacts
<1>1. Home(s, n) \in 1..Len(s) /\ Declared(s, Home(s, n), n)
  BY DEF Home, Found
<1>2. SymbolOf(s, n) \in Symbol /\ SymbolOf(s, n).value \in Values
  BY <1>1 DEF SymbolOf
<1>3. Lvalue(s, n) \in Places(s) /\ Declared(s, Lvalue(s, n)[1], Lvalue(s, n)[2])
  <2>1. CASE SymbolOf(s, n).ref # NoRef
    BY <1>1, <2>1 DEF SymbolOf, Lvalue, Rooted
  <2>2. CASE SymbolOf(s, n).ref = NoRef
    BY <1>1, <2>2 DEF Lvalue, Places
  <2> QED BY <2>1, <2>2
<1>4. Cell(s, Lvalue(s, n)) \in Values
  BY <1>3 DEF Cell, Places
<1> QED BY <1>1, <1>2, <1>3, <1>4

--------------------------------------------------------------------------------
(* What keeps Rooted.                                                       *)

(* Only values change, and only those of names that are there.              *)
Revalued(s, t) ==
    /\ Len(t) = Len(s)
    /\ \A d \in 1..Len(s), n \in Names :
          /\ t[d][n].kind = s[d][n].kind /\ t[d][n].ref = s[d][n].ref
          /\ s[d][n].kind = "none" => t[d][n] = s[d][n]

LEMMA RevaluedRooted ==
    ASSUME NEW s \in Scopes, NEW t \in Scopes, Rooted(s), Revalued(s, t)
    PROVE  Rooted(t)
<1>1. Len(t) = Len(s) /\ Places(t) = Places(s)
  BY DEF Revalued, Places
<1>2. \A d \in 1..Len(s), n \in Names :
          /\ t[d][n].kind = s[d][n].kind /\ t[d][n].ref = s[d][n].ref
          /\ s[d][n].kind = "none" => t[d][n] = s[d][n]
  BY DEF Revalued
<1> SUFFICES ASSUME NEW d \in 1..Len(s), NEW n \in Names
             PROVE  /\ t[d][n].kind = "none" => t[d][n] = NoSymbol
                    /\ t[d][n].ref # NoRef =>
                          /\ t[d][n].ref \in Places(t) /\ t[d][n].ref[1] <= d
                          /\ Declared(t, t[d][n].ref[1], t[d][n].ref[2])
  BY <1>1 DEF Rooted
<1>3. /\ s[d][n].kind = "none" => s[d][n] = NoSymbol
      /\ s[d][n].ref # NoRef =>
            /\ s[d][n].ref \in Places(s) /\ s[d][n].ref[1] <= d
            /\ Declared(s, s[d][n].ref[1], s[d][n].ref[2])
  BY DEF Rooted
<1>4. t[d][n].kind = "none" => t[d][n] = NoSymbol
  BY <1>2, <1>3
<1>5. ASSUME t[d][n].ref # NoRef
      PROVE  /\ t[d][n].ref \in Places(t) /\ t[d][n].ref[1] <= d
             /\ Declared(t, t[d][n].ref[1], t[d][n].ref[2])
  <2> DEFINE r == s[d][n].ref
  <2>1. r \in Places(s) /\ r[1] <= d /\ Declared(s, r[1], r[2]) /\ t[d][n].ref = r
    BY <1>2, <1>3, <1>5
  <2> HIDE DEF r
  <2>2. r[1] \in 1..Len(s) /\ r[2] \in Names
    BY <2>1 DEF Places
  <2>3. Declared(t, r[1], r[2])
    BY <1>2, <2>1, <2>2 DEF Declared
  <2> QED BY <1>1, <2>1, <2>3
<1> QED BY <1>4, <1>5

LEMMA PutRooted ==
    ASSUME NEW s \in Scopes, Rooted(s), NEW l \in Places(s), NEW v \in Values,
           Declared(s, l[1], l[2])
    PROVE  Revalued(s, Put(s, l, v)) /\ Rooted(Put(s, l, v))
<1>1. \A d \in 1..Len(s), n \in Names : s[d][n].kind = "none" => l # <<d, n>>
  BY DEF Declared
<1>2. Revalued(s, Put(s, l, v))
  BY <1>1, PutFacts DEF Revalued
<1> QED BY <1>2, PutFacts, RevaluedRooted

LEMMA EnterRooted ==
    ASSUME NEW s \in Scopes, Rooted(s), NEW d0 \in 1..Len(s), NEW n0 \in Names,
           NEW y \in Symbol, y.kind # "none", ~Declared(s, d0, n0),
           y.ref # NoRef => /\ y.ref \in Places(s) /\ y.ref[1] <= d0
                            /\ Declared(s, y.ref[1], y.ref[2])
    PROVE  Rooted(Entered(s, d0, n0, y))
<1> DEFINE t == Entered(s, d0, n0, y)
<1>1. /\ t \in Scopes /\ Len(t) = Len(s)
      /\ \A d \in 1..Len(s), n \in Names :
            t[d][n] = IF d = d0 /\ n = n0 THEN y ELSE s[d][n]
  BY EnterFacts
<1> HIDE DEF t
<1>2. Places(t) = Places(s)
  BY <1>1 DEF Places
<1>3. \A d \in 1..Len(s), n \in Names : Declared(s, d, n) => Declared(t, d, n)
  BY <1>1 DEF Declared
<1>4. ASSUME NEW d \in 1..Len(t), NEW n \in Names
      PROVE  /\ t[d][n].kind = "none" => t[d][n] = NoSymbol
             /\ t[d][n].ref # NoRef =>
                   /\ t[d][n].ref \in Places(s) /\ t[d][n].ref[1] <= d
                   /\ Declared(s, t[d][n].ref[1], t[d][n].ref[2])
  <2>1. CASE d = d0 /\ n = n0
    BY <1>1, <2>1
  <2>2. CASE ~(d = d0 /\ n = n0)
    BY <1>1, <2>2 DEF Rooted
  <2> QED BY <2>1, <2>2
<1>5. \A l \in Places(s) : l[1] \in 1..Len(s) /\ l[2] \in Names
  BY DEF Places
<1>6. Rooted(t)
  BY <1>2, <1>3, <1>4, <1>5 DEF Rooted
<1> QED BY <1>6 DEF t

LEMMA UsingRooted ==
    ASSUME NEW s \in Scopes, Len(s) > 0, Rooted(s), NEW n \in Names
    PROVE  Rooted(Using(s, n))
<1>1. CASE Found(s, n)
  BY <1>1 DEF Using
<1>2. CASE ~Found(s, n)
  <2>1. Variable(0) \in Symbol /\ Variable(0).kind # "none" /\ Variable(0).ref = NoRef
    BY SymbolFacts, ConstantsOK
  <2>2. Len(s) \in 1..Len(s) /\ ~Declared(s, Len(s), n)
    BY <1>2, ScopesFacts DEF Found
  <2>3. Using(s, n) = Entered(s, Len(s), n, Variable(0))
    BY <1>2 DEF Using, Entered
  <2> QED BY <2>1, <2>2, <2>3, EnterRooted
<1> QED BY <1>1, <1>2

(* Nothing that is there goes, and no reference is bound anew.              *)
Grows(s, t) ==
    /\ t \in Scopes /\ Len(t) = Len(s) /\ Rooted(t)
    /\ \A d \in 1..Len(s), n \in Names :
          Declared(s, d, n) => Declared(t, d, n) /\ t[d][n].ref = s[d][n].ref

LEMMA EnterGrows ==
    ASSUME NEW s \in Scopes, NEW t \in Scopes, Grows(s, t), NEW d \in 1..Len(s), NEW n \in Names,
           NEW y \in Symbol, y.kind # "none", ~Declared(t, d, n), Rooted(Entered(t, d, n, y))
    PROVE  Grows(s, Entered(t, d, n, y))
<1> DEFINE u == Entered(t, d, n, y)
<1>1. /\ u \in Scopes /\ Len(u) = Len(t) /\ Len(t) = Len(s)
      /\ \A e \in 1..Len(s), m \in Names : u[e][m] = IF e = d /\ m = n THEN y ELSE t[e][m]
  BY EnterFacts DEF Grows
<1> HIDE DEF u
<1>2. \A e \in 1..Len(s), m \in Names :
          Declared(s, e, m) => Declared(u, e, m) /\ u[e][m].ref = s[e][m].ref
  BY <1>1 DEF Grows, Declared
<1>3. Rooted(u)
  BY DEF u
<1>4. Grows(s, u)
  BY <1>1, <1>2, <1>3 DEF Grows
<1> QED BY <1>4 DEF u

LEMMA UsingGrows ==
    ASSUME NEW s \in Scopes, NEW t \in Scopes, Len(s) > 0, Grows(s, t), NEW n \in Names
    PROVE  Grows(s, Using(t, n))
<1>1. /\ Using(t, n) \in Scopes /\ Len(Using(t, n)) = Len(t)
      /\ \A d \in 1..Len(t), m \in Names :
            Using(t, n)[d][m] = IF ~Found(t, n) /\ d = Len(t) /\ m = n THEN Variable(0)
                                ELSE t[d][m]
  BY UsingFacts DEF Grows
<1>2. Rooted(Using(t, n))
  BY UsingRooted DEF Grows
<1>3. \A d \in 1..Len(t), m \in Names : Declared(t, d, m) => Using(t, n)[d][m] = t[d][m]
  BY <1>1 DEF Found
<1> QED BY <1>1, <1>2, <1>3 DEF Grows, Declared

--------------------------------------------------------------------------------
(* Arguments and the callee's scope.                                        *)

LEMMA UsingAllFacts ==
    ASSUME NEW s \in Scopes, Len(s) > 0, NEW k \in Nat, NEW args \in [1..k -> Names]
    PROVE  /\ UsingAll(s, args) \in Scopes /\ Len(UsingAll(s, args)) = Len(s)
           /\ \A i \in 1..k : Found(UsingAll(s, args), args[i])
           /\ \A d \in 1..Len(s), n \in Names :
                 UsingAll(s, args)[d][n] =
                     IF (\E i \in 1..k : args[i] = n) /\ ~Found(s, n) /\ d = Len(s)
                     THEN Variable(0) ELSE s[d][n]
<1> DEFINE used(n) == \E i \in 1..k : args[i] = n
           new(d, n) == used(n) /\ ~Found(s, n) /\ d = Len(s)
           t == UsingAll(s, args)
<1>1. /\ Len(s) \in Nat
      /\ \A d \in 1..Len(s), n \in Names : s[d][n] \in Symbol
      /\ Variable(0) \in Symbol /\ Variable(0).kind # "none"
  BY ScopesFacts, SymbolFacts, ConstantsOK
<1>2. t = [d \in 1..Len(s) |-> [n \in Names |-> IF used(n) THEN Using(s, n)[d][n] ELSE s[d][n]]]
  BY DEF UsingAll
<1>3. ASSUME NEW d \in 1..Len(s), NEW n \in Names
      PROVE  t[d][n] = IF new(d, n) THEN Variable(0) ELSE s[d][n]
  BY <1>2, UsingFacts
<1>4. t \in [1..Len(s) -> Scope]
  <2>1. ASSUME NEW d \in 1..Len(s) PROVE t[d] \in Scope
    <3>1. \A n \in Names : t[d][n] \in Symbol
      BY <1>1, <1>3
    <3>2. t[d] = [n \in Names |-> t[d][n]]
      BY <1>2
    <3> QED BY <3>1, <3>2 DEF Scope
  <2>2. t = [d \in 1..Len(s) |-> t[d]]
    BY <1>2
  <2> QED BY <2>1, <2>2
<1> HIDE DEF t
<1>5. t \in Scopes /\ Len(t) = Len(s)
  BY <1>1, <1>4, SeqDef DEF Scopes
<1>6. ASSUME NEW i \in 1..k PROVE Found(t, args[i])
  <2>1. args[i] \in Names /\ used(args[i])
    OBVIOUS
  <2>2. t[Len(s)][args[i]] = IF ~Found(s, args[i]) THEN Variable(0) ELSE s[Len(s)][args[i]]
    BY <1>1, <1>3, <2>1
  <2>3. Found(s, args[i]) => t[1][args[i]] = s[1][args[i]]
    BY <1>1, <1>3, <2>1
  <2> QED BY <1>1, <1>5, <2>2, <2>3 DEF Found, Declared
<1> QED BY <1>3, <1>5, <1>6 DEF t

(* Names that are not there become variables.                               *)
LEMMA WidenedRooted ==
    ASSUME NEW s \in Scopes, NEW t \in Scopes, Rooted(s), Len(t) = Len(s),
           \A d \in 1..Len(s), n \in Names :
               t[d][n] = s[d][n] \/ (~Declared(s, d, n) /\ t[d][n] = Variable(0))
    PROVE  Rooted(t)
<1>1. Variable(0).kind = "variable" /\ Variable(0).ref = NoRef
  BY SymbolFacts, ConstantsOK
<1>2. \A d \in 1..Len(s), n \in Names : Declared(s, d, n) => Declared(t, d, n)
  BY DEF Declared
<1>3. ASSUME NEW d \in 1..Len(s), NEW n \in Names
      PROVE  /\ t[d][n].kind = "none" => t[d][n] = NoSymbol
             /\ t[d][n].ref # NoRef =>
                   /\ t[d][n].ref \in Places(s) /\ t[d][n].ref[1] <= d
                   /\ Declared(s, t[d][n].ref[1], t[d][n].ref[2])
  <2>1. CASE t[d][n] = s[d][n]
    BY <2>1 DEF Rooted
  <2>2. CASE t[d][n] = Variable(0)
    BY <1>1, <2>2
  <2> QED BY <2>1, <2>2
<1>4. \A l \in Places(s) : l[1] \in 1..Len(s) /\ l[2] \in Names
  BY DEF Places
<1>5. Places(t) = Places(s)
  BY DEF Places
<1> QED BY <1>2, <1>3, <1>4, <1>5 DEF Rooted

LEMMA UsingAllRooted ==
    ASSUME NEW s \in Scopes, Len(s) > 0, Rooted(s), NEW k \in Nat, NEW args \in [1..k -> Names]
    PROVE  Rooted(UsingAll(s, args))
<1> DEFINE t == UsingAll(s, args)
<1>1. /\ t \in Scopes /\ Len(t) = Len(s)
      /\ \A d \in 1..Len(s), n \in Names :
            t[d][n] = IF (\E i \in 1..k : args[i] = n) /\ ~Found(s, n) /\ d = Len(s)
                      THEN Variable(0) ELSE s[d][n]
  BY UsingAllFacts, ZenonT(40)
<1> HIDE DEF t
<1>2. \A d \in 1..Len(s), n \in Names :
          t[d][n] = s[d][n] \/ (~Declared(s, d, n) /\ t[d][n] = Variable(0))
  BY <1>1 DEF Found
<1>3. Rooted(t)
  BY <1>1, <1>2, WidenedRooted
<1> QED BY <1>3 DEF t

(* A scope for a procedure whose references are to the scopes below.        *)
LEMMA AppendRooted ==
    ASSUME NEW s \in Scopes, Rooted(s), NEW c \in Scope,
           \A n \in Names : /\ c[n].kind = "none" => c[n] = NoSymbol
                            /\ c[n].ref # NoRef => /\ c[n].ref \in Places(s)
                                                   /\ Declared(s, c[n].ref[1], c[n].ref[2])
    PROVE  /\ Append(s, c) \in Scopes /\ Len(Append(s, c)) = Len(s) + 1
           /\ \A d \in 1..Len(s) : Append(s, c)[d] = s[d]
           /\ Append(s, c)[Len(s) + 1] = c
           /\ Rooted(Append(s, c))
<1> DEFINE t == Append(s, c)
<1>1. /\ t \in Scopes /\ Len(t) = Len(s) + 1
      /\ \A d \in 1..Len(s) : t[d] = s[d]
      /\ t[Len(s) + 1] = c
  BY AppendProperties DEF Scopes
<1> HIDE DEF t
<1>2. Len(s) \in Nat
  BY ScopesFacts
<1>3. \A l \in Places(s) : l \in Places(t) /\ l[1] \in 1..Len(s) /\ l[2] \in Names
  BY <1>1, <1>2 DEF Places
<1>4. \A l \in Places(s) : Declared(s, l[1], l[2]) => Declared(t, l[1], l[2])
  BY <1>1, <1>3 DEF Declared
<1>5. ASSUME NEW d \in 1..Len(t), NEW n \in Names
      PROVE  /\ t[d][n].kind = "none" => t[d][n] = NoSymbol
             /\ t[d][n].ref # NoRef => /\ t[d][n].ref \in Places(s) /\ t[d][n].ref[1] <= d
                                       /\ Declared(s, t[d][n].ref[1], t[d][n].ref[2])
  <2>1. CASE d \in 1..Len(s)
    BY <1>1, <2>1 DEF Rooted
  <2>2. CASE d = Len(s) + 1
    BY <1>1, <1>2, <1>3, <2>2
  <2> QED BY <1>1, <1>2, <2>1, <2>2
<1>6. Rooted(t)
  BY <1>3, <1>4, <1>5 DEF Rooted
<1> QED BY <1>1, <1>6 DEF t

LEMMA ReferenceFacts ==
    ASSUME NEW v \in Values, NEW l \in Locations
    PROVE  /\ Reference(v, l) \in Symbol /\ Reference(v, l).kind = "variable"
           /\ Reference(v, l).value = v /\ Reference(v, l).ref = l
  BY DEF Reference, Symbol

LEMMA PlacesAreLocations ==
    ASSUME NEW s \in Scopes, Len(s) <= Depth
    PROVE  Places(s) \subseteq Locations
  BY ScopesFacts, ConstantsOK DEF Places, Locations

LEMMA ProcedureFacts ==
    ASSUME NEW p \in Procedures
    PROVE  /\ Len(p.params) \in Nat /\ p.params \in [1..Len(p.params) -> Names]
           /\ p.byval \in [1..Len(p.params) -> BOOLEAN]
           /\ p.result \in Names \cup {NoName}
           /\ \A i, j \in 1..Len(p.params) : p.params[i] = p.params[j] => i = j
  BY ConstantsOK, LenProperties DEF ProcType

LEMMA ArgumentFacts ==
    ASSUME NEW s \in Scopes, Len(s) > 0, Len(s) <= Depth, Rooted(s), NEW p, NEW args, NEW paren,
           NEW i, args[i] \in Names, Found(s, args[i])
    PROVE  LET y == Argument(s, p, args, paren, i)
               l == Lvalue(s, args[i])
           IN  /\ y \in Symbol /\ y.kind = "variable"
               /\ ByRef(p, paren, i) => y.ref = l /\ y.value = Cell(s, l)
               /\ ~ByRef(p, paren, i) => y.ref = NoRef /\ y.value = SymbolOf(s, args[i]).value
               /\ y.ref # NoRef => y.ref \in Places(s) /\ Declared(s, y.ref[1], y.ref[2])
<1>2. /\ SymbolOf(s, args[i]).value \in Values
      /\ Lvalue(s, args[i]) \in Places(s) /\ Lvalue(s, args[i]) \in Locations
      /\ Declared(s, Lvalue(s, args[i])[1], Lvalue(s, args[i])[2])
      /\ Cell(s, Lvalue(s, args[i])) \in Values
  BY LvalueFacts, PlacesAreLocations
<1>3. CASE ByRef(p, paren, i)
  BY <1>2, <1>3, ReferenceFacts DEF Argument
<1>4. CASE ~ByRef(p, paren, i)
  BY <1>2, <1>4, SymbolFacts DEF Argument
<1> QED BY <1>3, <1>4

(* A FUNCTION's parameters are bound one after the other.                   *)
BoundBy(stage, s, p, args, paren, argv) ==
    /\ Bound(s, p, args, paren, argv) = stage[Len(p.params)]
    /\ stage[0] = [s |-> s, addrs |-> <<>>, null |-> FALSE]
    /\ \A i \in 1..Len(p.params) :
          stage[i] = BindArgument(stage[i - 1], p, args, paren, argv, i)

LEMMA BoundUnfolds ==
    ASSUME NEW s, NEW p, NEW args, NEW paren, NEW argv, Len(p.params) \in Nat
    PROVE  \E stage : BoundBy(stage, s, p, args, paren, argv)
<1> DEFINE first == [s |-> s, addrs |-> <<>>, null |-> FALSE]
           Next1(x, i) == BindArgument(x, p, args, paren, argv, i)
           UpTo1(g, n) == g = [i \in 0..n |-> IF i = 0 THEN first ELSE Next1(g[i - 1], i)]
           T == {n \in Nat : \E g : UpTo1(g, n)}
           k == Len(p.params)
           f == CHOOSE g : UpTo1(g, k)
<1>1. Bound(s, p, args, paren, argv) = f[k]
  BY DEF Bound
<1> HIDE DEF first, Next1
<1>2. 0 \in T
  <2>1. UpTo1([i \in 0..0 |-> first], 0)
    OBVIOUS
  <2> QED BY <2>1
<1>3. ASSUME NEW n \in Nat, n \in T PROVE n + 1 \in T
  <2>1. PICK g : UpTo1(g, n)
    BY <1>3
  <2> DEFINE h == [i \in 0..(n + 1) |-> IF i = n + 1 THEN Next1(g[n], i) ELSE g[i]]
  <2>2. UpTo1(h, n + 1)
    BY <2>1
  <2> HIDE DEF h, UpTo1
  <2> QED BY <2>2
<1> HIDE DEF T
<1>4. k \in T
  BY <1>2, <1>3, EveryNumber
<1>5. UpTo1(f, k)
  BY <1>4 DEF T
<1> HIDE DEF f
<1>6. f[0] = first
  BY <1>5
<1>7. ASSUME NEW i \in 1..k PROVE f[i] = Next1(f[i - 1], i)
  BY <1>5
<1> QED BY <1>1, <1>6, <1>7 DEF first, Next1, BoundBy

Addresses == Locations \cup {NoRef}

(* Stage i of them, that started from scopes s0.                            *)
Placed(s, l) == l # NoRef => l \in Places(s) /\ Declared(s, l[1], l[2])

Staged(stage, s0, i) ==
    /\ stage.null \in BOOLEAN
    /\ ~stage.null => /\ Grows(s0, stage.s)
                      /\ stage.addrs \in Seq(Addresses) /\ Len(stage.addrs) = i
                      /\ \A j \in 1..i : Placed(stage.s, stage.addrs[j])

LEMMA PlacedStill ==
    ASSUME NEW s \in Scopes, NEW t \in Scopes, Grows(s, t), NEW l, Placed(s, l)
    PROVE  Placed(t, l)
  BY DEF Placed, Grows, Places

LEMMA GrowsTrans ==
    ASSUME NEW s \in Scopes, NEW t \in Scopes, NEW u \in Scopes, Grows(s, t), Grows(t, u)
    PROVE  Grows(s, u)
  BY DEF Grows

LEMMA BindArgumentFacts ==
    ASSUME NEW s0 \in Scopes, Len(s0) \in 1..Depth, Len(s0) > 0, Rooted(s0), NEW p \in Procedures,
           NEW args \in [1..Len(p.params) -> Names],
           NEW paren, NEW argv \in [1..Len(p.params) -> Values], NEW i \in 1..Len(p.params),
           NEW stage, Staged(stage, s0, i - 1)
    PROVE  Staged(BindArgument(stage, p, args, paren, argv, i), s0, i)
<1> DEFINE a == args[i]
           m == p.params[i]
           len == Len(s0)
           s == IF ByRef(p, paren, i) THEN Using(stage.s, a) ELSE stage.s
           l == Lvalue(s, a)
           y == IF ByRef(p, paren, i) THEN Reference(Cell(s, l), l) ELSE Variable(argv[i])
           addr == IF ByRef(p, paren, i) THEN l ELSE NoRef
           b == BindArgument(stage, p, args, paren, argv, i)
<1>1. /\ b.s = Entered(s, Len(s), m, y) /\ b.addrs = Append(stage.addrs, addr)
      /\ b.null = (stage.null \/ Declared(s, Len(s), m))
  BY DEF BindArgument, Entered
<1>2. a \in Names /\ m \in Names /\ argv[i] \in Values /\ i \in Nat /\ i > 0
  BY ProcedureFacts
<1>3. b.null \in BOOLEAN
  BY <1>1
<1>4. ASSUME ~b.null
      PROVE  /\ Grows(s0, b.s)
             /\ b.addrs \in Seq(Addresses) /\ Len(b.addrs) = i
             /\ \A j \in 1..i : Placed(b.s, b.addrs[j])
  <2>1. /\ ~stage.null /\ ~Declared(s, Len(s), m)
        /\ stage.s \in Scopes /\ Grows(s0, stage.s) /\ Len(stage.s) = len /\ Rooted(stage.s)
        /\ stage.addrs \in Seq(Addresses) /\ Len(stage.addrs) = i - 1
        /\ \A j \in 1..(i - 1) : Placed(stage.s, stage.addrs[j])
    BY <1>1, <1>4 DEF Staged, Grows
  <2>2. Grows(s0, s) /\ Grows(stage.s, s) /\ s \in Scopes /\ Len(s) = len /\ Rooted(s)
    <3>1. Grows(stage.s, stage.s)
      BY <2>1 DEF Grows
    <3>2. Grows(s0, s) /\ Grows(stage.s, s)
      BY <1>2, <2>1, <3>1, UsingGrows
    <3> QED BY <3>2 DEF Grows
  <2>3. /\ y \in Symbol /\ y.kind # "none" /\ addr \in Addresses /\ Placed(s, addr)
        /\ y.ref # NoRef => /\ y.ref \in Places(s) /\ y.ref[1] <= len
                            /\ Declared(s, y.ref[1], y.ref[2])
    <3>1. CASE ByRef(p, paren, i)
      <4>1. Found(s, a)
        BY <1>2, <2>1, <3>1, UsingFacts
      <4>2. l \in Places(s) /\ Declared(s, l[1], l[2]) /\ Cell(s, l) \in Values /\ l \in Locations
        BY <1>2, <2>2, <4>1, LvalueFacts, PlacesAreLocations
      <4>3. y \in Symbol /\ y.kind = "variable" /\ y.ref = l
        BY <3>1, <4>2, ReferenceFacts
      <4>4. l[1] <= len
        BY <2>2, <4>2 DEF Places
      <4> HIDE DEF y, l, s
      <4>5. addr \in Addresses /\ Placed(s, addr)
        BY <3>1, <4>2 DEF Addresses, Placed
      <4> QED BY <4>2, <4>3, <4>4, <4>5
    <3>2. CASE ~ByRef(p, paren, i)
      BY <1>2, <3>2, SymbolFacts DEF Addresses, Placed
    <3> QED BY <3>1, <3>2
  <2> DEFINE t == Entered(s, len, m, y)
  <2>7. t = b.s
    BY <1>1, <2>2
  <2> HIDE DEF y, addr, s, b, t
  <2>8. len \in 1..len
    BY DEF Scopes
  <2>9. ~Declared(s, len, m)
    BY <2>1, <2>2
  <2>5. Rooted(t)
    BY <1>2, <2>2, <2>3, <2>8, <2>9, EnterRooted DEF t
  <2>4. Grows(s0, t) /\ Grows(s, t)
    <3>1. Grows(s, s)
      BY <2>2 DEF Grows
    <3>2. len \in 1..Len(s)
      BY <2>2, <2>8
    <3> QED BY <1>2, <2>2, <2>3, <2>5, <2>8, <2>9, <3>1, <3>2, EnterGrows DEF t
  <2>6. /\ b.addrs \in Seq(Addresses) /\ Len(b.addrs) = i
        /\ \A j \in 1..(i - 1) : b.addrs[j] = stage.addrs[j]
        /\ b.addrs[i] = addr
    BY <1>1, <1>2, <2>1, <2>3, AppendProperties
  <2>10. ASSUME NEW j \in 1..i PROVE Placed(t, b.addrs[j])
    <3>1. t \in Scopes
      BY <2>4 DEF Grows
    <3>2. CASE j = i
      BY <2>2, <2>3, <2>4, <2>6, <3>1, <3>2, PlacedStill
    <3>3. CASE j # i
      <4>1. j \in 1..(i - 1)
        BY <1>2, <3>3
      <4> QED BY <2>1, <2>2, <2>4, <2>6, <3>1, <4>1, PlacedStill
    <3> QED BY <3>2, <3>3
  <2> QED BY <2>4, <2>6, <2>7, <2>10
<1> HIDE DEF b
<1>5. Staged(b, s0, i)
  BY <1>3, <1>4 DEF Staged
<1> QED BY <1>5 DEF b

LEMMA BoundFacts ==
    ASSUME NEW s0 \in Scopes, Len(s0) \in 1..Depth, Len(s0) > 0, Rooted(s0), NEW p \in Procedures,
           NEW args \in [1..Len(p.params) -> Names], NEW paren,
           NEW argv \in [1..Len(p.params) -> Values]
    PROVE  Staged(Bound(s0, p, args, paren, argv), s0, Len(p.params))
<1> DEFINE k == Len(p.params)
<1>k. k \in Nat
  BY ProcedureFacts
<1>b. PICK stage : BoundBy(stage, s0, p, args, paren, argv)
  BY <1>k, BoundUnfolds
<1>1. /\ Bound(s0, p, args, paren, argv) = stage[k]
      /\ stage[0] = [s |-> s0, addrs |-> <<>>, null |-> FALSE]
      /\ \A i \in 1..k : stage[i] = BindArgument(stage[i - 1], p, args, paren, argv, i)
  BY <1>b DEF BoundBy
<1> DEFINE T == {i \in 0..k : Staged(stage[i], s0, i)}
<1>3. 0 \in T
  <2>1. <<>> \in Seq(Addresses) /\ Len(<<>>) = 0
    OBVIOUS
  <2> DEFINE x == stage[0]
  <2>2. x.s = s0 /\ x.addrs = <<>> /\ x.null = FALSE
    BY <1>1
  <2>3. Grows(s0, s0)
    BY DEF Grows
  <2> HIDE DEF x
  <2>5. \A j \in 1..0 : Placed(x.s, x.addrs[j])
    OBVIOUS
  <2>6. Staged(x, s0, 0)
    BY <2>1, <2>2, <2>3, <2>5 DEF Staged
  <2>4. Staged(stage[0], s0, 0)
    BY <2>6 DEF x
  <2> QED BY <1>k, <2>4
<1>4. ASSUME NEW i \in 1..k, i - 1 \in T PROVE i \in T
  <2>1. stage[i] = BindArgument(stage[i - 1], p, args, paren, argv, i) /\ Staged(stage[i - 1], s0, i - 1)
    BY <1>1, <1>4
  <2>2. Staged(stage[i], s0, i)
    BY <2>1, BindArgumentFacts
  <2> QED BY <1>k, <2>2
<1> HIDE DEF T
<1>5. 0..k \subseteq T
  BY <1>k, <1>3, <1>4, UpTo
<1>6. k \in 0..k
  BY <1>k
<1> QED BY <1>1, <1>5, <1>6 DEF T

(* The parameters are written back one after the other.                     *)
WriteBack(x, b, own) ==
    IF b.addr = NoRef THEN x ELSE Put(x, b.addr, x[own][b.param].value)

LEMMA WrittenBackUnfolds ==
    ASSUME NEW s, NEW f, Len(f.bindings) \in Nat
    PROVE  \E back : /\ WrittenBack(s, f) = back[Len(f.bindings)]
                     /\ back[0] = s
                     /\ \A i \in 1..Len(f.bindings) :
                            back[i] = WriteBack(back[i - 1], f.bindings[i], Len(s))
<1> DEFINE Next1(x, i) == WriteBack(x, f.bindings[i], Len(s))
           UpTo1(g, n) == g = [i \in 0..n |-> IF i = 0 THEN s ELSE Next1(g[i - 1], i)]
           T == {n \in Nat : \E g : UpTo1(g, n)}
           k == Len(f.bindings)
           back == CHOOSE g : UpTo1(g, k)
<1>1. WrittenBack(s, f) = back[k]
  BY DEF WrittenBack, WriteBack
<1> HIDE DEF Next1
<1>2. 0 \in T
  <2>1. UpTo1([i \in 0..0 |-> s], 0)
    OBVIOUS
  <2> QED BY <2>1
<1>3. ASSUME NEW n \in Nat, n \in T PROVE n + 1 \in T
  <2>1. PICK g : UpTo1(g, n)
    BY <1>3
  <2> DEFINE h == [i \in 0..(n + 1) |-> IF i = n + 1 THEN Next1(g[n], i) ELSE g[i]]
  <2>2. UpTo1(h, n + 1)
    BY <2>1
  <2> HIDE DEF h, UpTo1
  <2> QED BY <2>2
<1> HIDE DEF T
<1>4. k \in T
  BY <1>2, <1>3, EveryNumber
<1>5. UpTo1(back, k)
  BY <1>4 DEF T
<1> HIDE DEF back
<1>6. back[0] = s
  BY <1>5
<1>7. ASSUME NEW i \in 1..k PROVE back[i] = Next1(back[i - 1], i)
  BY <1>5, SMTT(30)
<1> QED BY <1>1, <1>6, <1>7 DEF Next1

LEMMA FrameFacts ==
    ASSUME NEW f \in Frame
    PROVE  /\ Len(f.bindings) \in Nat /\ f.result \in Names \cup {NoName, Lost}
           /\ \A i \in 1..Len(f.bindings) : /\ f.bindings[i].param \in Names
                                           /\ f.bindings[i].addr \in Addresses
<1> DEFINE B == [param : Names, addr : Addresses]
<1>1. f.bindings \in Seq(B) /\ f.result \in Names \cup {NoName, Lost}
  BY DEF Frame, Addresses
<1> HIDE DEF B
<1>2. Len(f.bindings) \in Nat /\ \A i \in 1..Len(f.bindings) : f.bindings[i] \in B
  BY <1>1, LenProperties, ElementOfSeq
<1> QED BY <1>1, <1>2 DEF B

(* The address of each binding of f is that of a variable of s.             *)
BindingsIn(s, f) ==
    \A i \in 1..Len(f.bindings) :
        LET l == f.bindings[i].addr IN l # NoRef => l \in Places(s) /\ Declared(s, l[1], l[2])

LEMMA WrittenBackFacts ==
    ASSUME NEW s \in Scopes, Len(s) > 0, Rooted(s), NEW f \in Frame, BindingsIn(s, f)
    PROVE  /\ WrittenBack(s, f) \in Scopes /\ Revalued(s, WrittenBack(s, f))
           /\ Rooted(WrittenBack(s, f))
<1> DEFINE k == Len(f.bindings)
           own == Len(s)
<1>1. /\ k \in Nat /\ own \in 1..Len(s)
      /\ \A i \in 1..k : f.bindings[i].param \in Names
  BY ScopesFacts, FrameFacts
<1>2. PICK back : /\ WrittenBack(s, f) = back[k] /\ back[0] = s
                  /\ \A i \in 1..k : back[i] = WriteBack(back[i - 1], f.bindings[i], own)
  BY <1>1, WrittenBackUnfolds
<1> DEFINE Fine(x) == x \in Scopes /\ Revalued(s, x) /\ Rooted(x)
           T == {i \in 0..k : Fine(back[i])}
<1>3. 0 \in T
  BY <1>1, <1>2 DEF Revalued
<1> HIDE DEF own
<1>4. ASSUME NEW i \in 1..k, i - 1 \in T PROVE i \in T
  <2> DEFINE x == back[i - 1]
             b == f.bindings[i]
             l == b.addr
             v == x[own][b.param].value
  <2>1. Fine(x) /\ back[i] = WriteBack(x, b, own)
    BY <1>2, <1>4
  <2>2. CASE l = NoRef
    BY <1>1, <2>1, <2>2 DEF WriteBack
  <2>3. CASE l # NoRef
    <3>1. l \in Places(x) /\ Declared(x, l[1], l[2])
      BY <2>1, <2>3 DEF BindingsIn, Revalued, Places, Declared
    <3>2. own \in 1..Len(x) /\ b.param \in Names
      BY <1>1, <2>1 DEF Revalued
    <3> HIDE DEF x, b
    <3>3. v \in Values
      BY <2>1, <3>2, ScopesFacts
    <3>4. back[i] = Put(x, l, v)
      BY <2>1, <2>3 DEF WriteBack
    <3> HIDE DEF v, l
    <3>5. Put(x, l, v) \in Scopes /\ Revalued(x, Put(x, l, v)) /\ Rooted(Put(x, l, v))
      BY <2>1, <3>1, <3>3, PutFacts, PutRooted
    <3>6. Revalued(s, Put(x, l, v))
      BY <2>1, <3>5 DEF Revalued
    <3> QED BY <3>4, <3>5, <3>6
  <2> QED BY <2>2, <2>3
<1> HIDE DEF T
<1>5. 0..k \subseteq T
  BY <1>1, <1>3, <1>4, UpTo
<1>6. k \in 0..k
  BY <1>1
<1> QED BY <1>2, <1>5, <1>6 DEF T

--------------------------------------------------------------------------------
(* Copies.  A reference and the variable it refers to, which is in a scope  *)
(* below and no reference itself, agree.                                    *)

Agree(s, d, n, l) ==
    /\ l[1] < d
    /\ s[l[1]][l[2]].ref = NoRef
    /\ s[l[1]][l[2]].kind = s[d][n].kind
    /\ s[l[1]][l[2]].value = s[d][n].value

Coherent(s) ==
    \A d \in 1..Len(s), n \in Names :
        s[d][n].ref # NoRef => Agree(s, d, n, s[d][n].ref)

(* The names in used that are found nowhere become variables.               *)
WidenedBy(s, t, used) ==
    /\ Len(t) = Len(s)
    /\ \A d \in 1..Len(s), n \in Names :
          t[d][n] = IF n \in used /\ ~Found(s, n) /\ d = Len(s) THEN Variable(0) ELSE s[d][n]

LEMMA WidenedByFacts ==
    ASSUME NEW s \in Scopes, NEW t \in Scopes, NEW used \in SUBSET Names, Len(s) > 0, Rooted(s),
           WidenedBy(s, t, used)
    PROVE  /\ Rooted(t) /\ Len(t) = Len(s)
           /\ \A n \in used : Found(t, n)
           /\ \A d \in 1..Len(s), n \in Names : Declared(s, d, n) => t[d][n] = s[d][n]
           /\ Coherent(s) => Coherent(t)
<1> DEFINE len == Len(s)
<1>1. len \in 1..len /\ 1 \in 1..len /\ Len(t) = len
  BY ScopesFacts DEF WidenedBy
<1>2. \A d \in 1..len, n \in Names :
          t[d][n] = IF n \in used /\ ~Found(s, n) /\ d = len THEN Variable(0) ELSE s[d][n]
  BY DEF WidenedBy
<1>3. \A d \in 1..len, n \in Names :
          t[d][n] = s[d][n] \/ (~Declared(s, d, n) /\ t[d][n] = Variable(0))
  BY <1>2 DEF Found
<1>4. Rooted(t)
  BY <1>1, <1>3, WidenedRooted
<1>5. Variable(0).kind = "variable" /\ Variable(0).ref = NoRef
  BY SymbolFacts, ConstantsOK
<1> HIDE DEF len
<1>6. ASSUME NEW n \in used PROVE Found(t, n)
  <2>1. CASE Found(s, n)
    <3>1. t[len][n] = s[len][n] /\ t[1][n] = s[1][n]
      BY <1>1, <1>2, <2>1
    <3> QED BY <1>1, <2>1, <3>1 DEF Found, Declared, len
  <2>2. CASE ~Found(s, n)
    <3>1. t[len][n] = Variable(0)
      BY <1>1, <1>2, <2>2
    <3> QED BY <1>1, <1>5, <3>1 DEF Found, Declared
  <2> QED BY <2>1, <2>2
<1>7. \A d \in 1..len, n \in Names : Declared(s, d, n) => t[d][n] = s[d][n]
  BY <1>3
<1>8. ASSUME Coherent(s), NEW d \in 1..len, NEW n \in Names, t[d][n].ref # NoRef
      PROVE  Agree(t, d, n, t[d][n].ref)
  <2>1. t[d][n] = s[d][n]
    BY <1>3, <1>5, <1>8
  <2> DEFINE l == s[d][n].ref
  <2>2. l \in Places(s) /\ Declared(s, l[1], l[2]) /\ Agree(s, d, n, l)
    BY <1>8, <2>1 DEF Rooted, Coherent, len
  <2>3. t[l[1]][l[2]] = s[l[1]][l[2]]
    BY <1>7, <2>2 DEF Places, len
  <2> QED BY <2>1, <2>2, <2>3 DEF Agree
<1>9. Coherent(s) => Coherent(t)
  BY <1>1, <1>8 DEF Coherent
<1> QED BY <1>1, <1>4, <1>6, <1>7, <1>9 DEF len

LEMMA UsingWidens ==
    ASSUME NEW s \in Scopes, Len(s) > 0, NEW n \in Names
    PROVE  Using(s, n) \in Scopes /\ WidenedBy(s, Using(s, n), {n})
  BY UsingFacts DEF WidenedBy

LEMMA UsingTwiceWidens ==
    ASSUME NEW s \in Scopes, Len(s) > 0, NEW n \in Names, NEW m \in Names
    PROVE  Using(Using(s, n), m) \in Scopes /\ WidenedBy(s, Using(Using(s, n), m), {n, m})
<1> DEFINE t == Using(s, n)
           u == Using(t, m)
           len == Len(s)
<1>1. /\ t \in Scopes /\ Len(t) = len
      /\ \A d \in 1..len, x \in Names :
            t[d][x] = IF ~Found(s, n) /\ d = len /\ x = n THEN Variable(0) ELSE s[d][x]
  BY UsingFacts
<1>2. Found(t, n)
  BY UsingFacts
<1> HIDE DEF t
<1>3. /\ u \in Scopes /\ Len(u) = len
      /\ \A d \in 1..len, x \in Names :
            u[d][x] = IF ~Found(t, m) /\ d = len /\ x = m THEN Variable(0) ELSE t[d][x]
  <2>1. Len(t) > 0
    BY <1>1
  <2>2. /\ u \in Scopes /\ Len(u) = Len(t)
        /\ \A d \in 1..Len(t), x \in Names :
              u[d][x] = IF ~Found(t, m) /\ d = Len(t) /\ x = m THEN Variable(0) ELSE t[d][x]
    BY <1>1, <2>1, UsingFacts
  <2> HIDE DEF u
  <2> QED BY <1>1, <2>2
<1> HIDE DEF u
<1>4. m # n => (Found(t, m) <=> Found(s, m))
  BY <1>1, ScopesFacts DEF Found, Declared
<1>5. \A d \in 1..len, x \in Names :
          u[d][x] = IF x \in {n, m} /\ ~Found(s, x) /\ d = len THEN Variable(0) ELSE s[d][x]
  BY <1>1, <1>2, <1>3, <1>4
<1> QED BY <1>3, <1>5 DEF WidenedBy, t, u

LEMMA UsingAllWidens ==
    ASSUME NEW s \in Scopes, Len(s) > 0, NEW k \in Nat, NEW args \in [1..k -> Names]
    PROVE  /\ UsingAll(s, args) \in Scopes
           /\ WidenedBy(s, UsingAll(s, args), {args[i] : i \in 1..k})
<1> DEFINE t == UsingAll(s, args)
           used == {args[i] : i \in 1..k}
<1>1. /\ t \in Scopes /\ Len(t) = Len(s)
      /\ \A d \in 1..Len(s), n \in Names :
            t[d][n] = IF (\E i \in 1..k : args[i] = n) /\ ~Found(s, n) /\ d = Len(s)
                      THEN Variable(0) ELSE s[d][n]
  BY UsingAllFacts, ZenonT(40)
<1> HIDE DEF t
<1>2. \A n \in Names : n \in used <=> \E i \in 1..k : args[i] = n
  OBVIOUS
<1> HIDE DEF used
<1>3. WidenedBy(s, t, used)
  BY <1>1, <1>2 DEF WidenedBy
<1> QED BY <1>1, <1>3 DEF t, used

(* Values change, and in a reference as in the variable it refers to.       *)
LEMMA RevaluedCoherent ==
    ASSUME NEW s \in Scopes, NEW t \in Scopes, Rooted(s), Revalued(s, t), Coherent(s),
           \A d \in 1..Len(s), n \in Names :
               s[d][n].ref # NoRef => t[s[d][n].ref[1]][s[d][n].ref[2]].value = t[d][n].value
    PROVE  Coherent(t)
<1> SUFFICES ASSUME NEW d \in 1..Len(t), NEW n \in Names, t[d][n].ref # NoRef
             PROVE  Agree(t, d, n, t[d][n].ref)
  BY DEF Coherent
<1> DEFINE l == s[d][n].ref
<1>1. d \in 1..Len(s) /\ t[d][n].ref = l /\ t[d][n].kind = s[d][n].kind
  BY DEF Revalued
<1>2. l \in Places(s) /\ Agree(s, d, n, l)
  BY <1>1 DEF Rooted, Coherent
<1>3. /\ t[l[1]][l[2]].ref = s[l[1]][l[2]].ref
      /\ t[l[1]][l[2]].kind = s[l[1]][l[2]].kind
  BY <1>2 DEF Revalued, Places
<1>4. t[l[1]][l[2]].value = t[d][n].value
  BY <1>1
<1> QED BY <1>1, <1>2, <1>3, <1>4 DEF Agree

(* A variable without references gets a value.                              *)
LEMMA PutCoherent ==
    ASSUME NEW s \in Scopes, Rooted(s), Coherent(s), NEW l \in Places(s), NEW v \in Values,
           Declared(s, l[1], l[2]), s[l[1]][l[2]].ref = NoRef, References(s, l) = {}
    PROVE  Coherent(Put(s, l, v))
<1> DEFINE t == Put(s, l, v)
<1>1. /\ t \in Scopes /\ Revalued(s, t)
      /\ \A d \in 1..Len(s), n \in Names :
            t[d][n].value = IF l = <<d, n>> THEN v ELSE s[d][n].value
  BY PutFacts, PutRooted
<1> HIDE DEF t
<1>2. ASSUME NEW d \in 1..Len(s), NEW n \in Names, s[d][n].ref # NoRef
      PROVE  t[s[d][n].ref[1]][s[d][n].ref[2]].value = t[d][n].value
  <2> DEFINE r == s[d][n].ref
  <2>1. r \in Places(s) /\ Agree(s, d, n, r)
    BY <1>2 DEF Rooted, Coherent
  <2>2. r # l
    <3>1. <<d, n>> \in (1..Len(s)) \X Names
      OBVIOUS
    <3>2. s[<<d, n>>[1]][<<d, n>>[2]].ref # l
      BY <3>1 DEF References
    <3> QED BY <3>2
  <2>3. l # <<d, n>>
    BY <1>2
  <2>4. r = <<r[1], r[2]>> /\ r[1] \in 1..Len(s) /\ r[2] \in Names
    BY <2>1 DEF Places
  <2>5. t[r[1]][r[2]].value = s[r[1]][r[2]].value
    BY <1>1, <2>2, <2>4
  <2>6. t[d][n].value = s[d][n].value
    BY <1>1, <2>3
  <2> QED BY <2>1, <2>5, <2>6 DEF Agree
<1>3. Coherent(t)
  BY <1>1, <1>2, RevaluedCoherent
<1> QED BY <1>3 DEF t

LEMMA CoherentLvalue ==
    ASSUME NEW s \in Scopes, Len(s) > 0, Rooted(s), Coherent(s), NEW n \in Names, Found(s, n)
    PROVE  LET h == <<Home(s, n), n>>
               l == Lvalue(s, n)
           IN  /\ h \in Places(s) /\ l = <<l[1], l[2]>>
               /\ s[l[1]][l[2]].ref = NoRef
               /\ Cell(s, l) = SymbolOf(s, n).value
               /\ s[l[1]][l[2]].kind = SymbolOf(s, n).kind
               /\ SymbolOf(s, n).ref = NoRef => l = h
               /\ SymbolOf(s, n).ref # NoRef => h \in References(s, l)
<1> DEFINE h == <<Home(s, n), n>>
           l == Lvalue(s, n)
<1>1. Home(s, n) \in 1..Len(s) /\ l \in Places(s)
  BY LvalueFacts
<1>2. h \in Places(s) /\ l = <<l[1], l[2]>>
  BY <1>1 DEF Places
<1>3. CASE SymbolOf(s, n).ref = NoRef
  <2>1. l = h
    BY <1>3 DEF Lvalue
  <2> QED BY <1>2, <1>3, <2>1 DEF SymbolOf, Cell
<1>4. CASE SymbolOf(s, n).ref # NoRef
  <2>1. l = s[Home(s, n)][n].ref
    BY <1>4 DEF Lvalue, SymbolOf
  <2>2. Agree(s, Home(s, n), n, l)
    BY <1>1, <1>4, <2>1 DEF Coherent, SymbolOf
  <2>3. h \in References(s, l)
    BY <1>2, <2>1 DEF References, Places
  <2> QED BY <1>2, <1>4, <2>2, <2>3 DEF Agree, SymbolOf, Cell
<1> QED BY <1>3, <1>4

(* An assignment: the variable, and the only reference to it.               *)
LEMMA AssignedFacts ==
    ASSUME NEW s \in Scopes, Len(s) > 0, Rooted(s), NEW n \in Names, Found(s, n), NEW v \in Values
    PROVE  /\ Assigned(s, n, v) \in Scopes /\ Revalued(s, Assigned(s, n, v))
           /\ \A d \in 1..Len(s), m \in Names :
                 Assigned(s, n, v)[d][m].value =
                     IF <<d, m>> \in {Lvalue(s, n), <<Home(s, n), n>>} THEN v ELSE s[d][m].value
<1> DEFINE h == <<Home(s, n), n>>
           l == Lvalue(s, n)
           t == Put(s, l, v)
           u == Put(t, h, v)
<1>1. /\ l \in Places(s) /\ Declared(s, l[1], l[2])
      /\ h \in Places(s) /\ Declared(s, h[1], h[2])
  BY LvalueFacts DEF Places
<1>2. Assigned(s, n, v) = u
  BY DEF Assigned
<1> HIDE DEF l, h
<1>3. /\ t \in Scopes /\ Revalued(s, t) /\ Rooted(t)
      /\ \A d \in 1..Len(s), m \in Names :
            t[d][m].value = IF l = <<d, m>> THEN v ELSE s[d][m].value
  BY <1>1, PutFacts, PutRooted
<1> HIDE DEF t
<1>4. h \in Places(t) /\ Declared(t, h[1], h[2]) /\ Len(t) = Len(s)
  BY <1>1, <1>3 DEF Revalued, Places, Declared
<1>5. /\ u \in Scopes /\ Revalued(t, u)
      /\ \A d \in 1..Len(s), m \in Names :
            u[d][m].value = IF h = <<d, m>> THEN v ELSE t[d][m].value
  BY <1>3, <1>4, PutFacts, PutRooted
<1> HIDE DEF u
<1>6. Revalued(s, u)
  BY <1>3, <1>5 DEF Revalued
<1>7. \A d \in 1..Len(s), m \in Names :
          u[d][m].value = IF <<d, m>> \in {l, h} THEN v ELSE s[d][m].value
  BY <1>3, <1>5
<1> QED BY <1>2, <1>5, <1>6, <1>7 DEF l, h

LEMMA AssignedCoherent ==
    ASSUME NEW s \in Scopes, Len(s) > 0, Rooted(s), Coherent(s), NEW n \in Names, Found(s, n),
           NEW v \in Values, References(s, Lvalue(s, n)) \subseteq {<<Home(s, n), n>>}
    PROVE  Coherent(Assigned(s, n, v))
<1> DEFINE h == <<Home(s, n), n>>
           l == Lvalue(s, n)
           t == Assigned(s, n, v)
<1>1. /\ h \in Places(s) /\ s[l[1]][l[2]].ref = NoRef
      /\ s[h[1]][h[2]].ref = NoRef => l = h
      /\ s[h[1]][h[2]].ref # NoRef => s[h[1]][h[2]].ref = l
  BY CoherentLvalue DEF SymbolOf, Lvalue
<1>2. /\ t \in Scopes /\ Revalued(s, t)
      /\ \A d \in 1..Len(s), m \in Names :
            t[d][m].value = IF <<d, m>> \in {l, h} THEN v ELSE s[d][m].value
  BY AssignedFacts
<1>3. References(s, l) \subseteq {h}
  OBVIOUS
<1> HIDE DEF t, l, h
<1>4. ASSUME NEW d \in 1..Len(s), NEW m \in Names, s[d][m].ref # NoRef
      PROVE  t[s[d][m].ref[1]][s[d][m].ref[2]].value = t[d][m].value
  <2> DEFINE r == s[d][m].ref
  <2>1. /\ r[1] \in 1..Len(s) /\ r[2] \in Names /\ r = <<r[1], r[2]>>
        /\ Agree(s, d, m, r)
    BY <1>4 DEF Rooted, Coherent, Places
  <2>2. s[r[1]][r[2]].ref = NoRef /\ s[r[1]][r[2]].value = s[d][m].value
    BY <2>1 DEF Agree
  <2>3. t[r[1]][r[2]].value = IF r \in {l, h} THEN v ELSE s[r[1]][r[2]].value
    BY <1>2, <2>1
  <2>4. t[d][m].value = IF <<d, m>> \in {l, h} THEN v ELSE s[d][m].value
    BY <1>2
  <2> HIDE DEF r
  <2>5. CASE r = l
    <3>1. <<d, m>> \in References(s, l)
      BY <2>5 DEF References, r
    <3> QED BY <1>3, <2>3, <2>4, <2>5, <3>1 DEF r
  <2>6. CASE r # l
    <3>1. r # h
      BY <1>1, <2>2, <2>6
    <3>2. <<d, m>> # h
      BY <1>1, <1>4, <2>6 DEF r
    <3>3. <<d, m>> # l
      BY <1>1, <1>4
    <3> QED BY <2>2, <2>3, <2>4, <2>6, <3>1, <3>2, <3>3 DEF r
  <2> QED BY <2>5, <2>6
<1>5. Coherent(t)
  BY <1>2, <1>4, RevaluedCoherent
<1> QED BY <1>5 DEF t

(* A new name that is no reference, or one that agrees with what it is to.  *)
LEMMA EnterCoherent ==
    ASSUME NEW s \in Scopes, Rooted(s), Coherent(s), NEW d0 \in 1..Len(s), NEW n0 \in Names,
           NEW y \in Symbol, ~Declared(s, d0, n0),
           y.ref # NoRef => /\ y.ref \in Places(s) /\ y.ref[1] < d0
                            /\ s[y.ref[1]][y.ref[2]].ref = NoRef
                            /\ s[y.ref[1]][y.ref[2]].kind = y.kind
                            /\ s[y.ref[1]][y.ref[2]].value = y.value
    PROVE  Coherent(Entered(s, d0, n0, y))
<1> DEFINE t == Entered(s, d0, n0, y)
<1>1. /\ t \in Scopes /\ Len(t) = Len(s)
      /\ \A d \in 1..Len(s), n \in Names :
            t[d][n] = IF d = d0 /\ n = n0 THEN y ELSE s[d][n]
  BY EnterFacts
<1> HIDE DEF t
<1>2. ASSUME NEW d \in 1..Len(s), NEW n \in Names, t[d][n].ref # NoRef
      PROVE  Agree(t, d, n, t[d][n].ref)
  <2> DEFINE l == t[d][n].ref
  <2>1. CASE d = d0 /\ n = n0
    <3>1. l = y.ref /\ t[d][n] = y
      BY <1>1, <2>1
    <3>2. l[1] \in 1..Len(s) /\ l[2] \in Names /\ l[1] < d0
      BY <1>2, <3>1 DEF Places
    <3>3. t[l[1]][l[2]] = s[l[1]][l[2]]
      BY <1>1, <3>2
    <3> QED BY <1>2, <2>1, <3>1, <3>2, <3>3 DEF Agree
  <2>2. CASE ~(d = d0 /\ n = n0)
    <3>1. l = s[d][n].ref /\ t[d][n] = s[d][n]
      BY <1>1, <2>2
    <3>2. /\ l[1] \in 1..Len(s) /\ l[2] \in Names /\ Declared(s, l[1], l[2])
          /\ Agree(s, d, n, l)
      BY <1>2, <3>1 DEF Rooted, Coherent, Places
    <3>3. t[l[1]][l[2]] = s[l[1]][l[2]]
      BY <1>1, <3>2
    <3> QED BY <3>1, <3>2, <3>3 DEF Agree
  <2> QED BY <2>1, <2>2
<1>3. Coherent(t)
  BY <1>1, <1>2 DEF Coherent
<1> QED BY <1>3 DEF t

--------------------------------------------------------------------------------
(* The inductive invariant.                                                 *)

FramesRooted ==
    \A d \in 1..Len(frames) : \A i \in 1..Len(frames[d].bindings) :
        LET l == frames[d].bindings[i].addr IN
        l # NoRef => l \in Places(scopes) /\ l[1] <= d /\ Declared(scopes, l[1], l[2])

(* The result variable of f is in its scope d, and each parameter by        *)
(* reference still refers to the argument.                                  *)
FrameKept(s, d, f) ==
    /\ f.result # Lost /\ (f.result # NoName => Declared(s, d, f.result))
    /\ \A i \in 1..Len(f.bindings) :
          f.bindings[i].addr # NoRef => s[d][f.bindings[i].param].ref = f.bindings[i].addr

Disciplined ==
    /\ Coherent(scopes) /\ status # "crashed"
    /\ \A d \in 1..Len(frames) : FrameKept(scopes, d, frames[d])

Inductive == TypeOK /\ Rooted(scopes) /\ FramesRooted /\ (AliasFree => Disciplined)

LEMMA TypeFacts ==
    ASSUME TypeOK
    PROVE  /\ scopes \in Scopes /\ Len(scopes) \in 1..Depth /\ Len(scopes) > 0
           /\ Len(scopes) <= Depth /\ Len(frames) = Len(scopes)
           /\ \A d \in 1..Len(frames) : frames[d] \in Frame
  BY ConstantsOK, ElementOfSeq DEF TypeOK, Scopes, Scope

Statuses == {"running", "stopped", "crashed"}

(* A statement that is no call or return.                                   *)
Quiet ==
    /\ Grows(scopes, scopes') /\ (AliasFree => Coherent(scopes'))
    /\ UNCHANGED frames
    /\ out' \in Values /\ status' \in Statuses /\ (AliasFree => status' # "crashed")

LEMMA QuietKeeps ==
    ASSUME Inductive, Quiet
    PROVE  Inductive'
<1> USE DEF Quiet
<1>1. scopes \in Scopes /\ Rooted(scopes) /\ Len(frames) = Len(scopes)
  BY TypeFacts DEF Inductive
<1>2. TypeOK'
  BY DEF Inductive, TypeOK, Grows, Scopes, Scope, Statuses
<1>3. \A l \in Places(scopes) : l \in Places(scopes') /\ l[1] \in 1..Len(scopes) /\ l[2] \in Names
  BY DEF Places, Grows
<1>4. FramesRooted'
  <2>1. ASSUME NEW d \in 1..Len(frames), NEW i \in 1..Len(frames[d].bindings),
               frames[d].bindings[i].addr # NoRef
        PROVE  LET l == frames[d].bindings[i].addr IN
               l \in Places(scopes') /\ l[1] <= d /\ Declared(scopes', l[1], l[2])
    BY <1>3, <2>1 DEF Inductive, FramesRooted, Grows
  <2> QED BY <2>1 DEF FramesRooted
<1>5. ASSUME AliasFree, NEW d \in 1..Len(frames) PROVE FrameKept(scopes', d, frames[d])
  <2>1. FrameKept(scopes, d, frames[d]) /\ d \in 1..Len(scopes) /\ frames[d] \in Frame
    BY <1>1, <1>5, TypeFacts DEF Inductive, Disciplined
  <2>2. frames[d].result # NoName => Declared(scopes', d, frames[d].result)
    BY <2>1, FrameFacts DEF FrameKept, Grows
  <2>3. ASSUME NEW i \in 1..Len(frames[d].bindings), frames[d].bindings[i].addr # NoRef
        PROVE  scopes'[d][frames[d].bindings[i].param].ref = frames[d].bindings[i].addr
    <3> DEFINE m == frames[d].bindings[i].param
    <3>1. m \in Names /\ scopes[d][m].ref # NoRef
      BY <2>1, <2>3, FrameFacts DEF FrameKept
    <3>2. Declared(scopes, d, m)
      BY <1>1, <2>1, <3>1, SymbolFacts DEF Rooted, Declared
    <3> QED BY <2>1, <2>3, <3>1, <3>2 DEF Grows, FrameKept
  <2> QED BY <2>1, <2>2, <2>3 DEF FrameKept
<1>6. AliasFree => Disciplined'
  BY <1>5 DEF Disciplined
<1>7. Rooted(scopes')
  BY DEF Grows
<1> QED BY <1>2, <1>4, <1>6, <1>7 DEF Inductive

LEMMA InitInductive == Init => Inductive
<1> SUFFICES ASSUME Init PROVE Inductive
  OBVIOUS
<1>1. EmptyScope \in Scope /\ \A n \in Names : EmptyScope[n] = NoSymbol
  BY SymbolFacts DEF EmptyScope
<1>2. scopes = <<EmptyScope>> /\ scopes \in Scopes /\ Len(scopes) = 1 /\ scopes[1] = EmptyScope
  BY <1>1 DEF Init, Scopes
<1> DEFINE f == [result |-> NoName, bindings |-> <<>>]
<1>3. frames = <<f>> /\ f \in Frame /\ Len(frames) = 1 /\ frames[1] = f
  BY DEF Init, Frame
<1>4. f.result = NoName /\ f.bindings = <<>> /\ Len(f.bindings) = 0
  OBVIOUS
<1> HIDE DEF f
<1>5. frames \in Seq(Frame)
  BY <1>3
<1>6. TypeOK
  BY <1>2, <1>3, <1>5, ConstantsOK DEF TypeOK, Scopes, Scope, Init
<1>7. Rooted(scopes) /\ Coherent(scopes)
  BY <1>1, <1>2, SymbolFacts DEF Rooted, Coherent
<1>8. FramesRooted
  BY <1>3, <1>4 DEF FramesRooted
<1>9. NoName # Lost /\ status # "crashed"
  BY DEF NoName, Lost, Init
<1>10. \A d \in 1..Len(frames) : FrameKept(scopes, d, frames[d])
  BY <1>3, <1>4, <1>9 DEF FrameKept
<1> QED BY <1>6, <1>7, <1>8, <1>9, <1>10 DEF Inductive, Disciplined

--------------------------------------------------------------------------------
(* Every statement keeps the invariant.                                     *)

LEMMA WidenedGrows ==
    ASSUME NEW s \in Scopes, NEW t \in Scopes, NEW used \in SUBSET Names, Len(s) > 0, Rooted(s),
           WidenedBy(s, t, used)
    PROVE  Grows(s, t)
  BY WidenedByFacts DEF Grows, Declared

LEMMA GrowsOn ==
    ASSUME NEW s \in Scopes, NEW t \in Scopes, NEW u \in Scopes, Grows(s, t), Revalued(t, u)
    PROVE  Grows(s, u)
<1>1. Rooted(u)
  BY RevaluedRooted DEF Grows
<1> QED BY <1>1 DEF Grows, Revalued, Declared

(* The scopes a statement works on once it has used n, or n and m.          *)
Ready(t) ==
    /\ t \in Scopes /\ Len(t) = Len(scopes) /\ Len(t) > 0 /\ Rooted(t)
    /\ Grows(scopes, t) /\ (AliasFree => Coherent(t))

LEMMA WidenedReady ==
    ASSUME Inductive, NEW t \in Scopes, NEW used \in SUBSET Names, WidenedBy(scopes, t, used)
    PROVE  Ready(t) /\ \A n \in used : Found(t, n)
<1>1. scopes \in Scopes /\ Len(scopes) > 0 /\ Rooted(scopes) /\ (AliasFree => Coherent(scopes))
  BY TypeFacts DEF Inductive, Disciplined
<1> QED BY <1>1, WidenedByFacts, WidenedGrows DEF Ready

LEMMA UsingReady ==
    ASSUME Inductive, NEW n \in Names
    PROVE  Ready(Using(scopes, n)) /\ Found(Using(scopes, n), n)
<1>1. scopes \in Scopes /\ Len(scopes) > 0
  BY TypeFacts DEF Inductive
<1>2. Using(scopes, n) \in Scopes /\ WidenedBy(scopes, Using(scopes, n), {n})
  BY <1>1, UsingWidens
<1> QED BY <1>2, WidenedReady

LEMMA UsingTwiceReady ==
    ASSUME Inductive, NEW n \in Names, NEW m \in Names
    PROVE  LET s == Using(Using(scopes, n), m) IN
           Ready(s) /\ Found(s, n) /\ Found(s, m)
<1> DEFINE s == Using(Using(scopes, n), m)
<1>1. scopes \in Scopes /\ Len(scopes) > 0
  BY TypeFacts DEF Inductive
<1>2. s \in Scopes /\ WidenedBy(scopes, s, {n, m})
  BY <1>1, UsingTwiceWidens
<1> HIDE DEF s
<1>3. Ready(s) /\ \A x \in {n, m} : Found(s, x)
  BY <1>2, WidenedReady
<1> QED BY <1>3 DEF s

LEMMA ReadyQuiet ==
    ASSUME Inductive, Ready(scopes'), UNCHANGED frames, out' \in Values, status' \in Statuses,
           AliasFree => status' # "crashed"
    PROVE  Quiet
  BY DEF Ready, Quiet

LEMMA RevaluedReady ==
    ASSUME Inductive, NEW s \in Scopes, NEW t \in Scopes, Ready(s), Revalued(s, t),
           AliasFree => Coherent(t)
    PROVE  Ready(t)
<1>1. scopes \in Scopes
  BY TypeFacts DEF Inductive
<1>2. Grows(scopes, t)
  BY <1>1, GrowsOn DEF Ready
<1> QED BY <1>2 DEF Ready, Revalued, Grows

LEMMA PrintQuiet ==
    ASSUME Inductive, NEW n \in Names, ExecPrint(n)
    PROVE  Quiet
<1> DEFINE s == Using(scopes, n)
<1>1. Ready(s) /\ Found(s, n)
  BY UsingReady
<1>2. scopes' = s /\ out' = SymbolOf(s, n).value /\ UNCHANGED <<frames, status>>
  BY DEF ExecPrint
<1>3. status \in Statuses /\ (AliasFree => status # "crashed")
  BY DEF Inductive, TypeOK, Disciplined, Statuses
<1> HIDE DEF s
<1>4. SymbolOf(s, n).value \in Values
  BY <1>1, LvalueFacts DEF Ready
<1> QED BY <1>1, <1>2, <1>3, <1>4, ReadyQuiet

LEMMA LetQuiet ==
    ASSUME Inductive, NEW n \in Names, NEW v \in Values, ExecLet(n, v)
    PROVE  Quiet
<1> DEFINE s == Using(scopes, n)
           t == Assigned(s, n, v)
<1>1. Ready(s) /\ Found(s, n)
  BY UsingReady
<1>2. /\ MayWrite(s, n)
      /\ IF SymbolOf(s, n).kind = "const" THEN status' = "stopped" /\ UNCHANGED scopes
         ELSE scopes' = t /\ UNCHANGED status
      /\ UNCHANGED <<frames, out>>
  BY DEF ExecLet
<1>3. /\ status \in Statuses /\ (AliasFree => status # "crashed") /\ out \in Values
      /\ scopes \in Scopes /\ Rooted(scopes) /\ Len(scopes) > 0
      /\ (AliasFree => Coherent(scopes))
  BY TypeFacts DEF Inductive, TypeOK, Disciplined, Statuses
<1> HIDE DEF s
<1>4. t \in Scopes /\ Revalued(s, t)
  BY <1>1, AssignedFacts DEF Ready
<1>5. AliasFree => Coherent(t)
  BY <1>1, <1>2, AssignedCoherent DEF Ready, MayWrite
<1> HIDE DEF t
<1>6. Ready(t)
  BY <1>1, <1>4, <1>5, RevaluedReady DEF Ready
<1>7. Ready(scopes)
  BY <1>3 DEF Ready, Grows
<1>8. "stopped" \in Statuses /\ "stopped" # "crashed"
  BY DEF Statuses
<1> QED BY <1>2, <1>3, <1>6, <1>7, <1>8, ReadyQuiet

(* READ and INPUT write one of the two places, which are the same when the  *)
(* name has no references.                                                  *)
LEMMA MovePlace ==
    ASSUME NEW s \in Scopes, Len(s) > 0, Rooted(s), Coherent(s), NEW n \in Names, Found(s, n),
           References(s, Lvalue(s, n)) = {}
    PROVE  /\ Lvalue(s, n) = <<Home(s, n), n>>
           /\ s[Home(s, n)][n].ref = NoRef
<1>1. SymbolOf(s, n).ref = NoRef
  BY CoherentLvalue
<1> QED BY <1>1 DEF Lvalue, SymbolOf

LEMMA MoveReady ==
    ASSUME Inductive, NEW s \in Scopes, Ready(s), NEW n \in Names, Found(s, n), MayMove(s, n),
           NEW v \in Values, NEW l \in {Lvalue(s, n), <<Home(s, n), n>>}
    PROVE  Ready(Put(s, l, v)) /\ Revalued(s, Put(s, l, v))
<1> DEFINE t == Put(s, l, v)
<1>1. /\ Len(s) > 0 /\ Rooted(s) /\ (AliasFree => Coherent(s))
      /\ Home(s, n) \in 1..Len(s) /\ Declared(s, Home(s, n), n)
      /\ Lvalue(s, n) \in Places(s) /\ Declared(s, Lvalue(s, n)[1], Lvalue(s, n)[2])
  BY LvalueFacts DEF Ready
<1>2. l \in Places(s) /\ Declared(s, l[1], l[2])
  BY <1>1 DEF Places
<1>3. t \in Scopes /\ Revalued(s, t)
  BY <1>1, <1>2, PutFacts, PutRooted
<1>4. ASSUME AliasFree PROVE Coherent(t)
  <2>1. References(s, Lvalue(s, n)) = {}
    BY <1>4 DEF MayMove
  <2>2. l = Lvalue(s, n) /\ s[l[1]][l[2]].ref = NoRef
    BY <1>1, <1>4, <2>1, MovePlace
  <2> QED BY <1>1, <1>2, <1>4, <2>1, <2>2, PutCoherent
<1> HIDE DEF t
<1>5. Ready(t)
  BY <1>3, <1>4, RevaluedReady
<1> QED BY <1>3, <1>5 DEF t

LEMMA ReadQuiet ==
    ASSUME Inductive, NEW n \in Names, NEW v \in Values, ExecRead(n, v) \/ ExecInput(n, v)
    PROVE  Quiet
<1> DEFINE s == Using(scopes, n)
<1>1. Ready(s) /\ Found(s, n) /\ s \in Scopes
  BY UsingReady DEF Ready
<1>2. /\ MayMove(s, n) /\ UNCHANGED <<frames, out, status>>
      /\ \E l \in {Lvalue(s, n), <<Home(s, n), n>>} : scopes' = Put(s, l, v)
  BY DEF ExecRead, ExecInput
<1>3. status \in Statuses /\ (AliasFree => status # "crashed") /\ out \in Values
  BY DEF Inductive, TypeOK, Disciplined, Statuses
<1> HIDE DEF s
<1>4. Ready(scopes')
  BY <1>1, <1>2, MoveReady
<1> QED BY <1>2, <1>3, <1>4, ReadyQuiet

LEMMA SwapQuiet ==
    ASSUME Inductive, NEW n \in Names, NEW m \in Names, ExecSwap(n, m)
    PROVE  Quiet
<1> DEFINE s == Using(Using(scopes, n), m)
           ln == Lvalue(s, n)
           lm == Lvalue(s, m)
           t == Put(s, ln, Cell(s, lm))
           u == Put(t, lm, Cell(s, ln))
<1>1. Ready(s) /\ Found(s, n) /\ Found(s, m)
  BY UsingTwiceReady
<1>2. /\ MayMove(s, n) /\ MayMove(s, m) /\ scopes' = u /\ UNCHANGED <<frames, out, status>>
  BY DEF ExecSwap
<1>3. status \in Statuses /\ (AliasFree => status # "crashed") /\ out \in Values
  BY DEF Inductive, TypeOK, Disciplined, Statuses
<1> HIDE DEF s
<1>4. /\ s \in Scopes /\ Len(s) > 0 /\ Rooted(s) /\ (AliasFree => Coherent(s))
  BY <1>1 DEF Ready
<1>5. Cell(s, ln) \in Values /\ Cell(s, lm) \in Values /\ lm \in Places(s) /\ Declared(s, lm[1], lm[2])
  BY <1>1, <1>4, LvalueFacts
<1> HIDE DEF lm
<1>6. Ready(t) /\ Revalued(s, t)
  <2> DEFINE v == Cell(s, lm)
             l == ln
  <2>1. v \in Values /\ l \in {Lvalue(s, n), <<Home(s, n), n>>} /\ t = Put(s, l, v)
    BY <1>5
  <2> HIDE DEF v, l, t
  <2> QED BY <1>1, <1>2, <1>4, <2>1, MoveReady
<1>7. t \in Scopes /\ Len(t) > 0 /\ Rooted(t) /\ (AliasFree => Coherent(t))
  BY <1>6 DEF Ready
<1> HIDE DEF ln, t
<1>8. lm \in Places(t) /\ Declared(t, lm[1], lm[2])
  BY <1>5, <1>6 DEF Revalued, Places, Declared
<1>9. u \in Scopes /\ Revalued(t, u)
  BY <1>5, <1>7, <1>8, PutFacts, PutRooted
<1>10. ASSUME AliasFree PROVE Coherent(u)
  <2>1. References(s, lm) = {}
    BY <1>2, <1>10 DEF MayMove, lm
  <2>2. s[lm[1]][lm[2]].ref = NoRef
    BY <1>1, <1>4, <1>10, CoherentLvalue DEF lm
  <2>3. References(t, lm) = {} /\ t[lm[1]][lm[2]].ref = NoRef
    <3>1. \A r \in (1..Len(s)) \X Names : t[r[1]][r[2]].ref = s[r[1]][r[2]].ref
      BY <1>6 DEF Revalued
    <3> QED BY <1>5, <1>6, <2>1, <2>2, <3>1 DEF References, Revalued, Places
  <2> QED BY <1>5, <1>7, <1>8, <1>10, <2>3, PutCoherent
<1> HIDE DEF u
<1>11. Ready(u)
  BY <1>6, <1>7, <1>9, <1>10, RevaluedReady
<1> QED BY <1>2, <1>3, <1>11, ReadyQuiet

(* A new variable or constant.                                              *)
LEMMA EnterReady ==
    ASSUME Inductive, NEW d \in 1..Len(scopes), NEW n \in Names, ~Declared(scopes, d, n),
           NEW y \in Symbol, y.kind # "none", y.ref = NoRef
    PROVE  Ready(Entered(scopes, d, n, y))
<1> DEFINE t == Entered(scopes, d, n, y)
<1>1. scopes \in Scopes /\ Len(scopes) > 0 /\ Rooted(scopes) /\ (AliasFree => Coherent(scopes))
  BY TypeFacts DEF Inductive, Disciplined
<1>2. Rooted(t) /\ t \in Scopes /\ Len(t) = Len(scopes)
  BY <1>1, EnterRooted, EnterFacts
<1>3. AliasFree => Coherent(t)
  BY <1>1, EnterCoherent
<1>4. Grows(scopes, scopes)
  BY <1>1 DEF Grows
<1>5. Grows(scopes, t)
  BY <1>1, <1>2, <1>4, EnterGrows
<1> HIDE DEF t
<1>6. Ready(t)
  BY <1>1, <1>2, <1>3, <1>5 DEF Ready
<1> QED BY <1>6 DEF t

LEMMA Unmoved ==
    ASSUME Inductive
    PROVE  Ready(scopes) /\ out \in Values /\ status \in Statuses /\ (AliasFree => status # "crashed")
  BY TypeFacts DEF Inductive, Ready, Grows, TypeOK, Disciplined, Statuses

LEMMA DimQuiet ==
    ASSUME Inductive, NEW n \in Names, ExecDim(n) \/ ExecStatic(n)
    PROVE  Quiet
<1>1. PICK d \in 1..Len(scopes) : Dim(d, n)
  BY TypeFacts DEF Inductive, ExecDim, ExecStatic
<1>2. /\ scopes' = IF Declared(scopes, d, n) THEN scopes ELSE Entered(scopes, d, n, Variable(0))
      /\ UNCHANGED <<frames, out, status>>
  BY <1>1 DEF Dim, Entered
<1>3. Variable(0) \in Symbol /\ Variable(0).kind # "none" /\ Variable(0).ref = NoRef
  BY SymbolFacts, ConstantsOK
<1>4. Ready(scopes')
  BY <1>2, <1>3, EnterReady, Unmoved
<1> QED BY <1>2, <1>4, Unmoved, ReadyQuiet

LEMMA ConstQuiet ==
    ASSUME Inductive, NEW n \in Names, NEW v \in Values, ExecConst(n, v)
    PROVE  Quiet
<1> DEFINE y == [kind |-> "const", value |-> v, ref |-> NoRef]
<1>1. /\ scopes' = IF Declared(scopes, 1, n) THEN scopes ELSE Entered(scopes, 1, n, y)
      /\ UNCHANGED <<frames, out, status>>
  BY DEF ExecConst, Entered
<1>2. y \in Symbol /\ y.kind # "none" /\ y.ref = NoRef
  BY DEF Symbol
<1>3. 1 \in 1..Len(scopes)
  BY TypeFacts DEF Inductive
<1> HIDE DEF y
<1>4. Ready(scopes')
  BY <1>1, <1>2, <1>3, EnterReady, Unmoved
<1> QED BY <1>1, <1>4, Unmoved, ReadyQuiet

LEMMA DefFnQuiet ==
    ASSUME Inductive, NEW n \in Names, NEW v \in Values, NEW m \in Names, EvalDefFn(n, v, m)
    PROVE  Quiet
<1> DEFINE s == Using(scopes, n)
           h == <<Home(s, n), n>>
           t == Put(s, h, v)
           u == Using(t, m)
<1>1. /\ scopes' = Using(s, m) /\ out' = SymbolOf(u, m).value /\ UNCHANGED <<frames, status>>
  BY DEF EvalDefFn
<1>2. Ready(s) /\ Found(s, n) /\ Ready(Using(s, m))
  BY UsingReady, UsingTwiceReady
<1> HIDE DEF s
<1>3. h \in Places(s) /\ Declared(s, h[1], h[2])
  BY <1>2, LvalueFacts DEF Ready, Places
<1> HIDE DEF h
<1>4. t \in Scopes /\ Len(t) > 0 /\ Rooted(t)
  BY <1>2, <1>3, PutFacts, PutRooted DEF Ready
<1> HIDE DEF t
<1>5. u \in Scopes /\ Len(u) > 0 /\ Rooted(u) /\ Found(u, m)
  BY <1>4, UsingFacts, UsingRooted
<1> HIDE DEF u
<1>6. SymbolOf(u, m).value \in Values
  BY <1>5, LvalueFacts
<1> QED BY <1>1, <1>2, <1>6, Unmoved, ReadyQuiet

(* SHARED: the module-level variable s that the reference is to.            *)
Shareable(n) ==
    IF Declared(scopes, 1, n) THEN scopes ELSE Entered(scopes, 1, n, Variable(0))

LEMMA ShareableFacts ==
    ASSUME Inductive, NEW n \in Names
    PROVE  LET s == Shareable(n) IN
           /\ Ready(s) /\ Declared(s, 1, n)
           /\ \A d \in 1..Len(scopes), m \in Names :
                 s[d][m] = IF d = 1 /\ m = n /\ ~Declared(scopes, 1, n) THEN Variable(0)
                           ELSE scopes[d][m]
           /\ AliasFree => s[1][n].ref = NoRef
<1> DEFINE s == Shareable(n)
<1>1. 1 \in 1..Len(scopes) /\ scopes \in Scopes
  BY TypeFacts DEF Inductive
<1>2. Variable(0) \in Symbol /\ Variable(0).kind # "none" /\ Variable(0).ref = NoRef
  BY SymbolFacts, ConstantsOK
<1>3. Ready(s)
  BY <1>1, <1>2, EnterReady, Unmoved DEF Shareable
<1>4. \A d \in 1..Len(scopes), m \in Names :
          s[d][m] = IF d = 1 /\ m = n /\ ~Declared(scopes, 1, n) THEN Variable(0)
                    ELSE scopes[d][m]
  <2>1. CASE Declared(scopes, 1, n)
    BY <2>1 DEF Shareable
  <2>2. CASE ~Declared(scopes, 1, n)
    <3>1. s = Entered(scopes, 1, n, Variable(0))
      BY <2>2 DEF Shareable
    <3>2. \A d \in 1..Len(scopes), m \in Names :
              Entered(scopes, 1, n, Variable(0))[d][m]
                  = IF d = 1 /\ m = n THEN Variable(0) ELSE scopes[d][m]
      BY <1>1, <1>2, EnterFacts
    <3> QED BY <2>2, <3>1, <3>2
  <2> QED BY <2>1, <2>2
<1> HIDE DEF s
<1>5. Declared(s, 1, n)
  BY <1>1, <1>2, <1>4 DEF Declared
<1>6. ASSUME AliasFree, s[1][n].ref # NoRef PROVE FALSE
  <2>1. Agree(s, 1, n, s[1][n].ref) /\ s[1][n].ref \in Places(s)
    BY <1>1, <1>3, <1>6 DEF Ready, Coherent, Rooted
  <2> QED BY <2>1, SMTT(60) DEF Agree, Places
<1> QED BY <1>3, <1>4, <1>5, <1>6 DEF s

LEMMA SharedReferenceFacts ==
    ASSUME NEW x \in Symbol, NEW l \in Locations
    PROVE  LET y == [x EXCEPT !.ref = l] IN
           y \in Symbol /\ y.kind = x.kind /\ y.value = x.value /\ y.ref = l
  BY DEF Symbol

LEMMA SharedQuiet ==
    ASSUME Inductive, NEW n \in Names, ExecShared(n)
    PROVE  Quiet
<1> DEFINE s == Shareable(n)
           l == <<1, n>>
           y == [s[1][n] EXCEPT !.ref = l]
           len == Len(scopes)
           t == Entered(s, len, n, y)
<1>1. /\ Ready(s) /\ Declared(s, 1, n) /\ (AliasFree => s[1][n].ref = NoRef)
      /\ \A d \in 1..len, m \in Names :
            s[d][m] = IF d = 1 /\ m = n /\ ~Declared(scopes, 1, n) THEN Variable(0)
                      ELSE scopes[d][m]
  BY ShareableFacts
<1>2. /\ AliasFree => len > 1 /\ ~Declared(scopes, len, n)
      /\ IF Declared(s, Len(s), n) THEN Crash
         ELSE /\ scopes' = [s EXCEPT ![Len(s)][n] = y]
              /\ UNCHANGED <<frames, out, status>>
  BY DEF ExecShared, Shareable, Entered
<1>3. len \in 1..len /\ 1 \in 1..len /\ len <= Depth /\ scopes \in Scopes /\ len \in 1..Depth
  BY TypeFacts DEF Inductive
<1> HIDE DEF s, len
<1>4. s \in Scopes /\ Len(s) = len /\ Rooted(s) /\ Grows(scopes, s) /\ (AliasFree => Coherent(s))
  BY <1>1 DEF Ready, len
<1>5. l \in Places(s) /\ l \in Locations /\ l[1] = 1 /\ l[2] = n /\ l # NoRef
  BY <1>3, <1>4, SymbolFacts, ConstantsOK DEF Places, Locations
<1> HIDE DEF l
<1>6. y \in Symbol /\ y.kind = s[1][n].kind /\ y.value = s[1][n].value /\ y.ref = l
  BY <1>3, <1>4, <1>5, ScopesFacts, SharedReferenceFacts
<1> HIDE DEF y
<1>7. CASE Declared(s, len, n)
  <2>1. ~AliasFree
    <3>1. SUFFICES ASSUME AliasFree PROVE FALSE
      OBVIOUS
    <3>2. s[len][n] = scopes[len][n]
      BY <1>1, <1>2, <1>3, <3>1
    <3> QED BY <1>2, <1>7, <3>1, <3>2 DEF Declared
  <2>2. scopes' = scopes /\ frames' = frames /\ out' = out /\ status' = "crashed"
    BY <1>2, <1>4, <1>7 DEF Crash
  <2>3. "crashed" \in Statuses
    BY DEF Statuses
  <2>4. Ready(scopes')
    BY <2>2, Unmoved
  <2> QED BY <2>1, <2>2, <2>3, <2>4, Unmoved, ReadyQuiet
<1>8. CASE ~Declared(s, len, n)
  <2>1. scopes' = t /\ UNCHANGED <<frames, out, status>>
    BY <1>2, <1>4, <1>8 DEF Entered
  <2>2. y.kind # "none" /\ y.ref[1] <= len /\ Declared(s, y.ref[1], y.ref[2]) /\ y.ref \in Places(s)
    BY <1>1, <1>3, <1>5, <1>6 DEF Declared
  <2>3. Rooted(t) /\ t \in Scopes /\ Len(t) = len
    BY <1>3, <1>4, <1>6, <1>8, <2>2, EnterRooted, EnterFacts
  <2>4. Grows(scopes, t)
    <3>1. len \in 1..Len(scopes)
      BY <1>3 DEF len
    <3> QED BY <1>3, <1>4, <1>6, <1>8, <2>2, <2>3, <3>1, EnterGrows
  <2>5. ASSUME AliasFree PROVE Coherent(t)
    BY <1>1, <1>2, <1>3, <1>4, <1>5, <1>6, <1>8, <2>2, <2>5, EnterCoherent
  <2> HIDE DEF t
  <2>6. Ready(t)
    BY <1>3, <2>3, <2>4, <2>5 DEF Ready, len
  <2>7. Ready(scopes')
    BY <2>1, <2>6
  <2> QED BY <2>1, <2>7, Unmoved, ReadyQuiet
<1> QED BY <1>7, <1>8

--------------------------------------------------------------------------------
(* Calls.  The callee's scope has the parameters and, for a FUNCTION, the   *)
(* result variable.                                                         *)
Param(p, n) == {i \in 1..Len(p.params) : p.params[i] = n}

Callee(s, p, args, paren) ==
    [n \in Names |->
        IF Param(p, n) # {} THEN Argument(s, p, args, paren, CHOOSE i \in Param(p, n) : TRUE)
        ELSE IF n = p.result THEN Variable(0) ELSE NoSymbol]

Targets(s, p, args, paren) ==
    [i \in 1..Len(p.params) |-> Argument(s, p, args, paren, i).ref]

LEMMA ParamFacts ==
    ASSUME NEW p \in Procedures, NEW i \in 1..Len(p.params)
    PROVE  /\ p.params[i] \in Names /\ Param(p, p.params[i]) = {i}
           /\ (CHOOSE j \in Param(p, p.params[i]) : TRUE) = i
<1>1. p.params[i] \in Names /\ Param(p, p.params[i]) = {i}
  BY ProcedureFacts DEF Param
<1> QED BY <1>1

LEMMA CalleeFacts ==
    ASSUME NEW s \in Scopes, Len(s) > 0, Len(s) <= Depth, Rooted(s), NEW p \in Procedures,
           NEW args \in [1..Len(p.params) -> Names], NEW paren,
           \A i \in 1..Len(p.params) : Found(s, args[i])
    PROVE  LET c == Callee(s, p, args, paren) IN
           /\ c \in Scope
           /\ \A i \in 1..Len(p.params) : c[p.params[i]] = Argument(s, p, args, paren, i)
           /\ \A n \in Names : \/ \E i \in 1..Len(p.params) : n = p.params[i]
                               \/ c[n] = Variable(0) /\ n = p.result
                               \/ c[n] = NoSymbol /\ n # p.result
           /\ \A n \in Names : /\ c[n].kind = "none" => c[n] = NoSymbol
                               /\ c[n].ref # NoRef => /\ c[n].ref \in Places(s)
                                                      /\ Declared(s, c[n].ref[1], c[n].ref[2])
<1> DEFINE c == Callee(s, p, args, paren)
           k == Len(p.params)
<1>1. k \in Nat
  BY ProcedureFacts
<1>2. \A i \in 1..k : c[p.params[i]] = Argument(s, p, args, paren, i)
  BY ParamFacts DEF Callee
<1>3. \A n \in Names : \/ \E i \in 1..k : n = p.params[i]
                       \/ c[n] = Variable(0) /\ n = p.result
                       \/ c[n] = NoSymbol /\ n # p.result
  BY DEF Callee, Param
<1>4. ASSUME NEW i \in 1..k
      PROVE  /\ Argument(s, p, args, paren, i) \in Symbol
             /\ Argument(s, p, args, paren, i).kind = "variable"
             /\ LET l == Argument(s, p, args, paren, i).ref IN
                l # NoRef => l \in Places(s) /\ Declared(s, l[1], l[2])
  BY <1>1, <1>4, ArgumentFacts
<1>5. Variable(0) \in Symbol /\ Variable(0).kind = "variable" /\ Variable(0).ref = NoRef
  BY SymbolFacts, ConstantsOK
<1>6. c = [n \in Names |-> c[n]]
  BY DEF Callee
<1> HIDE DEF c
<1>7. ASSUME NEW n \in Names
      PROVE  /\ c[n] \in Symbol /\ (c[n].kind = "none" => c[n] = NoSymbol)
             /\ c[n].ref # NoRef => c[n].ref \in Places(s) /\ Declared(s, c[n].ref[1], c[n].ref[2])
  <2>1. CASE \E i \in 1..k : n = p.params[i]
    <3>1. PICK i \in 1..k : c[n] = Argument(s, p, args, paren, i)
      BY <1>2, <2>1
    <3> QED BY <1>4, <3>1
  <2>2. CASE c[n] = Variable(0)
    BY <1>5, <2>2
  <2>3. CASE c[n] = NoSymbol
    BY <2>3, SymbolFacts
  <2> QED BY <1>3, <2>1, <2>2, <2>3
<1>8. c \in Scope
  BY <1>6, <1>7 DEF Scope
<1> QED BY <1>2, <1>3, <1>7, <1>8 DEF c

LEMMA AppendCoherent ==
    ASSUME NEW s \in Scopes, NEW t \in Scopes, NEW c \in Scope, Rooted(s), Coherent(s),
           Len(t) = Len(s) + 1, \A d \in 1..Len(s) : t[d] = s[d], t[Len(s) + 1] = c,
           \A n \in Names : c[n].ref # NoRef =>
               LET l == c[n].ref IN
               /\ l \in Places(s) /\ s[l[1]][l[2]].ref = NoRef
               /\ s[l[1]][l[2]].kind = c[n].kind /\ s[l[1]][l[2]].value = c[n].value
    PROVE  Coherent(t)
<1> SUFFICES ASSUME NEW d \in 1..Len(t), NEW n \in Names, t[d][n].ref # NoRef
             PROVE  Agree(t, d, n, t[d][n].ref)
  BY DEF Coherent
<1>1. Len(s) \in Nat
  BY ScopesFacts
<1>2. \A l \in Places(s) : l[1] \in 1..Len(s) /\ t[l[1]] = s[l[1]]
  BY DEF Places
<1>3. CASE d \in 1..Len(s)
  <2>1. t[d] = s[d] /\ s[d][n].ref \in Places(s) /\ Agree(s, d, n, s[d][n].ref)
    BY <1>3 DEF Rooted, Coherent
  <2> QED BY <1>2, <2>1 DEF Agree
<1>4. CASE d = Len(s) + 1
  <2>1. t[d] = c /\ c[n].ref \in Places(s)
    BY <1>4
  <2> DEFINE l == c[n].ref
  <2>2. l[1] \in 1..Len(s) /\ t[l[1]] = s[l[1]] /\ l[1] < d
    BY <1>1, <1>2, <1>4, <2>1, SMTT(30)
  <2> QED BY <2>1, <2>2, ZenonT(40) DEF Agree
<1> QED BY <1>1, <1>3, <1>4

LEMMA PushedFacts ==
    ASSUME NEW p, NEW q \in Procedures, p.params = q.params,
           p.result \in Names \cup {NoName, Lost}, NEW addrs,
           \A i \in 1..Len(p.params) : addrs[i] \in Addresses
    PROVE  \E f \in Frame :
              /\ Pushed(p, addrs) = Append(frames, f)
              /\ f.result = p.result /\ Len(f.bindings) = Len(p.params)
              /\ \A i \in 1..Len(p.params) : /\ f.bindings[i].param = p.params[i]
                                             /\ f.bindings[i].addr = addrs[i]
<1> DEFINE k == Len(p.params)
           B == [param : Names, addr : Addresses]
           bind == [i \in 1..k |-> [param |-> p.params[i], addr |-> addrs[i]]]
           f == [result |-> p.result, bindings |-> bind]
<1>1. k \in Nat /\ \A i \in 1..k : p.params[i] \in Names
  BY ProcedureFacts
<1>2. bind \in [1..k -> B]
  BY <1>1
<1>3. \A i \in 1..k : bind[i].param = p.params[i] /\ bind[i].addr = addrs[i]
  OBVIOUS
<1> HIDE DEF B
<1>4. bind \in Seq(B) /\ Len(bind) = k
  BY <1>1, <1>2, SeqDef
<1>5. Pushed(p, addrs) = Append(frames, f)
  BY DEF Pushed
<1> HIDE DEF bind
<1>6. f.result = p.result /\ f.bindings = bind
  OBVIOUS
<1>7. f \in Frame
  BY <1>4 DEF Frame, B, Addresses
<1> HIDE DEF f
<1> QED BY <1>3, <1>4, <1>5, <1>6, <1>7

LEMMA KeptStill ==
    ASSUME NEW s \in Scopes, NEW t, Rooted(s), NEW d \in 1..Len(s), NEW f \in Frame,
           \A n \in Names : Declared(s, d, n) => Declared(t, d, n) /\ t[d][n].ref = s[d][n].ref,
           FrameKept(s, d, f)
    PROVE  FrameKept(t, d, f)
<1>1. f.result # NoName => Declared(t, d, f.result)
  BY FrameFacts DEF FrameKept
<1>2. ASSUME NEW i \in 1..Len(f.bindings), f.bindings[i].addr # NoRef
      PROVE  t[d][f.bindings[i].param].ref = f.bindings[i].addr
  <2> DEFINE m == f.bindings[i].param
  <2>1. m \in Names /\ s[d][m].ref # NoRef /\ s[d][m].ref = f.bindings[i].addr
    BY <1>2, FrameFacts DEF FrameKept
  <2>2. Declared(s, d, m)
    BY <2>1, SymbolFacts DEF Rooted, Declared
  <2> QED BY <2>1, <2>2
<1> QED BY <1>1, <1>2 DEF FrameKept

LEMMA PushKeeps ==
    ASSUME Inductive, NEW s \in Scopes, Grows(scopes, s), NEW t \in Scopes, NEW f \in Frame,
           Len(t) = Len(s) + 1, Len(t) <= Depth, Rooted(t),
           \A d \in 1..Len(s), n \in Names :
               Declared(s, d, n) => Declared(t, d, n) /\ t[d][n].ref = s[d][n].ref,
           BindingsIn(t, f), AliasFree => Coherent(t) /\ FrameKept(t, Len(t), f),
           scopes' = t, frames' = Append(frames, f), UNCHANGED <<out, status>>
    PROVE  Inductive'
<1>1. /\ scopes \in Scopes /\ Rooted(scopes) /\ Len(scopes) \in 1..Depth
      /\ Len(frames) = Len(scopes) /\ Len(s) = Len(scopes)
      /\ frames \in Seq(Frame)
  BY TypeFacts DEF Inductive, Grows, TypeOK
<1> DEFINE len == Len(scopes)
<1>2. /\ frames' \in Seq(Frame) /\ Len(frames') = len + 1
      /\ \A d \in 1..len : frames'[d] = frames[d]
      /\ frames'[len + 1] = f
  BY <1>1, AppendProperties
<1>3. len \in Nat /\ len + 1 \in 1..Depth /\ Len(t) = len + 1
  BY <1>1, ConstantsOK
<1> HIDE DEF len
<1>4. TypeOK'
  BY <1>2, <1>3 DEF Inductive, TypeOK, Scopes, Scope
<1>5. \A d \in 1..len, n \in Names :
          Declared(scopes, d, n) => Declared(t, d, n) /\ t[d][n].ref = scopes[d][n].ref
  BY <1>1 DEF Grows, len
<1>6. \A l \in Places(scopes) :
          /\ l \in Places(t) /\ (Declared(scopes, l[1], l[2]) => Declared(t, l[1], l[2]))
  BY <1>3, <1>5 DEF Places, len
<1>7. ASSUME NEW d \in 1..Len(frames'), NEW i \in 1..Len(frames'[d].bindings),
             frames'[d].bindings[i].addr # NoRef
      PROVE  LET l == frames'[d].bindings[i].addr IN
             l \in Places(t) /\ l[1] <= d /\ Declared(t, l[1], l[2])
  <2>1. CASE d \in 1..len
    BY <1>1, <1>2, <1>6, <1>7, <2>1 DEF Inductive, FramesRooted, len
  <2>2. CASE d = len + 1
    BY <1>2, <1>3, <1>7, <2>2 DEF BindingsIn, Places
  <2> QED BY <1>2, <1>3, <2>1, <2>2
<1>8. FramesRooted'
  BY <1>7 DEF FramesRooted
<1>9. ASSUME AliasFree, NEW d \in 1..Len(frames') PROVE FrameKept(t, d, frames'[d])
  <2>1. CASE d \in 1..len
    <3>1. FrameKept(scopes, d, frames[d]) /\ frames[d] \in Frame /\ d \in 1..Len(scopes)
      BY <1>1, <1>9, <2>1, TypeFacts DEF Inductive, Disciplined, len
    <3> QED BY <1>1, <1>2, <1>5, <2>1, <3>1, KeptStill
  <2>2. CASE d = len + 1
    BY <1>2, <1>3, <1>9, <2>2
  <2> QED BY <1>2, <1>3, <2>1, <2>2
<1>10. AliasFree => Disciplined'
  BY <1>9 DEF Disciplined, Inductive
<1> QED BY <1>4, <1>8, <1>10 DEF Inductive

LEMMA UsingAllReady ==
    ASSUME Inductive, NEW k \in Nat, NEW args \in [1..k -> Names]
    PROVE  LET s == UsingAll(scopes, args) IN Ready(s) /\ \A i \in 1..k : Found(s, args[i])
<1> DEFINE s == UsingAll(scopes, args)
           used == {args[i] : i \in 1..k}
<1>1. scopes \in Scopes /\ Len(scopes) > 0
  BY TypeFacts DEF Inductive
<1>2. s \in Scopes /\ WidenedBy(scopes, s, used)
  BY <1>1, UsingAllWidens
<1>3. used \in SUBSET Names /\ \A i \in 1..k : args[i] \in used
  OBVIOUS
<1> HIDE DEF s, used
<1>4. Ready(s) /\ \A x \in used : Found(s, x)
  BY <1>2, <1>3, WidenedReady
<1> QED BY <1>3, <1>4 DEF s

(* What a call of a SUB does, and of a FUNCTION under the discipline.       *)
Entering(p, args, paren) ==
    LET s == UsingAll(scopes, args) IN
    /\ Len(scopes) < Depth /\ MayPass(s, p, args, paren)
    /\ \A i \in 1..Len(p.params) : p.params[i] # p.result
    /\ scopes' = Append(s, Callee(s, p, args, paren))
    /\ frames' = Pushed(p, Targets(s, p, args, paren))
    /\ UNCHANGED <<out, status>>

LEMMA EnteringKeeps ==
    ASSUME Inductive, NEW p \in Procedures, NEW args \in [1..Len(p.params) -> Names],
           NEW paren \in [1..Len(p.params) -> BOOLEAN], Entering(p, args, paren)
    PROVE  Inductive'
<1> DEFINE s == UsingAll(scopes, args)
           c == Callee(s, p, args, paren)
           t == Append(s, c)
           k == Len(p.params)
           addrs == Targets(s, p, args, paren)
<1>1. /\ Len(scopes) < Depth /\ MayPass(s, p, args, paren)
      /\ \A i \in 1..k : p.params[i] # p.result
      /\ scopes' = t /\ frames' = Pushed(p, addrs) /\ UNCHANGED <<out, status>>
  BY DEF Entering
<1>2. k \in Nat /\ p.result \in Names \cup {NoName} /\ \A i \in 1..k : p.params[i] \in Names
  BY ProcedureFacts
<1>3. Ready(s) /\ \A i \in 1..k : Found(s, args[i])
  BY <1>2, UsingAllReady
<1> HIDE DEF s
<1>4. /\ s \in Scopes /\ Len(s) > 0 /\ Len(s) <= Depth /\ Len(s) = Len(scopes) /\ Rooted(s)
      /\ Grows(scopes, s) /\ (AliasFree => Coherent(s)) /\ Len(s) \in Nat
  BY <1>1, <1>3, TypeFacts, ScopesFacts DEF Ready, Inductive
<1>5. /\ c \in Scope
      /\ \A i \in 1..k : c[p.params[i]] = Argument(s, p, args, paren, i)
      /\ \A n \in Names : \/ \E i \in 1..k : n = p.params[i]
                          \/ c[n] = Variable(0) /\ n = p.result
                          \/ c[n] = NoSymbol /\ n # p.result
      /\ \A n \in Names : /\ c[n].kind = "none" => c[n] = NoSymbol
                          /\ c[n].ref # NoRef => /\ c[n].ref \in Places(s)
                                                 /\ Declared(s, c[n].ref[1], c[n].ref[2])
  BY <1>3, <1>4, CalleeFacts
<1> HIDE DEF c
<1>6. /\ t \in Scopes /\ Len(t) = Len(s) + 1 /\ Rooted(t)
      /\ \A d \in 1..Len(s) : t[d] = s[d]
      /\ t[Len(s) + 1] = c
  BY <1>4, <1>5, AppendRooted
<1> HIDE DEF t
<1>7. ASSUME NEW i \in 1..k
      PROVE  LET y == Argument(s, p, args, paren, i)
                 l == Lvalue(s, args[i])
             IN  /\ addrs[i] = y.ref /\ y \in Symbol /\ y.kind = "variable"
                 /\ ByRef(p, paren, i) => y.ref = l /\ y.value = Cell(s, l)
                 /\ ~ByRef(p, paren, i) => y.ref = NoRef /\ y.value = SymbolOf(s, args[i]).value
                 /\ y.ref # NoRef => y.ref \in Places(s) /\ Declared(s, y.ref[1], y.ref[2])
  <2>1. args[i] \in Names /\ Found(s, args[i])
    BY <1>3
  <2>2. addrs[i] = Argument(s, p, args, paren, i).ref
    BY DEF Targets
  <2> HIDE DEF addrs
  <2> QED BY <1>4, <2>1, <2>2, ArgumentFacts
<1> HIDE DEF addrs
<1>8. \A i \in 1..k : addrs[i] \in Addresses
  BY <1>7, ScopesFacts DEF Symbol, Addresses
<1>9. PICK f \in Frame :
              /\ Pushed(p, addrs) = Append(frames, f)
              /\ f.result = p.result /\ Len(f.bindings) = k
              /\ \A i \in 1..k : f.bindings[i].param = p.params[i] /\ f.bindings[i].addr = addrs[i]
  BY <1>2, <1>8, PushedFacts
<1>10. \A l \in Places(s) : Declared(s, l[1], l[2]) => l \in Places(t) /\ Declared(t, l[1], l[2])
  BY <1>4, <1>6 DEF Places, Declared
<1>11. BindingsIn(t, f)
  BY <1>7, <1>9, <1>10 DEF BindingsIn
<1>12. ASSUME AliasFree PROVE Coherent(t)
  <2>1. ASSUME NEW n \in Names, c[n].ref # NoRef
        PROVE  LET l == c[n].ref IN
               /\ l \in Places(s) /\ s[l[1]][l[2]].ref = NoRef
               /\ s[l[1]][l[2]].kind = c[n].kind /\ s[l[1]][l[2]].value = c[n].value
    <3>1. PICK i \in 1..k : c[n] = Argument(s, p, args, paren, i)
      BY <1>5, <2>1, SymbolFacts, ConstantsOK
    <3> DEFINE l == Lvalue(s, args[i])
    <3>2. /\ ByRef(p, paren, i) /\ c[n].ref = l /\ c[n].kind = "variable"
          /\ c[n].value = Cell(s, l) /\ args[i] \in Names
      BY <1>7, <2>1, <3>1
    <3>3. /\ s[l[1]][l[2]].ref = NoRef /\ s[l[1]][l[2]].kind = SymbolOf(s, args[i]).kind
          /\ Declared(s, l[1], l[2])
      BY <1>3, <1>4, <1>12, <3>2, CoherentLvalue, LvalueFacts
    <3>4. SymbolOf(s, args[i]).kind # "const"
      BY <1>1, <1>12, <3>2 DEF MayPass
    <3>5. l \in Places(s) /\ l[1] \in 1..Len(s) /\ l[2] \in Names
      BY <1>5, <2>1, <3>2 DEF Places
    <3>6. s[l[1]][l[2]].kind = "variable"
      BY <1>4, <3>3, <3>4, <3>5, ScopesFacts DEF Declared
    <3> HIDE DEF l
    <3> QED BY <3>2, <3>3, <3>5, <3>6 DEF Cell
  <2> QED BY <1>4, <1>5, <1>6, <1>12, <2>1, AppendCoherent
<1>13. ASSUME AliasFree PROVE FrameKept(t, Len(t), f)
  <2>1. f.result # Lost
    BY <1>2, <1>9, ConstantsOK DEF NoName, Lost
  <2>2. f.result # NoName => Declared(t, Len(t), f.result)
    <3>1. SUFFICES ASSUME p.result \in Names PROVE c[p.result].kind # "none"
      BY <1>2, <1>6, <1>9 DEF Declared
    <3>2. c[p.result] = Variable(0)
      BY <1>1, <1>5, <3>1
    <3> QED BY <3>2, SymbolFacts, ConstantsOK
  <2>3. ASSUME NEW i \in 1..k PROVE t[Len(t)][f.bindings[i].param].ref = f.bindings[i].addr
    BY <1>5, <1>6, <1>7, <1>9
  <2> QED BY <1>9, <2>1, <2>2, <2>3 DEF FrameKept
<1>14. Len(t) <= Depth
  BY <1>1, <1>4, <1>6, ConstantsOK
<1>15. \A d \in 1..Len(s), n \in Names :
           Declared(s, d, n) => Declared(t, d, n) /\ t[d][n].ref = s[d][n].ref
  BY <1>6 DEF Declared
<1> QED BY <1>1, <1>4, <1>6, <1>9, <1>11, <1>12, <1>13, <1>14, <1>15, PushKeeps

LEMMA CallEnters ==
    ASSUME NEW p \in Procedures, NEW args, NEW paren, ExecCall(p, args, paren)
    PROVE  Entering(p, args, paren)
<1> DEFINE s == UsingAll(scopes, args)
           c == [n \in Names |->
                   IF Param(p, n) = {} THEN NoSymbol
                   ELSE Argument(s, p, args, paren, CHOOSE i \in Param(p, n) : TRUE)]
<1>1. /\ p.result = NoName /\ Len(scopes) < Depth /\ MayPass(s, p, args, paren)
      /\ scopes' = Append(s, c)
      /\ frames' = Pushed(p, Targets(s, p, args, paren)) /\ UNCHANGED <<out, status>>
  BY DEF ExecCall, Param, Targets
<1>2. NoName \notin Names
  BY ConstantsOK
<1>3. c = Callee(s, p, args, paren)
  BY <1>1, <1>2 DEF Callee
<1>4. \A i \in 1..Len(p.params) : p.params[i] # p.result
  BY <1>1, <1>2, ProcedureFacts
<1> QED BY <1>1, <1>3, <1>4 DEF Entering

(* Under the discipline, a stage of binding a FUNCTION's arguments has the  *)
(* first i parameters as a SUB would.                                       *)
Matching(stage, s, p, args, paren, i) ==
    (~stage.null /\ \A j \in 1..i : ByRef(p, paren, j) => stage.addrs[j] = Lvalue(s, args[j]))
    => /\ \A d \in 1..Len(s) : stage.s[d] = s[d]
       /\ \A j \in 1..i : stage.s[Len(s) + 1][p.params[j]] = Argument(s, p, args, paren, j)
       /\ \A n \in Names : (\A j \in 1..i : n # p.params[j]) => stage.s[Len(s) + 1][n] = NoSymbol
       /\ \A j \in 1..i : stage.addrs[j] = Argument(s, p, args, paren, j).ref

(* What is there below the callee is found from the callee as from the      *)
(* caller, or not at all.                                                   *)
LEMMA SeenFromCallee ==
    ASSUME NEW s \in Scopes, Len(s) > 0, Rooted(s), NEW t \in Scopes, Len(t) = Len(s) + 1,
           \A d \in 1..Len(s) : t[d] = s[d], NEW a \in Names, Found(s, a),
           Lvalue(Using(t, a), a) = Lvalue(s, a)
    PROVE  Using(t, a) = t /\ Cell(t, Lvalue(s, a)) = Cell(s, Lvalue(s, a))
<1> DEFINE l == Lvalue(s, a)
           own == Len(s) + 1
           u == Using(t, a)
<1>1. l \in Places(s)
  BY LvalueFacts
<1>2. l[1] \in 1..Len(s) /\ Len(s) \in Nat
  BY <1>1, ScopesFacts DEF Places
<1>3. ASSUME ~Found(t, a) PROVE FALSE
  <2>1. /\ Len(u) = own
        /\ \A d \in 1..own, m \in Names :
              u[d][m] = IF d = own /\ m = a THEN Variable(0) ELSE t[d][m]
    <3>1. Len(t) > 0 /\ Len(t) = own
      BY <1>2
    <3> HIDE DEF own
    <3> QED BY <1>3, <3>1, UsingFacts
  <2> HIDE DEF u
  <2>2. u[own][a] = Variable(0)
    BY <1>2, <2>1
  <2>3. Variable(0).kind # "none" /\ Variable(0).ref = NoRef
    BY SymbolFacts, ConstantsOK
  <2>4. Lvalue(u, a) = <<own, a>>
    BY <2>1, <2>2, <2>3 DEF Lvalue, SymbolOf, Home, Declared
  <2>5. l = <<own, a>>
    BY <2>4 DEF u
  <2> QED BY <1>2, <2>5
<1>4. u = t
  BY <1>3 DEF Using
<1>5. Cell(t, l) = Cell(s, l)
  BY <1>2 DEF Cell
<1> QED BY <1>4, <1>5

LEMMA BindMatches ==
    ASSUME NEW s \in Scopes, Len(s) > 0, Len(s) < Depth, Rooted(s), NEW s0 \in Scopes,
           Len(s0) = Len(s) + 1, NEW p \in Procedures, NEW args \in [1..Len(p.params) -> Names],
           NEW paren, NEW argv, \A j \in 1..Len(p.params) : Found(s, args[j]),
           \A j \in 1..Len(p.params) : argv[j] = SymbolOf(s, args[j]).value,
           NEW i \in 1..Len(p.params), NEW stage, Staged(stage, s0, i - 1),
           Matching(stage, s, p, args, paren, i - 1)
    PROVE  Matching(BindArgument(stage, p, args, paren, argv, i), s, p, args, paren, i)
<1> DEFINE a == args[i]
           m == p.params[i]
           own == Len(s) + 1
           t == stage.s
           s1 == IF ByRef(p, paren, i) THEN Using(t, a) ELSE t
           l == Lvalue(s1, a)
           y == IF ByRef(p, paren, i) THEN Reference(Cell(s1, l), l) ELSE Variable(argv[i])
           addr == IF ByRef(p, paren, i) THEN l ELSE NoRef
           b == BindArgument(stage, p, args, paren, argv, i)
           x == Argument(s, p, args, paren, i)
<1>1. /\ b.s = Entered(s1, Len(s1), m, y) /\ b.addrs = Append(stage.addrs, addr)
      /\ b.null = (stage.null \/ Declared(s1, Len(s1), m))
  BY DEF BindArgument, Entered
<1>2. a \in Names /\ m \in Names /\ i \in Nat /\ i > 0 /\ i - 1 \in Nat /\ Len(s) \in Nat
  BY ProcedureFacts, ScopesFacts
<1> SUFFICES ASSUME ~b.null, \A j \in 1..i : ByRef(p, paren, j) => b.addrs[j] = Lvalue(s, args[j])
             PROVE  /\ \A d \in 1..Len(s) : b.s[d] = s[d]
                    /\ \A j \in 1..i : b.s[own][p.params[j]] = Argument(s, p, args, paren, j)
                    /\ \A n \in Names : (\A j \in 1..i : n # p.params[j]) => b.s[own][n] = NoSymbol
                    /\ \A j \in 1..i : b.addrs[j] = Argument(s, p, args, paren, j).ref
  BY DEF Matching
<1>3. ~stage.null
  BY <1>1
<1>4. /\ stage.addrs \in Seq(Addresses) /\ Len(stage.addrs) = i - 1
      /\ t \in Scopes /\ Len(t) = own
  BY <1>3 DEF Staged, Grows
<1>5. x \in Symbol /\ (ByRef(p, paren, i) => x.ref = Lvalue(s, a)) /\ (~ByRef(p, paren, i) => x.ref = NoRef)
  <2>1. a \in Names /\ Found(s, a) /\ Len(s) <= Depth
    BY <1>2, ConstantsOK
  <2> QED BY <2>1, ArgumentFacts
<1> HIDE DEF b
<1>6. ByRef(p, paren, i) => l \in Addresses
  <2>1. SUFFICES ASSUME ByRef(p, paren, i) PROVE l \in Addresses
    OBVIOUS
  <2>2. s1 \in Scopes /\ Found(s1, a) /\ Len(s1) = own
    <3>1. s1 = Using(t, a) /\ Len(t) > 0 /\ Len(t) = own
      BY <1>2, <1>4, <2>1
    <3> HIDE DEF s1, t, own
    <3> QED BY <1>2, <1>4, <3>1, UsingFacts
  <2>3. Home(s1, a) \in 1..own
    BY <1>2, <2>2 DEF Home
  <2>4. SymbolOf(s1, a).ref \in Addresses
    BY <1>2, <2>2, <2>3, ScopesFacts DEF SymbolOf, Addresses
  <2>5. own \in 1..Depth
    BY <1>2, ConstantsOK
  <2>6. <<Home(s1, a), a>> \in Addresses
    BY <1>2, <2>3, <2>5, ConstantsOK DEF Addresses, Locations
  <2> QED BY <2>4, <2>6 DEF Lvalue
<1>7. addr \in Addresses
  BY <1>6 DEF Addresses
<1> HIDE DEF addr, y, l, s1
<1>8. /\ \A j \in 1..(i - 1) : b.addrs[j] = stage.addrs[j]
      /\ b.addrs[i] = addr
  BY <1>1, <1>2, <1>4, <1>7, AppendProperties
<1>9. \A j \in 1..(i - 1) : ByRef(p, paren, j) => stage.addrs[j] = Lvalue(s, args[j])
  BY <1>2, <1>8
<1>10. /\ \A d \in 1..Len(s) : t[d] = s[d]
       /\ \A j \in 1..(i - 1) : t[own][p.params[j]] = Argument(s, p, args, paren, j)
       /\ \A n \in Names : (\A j \in 1..(i - 1) : n # p.params[j]) => t[own][n] = NoSymbol
       /\ \A j \in 1..(i - 1) : stage.addrs[j] = Argument(s, p, args, paren, j).ref
  BY <1>3, <1>9 DEF Matching
<1>11. s1 = t /\ y = x /\ addr = x.ref
  <2>1. CASE ByRef(p, paren, i)
    <3>1. l = Lvalue(s, a) /\ Lvalue(Using(t, a), a) = Lvalue(s, a)
      BY <1>2, <1>8, <2>1 DEF addr, l, s1
    <3>2. Using(t, a) = t /\ Cell(t, Lvalue(s, a)) = Cell(s, Lvalue(s, a))
      BY <1>2, <1>4, <1>10, <3>1, SeenFromCallee
    <3>3. s1 = t
      BY <2>1, <3>2 DEF s1
    <3>4. y = Reference(Cell(s, Lvalue(s, a)), Lvalue(s, a))
      BY <2>1, <3>1, <3>2, <3>3 DEF y
    <3> QED BY <1>5, <2>1, <3>1, <3>3, <3>4 DEF Argument, addr
  <2>2. CASE ~ByRef(p, paren, i)
    BY <1>5, <2>2 DEF s1, y, addr, Argument
  <2> QED BY <2>1, <2>2
<1> HIDE DEF x, t
<1>12. /\ own \in 1..Len(t) /\ b.s = Entered(t, own, m, x)
  BY <1>1, <1>2, <1>4, <1>11
<1> DEFINE u == Entered(t, own, m, x)
<1>13. /\ u \in Scopes /\ Len(u) = own
       /\ \A d \in 1..own, n \in Names : u[d][n] = IF d = own /\ n = m THEN x ELSE t[d][n]
  <2> HIDE DEF own, m
  <2>1. /\ u \in Scopes /\ Len(u) = Len(t)
        /\ \A d \in 1..Len(t), n \in Names : u[d][n] = IF d = own /\ n = m THEN x ELSE t[d][n]
    <3>1. t \in Scopes /\ own \in 1..Len(t) /\ m \in Names /\ x \in Symbol
      BY <1>2, <1>4, <1>5, <1>12
    <3>2. u = Entered(t, own, m, x)
      OBVIOUS
    <3> HIDE DEF u
    <3>3. /\ Entered(t, own, m, x) \in Scopes /\ Len(Entered(t, own, m, x)) = Len(t)
          /\ \A d \in 1..Len(t), n \in Names :
                Entered(t, own, m, x)[d][n] = IF d = own /\ n = m THEN x ELSE t[d][n]
      BY <3>1, EnterFacts
    <3> QED BY <3>2, <3>3
  <2> HIDE DEF u
  <2> QED BY <1>4, <2>1
<1>14. u \in Scopes /\ Len(u) = own
  BY <1>13
<1>15. ASSUME NEW d \in 1..Len(s) PROVE u[d] = s[d]
  <2>1. u[d] \in Scope /\ s[d] \in Scope
    BY <1>2, <1>14, ScopesFacts
  <2>2. \A n \in Names : u[d][n] = s[d][n]
    <3>1. d \in 1..own /\ d # own
      BY <1>2
    <3> TAKE n \in Names
    <3>2. u[d][n] = t[d][n]
      BY <1>13, <3>1
    <3> QED BY <1>10, <3>2
  <2> QED BY <2>1, <2>2 DEF Scope
<1> HIDE DEF u
<1>16. ASSUME NEW j \in 1..i PROVE u[own][p.params[j]] = Argument(s, p, args, paren, j)
  <2>1. CASE j = i
    BY <1>2, <1>13, <2>1 DEF x
  <2>2. CASE j # i
    <3>1. j \in 1..(i - 1) /\ j \in 1..Len(p.params)
      BY <1>2, <2>2
    <3>2. p.params[j] # m /\ p.params[j] \in Names
      BY <2>2, <3>1, ProcedureFacts
    <3>3. own \in 1..own
      BY <1>2
    <3>4. u[own][p.params[j]] = t[own][p.params[j]]
      BY <1>13, <3>2, <3>3
    <3> QED BY <1>10, <3>1, <3>4
  <2> QED BY <2>1, <2>2
<1>17. ASSUME NEW n \in Names, \A j \in 1..i : n # p.params[j] PROVE u[own][n] = NoSymbol
  <2>1. n # m /\ \A j \in 1..(i - 1) : n # p.params[j]
    BY <1>2, <1>17
  <2> QED BY <1>2, <1>10, <1>13, <2>1
<1>18. ASSUME NEW j \in 1..i PROVE b.addrs[j] = Argument(s, p, args, paren, j).ref
  <2>1. CASE j = i
    BY <1>8, <1>11, <2>1 DEF x
  <2>2. CASE j # i
    <3>1. j \in 1..(i - 1)
      BY <1>2, <2>2
    <3> QED BY <1>8, <1>10, <3>1
  <2> QED BY <2>1, <2>2
<1>19. b.s = u
  BY <1>12 DEF u
<1> QED BY <1>15, <1>16, <1>17, <1>18, <1>19

LEMMA BoundMatches ==
    ASSUME NEW s \in Scopes, Len(s) > 0, Len(s) < Depth, Rooted(s), NEW s0 \in Scopes,
           Len(s0) = Len(s) + 1, Rooted(s0), \A d \in 1..Len(s) : s0[d] = s[d],
           s0[Len(s) + 1] = EmptyScope, NEW p \in Procedures,
           NEW args \in [1..Len(p.params) -> Names], NEW paren,
           NEW argv \in [1..Len(p.params) -> Values],
           \A j \in 1..Len(p.params) : Found(s, args[j]),
           \A j \in 1..Len(p.params) : argv[j] = SymbolOf(s, args[j]).value
    PROVE  Matching(Bound(s0, p, args, paren, argv), s, p, args, paren, Len(p.params))
<1> DEFINE k == Len(p.params)
<1>k. k \in Nat /\ Len(s) \in Nat /\ Len(s0) \in 1..Depth /\ Len(s0) > 0
  BY ProcedureFacts, ScopesFacts, ConstantsOK
<1>b. PICK stage : BoundBy(stage, s0, p, args, paren, argv)
  BY <1>k, BoundUnfolds
<1>1. /\ Bound(s0, p, args, paren, argv) = stage[k]
      /\ stage[0] = [s |-> s0, addrs |-> <<>>, null |-> FALSE]
      /\ \A i \in 1..k : stage[i] = BindArgument(stage[i - 1], p, args, paren, argv, i)
  BY <1>b DEF BoundBy
<1> DEFINE Fine(x, i) == Staged(x, s0, i) /\ Matching(x, s, p, args, paren, i)
           T == {i \in 0..k : Fine(stage[i], i)}
<1>3. 0 \in T
  <2> DEFINE x == stage[0]
  <2>1. x.s = s0 /\ x.addrs = <<>> /\ x.null = FALSE
    BY <1>1
  <2>2. Grows(s0, s0)
    BY DEF Grows
  <2>3. <<>> \in Seq(Addresses) /\ Len(<<>>) = 0
    OBVIOUS
  <2>4. \A n \in Names : EmptyScope[n] = NoSymbol
    BY DEF EmptyScope
  <2> HIDE DEF x
  <2>5. \A j \in 1..0 : Placed(x.s, x.addrs[j])
    OBVIOUS
  <2>6. Staged(x, s0, 0)
    BY <2>1, <2>2, <2>3, <2>5 DEF Staged
  <2>7. Matching(x, s, p, args, paren, 0)
    BY <2>1, <2>4 DEF Matching
  <2> QED BY <1>k, <2>6, <2>7 DEF x
<1>4. ASSUME NEW i \in 1..k, i - 1 \in T PROVE i \in T
  <2> DEFINE x == stage[i - 1]
             b == BindArgument(x, p, args, paren, argv, i)
  <2>1. stage[i] = b /\ Staged(x, s0, i - 1) /\ Matching(x, s, p, args, paren, i - 1)
    BY <1>1, <1>4
  <2> HIDE DEF x
  <2>2. Staged(b, s0, i)
    BY <1>k, <2>1, BindArgumentFacts
  <2>3. Matching(b, s, p, args, paren, i)
    BY <2>1, BindMatches
  <2> HIDE DEF b
  <2> QED BY <1>k, <2>1, <2>2, <2>3
<1> HIDE DEF T
<1>5. 0..k \subseteq T
  BY <1>k, <1>3, <1>4, UpTo
<1>6. k \in 0..k
  BY <1>k
<1> QED BY <1>1, <1>5, <1>6 DEF T

(* What a call of a FUNCTION starts from.                                   *)
LEMMA FunctionStarts ==
    ASSUME Inductive, Len(scopes) < Depth, NEW p \in Procedures,
           NEW args \in [1..Len(p.params) -> Names]
    PROVE  LET s    == UsingAll(scopes, args)
               s0   == Append(s, EmptyScope)
               argv == [i \in 1..Len(p.params) |-> SymbolOf(s, args[i]).value]
           IN  /\ s \in Scopes /\ Len(s) = Len(scopes) /\ Len(s) > 0 /\ Rooted(s)
               /\ Grows(scopes, s)
               /\ \A i \in 1..Len(p.params) : Found(s, args[i])
               /\ s0 \in Scopes /\ Len(s0) = Len(s) + 1 /\ Rooted(s0)
               /\ \A d \in 1..Len(s) : s0[d] = s[d]
               /\ s0[Len(s) + 1] = EmptyScope
               /\ argv \in [1..Len(p.params) -> Values]
<1> DEFINE s    == UsingAll(scopes, args)
           s0   == Append(s, EmptyScope)
<1>1. Len(p.params) \in Nat
  BY ProcedureFacts
<1>2. /\ s \in Scopes /\ Len(s) = Len(scopes) /\ Len(s) > 0 /\ Rooted(s)
      /\ Grows(scopes, s)
      /\ \A i \in 1..Len(p.params) : Found(s, args[i])
  BY <1>1, UsingAllReady DEF Ready
<1> HIDE DEF s
<1>3. EmptyScope \in Scope /\ \A n \in Names : EmptyScope[n] = NoSymbol
  BY SymbolFacts DEF EmptyScope
<1>4. /\ s0 \in Scopes /\ Len(s0) = Len(s) + 1 /\ Rooted(s0)
      /\ \A d \in 1..Len(s) : s0[d] = s[d]
      /\ s0[Len(s) + 1] = EmptyScope
  BY <1>2, <1>3, SymbolFacts, AppendRooted
<1>5. \A i \in 1..Len(p.params) : SymbolOf(s, args[i]).value \in Values
  BY <1>2, LvalueFacts
<1> QED BY <1>2, <1>4, <1>5 DEF s

(* A FUNCTION that keeps to the discipline starts as a SUB does.            *)
LEMMA FunctionEnters ==
    ASSUME Inductive, AliasFree, NEW p \in Procedures, NEW args \in [1..Len(p.params) -> Names],
           NEW paren \in [1..Len(p.params) -> BOOLEAN], EvalFunction(p, args, paren)
    PROVE  Entering(p, args, paren)
<1> DEFINE s    == UsingAll(scopes, args)
           s0   == Append(s, EmptyScope)
           k    == Len(p.params)
           argv == [i \in 1..k |-> SymbolOf(s, args[i]).value]
           b    == Bound(s0, p, args, paren, argv)
           own  == Len(s) + 1
           c    == Callee(s, p, args, paren)
<1>0. k \in Nat /\ p.result \in Names \cup {NoName}
  BY ProcedureFacts
<1>1. /\ p.result # NoName /\ Len(scopes) < Depth /\ MayPass(s, p, args, paren)
      /\ ~b.null /\ ~Declared(b.s, Len(b.s), p.result)
      /\ \A i \in 1..k : ByRef(p, paren, i) => b.addrs[i] = Lvalue(s, args[i])
      /\ scopes' = Entered(b.s, Len(b.s), p.result, Variable(0))
      /\ frames' = Pushed([p EXCEPT !.result = @], b.addrs) /\ UNCHANGED <<out, status>>
  BY DEF EvalFunction, Entered
<1>2. /\ s \in Scopes /\ Len(s) = Len(scopes) /\ Len(s) > 0 /\ Rooted(s)
      /\ \A i \in 1..Len(p.params) : Found(s, args[i])
      /\ s0 \in Scopes /\ Len(s0) = own /\ Rooted(s0)
      /\ \A d \in 1..Len(s) : s0[d] = s[d]
      /\ s0[own] = EmptyScope
      /\ argv \in [1..k -> Values]
  BY <1>1, FunctionStarts
<1>3. \A i \in 1..k : argv[i] = SymbolOf(s, args[i]).value
  OBVIOUS
<1> HIDE DEF s, argv
<1>4. Len(s) \in Nat /\ own \in 1..Depth /\ own > 0 /\ Len(s) < Depth /\ Len(s) <= Depth
  BY <1>1, <1>2, ScopesFacts, ConstantsOK
<1>5. Staged(b, s0, k)
  BY <1>2, <1>4, BoundFacts
<1>6. Matching(b, s, p, args, paren, k)
  BY <1>2, <1>3, <1>4, BoundMatches
<1> HIDE DEF b, s0
<1>7. /\ b.s \in Scopes /\ Len(b.s) = own
      /\ \A d \in 1..Len(s) : b.s[d] = s[d]
      /\ \A i \in 1..k : b.s[own][p.params[i]] = Argument(s, p, args, paren, i)
      /\ \A n \in Names : (\A i \in 1..k : n # p.params[i]) => b.s[own][n] = NoSymbol
      /\ \A i \in 1..k : b.addrs[i] = Argument(s, p, args, paren, i).ref
  BY <1>1, <1>2, <1>5, <1>6 DEF Staged, Matching, Grows
<1>8. \A i \in 1..k : Argument(s, p, args, paren, i).kind = "variable"
  <2> TAKE i \in 1..k
  <2>1. args[i] \in Names /\ Found(s, args[i])
    BY <1>2
  <2> QED BY <1>2, <1>4, <2>1, ArgumentFacts
<1>9. \A i \in 1..k : p.params[i] # p.result
  BY <1>1, <1>7, <1>8 DEF Declared
<1>10. frames' = Pushed(p, Targets(s, p, args, paren))
  <2>1. [p EXCEPT !.result = @].params = p.params /\ [p EXCEPT !.result = @].result = p.result
    BY ConstantsOK DEF ProcType
  <2>2. \A i \in 1..k : b.addrs[i] = Targets(s, p, args, paren)[i]
    BY <1>7 DEF Targets
  <2> QED BY <1>1, <2>1, <2>2 DEF Pushed
<1>11. /\ c \in Scope
       /\ \A i \in 1..k : c[p.params[i]] = Argument(s, p, args, paren, i)
       /\ \A n \in Names : \/ \E i \in 1..k : n = p.params[i]
                           \/ c[n] = Variable(0) /\ n = p.result
                           \/ c[n] = NoSymbol /\ n # p.result
  <2> HIDE DEF own, k
  <2>1. /\ Callee(s, p, args, paren) \in Scope
        /\ \A i \in 1..Len(p.params) : Callee(s, p, args, paren)[p.params[i]] = Argument(s, p, args, paren, i)
        /\ \A n \in Names : \/ \E i \in 1..Len(p.params) : n = p.params[i]
                            \/ Callee(s, p, args, paren)[n] = Variable(0) /\ n = p.result
                            \/ Callee(s, p, args, paren)[n] = NoSymbol /\ n # p.result
    BY <1>2, <1>4, CalleeFacts, SMTT(30)
  <2> QED BY <2>1 DEF k
<1> HIDE DEF c
<1> DEFINE u == Entered(b.s, own, p.result, Variable(0))
<1>12. /\ u \in Scopes /\ Len(u) = own
       /\ \A d \in 1..own, n \in Names :
             u[d][n] = IF d = own /\ n = p.result THEN Variable(0) ELSE b.s[d][n]
  <2>1. p.result \in Names /\ own \in 1..Len(b.s) /\ Variable(0) \in Symbol
    BY <1>0, <1>1, <1>4, <1>7, SymbolFacts, ConstantsOK
  <2>2. /\ u \in Scopes /\ Len(u) = Len(b.s)
        /\ \A d \in 1..Len(b.s), n \in Names :
              u[d][n] = IF d = own /\ n = p.result THEN Variable(0) ELSE b.s[d][n]
    <3> DEFINE z == b.s
               n0 == p.result
               y == Variable(0)
    <3>1. z \in Scopes /\ own \in 1..Len(z) /\ n0 \in Names /\ y \in Symbol /\ u = Entered(z, own, n0, y)
      BY <1>7, <2>1
    <3> HIDE DEF own, z, n0, y, u
    <3>2. /\ Entered(z, own, n0, y) \in Scopes /\ Len(Entered(z, own, n0, y)) = Len(z)
          /\ \A d \in 1..Len(z), n \in Names :
                Entered(z, own, n0, y)[d][n] = IF d = own /\ n = n0 THEN y ELSE z[d][n]
      BY <3>1, EnterFacts
    <3>3. /\ u \in Scopes /\ Len(u) = Len(z)
          /\ \A d \in 1..Len(z), n \in Names : u[d][n] = IF d = own /\ n = n0 THEN y ELSE z[d][n]
      BY <3>1, <3>2
    <3> QED BY <3>3 DEF z, n0, y
  <2> HIDE DEF u
  <2> QED BY <1>7, <2>2
<1> HIDE DEF u
<1>13. u = Append(s, c)
  <2>1. Append(s, c) \in Scopes /\ Len(Append(s, c)) = own
        /\ \A d \in 1..Len(s) : Append(s, c)[d] = s[d]
        /\ Append(s, c)[own] = c
    BY <1>2, <1>11, AppendProperties DEF Scopes
  <2>2. ASSUME NEW d \in 1..Len(s) PROVE u[d] = s[d]
    <3>1. u[d] \in Scope /\ s[d] \in Scope
      BY <1>2, <1>4, <1>12, ScopesFacts
    <3>2. ASSUME NEW n \in Names PROVE u[d][n] = s[d][n]
      <4>1. d \in 1..own /\ d # own
        BY <1>4
      <4>2. u[d][n] = b.s[d][n]
        BY <1>12, <4>1
      <4> QED BY <1>7, <4>2
    <3> QED BY <3>1, <3>2 DEF Scope
  <2>3. u[own] = c
    <3>1. u[own] \in Scope
      BY <1>4, <1>12, ScopesFacts
    <3>2. ASSUME NEW n \in Names PROVE u[own][n] = c[n]
      <4>1. CASE \E i \in 1..k : n = p.params[i]
        BY <1>4, <1>7, <1>9, <1>11, <1>12, <4>1
      <4>2. CASE \A i \in 1..k : n # p.params[i]
        BY <1>4, <1>7, <1>11, <1>12, <4>2
      <4> QED BY <4>1, <4>2
    <3> QED BY <1>11, <3>1, <3>2 DEF Scope
  <2>4. \A d \in 1..own : u[d] = Append(s, c)[d]
    BY <1>4, <2>1, <2>2, <2>3
  <2> QED BY <1>12, <2>1, <2>4, SeqEqual DEF Scopes
<1>14. scopes' = Append(s, c)
  BY <1>1, <1>7, <1>13 DEF u
<1> QED BY <1>1, <1>9, <1>10, <1>14 DEF Entering, s, c

LEMMA CrashQuiet ==
    ASSUME Inductive, Crash, ~AliasFree
    PROVE  Quiet
<1>1. Ready(scopes') /\ "crashed" \in Statuses
  BY Unmoved DEF Crash, Statuses
<1> QED BY <1>1, Unmoved, ReadyQuiet DEF Crash

LEMMA FunctionKeeps ==
    ASSUME Inductive, NEW p \in Procedures, NEW args \in [1..Len(p.params) -> Names],
           NEW paren \in [1..Len(p.params) -> BOOLEAN], EvalFunction(p, args, paren)
    PROVE  Inductive'
<1> DEFINE s    == UsingAll(scopes, args)
           s0   == Append(s, EmptyScope)
           k    == Len(p.params)
           argv == [i \in 1..k |-> SymbolOf(s, args[i]).value]
           b    == Bound(s0, p, args, paren, argv)
           own  == Len(s) + 1
           taken == Declared(b.s, Len(b.s), p.result)
           q    == [p EXCEPT !.result = IF taken THEN Lost ELSE @]
           t    == IF taken THEN b.s ELSE Entered(b.s, Len(b.s), p.result, Variable(0))
<1>0. k \in Nat /\ p.result \in Names \cup {NoName}
  BY ProcedureFacts
<1>1. CASE AliasFree
  BY <1>1, FunctionEnters, EnteringKeeps
<1>2. CASE ~AliasFree
  <2>1. /\ p.result # NoName /\ Len(scopes) < Depth
        /\ IF b.null THEN Crash
           ELSE /\ scopes' = t /\ frames' = Pushed(q, b.addrs) /\ UNCHANGED <<out, status>>
    BY DEF EvalFunction, Entered
  <2>2. CASE b.null
    BY <1>2, <2>1, <2>2, CrashQuiet, QuietKeeps
  <2>3. CASE ~b.null
    <3>1. /\ s \in Scopes /\ Len(s) = Len(scopes) /\ Len(s) > 0 /\ Rooted(s) /\ Grows(scopes, s)
          /\ s0 \in Scopes /\ Len(s0) = own /\ Rooted(s0)
          /\ \A d \in 1..Len(s) : s0[d] = s[d]
          /\ argv \in [1..k -> Values]
      BY <2>1, FunctionStarts
    <3> HIDE DEF s, argv
    <3>2. Len(s) \in Nat /\ own \in 1..Depth /\ own > 0 /\ Len(s) < Depth
      BY <2>1, <3>1, ScopesFacts, ConstantsOK
    <3> HIDE DEF s0
    <3>3. Staged(b, s0, k)
      BY <3>1, <3>2, BoundFacts
    <3> HIDE DEF b
    <3>4. /\ b.s \in Scopes /\ Len(b.s) = own /\ Rooted(b.s)
          /\ \A d \in 1..own, n \in Names :
                Declared(s0, d, n) => Declared(b.s, d, n) /\ b.s[d][n].ref = s0[d][n].ref
          /\ b.addrs \in Seq(Addresses) /\ Len(b.addrs) = k
          /\ \A i \in 1..k : Placed(b.s, b.addrs[i])
      BY <2>3, <3>1, <3>3 DEF Staged, Grows
    <3>5. q.params = p.params /\ q.result = IF taken THEN Lost ELSE p.result
      BY ConstantsOK DEF ProcType
    <3> HIDE DEF q
    <3>6. \A i \in 1..k : b.addrs[i] \in Addresses
      BY <3>4, ElementOfSeq
    <3>7. q.result \in Names \cup {NoName, Lost}
      BY <1>0, <3>5
    <3>8. PICK f \in Frame :
              /\ Pushed(q, b.addrs) = Append(frames, f)
              /\ Len(f.bindings) = k
              /\ \A i \in 1..k : f.bindings[i].addr = b.addrs[i]
      BY <3>5, <3>6, <3>7, PushedFacts
    <3>9. /\ t \in Scopes /\ Len(t) = own /\ Rooted(t) /\ Grows(b.s, t)
      <4>1. Grows(b.s, b.s)
        BY <3>4 DEF Grows
      <4>2. CASE taken
        BY <3>4, <4>1, <4>2
      <4>3. CASE ~taken
        <5>1. /\ Variable(0) \in Symbol /\ Variable(0).kind # "none" /\ Variable(0).ref = NoRef
              /\ p.result \in Names
          BY <1>0, <2>1, SymbolFacts, ConstantsOK
        <5>2. own \in 1..Len(b.s) /\ ~Declared(b.s, own, p.result)
              /\ t = Entered(b.s, own, p.result, Variable(0))
          BY <3>2, <3>4, <4>3
        <5> HIDE DEF t, own, taken
        <5>3. Rooted(t) /\ t \in Scopes /\ Len(t) = own
          BY <3>4, <5>1, <5>2, EnterRooted, EnterFacts
        <5>4. Grows(b.s, t)
          BY <3>4, <4>1, <5>1, <5>2, <5>3, EnterGrows
        <5> QED BY <5>3, <5>4
      <4> QED BY <4>2, <4>3
    <3> HIDE DEF t, taken
    <3>10. ASSUME NEW d \in 1..Len(s), NEW n \in Names, Declared(s, d, n)
           PROVE  Declared(t, d, n) /\ t[d][n].ref = s[d][n].ref
      BY <3>1, <3>2, <3>4, <3>9, <3>10 DEF Grows, Declared
    <3>11. BindingsIn(t, f)
      <4>1. \A i \in 1..k : Placed(t, b.addrs[i])
        BY <3>4, <3>9, PlacedStill
      <4> QED BY <3>8, <4>1 DEF BindingsIn, Placed
    <3>12. scopes' = t /\ frames' = Append(frames, f) /\ UNCHANGED <<out, status>>
      BY <2>1, <2>3, <3>8
    <3>13. Len(t) <= Depth /\ Len(t) = Len(s) + 1
      BY <3>2, <3>9
    <3> QED BY <1>2, <3>1, <3>9, <3>10, <3>11, <3>12, <3>13, PushKeeps
  <2> QED BY <2>2, <2>3
<1> QED BY <1>1, <1>2

--------------------------------------------------------------------------------
(* Returns.  A scope goes, and nothing below refers to it.                  *)

LEMMA PrefixFacts ==
    ASSUME NEW s \in Scopes, Rooted(s), NEW k \in 1..Len(s)
    PROVE  LET t == SubSeq(s, 1, k) IN
           /\ t \in Scopes /\ Len(t) = k /\ \A d \in 1..k : t[d] = s[d]
           /\ Rooted(t) /\ (Coherent(s) => Coherent(t))
<1> DEFINE t == SubSeq(s, 1, k)
<1>1. Len(s) \in Nat /\ \A d \in 1..Len(s) : s[d] \in Scope
  BY ScopesFacts
<1>2. t \in Scopes /\ Len(t) = k /\ \A d \in 1..k : t[d] = s[d]
  <2>1. k \in Int /\ 1 \in Int /\ 1 <= k /\ \A i \in 1..k : s[i] \in Scope
    BY <1>1
  <2>2. t \in Seq(Scope) /\ Len(t) = k /\ \A i \in 1..k : t[i] = s[i]
    BY <2>1, SubSeqProperties
  <2> QED BY <2>2 DEF Scopes
<1> HIDE DEF t
<1>3. \A d \in 1..k : d \in 1..Len(s) /\ \A l \in Places(s) : l[1] <= d => l[1] \in 1..k
  BY <1>1 DEF Places
<1>4. \A l \in Places(s) : l[1] \in 1..k => l \in Places(t) /\ t[l[1]] = s[l[1]]
  BY <1>2 DEF Places
<1>5. Rooted(t)
  <2>1. ASSUME NEW d \in 1..k, NEW n \in Names
        PROVE  /\ t[d][n].kind = "none" => t[d][n] = NoSymbol
               /\ t[d][n].ref # NoRef =>
                     /\ t[d][n].ref \in Places(t) /\ t[d][n].ref[1] <= d
                     /\ Declared(t, t[d][n].ref[1], t[d][n].ref[2])
    <3>1. t[d] = s[d] /\ d \in 1..Len(s)
      BY <1>2, <1>3
    <3> QED BY <1>3, <1>4, <3>1, ZenonT(40) DEF Rooted, Declared
  <2> QED BY <1>2, <2>1 DEF Rooted
<1>6. ASSUME Coherent(s), NEW d \in 1..k, NEW n \in Names, t[d][n].ref # NoRef
      PROVE  Agree(t, d, n, t[d][n].ref)
  <2>1. t[d] = s[d] /\ d \in 1..Len(s)
    BY <1>2, <1>3
  <2>2. s[d][n].ref \in Places(s) /\ s[d][n].ref[1] <= d /\ Agree(s, d, n, s[d][n].ref)
    BY <1>6, <2>1 DEF Rooted, Coherent
  <2>3. t[s[d][n].ref[1]] = s[s[d][n].ref[1]]
    BY <1>3, <1>4, <2>2
  <2> QED BY <2>1, <2>2, <2>3 DEF Agree
<1>7. Coherent(s) => Coherent(t)
  BY <1>2, <1>6 DEF Coherent
<1> QED BY <1>2, <1>5, <1>7 DEF t

LEMMA PutSame ==
    ASSUME NEW s \in Scopes, NEW l \in Places(s)
    PROVE  Put(s, l, Cell(s, l)) = s
<1>1. l[1] \in 1..Len(s) /\ l[2] \in Names /\ s[l[1]] \in Scope /\ s[l[1]][l[2]] \in Symbol
  BY ScopesFacts DEF Places
<1> DEFINE d == l[1]
           n == l[2]
           x == s[d][n]
           e == s[d]
<1>2. [x EXCEPT !.value = x.value] = x
  BY <1>1 DEF Symbol
<1>3. [e EXCEPT ![n] = x] = e
  BY <1>1 DEF Scope
<1>4. [s EXCEPT ![d] = e] = s
  BY <1>1, ExceptSeq DEF Scopes
<1>5. Put(s, l, Cell(s, l)) = [s EXCEPT ![d] = [e EXCEPT ![n] = [x EXCEPT !.value = x.value]]]
  BY DEF Put, Cell
<1> QED BY <1>2, <1>3, <1>4, <1>5

(* Under the discipline there is nothing to write back.                     *)
LEMMA WrittenBackSame ==
    ASSUME NEW s \in Scopes, Len(s) > 0, Rooted(s), Coherent(s), NEW f \in Frame,
           BindingsIn(s, f), FrameKept(s, Len(s), f)
    PROVE  WrittenBack(s, f) = s
<1> DEFINE k == Len(f.bindings)
           own == Len(s)
<1>1. /\ k \in Nat /\ own \in 1..Len(s)
      /\ \A i \in 1..k : f.bindings[i].param \in Names
  BY ScopesFacts, FrameFacts
<1>2. PICK back : /\ WrittenBack(s, f) = back[k] /\ back[0] = s
                  /\ \A i \in 1..k : back[i] = WriteBack(back[i - 1], f.bindings[i], own)
  BY <1>1, WrittenBackUnfolds
<1> DEFINE T == {i \in 0..k : back[i] = s}
<1>3. 0 \in T
  BY <1>1, <1>2
<1>4. ASSUME NEW i \in 1..k, i - 1 \in T PROVE i \in T
  <2> DEFINE b == f.bindings[i]
             l == b.addr
  <2>1. back[i] = WriteBack(s, b, own)
    BY <1>2, <1>4
  <2>2. CASE l = NoRef
    BY <1>1, <2>1, <2>2 DEF WriteBack
  <2>3. CASE l # NoRef
    <3>1. l \in Places(s) /\ s[own][b.param].ref = l /\ b.param \in Names
      BY <1>1, <2>3 DEF BindingsIn, FrameKept
    <3>2. Cell(s, l) = s[own][b.param].value
      BY <1>1, <2>3, <3>1 DEF Coherent, Agree, Cell
    <3>3. back[i] = Put(s, l, Cell(s, l))
      BY <2>1, <2>3, <3>2 DEF WriteBack
    <3>4. back[i] = s
      BY <3>1, <3>3, PutSame
    <3> QED BY <1>1, <3>4
  <2> QED BY <2>2, <2>3
<1> HIDE DEF T
<1>5. 0..k \subseteq T
  BY <1>1, <1>3, <1>4, UpTo
<1>6. k \in 0..k
  BY <1>1
<1> QED BY <1>2, <1>5, <1>6 DEF T

LEMMA ReturnKeeps ==
    ASSUME Inductive, ProcedureReturn
    PROVE  Inductive'
<1> DEFINE own == Len(scopes)
           f == frames[own]
           w == WrittenBack(scopes, f)
           k == own - 1
<1>1. /\ own > 1 /\ scopes' = SubSeq(w, 1, k) /\ frames' = SubSeq(frames, 1, k)
      /\ out' = IF f.result = NoName THEN out
                ELSE IF f.result = Lost THEN 0 ELSE scopes[own][f.result].value
      /\ UNCHANGED status
  <2>1. Len(frames) = own
    BY TypeFacts DEF Inductive, TypeOK
  <2>2. frames' = SubSeq(frames, 1, k)
    BY <2>1 DEF ProcedureReturn, Returned
  <2> QED BY <2>2 DEF ProcedureReturn
<1>2. /\ scopes \in Scopes /\ own \in 1..Depth /\ own > 0 /\ Len(frames) = own /\ Rooted(scopes)
      /\ frames \in Seq(Frame) /\ f \in Frame /\ own \in 1..own /\ FramesRooted
      /\ \A d \in 1..own : frames[d] \in Frame
  BY TypeFacts DEF Inductive, TypeOK
<1>3. BindingsIn(scopes, f)
  BY <1>2 DEF FramesRooted, BindingsIn
<1>4. w \in Scopes /\ Revalued(scopes, w) /\ Rooted(w)
  BY <1>2, <1>3, WrittenBackFacts
<1>5. ASSUME AliasFree
      PROVE  /\ w = scopes /\ Coherent(scopes)
             /\ \A d \in 1..own : FrameKept(scopes, d, frames[d])
  <2>1. Coherent(scopes) /\ \A d \in 1..own : FrameKept(scopes, d, frames[d])
    BY <1>2, <1>5 DEF Inductive, Disciplined
  <2>2. w = scopes
    BY <1>2, <1>3, <2>1, WrittenBackSame
  <2> QED BY <2>1, <2>2
<1>6. out' \in Values
  <2>1. f.result \in Names \cup {NoName, Lost}
    BY <1>2, FrameFacts
  <2>2. f.result \in Names => scopes[own][f.result].value \in Values
    BY <1>2, ScopesFacts
  <2> QED BY <1>1, <2>1, <2>2, ConstantsOK DEF Inductive, TypeOK
<1> HIDE DEF w, f
<1>7. k \in 1..Len(w) /\ k \in 1..own /\ k \in Nat /\ k \in 1..Depth /\ Len(w) = own
  BY <1>1, <1>2, <1>4, ConstantsOK DEF Revalued
<1> HIDE DEF k, own
<1>8. /\ scopes' \in Scopes /\ Len(scopes') = k /\ \A d \in 1..k : scopes'[d] = w[d]
      /\ Rooted(scopes') /\ (Coherent(w) => Coherent(scopes'))
  BY <1>1, <1>4, <1>7, PrefixFacts
<1>9. frames' \in Seq(Frame) /\ Len(frames') = k /\ \A d \in 1..k : frames'[d] = frames[d]
  <2>1. k \in Int /\ 1 \in Int /\ 1 <= k /\ \A i \in 1..k : frames[i] \in Frame
    BY <1>2, <1>7
  <2> QED BY <1>1, <2>1, SubSeqProperties
<1>10. TypeOK'
  BY <1>1, <1>6, <1>7, <1>8, <1>9 DEF Inductive, TypeOK, Scopes, Scope
<1>11. \A d \in 1..k : d \in 1..own /\ \A l \in Places(scopes) : l[1] <= d => l[1] \in 1..k
  BY <1>7 DEF Places, own
<1>12. \A d \in 1..k, n \in Names : Declared(scopes, d, n) => Declared(scopes', d, n)
  BY <1>4, <1>8, <1>11 DEF Declared, Revalued, own
<1>13. FramesRooted'
  <2>1. ASSUME NEW d \in 1..k, NEW i \in 1..Len(frames[d].bindings),
               frames[d].bindings[i].addr # NoRef
        PROVE  LET l == frames[d].bindings[i].addr IN
               l \in Places(scopes') /\ l[1] <= d /\ Declared(scopes', l[1], l[2])
    <3> DEFINE l == frames[d].bindings[i].addr
    <3>1. l \in Places(scopes) /\ l[1] <= d /\ Declared(scopes, l[1], l[2])
      BY <1>2, <1>11, <2>1 DEF FramesRooted
    <3>2. l = <<l[1], l[2]>> /\ l[1] \in 1..k /\ l[2] \in Names
      BY <1>11, <3>1, SMTT(30) DEF Places
    <3> HIDE DEF l
    <3>3. l \in Places(scopes') /\ Declared(scopes', l[1], l[2])
      BY <1>8, <1>12, <3>1, <3>2 DEF Places
    <3> QED BY <3>1, <3>3 DEF l
  <2> QED BY <1>9, <2>1 DEF FramesRooted
<1>14. ASSUME AliasFree PROVE Disciplined'
  <2>1. \A d \in 1..k : FrameKept(scopes', d, frames'[d])
    BY <1>5, <1>8, <1>9, <1>11, <1>14 DEF FrameKept, Declared
  <2>2. status' # "crashed"
    BY <1>1, <1>14 DEF Inductive, Disciplined
  <2> QED BY <1>5, <1>8, <1>9, <1>14, <2>1, <2>2 DEF Disciplined
<1> QED BY <1>8, <1>10, <1>13, <1>14 DEF Inductive

LEMMA NextKeeps ==
    ASSUME Inductive, [Next]_vars
    PROVE  Inductive'
<1>1. CASE ExecStatement
  <2>1. Quiet
    BY <1>1, PrintQuiet, SharedQuiet, DimQuiet, LetQuiet, ConstQuiet, ReadQuiet, SwapQuiet,
       DefFnQuiet DEF ExecStatement
  <2> QED BY <2>1, QuietKeeps
<1>2. CASE Call
  BY <1>2, CallEnters, EnteringKeeps, FunctionKeeps DEF Call
<1>3. CASE ProcedureReturn
  BY <1>3, ReturnKeeps
<1>4. CASE UNCHANGED vars
  BY <1>4 DEF vars, Inductive, TypeOK, FramesRooted, Disciplined
<1> QED BY <1>1, <1>2, <1>3, <1>4 DEF Next, Stopped

(* The invariant holds in every state.                                      *)
THEOREM AlwaysInductive == Spec => []Inductive
<1>1. Init => Inductive
  BY InitInductive
<1>2. Inductive /\ [Next]_vars => Inductive'
  BY NextKeeps
<1> QED BY <1>1, <1>2, PTL DEF Spec

(* Scopes, frames and what is shown have their types, for every program:    *)
(* a write-back or a bound argument never leaves the active scopes.         *)
THEOREM TypeCorrect == Spec => []TypeOK
<1>1. Inductive => TypeOK
  BY DEF Inductive
<1> QED BY <1>1, AlwaysInductive, PTL

(* Programs that keep to the discipline never dereference what is not       *)
(* there: each reference is to a variable of a scope that outlives it.      *)
THEOREM ReferencesAlwaysLive ==
    ASSUME AliasFree
    PROVE  Spec => []ReferencesLive
<1>1. ASSUME Inductive PROVE ReferencesLive
  <2>1. scopes \in Scopes /\ Rooted(scopes) /\ Coherent(scopes) /\ status # "crashed"
    BY <1>1, TypeFacts DEF Inductive, Disciplined
  <2>2. ASSUME NEW d \in 1..Len(scopes), NEW n \in Names, scopes[d][n].ref # NoRef
        PROVE  LET l == scopes[d][n].ref IN l[1] < d /\ Declared(scopes, l[1], l[2])
    BY <2>1, <2>2 DEF Rooted, Coherent, Agree
  <2> QED BY <2>1, <2>2 DEF ReferencesLive
<1>2. Inductive => ReferencesLive
  BY <1>1
<1> QED BY <1>2, AlwaysInductive, PTL

--------------------------------------------------------------------------------
(* Constants, in every program.                                             *)

(* No constant is another symbol in t than it is now.                       *)
Kept(t) ==
    \A n \in Names : scopes[1][n].kind = "const" => t[1][n] = scopes[1][n]

(* Only the value of the constants that l is the place of differs in t.     *)
KeptBut(t, l) ==
    \A n \in Names : scopes[1][n].kind = "const" =>
        /\ t[1][n].kind = "const"
        /\ l # <<1, n>> => t[1][n].value = scopes[1][n].value

Constant(n) ==
    scopes[1][n].kind = "const" =>
       /\ scopes'[1][n].kind = "const"
       /\ \/ scopes'[1][n].value = scopes[1][n].value
          \/ Lent(<<1, n>>) \/ Moved(<<1, n>>)

LEMMA WidenedKept ==
    ASSUME Inductive, NEW t \in Scopes, NEW used \in SUBSET Names, WidenedBy(scopes, t, used)
    PROVE  Kept(t)
<1>1. scopes \in Scopes /\ 1 \in 1..Len(scopes)
  BY TypeFacts DEF Inductive
<1> QED BY <1>1 DEF WidenedBy, Kept, Found, Declared

LEMMA KeptSuffices ==
    ASSUME Kept(scopes'), NEW n \in Names
    PROVE  Constant(n)
  BY DEF Kept, Constant

(* A name that is used stands for the place it stood for, unless it is new. *)
LEMMA WidenedPlace ==
    ASSUME Inductive, NEW t \in Scopes, NEW used \in SUBSET Names, WidenedBy(scopes, t, used),
           NEW m \in used, NEW n \in Names, scopes[1][n].kind = "const",
           NEW l \in {Lvalue(t, m), <<Home(t, m), m>>}, l = <<1, n>>
    PROVE  /\ Found(scopes, m) /\ SymbolOf(t, m) = SymbolOf(scopes, m)
           /\ Home(t, m) = Home(scopes, m) /\ Lvalue(t, m) = Lvalue(scopes, m)
<1>1. scopes \in Scopes /\ 1 \in 1..Len(scopes) /\ Len(scopes) \in 1..Len(scopes) /\ Len(t) = Len(scopes)
  BY TypeFacts DEF Inductive, WidenedBy
<1>2. \A d \in 1..Len(scopes), x \in Names :
          t[d][x] = IF x \in used /\ ~Found(scopes, x) /\ d = Len(scopes) THEN Variable(0)
                    ELSE scopes[d][x]
  BY DEF WidenedBy
<1>3. Variable(0).kind = "variable" /\ Variable(0).ref = NoRef
  BY SymbolFacts, ConstantsOK
<1>4. m \in Names
  OBVIOUS
<1>5. Found(scopes, m)
  <2>1. SUFFICES ASSUME ~Found(scopes, m) PROVE FALSE
    OBVIOUS
  <2>2. t[Len(scopes)][m] = Variable(0)
    BY <1>1, <1>2, <1>4, <2>1
  <2>3. Home(t, m) = Len(scopes) /\ SymbolOf(t, m) = Variable(0)
    BY <1>1, <1>3, <2>2 DEF Home, SymbolOf, Declared
  <2>4. l = <<Len(scopes), m>>
    BY <1>3, <2>3 DEF Lvalue
  <2>5. Len(scopes) = 1 /\ m = n
    BY <2>4
  <2> QED BY <2>1, <2>5 DEF Found, Declared
<1>6. t[1][m] = scopes[1][m] /\ t[Len(scopes)][m] = scopes[Len(scopes)][m]
  BY <1>1, <1>2, <1>4, <1>5
<1>7. Home(t, m) = Home(scopes, m) /\ SymbolOf(t, m) = SymbolOf(scopes, m)
  BY <1>1, <1>6 DEF Home, SymbolOf, Declared
<1> QED BY <1>5, <1>7 DEF Lvalue

LEMMA PutKept ==
    ASSUME Inductive, NEW t \in Scopes, Len(t) = Len(scopes), NEW l0, KeptBut(t, l0),
           NEW l \in Places(t), NEW v \in Values, NEW n \in Names, scopes[1][n].kind = "const"
    PROVE  /\ Put(t, l, v)[1][n].kind = "const"
           /\ l # <<1, n>> /\ l0 # <<1, n>> => Put(t, l, v)[1][n].value = scopes[1][n].value
<1>1. 1 \in 1..Len(t)
  BY TypeFacts DEF Inductive
<1> QED BY <1>1, PutFacts DEF KeptBut

LEMMA KeptIsBut ==
    ASSUME NEW t, Kept(t), NEW l
    PROVE  KeptBut(t, l)
  BY DEF Kept, KeptBut

(* LET refuses a constant, but a parameter that stands for one is none.     *)
LEMMA LetConstant ==
    ASSUME Inductive, NEW m \in Names, NEW v \in Values, ExecLet(m, v), NEW n \in Names
    PROVE  Constant(n)
<1> DEFINE s == Using(scopes, m)
           l == Lvalue(s, m)
           h == <<Home(s, m), m>>
<1>1. s \in Scopes /\ WidenedBy(scopes, s, {m}) /\ {m} \in SUBSET Names /\ m \in {m}
  BY UsingWidens, TypeFacts DEF Inductive
<1>2. Ready(s) /\ Found(s, m)
  BY UsingReady
<1>3. IF SymbolOf(s, m).kind = "const" THEN UNCHANGED scopes ELSE scopes' = Assigned(s, m, v)
  BY DEF ExecLet
<1>4. CASE SymbolOf(s, m).kind = "const"
  BY <1>3, <1>4 DEF Constant
<1>5. CASE SymbolOf(s, m).kind # "const" /\ scopes[1][n].kind = "const"
  <2> HIDE DEF s
  <2>1. s \in Scopes /\ Len(s) > 0 /\ Rooted(s) /\ Len(s) = Len(scopes) /\ 1 \in 1..Len(s)
    BY <1>2, ScopesFacts DEF Ready
  <2>2. Kept(s) /\ s[1][n] = scopes[1][n]
    BY <1>1, <1>5, WidenedKept DEF Kept
  <2>3. /\ Revalued(s, scopes')
        /\ scopes'[1][n].value = IF <<1, n>> \in {l, h} THEN v ELSE s[1][n].value
    BY <1>2, <1>3, <1>5, <2>1, AssignedFacts
  <2>4. scopes'[1][n].kind = "const"
    BY <1>5, <2>1, <2>2, <2>3 DEF Revalued
  <2>5. h # <<1, n>>
    <3>1. SUFFICES ASSUME h = <<1, n>> PROVE FALSE
      OBVIOUS
    <3>2. SymbolOf(s, m) = s[1][n]
      BY <3>1 DEF SymbolOf
    <3> QED BY <1>5, <2>2, <3>2
  <2>6. ASSUME l = <<1, n>> PROVE Lent(<<1, n>>)
    <3>1. /\ Found(scopes, m) /\ SymbolOf(s, m) = SymbolOf(scopes, m)
          /\ Home(s, m) = Home(scopes, m)
      BY <1>1, <1>5, <2>6, WidenedPlace
    <3>2. SymbolOf(s, m).ref = <<1, n>>
      BY <2>5, <2>6 DEF Lvalue
    <3>3. Home(scopes, m) \in 1..Len(scopes) /\ SymbolOf(s, m).kind \in {"none", "variable", "const"}
      BY <1>2, <2>1, <3>1, LvalueFacts, ScopesFacts DEF Symbol
    <3>4. SymbolOf(s, m).kind # "none"
      BY <1>2, <2>1, LvalueFacts DEF Declared, SymbolOf
    <3>5. scopes[Home(scopes, m)][m].kind = "variable" /\ scopes[Home(scopes, m)][m].ref = <<1, n>>
      BY <1>5, <3>1, <3>2, <3>3, <3>4 DEF SymbolOf
    <3> QED BY <3>3, <3>5 DEF Lent
  <2> QED BY <2>2, <2>3, <2>4, <2>5, <2>6 DEF Constant
<1>6. CASE scopes[1][n].kind # "const"
  BY <1>6 DEF Constant
<1> QED BY <1>4, <1>5, <1>6

LEMMA ReadConstant ==
    ASSUME Inductive, NEW m \in Names, NEW v \in Values, ExecRead(m, v) \/ ExecInput(m, v),
           NEW n \in Names
    PROVE  Constant(n)
<1> SUFFICES ASSUME scopes[1][n].kind = "const" PROVE Constant(n)
  BY DEF Constant
<1> DEFINE s == Using(scopes, m)
<1>1. s \in Scopes /\ WidenedBy(scopes, s, {m}) /\ {m} \in SUBSET Names /\ m \in {m}
  BY UsingWidens, TypeFacts DEF Inductive
<1>2. Ready(s) /\ Found(s, m)
  BY UsingReady
<1>3. PICK l \in {Lvalue(s, m), <<Home(s, m), m>>} : scopes' = Put(s, l, v)
  BY DEF ExecRead, ExecInput
<1> HIDE DEF s
<1>4. l \in Places(s)
  BY <1>2, LvalueFacts DEF Ready, Places
<1>5. Kept(s)
  BY <1>1, WidenedKept
<1>6. /\ scopes'[1][n].kind = "const"
      /\ l # <<1, n>> => scopes'[1][n].value = scopes[1][n].value
  BY <1>2, <1>3, <1>4, <1>5, KeptIsBut, PutKept DEF Ready
<1>7. ASSUME l = <<1, n>> PROVE Moved(<<1, n>>)
  <2>1. Lvalue(s, m) = Lvalue(scopes, m) /\ Home(s, m) = Home(scopes, m)
    BY <1>1, <1>3, <1>7, WidenedPlace
  <2>2. <<1, n>> \in {Lvalue(scopes, m), <<Home(scopes, m), m>>}
    BY <1>7, <2>1
  <2> QED BY <2>2 DEF Moved
<1> QED BY <1>6, <1>7 DEF Constant

LEMMA SwapConstant ==
    ASSUME Inductive, NEW m \in Names, NEW k \in Names, ExecSwap(m, k), NEW n \in Names
    PROVE  Constant(n)
<1> SUFFICES ASSUME scopes[1][n].kind = "const" PROVE Constant(n)
  BY DEF Constant
<1> DEFINE s == Using(Using(scopes, m), k)
           lm == Lvalue(s, m)
           lk == Lvalue(s, k)
           t == Put(s, lm, Cell(s, lk))
           u == Put(t, lk, Cell(s, lm))
<1>1. /\ s \in Scopes /\ WidenedBy(scopes, s, {m, k})
      /\ {m, k} \in SUBSET Names /\ m \in {m, k} /\ k \in {m, k}
  BY UsingTwiceWidens, TypeFacts DEF Inductive
<1>2. Ready(s) /\ Found(s, m) /\ Found(s, k)
  BY UsingTwiceReady
<1>3. scopes' = u
  BY DEF ExecSwap
<1> HIDE DEF s
<1>4. /\ lm \in Places(s) /\ lk \in Places(s) /\ Cell(s, lm) \in Values /\ Cell(s, lk) \in Values
      /\ Len(s) = Len(scopes)
  BY <1>2, LvalueFacts DEF Ready
<1>5. KeptBut(s, lm)
  BY <1>1, WidenedKept, KeptIsBut
<1>6. t \in Scopes /\ Len(t) = Len(scopes) /\ lk \in Places(t)
  BY <1>1, <1>4, PutFacts DEF Places
<1>7. KeptBut(t, lm)
  BY <1>1, <1>4, <1>5, PutKept DEF KeptBut
<1>8. ASSUME lm = <<1, n>> \/ lk = <<1, n>> PROVE Moved(<<1, n>>)
  <2>1. CASE lm = <<1, n>>
    <3>1. Lvalue(scopes, m) = <<1, n>>
      BY <1>1, <2>1, WidenedPlace
    <3> QED BY <3>1 DEF Moved
  <2>2. CASE lk = <<1, n>>
    <3>1. Lvalue(scopes, k) = <<1, n>>
      BY <1>1, <2>2, WidenedPlace
    <3> QED BY <3>1 DEF Moved
  <2> QED BY <1>8, <2>1, <2>2
<1> HIDE DEF t, lm, lk
<1>9. /\ u[1][n].kind = "const"
      /\ lm # <<1, n>> /\ lk # <<1, n>> => u[1][n].value = scopes[1][n].value
  BY <1>4, <1>6, <1>7, PutKept
<1> QED BY <1>3, <1>8, <1>9 DEF Constant

(* New names, and what is there already.                                    *)
LEMMA OtherConstant ==
    ASSUME Inductive, NEW n \in Names,
           \/ \E m \in Names : ExecPrint(m) \/ ExecShared(m) \/ ExecDim(m) \/ ExecStatic(m)
           \/ \E m \in Names, v \in Values : ExecConst(m, v)
           \/ \E m, k \in Names, v \in Values : EvalDefFn(m, v, k)
    PROVE  Constant(n)
<1> DEFINE len == Len(scopes)
<1>1. scopes \in Scopes /\ Len(scopes) > 0 /\ 1 \in 1..len /\ len \in 1..len
  BY TypeFacts DEF Inductive
<1>2. ASSUME NEW m \in Names, ExecPrint(m) PROVE Kept(scopes')
  <2> DEFINE t == Using(scopes, m)
             used == {m}
  <2>1. scopes' = t /\ t \in Scopes /\ used \in SUBSET Names /\ WidenedBy(scopes, t, used)
    BY <1>1, <1>2, UsingWidens DEF ExecPrint
  <2> HIDE DEF t, used
  <2> QED BY <2>1, WidenedKept
<1>3. ASSUME NEW m \in Names, ExecDim(m) \/ ExecStatic(m) PROVE Kept(scopes')
  <2>1. PICK d \in 1..len : Dim(d, m)
    BY <1>1, <1>3 DEF ExecDim, ExecStatic
  <2>2. scopes' = IF Declared(scopes, d, m) THEN scopes ELSE Entered(scopes, d, m, Variable(0))
    BY <2>1 DEF Dim, Entered
  <2>3. Variable(0) \in Symbol
    BY SymbolFacts, ConstantsOK
  <2> QED BY <1>1, <2>2, <2>3, EnterFacts DEF Kept, Declared
<1>4. ASSUME NEW m \in Names, NEW v \in Values, ExecConst(m, v) PROVE Kept(scopes')
  <2> DEFINE y == [kind |-> "const", value |-> v, ref |-> NoRef]
  <2>1. /\ scopes' = IF Declared(scopes, 1, m) THEN scopes ELSE Entered(scopes, 1, m, y)
        /\ y \in Symbol
    BY <1>4 DEF ExecConst, Entered, Symbol
  <2> HIDE DEF y
  <2> QED BY <1>1, <2>1, EnterFacts DEF Kept, Declared
<1>5. ASSUME NEW m \in Names, NEW v \in Values, NEW k \in Names, EvalDefFn(m, v, k)
      PROVE  Kept(scopes')
  <2> DEFINE t == Using(Using(scopes, m), k)
             used == {m, k}
  <2>1. t \in Scopes /\ used \in SUBSET Names /\ WidenedBy(scopes, t, used)
    BY <1>1, UsingTwiceWidens
  <2>2. scopes' = t
    BY <1>5 DEF EvalDefFn
  <2> HIDE DEF t, used
  <2> QED BY <2>1, <2>2, WidenedKept
<1>6. ASSUME NEW m \in Names, ExecShared(m) PROVE Kept(scopes')
  <2> DEFINE s == Shareable(m)
             y == [s[1][m] EXCEPT !.ref = <<1, m>>]
  <2>1. /\ Ready(s) /\ s \in Scopes /\ Len(s) = len
        /\ \A d \in 1..len, x \in Names :
              s[d][x] = IF d = 1 /\ x = m /\ ~Declared(scopes, 1, m) THEN Variable(0)
                        ELSE scopes[d][x]
    BY ShareableFacts DEF Ready
  <2>2. IF Declared(s, Len(s), m) THEN scopes' = scopes ELSE scopes' = Entered(s, Len(s), m, y)
    BY <1>6 DEF ExecShared, Shareable, Entered, Crash
  <2> HIDE DEF s
  <2>3. <<1, m>> \in Locations /\ s[1][m] \in Symbol
    BY <1>1, <2>1, ScopesFacts, ConstantsOK, TypeFacts DEF Locations, Inductive
  <2>4. y \in Symbol
    BY <2>3, SharedReferenceFacts
  <2> HIDE DEF y
  <2>5. CASE Declared(s, Len(s), m)
    BY <2>2, <2>5 DEF Kept
  <2>6. CASE ~Declared(s, Len(s), m)
    <3>1. scopes' = Entered(s, len, m, y) /\ len \in 1..Len(s) /\ 1 \in 1..Len(s) /\ ~Declared(s, len, m)
      BY <1>1, <2>1, <2>2, <2>6
    <3>2. \A x \in Names : s[1][x] = IF x = m /\ ~Declared(scopes, 1, m) THEN Variable(0)
                                     ELSE scopes[1][x]
      BY <1>1, <2>1
    <3> HIDE DEF len
    <3>5. s \in Scopes /\ y \in Symbol /\ len \in 1..Len(s) /\ m \in Names
      BY <2>1, <2>4, <3>1
    <3>3. /\ Entered(s, len, m, y) \in Scopes /\ Len(Entered(s, len, m, y)) = Len(s)
          /\ \A d \in 1..Len(s), x \in Names :
                Entered(s, len, m, y)[d][x] = IF d = len /\ x = m THEN y ELSE s[d][x]
      BY <3>5, EnterFacts
    <3>4. \A x \in Names : scopes'[1][x] = IF len = 1 /\ x = m THEN y ELSE s[1][x]
      BY <3>1, <3>3
    <3> QED BY <3>1, <3>2, <3>4 DEF Kept, Declared
  <2> QED BY <2>5, <2>6
<1>7. Kept(scopes')
  BY <1>2, <1>3, <1>4, <1>5, <1>6
<1> QED BY <1>7, KeptSuffices

(* Binding a FUNCTION's arguments writes in its own scope alone.            *)
SameBelow(stage, s0) ==
    ~stage.null => /\ Len(stage.s) = Len(s0)
                   /\ \A n \in Names : stage.s[1][n] = s0[1][n]

LEMMA BindArgumentBelow ==
    ASSUME NEW s0 \in Scopes, Len(s0) \in 1..Depth, Len(s0) > 1, Rooted(s0), NEW p \in Procedures,
           NEW args \in [1..Len(p.params) -> Names],
           NEW paren, NEW argv \in [1..Len(p.params) -> Values], NEW i \in 1..Len(p.params),
           NEW stage, Staged(stage, s0, i - 1), SameBelow(stage, s0)
    PROVE  SameBelow(BindArgument(stage, p, args, paren, argv, i), s0)
<1> DEFINE a == args[i]
           m == p.params[i]
           len == Len(s0)
           s == IF ByRef(p, paren, i) THEN Using(stage.s, a) ELSE stage.s
           l == Lvalue(s, a)
           y == IF ByRef(p, paren, i) THEN Reference(Cell(s, l), l) ELSE Variable(argv[i])
           b == BindArgument(stage, p, args, paren, argv, i)
<1>1. /\ b.s = Entered(s, Len(s), m, y)
      /\ b.null = (stage.null \/ Declared(s, Len(s), m))
  BY DEF BindArgument, Entered
<1>2. a \in Names /\ m \in Names /\ argv[i] \in Values
  BY ProcedureFacts
<1>3. SUFFICES ASSUME ~stage.null
               PROVE  Len(b.s) = len /\ \A n \in Names : b.s[1][n] = s0[1][n]
  BY <1>1 DEF SameBelow
<1>4. /\ stage.s \in Scopes /\ Grows(s0, stage.s) /\ Len(stage.s) = len /\ Rooted(stage.s)
      /\ \A n \in Names : stage.s[1][n] = s0[1][n]
  BY <1>3 DEF Staged, SameBelow, Grows
<1>5. len \in Nat /\ 1 \in 1..len /\ len \in 1..len /\ len # 1
  BY ScopesFacts
<1>6. /\ s \in Scopes /\ Len(s) = len /\ Rooted(s)
      /\ \A n \in Names : s[1][n] = s0[1][n]
  <2> DEFINE x == stage.s
             z == Using(x, a)
  <2>1. x \in Scopes /\ Len(x) > 0 /\ Len(x) = len /\ Rooted(x) /\ a \in Names
    BY <1>2, <1>4, <1>5
  <2> HIDE DEF x, a
  <2>2. /\ z \in Scopes /\ Len(z) = len /\ Rooted(z)
        /\ \A d \in 1..len, n \in Names :
              z[d][n] = IF ~Found(x, a) /\ d = len /\ n = a THEN Variable(0) ELSE x[d][n]
    BY <2>1, UsingFacts, UsingRooted
  <2>3. \A n \in Names : z[1][n] = x[1][n]
    BY <1>5, <2>2
  <2> HIDE DEF z
  <2> QED BY <1>4, <2>1, <2>2, <2>3 DEF x, z, a
<1>7. y \in Symbol
  <2>1. CASE ByRef(p, paren, i)
    <3>1. Found(s, a)
      BY <1>2, <1>4, <1>5, <2>1, UsingFacts
    <3>2. l \in Locations /\ Cell(s, l) \in Values
      BY <1>2, <1>5, <1>6, <3>1, LvalueFacts, PlacesAreLocations
    <3> HIDE DEF l, s
    <3> QED BY <2>1, <3>2, ReferenceFacts
  <2>2. CASE ~ByRef(p, paren, i)
    BY <1>2, <2>2, SymbolFacts
  <2> QED BY <2>1, <2>2
<1>9. m \in Names /\ len \in 1..Len(s)
  BY <1>2, <1>5, <1>6
<1> HIDE DEF y, s, b, m, len
<1>10. s \in Scopes /\ y \in Symbol /\ len \in 1..Len(s) /\ m \in Names
  BY <1>6, <1>7, <1>9
<1>8. /\ Entered(s, len, m, y) \in Scopes /\ Len(Entered(s, len, m, y)) = Len(s)
      /\ \A d \in 1..Len(s), n \in Names :
            Entered(s, len, m, y)[d][n] = IF d = len /\ n = m THEN y ELSE s[d][n]
  BY <1>10, EnterFacts
<1> QED BY <1>1, <1>5, <1>6, <1>8

LEMMA BoundBelow ==
    ASSUME NEW s0 \in Scopes, Len(s0) \in 1..Depth, Len(s0) > 1, Rooted(s0), NEW p \in Procedures,
           NEW args \in [1..Len(p.params) -> Names], NEW paren,
           NEW argv \in [1..Len(p.params) -> Values]
    PROVE  /\ Staged(Bound(s0, p, args, paren, argv), s0, Len(p.params))
           /\ SameBelow(Bound(s0, p, args, paren, argv), s0)
<1> DEFINE k == Len(p.params)
<1>k. k \in Nat
  BY ProcedureFacts
<1>b. PICK stage : BoundBy(stage, s0, p, args, paren, argv)
  BY <1>k, BoundUnfolds
<1>1. /\ Bound(s0, p, args, paren, argv) = stage[k]
      /\ stage[0] = [s |-> s0, addrs |-> <<>>, null |-> FALSE]
      /\ \A i \in 1..k : stage[i] = BindArgument(stage[i - 1], p, args, paren, argv, i)
  BY <1>b DEF BoundBy
<1> DEFINE Fine(x, i) == Staged(x, s0, i) /\ SameBelow(x, s0)
           T == {i \in 0..k : Fine(stage[i], i)}
<1>3. 0 \in T
  <2>1. <<>> \in Seq(Addresses) /\ Len(<<>>) = 0
    OBVIOUS
  <2> DEFINE x == stage[0]
  <2>2. x.s = s0 /\ x.addrs = <<>> /\ x.null = FALSE
    BY <1>1
  <2>3. Grows(s0, s0)
    BY DEF Grows
  <2> HIDE DEF x
  <2>5. \A j \in 1..0 : Placed(x.s, x.addrs[j])
    OBVIOUS
  <2>6. Staged(x, s0, 0)
    BY <2>1, <2>2, <2>3, <2>5 DEF Staged
  <2>7. SameBelow(x, s0)
    BY <2>2 DEF SameBelow
  <2> QED BY <1>k, <2>6, <2>7 DEF x
<1>4. ASSUME NEW i \in 1..k, i - 1 \in T PROVE i \in T
  <2> DEFINE x == stage[i - 1]
             b == BindArgument(x, p, args, paren, argv, i)
  <2>1. stage[i] = b /\ Staged(x, s0, i - 1) /\ SameBelow(x, s0)
    BY <1>1, <1>4
  <2> HIDE DEF x
  <2>2. Staged(b, s0, i)
    BY <2>1, BindArgumentFacts
  <2>3. SameBelow(b, s0)
    BY <2>1, BindArgumentBelow
  <2> HIDE DEF b
  <2> QED BY <1>k, <2>1, <2>2, <2>3
<1> HIDE DEF T
<1>5. 0..k \subseteq T
  BY <1>k, <1>3, <1>4, UpTo
<1>6. k \in 0..k
  BY <1>k
<1> QED BY <1>1, <1>5, <1>6 DEF T

LEMMA CallConstant ==
    ASSUME Inductive, NEW p \in Procedures, NEW args \in [1..Len(p.params) -> Names],
           NEW paren \in [1..Len(p.params) -> BOOLEAN],
           ExecCall(p, args, paren) \/ EvalFunction(p, args, paren), NEW n \in Names
    PROVE  Constant(n)
<1> DEFINE s    == UsingAll(scopes, args)
           k    == Len(p.params)
           used == {args[i] : i \in 1..k}
<1>0. k \in Nat /\ p.result \in Names \cup {NoName}
  BY ProcedureFacts
<1>1. /\ s \in Scopes /\ WidenedBy(scopes, s, used) /\ used \in SUBSET Names
      /\ Len(s) = Len(scopes) /\ Len(s) > 0 /\ Len(s) \in Nat
  BY <1>0, UsingAllWidens, TypeFacts, ScopesFacts DEF Inductive, WidenedBy
<1> HIDE DEF used
<1>2. Kept(s)
  BY <1>1, WidenedKept
<1>3. CASE ExecCall(p, args, paren)
  <2>1. PICK c : scopes' = Append(s, c)
    BY <1>3 DEF ExecCall
  <2>2. scopes'[1] = s[1]
    BY <1>1, <2>1 DEF Scopes
  <2> QED BY <1>2, <2>2, KeptSuffices DEF Kept
<1>4. CASE EvalFunction(p, args, paren)
  <2> DEFINE s0   == Append(s, EmptyScope)
             argv == [i \in 1..k |-> SymbolOf(s, args[i]).value]
             b    == Bound(s0, p, args, paren, argv)
             own  == Len(s) + 1
  <2>1. /\ p.result # NoName /\ Len(scopes) < Depth
        /\ IF b.null THEN Crash
           ELSE scopes' = IF Declared(b.s, Len(b.s), p.result) THEN b.s
                          ELSE Entered(b.s, Len(b.s), p.result, Variable(0))
    BY <1>4 DEF EvalFunction, Entered, s
  <2>2. /\ s0 \in Scopes /\ Len(s0) = own /\ Rooted(s0)
        /\ \A d \in 1..Len(s) : s0[d] = s[d]
        /\ argv \in [1..k -> Values]
    BY <2>1, FunctionStarts
  <2> HIDE DEF s, argv
  <2>3. own \in 1..Depth /\ own > 1 /\ 1 \in 1..Len(s)
    BY <1>1, <2>1, ConstantsOK
  <2> HIDE DEF s0
  <2>4. Staged(b, s0, k) /\ SameBelow(b, s0)
    BY <2>2, <2>3, BoundBelow
  <2> HIDE DEF b
  <2>5. CASE b.null
    BY <2>1, <2>5, KeptSuffices DEF Kept, Crash
  <2>6. CASE ~b.null
    <3>1. /\ b.s \in Scopes /\ Len(b.s) = own
          /\ \A x \in Names : b.s[1][x] = s[1][x]
      BY <2>2, <2>3, <2>4, <2>6 DEF Staged, SameBelow, Grows
    <3>2. p.result \in Names /\ Variable(0) \in Symbol /\ own \in 1..own /\ 1 \in 1..own /\ own # 1
      BY <1>0, <1>1, <2>1, <2>3, SymbolFacts, ConstantsOK
    <3> HIDE DEF own
    <3>3. \A x \in Names : Entered(b.s, own, p.result, Variable(0))[1][x] = b.s[1][x]
      <4> DEFINE z == b.s
                 n0 == p.result
                 y == Variable(0)
      <4>1. z \in Scopes /\ own \in 1..Len(z) /\ n0 \in Names /\ y \in Symbol
        BY <3>1, <3>2
      <4>4. Len(z) = own
        BY <3>1
      <4> HIDE DEF z, n0, y
      <4>2. /\ Entered(z, own, n0, y) \in Scopes /\ Len(Entered(z, own, n0, y)) = Len(z)
            /\ \A d \in 1..Len(z), x \in Names :
                  Entered(z, own, n0, y)[d][x] = IF d = own /\ x = n0 THEN y ELSE z[d][x]
        BY <4>1, EnterFacts
      <4>3. \A x \in Names : Entered(z, own, n0, y)[1][x] = z[1][x]
        BY <3>2, <4>2, <4>4
      <4> QED BY <4>3 DEF z, n0, y
    <3>4. \A x \in Names : scopes'[1][x] = s[1][x]
      BY <2>1, <2>6, <3>1, <3>3
    <3> QED BY <1>2, <3>4, KeptSuffices DEF Kept
  <2> QED BY <2>5, <2>6
<1> QED BY <1>3, <1>4

(* A write-back reaches only the places that are bound.                     *)
LEMMA WrittenBackBelow ==
    ASSUME NEW s \in Scopes, Len(s) > 0, Rooted(s), NEW f \in Frame, BindingsIn(s, f),
           NEW n \in Names, \A i \in 1..Len(f.bindings) : f.bindings[i].addr # <<1, n>>
    PROVE  WrittenBack(s, f)[1][n].value = s[1][n].value
<1> DEFINE k == Len(f.bindings)
           own == Len(s)
<1>1. /\ k \in Nat /\ own \in 1..Len(s) /\ 1 \in 1..Len(s)
      /\ \A i \in 1..k : f.bindings[i].param \in Names
  BY ScopesFacts, FrameFacts
<1>2. PICK back : /\ WrittenBack(s, f) = back[k] /\ back[0] = s
                  /\ \A i \in 1..k : back[i] = WriteBack(back[i - 1], f.bindings[i], own)
  BY <1>1, WrittenBackUnfolds
<1> DEFINE Fine(x) == /\ x \in Scopes /\ Len(x) = Len(s)
                      /\ x[1][n].value = s[1][n].value
           T == {i \in 0..k : Fine(back[i])}
<1>3. 0 \in T
  BY <1>1, <1>2
<1> HIDE DEF own
<1>4. ASSUME NEW i \in 1..k, i - 1 \in T PROVE i \in T
  <2> DEFINE x == back[i - 1]
             b == f.bindings[i]
             l == b.addr
             v == x[own][b.param].value
  <2>1. Fine(x) /\ back[i] = WriteBack(x, b, own) /\ l # <<1, n>>
    BY <1>2, <1>4
  <2>2. CASE l = NoRef
    BY <1>1, <2>1, <2>2 DEF WriteBack
  <2>3. CASE l # NoRef
    <3>1. l \in Places(x)
      BY <2>1, <2>3 DEF BindingsIn, Places
    <3>2. own \in 1..Len(x) /\ b.param \in Names
      BY <1>1, <2>1
    <3> HIDE DEF x, b
    <3>3. v \in Values
      BY <2>1, <3>2, ScopesFacts
    <3>4. back[i] = Put(x, l, v)
      BY <2>1, <2>3 DEF WriteBack
    <3> HIDE DEF v, l
    <3>5. Fine(Put(x, l, v))
      BY <1>1, <2>1, <3>1, <3>3, PutFacts
    <3> QED BY <3>4, <3>5
  <2> QED BY <2>2, <2>3
<1> HIDE DEF T
<1>5. 0..k \subseteq T
  BY <1>1, <1>3, <1>4, UpTo
<1>6. k \in 0..k
  BY <1>1
<1> QED BY <1>2, <1>5, <1>6 DEF T

LEMMA ReturnConstant ==
    ASSUME Inductive, ProcedureReturn, NEW n \in Names
    PROVE  Constant(n)
<1> SUFFICES ASSUME scopes[1][n].kind = "const" PROVE Constant(n)
  BY DEF Constant
<1> DEFINE own == Len(scopes)
           f == frames[own]
           w == WrittenBack(scopes, f)
<1>1. own > 1 /\ scopes' = SubSeq(w, 1, own - 1)
  BY DEF ProcedureReturn
<1>2. /\ scopes \in Scopes /\ own > 0 /\ own \in Nat /\ Len(frames) = own /\ Rooted(scopes)
      /\ f \in Frame /\ own \in 1..own /\ 1 \in 1..own
      /\ BindingsIn(scopes, f)
  BY TypeFacts, ScopesFacts DEF Inductive, FramesRooted, BindingsIn
<1>3. w \in Scopes /\ Revalued(scopes, w) /\ Len(w) = own /\ Rooted(w)
  BY <1>2, WrittenBackFacts DEF Revalued
<1>4. ASSUME ~Lent(<<1, n>>) PROVE w[1][n].value = scopes[1][n].value
  <2>1. DOMAIN f.bindings = 1..Len(f.bindings)
    <3>1. f.bindings \in Seq([param : Names, addr : Locations \cup {NoRef}])
      BY <1>2 DEF Frame
    <3> QED BY <3>1
  <2>2. \A i \in 1..Len(f.bindings) : f.bindings[i].addr # <<1, n>>
    BY <1>2, <1>4, <2>1 DEF Lent
  <2> HIDE DEF f
  <2> QED BY <1>2, <2>2, WrittenBackBelow
<1> HIDE DEF w
<1>5. scopes'[1] = w[1]
  <2> DEFINE k == own - 1
  <2>1. k \in 1..Len(w) /\ 1 \in 1..k /\ scopes' = SubSeq(w, 1, k)
    BY <1>1, <1>2, <1>3
  <2> HIDE DEF k
  <2> QED BY <1>3, <2>1, PrefixFacts
<1> QED BY <1>2, <1>3, <1>4, <1>5 DEF Constant, Revalued

(* In every program, with or without the discipline, a constant stays one   *)
(* and its value is out of reach of every statement and return but those    *)
(* that write without a look at the kind.                                   *)
THEOREM ConstantsAlwaysStay == Spec => ConstantsStay
<1>1. ASSUME Inductive, [Next]_vars, NEW n \in Names PROVE Constant(n)
  <2>1. CASE ExecStatement
    BY <1>1, <2>1, LetConstant, ReadConstant, SwapConstant, OtherConstant DEF ExecStatement
  <2>2. CASE Call
    BY <1>1, <2>2, CallConstant DEF Call
  <2>3. CASE ProcedureReturn
    BY <1>1, <2>3, ReturnConstant
  <2>4. CASE UNCHANGED vars
    BY <2>4 DEF vars, Constant
  <2> QED BY <1>1, <2>1, <2>2, <2>3, <2>4 DEF Next, Stopped
<1>2. Inductive /\ [Next]_vars => \A n \in Names : Constant(n)
  BY <1>1
<1>3. Spec => [][\A n \in Names : Constant(n)]_vars
  BY <1>2, AlwaysInductive, PTL DEF Spec
<1>4. (\A n \in Names : Constant(n)) =>
        \A n \in Names :
          scopes[1][n].kind = "const" =>
             /\ scopes'[1][n].kind = "const"
             /\ \/ scopes'[1][n].value = scopes[1][n].value
                \/ Lent(<<1, n>>) \/ Moved(<<1, n>>)
  BY DEF Constant
<1> QED BY <1>3, <1>4, PTL DEF ConstantsStay

(***************************************************************************)
(* The refinement: programs that keep to the discipline of Procedures      *)
(* behave as if every reference were another name of the caller's          *)
(* variable.                                                               *)
(***************************************************************************)


--------------------------------------------------------------------------------
(* The abstract state that scopes s stand for.                              *)

LEMMA MeaningFacts ==
    ASSUME NEW s \in Scopes
    PROVE  /\ Len(Meaning(s)) = Len(s)
           /\ \A d \in 1..Len(s), n \in Names :
                 /\ Meaning(s)[d][n] = IF ~Declared(s, d, n) THEN NoRef
                                       ELSE IF s[d][n].ref # NoRef THEN s[d][n].ref ELSE <<d, n>>
                 /\ Meaning(s)[d][n] # NoRef <=> Declared(s, d, n)
<1> DEFINE e == Meaning(s)
<1>1. Len(s) \in Nat
  BY ScopesFacts
<1>2. e = [d \in 1..Len(s) |-> e[d]] /\ DOMAIN e = 1..Len(s)
  BY DEF Meaning
<1>3. \A d \in 1..Len(s), n \in Names :
          e[d][n] = IF ~Declared(s, d, n) THEN NoRef
                    ELSE IF s[d][n].ref # NoRef THEN s[d][n].ref ELSE <<d, n>>
  BY DEF Meaning
<1>4. \A d \in 1..Len(s), n \in Names : <<d, n>> # NoRef
  BY ConstantsOK DEF NoRef
<1> HIDE DEF e
<1>5. Len(e) = Len(s)
  <2> DEFINE R == {e[d] : d \in 1..Len(s)}
  <2>1. e \in [1..Len(s) -> R]
    BY <1>2
  <2> HIDE DEF R
  <2>2. e \in Seq(R)
    BY <1>1, <2>1, SeqDef
  <2> QED BY <1>1, <1>2, <2>2, LenProperties
<1> QED BY <1>3, <1>4, <1>5 DEF e

LEMMA MeaningRows ==
    ASSUME NEW s, NEW d \in 1..Len(s)
    PROVE  Meaning(s)[d] = [n \in Names |-> Meaning(s)[d][n]]
  BY DEF Meaning

(* What symbol x, the one of name n in scope d, stands for.                 *)
Stands(x, d, n) ==
    IF x.kind = "none" THEN NoRef ELSE IF x.ref # NoRef THEN x.ref ELSE <<d, n>>

LEMMA MeaningAt ==
    ASSUME NEW s \in Scopes, NEW d \in 1..Len(s), NEW n \in Names
    PROVE  Meaning(s)[d][n] = Stands(s[d][n], d, n)
<1>1. Meaning(s)[d][n] = IF ~Declared(s, d, n) THEN NoRef
                         ELSE IF s[d][n].ref # NoRef THEN s[d][n].ref ELSE <<d, n>>
  BY MeaningFacts
<1> HIDE DEF Meaning
<1> QED BY <1>1 DEF Stands, Declared

LEMMA ContentsFacts ==
    ASSUME NEW s \in Scopes, Len(s) <= Depth, Rooted(s)
    PROVE  /\ DOMAIN Contents(s) = Locations
           /\ Contents(s) = [l \in Locations |-> Contents(s)[l]]
           /\ \A d \in 1..Len(s), n \in Names :
                 /\ <<d, n>> \in Locations
                 /\ s[d][n].ref = NoRef => Contents(s)[<<d, n>>] = s[d][n].value
                 /\ s[d][n].ref # NoRef => Contents(s)[<<d, n>>] = 0
                 /\ <<d, n>> \in Constants(s) <=> s[d][n].ref = NoRef /\ s[d][n].kind = "const"
           /\ \A l \in Locations : l[1] > Len(s) => Contents(s)[l] = 0 /\ l \notin Constants(s)
           /\ Constants(s) \subseteq Locations
<1>1. Len(s) \in Nat
  BY ScopesFacts
<1>2. \A d \in 1..Len(s), n \in Names : <<d, n>> \in Locations /\ (Own(s, <<d, n>>) <=> s[d][n].ref = NoRef)
  BY <1>1, ConstantsOK DEF Locations, Own
<1>3. \A l \in Locations : l[1] \in Int /\ (l[1] > Len(s) => ~Own(s, l))
  BY <1>1, ConstantsOK DEF Locations, Own
<1>4. \A l \in Locations : Contents(s)[l] = IF Own(s, l) THEN Cell(s, l) ELSE 0
  BY DEF Contents
<1> QED BY <1>2, <1>3, <1>4 DEF Contents, Constants, Cell

LEMMA ContentsAt ==
    ASSUME NEW s \in Scopes, Len(s) <= Depth, Rooted(s), NEW d \in 1..Len(s), NEW n \in Names
    PROVE  /\ s[d][n].ref = NoRef => Contents(s)[<<d, n>>] = s[d][n].value
           /\ s[d][n].ref # NoRef => Contents(s)[<<d, n>>] = 0
           /\ <<d, n>> \in Constants(s) <=> s[d][n].ref = NoRef /\ s[d][n].kind = "const"
  BY ContentsFacts

(* Where n is, seen from the current scope, once it has been used.          *)
Place(s, n) ==
    IF Declared(s, Len(s), n) THEN Meaning(s)[Len(s)][n]
    ELSE IF Found(s, n) THEN Meaning(s)[1][n] ELSE <<Len(s), n>>

LEMMA WidenedAbstract ==
    ASSUME NEW s \in Scopes, NEW t \in Scopes, NEW used \in SUBSET Names, Len(s) > 0,
           Len(s) <= Depth, Rooted(s), WidenedBy(s, t, used)
    PROVE  /\ Meaning(t) = [d \in 1..Len(s) |-> [n \in Names |->
                               IF d = Len(s) /\ n \in used /\ ~Found(s, n) THEN <<d, n>>
                               ELSE Meaning(s)[d][n]]]
           /\ Contents(t) = Contents(s) /\ Constants(t) = Constants(s)
           /\ \A n \in used : Lvalue(t, n) = Place(s, n)
<1>1. Len(t) = Len(s) /\ Len(s) \in Nat /\ Rooted(t)
  BY WidenedByFacts, ScopesFacts DEF WidenedBy
<1>2. \A d \in 1..Len(s), n \in Names :
          t[d][n] = IF n \in used /\ ~Found(s, n) /\ d = Len(s) THEN Variable(0) ELSE s[d][n]
  BY DEF WidenedBy
<1>3. Variable(0).kind = "variable" /\ Variable(0).ref = NoRef /\ Variable(0).value = 0
  BY SymbolFacts, ConstantsOK
<1>4. \A n \in Names : ~Found(s, n) => s[Len(s)][n] = NoSymbol
  BY <1>1, SMTT(60) DEF Rooted, Found, Declared
<1>5. NoSymbol.kind = "none" /\ NoSymbol.value = 0 /\ NoSymbol.ref = NoRef
  BY SymbolFacts
<1>6. ASSUME NEW d \in 1..Len(s), NEW n \in Names
      PROVE  Meaning(t)[d][n] = IF d = Len(s) /\ n \in used /\ ~Found(s, n) THEN <<d, n>>
                                ELSE Meaning(s)[d][n]
  BY <1>1, <1>2, <1>3, MeaningFacts DEF Declared
<1>7. Meaning(t) = [d \in 1..Len(s) |-> [n \in Names |->
                       IF d = Len(s) /\ n \in used /\ ~Found(s, n) THEN <<d, n>>
                       ELSE Meaning(s)[d][n]]]
  <2>1. Meaning(t) = [d \in 1..Len(s) |-> [n \in Names |-> Meaning(t)[d][n]]]
    BY <1>1 DEF Meaning
  <2> QED BY <1>6, <2>1
<1>8. \A d \in 1..Len(s), n \in Names :
          /\ t[d][n].value = s[d][n].value /\ t[d][n].ref = s[d][n].ref
          /\ t[d][n].kind = "const" <=> s[d][n].kind = "const"
  BY <1>1, <1>2, <1>3, <1>4, <1>5, ZenonT(40)
<1>9. ASSUME NEW l \in Locations
      PROVE  /\ Own(t, l) <=> Own(s, l)
             /\ Own(t, l) => Cell(t, l) = Cell(s, l)
             /\ Own(t, l) => (t[l[1]][l[2]].kind = "const" <=> s[l[1]][l[2]].kind = "const")
  <2>1. l[1] \in 1..Depth /\ l[2] \in Names
    BY DEF Locations
  <2>2. l[1] <= Len(s) => l[1] \in 1..Len(s)
    BY <2>1
  <2> QED BY <1>1, <1>8, <2>1, <2>2 DEF Own, Cell
<1>10. Contents(t) = Contents(s) /\ Constants(t) = Constants(s)
  BY <1>9 DEF Contents, Constants
<1>11. ASSUME NEW n \in used PROVE Lvalue(t, n) = Place(s, n)
  <2>1. n \in Names /\ Len(s) \in 1..Len(s) /\ 1 \in 1..Len(s)
    BY <1>1
  <2>2. CASE Declared(s, Len(s), n)
    <3>1. t[Len(s)][n] = s[Len(s)][n] /\ Declared(t, Len(t), n)
      BY <1>1, <1>2, <2>1, <2>2 DEF Found, Declared
    <3> QED BY <1>1, <2>1, <2>2, <3>1, MeaningFacts DEF Lvalue, SymbolOf, Home, Place
  <2>3. CASE ~Declared(s, Len(s), n) /\ Found(s, n)
    <3>1. t[Len(s)][n] = s[Len(s)][n] /\ ~Declared(t, Len(t), n) /\ t[1][n] = s[1][n]
          /\ Declared(s, 1, n)
      BY <1>1, <1>2, <2>1, <2>3 DEF Found, Declared
    <3> QED BY <1>1, <2>1, <2>3, <3>1, MeaningFacts DEF Lvalue, SymbolOf, Home, Place
  <2>4. CASE ~Found(s, n)
    <3>1. t[Len(s)][n] = Variable(0) /\ Declared(t, Len(t), n) /\ ~Declared(s, Len(s), n)
      BY <1>1, <1>2, <1>3, <2>1, <2>4 DEF Found, Declared
    <3> QED BY <1>1, <1>3, <2>1, <2>4, <3>1 DEF Lvalue, SymbolOf, Home, Place
  <2> QED BY <2>2, <2>3, <2>4 DEF Found
<1> QED BY <1>7, <1>10, <1>11

(* A location has what the names that stand for it show.                    *)
LEMMA PlaceFacts ==
    ASSUME NEW s \in Scopes, Len(s) > 0, Len(s) <= Depth, Rooted(s), Coherent(s), NEW n \in Names,
           Found(s, n)
    PROVE  LET l == Lvalue(s, n) IN
           /\ l \in Places(s) /\ l \in Locations /\ l = <<l[1], l[2]>>
           /\ s[l[1]][l[2]].ref = NoRef
           /\ Contents(s)[l] = SymbolOf(s, n).value /\ Contents(s)[l] = Cell(s, l)
           /\ l \in Constants(s) <=> SymbolOf(s, n).kind = "const"
<1> DEFINE l == Lvalue(s, n)
<1>1. /\ l = <<l[1], l[2]>> /\ s[l[1]][l[2]].ref = NoRef
      /\ Cell(s, l) = SymbolOf(s, n).value
      /\ s[l[1]][l[2]].kind = SymbolOf(s, n).kind
  BY CoherentLvalue
<1>2. l \in Places(s) /\ l \in Locations
  BY LvalueFacts, PlacesAreLocations
<1> HIDE DEF l
<1>3. l[1] \in 1..Len(s) /\ l[2] \in Names
  BY <1>2 DEF Places
<1>4. /\ Contents(s)[<<l[1], l[2]>>] = s[l[1]][l[2]].value
      /\ <<l[1], l[2]>> \in Constants(s) <=> s[l[1]][l[2]].kind = "const"
  BY <1>1, <1>3, ContentsFacts
<1> QED BY <1>1, <1>2, <1>4 DEF l, Cell

LEMMA RevaluedAbstract ==
    ASSUME NEW s \in Scopes, NEW t \in Scopes, Revalued(s, t)
    PROVE  Meaning(t) = Meaning(s) /\ Constants(t) = Constants(s)
<1>1. Len(s) \in Nat
  BY ScopesFacts
<1>2. Meaning(t) = Meaning(s)
  BY DEF Meaning, Revalued, Declared
<1>3. \A l \in Locations : l[1] <= Len(s) => l[1] \in 1..Len(s) /\ l[2] \in Names
  BY <1>1, ConstantsOK DEF Locations
<1>4. Constants(t) = Constants(s)
  BY <1>3 DEF Constants, Own, Revalued
<1> QED BY <1>2, <1>4

(* One location gets a value.                                               *)
Stored(s, t, l, v) ==
    \A d \in 1..Len(s), n \in Names :
        s[d][n].ref = NoRef => t[d][n].value = IF <<d, n>> = l THEN v ELSE s[d][n].value

LEMMA StoredAbstract ==
    ASSUME NEW s \in Scopes, NEW t \in Scopes, Len(s) <= Depth, Rooted(s), Rooted(t),
           Revalued(s, t), NEW l \in Places(s), NEW v, s[l[1]][l[2]].ref = NoRef,
           Stored(s, t, l, v)
    PROVE  Contents(t) = [Contents(s) EXCEPT ![l] = v]
<1>1. Len(s) \in Nat /\ Len(t) = Len(s)
  BY ScopesFacts DEF Revalued
<1>2. l \in Locations /\ l[1] \in 1..Len(s) /\ l[2] \in Names /\ l = <<l[1], l[2]>>
  BY PlacesAreLocations DEF Places
<1>3. ASSUME NEW x \in Locations
      PROVE  Contents(t)[x] = IF x = l THEN v ELSE Contents(s)[x]
  <2>1. x = <<x[1], x[2]>> /\ x[1] \in 1..Depth /\ x[2] \in Names
    BY DEF Locations
  <2>2. CASE x[1] \in 1..Len(s)
    <3> DEFINE d == x[1]
               n == x[2]
    <3>1. t[d][n].ref = s[d][n].ref
      BY <2>1, <2>2 DEF Revalued
    <3>2. CASE s[d][n].ref = NoRef
      <4>1. Contents(t)[<<d, n>>] = t[d][n].value /\ Contents(s)[<<d, n>>] = s[d][n].value
        BY <1>1, <2>1, <2>2, <3>1, <3>2, ContentsFacts
      <4> QED BY <2>1, <2>2, <3>2, <4>1 DEF Stored
    <3>3. CASE s[d][n].ref # NoRef
      <4>1. Contents(t)[<<d, n>>] = 0 /\ Contents(s)[<<d, n>>] = 0
        BY <1>1, <2>1, <2>2, <3>1, <3>3, ContentsFacts
      <4>2. x # l
        BY <3>3
      <4> QED BY <2>1, <4>1, <4>2
    <3> QED BY <3>2, <3>3
  <2>3. CASE x[1] > Len(s)
    <3>1. Contents(t)[x] = 0 /\ Contents(s)[x] = 0
      BY <1>1, <2>3, ContentsFacts
    <3> QED BY <1>2, <2>3, <3>1
  <2> QED BY <1>1, <2>1, <2>2, <2>3
<1>4. Contents(t) = [x \in Locations |-> Contents(t)[x]] /\ DOMAIN Contents(s) = Locations
      /\ Contents(s) = [x \in Locations |-> Contents(s)[x]]
  BY <1>1, ContentsFacts
<1> HIDE DEF Contents
<1>5. [Contents(s) EXCEPT ![l] = v] = [x \in Locations |-> IF x = l THEN v ELSE Contents(s)[x]]
  BY <1>4
<1> QED BY <1>3, <1>4, <1>5

--------------------------------------------------------------------------------
(* The operators of ByReference.                                            *)

LEMMA AbstractFacts ==
    ASSUME Inductive
    PROVE  /\ Abstract!Level = Len(scopes)
           /\ \A n \in Names : /\ Abstract!Visible(n) <=> Found(scopes, n)
                               /\ Abstract!Where(n) = Place(scopes, n)
           /\ \A used : Abstract!Using(used) =
                  [d \in 1..Len(scopes) |-> [n \in Names |->
                      IF d = Len(scopes) /\ n \in used /\ ~Found(scopes, n) THEN <<d, n>>
                      ELSE Meaning(scopes)[d][n]]]
           /\ Abstract!Unbound = NoRef /\ Abstract!Locations = Locations
<1>1. /\ scopes \in Scopes /\ Len(scopes) \in 1..Len(scopes) /\ 1 \in 1..Len(scopes)
  BY TypeFacts DEF Inductive
<1>2. Abstract!Level = Len(scopes)
  BY <1>1, MeaningFacts DEF Abstract!Level
<1>3. Abstract!Unbound = NoRef /\ Abstract!Locations = Locations
  BY DEF Abstract!Unbound, Abstract!NoName, NoRef, NoName, Abstract!Locations, Locations
<1>4. ASSUME NEW n \in Names
      PROVE  Abstract!Visible(n) <=> Found(scopes, n)
  BY <1>1, <1>2, <1>3, MeaningFacts DEF Abstract!Visible, Found
<1>5. ASSUME NEW n \in Names
      PROVE  Abstract!Where(n) = Place(scopes, n)
  BY <1>1, <1>2, <1>3, <1>4, MeaningFacts DEF Abstract!Where, Place
<1>6. ASSUME NEW used
      PROVE  Abstract!Using(used) =
                  [d \in 1..Len(scopes) |-> [n \in Names |->
                      IF d = Len(scopes) /\ n \in used /\ ~Found(scopes, n) THEN <<d, n>>
                      ELSE Meaning(scopes)[d][n]]]
  BY <1>2, <1>4 DEF Abstract!Using
<1> QED BY <1>2, <1>3, <1>4, <1>5, <1>6

(* What a statement finds once it has used names: s are the scopes then.    *)
LEMMA UsedAbstract ==
    ASSUME Inductive, AliasFree, NEW s \in Scopes, NEW used \in SUBSET Names,
           WidenedBy(scopes, s, used)
    PROVE  /\ Ready(s) /\ Coherent(s) /\ Len(s) <= Depth
           /\ Meaning(s) = Abstract!Using(used)
           /\ Contents(s) = Contents(scopes) /\ Constants(s) = Constants(scopes)
           /\ \A n \in used :
                 /\ Found(s, n) /\ Lvalue(s, n) = Abstract!Where(n)
                 /\ Contents(scopes)[Abstract!Where(n)] = SymbolOf(s, n).value
                 /\ Contents(scopes)[Abstract!Where(n)] = Cell(s, Lvalue(s, n))
                 /\ Abstract!Where(n) \in Constants(scopes) <=> SymbolOf(s, n).kind = "const"
<1>1. /\ scopes \in Scopes /\ Len(scopes) > 0 /\ Len(scopes) <= Depth /\ Rooted(scopes)
  BY TypeFacts DEF Inductive
<1>2. Ready(s) /\ \A n \in used : Found(s, n)
  BY WidenedReady
<1>3. Coherent(s) /\ Len(s) <= Depth /\ Len(s) > 0 /\ Rooted(s)
  BY <1>1, <1>2 DEF Ready
<1>4. /\ Meaning(s) = Abstract!Using(used)
      /\ Contents(s) = Contents(scopes) /\ Constants(s) = Constants(scopes)
      /\ \A n \in used : Lvalue(s, n) = Place(scopes, n)
  <2>1. /\ Meaning(s) = [d \in 1..Len(scopes) |-> [m \in Names |->
                            IF d = Len(scopes) /\ m \in used /\ ~Found(scopes, m) THEN <<d, m>>
                            ELSE Meaning(scopes)[d][m]]]
        /\ Contents(s) = Contents(scopes) /\ Constants(s) = Constants(scopes)
        /\ \A n \in used : Lvalue(s, n) = Place(scopes, n)
    BY <1>1, WidenedAbstract
  <2>2. Abstract!Using(used) = [d \in 1..Len(scopes) |-> [m \in Names |->
                                   IF d = Len(scopes) /\ m \in used /\ ~Found(scopes, m) THEN <<d, m>>
                                   ELSE Meaning(scopes)[d][m]]]
    BY AbstractFacts
  <2> QED BY <2>1, <2>2
<1>5. ASSUME NEW n \in used
      PROVE  /\ Lvalue(s, n) = Abstract!Where(n)
             /\ Contents(scopes)[Abstract!Where(n)] = SymbolOf(s, n).value
             /\ Contents(scopes)[Abstract!Where(n)] = Cell(s, Lvalue(s, n))
             /\ Abstract!Where(n) \in Constants(scopes) <=> SymbolOf(s, n).kind = "const"
  <2>1. n \in Names /\ Found(s, n) /\ Lvalue(s, n) = Abstract!Where(n)
    BY <1>2, <1>4, AbstractFacts
  <2>2. /\ Contents(s)[Lvalue(s, n)] = SymbolOf(s, n).value
        /\ Contents(s)[Lvalue(s, n)] = Cell(s, Lvalue(s, n))
        /\ Lvalue(s, n) \in Constants(s) <=> SymbolOf(s, n).kind = "const"
    BY <1>3, <2>1, PlaceFacts
  <2> QED BY <1>4, <2>1, <2>2
<1> QED BY <1>2, <1>3, <1>4, <1>5

(* No symbol of a constant that is there before and after changes.          *)
ConstantsKept ==
    \A d \in 1..Len(scopes), n \in Names :
        d <= Len(scopes') /\ scopes[d][n].kind = "const" => scopes'[d][n] = scopes[d][n]

LEMMA WidenedConstants ==
    ASSUME NEW s, NEW t, NEW used, WidenedBy(s, t, used)
    PROVE  \A d \in 1..Len(s), n \in Names : s[d][n].kind = "const" => t[d][n] = s[d][n]
  BY DEF WidenedBy, Found, Declared

LEMMA PrintRefines ==
    ASSUME Inductive, AliasFree, NEW n \in Names, ExecPrint(n)
    PROVE  Abstract!Show(n) /\ ConstantsKept
<1> DEFINE s == Using(scopes, n)
<1>1. scopes' = s /\ out' = SymbolOf(s, n).value /\ UNCHANGED <<frames, status>>
  BY DEF ExecPrint
<1>2. s \in Scopes /\ WidenedBy(scopes, s, {n})
  BY TypeFacts, UsingWidens DEF Inductive
<1> HIDE DEF s
<1>3. /\ Meaning(s) = Abstract!Using({n})
      /\ Contents(s) = Contents(scopes) /\ Constants(s) = Constants(scopes)
      /\ Contents(scopes)[Abstract!Where(n)] = SymbolOf(s, n).value
  BY <1>2, UsedAbstract
<1>4. Abstract!Show(n)
  BY <1>1, <1>3 DEF Abstract!Show
<1>5. ConstantsKept
  BY <1>1, <1>2, WidenedConstants DEF ConstantsKept
<1> QED BY <1>4, <1>5

LEMMA DefFnRefines ==
    ASSUME Inductive, AliasFree, NEW n \in Names, NEW v \in Values, NEW m \in Names,
           EvalDefFn(n, v, m)
    PROVE  Abstract!Apply(n, v, m) /\ ConstantsKept
<1> DEFINE s == Using(scopes, n)
           h == <<Home(s, n), n>>
           t == Put(s, h, v)
           u == Using(t, m)
           w == Using(s, m)
<1>1. /\ scopes' = w /\ out' = SymbolOf(u, m).value /\ UNCHANGED <<frames, status>>
  BY DEF EvalDefFn
<1>2. s \in Scopes /\ Len(s) > 0 /\ Rooted(s) /\ Found(s, n)
  BY UsingReady DEF Ready
<1>3. w \in Scopes /\ WidenedBy(scopes, w, {n, m})
  BY TypeFacts, UsingTwiceWidens DEF Inductive
<1> HIDE DEF s
<1>4. h \in Places(s) /\ Declared(s, h[1], h[2])
  BY <1>2, LvalueFacts DEF Places
<1> HIDE DEF h
<1>5. /\ t \in Scopes /\ Len(t) = Len(s)
      /\ \A d \in 1..Len(s), x \in Names :
            /\ t[d][x].kind = s[d][x].kind
            /\ t[d][x].value = IF h = <<d, x>> THEN v ELSE s[d][x].value
  BY <1>2, <1>4, PutFacts
<1> HIDE DEF t
<1>6. /\ Len(u) = Len(s) /\ Len(s) \in 1..Len(s) /\ 1 \in 1..Len(s)
      /\ \A d \in 1..Len(s), x \in Names :
            u[d][x] = IF ~Found(t, m) /\ d = Len(s) /\ x = m THEN Variable(0) ELSE t[d][x]
  <2>1. Len(t) > 0 /\ Len(t) = Len(s) /\ Len(s) \in Nat
    BY <1>2, <1>5, ScopesFacts
  <2> HIDE DEF u
  <2>2. /\ Len(Using(t, m)) = Len(t)
        /\ \A d \in 1..Len(t), x \in Names :
              Using(t, m)[d][x] = IF ~Found(t, m) /\ d = Len(t) /\ x = m THEN Variable(0) ELSE t[d][x]
    BY <1>5, <2>1, UsingFacts
  <2> QED BY <1>2, <2>1, <2>2 DEF u
<1>7. /\ Len(w) = Len(s)
      /\ \A d \in 1..Len(s), x \in Names :
            w[d][x] = IF ~Found(s, m) /\ d = Len(s) /\ x = m THEN Variable(0) ELSE s[d][x]
  BY <1>2, UsingFacts
<1> HIDE DEF u, w
<1>8. Found(t, m) <=> Found(s, m)
  BY <1>5, <1>6 DEF Found, Declared
<1>9. Home(u, m) = Home(w, m) /\ Home(w, m) \in 1..Len(s)
  BY <1>5, <1>6, <1>7, <1>8 DEF Home, Declared
<1>10. SymbolOf(u, m).value = IF m = n THEN v ELSE SymbolOf(w, m).value
  <2>1. CASE m = n
    <3>1. /\ u[Home(u, m)][m] = t[Home(u, m)][m]
          /\ Home(u, m) = Home(s, n) /\ Found(s, m)
      BY <1>2, <1>5, <1>6, <1>8, <2>1 DEF Home, Declared
    <3>2. t[Home(s, n)][n].value = v
      BY <1>5, <1>9, <2>1, <3>1 DEF h
    <3> QED BY <2>1, <3>1, <3>2 DEF SymbolOf
  <2>2. CASE m # n
    <3>1. \A d \in 1..Len(s) : t[d][m].value = s[d][m].value
      BY <1>5, <2>2 DEF h
    <3> QED BY <1>6, <1>7, <1>8, <1>9, <2>2, <3>1 DEF SymbolOf
  <2> QED BY <2>1, <2>2
<1>11. /\ Meaning(w) = Abstract!Using({n, m})
       /\ Contents(w) = Contents(scopes) /\ Constants(w) = Constants(scopes)
       /\ Contents(scopes)[Abstract!Where(m)] = SymbolOf(w, m).value
  BY <1>3, UsedAbstract
<1>12. Abstract!Apply(n, v, m)
  BY <1>1, <1>10, <1>11 DEF Abstract!Apply
<1>13. ConstantsKept
  BY <1>1, <1>3, WidenedConstants DEF ConstantsKept
<1> QED BY <1>12, <1>13

LEMMA SameSymbol ==
    ASSUME NEW x \in Symbol, NEW y \in Symbol, x.kind = y.kind, x.value = y.value, x.ref = y.ref
    PROVE  x = y
  BY DEF Symbol

(* What n stands for gets value v, in its location and through a reference. *)
LEMMA StoreRefines ==
    ASSUME Inductive, AliasFree, NEW s \in Scopes, NEW n \in Names, WidenedBy(scopes, s, {n}),
           SymbolOf(s, n).kind # "const", NEW t \in Scopes, Revalued(s, t), NEW v \in Values,
           \A d \in 1..Len(s), m \in Names :
               t[d][m].value = IF <<d, m>> \in {Lvalue(s, n), <<Home(s, n), n>>} THEN v
                               ELSE s[d][m].value,
           scopes' = t, UNCHANGED <<frames, out, status>>
    PROVE  Abstract!Let(n, v) /\ ConstantsKept
<1> DEFINE l == Lvalue(s, n)
           h == <<Home(s, n), n>>
<1>1. /\ Ready(s) /\ Coherent(s) /\ Len(s) <= Depth /\ Found(s, n)
      /\ Meaning(s) = Abstract!Using({n})
      /\ Contents(s) = Contents(scopes) /\ Constants(s) = Constants(scopes)
      /\ l = Abstract!Where(n)
      /\ Abstract!Where(n) \notin Constants(scopes)
  BY UsedAbstract
<1>2. Len(s) > 0 /\ Rooted(s) /\ Rooted(t)
  BY <1>1, RevaluedRooted DEF Ready
<1>3. Meaning(t) = Meaning(s) /\ Constants(t) = Constants(s)
  BY RevaluedAbstract
<1>4. /\ l \in Places(s) /\ h \in Places(s) /\ s[l[1]][l[2]].ref = NoRef
      /\ s[h[1]][h[2]].ref = NoRef => l = h
      /\ s[l[1]][l[2]].kind # "const" /\ s[h[1]][h[2]].kind # "const"
  BY <1>1, <1>2, CoherentLvalue, LvalueFacts DEF SymbolOf
<1>5. \A d \in 1..Len(s), m \in Names :
          t[d][m].value = IF <<d, m>> \in {l, h} THEN v ELSE s[d][m].value
  OBVIOUS
<1> HIDE DEF l, h
<1>6. ASSUME NEW d \in 1..Len(s), NEW m \in Names, s[d][m].ref = NoRef
      PROVE  t[d][m].value = IF <<d, m>> = l THEN v ELSE s[d][m].value
  <2>1. <<d, m>> = h => <<d, m>> = l
    <3>1. h = <<d, m>> => h[1] = d /\ h[2] = m
      OBVIOUS
    <3> QED BY <1>4, <1>6, <3>1
  <2> QED BY <1>5, <2>1
<1>7. Contents(t) = [Contents(s) EXCEPT ![l] = v]
  <2>1. Stored(s, t, l, v)
    BY <1>6 DEF Stored
  <2> QED BY <1>1, <1>2, <1>4, <2>1, StoredAbstract
<1>8. Abstract!Let(n, v)
  BY <1>1, <1>3, <1>7 DEF Abstract!Let
<1>9. ASSUME NEW d \in 1..Len(scopes), NEW m \in Names, scopes[d][m].kind = "const"
      PROVE  t[d][m] = scopes[d][m]
  <2>1. s[d][m] = scopes[d][m] /\ d \in 1..Len(s)
    <3>1. Len(s) = Len(scopes)
      BY DEF WidenedBy
    <3> QED BY <1>9, <3>1, WidenedConstants
  <2>2. <<d, m>> # l /\ <<d, m>> # h
    <3>1. \A x \in {l, h} : x = <<d, m>> => x[1] = d /\ x[2] = m
      OBVIOUS
    <3> QED BY <1>4, <1>9, <2>1, <3>1
  <2>3. t[d][m].value = s[d][m].value /\ t[d][m].kind = s[d][m].kind /\ t[d][m].ref = s[d][m].ref
    BY <1>5, <2>1, <2>2 DEF Revalued
  <2>4. t[d][m] \in Symbol /\ s[d][m] \in Symbol
    BY <2>1, ScopesFacts DEF Revalued
  <2> QED BY <2>1, <2>3, <2>4, SameSymbol
<1> QED BY <1>8, <1>9 DEF ConstantsKept

LEMMA LetRefines ==
    ASSUME Inductive, AliasFree, NEW n \in Names, NEW v \in Values, ExecLet(n, v)
    PROVE  (Abstract!Let(n, v) \/ UNCHANGED <<scopes, frames, out>>) /\ ConstantsKept
<1> DEFINE s == Using(scopes, n)
           t == Assigned(s, n, v)
<1>1. /\ IF SymbolOf(s, n).kind = "const" THEN UNCHANGED scopes
         ELSE scopes' = t /\ UNCHANGED status
      /\ UNCHANGED <<frames, out>>
  BY DEF ExecLet
<1>2. s \in Scopes /\ WidenedBy(scopes, s, {n})
  BY TypeFacts, UsingWidens DEF Inductive
<1>3. Len(s) > 0 /\ Rooted(s) /\ Found(s, n)
  BY UsingReady DEF Ready
<1> HIDE DEF s
<1>4. CASE SymbolOf(s, n).kind = "const"
  BY <1>1, <1>4 DEF ConstantsKept
<1>5. CASE SymbolOf(s, n).kind # "const"
  <2>1. /\ t \in Scopes /\ Revalued(s, t)
        /\ \A d \in 1..Len(s), m \in Names :
              t[d][m].value = IF <<d, m>> \in {Lvalue(s, n), <<Home(s, n), n>>} THEN v
                              ELSE s[d][m].value
    BY <1>2, <1>3, AssignedFacts
  <2> QED BY <1>1, <1>2, <1>5, <2>1, StoreRefines
<1> QED BY <1>4, <1>5

LEMMA ReadRefines ==
    ASSUME Inductive, AliasFree, NEW n \in Names, NEW v \in Values, ExecRead(n, v) \/ ExecInput(n, v)
    PROVE  Abstract!Let(n, v) /\ ConstantsKept
<1> DEFINE s == Using(scopes, n)
           l == Lvalue(s, n)
           h == <<Home(s, n), n>>
           t == Put(s, l, v)
<1>1. MayMove(s, n) /\ (scopes' = t \/ scopes' = Put(s, h, v)) /\ UNCHANGED <<frames, out, status>>
  BY DEF ExecRead, ExecInput
<1>2. s \in Scopes /\ WidenedBy(scopes, s, {n})
  BY TypeFacts, UsingWidens DEF Inductive
<1>3. Len(s) > 0 /\ Rooted(s) /\ Coherent(s) /\ Found(s, n) /\ Ready(s)
  BY UsingReady DEF Ready
<1>4. References(s, l) = {} /\ SymbolOf(s, n).kind # "const"
  BY <1>1 DEF MayMove
<1> HIDE DEF s
<1>5. l = h /\ l \in Places(s) /\ Declared(s, l[1], l[2])
  BY <1>2, <1>3, <1>4, MovePlace, LvalueFacts
<1>6. scopes' = t
  BY <1>1, <1>5
<1> HIDE DEF h
<1>7. /\ t \in Scopes /\ Revalued(s, t)
      /\ \A d \in 1..Len(s), m \in Names :
            t[d][m].value = IF l = <<d, m>> THEN v ELSE s[d][m].value
  BY <1>2, <1>3, <1>5, PutFacts, PutRooted
<1>8. \A d \in 1..Len(s), m \in Names :
          t[d][m].value = IF <<d, m>> \in {Lvalue(s, n), <<Home(s, n), n>>} THEN v
                          ELSE s[d][m].value
  BY <1>5, <1>7 DEF h
<1> HIDE DEF t
<1> QED BY <1>1, <1>2, <1>4, <1>6, <1>7, <1>8, StoreRefines

LEMMA SwapRefines ==
    ASSUME Inductive, AliasFree, NEW n \in Names, NEW m \in Names, ExecSwap(n, m)
    PROVE  Abstract!Swap(n, m) /\ ConstantsKept
<1> DEFINE s == Using(Using(scopes, n), m)
           ln == Lvalue(s, n)
           lm == Lvalue(s, m)
           vn == Cell(s, ln)
           vm == Cell(s, lm)
           t == Put(s, ln, vm)
           u == Put(t, lm, vn)
<1>1. /\ MayMove(s, n) /\ MayMove(s, m) /\ scopes' = u /\ UNCHANGED <<frames, out, status>>
  BY DEF ExecSwap
<1>2. s \in Scopes /\ WidenedBy(scopes, s, {n, m})
  BY TypeFacts, UsingTwiceWidens DEF Inductive
<1>3. Found(s, n) /\ Found(s, m) /\ Ready(s)
  BY UsingTwiceReady
<1> HIDE DEF s
<1>4. /\ Len(s) > 0 /\ Len(s) <= Depth /\ Rooted(s) /\ Coherent(s)
      /\ Meaning(s) = Abstract!Using({n, m})
      /\ Contents(s) = Contents(scopes) /\ Constants(s) = Constants(scopes)
      /\ ln = Abstract!Where(n) /\ lm = Abstract!Where(m)
      /\ Contents(scopes)[Abstract!Where(n)] = vn /\ Contents(scopes)[Abstract!Where(m)] = vm
      /\ ln \in Constants(s) <=> SymbolOf(s, n).kind = "const"
      /\ lm \in Constants(s) <=> SymbolOf(s, m).kind = "const"
  BY <1>2, UsedAbstract DEF Ready
<1>5. SymbolOf(s, n).kind # "const" /\ SymbolOf(s, m).kind # "const"
  BY <1>1 DEF MayMove
<1>6. /\ ln \in Places(s) /\ Declared(s, ln[1], ln[2]) /\ vn \in Values
      /\ lm \in Places(s) /\ Declared(s, lm[1], lm[2]) /\ vm \in Values
  BY <1>2, <1>3, <1>4, LvalueFacts
<1>7. /\ s[ln[1]][ln[2]].ref = NoRef /\ s[lm[1]][lm[2]].ref = NoRef
      /\ s[ln[1]][ln[2]].kind # "const" /\ s[lm[1]][lm[2]].kind # "const"
  BY <1>2, <1>3, <1>4, <1>5, CoherentLvalue
<1> HIDE DEF ln, lm, vn, vm
<1>8. /\ t \in Scopes /\ Revalued(s, t) /\ Rooted(t)
      /\ \A d \in 1..Len(s), x \in Names :
            /\ t[d][x].value = IF ln = <<d, x>> THEN vm ELSE s[d][x].value
            /\ ln # <<d, x>> => t[d][x] = s[d][x]
  BY <1>2, <1>4, <1>6, PutFacts, PutRooted
<1> HIDE DEF t
<1>9. /\ lm \in Places(t) /\ Declared(t, lm[1], lm[2]) /\ Len(t) = Len(s)
      /\ t[lm[1]][lm[2]].ref = NoRef
  BY <1>6, <1>7, <1>8 DEF Places, Declared, Revalued
<1>10. /\ u \in Scopes /\ Revalued(t, u) /\ Rooted(u)
       /\ \A d \in 1..Len(t), x \in Names :
             /\ u[d][x].value = IF lm = <<d, x>> THEN vn ELSE t[d][x].value
             /\ lm # <<d, x>> => u[d][x] = t[d][x]
  BY <1>6, <1>8, <1>9, PutFacts, PutRooted
<1> HIDE DEF u
<1>11. Meaning(u) = Meaning(s) /\ Constants(u) = Constants(s)
  BY <1>2, <1>8, <1>10, RevaluedAbstract
<1>12. Contents(t) = [Contents(s) EXCEPT ![ln] = vm]
  <2>1. Stored(s, t, ln, vm)
    BY <1>8 DEF Stored
  <2> QED BY <1>2, <1>4, <1>6, <1>7, <1>8, <2>1, StoredAbstract
<1>13. Contents(u) = [Contents(t) EXCEPT ![lm] = vn]
  <2>1. Stored(t, u, lm, vn)
    BY <1>10 DEF Stored
  <2>2. Len(t) <= Depth
    BY <1>4, <1>9
  <2> QED BY <1>8, <1>9, <1>10, <2>1, <2>2, StoredAbstract
<1>14. Contents(u) = [Contents(s) EXCEPT ![ln] = vm, ![lm] = vn]
  BY <1>12, <1>13
<1>15. Abstract!Swap(n, m)
  BY <1>1, <1>4, <1>5, <1>11, <1>14 DEF Abstract!Swap
<1>16. ASSUME NEW d \in 1..Len(scopes), NEW x \in Names, scopes[d][x].kind = "const"
       PROVE  u[d][x] = scopes[d][x]
  <2>1. s[d][x] = scopes[d][x] /\ d \in 1..Len(s)
    <3>1. Len(s) = Len(scopes)
      BY <1>2 DEF WidenedBy
    <3> QED BY <1>2, <1>16, <3>1, WidenedConstants
  <2>2. ln # <<d, x>> /\ lm # <<d, x>>
    <3>1. \A l \in {ln, lm} : l = <<d, x>> => l[1] = d /\ l[2] = x
      OBVIOUS
    <3> QED BY <1>7, <1>16, <2>1, <3>1
  <2> QED BY <1>8, <1>9, <1>10, <2>1, <2>2
<1> QED BY <1>1, <1>15, <1>16 DEF ConstantsKept

--------------------------------------------------------------------------------
(* New names.                                                               *)

Shows(s, t, d0, n0, y) ==
    LET l == <<d0, n0>> IN
    /\ Meaning(t) = [Meaning(s) EXCEPT ![d0][n0] = IF y.ref # NoRef THEN y.ref ELSE l]
    /\ y.ref # NoRef => Contents(t) = Contents(s) /\ Constants(t) = Constants(s)
    /\ y.ref = NoRef => /\ Contents(t) = [Contents(s) EXCEPT ![l] = y.value]
                        /\ y.value = 0 => Contents(t) = Contents(s)
                        /\ Constants(t) = IF y.kind = "const" THEN Constants(s) \cup {l}
                                          ELSE Constants(s)

LEMMA EnteredAbstract ==
    ASSUME NEW s \in Scopes, Len(s) <= Depth, Rooted(s), NEW d0 \in 1..Len(s), NEW n0 \in Names,
           NEW y \in Symbol, y.kind # "none", ~Declared(s, d0, n0), NEW t \in Scopes, Rooted(t),
           t = Entered(s, d0, n0, y)
    PROVE  Shows(s, t, d0, n0, y)
<1> DEFINE l == <<d0, n0>>
<1>1. /\ Len(t) = Len(s) /\ Len(s) \in Nat
      /\ \A d \in 1..Len(s), n \in Names : t[d][n] = IF d = d0 /\ n = n0 THEN y ELSE s[d][n]
  <2>1. /\ Len(Entered(s, d0, n0, y)) = Len(s)
        /\ \A d \in 1..Len(s), n \in Names :
              Entered(s, d0, n0, y)[d][n] = IF d = d0 /\ n = n0 THEN y ELSE s[d][n]
    BY EnterFacts
  <2> QED BY <2>1, ScopesFacts
<1>2. s[d0][n0] = NoSymbol
  BY DEF Rooted, Declared
<1>3. NoSymbol.kind = "none" /\ NoSymbol.value = 0 /\ NoSymbol.ref = NoRef
  BY SymbolFacts
<1>4. Meaning(t) = [Meaning(s) EXCEPT ![d0][n0] = IF y.ref # NoRef THEN y.ref ELSE l]
  <2> DEFINE m == IF y.ref # NoRef THEN y.ref ELSE l
             M == Meaning(s)
             e == [M[d0] EXCEPT ![n0] = m]
  <2>1. \A d \in 1..Len(s), n \in Names :
            Meaning(t)[d][n] = IF d = d0 /\ n = n0 THEN m ELSE M[d][n]
    <3>1. \A d \in 1..Len(s), n \in Names :
              /\ Meaning(t)[d][n] = IF ~Declared(t, d, n) THEN NoRef
                                    ELSE IF t[d][n].ref # NoRef THEN t[d][n].ref ELSE <<d, n>>
              /\ M[d][n] = IF ~Declared(s, d, n) THEN NoRef
                           ELSE IF s[d][n].ref # NoRef THEN s[d][n].ref ELSE <<d, n>>
      <4>1. \A d \in 1..Len(t), n \in Names :
                Meaning(t)[d][n] = IF ~Declared(t, d, n) THEN NoRef
                                   ELSE IF t[d][n].ref # NoRef THEN t[d][n].ref ELSE <<d, n>>
        BY MeaningFacts
      <4>2. \A d \in 1..Len(s), n \in Names :
                M[d][n] = IF ~Declared(s, d, n) THEN NoRef
                          ELSE IF s[d][n].ref # NoRef THEN s[d][n].ref ELSE <<d, n>>
        BY MeaningFacts
      <4> QED BY <1>1, <4>1, <4>2
    <3> HIDE DEF M
    <3> TAKE d \in 1..Len(s), n \in Names
    <3>2. CASE d = d0 /\ n = n0
      <4>1. Declared(t, d, n) /\ t[d][n] = y
        BY <1>1, <3>2 DEF Declared
      <4> QED BY <3>1, <3>2, <4>1
    <3>3. CASE ~(d = d0 /\ n = n0)
      <4>1. t[d][n] = s[d][n] /\ (Declared(t, d, n) <=> Declared(s, d, n))
        BY <1>1, <3>3 DEF Declared
      <4> QED BY <3>1, <3>3, <4>1, ZenonT(40)
    <3> QED BY <3>2, <3>3
  <2>2. Meaning(t) = [d \in 1..Len(s) |-> [n \in Names |-> Meaning(t)[d][n]]]
    BY <1>1 DEF Meaning
  <2>3. M = [d \in 1..Len(s) |-> [n \in Names |-> M[d][n]]]
    BY DEF Meaning
  <2> HIDE DEF m, M
  <2>4. e = [n \in Names |-> IF n = n0 THEN m ELSE M[d0][n]]
    BY <2>3
  <2> HIDE DEF e
  <2>5. [M EXCEPT ![d0] = e] = [d \in 1..Len(s) |-> [n \in Names |-> IF d = d0 /\ n = n0 THEN m ELSE M[d][n]]]
    BY <2>3, <2>4
  <2>6. Meaning(t) = [M EXCEPT ![d0] = e]
    BY <2>1, <2>2, <2>5
  <2>7. [M EXCEPT ![d0][n0] = m] = [M EXCEPT ![d0] = e]
    BY DEF e
  <2> QED BY <2>6, <2>7 DEF m, M
<1>5. l \in Locations /\ l = <<l[1], l[2]>> /\ l[1] = d0 /\ l[2] = n0
  BY ContentsFacts
<1>6. ASSUME NEW x \in Locations, x # l
      PROVE  Contents(t)[x] = Contents(s)[x] /\ (x \in Constants(t) <=> x \in Constants(s))
  <2>1. x = <<x[1], x[2]>> /\ x[1] \in 1..Depth /\ x[2] \in Names
    BY DEF Locations
  <2>2. CASE x[1] \in 1..Len(s)
    <3>1. t[x[1]][x[2]] = s[x[1]][x[2]]
      BY <1>1, <1>6, <2>1, <2>2
    <3> DEFINE d == x[1]
               n == x[2]
    <3>2. /\ t[d][n].ref = NoRef => Contents(t)[<<d, n>>] = t[d][n].value
          /\ t[d][n].ref # NoRef => Contents(t)[<<d, n>>] = 0
          /\ <<d, n>> \in Constants(t) <=> t[d][n].ref = NoRef /\ t[d][n].kind = "const"
      BY <1>1, <2>1, <2>2, ContentsFacts
    <3>3. /\ s[d][n].ref = NoRef => Contents(s)[<<d, n>>] = s[d][n].value
          /\ s[d][n].ref # NoRef => Contents(s)[<<d, n>>] = 0
          /\ <<d, n>> \in Constants(s) <=> s[d][n].ref = NoRef /\ s[d][n].kind = "const"
      BY <2>1, <2>2, ContentsFacts
    <3> QED BY <2>1, <3>1, <3>2, <3>3
  <2>3. CASE x[1] > Len(s)
    BY <1>1, <2>3, ContentsFacts
  <2> QED BY <1>1, <2>1, <2>2, <2>3
<1>7. /\ Contents(t)[l] = IF y.ref = NoRef THEN y.value ELSE 0
      /\ l \in Constants(t) <=> y.ref = NoRef /\ y.kind = "const"
      /\ Contents(s)[l] = 0 /\ l \notin Constants(s)
  <2>1. t[d0][n0] = y
    BY <1>1
  <2> QED BY <1>1, <1>2, <1>3, <2>1, ContentsFacts
<1>8. /\ Contents(t) = [x \in Locations |-> Contents(t)[x]] /\ Constants(t) \subseteq Locations
      /\ Contents(s) = [x \in Locations |-> Contents(s)[x]] /\ Constants(s) \subseteq Locations
  BY <1>1, ContentsFacts
<1> DEFINE Ct == Contents(t)
           Cs == Contents(s)
           Kt == Constants(t)
           Ks == Constants(s)
<1> HIDE DEF l, Ct, Cs, Kt, Ks
<1>9. /\ \A x \in Locations : x # l => Ct[x] = Cs[x] /\ (x \in Kt <=> x \in Ks)
      /\ Ct[l] = (IF y.ref = NoRef THEN y.value ELSE 0) /\ Cs[l] = 0
      /\ l \in Kt <=> y.ref = NoRef /\ y.kind = "const"
      /\ l \notin Ks /\ l \in Locations
      /\ Ct = [x \in Locations |-> Ct[x]] /\ Cs = [x \in Locations |-> Cs[x]]
      /\ Kt \subseteq Locations /\ Ks \subseteq Locations
  BY <1>5, <1>6, <1>7, <1>8 DEF Ct, Cs, Kt, Ks
<1>10. Ct = [Cs EXCEPT ![l] = IF y.ref = NoRef THEN y.value ELSE 0]
  <2>1. [Cs EXCEPT ![l] = IF y.ref = NoRef THEN y.value ELSE 0]
            = [x \in Locations |-> IF x = l THEN (IF y.ref = NoRef THEN y.value ELSE 0) ELSE Cs[x]]
    BY <1>9
  <2> QED BY <1>9, <2>1
<1>11. (y.ref # NoRef \/ y.value = 0) => Ct = Cs
  BY <1>9
<1>12. Kt = IF y.ref = NoRef /\ y.kind = "const" THEN Ks \cup {l} ELSE Ks
  <2>1. CASE y.ref = NoRef /\ y.kind = "const"
    <3>1. \A x : x \in Kt <=> x \in Ks \cup {l}
      BY <1>9, <2>1
    <3> QED BY <2>1, <3>1
  <2>2. CASE ~(y.ref = NoRef /\ y.kind = "const")
    <3>1. \A x : x \in Kt <=> x \in Ks
      BY <1>9, <2>2
    <3> QED BY <2>2, <3>1
  <2> QED BY <2>1, <2>2
<1> QED BY <1>4, <1>10, <1>11, <1>12 DEF Shows, l, Ct, Cs, Kt, Ks

LEMMA EnteredConstants ==
    ASSUME NEW s \in Scopes, NEW d0 \in 1..Len(s), NEW n0 \in Names, NEW y \in Symbol,
           ~Declared(s, d0, n0)
    PROVE  \A d \in 1..Len(s), n \in Names :
               s[d][n].kind = "const" => Entered(s, d0, n0, y)[d][n] = s[d][n]
<1> DEFINE t == Entered(s, d0, n0, y)
<1>1. \A d \in 1..Len(s), n \in Names : t[d][n] = IF d = d0 /\ n = n0 THEN y ELSE s[d][n]
  BY EnterFacts
<1> HIDE DEF t
<1>2. s[d0][n0].kind # "const"
  BY DEF Declared
<1>3. \A d \in 1..Len(s), n \in Names : s[d][n].kind = "const" => t[d][n] = s[d][n]
  BY <1>1, <1>2
<1> QED BY <1>3 DEF t

LEMMA DimRefines ==
    ASSUME Inductive, AliasFree, NEW n \in Names, ExecDim(n) \/ ExecStatic(n)
    PROVE  /\ \/ Abstract!Declare(1, n) \/ Abstract!Declare(Abstract!Level, n)
              \/ UNCHANGED <<scopes, frames, out>>
           /\ ConstantsKept
<1>1. PICK d \in {1, Len(scopes)} : d \in 1..Len(scopes) /\ Dim(d, n)
  BY TypeFacts DEF Inductive, ExecDim, ExecStatic
<1> DEFINE y == Variable(0)
           t == Entered(scopes, d, n, y)
<1>2. /\ scopes' = IF Declared(scopes, d, n) THEN scopes ELSE t
      /\ UNCHANGED <<frames, out, status>>
  BY <1>1 DEF Dim, Entered
<1>3. y \in Symbol /\ y.kind = "variable" /\ y.ref = NoRef /\ y.value = 0
  BY SymbolFacts, ConstantsOK
<1>4. CASE Declared(scopes, d, n)
  BY <1>2, <1>4 DEF ConstantsKept
<1>5. CASE ~Declared(scopes, d, n)
  <2> HIDE DEF y
  <2>1. Ready(t)
    BY <1>1, <1>3, <1>5, EnterReady
  <2>2. /\ t \in Scopes /\ Rooted(t)
        /\ scopes \in Scopes /\ Rooted(scopes) /\ Len(scopes) <= Depth
    BY <2>1, TypeFacts DEF Ready, Inductive
  <2>3. /\ Meaning(t) = [Meaning(scopes) EXCEPT ![d][n] = <<d, n>>]
        /\ Contents(t) = Contents(scopes) /\ Constants(t) = Constants(scopes)
    <3>1. t = Entered(scopes, d, n, y)
      OBVIOUS
    <3> HIDE DEF t
    <3>2. Shows(scopes, t, d, n, y)
      BY <1>1, <1>3, <1>5, <2>2, <3>1, EnteredAbstract
    <3> QED BY <1>3, <3>2 DEF Shows
  <2>4. Meaning(scopes)[d][n] = NoRef
    BY <1>1, <1>5, <2>2, MeaningFacts
  <2>5. Abstract!Declare(d, n)
    BY <1>2, <1>5, <2>3, <2>4, AbstractFacts DEF Abstract!Declare
  <2>6. ConstantsKept
    BY <1>1, <1>2, <1>3, <1>5, <2>2, EnteredConstants DEF ConstantsKept
  <2>7. d = 1 \/ d = Abstract!Level
    BY <1>1, AbstractFacts
  <2> QED BY <2>5, <2>6, <2>7
<1> QED BY <1>4, <1>5

LEMMA ConstRefines ==
    ASSUME Inductive, AliasFree, NEW n \in Names, NEW v \in Values, ExecConst(n, v)
    PROVE  (Abstract!Const(n, v) \/ UNCHANGED <<scopes, frames, out>>) /\ ConstantsKept
<1> DEFINE y == [kind |-> "const", value |-> v, ref |-> NoRef]
           t == Entered(scopes, 1, n, y)
<1>1. /\ scopes' = IF Declared(scopes, 1, n) THEN scopes ELSE t
      /\ Len(scopes) = 1 /\ UNCHANGED <<frames, out, status>>
  BY DEF ExecConst, Entered
<1>2. y \in Symbol /\ y.kind = "const" /\ y.ref = NoRef /\ y.value = v /\ 1 \in 1..Len(scopes)
  BY <1>1 DEF Symbol
<1>3. CASE Declared(scopes, 1, n)
  BY <1>1, <1>3 DEF ConstantsKept
<1>4. CASE ~Declared(scopes, 1, n)
  <2> HIDE DEF y
  <2>1. Ready(t)
    BY <1>2, <1>4, EnterReady
  <2>2. /\ t \in Scopes /\ Rooted(t)
        /\ scopes \in Scopes /\ Rooted(scopes) /\ Len(scopes) <= Depth
    BY <2>1, TypeFacts DEF Ready, Inductive
  <2>3. /\ Meaning(t) = [Meaning(scopes) EXCEPT ![1][n] = <<1, n>>]
        /\ Contents(t) = [Contents(scopes) EXCEPT ![<<1, n>>] = v]
        /\ Constants(t) = Constants(scopes) \cup {<<1, n>>}
    <3>1. t = Entered(scopes, 1, n, y)
      OBVIOUS
    <3> HIDE DEF t
    <3>2. Shows(scopes, t, 1, n, y)
      BY <1>2, <1>4, <2>2, <3>1, EnteredAbstract
    <3> QED BY <1>2, <3>2 DEF Shows
  <2>4. Meaning(scopes)[1][n] = NoRef /\ Abstract!Level = 1
    <3>1. Meaning(scopes)[1][n] = NoRef
      BY <1>2, <1>4, <2>2, MeaningFacts
    <3> QED BY <1>1, <3>1, AbstractFacts
  <2>5. Abstract!Const(n, v)
    BY <1>1, <1>4, <2>3, <2>4, AbstractFacts DEF Abstract!Const
  <2>6. ConstantsKept
    BY <1>1, <1>2, <1>4, <2>2, EnteredConstants DEF ConstantsKept
  <2> QED BY <2>5, <2>6
<1> QED BY <1>3, <1>4

LEMMA SharedRefines ==
    ASSUME Inductive, AliasFree, NEW n \in Names, ExecShared(n)
    PROVE  Abstract!Share(n) /\ ConstantsKept
<1> DEFINE s == Shareable(n)
           l == <<1, n>>
           y == [s[1][n] EXCEPT !.ref = l]
           len == Len(scopes)
           t == Entered(s, len, n, y)
<1>1. /\ Ready(s) /\ Declared(s, 1, n) /\ s[1][n].ref = NoRef
      /\ \A d \in 1..len, m \in Names :
            s[d][m] = IF d = 1 /\ m = n /\ ~Declared(scopes, 1, n) THEN Variable(0)
                      ELSE scopes[d][m]
  BY ShareableFacts
<1>2. /\ len > 1 /\ ~Declared(scopes, len, n)
      /\ IF Declared(s, Len(s), n) THEN Crash
         ELSE scopes' = Entered(s, Len(s), n, y) /\ UNCHANGED <<frames, out, status>>
  BY DEF ExecShared, Shareable, Entered
<1>3. /\ len \in 1..len /\ 1 \in 1..len /\ len <= Depth /\ scopes \in Scopes /\ Rooted(scopes)
      /\ s \in Scopes /\ Len(s) = len /\ Rooted(s)
  BY <1>1, TypeFacts DEF Inductive, Ready
<1>4. ~Declared(s, len, n)
  BY <1>1, <1>2, <1>3 DEF Declared
<1>5. scopes' = t /\ UNCHANGED <<frames, out, status>>
  BY <1>2, <1>3, <1>4
<1>6. /\ Meaning(s) = [Meaning(scopes) EXCEPT ![1][n] = l]
      /\ Contents(s) = Contents(scopes) /\ Constants(s) = Constants(scopes)
      /\ \A d \in 1..len, m \in Names : scopes[d][m].kind = "const" => s[d][m] = scopes[d][m]
  <2>1. CASE Declared(scopes, 1, n)
    <3>1. s = scopes
      BY <2>1 DEF Shareable
    <3>2. Meaning(scopes)[1][n] = l
      BY <1>1, <1>3, <2>1, <3>1, MeaningFacts
    <3>3. Meaning(scopes) = [d \in 1..len |-> [m \in Names |-> Meaning(scopes)[d][m]]]
      BY DEF Meaning
    <3> HIDE DEF len
    <3>4. [Meaning(scopes) EXCEPT ![1][n] = l] = Meaning(scopes)
      BY <1>3, <3>2, <3>3
    <3> QED BY <3>1, <3>4
  <2>2. CASE ~Declared(scopes, 1, n)
    <3>1. s = Entered(scopes, 1, n, Variable(0))
      BY <2>2 DEF Shareable
    <3>2. /\ Variable(0) \in Symbol /\ Variable(0).kind = "variable"
          /\ Variable(0).ref = NoRef /\ Variable(0).value = 0
      BY SymbolFacts, ConstantsOK
    <3> DEFINE z == Variable(0)
    <3> HIDE DEF z, s
    <3>3. z \in Symbol /\ z.kind = "variable" /\ z.ref = NoRef /\ z.value = 0 /\ s = Entered(scopes, 1, n, z)
      BY <3>1, <3>2 DEF z
    <3>4. Shows(scopes, s, 1, n, z)
      BY <1>3, <2>2, <3>3, EnteredAbstract
    <3>5. \A d \in 1..len, m \in Names : scopes[d][m].kind = "const" => s[d][m] = scopes[d][m]
      BY <1>3, <2>2, <3>3, EnteredConstants
    <3> QED BY <3>3, <3>4, <3>5 DEF Shows
  <2> QED BY <2>1, <2>2
<1> HIDE DEF s
<1>7. l \in Locations /\ l # NoRef
  BY <1>3, SymbolFacts, ConstantsOK DEF Locations
<1> HIDE DEF l
<1>8. y \in Symbol /\ y.kind = s[1][n].kind /\ y.kind # "none" /\ y.ref = l
  BY <1>1, <1>3, <1>7, ScopesFacts, SharedReferenceFacts DEF Declared
<1>9. t \in Scopes /\ Rooted(t)
  <2>1. t \in Scopes
    BY <1>3, <1>8, EnterFacts
  <2>2. Rooted(scopes')
    BY SharedQuiet DEF Quiet, Grows
  <2> QED BY <1>5, <2>1, <2>2
<1> HIDE DEF y
<1>10. /\ Meaning(t) = [Meaning(s) EXCEPT ![len][n] = l]
       /\ Contents(t) = Contents(s) /\ Constants(t) = Constants(s)
  <2>1. t = Entered(s, len, n, y) /\ Len(s) <= Depth /\ len \in 1..Len(s) /\ ~Declared(s, len, n)
    BY <1>3, <1>4
  <2> HIDE DEF t, len
  <2>2. Shows(s, t, len, n, y)
    BY <1>3, <1>8, <1>9, <2>1, EnteredAbstract
  <2> QED BY <1>7, <1>8, <2>2 DEF Shows
<1>11. Meaning(t) = [Meaning(scopes) EXCEPT ![1][n] = l, ![len][n] = l]
  BY <1>6, <1>10
<1>12. Meaning(scopes)[len][n] = NoRef /\ Abstract!Level = len
  BY <1>2, <1>3, MeaningFacts, AbstractFacts
<1>13. \A d \in 1..len, m \in Names : scopes[d][m].kind = "const" => t[d][m] = scopes[d][m]
  BY <1>3, <1>4, <1>6, <1>8, EnteredConstants
<1> HIDE DEF t, len
<1>14. Abstract!Share(n)
  BY <1>2, <1>5, <1>6, <1>10, <1>11, <1>12, AbstractFacts DEF Abstract!Share, l
<1>15. ConstantsKept
  BY <1>5, <1>13 DEF ConstantsKept, len
<1> QED BY <1>14, <1>15

--------------------------------------------------------------------------------
(* Calls and returns.                                                       *)

Environments == Seq([Names -> Addresses])

LEMMA MeaningType ==
    ASSUME NEW s \in Scopes, Len(s) <= Depth
    PROVE  Meaning(s) \in Environments
<1>1. Len(s) \in Nat
  BY ScopesFacts
<1>2. ASSUME NEW d \in 1..Len(s), NEW n \in Names PROVE Meaning(s)[d][n] \in Addresses
  <2>1. <<d, n>> \in Locations
    BY <1>1, ConstantsOK DEF Locations
  <2> QED BY <2>1, MeaningFacts, ScopesFacts DEF Addresses
<1>3. Meaning(s) = [d \in 1..Len(s) |-> [n \in Names |-> Meaning(s)[d][n]]]
  BY DEF Meaning
<1> HIDE DEF Meaning
<1>4. Meaning(s) \in [1..Len(s) -> [Names -> Addresses]]
  BY <1>2, <1>3
<1> QED BY <1>1, <1>4, SeqDef DEF Environments

LEMMA AppendEnvironment ==
    ASSUME NEW M \in Environments, NEW m \in [Names -> Addresses]
    PROVE  /\ Append(M, m) \in Environments /\ Len(Append(M, m)) = Len(M) + 1
           /\ \A d \in 1..Len(M) : Append(M, m)[d] = M[d]
           /\ Append(M, m)[Len(M) + 1] = m
  BY AppendProperties DEF Environments

LEMMA SameEnvironment ==
    ASSUME NEW M \in Environments, NEW N \in Environments, NEW k, Len(M) = k, Len(N) = k,
           \A d \in 1..k : M[d] = N[d]
    PROVE  M = N
  BY SeqEqual DEF Environments

(* A new scope c on top of s.                                               *)
LEMMA AppendedMeaning ==
    ASSUME NEW s \in Scopes, Len(s) < Depth, NEW c \in Scope, NEW t \in Scopes,
           Len(t) = Len(s) + 1, \A d \in 1..Len(s) : t[d] = s[d], t[Len(s) + 1] = c,
           NEW m, m = [n \in Names |-> m[n]],
           \A n \in Names : m[n] = IF c[n].kind = "none" THEN NoRef
                                   ELSE IF c[n].ref # NoRef THEN c[n].ref ELSE <<Len(s) + 1, n>>
    PROVE  Meaning(t) = Append(Meaning(s), m)
<1> DEFINE own == Len(s) + 1
           e == Append(Meaning(s), m)
<1>1. /\ Len(s) \in Nat /\ own \in 1..Depth /\ Len(t) = own /\ Len(s) <= Depth /\ own <= Depth
      /\ own \in 1..own
  BY ScopesFacts, ConstantsOK
<1>2. /\ Meaning(s) \in Environments /\ Len(Meaning(s)) = Len(s)
      /\ Meaning(t) \in Environments /\ Len(Meaning(t)) = own
  <2> HIDE DEF own
  <2>1. /\ Meaning(s) \in Environments /\ Len(Meaning(s)) = Len(s)
    BY <1>1, MeaningType, MeaningFacts
  <2>2. /\ Meaning(t) \in Environments /\ Len(Meaning(t)) = Len(t)
    BY <1>1, MeaningType, MeaningFacts
  <2> QED BY <1>1, <2>1, <2>2
<1>3. \A n \in Names : m[n] \in Addresses
  <2>1. \A n \in Names : <<own, n>> \in Locations
    BY <1>1 DEF Locations
  <2>2. \A n \in Names : c[n].ref \in Addresses
    BY DEF Scope, Symbol, Addresses
  <2> QED BY <2>1, <2>2 DEF Addresses
<1>4. m \in [Names -> Addresses]
  BY <1>3
<1>5. /\ e \in Environments /\ Len(e) = own
      /\ \A d \in 1..Len(s) : e[d] = Meaning(s)[d]
      /\ e[own] = m
  <2> DEFINE M == Meaning(s)
  <2>1. M \in Environments /\ Len(M) = Len(s)
    BY <1>2
  <2> HIDE DEF M
  <2>2. /\ Append(M, m) \in Environments /\ Len(Append(M, m)) = Len(M) + 1
        /\ \A d \in 1..Len(M) : Append(M, m)[d] = M[d]
        /\ Append(M, m)[Len(M) + 1] = m
    BY <1>4, <2>1, AppendEnvironment
  <2> QED BY <2>1, <2>2 DEF M
<1> HIDE DEF e
<1>6. ASSUME NEW d \in 1..own PROVE Meaning(t)[d] = e[d]
  <2>1. /\ Meaning(t)[d] = [n \in Names |-> Meaning(t)[d][n]]
        /\ d \in 1..Len(s) => Meaning(s)[d] = [n \in Names |-> Meaning(s)[d][n]]
    BY <1>1 DEF Meaning
  <2>2. CASE d \in 1..Len(s)
    <3>1. \A n \in Names : Meaning(t)[d][n] = Meaning(s)[d][n]
      <4> TAKE n \in Names
      <4>1. d \in 1..Len(t) /\ t[d] = s[d]
        BY <1>1, <2>2
      <4> HIDE DEF Meaning
      <4> QED BY <2>2, <4>1, MeaningAt
    <3> QED BY <1>5, <2>1, <2>2, <3>1
  <2>3. CASE d = own
    <3>1. \A n \in Names : Meaning(t)[own][n] = m[n]
      <4> TAKE n \in Names
      <4>1. Meaning(t)[own][n] = Stands(c[n], own, n)
        BY <1>1, MeaningAt
      <4> QED BY <4>1 DEF Stands
    <3> QED BY <1>5, <2>1, <2>3, <3>1
  <2> QED BY <1>1, <2>2, <2>3
<1> HIDE DEF own
<1>7. Meaning(t) = e
  <2>1. \A d \in 1..own : Meaning(t)[d] = e[d]
    BY <1>6
  <2> QED BY <1>2, <1>5, <2>1, SameEnvironment
<1> QED BY <1>7 DEF e

LEMMA AppendedContents ==
    ASSUME NEW s \in Scopes, Len(s) < Depth, Rooted(s), NEW c \in Scope, NEW t \in Scopes,
           Rooted(t), Len(t) = Len(s) + 1, \A d \in 1..Len(s) : t[d] = s[d], t[Len(s) + 1] = c,
           \A n \in Names : c[n].kind # "const"
    PROVE  /\ Constants(t) = Constants(s)
           /\ \A l \in Locations :
                 Contents(t)[l] = IF l[1] = Len(s) + 1 /\ c[l[2]].ref = NoRef THEN c[l[2]].value
                                  ELSE Contents(s)[l]
<1> DEFINE own == Len(s) + 1
<1>1. /\ Len(s) \in Nat /\ own \in 1..Depth /\ Len(t) = own /\ Len(s) <= Depth /\ own <= Depth
      /\ Len(t) <= Depth
  BY ScopesFacts, ConstantsOK
<1>2. ASSUME NEW l \in Locations
      PROVE  /\ Contents(t)[l] = IF l[1] = own /\ c[l[2]].ref = NoRef THEN c[l[2]].value
                                 ELSE Contents(s)[l]
             /\ l \in Constants(t) <=> l \in Constants(s)
  <2>1. l = <<l[1], l[2]>> /\ l[1] \in 1..Depth /\ l[2] \in Names
    BY DEF Locations
  <2> DEFINE d == l[1]
             n == l[2]
  <2>2. CASE d \in 1..Len(s)
    <3>1. t[d] = s[d] /\ d \in 1..Len(t) /\ d # own
      BY <1>1, <2>2
    <3>2. /\ t[d][n].ref = NoRef => Contents(t)[<<d, n>>] = t[d][n].value
          /\ t[d][n].ref # NoRef => Contents(t)[<<d, n>>] = 0
          /\ <<d, n>> \in Constants(t) <=> t[d][n].ref = NoRef /\ t[d][n].kind = "const"
      BY <1>1, <2>1, <3>1, ContentsFacts
    <3>3. /\ s[d][n].ref = NoRef => Contents(s)[<<d, n>>] = s[d][n].value
          /\ s[d][n].ref # NoRef => Contents(s)[<<d, n>>] = 0
          /\ <<d, n>> \in Constants(s) <=> s[d][n].ref = NoRef /\ s[d][n].kind = "const"
      BY <1>1, <2>1, <2>2, ContentsFacts
    <3> QED BY <2>1, <3>1, <3>2, <3>3
  <2>3. CASE d = own
    <3>1. t[d] = c /\ d \in 1..Len(t)
      BY <1>1, <2>3
    <3>2. /\ t[d][n].ref = NoRef => Contents(t)[<<d, n>>] = t[d][n].value
          /\ t[d][n].ref # NoRef => Contents(t)[<<d, n>>] = 0
          /\ <<d, n>> \in Constants(t) <=> t[d][n].ref = NoRef /\ t[d][n].kind = "const"
      BY <1>1, <2>1, <3>1, ContentsFacts
    <3>3. Contents(s)[l] = 0 /\ l \notin Constants(s)
      BY <1>1, <2>3, ContentsFacts
    <3> QED BY <2>1, <2>3, <3>1, <3>2, <3>3
  <2>4. CASE d > own
    <3>1. Contents(t)[l] = 0 /\ l \notin Constants(t) /\ Contents(s)[l] = 0 /\ l \notin Constants(s)
      <4>1. l[1] > Len(t) /\ l[1] > Len(s)
        BY <1>1, <2>1, <2>4, ConstantsOK
      <4>2. Contents(t)[l] = 0 /\ l \notin Constants(t)
        BY <1>1, <4>1, ContentsFacts
      <4>3. Contents(s)[l] = 0 /\ l \notin Constants(s)
        BY <1>1, <4>1, ContentsFacts
      <4> QED BY <4>2, <4>3
    <3> QED BY <1>1, <2>4, <3>1
  <2> QED BY <1>1, <2>1, <2>2, <2>3, <2>4
<1>3. Constants(t) \subseteq Locations /\ Constants(s) \subseteq Locations
  BY <1>1, ContentsFacts
<1> QED BY <1>2, <1>3

LEMMA ResultsFacts ==
    ASSUME NEW fs \in Seq(Frame)
    PROVE  /\ Results(fs) \in Seq(Names \cup {NoName, Lost}) /\ Len(Results(fs)) = Len(fs)
           /\ \A d \in 1..Len(fs) : Results(fs)[d] = fs[d].result
<1>1. Len(fs) \in Nat /\ \A d \in 1..Len(fs) : fs[d].result \in Names \cup {NoName, Lost}
  BY ElementOfSeq, LenProperties, FrameFacts
<1>2. Results(fs) \in [1..Len(fs) -> Names \cup {NoName, Lost}]
  BY <1>1 DEF Results
<1>3. Results(fs) \in Seq(Names \cup {NoName, Lost}) /\ DOMAIN Results(fs) = 1..Len(fs)
  BY <1>1, <1>2, SeqDef
<1>4. Len(Results(fs)) = Len(fs)
  BY <1>1, <1>3, LenProperties
<1> QED BY <1>3, <1>4 DEF Results

LEMMA AppendedResults ==
    ASSUME NEW fs \in Seq(Frame), NEW f \in Frame
    PROVE  Results(Append(fs, f)) = Append(Results(fs), f.result)
<1> DEFINE gs == Append(fs, f)
           R == Names \cup {NoName, Lost}
           rs == Append(Results(fs), f.result)
<1>1. /\ gs \in Seq(Frame) /\ Len(gs) = Len(fs) + 1 /\ Len(fs) \in Nat
      /\ \A d \in 1..Len(fs) : gs[d] = fs[d]
      /\ gs[Len(fs) + 1] = f
  BY AppendProperties, LenProperties
<1>2. f.result \in R
  BY FrameFacts
<1>3. /\ Results(gs) \in Seq(R) /\ Len(Results(gs)) = Len(fs) + 1
      /\ \A d \in 1..(Len(fs) + 1) : Results(gs)[d] = gs[d].result
      /\ Results(fs) \in Seq(R) /\ Len(Results(fs)) = Len(fs)
      /\ \A d \in 1..Len(fs) : Results(fs)[d] = fs[d].result
  BY <1>1, ResultsFacts
<1> HIDE DEF gs, R
<1>4. /\ rs \in Seq(R) /\ Len(rs) = Len(fs) + 1
      /\ \A d \in 1..Len(fs) : rs[d] = Results(fs)[d]
      /\ rs[Len(fs) + 1] = f.result
  BY <1>2, <1>3, AppendProperties
<1> HIDE DEF rs
<1>5. \A d \in 1..(Len(fs) + 1) : Results(gs)[d] = rs[d]
  BY <1>1, <1>3, <1>4
<1>6. Results(gs) = rs
  BY <1>3, <1>4, <1>5, SeqEqual
<1> QED BY <1>6 DEF gs, rs

LEMMA EnteringRefines ==
    ASSUME Inductive, AliasFree, NEW p \in Procedures, NEW args \in [1..Len(p.params) -> Names],
           NEW paren \in [1..Len(p.params) -> BOOLEAN], Entering(p, args, paren)
    PROVE  Abstract!Enter(p, args, paren) /\ ConstantsKept
<1> DEFINE s == UsingAll(scopes, args)
           c == Callee(s, p, args, paren)
           t == Append(s, c)
           k == Len(p.params)
           addrs == Targets(s, p, args, paren)
           used == {args[i] : i \in 1..k}
           new == Abstract!Level + 1
           B(i) == ~p.byval[i] /\ ~paren[i] /\ Abstract!Where(args[i]) \notin Constants(scopes)
           m == [n \in Names |->
                    IF \E i \in Param(p, n) : B(i)
                    THEN Abstract!Where(args[CHOOSE i \in Param(p, n) : TRUE])
                    ELSE IF Param(p, n) # {} \/ n = p.result THEN <<new, n>> ELSE Abstract!Unbound]
<1>1. /\ Len(scopes) < Depth /\ MayPass(s, p, args, paren)
      /\ \A i \in 1..k : p.params[i] # p.result
      /\ scopes' = t /\ frames' = Pushed(p, addrs) /\ UNCHANGED <<out, status>>
  BY DEF Entering
<1>2. k \in Nat /\ p.result \in Names \cup {NoName} /\ DOMAIN args = 1..k
  BY ProcedureFacts
<1>3. s \in Scopes /\ WidenedBy(scopes, s, used) /\ scopes \in Scopes
  BY <1>2, TypeFacts, UsingAllWidens DEF Inductive
<1>4. used \in SUBSET Names /\ \A i \in 1..k : args[i] \in used /\ args[i] \in Names
  OBVIOUS
<1> HIDE DEF s, used
<1>5. /\ Ready(s) /\ Coherent(s) /\ Len(s) <= Depth
      /\ Meaning(s) = Abstract!Using(used)
      /\ Contents(s) = Contents(scopes) /\ Constants(s) = Constants(scopes)
      /\ \A n \in used :
            /\ Found(s, n) /\ Lvalue(s, n) = Abstract!Where(n)
            /\ Contents(scopes)[Abstract!Where(n)] = SymbolOf(s, n).value
            /\ Abstract!Where(n) \in Constants(scopes) <=> SymbolOf(s, n).kind = "const"
  BY <1>3, <1>4, UsedAbstract
<1>6. /\ Len(s) > 0 /\ Len(s) = Len(scopes) /\ Len(s) < Depth /\ Rooted(s) /\ Len(s) \in Nat
      /\ \A i \in 1..k : Found(s, args[i])
      /\ new = Len(s) + 1 /\ Abstract!Unbound = NoRef /\ Abstract!Locations = Locations
  BY <1>1, <1>3, <1>4, <1>5, ScopesFacts, AbstractFacts DEF Ready
<1>7. /\ c \in Scope
      /\ \A i \in 1..k : c[p.params[i]] = Argument(s, p, args, paren, i)
      /\ \A n \in Names : \/ \E i \in 1..k : n = p.params[i]
                          \/ c[n] = Variable(0) /\ n = p.result
                          \/ c[n] = NoSymbol /\ n # p.result
      /\ \A n \in Names : /\ c[n].kind = "none" => c[n] = NoSymbol
                          /\ c[n].ref # NoRef => /\ c[n].ref \in Places(s)
                                                 /\ Declared(s, c[n].ref[1], c[n].ref[2])
  BY <1>3, <1>5, <1>6, CalleeFacts
<1>8. ASSUME NEW i \in 1..k
      PROVE  LET y == Argument(s, p, args, paren, i)
                 l == Abstract!Where(args[i])
             IN  /\ y \in Symbol /\ y.kind = "variable" /\ addrs[i] = y.ref
                 /\ B(i) => y.ref = l /\ l # NoRef
                 /\ ~B(i) => y.ref = NoRef /\ y.value = Contents(scopes)[l]
  <2>1. B(i) <=> ByRef(p, paren, i)
    BY <1>1, <1>4, <1>5 DEF ByRef, MayPass
  <2>2. LET y == Argument(s, p, args, paren, i)
            l == Lvalue(s, args[i])
        IN  /\ y \in Symbol /\ y.kind = "variable"
            /\ ByRef(p, paren, i) => y.ref = l
            /\ ~ByRef(p, paren, i) => y.ref = NoRef /\ y.value = SymbolOf(s, args[i]).value
    BY <1>2, <1>3, <1>5, <1>6, ArgumentFacts, SMTT(30)
  <2>3. Lvalue(s, args[i]) # NoRef
    BY <1>3, <1>4, <1>5, <1>6, PlaceFacts, SymbolFacts
  <2> HIDE DEF B
  <2> QED BY <1>4, <1>5, <2>1, <2>2, <2>3 DEF Targets
<1> HIDE DEF B, addrs
<1>9. Variable(0).kind = "variable" /\ Variable(0).ref = NoRef /\ Variable(0).value = 0
  BY SymbolFacts, ConstantsOK
<1>10. NoSymbol.kind = "none" /\ NoSymbol.value = 0 /\ NoSymbol.ref = NoRef
  BY SymbolFacts
<1>11. \A i \in 1..k : /\ p.params[i] \in Names /\ Param(p, p.params[i]) = {i}
                       /\ (CHOOSE j \in Param(p, p.params[i]) : TRUE) = i
  BY ParamFacts
<1>12. \A n \in Names : (\A i \in 1..k : n # p.params[i]) => Param(p, n) = {}
  BY DEF Param
<1>13. /\ t \in Scopes /\ Len(t) = Len(s) + 1 /\ Rooted(t)
       /\ \A d \in 1..Len(s) : t[d] = s[d]
       /\ t[Len(s) + 1] = c
  BY <1>3, <1>6, <1>7, AppendRooted
<1> HIDE DEF c, t
<1>14. Meaning(t) = Append(Meaning(s), m)
  <2>1. ASSUME NEW n \in Names
        PROVE  m[n] = IF c[n].kind = "none" THEN NoRef
                      ELSE IF c[n].ref # NoRef THEN c[n].ref ELSE <<Len(s) + 1, n>>
    <3>0. m[n] = IF \E i \in Param(p, n) : B(i)
                 THEN Abstract!Where(args[CHOOSE i \in Param(p, n) : TRUE])
                 ELSE IF Param(p, n) # {} \/ n = p.result THEN <<new, n>> ELSE Abstract!Unbound
      OBVIOUS
    <3> HIDE DEF m
    <3>1. CASE \E i \in 1..k : n = p.params[i]
      <4>1. PICK i \in 1..k : n = p.params[i]
        BY <3>1
      <4>2. Param(p, n) = {i} /\ (CHOOSE j \in Param(p, n) : TRUE) = i
        BY <1>11, <4>1
      <4>3. m[n] = IF B(i) THEN Abstract!Where(args[i]) ELSE <<new, n>>
        BY <3>0, <4>2
      <4>4. c[n] = Argument(s, p, args, paren, i)
        BY <1>7, <4>1
      <4> QED BY <1>6, <1>8, <4>3, <4>4
    <3>2. CASE \A i \in 1..k : n # p.params[i]
      <4>1. m[n] = IF n = p.result THEN <<new, n>> ELSE NoRef
        BY <1>6, <1>12, <3>0, <3>2
      <4>2. c[n] = IF n = p.result THEN Variable(0) ELSE NoSymbol
        BY <1>7, <3>2
      <4> QED BY <1>6, <1>9, <1>10, <4>1, <4>2
    <3> QED BY <3>1, <3>2
  <2>2. m = [n \in Names |-> m[n]]
    OBVIOUS
  <2> HIDE DEF m
  <2> QED BY <1>3, <1>6, <1>7, <1>13, <2>1, <2>2, AppendedMeaning
<1>15. \A n \in Names : c[n].kind # "const"
  BY <1>7, <1>8, <1>9, <1>10, ZenonT(40)
<1>16. /\ Constants(t) = Constants(scopes)
       /\ \A l \in Locations :
             Contents(t)[l] = IF l[1] = new /\ c[l[2]].ref = NoRef THEN c[l[2]].value
                              ELSE Contents(scopes)[l]
  BY <1>3, <1>5, <1>6, <1>7, <1>13, <1>15, AppendedContents
<1>17. Contents(t) = [l \in Locations |->
                         IF l[1] = new /\ \E i \in Param(p, l[2]) : ~B(i)
                         THEN Contents(scopes)[Abstract!Where(args[CHOOSE i \in Param(p, l[2]) : TRUE])]
                         ELSE Contents(scopes)[l]]
  <2>1. ASSUME NEW l \in Locations
        PROVE  Contents(t)[l] =
                   IF l[1] = new /\ \E i \in Param(p, l[2]) : ~B(i)
                   THEN Contents(scopes)[Abstract!Where(args[CHOOSE i \in Param(p, l[2]) : TRUE])]
                   ELSE Contents(scopes)[l]
    <3> DEFINE n == l[2]
    <3>1. n \in Names
      BY DEF Locations
    <3>2. CASE l[1] # new
      BY <1>16, <3>2
    <3>3. CASE l[1] = new
      <4>1. Contents(s)[l] = 0
        <5>1. l[1] > Len(s)
          BY <1>6, <3>3
        <5> HIDE DEF new
        <5> QED BY <1>3, <1>5, <1>6, <5>1, ContentsFacts
      <4>2. CASE \E i \in 1..k : n = p.params[i]
        <5>1. PICK i \in 1..k : n = p.params[i]
          BY <4>2
        <5>2. Param(p, n) = {i} /\ (CHOOSE j \in Param(p, n) : TRUE) = i
          BY <1>11, <5>1
        <5>3. c[n] = Argument(s, p, args, paren, i)
          BY <1>7, <5>1
        <5> HIDE DEF n
        <5>4. CASE B(i)
          <6>1. c[n].ref # NoRef
            BY <1>8, <5>3, <5>4
          <6>2. Contents(t)[l] = Contents(scopes)[l]
            BY <1>16, <6>1 DEF n
          <6>3. ~\E j \in Param(p, n) : ~B(j)
            BY <5>2, <5>4
          <6> QED BY <6>2, <6>3 DEF n
        <5>5. CASE ~B(i)
          <6>1. c[n].ref = NoRef /\ c[n].value = Contents(scopes)[Abstract!Where(args[i])]
            BY <1>8, <5>3, <5>5
          <6>2. Contents(t)[l] = Contents(scopes)[Abstract!Where(args[i])]
            BY <1>16, <3>3, <6>1 DEF n
          <6>3. \E j \in Param(p, n) : ~B(j)
            BY <5>2, <5>5
          <6> QED BY <3>3, <5>2, <6>2, <6>3 DEF n
        <5> QED BY <5>4, <5>5
      <4>3. CASE \A i \in 1..k : n # p.params[i]
        <5>1. Param(p, n) = {}
          BY <1>12, <3>1, <4>3
        <5>2. c[n].ref = NoRef /\ c[n].value = 0
          BY <1>7, <1>9, <1>10, <3>1, <4>3
        <5>3. Contents(t)[l] = 0
          BY <1>16, <3>3, <5>2
        <5> QED BY <1>5, <4>1, <5>1, <5>3
      <4> QED BY <4>2, <4>3
    <3> QED BY <3>2, <3>3
  <2>2. Contents(t) = [l \in Locations |-> Contents(t)[l]]
    BY DEF Contents
  <2> QED BY <2>1, <2>2
<1>18. Results(frames') = Append(Results(frames), p.result)
  <2>1. \A i \in 1..k : addrs[i] \in Addresses
    BY <1>8 DEF Symbol, Addresses
  <2>2. PICK f \in Frame : Pushed(p, addrs) = Append(frames, f) /\ f.result = p.result
    BY <1>2, <2>1, PushedFacts
  <2>3. frames \in Seq(Frame)
    BY DEF Inductive, TypeOK
  <2> QED BY <1>1, <2>2, <2>3, AppendedResults
<1>19. new <= Depth /\ used = {args[i] : i \in DOMAIN args}
  BY <1>2, <1>6, ConstantsOK DEF used
<1> HIDE DEF new
<1>20. Abstract!Enter(p, args, paren)
  BY <1>1, <1>5, <1>6, <1>14, <1>16, <1>17, <1>18, <1>19 DEF Abstract!Enter, Param, B, new
<1>21. ConstantsKept
  <2>1. ASSUME NEW d \in 1..Len(scopes), NEW n \in Names, scopes[d][n].kind = "const"
        PROVE  t[d][n] = scopes[d][n]
    BY <1>3, <1>6, <1>13, <2>1, WidenedConstants
  <2> QED BY <1>1, <2>1 DEF ConstantsKept
<1> QED BY <1>20, <1>21

LEMMA PrefixMeaning ==
    ASSUME NEW s \in Scopes, Len(s) <= Depth, Rooted(s), NEW k \in 1..Len(s), NEW t,
           t = SubSeq(s, 1, k)
    PROVE  /\ Meaning(t) = SubSeq(Meaning(s), 1, k)
           /\ \A l \in Locations :
                 /\ Contents(t)[l] = IF l[1] > k THEN 0 ELSE Contents(s)[l]
                 /\ l \in Constants(t) <=> l[1] <= k /\ l \in Constants(s)
<1>1. /\ t \in Scopes /\ Len(t) = k /\ \A d \in 1..k : t[d] = s[d]
      /\ Rooted(t)
  BY PrefixFacts
<1>2. Len(s) \in Nat /\ k \in Int /\ 1 \in Int /\ 1 <= k /\ k <= Depth
  BY ScopesFacts, ConstantsOK
<1> DEFINE e == SubSeq(Meaning(s), 1, k)
<1>3. /\ Meaning(s) \in Environments /\ Len(Meaning(s)) = Len(s)
      /\ Meaning(t) \in Environments /\ Len(Meaning(t)) = k
  BY <1>1, <1>2, MeaningType, MeaningFacts
<1>4. e \in Environments /\ Len(e) = k /\ \A d \in 1..k : e[d] = Meaning(s)[d]
  <2>1. \A d \in 1..k : Meaning(s)[d] \in [Names -> Addresses]
    BY <1>2, <1>3, ElementOfSeq DEF Environments
  <2> QED BY <1>2, <2>1, SubSeqProperties DEF Environments
<1> HIDE DEF e
<1>5. ASSUME NEW d \in 1..k PROVE Meaning(t)[d] = e[d]
  <2>1. /\ Meaning(t)[d] = [n \in Names |-> Meaning(t)[d][n]]
        /\ Meaning(s)[d] = [n \in Names |-> Meaning(s)[d][n]]
    <3>1. d \in 1..Len(s) /\ d \in 1..Len(t)
      BY <1>1, <1>2
    <3> QED BY <3>1, MeaningRows
  <2>2. \A n \in Names : Meaning(t)[d][n] = Meaning(s)[d][n]
    <3> TAKE n \in Names
    <3>1. d \in 1..Len(s) /\ d \in 1..Len(t) /\ t[d] = s[d]
      BY <1>1, <1>2
    <3> QED BY <1>1, <3>1, MeaningAt, ZenonT(40)
  <2> QED BY <1>4, <2>1, <2>2
<1>6. Meaning(t) = e
  BY <1>3, <1>4, <1>5, SeqEqual DEF Environments
<1>7. ASSUME NEW l \in Locations
      PROVE  /\ Contents(t)[l] = IF l[1] > k THEN 0 ELSE Contents(s)[l]
             /\ l \in Constants(t) <=> l[1] <= k /\ l \in Constants(s)
  <2>1. l = <<l[1], l[2]>> /\ l[1] \in 1..Depth /\ l[2] \in Names /\ l[1] \in Int
    BY <1>2, ConstantsOK DEF Locations
  <2> DEFINE d == l[1]
             n == l[2]
  <2>2. CASE d \in 1..k
    <3>1. t[d] = s[d] /\ d \in 1..Len(s) /\ d \in 1..Len(t) /\ Len(t) <= Depth
      BY <1>1, <1>2, <2>2
    <3>2. /\ t[d][n].ref = NoRef => Contents(t)[<<d, n>>] = t[d][n].value
          /\ t[d][n].ref # NoRef => Contents(t)[<<d, n>>] = 0
          /\ <<d, n>> \in Constants(t) <=> t[d][n].ref = NoRef /\ t[d][n].kind = "const"
      <4>1. d \in 1..Len(t) /\ n \in Names /\ Len(t) <= Depth /\ t \in Scopes /\ Rooted(t)
        BY <1>1, <2>1, <3>1
      <4> HIDE DEF d, n
      <4> QED BY <4>1, ContentsAt
    <3>3. /\ s[d][n].ref = NoRef => Contents(s)[<<d, n>>] = s[d][n].value
          /\ s[d][n].ref # NoRef => Contents(s)[<<d, n>>] = 0
          /\ <<d, n>> \in Constants(s) <=> s[d][n].ref = NoRef /\ s[d][n].kind = "const"
      BY <2>1, <3>1, ContentsFacts
    <3>4. /\ Contents(t)[<<d, n>>] = Contents(s)[<<d, n>>]
          /\ <<d, n>> \in Constants(t) <=> <<d, n>> \in Constants(s)
      BY <3>1, <3>2, <3>3
    <3>5. d <= k /\ ~(d > k)
      BY <1>2, <2>2
    <3> QED BY <2>1, <3>4, <3>5
  <2>3. CASE d > k
    <3>1. Contents(t)[l] = 0 /\ l \notin Constants(t)
      BY <1>1, <1>2, <2>3, ContentsFacts
    <3> QED BY <1>2, <2>1, <2>3, <3>1
  <2> QED BY <1>2, <2>1, <2>2, <2>3
<1> QED BY <1>6, <1>7 DEF e

LEMMA PrefixResults ==
    ASSUME NEW fs \in Seq(Frame), NEW k \in 1..Len(fs)
    PROVE  Results(SubSeq(fs, 1, k)) = SubSeq(Results(fs), 1, k)
<1> DEFINE gs == SubSeq(fs, 1, k)
           R == Names \cup {NoName, Lost}
           rs == SubSeq(Results(fs), 1, k)
<1>1. Len(fs) \in Nat /\ k \in Int /\ 1 \in Int /\ 1 <= k /\ \A d \in 1..k : fs[d] \in Frame
  BY ElementOfSeq, LenProperties
<1>2. gs \in Seq(Frame) /\ Len(gs) = k /\ \A d \in 1..k : gs[d] = fs[d]
  BY <1>1, SubSeqProperties
<1> HIDE DEF gs
<1>3. /\ Results(gs) \in Seq(R) /\ Len(Results(gs)) = k
      /\ \A d \in 1..k : Results(gs)[d] = gs[d].result
      /\ Results(fs) \in Seq(R) /\ Len(Results(fs)) = Len(fs)
      /\ \A d \in 1..k : Results(fs)[d] = fs[d].result
  BY <1>1, <1>2, ResultsFacts
<1> HIDE DEF R
<1>4. rs \in Seq(R) /\ Len(rs) = k /\ \A d \in 1..k : rs[d] = Results(fs)[d]
  <2>1. \A d \in 1..k : Results(fs)[d] \in R
    BY <1>1, <1>3, ElementOfSeq
  <2> QED BY <1>1, <2>1, SubSeqProperties
<1> HIDE DEF rs
<1>5. Results(gs) = rs
  BY <1>2, <1>3, <1>4, SeqEqual
<1> QED BY <1>5 DEF gs, rs

LEMMA ReturnRefines ==
    ASSUME Inductive, AliasFree, ProcedureReturn
    PROVE  Abstract!Leave /\ ConstantsKept
<1> DEFINE own == Len(scopes)
           f == frames[own]
           w == WrittenBack(scopes, f)
           k == own - 1
           r == f.result
<1>1. /\ own > 1 /\ scopes' = SubSeq(w, 1, k) /\ frames' = SubSeq(frames, 1, k)
      /\ out' = IF r = NoName THEN out
                ELSE IF r = Lost THEN 0 ELSE scopes[own][r].value
  <2>1. Len(frames) = own
    BY TypeFacts DEF Inductive, TypeOK
  <2>2. frames' = SubSeq(frames, 1, k)
    BY <2>1 DEF ProcedureReturn, Returned
  <2> QED BY <2>2 DEF ProcedureReturn
<1>2. /\ scopes \in Scopes /\ own \in 1..Depth /\ own > 0 /\ Len(frames) = own /\ Rooted(scopes)
      /\ frames \in Seq(Frame) /\ f \in Frame /\ own \in 1..own /\ FramesRooted /\ own <= Depth
      /\ Coherent(scopes) /\ FrameKept(scopes, own, f)
  BY TypeFacts DEF Inductive, TypeOK, Disciplined
<1>3. BindingsIn(scopes, f)
  BY <1>2 DEF FramesRooted, BindingsIn
<1>4. w = scopes
  BY <1>2, <1>3, WrittenBackSame
<1>5. r # Lost /\ (r # NoName => r \in Names /\ Declared(scopes, own, r))
  BY <1>2, FrameFacts DEF FrameKept
<1>6. Results(frames)[own] = r
  BY <1>2, ResultsFacts
<1>7. ASSUME r # NoName
      PROVE  scopes[own][r].value = Contents(scopes)[Meaning(scopes)[own][r]]
  <2>1. Home(scopes, r) = own /\ Found(scopes, r)
    BY <1>2, <1>5, <1>7 DEF Home, Found
  <2>2. Lvalue(scopes, r) = Meaning(scopes)[own][r] /\ SymbolOf(scopes, r) = scopes[own][r]
    BY <1>2, <1>5, <1>7, <2>1, MeaningFacts DEF Lvalue, SymbolOf
  <2> HIDE DEF own, r
  <2> QED BY <1>2, <1>5, <1>7, <2>1, <2>2, PlaceFacts DEF own
<1>8. k \in 1..own /\ k \in Nat /\ own \in Nat
  BY <1>1, <1>2, ConstantsOK
<1>9. scopes' = SubSeq(scopes, 1, k)
  BY <1>1, <1>4
<1> HIDE DEF w, f, r
<1>10. /\ Meaning(scopes') = SubSeq(Meaning(scopes), 1, k)
       /\ \A l \in Locations :
             /\ Contents(scopes')[l] = IF l[1] > k THEN 0 ELSE Contents(scopes)[l]
             /\ l \in Constants(scopes') <=> l[1] <= k /\ l \in Constants(scopes)
  <2>1. k \in 1..Len(scopes) /\ Len(scopes) <= Depth
    BY <1>2, <1>8
  <2> HIDE DEF k, own
  <2> QED BY <1>2, <1>9, <2>1, PrefixMeaning, ZenonT(40)
<1>11. Results(frames') = SubSeq(Results(frames), 1, k)
  <2>1. k \in 1..Len(frames)
    BY <1>2, <1>8
  <2> QED BY <1>1, <1>2, <2>1, PrefixResults
<1>12. \A l \in Locations : /\ l[1] \in Int
                            /\ l[1] > own => Contents(scopes)[l] = 0 /\ l \notin Constants(scopes)
  BY <1>2, ContentsFacts, ConstantsOK DEF Locations
<1>13. Contents(scopes') = [l \in Locations |-> IF l[1] = own THEN 0 ELSE Contents(scopes)[l]]
  <2>1. \A l \in Locations :
            Contents(scopes')[l] = IF l[1] = own THEN 0 ELSE Contents(scopes)[l]
    BY <1>8, <1>10, <1>12
  <2>2. Contents(scopes') = [l \in Locations |-> Contents(scopes')[l]]
    BY DEF Contents
  <2> QED BY <2>1, <2>2
<1>14. Constants(scopes') = {l \in Constants(scopes) : l[1] # own}
  <2>1. Constants(scopes') \subseteq Locations /\ Constants(scopes) \subseteq Locations
    BY DEF Constants
  <2>2. \A l \in Locations : l \in Constants(scopes') <=> l \in Constants(scopes) /\ l[1] # own
    BY <1>8, <1>10, <1>12
  <2> QED BY <2>1, <2>2
<1>15. Abstract!Level = own /\ Abstract!Locations = Locations /\ Abstract!NoName = NoName
  BY AbstractFacts DEF Abstract!NoName, NoName
<1>16. out' = IF Results(frames)[own] = NoName THEN out
              ELSE Contents(scopes)[Meaning(scopes)[own][Results(frames)[own]]]
  BY <1>1, <1>5, <1>6, <1>7
<1>17. Abstract!Leave
  <2> HIDE DEF own
  <2> QED BY <1>1, <1>10, <1>11, <1>13, <1>14, <1>15, <1>16 DEF Abstract!Leave
<1>18. ConstantsKept
  <2>1. Len(scopes') = k /\ \A d \in 1..k : scopes'[d] = scopes[d]
    BY <1>2, <1>8, <1>9, PrefixFacts
  <2> QED BY <1>8, <2>1 DEF ConstantsKept
<1> QED BY <1>17, <1>18

--------------------------------------------------------------------------------
(* The theorems.                                                            *)

LEMMA InitRefines ==
    ASSUME Init
    PROVE  Abstract!Init
<1>1. Inductive /\ scopes = <<EmptyScope>> /\ frames = << [result |-> NoName, bindings |-> <<>>] >>
      /\ out = 0
  BY InitInductive DEF Init
<1>2. /\ scopes \in Scopes /\ Rooted(scopes) /\ Len(scopes) = 1 /\ Len(scopes) <= Depth
      /\ frames \in Seq(Frame) /\ Len(frames) = 1
      /\ scopes[1] = EmptyScope /\ frames[1].result = NoName
  BY <1>1, TypeFacts DEF Inductive, TypeOK
<1>3. \A n \in Names : EmptyScope[n] = NoSymbol
  BY DEF EmptyScope
<1>4. NoSymbol.kind = "none" /\ NoSymbol.value = 0 /\ NoSymbol.ref = NoRef
  BY SymbolFacts
<1>5. Abstract!Unbound = NoRef /\ Abstract!Locations = Locations /\ Abstract!NoName = NoName
  BY <1>1, AbstractFacts DEF Abstract!NoName, NoName
<1>6. Meaning(scopes) = << [n \in Names |-> NoRef] >>
  <2>1. Meaning(scopes) \in Environments /\ Len(Meaning(scopes)) = 1
    BY <1>2, MeaningType, MeaningFacts
  <2>2. Meaning(scopes)[1] = [n \in Names |-> NoRef]
    BY <1>2, <1>3, <1>4 DEF Meaning, Declared
  <2> HIDE DEF Meaning
  <2> QED BY <2>1, <2>2 DEF Environments
<1>7. ASSUME NEW l \in Locations
      PROVE  Contents(scopes)[l] = 0 /\ l \notin Constants(scopes)
  <2>1. l = <<l[1], l[2]>> /\ l[1] \in 1..Depth /\ l[2] \in Names
    BY DEF Locations
  <2>2. CASE l[1] = 1
    <3>1. scopes[1][l[2]] = NoSymbol
      BY <1>2, <1>3, <2>1
    <3> DEFINE n == l[2]
    <3>2. /\ 1 \in 1..Len(scopes) /\ n \in Names /\ l = <<1, n>> /\ scopes[1][n] = NoSymbol
      BY <1>2, <2>1, <2>2, <3>1
    <3> HIDE DEF n
    <3>3. /\ scopes[1][n].ref = NoRef => Contents(scopes)[<<1, n>>] = scopes[1][n].value
          /\ <<1, n>> \in Constants(scopes) <=> scopes[1][n].ref = NoRef /\ scopes[1][n].kind = "const"
      BY <1>2, <3>2, ContentsAt
    <3> QED BY <1>4, <3>2, <3>3
  <2>3. CASE l[1] > 1
    BY <1>2, <2>3, ContentsFacts
  <2> QED BY <2>1, <2>2, <2>3, ConstantsOK
<1>8. Contents(scopes) = [l \in Locations |-> 0] /\ Constants(scopes) = {}
  <2>1. Contents(scopes) = [l \in Locations |-> Contents(scopes)[l]] /\ Constants(scopes) \subseteq Locations
    BY DEF Contents, Constants
  <2> QED BY <1>7, <2>1
<1>9. Results(frames) = <<NoName>>
  <2>1. /\ Results(frames) \in Seq(Names \cup {NoName, Lost}) /\ Len(Results(frames)) = 1
        /\ Results(frames)[1] = NoName
    BY <1>2, ResultsFacts
  <2> QED BY <2>1
<1> QED BY <1>1, <1>5, <1>6, <1>8, <1>9 DEF Abstract!Init

LEMMA NextRefines ==
    ASSUME Inductive, AliasFree, [Next]_vars
    PROVE  /\ Abstract!Next \/ UNCHANGED <<scopes, frames, out>>
           /\ ConstantsKept
<1>1. CASE \E n \in Names : ExecPrint(n)
  BY <1>1, PrintRefines DEF Abstract!Next
<1>2. CASE \E n \in Names : ExecShared(n)
  BY <1>2, SharedRefines DEF Abstract!Next
<1>3. CASE \E n \in Names : ExecDim(n) \/ ExecStatic(n)
  BY <1>3, DimRefines DEF Abstract!Next
<1>4. CASE \E n \in Names, v \in Values : ExecLet(n, v)
  BY <1>4, LetRefines DEF Abstract!Next
<1>5. CASE \E n \in Names, v \in Values : ExecConst(n, v)
  BY <1>5, ConstRefines DEF Abstract!Next
<1>6. CASE \E n \in Names, v \in Values : ExecRead(n, v) \/ ExecInput(n, v)
  BY <1>6, ReadRefines DEF Abstract!Next
<1>7. CASE \E n, m \in Names : ExecSwap(n, m)
  BY <1>7, SwapRefines DEF Abstract!Next
<1>8. CASE \E n, m \in Names, v \in Values : EvalDefFn(n, v, m)
  BY <1>8, DefFnRefines DEF Abstract!Next
<1>9. CASE Call
  BY <1>9, CallEnters, FunctionEnters, EnteringRefines DEF Call, Abstract!Next
<1>10. CASE ProcedureReturn
  BY <1>10, ReturnRefines DEF Abstract!Next
<1>11. CASE UNCHANGED vars
  BY <1>11 DEF vars, ConstantsKept
<1> QED BY <1>1, <1>2, <1>3, <1>4, <1>5, <1>6, <1>7, <1>8, <1>9, <1>10, <1>11
        DEF Next, ExecStatement, Stopped

(* Under the discipline no symbol of a constant changes, the local ones     *)
(* that SHARED makes included.                                              *)
THEOREM DisciplinedConstants ==
    ASSUME AliasFree
    PROVE  Spec => [][ConstantsKept]_vars
<1>1. Inductive /\ [Next]_vars => ConstantsKept
  BY NextRefines
<1> QED BY <1>1, AlwaysInductive, PTL DEF Spec

(* Reference parameters and SHARED names are other names of the variable    *)
(* they are bound to: the copies, the write-backs and the order in which    *)
(* they are made are invisible.                                             *)
THEOREM AlwaysByReference ==
    ASSUME AliasFree
    PROVE  Spec => ImplementsByReference
<1>1. Init => Abstract!Init
  BY InitRefines
<1>2. Inductive /\ [Next]_vars => [Abstract!Next]_(Abstract!avars)
  <2>1. UNCHANGED <<scopes, frames, out>> => UNCHANGED Abstract!avars
    BY DEF Abstract!avars
  <2> QED BY <2>1, NextRefines
<1>3. Spec => Abstract!Init /\ [][Abstract!Next]_(Abstract!avars)
  BY <1>1, <1>2, AlwaysInductive, PTL DEF Spec
<1> QED BY <1>3 DEF ImplementsByReference, Abstract!Spec

================================================================================
