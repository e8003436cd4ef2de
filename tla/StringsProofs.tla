----------------------------- MODULE StringsProofs -----------------------------
(***************************************************************************)
(* Proofs about Strings, for all variables, records, texts and sizes of    *)
(* memory: counts are exact, and a string is overwritten only for the one  *)
(* variable that holds it.                                                 *)
(***************************************************************************)
EXTENDS Strings, SequenceTheorems, FiniteSetTheorems, TLAPS

(* The places of a map, or the positions of a sequence, that hold s.        *)
Places(f, s) == {x \in DOMAIN f : f[x] = s}
Holds(f, s)  == Cardinality(Places(f, s))
Is(x, y)    == IF x = y THEN 1 ELSE 0

--------------------------------------------------------------------------------
(* How an update changes the number of places.                              *)

LEMMA HoldsType ==
    ASSUME NEW f, NEW s, IsFiniteSet(DOMAIN f)
    PROVE  IsFiniteSet(Places(f, s)) /\ Holds(f, s) \in Nat
  <1>1. Places(f, s) \in SUBSET DOMAIN f
    BY DEF Places
  <1>. QED BY <1>1, FS_Subset, FS_CardinalityType DEF Holds

LEMMA HoldsUpdate ==
    ASSUME NEW f, NEW s, IsFiniteSet(DOMAIN f), NEW x \in DOMAIN f, NEW e
    PROVE  Holds([f EXCEPT ![x] = e], s) = Holds(f, s) - Is(f[x], s) + Is(e, s)
  <1>. DEFINE g == [f EXCEPT ![x] = e]
              P == Places(f, s) \ {x}
  <1>0. IsFiniteSet(Places(f, s)) /\ Holds(f, s) \in Nat
    BY HoldsType
  <1>1. IsFiniteSet(P) /\ Cardinality(P) = Holds(f, s) - Is(f[x], s)
    <2>1. (x \in Places(f, s)) = (f[x] = s)
      BY DEF Places
    <2>. QED BY <2>1, <1>0, FS_RemoveElement DEF Holds, Is
  <1>2. Places(g, s) = IF e = s THEN P \cup {x} ELSE P
    BY DEF Places
  <1>3. x \notin P
    OBVIOUS
  <1>4. CASE e = s
    <2>1. Cardinality(P \cup {x}) = Cardinality(P) + 1
      BY <1>1, <1>3, FS_AddElement
    <2>. QED BY <2>1, <1>4, <1>2, <1>1, <1>0 DEF Holds, Is
  <1>5. CASE e # s
    <2>1. Holds(g, s) = Cardinality(P)
      BY <1>5, <1>2 DEF Holds
    <2>2. Is(e, s) = 0 /\ Is(f[x], s) \in Int
      BY <1>5 DEF Is
    <2>. HIDE DEF g, P
    <2>3. Holds(g, s) = Holds(f, s) - Is(f[x], s) + Is(e, s)
      BY <2>1, <2>2, <1>1, <1>0
    <2>. QED BY <2>3 DEF g
  <1>. QED BY <1>4, <1>5

LEMMA SeqFinite == ASSUME NEW S, NEW q \in Seq(S) PROVE IsFiniteSet(DOMAIN q)
  BY LenProperties, FS_Interval

LEMMA HoldsAppend ==
    ASSUME NEW S, NEW q \in Seq(S), NEW e \in S, NEW s
    PROVE  Holds(Append(q, e), s) = Holds(q, s) + Is(e, s)
  <1>. DEFINE n == Len(q) + 1
  <1>0. IsFiniteSet(Places(q, s)) /\ Holds(q, s) \in Nat
    BY HoldsType, SeqFinite
  <1>1. Places(Append(q, e), s) = IF e = s THEN Places(q, s) \cup {n} ELSE Places(q, s)
    <2>1. /\ Len(q) \in Nat /\ DOMAIN q = 1..Len(q)
          /\ DOMAIN Append(q, e) = 1..n
          /\ \A i \in 1..Len(q) : Append(q, e)[i] = q[i]
          /\ Append(q, e)[n] = e
      OBVIOUS
    <2>. QED BY <2>1 DEF Places
  <1>2. n \notin Places(q, s)
    BY DEF Places
  <1>3. Cardinality(Places(q, s) \cup {n}) = Cardinality(Places(q, s)) + 1
    BY <1>0, <1>2, FS_AddElement
  <1>. QED BY <1>1, <1>3, <1>0 DEF Holds, Is

LEMMA PopType ==
    ASSUME NEW S, NEW q \in Seq(S), NEW n \in 0..Len(q)
    PROVE  /\ SubSeq(q, 1, Len(q) - n) \in Seq(S)
           /\ Len(SubSeq(q, 1, Len(q) - n)) = Len(q) - n
           /\ \A i \in 1..(Len(q) - n) : SubSeq(q, 1, Len(q) - n)[i] = q[i]
  OBVIOUS

LEMMA HoldsPop ==
    ASSUME NEW S, NEW q \in Seq(S), Len(q) >= 1, NEW s
    PROVE  Holds(SubSeq(q, 1, Len(q) - 1), s) = Holds(q, s) - Is(q[Len(q)], s)
  <1>. DEFINE n == Len(q)
              p == SubSeq(q, 1, n - 1)
  <1>0. IsFiniteSet(Places(q, s)) /\ Holds(q, s) \in Nat
    BY HoldsType, SeqFinite
  <1>1. n \in Nat \ {0} /\ DOMAIN q = 1..n
    BY LenProperties
  <1>2. DOMAIN p = 1..(n - 1) /\ \A i \in 1..(n - 1) : p[i] = q[i]
    BY <1>1, PopType, LenProperties
  <1>3. Places(p, s) = Places(q, s) \ {n}
    BY <1>1, <1>2 DEF Places
  <1>4. (n \in Places(q, s)) = (q[n] = s)
    BY <1>1 DEF Places
  <1>. QED BY <1>0, <1>3, <1>4, FS_RemoveElement DEF Holds, Is

LEMMA HoldsNone == ASSUME NEW s PROVE Holds(<<>>, s) = 0
  <1>1. Places(<<>>, s) = {}
    BY DEF Places
  <1>. QED BY <1>1, FS_EmptySet DEF Holds

LEMMA HoldsSome ==
    ASSUME NEW f, NEW s, IsFiniteSet(DOMAIN f), NEW x \in DOMAIN f, f[x] = s
    PROVE  Holds(f, s) >= 1
  <1>1. x \in Places(f, s)
    BY DEF Places
  <1>2. Holds(f, s) # 0
    BY <1>1, HoldsType, FS_EmptySet DEF Holds
  <1>. QED BY <1>2, HoldsType
LEMMA HoldsNowhere ==
    ASSUME NEW f, NEW s, \A x \in DOMAIN f : f[x] # s
    PROVE  Holds(f, s) = 0
  <1>1. Places(f, s) = {}
    BY DEF Places
  <1>. QED BY <1>1, FS_EmptySet DEF Holds

LEMMA HoldsOnce ==
    ASSUME NEW f, NEW s, NEW x \in DOMAIN f, f[x] = s, \A y \in DOMAIN f : f[y] = s => y = x
    PROVE  Holds(f, s) = 1
  <1>1. Places(f, s) = {x}
    BY DEF Places
  <1>. QED BY <1>1, FS_Singleton DEF Holds

LEMMA HoldsSingle ==
    ASSUME NEW S, NEW q \in Seq(S), Len(q) = 1, NEW s
    PROVE  Holds(q, s) = Is(q[Len(q)], s)
  <1>1. DOMAIN q = {1}
    BY LenProperties
  <1>2. CASE q[1] = s
    BY <1>1, <1>2, HoldsOnce DEF Is
  <1>3. CASE q[1] # s
    BY <1>1, <1>3, HoldsNowhere DEF Is
  <1>. QED BY <1>2, <1>3

--------------------------------------------------------------------------------
(* The holders of a string, counted by kind.                                *)

Tagged(k, A) == {<<k, x>> : x \in A}

LEMMA TaggedCount ==
    ASSUME NEW k, NEW A, IsFiniteSet(A)
    PROVE  IsFiniteSet(Tagged(k, A)) /\ Cardinality(Tagged(k, A)) = Cardinality(A)
  <1>. DEFINE f == [x \in A |-> <<k, x>>]
  <1>1. f \in Bijection(A, Tagged(k, A))
    BY DEF Tagged, Bijection, Injection, Surjection, IsInjective
  <1>. QED BY <1>1, FS_Bijection DEF ExistsBijection

LEMMA HoldersCounted ==
    ASSUME TypeOK, NEW s
    PROVE  /\ IsFiniteSet(Holders(s))
           /\ Cardinality(Holders(s)) =
                 Holds(literal, s) + Holds(vars, s) + Holds(temps, s) + Holds(field, s)
  <1>. DEFINE L == Tagged("literal", Places(literal, s))
              V == Tagged("variable", Places(vars, s))
              T == Tagged("temp", Places(temps, s))
              F == Tagged("field", Places(field, s))
  <1>1. /\ DOMAIN literal = Texts /\ DOMAIN vars = Vars /\ DOMAIN field = Records
        /\ DOMAIN temps = 1..Len(temps)
        /\ IsFiniteSet(DOMAIN temps)
    BY LenProperties, SeqFinite DEF TypeOK
  <1>2. Holders(s) = L \cup V \cup T \cup F
    <2>1. /\ Places(literal, s) = {u \in Texts : literal[u] = s}
          /\ Places(vars, s) = {w \in Vars : vars[w] = s}
          /\ Places(temps, s) = {j \in 1..Len(temps) : temps[j] = s}
          /\ Places(field, s) = {q \in Records : field[q] = s}
      BY <1>1 DEF Places
    <2>. QED BY <2>1 DEF Holders, Tagged
  <1>3. /\ IsFiniteSet(Places(literal, s)) /\ Holds(literal, s) \in Nat
        /\ IsFiniteSet(Places(vars, s)) /\ Holds(vars, s) \in Nat
        /\ IsFiniteSet(Places(temps, s)) /\ Holds(temps, s) \in Nat
        /\ IsFiniteSet(Places(field, s)) /\ Holds(field, s) \in Nat
    BY <1>1, HoldsType, ConstantsOK
  <1>4. /\ IsFiniteSet(L) /\ Cardinality(L) = Holds(literal, s)
        /\ IsFiniteSet(V) /\ Cardinality(V) = Holds(vars, s)
        /\ IsFiniteSet(T) /\ Cardinality(T) = Holds(temps, s)
        /\ IsFiniteSet(F) /\ Cardinality(F) = Holds(field, s)
    BY <1>3, TaggedCount DEF Holds
  <1>5. /\ L \cap V = {} /\ (L \cup V) \cap T = {} /\ (L \cup V \cup T) \cap F = {}
    BY DEF Tagged
  <1>. HIDE DEF L, V, T, F
  <1>6. /\ IsFiniteSet(L \cup V)
        /\ Cardinality(L \cup V) = Holds(literal, s) + Holds(vars, s)
    <2>1. Cardinality(L \cap V) = 0
      BY <1>5, FS_EmptySet
    <2>2. /\ IsFiniteSet(L \cup V)
          /\ Cardinality(L \cup V) = Cardinality(L) + Cardinality(V) - Cardinality(L \cap V)
      BY <1>4, FS_Union
    <2>. QED BY <2>1, <2>2, <1>3, <1>4
  <1>7. /\ IsFiniteSet(L \cup V \cup T)
        /\ Cardinality(L \cup V \cup T)
             = Holds(literal, s) + Holds(vars, s) + Holds(temps, s)
    BY <1>3, <1>4, <1>5, <1>6, FS_Union, FS_EmptySet
  <1>8. Cardinality((L \cup V \cup T) \cap F) = 0
    BY <1>5, FS_EmptySet
  <1>9. /\ IsFiniteSet(L \cup V \cup T \cup F)
        /\ Cardinality(L \cup V \cup T \cup F)
             = Cardinality(L \cup V \cup T) + Cardinality(F) - Cardinality((L \cup V \cup T) \cap F)
    BY <1>4, <1>7, FS_Union
  <1>. QED BY <1>2, <1>3, <1>4, <1>7, <1>8, <1>9
--------------------------------------------------------------------------------
(* The operations on FBString, as what they do to each count.               *)

Heaps == [rc : [Ids -> Int], text : [Ids -> Texts]]

LEMMA HeapType == ASSUME TypeOK PROVE Heap \in Heaps /\ Heap.rc = rc /\ Heap.text = text
  BY DEF TypeOK, Heap, Heaps

LEMMA IdsAreInts == Ids \subseteq Int /\ None \notin Ids /\ None \in Int
  BY DEF Ids, None

LEMMA NextIsFree ==
    ASSUME NEW h \in Heaps, Available(h)
    PROVE  NextFree(h) \in Ids /\ h.rc[NextFree(h)] = 0
  BY DEF Available, NextFree, Free

LEMMA NewCounts ==
    ASSUME NEW h \in Heaps, Available(h), NEW t \in Texts
    PROVE  /\ New(h, t) \in Heaps
           /\ \A s \in Ids : New(h, t).rc[s] = h.rc[s] + Is(NextFree(h), s)
           /\ \A s \in Ids : New(h, t).text[s] = IF s = NextFree(h) THEN t ELSE h.text[s]
  BY NextIsFree DEF New, Heaps, Is

LEMMA RefCounts ==
    ASSUME NEW h \in Heaps, NEW r \in Ids
    PROVE  /\ Ref(h, r) \in Heaps
           /\ \A s \in Ids : Ref(h, r).rc[s] = h.rc[s] + Is(r, s)
           /\ Ref(h, r).text = h.text
  BY DEF Ref, Heaps, Is

LEMMA UnrefCounts ==
    ASSUME NEW h \in Heaps, NEW r \in Ids \cup {None}
    PROVE  /\ Unref(h, r) \in Heaps
           /\ \A s \in Ids : Unref(h, r).rc[s] = h.rc[s] - Is(r, s)
           /\ \A s \in Ids : Unref(h, r).text[s]
                              = IF r = s /\ h.rc[s] <= 1 THEN Empty ELSE h.text[s]
  <1>1. CASE r = None
    BY <1>1, IdsAreInts DEF Unref, Heaps, Is
  <1>2. CASE r # None
    <2>. DEFINE c == [h.rc EXCEPT ![r] = h.rc[r] - 1]
                x == [h.text EXCEPT ![r] = IF h.rc[r] > 1 THEN h.text[r] ELSE Empty]
    <2>1. r \in Ids /\ Empty \in Texts
      BY <1>2, ConstantsOK
    <2>2. Unref(h, r).rc = c /\ Unref(h, r).text = x /\ Unref(h, r) = [rc |-> c, text |-> x]
      BY <1>2 DEF Unref, Heaps
    <2>3. c \in [Ids -> Int] /\ \A s \in Ids : c[s] = h.rc[s] - Is(r, s)
      BY <2>1 DEF Heaps, Is
    <2>4. /\ x \in [Ids -> Texts]
          /\ \A s \in Ids : x[s] = IF r = s /\ h.rc[s] <= 1 THEN Empty ELSE h.text[s]
      BY <2>1 DEF Heaps
    <2>. QED BY <2>2, <2>3, <2>4 DEF Heaps
  <1>. QED BY <1>1, <1>2

LEMMA WriteCounts ==
    ASSUME NEW h \in Heaps, NEW r \in Ids, NEW t \in Texts
    PROVE  /\ Write(h, r, t) \in Heaps
           /\ Write(h, r, t).rc = h.rc
           /\ \A s \in Ids : Write(h, r, t).text[s] = IF r = s THEN t ELSE h.text[s]
  BY DEF Write, Heaps
--------------------------------------------------------------------------------
(* The inductive invariant: the shape of the state, and CountsExact with    *)
(* the holders counted by kind.  That counts are not negative follows.      *)

Shape ==
    /\ rc \in [Ids -> Int] /\ text \in [Ids -> Texts]
    /\ literal \in [Texts -> Ids]
    /\ vars \in [Vars -> Ids \cup {None}]
    /\ temps \in Seq(Ids) /\ Len(temps) <= MaxTemps
    /\ instance \in [Records -> Records] /\ field \in [Records -> Ids]
    /\ lost \in [Ids -> Nat]

Held(s)  == Holds(literal, s) + Holds(vars, s) + Holds(temps, s) + Holds(field, s)
Counted  == \A s \in Ids : rc[s] = Held(s) + lost[s]
Inv      == Shape /\ Counted

LEMMA HeldType ==
    ASSUME Shape
    PROVE  /\ DOMAIN literal = Texts /\ DOMAIN vars = Vars /\ DOMAIN field = Records
           /\ IsFiniteSet(DOMAIN literal) /\ IsFiniteSet(DOMAIN vars)
           /\ IsFiniteSet(DOMAIN field)
           /\ Len(temps) \in Nat
           /\ \A s : /\ Holds(literal, s) \in Nat /\ Holds(vars, s) \in Nat
                     /\ Holds(temps, s) \in Nat /\ Holds(field, s) \in Nat
  <1>1. /\ DOMAIN literal = Texts /\ DOMAIN vars = Vars /\ DOMAIN field = Records
        /\ IsFiniteSet(DOMAIN temps) /\ Len(temps) \in Nat
    BY LenProperties, SeqFinite DEF Shape
  <1>. QED BY <1>1, HoldsType, ConstantsOK

LEMMA InvIsType == Inv => TypeOK /\ CountsExact
  <1>. SUFFICES ASSUME Inv PROVE TypeOK /\ CountsExact
    OBVIOUS
  <1>0. Shape /\ Counted
    BY DEF Inv
  <1>1. ASSUME NEW s \in Ids PROVE rc[s] \in Nat
    <2>1. /\ Holds(literal, s) \in Nat /\ Holds(vars, s) \in Nat
          /\ Holds(temps, s) \in Nat /\ Holds(field, s) \in Nat
      BY <1>0, HeldType
    <2>2. lost[s] \in Nat
      BY <1>0 DEF Shape
    <2>3. rc[s] = Held(s) + lost[s]
      BY <1>0 DEF Counted
    <2>. QED BY <2>1, <2>2, <2>3 DEF Held
  <1>2. rc \in [Ids -> Nat]
    BY <1>0, <1>1 DEF Shape
  <1>3. TypeOK
    BY <1>0, <1>2 DEF Shape, TypeOK
  <1>4. CountsExact
    BY <1>0, <1>3, HoldersCounted DEF Counted, Held, CountsExact
  <1>. QED BY <1>3, <1>4

(* What most actions leave alone.                                           *)
LEMMA HeapNow == ASSUME Inv PROVE Heap \in Heaps /\ Heap.rc = rc /\ Heap.text = text
  BY InvIsType, HeapType

LEMMA IsType == \A x, y : Is(x, y) \in Int
  BY DEF Is

LEMMA CountTypes ==
    ASSUME Inv, NEW s \in Ids
    PROVE  /\ rc[s] \in Int /\ lost[s] \in Int
           /\ Holds(vars, s) \in Int /\ Holds(temps, s) \in Int /\ Holds(field, s) \in Int
  <1>1. Shape
    BY DEF Inv
  <1>. QED BY <1>1, HeldType DEF Shape

LEMMA TempsPushed ==
    ASSUME Inv, NEW e \in Ids, Room
    PROVE  /\ Append(temps, e) \in Seq(Ids) /\ Len(Append(temps, e)) <= MaxTemps
           /\ \A s : Holds(Append(temps, e), s) = Holds(temps, s) + Is(e, s)
  <1>1. temps \in Seq(Ids)
    BY DEF Inv, Shape
  <1>2. Len(temps) \in Nat /\ Len(Append(temps, e)) = Len(temps) + 1
    BY <1>1
  <1>3. Append(temps, e) \in Seq(Ids)
    BY <1>1
  <1>4. Len(Append(temps, e)) <= MaxTemps
    BY <1>2, ConstantsOK DEF Room
  <1>. QED BY <1>1, <1>3, <1>4, HoldsAppend

LEMMA TempsUsed ==
    ASSUME Inv, Len(temps) = 1
    PROVE  /\ Top \in Ids
           /\ <<>> \in Seq(Ids) /\ Len(<<>>) <= MaxTemps
           /\ \A s : Holds(<<>>, s) = Holds(temps, s) - Is(Top, s)
  <1>0. temps \in Seq(Ids)
    BY DEF Inv, Shape
  <1>1. Top \in Ids
    BY <1>0 DEF Top
  <1>2. Len(temps) <= MaxTemps
    BY DEF Inv, Shape
  <1>3. <<>> \in Seq(Ids) /\ Len(<<>>) <= MaxTemps
    BY <1>2, ConstantsOK
  <1>4. ASSUME NEW s PROVE Holds(<<>>, s) = Holds(temps, s) - Is(Top, s)
    <2>1. Holds(temps, s) = Is(Top, s)
      BY <1>0, HoldsSingle DEF Top
    <2>2. Holds(<<>>, s) = 0
      BY HoldsNone
    <2>3. Is(Top, s) \in Int
      BY IsType
    <2>. QED BY <2>1, <2>2, <2>3
  <1>. QED BY <1>1, <1>3, <1>4

LEMMA VarSet ==
    ASSUME Inv, NEW v \in Vars, NEW e \in Ids \cup {None}
    PROVE  /\ vars[v] \in Ids \cup {None}
           /\ [vars EXCEPT ![v] = e] \in [Vars -> Ids \cup {None}]
           /\ \A s : Holds([vars EXCEPT ![v] = e], s)
                     = Holds(vars, s) - Is(vars[v], s) + Is(e, s)
  <1>1. vars \in [Vars -> Ids \cup {None}] /\ DOMAIN vars = Vars /\ IsFiniteSet(Vars)
    BY ConstantsOK DEF Inv, Shape
  <1>2. v \in DOMAIN vars /\ IsFiniteSet(DOMAIN vars)
    BY <1>1
  <1>3. ASSUME NEW s PROVE Holds([vars EXCEPT ![v] = e], s)
                           = Holds(vars, s) - Is(vars[v], s) + Is(e, s)
    BY <1>2, HoldsUpdate
  <1>. QED BY <1>1, <1>3

LEMMA FieldSet ==
    ASSUME Inv, NEW r \in Records, NEW e \in Ids
    PROVE  /\ field[r] \in Ids
           /\ [field EXCEPT ![r] = e] \in [Records -> Ids]
           /\ \A s : Holds([field EXCEPT ![r] = e], s)
                     = Holds(field, s) - Is(field[r], s) + Is(e, s)
  <1>1. field \in [Records -> Ids] /\ DOMAIN field = Records /\ IsFiniteSet(Records)
    BY ConstantsOK DEF Inv, Shape
  <1>2. r \in DOMAIN field /\ IsFiniteSet(DOMAIN field)
    BY <1>1
  <1>3. ASSUME NEW s PROVE Holds([field EXCEPT ![r] = e], s)
                           = Holds(field, s) - Is(field[r], s) + Is(e, s)
    BY <1>2, HoldsUpdate
  <1>. QED BY <1>1, <1>3

(* The state after a step: all but the heap.                                *)
Roots ==
    /\ literal \in [Texts -> Ids]
    /\ vars \in [Vars -> Ids \cup {None}]
    /\ temps \in Seq(Ids) /\ Len(temps) <= MaxTemps
    /\ instance \in [Records -> Records] /\ field \in [Records -> Ids]
    /\ lost \in [Ids -> Nat]

LEMMA RootsNow == Inv => Roots
  BY DEF Inv, Shape, Roots

(* The new state has Inv if, for each string, the change of the count is    *)
(* that of the holders.                                                     *)
LEMMA InvKept ==
    ASSUME Inv, Roots', rc' \in [Ids -> Int], text' \in [Ids -> Texts], literal' = literal,
           \A s \in Ids : rc'[s] = rc[s] + (Holds(vars', s) - Holds(vars, s))
                                         + (Holds(temps', s) - Holds(temps, s))
                                         + (Holds(field', s) - Holds(field, s))
                                         + (lost'[s] - lost[s])
    PROVE  Inv'
  <1>1. Shape /\ Shape' /\ Counted
    BY DEF Inv, Shape, Roots
  <1>2. ASSUME NEW s \in Ids PROVE rc'[s] = Held(s)' + lost'[s]
    <2>1. /\ Holds(literal, s) \in Int /\ Holds(vars, s) \in Int
          /\ Holds(temps, s) \in Int /\ Holds(field, s) \in Int
      BY <1>1, HeldType
    <2>2. /\ Holds(literal', s) = Holds(literal, s)
          /\ Holds(vars', s) \in Int /\ Holds(temps', s) \in Int /\ Holds(field', s) \in Int
      <3>1. /\ DOMAIN vars' = Vars /\ DOMAIN field' = Records /\ IsFiniteSet(DOMAIN temps')
        BY <1>1, SeqFinite DEF Shape
      <3>. QED BY <3>1, HoldsType, ConstantsOK
    <2>3. lost[s] \in Int /\ lost'[s] \in Int /\ rc[s] \in Int /\ rc'[s] \in Int
      BY <1>1 DEF Shape
    <2>4. rc[s] = Holds(literal, s) + Holds(vars, s) + Holds(temps, s) + Holds(field, s) + lost[s]
      BY <1>1 DEF Counted, Held
    <2>5. rc'[s] = Holds(literal', s) + Holds(vars', s) + Holds(temps', s) + Holds(field', s)
                      + lost'[s]
      <3>1. rc'[s] = rc[s] + (Holds(vars', s) - Holds(vars, s))
                           + (Holds(temps', s) - Holds(temps, s))
                           + (Holds(field', s) - Holds(field, s)) + (lost'[s] - lost[s])
        OBVIOUS
      <3>2. \A l, v, v1, t, t1, f, f1, n, n1, c, c1 \in Int :
                c = l + v + t + f + n /\ c1 = c + (v1 - v) + (t1 - t) + (f1 - f) + (n1 - n)
                => c1 = l + v1 + t1 + f1 + n1
        OBVIOUS
      <3>. QED BY <2>1, <2>2, <2>3, <2>4, <3>1, <3>2
    <2>. QED BY <2>5 DEF Held
  <1>3. Counted'
    BY <1>2 DEF Counted
  <1>. QED BY <1>1, <1>3 DEF Inv
--------------------------------------------------------------------------------
(* One lemma per action.                                                    *)

LEMMA LiteralInv == ASSUME Inv, NEW t \in Texts, EvalLiteral(t) PROVE Inv'
  <1>. DEFINE e == literal[t]
              h == Ref(Heap, e)
  <1>1. e \in Ids
    BY DEF Inv, Shape
  <1>2. h \in Heaps /\ \A s \in Ids : h.rc[s] = rc[s] + Is(e, s)
    BY <1>1, HeapNow, RefCounts
  <1>3. rc' = h.rc /\ text' = h.text /\ rc' \in [Ids -> Int] /\ text' \in [Ids -> Texts]
    BY <1>2 DEF EvalLiteral, Commit, Heaps
  <1>4. /\ temps' \in Seq(Ids) /\ Len(temps') <= MaxTemps
        /\ \A s : Holds(temps', s) = Holds(temps, s) + Is(e, s)
    BY <1>1, TempsPushed DEF EvalLiteral
  <1>5. UNCHANGED <<literal, vars, instance, field, lost>>
    BY DEF EvalLiteral
  <1>6. Roots'
    BY <1>4, <1>5, RootsNow DEF Roots
  <1>. HIDE DEF e, h
  <1>7. ASSUME NEW s \in Ids
        PROVE  rc'[s] = rc[s] + (Holds(vars', s) - Holds(vars, s))
                              + (Holds(temps', s) - Holds(temps, s))
                              + (Holds(field', s) - Holds(field, s)) + (lost'[s] - lost[s])
    BY <1>2, <1>3, <1>4, <1>5, CountTypes, IsType
  <1>. QED BY <1>3, <1>5, <1>6, <1>7, InvKept

LEMMA FieldInv == ASSUME Inv, NEW r \in Records, EvalField(r) PROVE Inv'
  <1>. DEFINE e == field[instance[r]]
              h == Ref(Heap, e)
  <1>1. e \in Ids
    BY DEF Inv, Shape
  <1>2. h \in Heaps /\ \A s \in Ids : h.rc[s] = rc[s] + Is(e, s)
    BY <1>1, HeapNow, RefCounts
  <1>3. rc' = h.rc /\ text' = h.text /\ rc' \in [Ids -> Int] /\ text' \in [Ids -> Texts]
    BY <1>2 DEF EvalField, Commit, Heaps
  <1>4. /\ temps' \in Seq(Ids) /\ Len(temps') <= MaxTemps
        /\ \A s : Holds(temps', s) = Holds(temps, s) + Is(e, s)
    BY <1>1, TempsPushed DEF EvalField
  <1>5. UNCHANGED <<literal, vars, instance, field, lost>>
    BY DEF EvalField
  <1>6. Roots'
    BY <1>4, <1>5, RootsNow DEF Roots
  <1>. HIDE DEF e, h
  <1>7. ASSUME NEW s \in Ids
        PROVE  rc'[s] = rc[s] + (Holds(vars', s) - Holds(vars, s))
                              + (Holds(temps', s) - Holds(temps, s))
                              + (Holds(field', s) - Holds(field, s)) + (lost'[s] - lost[s])
    BY <1>2, <1>3, <1>4, <1>5, CountTypes, IsType
  <1>. QED BY <1>3, <1>5, <1>6, <1>7, InvKept

(* A variable that is new holds the new string.                             *)
LEMMA Created ==
    ASSUME Inv, NEW v \in Vars, vars[v] = None => Available(Heap)
    PROVE  LET e == IF vars[v] = None THEN NextFree(Heap) ELSE vars[v]
               g == IF vars[v] = None THEN New(Heap, Empty) ELSE Heap
           IN  /\ e \in Ids /\ g \in Heaps
               /\ \A s \in Ids : g.rc[s] = rc[s] - Is(vars[v], s) + Is(e, s)
  <1>1. vars[v] \in Ids \cup {None}
    BY DEF Inv, Shape
  <1>2. CASE vars[v] = None
    <2>1. Available(Heap) /\ Empty \in Texts
      BY <1>2, ConstantsOK
    <2>2. /\ NextFree(Heap) \in Ids /\ New(Heap, Empty) \in Heaps
          /\ \A s \in Ids : New(Heap, Empty).rc[s] = rc[s] + Is(NextFree(Heap), s)
      BY <2>1, HeapNow, NextIsFree, NewCounts
    <2>3. \A s \in Ids : Is(vars[v], s) = 0 /\ rc[s] \in Int /\ Is(NextFree(Heap), s) \in Int
      BY <1>2, IdsAreInts, CountTypes, IsType DEF Is
    <2>. QED BY <1>2, <2>2, <2>3
  <1>3. CASE vars[v] # None
    <2>1. \A s \in Ids : rc[s] \in Int /\ Is(vars[v], s) \in Int
      BY CountTypes, IsType
    <2>. QED BY <1>1, <1>3, <2>1, HeapNow
  <1>. QED BY <1>2, <1>3

LEMMA VariableInv == ASSUME Inv, NEW v \in Vars, EvalVariable(v) PROVE Inv'
  <1>. DEFINE g == IF vars[v] = None THEN New(Heap, Empty) ELSE Heap
              e == IF vars[v] = None THEN NextFree(Heap) ELSE vars[v]
              h == Ref(g, e)
  <1>1. /\ e \in Ids /\ g \in Heaps
        /\ \A s \in Ids : g.rc[s] = rc[s] - Is(vars[v], s) + Is(e, s)
    <2>1. vars[v] = None => Available(Heap)
      BY DEF EvalVariable
    <2>. QED BY <2>1, Created
  <1>. HIDE DEF e, g
  <1>2. h \in Heaps /\ \A s \in Ids : h.rc[s] = g.rc[s] + Is(e, s)
    BY <1>1, RefCounts
  <1>3. rc' = h.rc /\ text' = h.text /\ rc' \in [Ids -> Int] /\ text' \in [Ids -> Texts]
    BY <1>2 DEF EvalVariable, Commit, Heaps, e, g
  <1>4. /\ temps' \in Seq(Ids) /\ Len(temps') <= MaxTemps
        /\ \A s : Holds(temps', s) = Holds(temps, s) + Is(e, s)
    <2>1. temps' = Append(temps, e) /\ Room
      BY DEF EvalVariable, e
    <2>. QED BY <1>1, <2>1, TempsPushed
  <1>5. UNCHANGED <<literal, instance, field, lost>>
    BY DEF EvalVariable
  <1>6. /\ vars' \in [Vars -> Ids \cup {None}]
        /\ \A s : Holds(vars', s) = Holds(vars, s) - Is(vars[v], s) + Is(e, s)
    <2>1. vars' = [vars EXCEPT ![v] = e]
      BY DEF EvalVariable, e
    <2>2. e \in Ids \cup {None}
      BY <1>1
    <2>. HIDE DEF e
    <2>. QED BY <2>1, <2>2, VarSet
  <1>7. Roots'
    BY <1>4, <1>5, <1>6, RootsNow DEF Roots
  <1>. HIDE DEF h
  <1>8. ASSUME NEW s \in Ids
        PROVE  rc'[s] = rc[s] + (Holds(vars', s) - Holds(vars, s))
                              + (Holds(temps', s) - Holds(temps, s))
                              + (Holds(field', s) - Holds(field, s)) + (lost'[s] - lost[s])
    <2>1. rc'[s] = rc[s] - Is(vars[v], s) + Is(e, s) + Is(e, s)
      BY <1>1, <1>2, <1>3
    <2>2. /\ Holds(vars', s) = Holds(vars, s) - Is(vars[v], s) + Is(e, s)
          /\ Holds(temps', s) = Holds(temps, s) + Is(e, s)
          /\ field' = field /\ lost' = lost
      BY <1>4, <1>5, <1>6
    <2>. QED BY <2>1, <2>2, CountTypes, IsType
  <1>. QED BY <1>3, <1>5, <1>7, <1>8, InvKept

LEMMA TempsPopped ==
    ASSUME Inv, Len(temps) >= 1
    PROVE  /\ Top \in Ids
           /\ Popped(1) \in Seq(Ids) /\ Len(Popped(1)) = Len(temps) - 1
           /\ \A s : Holds(Popped(1), s) = Holds(temps, s) - Is(Top, s)
  <1>1. temps \in Seq(Ids) /\ Len(temps) \in Nat /\ 1 \in 0..Len(temps)
    BY DEF Inv, Shape
  <1>2. Top \in Ids
    BY <1>1 DEF Top
  <1>3. Popped(1) \in Seq(Ids) /\ Len(Popped(1)) = Len(temps) - 1
    BY <1>1, PopType DEF Popped
  <1>4. ASSUME NEW s PROVE Holds(Popped(1), s) = Holds(temps, s) - Is(Top, s)
    BY <1>1, HoldsPop DEF Popped, Top
  <1>. QED BY <1>2, <1>3, <1>4

LEMMA TempsPoppedTwice ==
    ASSUME Inv, Len(temps) >= 2
    PROVE  LET next == temps[Len(temps) - 1]
           IN  /\ Top \in Ids /\ next \in Ids
               /\ Popped(2) \in Seq(Ids) /\ Len(Popped(2)) = Len(temps) - 2
               /\ \A s : Holds(Popped(2), s) = Holds(temps, s) - Is(Top, s) - Is(next, s)
  <1>. DEFINE q    == Popped(1)
              next == temps[Len(temps) - 1]
  <1>1. temps \in Seq(Ids) /\ Len(temps) \in Nat /\ {1, 2} \subseteq 0..Len(temps)
    BY SMTT(30) DEF Inv, Shape
  <1>2. /\ q \in Seq(Ids) /\ Len(q) = Len(temps) - 1 /\ Top \in Ids
        /\ \A s : Holds(q, s) = Holds(temps, s) - Is(Top, s)
    BY TempsPopped
  <1>3. next \in Ids /\ q[Len(q)] = next
    BY <1>1, <1>2, PopType DEF Popped
  <1>4. /\ Popped(2) \in Seq(Ids) /\ Len(Popped(2)) = Len(temps) - 2
        /\ \A i \in 1..(Len(temps) - 2) : Popped(2)[i] = temps[i]
    BY <1>1, PopType DEF Popped
  <1>5. Popped(2) = SubSeq(q, 1, Len(q) - 1)
    <2>. DEFINE p == SubSeq(q, 1, Len(q) - 1)
    <2>1. 1 \in 0..Len(q)
      BY <1>1, <1>2
    <2>2. /\ p \in Seq(Ids) /\ Len(p) = Len(temps) - 2
          /\ \A i \in 1..(Len(temps) - 2) : p[i] = q[i]
      BY <1>1, <1>2, <2>1, PopType
    <2>3. \A i \in 1..(Len(temps) - 2) : q[i] = temps[i]
      BY <1>1, PopType DEF Popped
    <2>. HIDE DEF p, q
    <2>4. \A i \in 1..Len(p) : p[i] = Popped(2)[i]
      BY <1>4, <2>2, <2>3
    <2>5. p = Popped(2)
      BY <1>4, <2>2, <2>4, SeqEqual
    <2>. QED BY <2>5 DEF p
  <1>. HIDE DEF q, next
  <1>6. ASSUME NEW s PROVE Holds(Popped(2), s) = Holds(temps, s) - Is(Top, s) - Is(next, s)
    <2>1. Len(q) >= 1
      BY <1>1, <1>2
    <2>2. Holds(SubSeq(q, 1, Len(q) - 1), s) = Holds(q, s) - Is(q[Len(q)], s)
      BY <1>2, <2>1, HoldsPop
    <2>. QED BY <1>2, <1>3, <1>5, <2>2
  <1>. QED BY <1>2, <1>3, <1>4, <1>6 DEF next

LEMMA FunctionInv == ASSUME Inv, NEW t \in Texts, EvalFunction(t) PROVE Inv'
  <1>. DEFINE e == NextFree(Heap)
              g == New(Heap, t)
              h == Unref(g, Top)
  <1>1. Len(temps) >= 1 /\ Available(Heap)
    BY DEF EvalFunction
  <1>2. e \in Ids /\ g \in Heaps /\ \A s \in Ids : g.rc[s] = rc[s] + Is(e, s)
    BY <1>1, HeapNow, NextIsFree, NewCounts
  <1>. HIDE DEF e, g
  <1>3. Top \in Ids
    BY <1>1, TempsPopped
  <1>4. h \in Heaps /\ \A s \in Ids : h.rc[s] = g.rc[s] - Is(Top, s)
    BY <1>2, <1>3, UnrefCounts
  <1>5. rc' = h.rc /\ text' = h.text /\ rc' \in [Ids -> Int] /\ text' \in [Ids -> Texts]
    BY <1>4 DEF EvalFunction, Commit, Heaps, e, g
  <1>6. /\ temps' \in Seq(Ids) /\ Len(temps') <= MaxTemps
        /\ \A s : Holds(temps', s) = Holds(temps, s) - Is(Top, s) + Is(e, s)
    <2>1. temps' = Append(Popped(1), e)
      BY DEF EvalFunction, e
    <2>2. /\ Popped(1) \in Seq(Ids) /\ Len(Popped(1)) = Len(temps) - 1
          /\ \A s : Holds(Popped(1), s) = Holds(temps, s) - Is(Top, s)
      BY <1>1, TempsPopped
    <2>3. Len(temps) \in Nat /\ Len(temps) <= MaxTemps
      BY DEF Inv, Shape
    <2>4. temps' \in Seq(Ids) /\ Len(temps') = Len(temps)
      BY <1>2, <2>1, <2>2, <2>3
    <2>. QED BY <1>2, <2>1, <2>2, <2>3, <2>4, HoldsAppend
  <1>7. UNCHANGED <<literal, vars, instance, field, lost>>
    BY DEF EvalFunction
  <1>8. Roots'
    BY <1>6, <1>7, RootsNow DEF Roots
  <1>. HIDE DEF h
  <1>9. ASSUME NEW s \in Ids
        PROVE  rc'[s] = rc[s] + (Holds(vars', s) - Holds(vars, s))
                              + (Holds(temps', s) - Holds(temps, s))
                              + (Holds(field', s) - Holds(field, s)) + (lost'[s] - lost[s])
    <2>1. rc'[s] = rc[s] + Is(e, s) - Is(Top, s)
      BY <1>2, <1>4, <1>5, CountTypes, IsType
    <2>. QED BY <2>1, <1>6, <1>7, CountTypes, IsType
  <1>. QED BY <1>5, <1>7, <1>8, <1>9, InvKept

LEMMA ConcatInv == ASSUME Inv, NEW t \in Texts, EvalConcat(t) PROVE Inv'
  <1>. DEFINE e    == NextFree(Heap)
              left == temps[Len(temps) - 1]
              g    == New(Heap, t)
              k    == Unref(g, left)
              h    == Unref(k, Top)
  <1>1. Len(temps) >= 2 /\ Available(Heap)
    BY DEF EvalConcat
  <1>2. e \in Ids /\ g \in Heaps /\ \A s \in Ids : g.rc[s] = rc[s] + Is(e, s)
    BY <1>1, HeapNow, NextIsFree, NewCounts
  <1>3. /\ Top \in Ids /\ left \in Ids
        /\ Popped(2) \in Seq(Ids) /\ Len(Popped(2)) = Len(temps) - 2
        /\ \A s : Holds(Popped(2), s) = Holds(temps, s) - Is(Top, s) - Is(left, s)
    BY <1>1, TempsPoppedTwice
  <1>. HIDE DEF e, g, left
  <1>4. k \in Heaps /\ \A s \in Ids : k.rc[s] = g.rc[s] - Is(left, s)
    BY <1>2, <1>3, UnrefCounts
  <1>. HIDE DEF k
  <1>5. h \in Heaps /\ \A s \in Ids : h.rc[s] = k.rc[s] - Is(Top, s)
    BY <1>3, <1>4, UnrefCounts
  <1>6. rc' = h.rc /\ text' = h.text /\ rc' \in [Ids -> Int] /\ text' \in [Ids -> Texts]
    BY <1>5 DEF EvalConcat, Commit, Heaps, e, g, k, left
  <1>7. /\ temps' \in Seq(Ids) /\ Len(temps') <= MaxTemps
        /\ \A s : Holds(temps', s) = Holds(temps, s) - Is(Top, s) - Is(left, s) + Is(e, s)
    <2>1. temps' = Append(Popped(2), e)
      BY DEF EvalConcat, e
    <2>2. Len(temps) \in Nat /\ Len(temps) <= MaxTemps /\ MaxTemps \in Nat
      BY ConstantsOK DEF Inv, Shape
    <2>3. temps' \in Seq(Ids) /\ Len(temps') = Len(temps) - 1
      BY <1>2, <1>3, <2>1, <2>2
    <2>. QED BY <1>2, <1>3, <2>1, <2>2, <2>3, HoldsAppend
  <1>8. UNCHANGED <<literal, vars, instance, field, lost>>
    BY DEF EvalConcat
  <1>9. Roots'
    BY <1>7, <1>8, RootsNow DEF Roots
  <1>. HIDE DEF h
  <1>10. ASSUME NEW s \in Ids
         PROVE  rc'[s] = rc[s] + (Holds(vars', s) - Holds(vars, s))
                               + (Holds(temps', s) - Holds(temps, s))
                               + (Holds(field', s) - Holds(field, s)) + (lost'[s] - lost[s])
    <2>1. rc'[s] = rc[s] + Is(e, s) - Is(left, s) - Is(Top, s)
      BY <1>2, <1>4, <1>5, <1>6, CountTypes, IsType
    <2>. QED BY <2>1, <1>7, <1>8, CountTypes, IsType
  <1>. QED BY <1>6, <1>8, <1>9, <1>10, InvKept

(* One hold of the new string is the value's, the other is lost.            *)
LEMMA MkInv == ASSUME Inv, NEW t \in Texts, EvalMk(t) PROVE Inv'
  <1>. DEFINE e == NextFree(Heap)
              g == New(Heap, t)
              h == Ref(g, e)
  <1>1. Room /\ Available(Heap)
    BY DEF EvalMk
  <1>2. e \in Ids /\ g \in Heaps /\ \A s \in Ids : g.rc[s] = rc[s] + Is(e, s)
    BY <1>1, HeapNow, NextIsFree, NewCounts
  <1>. HIDE DEF e, g
  <1>3. h \in Heaps /\ \A s \in Ids : h.rc[s] = g.rc[s] + Is(e, s)
    BY <1>2, RefCounts
  <1>4. rc' = h.rc /\ text' = h.text /\ rc' \in [Ids -> Int] /\ text' \in [Ids -> Texts]
    BY <1>3 DEF EvalMk, Commit, Heaps, e, g
  <1>5. /\ temps' \in Seq(Ids) /\ Len(temps') <= MaxTemps
        /\ \A s : Holds(temps', s) = Holds(temps, s) + Is(e, s)
    <2>1. temps' = Append(temps, e)
      BY DEF EvalMk, e
    <2>. QED BY <1>1, <1>2, <2>1, TempsPushed
  <1>6. lost' \in [Ids -> Nat] /\ \A s \in Ids : lost'[s] = lost[s] + Is(e, s)
    <2>1. lost' = [s \in Ids |-> lost[s] + [x \in Ids |-> IF x = e THEN 1 ELSE 0][s]]
      BY DEF EvalMk, Lose, e
    <2>2. lost \in [Ids -> Nat]
      BY DEF Inv, Shape
    <2>. QED BY <2>1, <2>2 DEF Is
  <1>7. UNCHANGED <<literal, vars, instance, field>>
    BY DEF EvalMk
  <1>8. Roots'
    BY <1>5, <1>6, <1>7, RootsNow DEF Roots
  <1>. HIDE DEF h
  <1>9. ASSUME NEW s \in Ids
        PROVE  rc'[s] = rc[s] + (Holds(vars', s) - Holds(vars, s))
                              + (Holds(temps', s) - Holds(temps, s))
                              + (Holds(field', s) - Holds(field, s)) + (lost'[s] - lost[s])
    <2>1. rc'[s] = rc[s] + Is(e, s) + Is(e, s)
      BY <1>2, <1>3, <1>4
    <2>. QED BY <2>1, <1>5, <1>6, <1>7, CountTypes, IsType
  <1>. QED BY <1>4, <1>7, <1>8, <1>9, InvKept

LEMMA ConsumeInv == ASSUME Inv, Consume PROVE Inv'
  <1>. DEFINE h == Unref(Heap, Top)
  <1>1. /\ Top \in Ids /\ temps' \in Seq(Ids) /\ Len(temps') <= MaxTemps
        /\ \A s : Holds(temps', s) = Holds(temps, s) - Is(Top, s)
    BY TempsUsed DEF Consume
  <1>2. h \in Heaps /\ \A s \in Ids : h.rc[s] = rc[s] - Is(Top, s)
    BY <1>1, HeapNow, UnrefCounts
  <1>3. rc' = h.rc /\ text' = h.text /\ rc' \in [Ids -> Int] /\ text' \in [Ids -> Texts]
    BY <1>2 DEF Consume, Commit, Heaps
  <1>4. UNCHANGED <<literal, vars, instance, field, lost>>
    BY DEF Consume
  <1>5. Roots'
    BY <1>1, <1>4, RootsNow DEF Roots
  <1>. HIDE DEF h
  <1>6. ASSUME NEW s \in Ids
        PROVE  rc'[s] = rc[s] + (Holds(vars', s) - Holds(vars, s))
                              + (Holds(temps', s) - Holds(temps, s))
                              + (Holds(field', s) - Holds(field, s)) + (lost'[s] - lost[s])
    BY <1>1, <1>2, <1>3, <1>4, CountTypes, IsType, SMTT(30)
  <1>. QED BY <1>3, <1>4, <1>5, <1>6, InvKept

LEMMA LetInv == ASSUME Inv, NEW v \in Vars, ExecLet(v) PROVE Inv'
  <1>. DEFINE e == IF vars[v] = None THEN NextFree(Heap) ELSE vars[v]
              g == IF vars[v] = None THEN New(Heap, Empty) ELSE Heap
              k == Ref(g, Top)
              l == Unref(k, Top)
              h == Unref(l, e)
  <1>1. /\ Top \in Ids /\ temps' \in Seq(Ids) /\ Len(temps') <= MaxTemps
        /\ \A s : Holds(temps', s) = Holds(temps, s) - Is(Top, s)
    BY TempsUsed DEF ExecLet
  <1>2. /\ e \in Ids /\ g \in Heaps
        /\ \A s \in Ids : g.rc[s] = rc[s] - Is(vars[v], s) + Is(e, s)
    <2>1. vars[v] = None => Available(Heap)
      BY DEF ExecLet
    <2>. QED BY <2>1, Created
  <1>. HIDE DEF e, g
  <1>3. k \in Heaps /\ \A s \in Ids : k.rc[s] = g.rc[s] + Is(Top, s)
    BY <1>1, <1>2, RefCounts
  <1>. HIDE DEF k
  <1>4. l \in Heaps /\ \A s \in Ids : l.rc[s] = k.rc[s] - Is(Top, s)
    BY <1>1, <1>3, UnrefCounts
  <1>. HIDE DEF l
  <1>5. h \in Heaps /\ \A s \in Ids : h.rc[s] = l.rc[s] - Is(e, s)
    BY <1>2, <1>4, UnrefCounts
  <1>6. rc' = h.rc /\ text' = h.text /\ rc' \in [Ids -> Int] /\ text' \in [Ids -> Texts]
    BY <1>5 DEF ExecLet, Commit, Heaps, e, g, k, l
  <1>7. /\ vars' \in [Vars -> Ids \cup {None}]
        /\ \A s : Holds(vars', s) = Holds(vars, s) - Is(vars[v], s) + Is(Top, s)
    <2>1. vars' = [vars EXCEPT ![v] = Top]
      BY DEF ExecLet
    <2>2. Top \in Ids \cup {None}
      BY <1>1
    <2>. QED BY <2>1, <2>2, VarSet
  <1>8. UNCHANGED <<literal, instance, field, lost>>
    BY DEF ExecLet
  <1>9. Roots'
    BY <1>1, <1>7, <1>8, RootsNow DEF Roots
  <1>. HIDE DEF h
  <1>10. ASSUME NEW s \in Ids
         PROVE  rc'[s] = rc[s] + (Holds(vars', s) - Holds(vars, s))
                               + (Holds(temps', s) - Holds(temps, s))
                               + (Holds(field', s) - Holds(field, s)) + (lost'[s] - lost[s])
    <2>1. rc'[s] = rc[s] - Is(vars[v], s)
      BY <1>2, <1>3, <1>4, <1>5, <1>6, CountTypes, IsType
    <2>2. /\ Holds(vars', s) = Holds(vars, s) - Is(vars[v], s) + Is(Top, s)
          /\ Holds(temps', s) = Holds(temps, s) - Is(Top, s)
          /\ field' = field /\ lost' = lost
      BY <1>1, <1>7, <1>8
    <2>. QED BY <2>1, <2>2, CountTypes, IsType
  <1>. QED BY <1>6, <1>8, <1>9, <1>10, InvKept

LEMMA LetFieldInv == ASSUME Inv, NEW r \in Records, ExecLetField(r) PROVE Inv'
  <1>. DEFINE i == instance[r]
              h == Unref(Heap, field[i])
  <1>1. /\ Top \in Ids /\ temps' \in Seq(Ids) /\ Len(temps') <= MaxTemps
        /\ \A s : Holds(temps', s) = Holds(temps, s) - Is(Top, s)
    BY TempsUsed DEF ExecLetField
  <1>2. i \in Records /\ field[i] \in Ids
    BY DEF Inv, Shape
  <1>3. h \in Heaps /\ \A s \in Ids : h.rc[s] = rc[s] - Is(field[i], s)
    BY <1>2, HeapNow, UnrefCounts
  <1>4. rc' = h.rc /\ text' = h.text /\ rc' \in [Ids -> Int] /\ text' \in [Ids -> Texts]
    BY <1>3 DEF ExecLetField, Commit, Heaps
  <1>5. /\ field' \in [Records -> Ids]
        /\ \A s : Holds(field', s) = Holds(field, s) - Is(field[i], s) + Is(Top, s)
    <2>1. field' = [field EXCEPT ![i] = Top]
      BY DEF ExecLetField
    <2>. QED BY <1>1, <1>2, <2>1, FieldSet
  <1>6. UNCHANGED <<literal, vars, instance, lost>>
    BY DEF ExecLetField
  <1>7. Roots'
    BY <1>1, <1>5, <1>6, RootsNow DEF Roots
  <1>. HIDE DEF h, i
  <1>8. ASSUME NEW s \in Ids
        PROVE  rc'[s] = rc[s] + (Holds(vars', s) - Holds(vars, s))
                              + (Holds(temps', s) - Holds(temps, s))
                              + (Holds(field', s) - Holds(field, s)) + (lost'[s] - lost[s])
    <2>1. rc'[s] = rc[s] - Is(field[i], s)
      BY <1>3, <1>4
    <2>2. /\ Holds(field', s) = Holds(field, s) - Is(field[i], s) + Is(Top, s)
          /\ Holds(temps', s) = Holds(temps, s) - Is(Top, s)
          /\ vars' = vars /\ lost' = lost
      BY <1>1, <1>5, <1>6
    <2>. QED BY <2>1, <2>2, CountTypes, IsType
  <1>. QED BY <1>4, <1>6, <1>7, <1>8, InvKept

LEMMA LetRecordInv ==
    ASSUME Inv, NEW r \in Records, NEW q \in Records, ExecLetRecord(r, q)
    PROVE  Inv'
  <1>1. UNCHANGED <<rc, text, literal, vars, temps, field, lost>>
    BY DEF ExecLetRecord
  <1>2. instance' \in [Records -> Records]
    BY DEF ExecLetRecord, Inv, Shape
  <1>3. Shape'
    BY <1>1, <1>2 DEF Inv, Shape
  <1>4. Counted'
    BY <1>1 DEF Inv, Counted, Held
  <1>. QED BY <1>3, <1>4 DEF Inv

LEMMA InputInv == ASSUME Inv, NEW v \in Vars, NEW t \in Texts, ExecInput(v, t) PROVE Inv'
  <1>. DEFINE g == Unref(Heap, vars[v])
              e == NextFree(g)
              h == New(g, t)
  <1>1. vars[v] \in Ids \cup {None}
    BY DEF Inv, Shape
  <1>2. g \in Heaps /\ \A s \in Ids : g.rc[s] = rc[s] - Is(vars[v], s)
    BY <1>1, HeapNow, UnrefCounts
  <1>3. Available(g)
    BY DEF ExecInput
  <1>4. e \in Ids /\ h \in Heaps /\ \A s \in Ids : h.rc[s] = g.rc[s] + Is(e, s)
    <2>. HIDE DEF g
    <2>. QED BY <1>2, <1>3, NextIsFree, NewCounts
  <1>5. rc' = h.rc /\ text' = h.text /\ rc' \in [Ids -> Int] /\ text' \in [Ids -> Texts]
    BY <1>4 DEF ExecInput, Commit, Heaps
  <1>6. /\ vars' \in [Vars -> Ids \cup {None}]
        /\ \A s : Holds(vars', s) = Holds(vars, s) - Is(vars[v], s) + Is(e, s)
    <2>1. vars' = [vars EXCEPT ![v] = e] /\ e \in Ids \cup {None}
      BY <1>4 DEF ExecInput
    <2>. HIDE DEF e
    <2>. QED BY <2>1, VarSet
  <1>7. UNCHANGED <<literal, temps, instance, field, lost>>
    BY DEF ExecInput
  <1>8. Roots'
    BY <1>6, <1>7, RootsNow DEF Roots
  <1>. HIDE DEF e, g, h
  <1>9. ASSUME NEW s \in Ids
        PROVE  rc'[s] = rc[s] + (Holds(vars', s) - Holds(vars, s))
                              + (Holds(temps', s) - Holds(temps, s))
                              + (Holds(field', s) - Holds(field, s)) + (lost'[s] - lost[s])
    <2>1. rc'[s] = rc[s] - Is(vars[v], s) + Is(e, s)
      BY <1>2, <1>4, <1>5, CountTypes, IsType
    <2>. QED BY <2>1, <1>6, <1>7, CountTypes, IsType
  <1>. QED BY <1>5, <1>7, <1>8, <1>9, InvKept

(* As for MKI$, one hold of the new string is the variable's.               *)
LEMMA GetInv == ASSUME Inv, NEW v \in Vars, NEW t \in Texts, ExecGet(v, t) PROVE Inv'
  <1>. DEFINE g == Unref(Heap, vars[v])
              e == NextFree(g)
              k == New(g, t)
              h == Ref(k, e)
  <1>1. vars[v] \in Ids \cup {None}
    BY DEF Inv, Shape
  <1>2. g \in Heaps /\ \A s \in Ids : g.rc[s] = rc[s] - Is(vars[v], s)
    BY <1>1, HeapNow, UnrefCounts
  <1>3. Available(g)
    BY DEF ExecGet
  <1>4. e \in Ids /\ k \in Heaps /\ \A s \in Ids : k.rc[s] = g.rc[s] + Is(e, s)
    <2>. HIDE DEF g
    <2>. QED BY <1>2, <1>3, NextIsFree, NewCounts
  <1>. HIDE DEF e, g, k
  <1>5. h \in Heaps /\ \A s \in Ids : h.rc[s] = k.rc[s] + Is(e, s)
    BY <1>4, RefCounts
  <1>6. rc' = h.rc /\ text' = h.text /\ rc' \in [Ids -> Int] /\ text' \in [Ids -> Texts]
    BY <1>5 DEF ExecGet, Commit, Heaps, e, g, k
  <1>7. /\ vars' \in [Vars -> Ids \cup {None}]
        /\ \A s : Holds(vars', s) = Holds(vars, s) - Is(vars[v], s) + Is(e, s)
    <2>1. vars' = [vars EXCEPT ![v] = e] /\ e \in Ids \cup {None}
      BY <1>4 DEF ExecGet, e, g
    <2>. QED BY <2>1, VarSet
  <1>8. lost' \in [Ids -> Nat] /\ \A s \in Ids : lost'[s] = lost[s] + Is(e, s)
    <2>1. lost' = [s \in Ids |-> lost[s] + [x \in Ids |-> IF x = e THEN 1 ELSE 0][s]]
      BY DEF ExecGet, Lose, e, g
    <2>2. lost \in [Ids -> Nat]
      BY DEF Inv, Shape
    <2>. QED BY <2>1, <2>2 DEF Is
  <1>9. UNCHANGED <<literal, temps, instance, field>>
    BY DEF ExecGet
  <1>10. Roots'
    BY <1>7, <1>8, <1>9, RootsNow DEF Roots
  <1>. HIDE DEF h
  <1>11. ASSUME NEW s \in Ids
         PROVE  rc'[s] = rc[s] + (Holds(vars', s) - Holds(vars, s))
                               + (Holds(temps', s) - Holds(temps, s))
                               + (Holds(field', s) - Holds(field, s)) + (lost'[s] - lost[s])
    <2>1. rc'[s] = rc[s] - Is(vars[v], s) + Is(e, s) + Is(e, s)
      BY <1>2, <1>4, <1>5, <1>6, CountTypes, IsType
    <2>. QED BY <2>1, <1>7, <1>8, <1>9, CountTypes, IsType
  <1>. QED BY <1>6, <1>9, <1>10, <1>11, InvKept

(* The copy that fbstr_cow makes takes over the hold on the original.       *)
LEMMA CowCounts ==
    ASSUME Inv, NEW r \in Ids, rc[r] # 1 => Available(Heap)
    PROVE  LET c == Cow(Heap, r)
           IN  /\ c.s \in Ids /\ c.h \in Heaps
               /\ \A s \in Ids : c.h.rc[s] = rc[s] - Is(r, s) + Is(c.s, s)
  <1>1. Heap \in Heaps /\ Heap.rc = rc /\ Heap.text = text
    BY HeapNow
  <1>2. CASE rc[r] = 1
    <2>1. Cow(Heap, r).s = r /\ Cow(Heap, r).h = Heap
      BY <1>1, <1>2 DEF Cow
    <2>. QED BY <1>1, <2>1, CountTypes, IsType
  <1>3. CASE rc[r] # 1
    <2>. DEFINE e == NextFree(Heap)
                g == New(Heap, text[r])
                h == Unref(g, r)
    <2>1. text[r] \in Texts
      BY <1>1 DEF Heaps
    <2>2. e \in Ids /\ g \in Heaps /\ \A s \in Ids : g.rc[s] = rc[s] + Is(e, s)
      BY <1>1, <1>3, <2>1, NextIsFree, NewCounts
    <2>3. Cow(Heap, r).s = e /\ Cow(Heap, r).h = h
      BY <1>1, <1>3 DEF Cow
    <2>. HIDE DEF e, g
    <2>4. h \in Heaps /\ \A s \in Ids : h.rc[s] = g.rc[s] - Is(r, s)
      BY <2>2, UnrefCounts
    <2>. HIDE DEF h
    <2>. QED BY <2>2, <2>3, <2>4, CountTypes, IsType
  <1>. QED BY <1>2, <1>3

LEMMA LsetInv == ASSUME Inv, NEW v \in Vars, NEW t \in Texts, ExecLset(v, t) PROVE Inv'
  <1>. DEFINE c == Cow(Heap, vars[v])
              k == Write(c.h, c.s, t)
              h == Unref(k, Top)
  <1>1. /\ Top \in Ids /\ temps' \in Seq(Ids) /\ Len(temps') <= MaxTemps
        /\ \A s : Holds(temps', s) = Holds(temps, s) - Is(Top, s)
    BY TempsUsed DEF ExecLset
  <1>2. vars[v] \in Ids
    BY DEF Inv, Shape, ExecLset
  <1>3. /\ c.s \in Ids /\ c.h \in Heaps
        /\ \A s \in Ids : c.h.rc[s] = rc[s] - Is(vars[v], s) + Is(c.s, s)
    BY <1>2, CowCounts DEF ExecLset
  <1>. HIDE DEF c
  <1>4. k \in Heaps /\ k.rc = c.h.rc
    BY <1>3, WriteCounts
  <1>. HIDE DEF k
  <1>5. h \in Heaps /\ \A s \in Ids : h.rc[s] = k.rc[s] - Is(Top, s)
    BY <1>1, <1>4, UnrefCounts
  <1>6. rc' = h.rc /\ text' = h.text /\ rc' \in [Ids -> Int] /\ text' \in [Ids -> Texts]
    BY <1>5 DEF ExecLset, Commit, Heaps, c, k
  <1>7. /\ vars' \in [Vars -> Ids \cup {None}]
        /\ \A s : Holds(vars', s) = Holds(vars, s) - Is(vars[v], s) + Is(c.s, s)
    <2>1. vars' = [vars EXCEPT ![v] = c.s] /\ c.s \in Ids \cup {None}
      BY <1>3 DEF ExecLset, c
    <2>. QED BY <2>1, VarSet
  <1>8. UNCHANGED <<literal, instance, field, lost>>
    BY DEF ExecLset
  <1>9. Roots'
    BY <1>1, <1>7, <1>8, RootsNow DEF Roots
  <1>. HIDE DEF h
  <1>10. ASSUME NEW s \in Ids
         PROVE  rc'[s] = rc[s] + (Holds(vars', s) - Holds(vars, s))
                               + (Holds(temps', s) - Holds(temps, s))
                               + (Holds(field', s) - Holds(field, s)) + (lost'[s] - lost[s])
    <2>1. rc'[s] = rc[s] - Is(vars[v], s) + Is(c.s, s) - Is(Top, s)
      BY <1>3, <1>4, <1>5, <1>6, CountTypes, IsType
    <2>2. /\ Holds(vars', s) = Holds(vars, s) - Is(vars[v], s) + Is(c.s, s)
          /\ Holds(temps', s) = Holds(temps, s) - Is(Top, s)
          /\ field' = field /\ lost' = lost
      BY <1>1, <1>7, <1>8
    <2>. QED BY <2>1, <2>2, CountTypes, IsType
  <1>. QED BY <1>6, <1>8, <1>9, <1>10, InvKept

LEMMA SwapInv == ASSUME Inv, NEW v \in Vars, NEW w \in Vars, ExecSwap(v, w) PROVE Inv'
  <1>. DEFINE a == vars[v]
              b == vars[w]
              g == [vars EXCEPT ![v] = b]
  <1>1. a \in Ids \cup {None} /\ b \in Ids \cup {None}
    BY DEF Inv, Shape
  <1>2. /\ g \in [Vars -> Ids \cup {None}] /\ DOMAIN g = Vars
        /\ g[w] = b /\ vars' = [g EXCEPT ![w] = a]
    <2>1. vars \in [Vars -> Ids \cup {None}] /\ DOMAIN vars = Vars
      BY DEF Inv, Shape
    <2>. QED BY <1>1, <2>1 DEF ExecSwap
  <1>3. \A s : Holds(g, s) = Holds(vars, s) - Is(a, s) + Is(b, s)
    BY <1>1, VarSet
  <1>. HIDE DEF g, a, b
  <1>4. vars' \in [Vars -> Ids \cup {None}]
    BY <1>1, <1>2
  <1>5. \A s : Holds(vars', s) = Holds(g, s) - Is(b, s) + Is(a, s)
    <2>1. IsFiniteSet(DOMAIN g) /\ w \in DOMAIN g
      BY <1>2, ConstantsOK
    <2>. QED BY <1>2, <2>1, HoldsUpdate, ZenonT(40)
  <1>6. UNCHANGED <<rc, text, literal, temps, instance, field, lost>>
    BY DEF ExecSwap
  <1>7. Roots' /\ rc' \in [Ids -> Int] /\ text' \in [Ids -> Texts]
    BY <1>4, <1>6, RootsNow DEF Roots, Inv, Shape
  <1>8. ASSUME NEW s \in Ids
        PROVE  rc'[s] = rc[s] + (Holds(vars', s) - Holds(vars, s))
                              + (Holds(temps', s) - Holds(temps, s))
                              + (Holds(field', s) - Holds(field, s)) + (lost'[s] - lost[s])
    <2>1. Holds(vars', s) = Holds(vars, s)
      BY <1>3, <1>5, CountTypes, IsType
    <2>. QED BY <2>1, <1>6, CountTypes
  <1>. QED BY <1>6, <1>7, <1>8, InvKept

(* Every hold of a value that an error abandons is lost.                    *)
LEMMA TrapInv == ASSUME Inv, Trap PROVE Inv'
  <1>1. temps \in Seq(Ids) /\ lost \in [Ids -> Nat] /\ Len(<<>>) <= MaxTemps
    BY ConstantsOK DEF Inv, Shape
  <1>2. ASSUME NEW s PROVE Cardinality({i \in 1..Len(temps) : temps[i] = s}) = Holds(temps, s)
    BY <1>1, LenProperties DEF Holds, Places
  <1>3. \A s \in Ids : Holds(temps, s) \in Nat
    BY HeldType DEF Inv
  <1>4. lost' \in [Ids -> Nat] /\ \A s \in Ids : lost'[s] = lost[s] + Holds(temps, s)
    <2>1. lost' = [s \in Ids |-> lost[s] + [x \in Ids |-> Holds(temps, x)][s]]
      BY <1>2 DEF Trap, Lose
    <2>. QED BY <1>1, <1>3, <2>1
  <1>5. temps' = <<>> /\ UNCHANGED <<rc, text, literal, vars, instance, field>>
    BY DEF Trap
  <1>6. Roots' /\ rc' \in [Ids -> Int] /\ text' \in [Ids -> Texts]
    <2>1. temps' \in Seq(Ids) /\ Len(temps') <= MaxTemps
      BY <1>1, <1>5
    <2>. QED BY <1>4, <1>5, <2>1, RootsNow DEF Roots, Inv, Shape
  <1>7. ASSUME NEW s \in Ids
        PROVE  rc'[s] = rc[s] + (Holds(vars', s) - Holds(vars, s))
                              + (Holds(temps', s) - Holds(temps, s))
                              + (Holds(field', s) - Holds(field, s)) + (lost'[s] - lost[s])
    <2>1. Holds(temps', s) = 0
      BY <1>5, HoldsNone
    <2>. QED BY <2>1, <1>4, <1>5, CountTypes
  <1>. QED BY <1>5, <1>6, <1>7, InvKept

(* A scope that is released gives up the holds of its variables.            *)
LEMMA ScopeFreeInv == ASSUME Inv, NEW S \in SUBSET Vars, ScopeFree(S) PROVE Inv'
  <1>. DEFINE D(s) == {v \in S : vars[v] = s}
  <1>1. /\ vars \in [Vars -> Ids \cup {None}] /\ DOMAIN vars = Vars /\ IsFiniteSet(Vars)
        /\ rc \in [Ids -> Int] /\ text \in [Ids -> Texts] /\ Empty \in Texts
    BY ConstantsOK DEF Inv, Shape
  <1>2. vars' = [v \in Vars |-> IF v \in S THEN None ELSE vars[v]]
    BY DEF ScopeFree
  <1>3. vars' \in [Vars -> Ids \cup {None}] /\ DOMAIN vars' = Vars
    BY <1>1, <1>2
  <1>4. ASSUME NEW s \in Ids
        PROVE  Holds(vars', s) = Holds(vars, s) - Cardinality(D(s)) /\ Cardinality(D(s)) \in Nat
    <2>1. Places(vars, s) = Places(vars', s) \cup D(s) /\ Places(vars', s) \cap D(s) = {}
      BY <1>1, <1>2, <1>3, IdsAreInts DEF Places
    <2>2. IsFiniteSet(Places(vars', s)) /\ IsFiniteSet(D(s))
      <3>1. D(s) \in SUBSET Vars
        OBVIOUS
      <3>. QED BY <1>1, <1>3, <3>1, HoldsType, FS_Subset
    <2>. HIDE DEF D
    <2>3. Cardinality(Places(vars', s) \cap D(s)) = 0
      BY <2>1, FS_EmptySet
    <2>4. Cardinality(Places(vars', s) \cup D(s))
            = Cardinality(Places(vars', s)) + Cardinality(D(s))
              - Cardinality(Places(vars', s) \cap D(s))
      BY <2>2, FS_Union
    <2>5. Cardinality(Places(vars', s)) \in Nat /\ Cardinality(D(s)) \in Nat
      BY <2>2, FS_CardinalityType
    <2>. QED BY <2>1, <2>3, <2>4, <2>5 DEF Holds
  <1>5. rc' = [s \in Ids |-> rc[s] - Cardinality(D(s))]
    BY DEF ScopeFree
  <1>. HIDE DEF D
  <1>6. rc' \in [Ids -> Int]
    BY <1>1, <1>4, <1>5
  <1>7. text' \in [Ids -> Texts]
    BY <1>1 DEF ScopeFree
  <1>8. UNCHANGED <<literal, temps, instance, field, lost>>
    BY DEF ScopeFree
  <1>9. Roots'
    BY <1>3, <1>8, RootsNow DEF Roots
  <1>10. ASSUME NEW s \in Ids
         PROVE  rc'[s] = rc[s] + (Holds(vars', s) - Holds(vars, s))
                               + (Holds(temps', s) - Holds(temps, s))
                               + (Holds(field', s) - Holds(field, s)) + (lost'[s] - lost[s])
    BY <1>4, <1>5, <1>8, CountTypes
  <1>. QED BY <1>6, <1>7, <1>8, <1>9, <1>10, InvKept

LEMMA InitInv == Init => Inv
  <1>. SUFFICES ASSUME Init PROVE Inv
    OBVIOUS
  <1>1. /\ literal = [t \in Texts |-> FirstHolds[t]] /\ field = [r \in Records |-> FirstHolds[r]]
        /\ vars = [v \in Vars |-> None] /\ temps = <<>> /\ lost = [s \in Ids |-> 0]
        /\ rc = [s \in Ids |-> IF \E x \in Texts \cup Records : FirstHolds[x] = s THEN 1 ELSE 0]
    BY DEF Init
  <1>2. Shape
    <2>1. text \in [Ids -> Texts]
      BY ConstantsOK DEF Init
    <2>2. temps \in Seq(Ids) /\ Len(temps) <= MaxTemps
      BY <1>1, ConstantsOK
    <2>3. instance \in [Records -> Records]
      BY DEF Init
    <2>4. literal \in [Texts -> Ids] /\ field \in [Records -> Ids] /\ rc \in [Ids -> Int]
      BY <1>1, ConstantsOK
    <2>. QED BY <1>1, <2>1, <2>2, <2>3, <2>4 DEF Shape
  <1>3. ASSUME NEW s \in Ids PROVE rc[s] = Held(s) + lost[s]
    <2>1. Holds(vars, s) = 0 /\ Holds(temps, s) = 0 /\ lost[s] = 0
      BY <1>1, HoldsNowhere, HoldsNone, IdsAreInts
    <2>2. \A x, y \in Texts \cup Records : FirstHolds[x] = FirstHolds[y] => x = y
      BY ConstantsOK
    <2>3. rc[s] = Holds(literal, s) + Holds(field, s)
      <3>1. CASE \E t \in Texts : FirstHolds[t] = s
        <4>1. PICK t \in Texts : FirstHolds[t] = s
          BY <3>1
        <4>2. Holds(literal, s) = 1
          <5>1. t \in DOMAIN literal /\ literal[t] = s /\ \A y \in DOMAIN literal : literal[y] = s => y = t
            BY <1>1, <2>2, <4>1
          <5>. QED BY <5>1, HoldsOnce
        <4>3. Holds(field, s) = 0
          <5>1. \A r \in DOMAIN field : field[r] # s
            BY <1>1, <2>2, <4>1, ConstantsOK
          <5>. QED BY <5>1, HoldsNowhere
        <4>. QED BY <1>1, <4>1, <4>2, <4>3
      <3>2. CASE \E r \in Records : FirstHolds[r] = s
        <4>1. PICK r \in Records : FirstHolds[r] = s
          BY <3>2
        <4>2. Holds(field, s) = 1
          <5>1. r \in DOMAIN field /\ field[r] = s /\ \A y \in DOMAIN field : field[y] = s => y = r
            BY <1>1, <2>2, <4>1
          <5>. QED BY <5>1, HoldsOnce
        <4>3. Holds(literal, s) = 0
          <5>1. \A t \in DOMAIN literal : literal[t] # s
            BY <1>1, <2>2, <4>1, ConstantsOK
          <5>. QED BY <5>1, HoldsNowhere
        <4>. QED BY <1>1, <4>1, <4>2, <4>3
      <3>3. CASE \A x \in Texts \cup Records : FirstHolds[x] # s
        <4>1. Holds(literal, s) = 0 /\ Holds(field, s) = 0
          BY <1>1, <3>3, HoldsNowhere
        <4>. QED BY <1>1, <3>3, <4>1
      <3>. QED BY <3>1, <3>2, <3>3
    <2>4. Holds(literal, s) \in Nat /\ Holds(field, s) \in Nat
      BY <1>2, HeldType
    <2>. QED BY <2>1, <2>3, <2>4 DEF Held
  <1>. QED BY <1>2, <1>3 DEF Inv, Counted

LEMMA NextInv == Inv /\ [Next]_strVars => Inv'
  <1>. SUFFICES ASSUME Inv, [Next]_strVars PROVE Inv'
    OBVIOUS
  <1>1. CASE EvalExpr
    BY <1>1, LiteralInv, ConcatInv, FunctionInv, MkInv, VariableInv, FieldInv DEF EvalExpr
  <1>2. CASE ExecStatement
    BY <1>2, ConsumeInv, LetInv, InputInv, GetInv, LsetInv, SwapInv, LetFieldInv, LetRecordInv,
       ScopeFreeInv DEF ExecStatement
  <1>3. CASE Trap
    BY <1>3, TrapInv
  <1>4. CASE UNCHANGED strVars
    BY <1>4 DEF strVars, Inv, Shape, Counted, Held
  <1>. QED BY <1>1, <1>2, <1>3, <1>4 DEF Next

(* Every variable of Strings keeps its type: no count falls below zero, no  *)
(* variable, value or field has a block that is not one.                    *)
THEOREM TypeCorrect == Spec => []TypeOK
  <1>1. Inv => TypeOK
    BY InvIsType
  <1>. QED BY <1>1, InitInv, NextInv, PTL DEF Spec

(* The count of every FBString is exactly the number of its holders and of  *)
(* the holds that MKI$, GET # and trapped errors lose: it is never freed    *)
(* while something holds it (fbstr_ref, fbstr_unref and all their callers). *)
THEOREM CountsAlwaysExact == Spec => []CountsExact
  <1>1. Inv => CountsExact
    BY InvIsType
  <1>. QED BY <1>1, InitInv, NextInv, PTL DEF Spec
--------------------------------------------------------------------------------
(* Who may overwrite a string.                                              *)

Sole(s) == \E v \in Vars : Holders(s) = {<<"variable", v>>}
Writes  == \A s \in Ids : rc[s] > 0 /\ rc'[s] > 0 /\ text'[s] # text[s] => Sole(s)

(* A block with count 1 that a variable has is held by nothing else.        *)
LEMMA SoleHolder ==
    ASSUME Inv, NEW v \in Vars, NEW s \in Ids, vars[v] = s, rc[s] = 1
    PROVE  Sole(s)
  <1>1. TypeOK /\ rc[s] = Cardinality(Holders(s)) + lost[s] /\ lost[s] \in Nat
    BY InvIsType DEF CountsExact, TypeOK
  <1>2. IsFiniteSet(Holders(s)) /\ Cardinality(Holders(s)) \in Nat
    BY <1>1, HoldersCounted, FS_CardinalityType
  <1>3. <<"variable", v>> \in Holders(s)
    BY DEF Holders
  <1>4. Cardinality(Holders(s)) # 0
    BY <1>2, <1>3, FS_EmptySet
  <1>5. Cardinality(Holders(s)) = 1
    BY <1>1, <1>2, <1>4
  <1>6. PICK x : Holders(s) = {x}
    BY <1>2, <1>5, FS_Singleton
  <1>7. Holders(s) = {<<"variable", v>>}
    BY <1>3, <1>6
  <1>. QED BY <1>7 DEF Sole

(* What the operations on the heap do to the text of blocks in use: nothing *)
(* is freed, or nothing is made, and no block that stays is overwritten.    *)
Grows(h, k)   == \A s \in Ids : h.rc[s] > 0 => k.rc[s] > 0 /\ k.text[s] = h.text[s]
Shrinks(h, k) == \A s \in Ids : k.rc[s] > 0 => h.rc[s] > 0 /\ k.text[s] = h.text[s]

LEMMA GrowsNew == ASSUME NEW h \in Heaps, Available(h), NEW t \in Texts PROVE Grows(h, New(h, t))
  <1>1. NextFree(h) \in Ids /\ h.rc[NextFree(h)] = 0
    BY NextIsFree
  <1>2. \A s \in Ids : New(h, t).text[s] = IF s = NextFree(h) THEN t ELSE h.text[s]
    BY NewCounts
  <1>3. \A s \in Ids : s # NextFree(h) => New(h, t).rc[s] = h.rc[s]
    BY <1>1 DEF New, Heaps
  <1>. QED BY <1>1, <1>2, <1>3 DEF Grows

LEMMA GrowsRef == ASSUME NEW h \in Heaps, NEW r \in Ids PROVE Grows(h, Ref(h, r))
  <1>1. \A s \in Ids : h.rc[s] \in Int /\ Ref(h, r).rc[s] = h.rc[s] + Is(r, s)
    BY RefCounts DEF Heaps
  <1>2. \A s \in Ids : Is(r, s) \in Nat
    BY DEF Is
  <1>3. Ref(h, r).text = h.text
    BY RefCounts
  <1>. QED BY <1>1, <1>2, <1>3 DEF Grows

LEMMA ShrinksUnref ==
    ASSUME NEW h \in Heaps, NEW r \in Ids \cup {None}
    PROVE  Shrinks(h, Unref(h, r))
  <1>1. \A s \in Ids : h.rc[s] \in Int /\ Unref(h, r).rc[s] = h.rc[s] - Is(r, s)
    BY UnrefCounts DEF Heaps
  <1>2. \A s \in Ids : Unref(h, r).text[s] = IF r = s /\ h.rc[s] <= 1 THEN Empty ELSE h.text[s]
    BY UnrefCounts
  <1>3. ASSUME NEW s \in Ids, Unref(h, r).rc[s] > 0
        PROVE  h.rc[s] > 0 /\ Unref(h, r).text[s] = h.text[s]
    <2>1. CASE r = s
      BY <1>1, <1>2, <1>3, <2>1 DEF Is
    <2>2. CASE r # s
      BY <1>1, <1>2, <1>3, <2>2 DEF Is
    <2>. QED BY <2>1, <2>2
  <1>. QED BY <1>3 DEF Shrinks

LEMMA SameGrows == ASSUME NEW h PROVE Grows(h, h) /\ Shrinks(h, h)
  BY DEF Grows, Shrinks

LEMMA KeepsWrites ==
    ASSUME Inv, NEW h \in Heaps, NEW g \in Heaps, Grows(Heap, g), Shrinks(g, h), Commit(h)
    PROVE  Writes
  <1>1. Heap.rc = rc /\ Heap.text = text /\ rc' = h.rc /\ text' = h.text
    BY HeapNow DEF Commit
  <1>. QED BY <1>1 DEF Grows, Shrinks, Writes

LEMMA GrowsTwice ==
    ASSUME NEW f, NEW g, NEW h, Grows(f, g), Grows(g, h)
    PROVE  Grows(f, h)
  BY DEF Grows

LEMMA ShrinksTwice ==
    ASSUME NEW f, NEW g, NEW h, Shrinks(f, g), Shrinks(g, h)
    PROVE  Shrinks(f, h)
  BY DEF Shrinks

LEMMA EvalWrites == ASSUME Inv, EvalExpr PROVE Writes
  <1>0. Heap \in Heaps /\ Heap.rc = rc
    BY HeapNow
  <1>1. ASSUME NEW e \in Ids, Commit(Ref(Heap, e)) PROVE Writes
    <2>. DEFINE h == Ref(Heap, e)
    <2>1. h \in Heaps /\ Grows(Heap, h) /\ Shrinks(h, h)
      BY <1>0, RefCounts, GrowsRef, SameGrows
    <2>. QED BY <1>1, <2>1, KeepsWrites
  <1>2. ASSUME NEW t \in Texts, EvalLiteral(t) PROVE Writes
    <2>1. literal[t] \in Ids /\ Commit(Ref(Heap, literal[t]))
      BY <1>2 DEF EvalLiteral, Inv, Shape
    <2>. QED BY <1>1, <2>1
  <1>3. ASSUME NEW r \in Records, EvalField(r) PROVE Writes
    <2>1. field[instance[r]] \in Ids /\ Commit(Ref(Heap, field[instance[r]]))
      BY <1>3 DEF EvalField, Inv, Shape
    <2>. QED BY <1>1, <2>1
  <1>4. ASSUME NEW t \in Texts, EvalConcat(t) \/ EvalFunction(t) PROVE Writes
    <2>. DEFINE g == New(Heap, t)
                left == temps[Len(temps) - 1]
                one == Unref(g, Top)
                k   == Unref(g, left)
                two == Unref(k, Top)
    <2>1. Available(Heap)
      BY <1>4 DEF EvalConcat, EvalFunction
    <2>2. g \in Heaps /\ Grows(Heap, g)
      BY <1>0, <2>1, NewCounts, GrowsNew
    <2>. HIDE DEF g
    <2>3. CASE EvalFunction(t)
      <3>1. Top \in Ids /\ Commit(one)
        BY <2>3, TempsPopped DEF EvalFunction, g
      <3>2. one \in Heaps /\ Shrinks(g, one)
        BY <2>2, <3>1, UnrefCounts, ShrinksUnref
      <3>. QED BY <2>2, <3>1, <3>2, KeepsWrites
    <2>4. CASE EvalConcat(t)
      <3>1. Top \in Ids /\ left \in Ids
        BY <2>4, TempsPoppedTwice DEF EvalConcat
      <3>2. Commit(two)
        BY <2>4 DEF EvalConcat, g
      <3>. HIDE DEF left
      <3>3. k \in Heaps /\ Shrinks(g, k)
        BY <2>2, <3>1, UnrefCounts, ShrinksUnref
      <3>. HIDE DEF k
      <3>4. two \in Heaps /\ Shrinks(k, two)
        BY <3>1, <3>3, UnrefCounts, ShrinksUnref
      <3>5. Shrinks(g, two)
        BY <3>3, <3>4, ShrinksTwice
      <3>. QED BY <2>2, <3>2, <3>4, <3>5, KeepsWrites
    <2>. QED BY <1>4, <2>3, <2>4
  <1>5. ASSUME NEW t \in Texts, EvalMk(t) PROVE Writes
    <2>. DEFINE e == NextFree(Heap)
                g == New(Heap, t)
                h == Ref(g, e)
    <2>1. Available(Heap) /\ Commit(h)
      BY <1>5 DEF EvalMk
    <2>2. g \in Heaps /\ Grows(Heap, g) /\ e \in Ids
      BY <1>0, <2>1, NewCounts, GrowsNew, NextIsFree
    <2>. HIDE DEF g, e
    <2>3. h \in Heaps /\ Grows(g, h)
      BY <2>2, RefCounts, GrowsRef
    <2>4. Grows(Heap, h) /\ Shrinks(h, h)
      BY <2>2, <2>3, GrowsTwice, SameGrows
    <2>. QED BY <2>1, <2>3, <2>4, KeepsWrites
  <1>6. ASSUME NEW v \in Vars, EvalVariable(v) PROVE Writes
    <2>. DEFINE e == IF vars[v] = None THEN NextFree(Heap) ELSE vars[v]
                g == IF vars[v] = None THEN New(Heap, Empty) ELSE Heap
                h == Ref(g, e)
    <2>1. Commit(h) /\ (vars[v] = None => Available(Heap))
      BY <1>6 DEF EvalVariable
    <2>2. e \in Ids /\ g \in Heaps
      BY <2>1, Created
    <2>3. Grows(Heap, g)
      BY <1>0, <2>1, GrowsNew, SameGrows, ConstantsOK
    <2>. HIDE DEF g, e
    <2>4. h \in Heaps /\ Grows(g, h)
      BY <2>2, RefCounts, GrowsRef
    <2>5. Grows(Heap, h) /\ Shrinks(h, h)
      BY <2>3, <2>4, GrowsTwice, SameGrows
    <2>. QED BY <2>1, <2>4, <2>5, KeepsWrites
  <1>. QED BY <1>2, <1>3, <1>4, <1>5, <1>6 DEF EvalExpr

(* The variable's block is freed, and the next free block may be the same.  *)
LEMMA ReplaceWrites ==
    ASSUME Inv, NEW v \in Vars, NEW t \in Texts, NEW h \in Heaps, Commit(h),
           Available(Unref(Heap, vars[v])),
           Grows(New(Unref(Heap, vars[v]), t), h), Shrinks(New(Unref(Heap, vars[v]), t), h)
    PROVE  Writes
  <1>. DEFINE g == Unref(Heap, vars[v])
              e == NextFree(g)
              k == New(g, t)
  <1>1. /\ Heap \in Heaps /\ Heap.rc = rc /\ Heap.text = text /\ vars[v] \in Ids \cup {None}
        /\ rc' = h.rc /\ text' = h.text /\ rc \in [Ids -> Int]
    BY HeapNow DEF Inv, Shape, Commit
  <1>2. g \in Heaps /\ Shrinks(Heap, g) /\ \A s \in Ids : g.rc[s] = rc[s] - Is(vars[v], s)
    BY <1>1, UnrefCounts, ShrinksUnref
  <1>3. Available(g) /\ Grows(k, h) /\ Shrinks(k, h)
    OBVIOUS
  <1>. HIDE DEF g
  <1>4. /\ e \in Ids /\ g.rc[e] = 0 /\ k \in Heaps
        /\ \A s \in Ids : k.rc[s] = g.rc[s] + Is(e, s)
        /\ \A s \in Ids : k.text[s] = IF s = e THEN t ELSE g.text[s]
    BY <1>2, <1>3, NextIsFree, NewCounts
  <1>. HIDE DEF e, k
  <1>5. ASSUME NEW s \in Ids, rc[s] > 0, rc'[s] > 0, text'[s] # text[s] PROVE Sole(s)
    <2>1. CASE s = e
      <3>1. vars[v] = s /\ rc[s] = 1
        BY <1>1, <1>2, <1>4, <1>5, <2>1 DEF Is
      <3>. QED BY <3>1, SoleHolder
    <2>2. CASE s # e
      <3>1. k.rc[s] = g.rc[s] /\ k.text[s] = g.text[s]
        BY <1>2, <1>4, <2>2 DEF Is, Heaps
      <3>2. k.rc[s] > 0 /\ h.text[s] = k.text[s]
        BY <1>1, <1>3, <1>5 DEF Shrinks
      <3>3. g.text[s] = text[s]
        BY <1>1, <1>2, <3>1, <3>2 DEF Shrinks
      <3>. QED BY <1>1, <1>5, <3>1, <3>2, <3>3
    <2>. QED BY <2>1, <2>2
  <1>. QED BY <1>5 DEF Writes

LEMMA LsetWrites == ASSUME Inv, NEW v \in Vars, NEW t \in Texts, ExecLset(v, t) PROVE Writes
  <1>. DEFINE r == vars[v]
              c == Cow(Heap, r)
              k == Write(c.h, c.s, t)
              h == Unref(k, Top)
  <1>1. /\ Heap \in Heaps /\ Heap.rc = rc /\ Heap.text = text /\ r \in Ids /\ Top \in Ids
        /\ rc \in [Ids -> Int]
    BY HeapNow, TempsUsed DEF Inv, Shape, ExecLset
  <1>2. c.s \in Ids /\ c.h \in Heaps
    BY <1>1, CowCounts DEF ExecLset
  <1>3. rc' = h.rc /\ text' = h.text
    BY DEF ExecLset, Commit
  <1>4. \/ rc[r] = 1 /\ c.s = r /\ c.h = Heap
        \/ rc[c.s] = 0 /\ \A s \in Ids : rc[s] > 0 /\ c.h.rc[s] > 0 => c.h.text[s] = text[s]
    <2>1. CASE rc[r] = 1
      BY <1>1, <2>1 DEF Cow
    <2>2. CASE rc[r] # 1
      <3>. DEFINE g == New(Heap, text[r])
      <3>1. Available(Heap) /\ text[r] \in Texts
        BY <1>1, <2>2 DEF ExecLset, Heaps
      <3>2. c.s = NextFree(Heap) /\ c.h = Unref(g, r) /\ rc[c.s] = 0
        BY <1>1, <2>2, <3>1, NextIsFree DEF Cow
      <3>3. g \in Heaps /\ Grows(Heap, g)
        BY <1>1, <3>1, NewCounts, GrowsNew
      <3>. HIDE DEF g
      <3>4. Shrinks(g, c.h)
        BY <1>1, <3>2, <3>3, ShrinksUnref
      <3>5. \A s \in Ids : rc[s] > 0 /\ c.h.rc[s] > 0 => c.h.text[s] = text[s]
        BY <1>1, <3>3, <3>4 DEF Grows, Shrinks
      <3>. QED BY <3>2, <3>5
    <2>. QED BY <2>1, <2>2
  <1>. HIDE DEF c
  <1>5. /\ k \in Heaps /\ k.rc = c.h.rc
        /\ \A s \in Ids : k.text[s] = IF c.s = s THEN t ELSE c.h.text[s]
    BY <1>2, WriteCounts
  <1>. HIDE DEF k
  <1>6. Shrinks(k, h)
    BY <1>1, <1>5, ShrinksUnref
  <1>. HIDE DEF h
  <1>7. ASSUME NEW s \in Ids, rc[s] > 0, rc'[s] > 0, text'[s] # text[s] PROVE Sole(s)
    <2>1. c.h.rc[s] > 0 /\ text'[s] = k.text[s]
      BY <1>3, <1>5, <1>6, <1>7 DEF Shrinks
    <2>2. CASE rc[r] = 1 /\ c.s = r /\ c.h = Heap
      <3>1. s = r
        BY <1>1, <1>5, <1>7, <2>1, <2>2
      <3>. QED BY <2>2, <3>1, SoleHolder
    <2>3. CASE rc[c.s] = 0 /\ \A x \in Ids : rc[x] > 0 /\ c.h.rc[x] > 0 => c.h.text[x] = text[x]
      <3>1. s # c.s
        BY <1>7, <2>3
      <3>2. k.text[s] = text[s]
        BY <1>5, <1>7, <2>1, <2>3, <3>1
      <3>. QED BY <1>7, <2>1, <3>2
    <2>. QED BY <1>4, <2>2, <2>3
  <1>. QED BY <1>7 DEF Writes

LEMMA StatementWrites == ASSUME Inv, ExecStatement PROVE Writes
  <1>0. Heap \in Heaps /\ Heap.rc = rc /\ Heap.text = text /\ Grows(Heap, Heap)
    BY HeapNow, SameGrows
  <1>1. ASSUME NEW e \in Ids, Commit(Unref(Heap, e)) PROVE Writes
    <2>1. Unref(Heap, e) \in Heaps /\ Shrinks(Heap, Unref(Heap, e))
      BY <1>0, UnrefCounts, ShrinksUnref
    <2>. QED BY <1>0, <1>1, <2>1, KeepsWrites
  <1>2. ASSUME Consume PROVE Writes
    BY <1>1, <1>2, TempsUsed DEF Consume
  <1>3. ASSUME NEW r \in Records, ExecLetField(r) PROVE Writes
    <2>1. field[instance[r]] \in Ids /\ Commit(Unref(Heap, field[instance[r]]))
      BY <1>3 DEF ExecLetField, Inv, Shape
    <2>. QED BY <1>1, <2>1
  <1>4. ASSUME NEW v \in Vars, ExecLet(v) PROVE Writes
    <2>. DEFINE e == IF vars[v] = None THEN NextFree(Heap) ELSE vars[v]
                g == IF vars[v] = None THEN New(Heap, Empty) ELSE Heap
                k == Ref(g, Top)
                l == Unref(k, Top)
                h == Unref(l, e)
    <2>1. Commit(h) /\ Top \in Ids /\ (vars[v] = None => Available(Heap))
      BY <1>4, TempsUsed DEF ExecLet
    <2>2. e \in Ids /\ g \in Heaps
      BY <2>1, Created
    <2>3. Grows(Heap, g)
      BY <1>0, <2>1, GrowsNew, ConstantsOK
    <2>. HIDE DEF g, e
    <2>4. k \in Heaps /\ Grows(g, k)
      BY <2>1, <2>2, RefCounts, GrowsRef
    <2>. HIDE DEF k
    <2>5. l \in Heaps /\ Shrinks(k, l)
      BY <2>1, <2>4, UnrefCounts, ShrinksUnref
    <2>. HIDE DEF l
    <2>6. h \in Heaps /\ Shrinks(l, h)
      BY <2>2, <2>5, UnrefCounts, ShrinksUnref
    <2>7. Grows(Heap, k) /\ Shrinks(k, h)
      BY <2>3, <2>4, <2>5, <2>6, GrowsTwice, ShrinksTwice
    <2>. QED BY <2>1, <2>4, <2>6, <2>7, KeepsWrites
  <1>5. ASSUME NEW v \in Vars, NEW t \in Texts, ExecInput(v, t) PROVE Writes
    <2>. DEFINE g == Unref(Heap, vars[v])
                h == New(g, t)
    <2>1. Available(g) /\ Commit(h)
      BY <1>5 DEF ExecInput
    <2>2. g \in Heaps
      BY <1>0, UnrefCounts DEF Inv, Shape
    <2>3. h \in Heaps /\ Grows(h, h) /\ Shrinks(h, h)
      <3>. HIDE DEF g
      <3>. QED BY <2>1, <2>2, NewCounts, SameGrows
    <2>. QED BY <2>1, <2>3, ReplaceWrites
  <1>6. ASSUME NEW v \in Vars, NEW t \in Texts, ExecGet(v, t) PROVE Writes
    <2>. DEFINE g == Unref(Heap, vars[v])
                e == NextFree(g)
                k == New(g, t)
                h == Ref(k, e)
    <2>1. Available(g) /\ Commit(h)
      BY <1>6 DEF ExecGet
    <2>2. g \in Heaps
      BY <1>0, UnrefCounts DEF Inv, Shape
    <2>3. /\ k \in Heaps /\ e \in Ids
          /\ \A s \in Ids : k.rc[s] = g.rc[s] + Is(e, s)
      <3>. HIDE DEF g
      <3>. QED BY <2>1, <2>2, NewCounts, NextIsFree
    <2>4. g.rc[e] = 0 /\ \A s \in Ids : g.rc[s] \in Int
      <3>. HIDE DEF g
      <3>. QED BY <2>1, <2>2, NextIsFree DEF Heaps
    <2>5. /\ h \in Heaps /\ Grows(k, h) /\ h.text = k.text
          /\ \A s \in Ids : h.rc[s] = k.rc[s] + Is(e, s)
      <3>. HIDE DEF g, e, k
      <3>. QED BY <2>3, RefCounts, GrowsRef
    <2>6. Shrinks(k, h)
      <3>1. ASSUME NEW s \in Ids, h.rc[s] > 0 PROVE k.rc[s] > 0
        <4>1. CASE s = e
          <5>. HIDE DEF g, e, k, h
          <5>. QED BY <2>3, <2>4, <4>1 DEF Is
        <4>2. CASE s # e
          <5>. HIDE DEF g, e, k, h
          <5>. QED BY <2>3, <2>4, <2>5, <3>1, <4>2 DEF Is
        <4>. QED BY <4>1, <4>2
      <3>. HIDE DEF k, h
      <3>. QED BY <2>5, <3>1 DEF Shrinks
    <2>. QED BY <2>1, <2>5, <2>6, ReplaceWrites
  <1>7. ASSUME UNCHANGED text PROVE Writes
    BY <1>7 DEF Writes
  <1>8. ASSUME NEW S \in SUBSET Vars, ScopeFree(S) PROVE Writes
    <2>1. ASSUME NEW s \in Ids, rc'[s] > 0 PROVE text'[s] = text[s]
      BY <2>1, <1>8 DEF ScopeFree
    <2>. QED BY <2>1 DEF Writes
  <1>. QED BY <1>2, <1>3, <1>4, <1>5, <1>6, <1>7, <1>8, LsetWrites
         DEF ExecStatement, ExecSwap, ExecLetRecord

(* A string that something still holds is overwritten by a statement only   *)
(* when one variable alone holds it (fbstr_cow, exec_lset): no assignment   *)
(* shows through another variable, a literal or a pending value.            *)
THEOREM WriterAlwaysSole == Spec => SoleWriter
  <1>1. Inv /\ [Next]_strVars
          => [\A s \in Ids : rc[s] > 0 /\ rc'[s] > 0 /\ text'[s] # text[s] =>
                 \E v \in Vars : Holders(s) = {<<"variable", v>>}]_strVars
    <2>. SUFFICES ASSUME Inv, Next
                  PROVE  \A s \in Ids : rc[s] > 0 /\ rc'[s] > 0 /\ text'[s] # text[s] =>
                             \E v \in Vars : Holders(s) = {<<"variable", v>>}
      OBVIOUS
    <2>1. Writes
      <3>1. CASE EvalExpr
        BY <3>1, EvalWrites
      <3>2. CASE ExecStatement
        BY <3>2, StatementWrites
      <3>3. CASE Trap
        BY <3>3 DEF Trap, Writes
      <3>. QED BY <3>1, <3>2, <3>3 DEF Next
    <2>. QED BY <2>1 DEF Writes, Sole
  <1>. QED BY <1>1, InitInv, NextInv, PTL DEF Spec, SoleWriter
================================================================================
