---------------------------- MODULE PrintUsingProofs ----------------------------
(***************************************************************************)
(* Proofs about PrintUsing: its types, that the scan finds the longest     *)
(* field, that columns are kept, and that the statement shows what the     *)
(* format promises.                                                        *)
(***************************************************************************)
EXTENDS PrintUsing, WellFoundedInduction, FiniteSetTheorems, SequenceTheorems, TLAPS

--------------------------------------------------------------------------------
(* Induction over the numbers, stated with sets: P holds of every number if *)
(* the set of those it holds of has 0 and with each number the next one.    *)

(* A set of natural numbers that is not empty has a least element.          *)
LEMMA LeastElement ==
    ASSUME NEW T, T \subseteq Nat, T # {}
    PROVE  \E n \in T : \A m \in T : n <= m
<1> DEFINE Less == {ss \in Nat \X Nat : ss[1] < ss[2]}
<1>1. IsWellFoundedOn(Less, Nat)
  BY NatLessThanWellFounded DEF OpToRel
<1> HIDE DEF Less
<1>2. PICK n \in T : \A m \in T : ~(<<m, n>> \in Less)
  BY <1>1, WFMin
<1>3. ASSUME NEW m \in T PROVE n <= m
  <2>1. <<m, n>> \in Nat \X Nat /\ ~(<<m, n>> \in Less)
    BY <1>2
  <2>2. ~(<<m, n>>[1] < <<m, n>>[2])
    BY <2>1 DEF Less
  <2> QED BY <2>2
<1> QED BY <1>3

(* A set with 0 and with each of its numbers the next one has them all.     *)
LEMMA EveryNumber ==
    ASSUME NEW T, 0 \in T, \A n \in Nat : n \in T => n + 1 \in T
    PROVE  Nat \subseteq T
<1> SUFFICES ASSUME Nat \ T # {} PROVE FALSE
  OBVIOUS
<1>1. PICK n \in Nat \ T : \A m \in Nat \ T : n <= m
  BY LeastElement
<1>2. n # 0 /\ n - 1 \in Nat /\ n - 1 \in T
  BY <1>1
<1>3. (n - 1) + 1 \in T
  BY <1>2
<1> QED BY <1>2, <1>3

(* The same for the numbers up to k.                                        *)
LEMMA UpTo ==
    ASSUME NEW T, NEW k \in Nat, 0 \in T, \A i \in 1..k : i - 1 \in T => i \in T
    PROVE  0..k \subseteq T
<1> DEFINE U == {i \in Nat : i <= k => i \in T}
<1>1. 0 \in U
  OBVIOUS
<1>2. ASSUME NEW n \in Nat, n \in U, n + 1 <= k PROVE n + 1 \in T
  <2>1. n \in T /\ n + 1 \in 1..k /\ (n + 1) - 1 = n
    BY <1>2
  <2> QED BY <2>1
<1>3. \A n \in Nat : n \in U => n + 1 \in U
  BY <1>2
<1> HIDE DEF U
<1>4. Nat \subseteq U
  BY <1>1, <1>3, EveryNumber
<1> QED BY <1>4 DEF U

--------------------------------------------------------------------------------

Text == Seq(Char)

--------------------------------------------------------------------------------
(* The scan of a numeric field.                                             *)

LEMMA AtMeans ==
    ASSUME NEW f \in Text, NEW p \in 1..(Len(f) + 1), NEW s \in Text
    PROVE  At(f, p, s) <=> /\ p + Len(s) - 1 <= Len(f)
                           /\ \A i \in 1..Len(s) : f[p + i - 1] = s[i]
<1> DEFINE q == p + Len(s) - 1
           t == SubSeq(f, p, q)
<1>1. Len(f) \in Nat /\ Len(s) \in Nat /\ p \in Nat \ {0} /\ q \in Int
  BY DEF Text
<1>2. ASSUME q <= Len(f)
      PROVE  t \in Text /\ Len(t) = Len(s) /\ \A i \in 1..Len(s) : t[i] = f[p + i - 1]
  <2>1. \A i \in p..q : f[i] \in Char
    <3>1. \A i \in p..q : i \in 1..Len(f)
      BY <1>1, <1>2
    <3> QED BY <3>1, ElementOfSeq DEF Text
  <2>2. t \in Text /\ Len(t) = (IF p <= q THEN q - p + 1 ELSE 0)
        /\ \A i \in 1..(q - p + 1) : t[i] = f[p + i - 1]
    BY <1>1, <2>1, SubSeqProperties DEF Text
  <2> QED BY <1>1, <2>2
<1>3. ASSUME q <= Len(f)
      PROVE  t = s <=> \A i \in 1..Len(s) : f[p + i - 1] = s[i]
  <2>1. t = s => \A i \in 1..Len(s) : f[p + i - 1] = s[i]
    BY <1>2, <1>3
  <2>2. ASSUME \A i \in 1..Len(s) : f[p + i - 1] = s[i] PROVE t = s
    <3>1. \A i \in 1..Len(t) : t[i] = s[i]
      BY <1>2, <1>3, <2>2
    <3> HIDE DEF t
    <3> QED BY <1>2, <1>3, <3>1, SeqEqual DEF Text
  <2> QED BY <2>1, <2>2
<1> QED BY <1>3 DEF At

LEMMA MinFacts ==
    ASSUME NEW S, S \subseteq Nat, S # {}
    PROVE  Min(S) \in S /\ \A j \in S : Min(S) <= j
<1>1. PICK i \in S : \A j \in S : i <= j
  BY LeastElement
<1>2. \E x \in S : \A y \in S : x =< y
  BY <1>1
<1> QED BY <1>2, Zenon DEF Min

LEMMA SkipFacts ==
    ASSUME NEW f \in Text, NEW p \in 1..(Len(f) + 1), NEW c
    PROVE  /\ Skip(f, p, c) \in p..(Len(f) + 1)
           /\ Only(f, p, Skip(f, p, c) - 1, c)
           /\ Skip(f, p, c) <= Len(f) => f[Skip(f, p, c)] # c
<1> DEFINE S == {q \in p..(Len(f) + 1) : q = Len(f) + 1 \/ f[q] # c}
           m == Min(S)
<1>1. Len(f) \in Nat /\ p \in Nat \ {0}
  BY DEF Text
<1>2. S \subseteq Nat /\ Len(f) + 1 \in S
  BY <1>1
<1>3. Skip(f, p, c) = m
  BY DEF Skip
<1>4. m \in S /\ \A j \in S : m <= j
  BY <1>2, MinFacts
<1> HIDE DEF m
<1>5. ASSUME NEW k \in p..(m - 1) PROVE f[k] = c
  BY <1>1, <1>4
<1> QED BY <1>1, <1>3, <1>4, <1>5 DEF Only

(* The fixed parts as sequences.                                            *)
LEMMA Distinct ==
    /\ Comma \notin {"#", ".", "^", "+", "-", "$", "*", "9", "%"}
    /\ Space \notin {"#", ".", "^", "+", "-", "$", "*", "9", "%", "E"}
  BY Zenon DEF Comma, Space

LEMMA Characters ==
    /\ "+" \in Char /\ "-" \in Char /\ "$" \in Char /\ "*" \in Char /\ "#" \in Char /\ Comma \in Char
    /\ "." \in Char /\ "^" \in Char /\ Space \in Char /\ "%" \in Char /\ "9" \in Char
    /\ "E" \in Char /\ "newline" \in Char /\ "0" \in Char
  BY FormatsOK

LEMMA Fixed ==
    /\ <<"+">> \in Text /\ Len(<<"+">>) = 1 /\ <<"-">> \in Text /\ Len(<<"-">>) = 1
    /\ <<".">> \in Text /\ Len(<<".">>) = 1
    /\ <<"$", "$">> \in Text /\ Len(<<"$", "$">>) = 2
    /\ <<"*", "*">> \in Text /\ Len(<<"*", "*">>) = 2
    /\ <<"*", "*", "$">> \in Text /\ Len(<<"*", "*", "$">>) = 3
    /\ Carets \in Text /\ Len(Carets) = 4
<1>1. <<"+">> \in Text /\ <<"-">> \in Text /\ <<".">> \in Text
  BY Characters DEF Text
<1>2. <<"$", "$">> \in Text
  BY Characters DEF Text
<1>3. <<"*", "*">> \in Text
  BY Characters DEF Text
<1>4. <<"*", "*", "$">> \in Text
  BY Characters DEF Text
<1>5. Carets \in Text /\ Len(Carets) = 4
  BY Characters DEF Text, Carets
<1> QED BY <1>1, <1>2, <1>3, <1>4, <1>5

LEMMA PastFacts ==
    ASSUME NEW f \in Text, NEW p \in 1..(Len(f) + 1), NEW s \in Text
    PROVE  /\ Past(f, p, s) \in p..(Len(f) + 1)
           /\ At(f, p, s) => Past(f, p, s) = p + Len(s)
           /\ ~At(f, p, s) => Past(f, p, s) = p
<1>1. Len(f) \in Nat /\ Len(s) \in Nat /\ p \in Nat \ {0}
  BY DEF Text
<1> QED BY <1>1, AtMeans DEF Past

(* Where the parts of a numeric field at p end.                             *)
Stars(f, p) == IF At(f, p, <<"*", "*", "$">>) THEN p + 3 ELSE Past(f, p, <<"*", "*">>)
Point(f, p) == IF At(f, p, <<".">>) THEN Skip(f, p + 1, "#") ELSE p
Sign(f, p)  == IF At(f, p, <<"+">>) THEN p + 1 ELSE Past(f, p, <<"-">>)

EndsAt(f, p, e) ==
    /\ e \in [0..9 -> p..(Len(f) + 1)]
    /\ e[0] = p
    /\ e[1] = Past(f, e[0], <<"+">>) /\ e[2] = Past(f, e[1], <<"$", "$">>)
    /\ e[3] = Stars(f, e[2]) /\ e[4] = Skip(f, e[3], "#") /\ e[5] = Skip(f, e[4], Comma)
    /\ e[6] = Skip(f, e[5], "#") /\ e[7] = Point(f, e[6]) /\ e[8] = Past(f, e[7], Carets)
    /\ e[9] = Sign(f, e[8])
    /\ \A k \in 1..9 : e[k - 1] <= e[k]

Scanned(f, e) ==
    LET digits == (e[4] - e[3]) + (e[6] - e[5])
    IN  [length   |-> IF digits = 0 /\ e[3] = e[0] THEN 0 ELSE e[9] - e[0],
         before   |-> digits,
         after    |-> IF e[7] > e[6] THEN e[7] - e[6] - 1 ELSE 0,
         plus     |-> e[1] > e[0],
         dollar   |-> e[2] > e[1] \/ e[3] - e[2] = 3,
         star     |-> e[3] > e[2],
         comma    |-> e[5] > e[4],
         dot      |-> e[7] > e[6],
         exponent |-> e[8] > e[7],
         plusEnd  |-> e[9] > e[8] /\ f[e[8]] = "+",
         minusEnd |-> e[9] > e[8] /\ f[e[8]] = "-"]

PartAt(f, k, p) ==
    IF k = 1 THEN Past(f, p, <<"+">>) ELSE IF k = 2 THEN Past(f, p, <<"$", "$">>)
    ELSE IF k = 3 THEN Stars(f, p) ELSE IF k = 4 THEN Skip(f, p, "#")
    ELSE IF k = 5 THEN Skip(f, p, Comma) ELSE IF k = 6 THEN Skip(f, p, "#")
    ELSE IF k = 7 THEN Point(f, p) ELSE IF k = 8 THEN Past(f, p, Carets) ELSE Sign(f, p)

LEMMA PartStays ==
    ASSUME NEW f \in Text, NEW p \in 1..(Len(f) + 1), NEW k \in 1..9
    PROVE  /\ PartAt(f, k, p) \in p..(Len(f) + 1)
           /\ Part(f)[k][p] = PartAt(f, k, p)
<1>1. Len(f) \in Nat /\ p \in Nat \ {0}
  BY DEF Text
<1>2. Past(f, p, <<"+">>) \in p..(Len(f) + 1) /\ Past(f, p, <<"-">>) \in p..(Len(f) + 1)
      /\ Past(f, p, <<"$", "$">>) \in p..(Len(f) + 1) /\ Past(f, p, <<"*", "*">>) \in p..(Len(f) + 1)
      /\ Past(f, p, Carets) \in p..(Len(f) + 1)
  BY Fixed, PastFacts
<1>3. Skip(f, p, "#") \in p..(Len(f) + 1) /\ Skip(f, p, Comma) \in p..(Len(f) + 1)
  BY SkipFacts
<1>4. Stars(f, p) \in p..(Len(f) + 1)
  <2>1. At(f, p, <<"*", "*", "$">>) => p + 3 - 1 <= Len(f)
    BY Fixed, AtMeans, SMTT(30)
  <2> QED BY <1>1, <1>2, <2>1 DEF Stars
<1>5. Point(f, p) \in p..(Len(f) + 1)
  <2>1. CASE At(f, p, <<".">>)
    <3>1. p + 1 \in 1..(Len(f) + 1)
      BY <1>1, <2>1, Fixed, AtMeans
    <3>2. Skip(f, p + 1, "#") \in (p + 1)..(Len(f) + 1)
      BY <3>1, SkipFacts
    <3> QED BY <1>1, <2>1, <3>2 DEF Point
  <2>2. CASE ~At(f, p, <<".">>)
    BY <1>1, <2>2 DEF Point
  <2> QED BY <2>1, <2>2
<1>6. Sign(f, p) \in p..(Len(f) + 1)
  <2>1. At(f, p, <<"+">>) => p + 1 \in p..(Len(f) + 1)
    BY <1>1, Fixed, AtMeans
  <2> QED BY <1>2, <2>1 DEF Sign
<1>7. PartAt(f, k, p) \in p..(Len(f) + 1)
  BY <1>2, <1>3, <1>4, <1>5, <1>6 DEF PartAt
<1>8. Part(f)[k][p] = PartAt(f, k, p)
  <2>1. CASE k = 1
    BY <2>1 DEF Part, PartAt
  <2>2. CASE k = 2
    BY <2>2 DEF Part, PartAt
  <2>3. CASE k = 3
    BY <2>3 DEF Part, PartAt, Stars
  <2>4. CASE k = 4
    BY <2>4 DEF Part, PartAt
  <2>5. CASE k = 5
    BY <2>5 DEF Part, PartAt
  <2>6. CASE k = 6
    BY <2>6 DEF Part, PartAt
  <2>7. CASE k = 7
    BY <2>7 DEF Part, PartAt, Point
  <2>8. CASE k = 8
    BY <2>8 DEF Part, PartAt
  <2>9. CASE k = 9
    BY <2>9 DEF Part, PartAt, Sign
  <2> QED BY <2>1, <2>2, <2>3, <2>4, <2>5, <2>6, <2>7, <2>8, <2>9
<1> QED BY <1>7, <1>8

(* The recursive function of the scan gives the ends of the parts.          *)
LEMMA ScanEnds ==
    ASSUME NEW f \in Text, NEW p \in 1..(Len(f) + 1)
    PROVE  \E e : EndsAt(f, p, e) /\ ScanNumeric(f, p) = Scanned(f, e)
<1> DEFINE Step(q, k) == Part(f)[k][q]
           UpTo1(g, n) == g = [k \in 0..n |-> IF k = 0 THEN p ELSE Step(g[k - 1], k)]
           T == {n \in Nat : \E g : UpTo1(g, n)}
           e == CHOOSE g : UpTo1(g, 9)
<1>0. Len(f) \in Nat /\ p \in Nat \ {0}
  BY DEF Text
<1>1. ScanNumeric(f, p) =
         [length   |-> IF (e[4] - e[3]) + (e[6] - e[5]) = 0 /\ e[3] = p THEN 0 ELSE e[9] - p,
          before   |-> (e[4] - e[3]) + (e[6] - e[5]),
          after    |-> IF e[7] > e[6] THEN e[7] - e[6] - 1 ELSE 0,
          plus     |-> e[1] > p,
          dollar   |-> e[2] > e[1] \/ e[3] - e[2] = 3,
          star     |-> e[3] > e[2],
          comma    |-> e[5] > e[4],
          dot      |-> e[7] > e[6],
          exponent |-> e[8] > e[7],
          plusEnd  |-> e[9] > e[8] /\ f[e[8]] = "+",
          minusEnd |-> e[9] > e[8] /\ f[e[8]] = "-"]
  BY DEF ScanNumeric
<1> HIDE DEF Step
<1>2. 0 \in T
  <2>1. UpTo1([k \in 0..0 |-> p], 0)
    OBVIOUS
  <2> QED BY <2>1
<1>3. ASSUME NEW n \in Nat, n \in T PROVE n + 1 \in T
  <2>1. PICK g : UpTo1(g, n)
    BY <1>3
  <2> DEFINE h == [k \in 0..(n + 1) |-> IF k = n + 1 THEN Step(g[n], k) ELSE g[k]]
  <2>2. UpTo1(h, n + 1)
    BY <2>1
  <2> HIDE DEF h, UpTo1
  <2> QED BY <2>2
<1> HIDE DEF T
<1>4. 9 \in T
  BY <1>2, <1>3, EveryNumber
<1>5. UpTo1(e, 9)
  BY <1>4 DEF T
<1> HIDE DEF e
<1>6. e[0] = p /\ e = [k \in 0..9 |-> e[k]]
  BY <1>5
<1>7. ASSUME NEW k \in 1..9 PROVE e[k] = Step(e[k - 1], k)
  BY <1>5
<1> HIDE DEF UpTo1
<1>8. ASSUME NEW k \in 1..9, e[k - 1] \in p..(Len(f) + 1)
      PROVE  e[k] \in e[k - 1]..(Len(f) + 1) /\ e[k] = PartAt(f, k, e[k - 1])
  <2>1. e[k - 1] \in 1..(Len(f) + 1)
    BY <1>0, <1>8
  <2>2. /\ PartAt(f, k, e[k - 1]) \in e[k - 1]..(Len(f) + 1)
        /\ Part(f)[k][e[k - 1]] = PartAt(f, k, e[k - 1])
    BY <2>1, PartStays
  <2> QED BY <1>7, <2>2 DEF Step
<1> DEFINE U == {k \in 0..9 : e[k] \in p..(Len(f) + 1)}
<1>9. 0 \in U
  BY <1>0, <1>6
<1>10. ASSUME NEW k \in 1..9, k - 1 \in U PROVE k \in U
  <2>1. k \in 0..9 /\ e[k - 1] \in p..(Len(f) + 1)
    BY <1>10
  <2>2. e[k] \in e[k - 1]..(Len(f) + 1)
    BY <1>8, <2>1
  <2> QED BY <1>0, <2>1, <2>2
<1> HIDE DEF U
<1>11. 0..9 \subseteq U
  BY <1>9, <1>10, UpTo
<1>12. \A k \in 0..9 : e[k] \in p..(Len(f) + 1)
  BY <1>11 DEF U
<1>13. ASSUME NEW k \in 1..9
       PROVE  e[k - 1] <= e[k] /\ e[k] = PartAt(f, k, e[k - 1])
  <2>1. k - 1 \in 0..9
    OBVIOUS
  <2>2. e[k - 1] \in p..(Len(f) + 1)
    BY <1>12, <2>1
  <2>3. e[k] \in e[k - 1]..(Len(f) + 1) /\ e[k] = PartAt(f, k, e[k - 1])
    BY <1>8, <2>2
  <2> QED BY <1>0, <2>2, <2>3
<1>14. e \in [0..9 -> p..(Len(f) + 1)]
  BY <1>6, <1>12
<1>15. \A k \in 1..9 : e[k - 1] <= e[k]
  BY <1>13
<1>16. EndsAt(f, p, e)
  <2>1. e[1] = Past(f, e[0], <<"+">>) /\ e[2] = Past(f, e[1], <<"$", "$">>) /\ e[3] = Stars(f, e[2])
    BY <1>13 DEF PartAt
  <2>2. e[4] = Skip(f, e[3], "#") /\ e[5] = Skip(f, e[4], Comma) /\ e[6] = Skip(f, e[5], "#")
    BY <1>13 DEF PartAt
  <2>3. e[7] = Point(f, e[6]) /\ e[8] = Past(f, e[7], Carets) /\ e[9] = Sign(f, e[8])
    BY <1>13 DEF PartAt
  <2> QED BY <1>6, <1>14, <1>15, <2>1, <2>2, <2>3 DEF EndsAt
<1>17. ScanNumeric(f, p) = Scanned(f, e)
  BY <1>1, <1>6 DEF Scanned
<1> QED BY <1>16, <1>17

Scan == [length : Nat, before : Nat, after : Nat, plus : BOOLEAN, dollar : BOOLEAN,
         star : BOOLEAN, comma : BOOLEAN, dot : BOOLEAN, exponent : BOOLEAN,
         plusEnd : BOOLEAN, minusEnd : BOOLEAN]

LEMMA EndFacts ==
    ASSUME NEW f \in Text, NEW p \in 1..(Len(f) + 1), NEW e, EndsAt(f, p, e)
    PROVE  /\ Len(f) \in Nat /\ p \in Nat \ {0} /\ \A k \in 0..9 : e[k] \in Nat
           /\ e[0] = p /\ e[0] <= e[1] /\ e[1] <= e[2] /\ e[2] <= e[3] /\ e[3] <= e[4]
           /\ e[4] <= e[5] /\ e[5] <= e[6] /\ e[6] <= e[7] /\ e[7] <= e[8] /\ e[8] <= e[9]
           /\ e[9] <= Len(f) + 1
<1>1. Len(f) \in Nat /\ p \in Nat \ {0}
  BY DEF Text
<1>2. \A k \in 0..9 : e[k] \in p..(Len(f) + 1)
  BY DEF EndsAt
<1>3. \A k \in 1..9 : e[k - 1] <= e[k]
  BY DEF EndsAt
<1>4. e[0] <= e[1] /\ e[1] <= e[2] /\ e[2] <= e[3] /\ e[3] <= e[4] /\ e[4] <= e[5]
      /\ e[5] <= e[6] /\ e[6] <= e[7] /\ e[7] <= e[8] /\ e[8] <= e[9]
  BY <1>3
<1>5. e[0] = p
  BY DEF EndsAt
<1>6. \A k \in 0..9 : e[k] \in Nat
  <2>1. p..(Len(f) + 1) \subseteq Nat
    BY <1>1
  <2> QED BY <1>2, <2>1
<1>7. e[9] <= Len(f) + 1
  <2>1. e[9] \in p..(Len(f) + 1)
    BY <1>2
  <2> QED BY <2>1
<1> QED BY <1>1, <1>4, <1>5, <1>6, <1>7

LEMMA ScanTyped ==
    ASSUME NEW f \in Text, NEW p \in 1..Len(f)
    PROVE  ScanNumeric(f, p) \in Scan /\ ScanNumeric(f, p).length \in 0..(Len(f) + 1 - p)
<1>1. p \in 1..(Len(f) + 1)
  BY DEF Text
<1>2. PICK e : EndsAt(f, p, e) /\ ScanNumeric(f, p) = Scanned(f, e)
  BY <1>1, ScanEnds
<1>3. /\ Len(f) \in Nat /\ p \in Nat \ {0} /\ \A k \in 0..9 : e[k] \in Nat
      /\ e[0] = p /\ e[0] <= e[1] /\ e[1] <= e[2] /\ e[2] <= e[3] /\ e[3] <= e[4]
      /\ e[4] <= e[5] /\ e[5] <= e[6] /\ e[6] <= e[7] /\ e[7] <= e[8] /\ e[8] <= e[9]
      /\ e[9] <= Len(f) + 1
  BY <1>1, <1>2, EndFacts
<1> DEFINE x0 == e[0]  x1 == e[1]  x2 == e[2]  x3 == e[3]  x4 == e[4]
           x5 == e[5]  x6 == e[6]  x7 == e[7]  x8 == e[8]  x9 == e[9]
           digits == (x4 - x3) + (x6 - x5)
           length == IF digits = 0 /\ x3 = x0 THEN 0 ELSE x9 - x0
           after  == IF x7 > x6 THEN x7 - x6 - 1 ELSE 0
           plusEnd  == x9 > x8 /\ f[x8] = "+"
           minusEnd == x9 > x8 /\ f[x8] = "-"
<1>4. Scanned(f, e) =
         [length |-> length, before |-> digits, after |-> after, plus |-> x1 > x0,
          dollar |-> x2 > x1 \/ x3 - x2 = 3, star |-> x3 > x2,
          comma |-> x5 > x4, dot |-> x7 > x6, exponent |-> x8 > x7,
          plusEnd |-> plusEnd, minusEnd |-> minusEnd]
  BY DEF Scanned
<1>5. x0 \in Nat /\ x3 \in Nat /\ x4 \in Nat /\ x5 \in Nat /\ x6 \in Nat /\ x7 \in Nat /\ x9 \in Nat
  BY <1>3
<1>6. x3 <= x4 /\ x4 <= x5 /\ x5 <= x6 /\ x6 <= x7
  BY <1>3
<1>7. x0 = p /\ x0 <= x9 /\ x9 <= Len(f) + 1 /\ Len(f) \in Nat
  <2>1. x1 \in Nat /\ x2 \in Nat /\ x8 \in Nat /\ x0 <= x1 /\ x1 <= x2 /\ x2 <= x3 /\ x7 <= x8 /\ x8 <= x9
    BY <1>3
  <2>2. x0 = p /\ x9 <= Len(f) + 1 /\ Len(f) \in Nat
    BY <1>3
  <2> HIDE DEF x0, x1, x2, x3, x4, x5, x6, x7, x8, x9
  <2> QED BY <1>5, <1>6, <2>1, <2>2
<1>8. plusEnd \in BOOLEAN /\ minusEnd \in BOOLEAN
  BY Zenon
<1> HIDE DEF x0, x1, x2, x3, x4, x5, x6, x7, x8, x9
<1>9. digits \in Nat /\ length \in 0..(Len(f) + 1 - p) /\ after \in Nat
  <2>1. digits \in Nat
    BY <1>5, <1>6
  <2>2. x9 - x0 \in 0..(Len(f) + 1 - p) /\ 0 \in 0..(Len(f) + 1 - p)
    BY <1>5, <1>7
  <2>3. after \in Nat
    BY <1>5, <1>6
  <2> QED BY <2>1, <2>2, <2>3
<1> HIDE DEF digits, length, after, plusEnd, minusEnd
<1>10. Scanned(f, e) \in Scan
  BY <1>4, <1>8, <1>9 DEF Scan
<1>11. Scanned(f, e).length = length
  BY <1>4
<1> QED BY <1>2, <1>9, <1>10, <1>11

LEMMA StringStays ==
    ASSUME NEW f \in Text, NEW p \in 1..Len(f)
    PROVE  /\ ScanString(f, p).length \in 0..(Len(f) + 1 - p)
           /\ ScanString(f, p).width \in Nat \cup {-1}
<1> DEFINE close == {q \in (p + 1)..Len(f) : f[q] = "\\"}
<1>1. Len(f) \in Nat /\ p \in Nat \ {0} /\ close \subseteq Nat
  BY DEF Text
<1>2. close # {} => Min(close) \in (p + 1)..Len(f)
  BY <1>1, MinFacts
<1> HIDE DEF close
<1>3. \/ ScanString(f, p) = [length |-> 1, width |-> 1]
      \/ ScanString(f, p) = [length |-> 1, width |-> -1]
      \/ close # {} /\ ScanString(f, p) =
            [length |-> Min(close) - p + 1, width |-> Min(close) - p + 1]
      \/ ScanString(f, p) = [length |-> 0, width |-> 0]
  BY DEF ScanString, close
<1> QED BY <1>1, <1>2, <1>3

--------------------------------------------------------------------------------
(* What a value is shown as.                                                *)

LEMMA TimesFacts ==
    ASSUME NEW n \in Int, NEW c \in Char
    PROVE  /\ Times(n, c) \in Text
           /\ Len(Times(n, c)) = (IF n > 0 THEN n ELSE 0)
           /\ \A i \in 1..Len(Times(n, c)) : Times(n, c)[i] = c
<1> DEFINE m == IF n > 0 THEN n ELSE 0
<1>1. Max({0, n}) = m
  <2>1. \A x, y \in {0, n} : (\A z \in {0, n} : x >= z) /\ (\A z \in {0, n} : y >= z) => x = y
    OBVIOUS
  <2>2. m \in {0, n} /\ \A z \in {0, n} : m >= z
    OBVIOUS
  <2> HIDE DEF m
  <2>3. Max({0, n}) \in {0, n} /\ \A z \in {0, n} : Max({0, n}) >= z
    BY <2>2, Zenon DEF Max
  <2> QED BY <2>1, <2>2, <2>3
<1>2. Times(n, c) = [i \in 1..m |-> c]
  BY <1>1 DEF Times
<1>3. m \in Nat
  OBVIOUS
<1> HIDE DEF m
<1>4. [i \in 1..m |-> c] \in Seq(Char) /\ Len([i \in 1..m |-> c]) = m
  BY <1>3
<1> QED BY <1>2, <1>4 DEF Text, m

LEMMA SameCount ==
    ASSUME NEW S, IsFiniteSet(S), NEW T, NEW f \in [S -> T],
           \A a, b \in S : f[a] = f[b] => a = b, \A t \in T : \E a \in S : f[a] = t
    PROVE  IsFiniteSet(T) /\ Cardinality(T) = Cardinality(S)
<1>1. f \in Bijection(S, T)
  BY DEF Bijection, Injection, Surjection, IsInjective
<1>2. ExistsBijection(S, T)
  BY <1>1 DEF ExistsBijection
<1> QED BY <1>2, FS_Bijection

LEMMA UpToCount ==
    ASSUME NEW n \in Nat
    PROVE  IsFiniteSet(1..n) /\ Cardinality(1..n) = n
<1>1. 1 \in Int /\ n \in Int
  OBVIOUS
<1>2. IsFiniteSet(1..n) /\ Cardinality(1..n) = IF 1 > n THEN 0 ELSE n - 1 + 1
  BY <1>1, FS_Interval
<1> QED BY <1>2

LEMMA NinesFacts ==
    ASSUME NEW t \in Text
    PROVE  /\ Nines(t) \in Nat
           /\ (\A i \in 1..Len(t) : t[i] = "9") => Nines(t) = Len(t)
           /\ (\A i \in 1..Len(t) : t[i] # "9") => Nines(t) = 0
<1> DEFINE A == {i \in 1..Len(t) : t[i] = "9"}
<1>1. Len(t) \in Nat
  BY DEF Text
<1>2. IsFiniteSet(1..Len(t)) /\ Cardinality(1..Len(t)) = Len(t)
  BY <1>1, UpToCount
<1>3. A \in SUBSET (1..Len(t))
  OBVIOUS
<1>4. IsFiniteSet(A) /\ Cardinality(A) \in Nat
  BY <1>2, <1>3, FS_Subset, FS_CardinalityType
<1>5. (\A i \in 1..Len(t) : t[i] = "9") => A = 1..Len(t)
  OBVIOUS
<1>6. (\A i \in 1..Len(t) : t[i] # "9") => A = {}
  OBVIOUS
<1> QED BY <1>2, <1>4, <1>5, <1>6, FS_EmptySet DEF Nines

LEMMA NinesAdd ==
    ASSUME NEW t \in Text, NEW u \in Text
    PROVE  t \o u \in Text /\ Len(t \o u) = Len(t) + Len(u) /\ Nines(t \o u) = Nines(t) + Nines(u)
<1> DEFINE A == {i \in 1..Len(t) : t[i] = "9"}
           B == {i \in 1..Len(u) : u[i] = "9"}
           w == t \o u
           C == {i \in (Len(t) + 1)..Len(w) : w[i] = "9"}
           W == {i \in 1..Len(w) : w[i] = "9"}
           g == [i \in B |-> i + Len(t)]
<1>1. Len(t) \in Nat /\ Len(u) \in Nat
  BY DEF Text
<1>2. w \in Text /\ Len(w) = Len(t) + Len(u)
      /\ \A i \in 1..(Len(t) + Len(u)) : w[i] = IF i <= Len(t) THEN t[i] ELSE u[i - Len(t)]
  BY ConcatProperties DEF Text
<1> HIDE DEF w
<1>3. IsFiniteSet(A) /\ IsFiniteSet(B)
  <2>1. A \in SUBSET (1..Len(t)) /\ B \in SUBSET (1..Len(u))
    OBVIOUS
  <2>2. IsFiniteSet(1..Len(t)) /\ IsFiniteSet(1..Len(u))
    BY <1>1, UpToCount
  <2> QED BY <2>1, <2>2, FS_Subset
<1>4. \A i \in 1..Len(t) : i \in 1..Len(w) /\ w[i] = t[i]
  BY <1>1, <1>2
<1>5. \A i \in 1..Len(u) : i + Len(t) \in (Len(t) + 1)..Len(w) /\ w[i + Len(t)] = u[i]
  BY <1>1, <1>2
<1>6. ASSUME NEW i \in (Len(t) + 1)..Len(w) PROVE i - Len(t) \in 1..Len(u) /\ w[i] = u[i - Len(t)]
  BY <1>1, <1>2
<1>7. W = A \cup C /\ A \cap C = {}
  <2>1. \A i \in 1..Len(w) : i \in 1..Len(t) \/ i \in (Len(t) + 1)..Len(w)
    BY <1>1, <1>2
  <2>2. W \subseteq A \cup C
    BY <1>4, <2>1
  <2>3. A \subseteq W
    BY <1>4
  <2>4. C \subseteq W
    BY <1>1, <1>2
  <2>5. A \cap C = {}
    BY <1>1
  <2> QED BY <2>2, <2>3, <2>4, <2>5
<1>8. g \in [B -> C]
  BY <1>5
<1>9. \A a, b \in B : g[a] = g[b] => a = b
  BY <1>1
<1>10. ASSUME NEW c \in C PROVE \E a \in B : g[a] = c
  <2>1. c - Len(t) \in B /\ (c - Len(t)) + Len(t) = c
    BY <1>1, <1>2, <1>6
  <2>2. g[c - Len(t)] = c
    BY <2>1
  <2> QED BY <2>1, <2>2
<1> HIDE DEF g
<1>11. IsFiniteSet(C) /\ Cardinality(C) = Cardinality(B)
  BY <1>3, <1>8, <1>9, <1>10, SameCount
<1>12. Cardinality(W) = Cardinality(A) + Cardinality(C) - Cardinality({})
  <2> HIDE DEF A, B, C, W
  <2>1. Cardinality(A \cup C) = Cardinality(A) + Cardinality(C) - Cardinality(A \cap C)
    BY <1>3, <1>11, FS_Union
  <2> QED BY <1>7, <2>1
<1>13. Cardinality(A) \in Nat /\ Cardinality(B) \in Nat /\ Cardinality({}) = 0
  BY <1>3, FS_CardinalityType, FS_EmptySet
<1>14. Nines(w) = Nines(t) + Nines(u)
  <2>1. Nines(w) = Cardinality(W) /\ Nines(t) = Cardinality(A) /\ Nines(u) = Cardinality(B)
    BY DEF Nines
  <2> QED BY <1>11, <1>12, <1>13, <2>1
<1> QED BY <1>2, <1>14 DEF w

NoPercent(t) == \A i \in 1..Len(t) : t[i] # "%"

(* Every fourth character from the right is a comma.                        *)
LEMMA GroupedFacts ==
    ASSUME NEW n \in Nat \ {0}, NEW commas \in BOOLEAN
    PROVE  /\ Grouped(n, commas) \in Text
           /\ Nines(Grouped(n, commas)) = n
           /\ NoPercent(Grouped(n, commas))
           /\ Len(Grouped(n, commas)) \in Nat \ {0}
           /\ ~commas => Len(Grouped(n, commas)) = n
<1> DEFINE l == n + (IF commas THEN (n - 1) \div 3 ELSE 0)
           t == Grouped(n, commas)
           N == {i \in 1..Len(t) : t[i] = "9"}
<1>1. l \in Nat /\ l >= n
  OBVIOUS
<1>2. t = [i \in 1..l |-> IF commas /\ (l - i + 1) % 4 = 0 THEN Comma ELSE "9"]
  BY DEF Grouped
<1>3. \A i \in 1..l : (IF commas /\ (l - i + 1) % 4 = 0 THEN Comma ELSE "9") \in Char
  BY Characters
<1> HIDE DEF t
<1>4. t \in Text
  <2> HIDE DEF l
  <2> QED BY <1>1, <1>2, <1>3 DEF Text
<1>5. Len(t) = l
  <2> HIDE DEF l
  <2> QED BY <1>1, <1>2
<1>6. ~commas => Nines(t) = n /\ Len(t) = n
  BY <1>2, <1>4, <1>5, NinesFacts
<1>7. ASSUME commas PROVE Nines(t) = n
  <2> DEFINE g == [m \in 1..n |-> l + 1 - (m + (m - 1) \div 3)]
  <2>1. N = {i \in 1..l : (l - i + 1) % 4 # 0}
    <3>1. \A i \in 1..l : t[i] = "9" <=> (l - i + 1) % 4 # 0
      BY <1>2, <1>7, Distinct
    <3> HIDE DEF l
    <3> QED BY <1>5, <3>1
  <2>2. ASSUME NEW m \in 1..n PROVE g[m] \in 1..l /\ (l - g[m] + 1) % 4 # 0
    <3>1. m + (m - 1) \div 3 \in 1..l
      BY <1>7
    <3>2. (m + (m - 1) \div 3) % 4 # 0
      OBVIOUS
    <3>3. l - g[m] + 1 = m + (m - 1) \div 3
      BY <1>1, <3>1
    <3> HIDE DEF l
    <3> QED BY <1>1, <3>1, <3>2, <3>3
  <2>3. g \in [1..n -> N]
    BY <2>1, <2>2
  <2>4. \A a, b \in 1..n : g[a] = g[b] => a = b
    <3>1. \A a, b \in 1..n : a + (a - 1) \div 3 = b + (b - 1) \div 3 => a = b
      OBVIOUS
    <3> HIDE DEF l
    <3> QED BY <1>1, <3>1
  <2>5. ASSUME NEW i \in N PROVE \E a \in 1..n : g[a] = i
    <3> DEFINE k == l - i + 1
               m == k - k \div 4
    <3>1. i \in 1..l /\ k \in 1..l /\ k % 4 # 0
      BY <2>1, <1>1
    <3>2. m \in 1..n /\ m + (m - 1) \div 3 = k
      <4> HIDE DEF k
      <4> QED BY <1>7, <3>1
    <3>3. g[m] = i
      <4>1. g[m] = l + 1 - k
        BY <3>2
      <4> QED BY <1>1, <3>1, <4>1
    <3> QED BY <3>2, <3>3
  <2> HIDE DEF g, N
  <2>6. IsFiniteSet(1..n) /\ Cardinality(1..n) = n
    BY UpToCount
  <2>7. Cardinality(N) = n
    BY <2>3, <2>4, <2>5, <2>6, SameCount
  <2> QED BY <2>7 DEF Nines, N
<1>8. NoPercent(t)
  <2>1. \A i \in 1..l : t[i] \in {Comma, "9"}
    BY <1>2
  <2> HIDE DEF l
  <2> QED BY <1>5, <2>1, Distinct DEF NoPercent
<1>9. Len(t) \in Nat \ {0}
  BY <1>1, <1>5
<1> QED BY <1>4, <1>6, <1>7, <1>8, <1>9 DEF t

Joined(t, u, w) ==
    /\ w \in Text /\ Len(t) \in Nat /\ Len(u) \in Nat
    /\ Len(w) = Len(t) + Len(u) /\ Nines(w) = Nines(t) + Nines(u)
    /\ Contains(t, "-") \/ Contains(u, "-") => Contains(w, "-")
    /\ NoPercent(t) /\ NoPercent(u) => NoPercent(w)
    /\ Len(t) > 0 => w[1] = t[1]

LEMMA JoinFacts ==
    ASSUME NEW t \in Text, NEW u \in Text
    PROVE  Joined(t, u, t \o u)
<1> DEFINE w == t \o u
<1>1. Len(t) \in Nat /\ Len(u) \in Nat
  BY DEF Text
<1>2. w \in Text /\ Len(w) = Len(t) + Len(u)
      /\ \A i \in 1..(Len(t) + Len(u)) : w[i] = IF i <= Len(t) THEN t[i] ELSE u[i - Len(t)]
  BY ConcatProperties DEF Text
<1>3. Nines(w) = Nines(t) + Nines(u)
  BY NinesAdd
<1> HIDE DEF w
<1>4. \A i \in 1..Len(t) : i \in 1..Len(w) /\ w[i] = t[i]
  BY <1>1, <1>2
<1>5. \A i \in 1..Len(u) : i + Len(t) \in 1..Len(w) /\ w[i + Len(t)] = u[i]
  BY <1>1, <1>2
<1>6. \A c : Contains(t, c) \/ Contains(u, c) => Contains(w, c)
  BY <1>4, <1>5 DEF Contains
<1>7. NoPercent(t) /\ NoPercent(u) => NoPercent(w)
  <2> SUFFICES ASSUME NoPercent(t), NoPercent(u), NEW i \in 1..Len(w) PROVE w[i] # "%"
    BY DEF NoPercent
  <2>1. CASE i <= Len(t)
    BY <1>1, <1>2, <2>1 DEF NoPercent
  <2>2. CASE ~(i <= Len(t))
    <3>1. i - Len(t) \in 1..Len(u) /\ w[i] = u[i - Len(t)]
      BY <1>1, <1>2, <2>2
    <3> QED BY <3>1 DEF NoPercent
  <2> QED BY <2>1, <2>2
<1>8. Len(t) > 0 => w[1] = t[1]
  BY <1>1, <1>2
<1> QED BY <1>1, <1>2, <1>3, <1>6, <1>7, <1>8 DEF w, Joined

LEMMA OneCharacter ==
    ASSUME NEW c \in Char
    PROVE  /\ <<c>> \in Text /\ Len(<<c>>) = 1 /\ <<c>>[1] = c
           /\ Contains(<<c>>, c) /\ (c # "%" => NoPercent(<<c>>))
           /\ Nines(<<c>>) = (IF c = "9" THEN 1 ELSE 0)
<1> DEFINE t == <<c>>
<1>1. t \in Text /\ Len(t) = 1 /\ t[1] = c
  BY DEF Text
<1> HIDE DEF t
<1>2. \A i \in 1..Len(t) : i = 1
  BY <1>1
<1>3. Contains(t, c)
  BY <1>1 DEF Contains
<1>4. c # "%" => NoPercent(t)
  BY <1>1, <1>2 DEF NoPercent
<1>5. Nines(t) = (IF c = "9" THEN 1 ELSE 0)
  BY <1>1, <1>2, NinesFacts
<1> QED BY <1>1, <1>3, <1>4, <1>5 DEF t

LEMMA NoCharacter ==
    <<>> \in Text /\ Len(<<>>) = 0 /\ NoPercent(<<>>) /\ Nines(<<>>) = 0
<1>1. <<>> \in Text /\ Len(<<>>) = 0
  BY DEF Text
<1>2. \A i \in 1..Len(<<>>) : FALSE
  BY <1>1
<1>3. Nines(<<>>) = 0
  BY <1>1, <1>2, NinesFacts
<1> QED BY <1>1, <1>2, <1>3 DEF NoPercent

LEMMA PutFacts ==
    ASSUME NEW b \in BOOLEAN, NEW c \in Char \ {"9"}
    PROVE  /\ Put(b, c) \in Text /\ Len(Put(b, c)) = One(b) /\ Nines(Put(b, c)) = 0
           /\ (b => Put(b, c)[1] = c /\ Contains(Put(b, c), c))
           /\ (~b \/ c # "%" => NoPercent(Put(b, c)))
<1>1. CASE b
  BY <1>1, OneCharacter DEF Put, One
<1>2. CASE ~b
  BY <1>2, NoCharacter DEF Put, One
<1> QED BY <1>1, <1>2

(* What num_str keeps of a number.                                          *)
LEMMA KeptFacts ==
    ASSUME NEW s \in Scan, NEW v \in Value
    PROVE  /\ Whole(v) \in Nat \ {0}
           /\ Decimals(s, v) \in Nat /\ Decimals(s, v) <= s.after
           /\ NumberFits(s, v) => Whole(v) = v.digits /\ Decimals(s, v) = s.after
<1>1. s.after \in Nat /\ v.digits \in Nat \ {0} /\ NumberSize \in Nat \ {0, 1}
  BY FormatsOK DEF Scan, Value
<1>2. Whole(v) \in Nat \ {0}
  BY <1>1 DEF Whole
<1>3. Decimals(s, v) \in Nat /\ Decimals(s, v) <= s.after
  BY <1>1 DEF Decimals
<1>4. NumberFits(s, v) => Whole(v) = v.digits /\ Decimals(s, v) = s.after
  BY <1>1 DEF NumberFits, Whole, Decimals
<1> QED BY <1>2, <1>3, <1>4

(* The text of a number that is not scientific.                             *)
LEMMA NumberText ==
    ASSUME NEW s \in Scan, NEW v \in Value, ~s.exponent
    PROVE  LET t   == FormatNumber(s, v)
               pad == Pad(s, v, Grouped(Whole(v), s.comma))
           IN  /\ t \in Text
               /\ Nines(t) = Whole(v) + (IF s.dot THEN Decimals(s, v) ELSE 0)
               /\ v.neg => Contains(t, "-")
               /\ pad < 0 => t[1] = "%"
               /\ pad >= 0 => NoPercent(t)
               /\ Len(t) = One(pad < 0) + (IF pad > 0 THEN pad ELSE 0) + One(v.neg \/ s.plus)
                           + One(s.dollar) + Len(Grouped(Whole(v), s.comma))
                           + (IF s.dot THEN 1 + s.after ELSE 0) + One(s.plusEnd \/ s.minusEnd)
<1> DEFINE g   == Grouped(Whole(v), s.comma)
           pad == Pad(s, v, g)
           a == Put(pad < 0, "%")
           b == Times(pad, IF s.star THEN "*" ELSE Space)
           c == IF v.neg THEN <<"-">> ELSE Put(s.plus, "+")
           d == Put(s.dollar, "$")
           h == Fraction(s, v)
           W == Whole(v)
           D == Decimals(s, v)
           z == IF s.plusEnd THEN <<IF v.neg THEN "-" ELSE "+">>
                ELSE Put(s.minusEnd, IF v.neg THEN "-" ELSE Space)
<1>1. FormatNumber(s, v) = a \o b \o c \o d \o g \o h \o z
  BY DEF FormatNumber
<1>2. /\ s.before \in Nat /\ s.after \in Nat /\ s.plus \in BOOLEAN /\ s.dollar \in BOOLEAN
      /\ s.star \in BOOLEAN /\ s.comma \in BOOLEAN /\ s.dot \in BOOLEAN
      /\ s.plusEnd \in BOOLEAN /\ s.minusEnd \in BOOLEAN
      /\ v.neg \in BOOLEAN
  BY DEF Scan, Value
<1>4. W \in Nat \ {0} /\ D \in Nat /\ D <= s.after
  BY KeptFacts
<1> HIDE DEF W, D
<1>3. g \in Text /\ Nines(g) = W /\ Len(g) \in Nat /\ NoPercent(g)
  BY <1>2, <1>4, GroupedFacts DEF W
<1> HIDE DEF g
<1>5. pad \in Int
  <2>1. One(s.dollar) \in Int /\ One(s.plus) \in Int /\ One(v.neg \/ s.plus) \in Int
    BY DEF One
  <2> QED BY <1>2, <1>3, <2>1 DEF Pad
<1> HIDE DEF pad
<1>6. a \in Text /\ Len(a) = One(pad < 0) /\ Nines(a) = 0 /\ (pad < 0 => a[1] = "%" /\ Len(a) > 0)
      /\ (pad >= 0 => NoPercent(a))
  <2>1. "%" \in Char \ {"9"} /\ (pad < 0) \in BOOLEAN
    BY Characters
  <2>2. /\ Put(pad < 0, "%") \in Text /\ Len(Put(pad < 0, "%")) = One(pad < 0)
        /\ Nines(Put(pad < 0, "%")) = 0
        /\ (pad < 0 => Put(pad < 0, "%")[1] = "%")
        /\ (~(pad < 0) => NoPercent(Put(pad < 0, "%")))
    BY <2>1, PutFacts
  <2>3. pad < 0 => One(pad < 0) = 1
    BY DEF One
  <2> QED BY <1>5, <2>2, <2>3
<1>7. b \in Text /\ Len(b) = (IF pad > 0 THEN pad ELSE 0) /\ Nines(b) = 0 /\ NoPercent(b)
  <2> DEFINE x == IF s.star THEN "*" ELSE Space
  <2>1. x \in Char /\ x # "9" /\ x # "%"
    BY Characters, Distinct
  <2> HIDE DEF x
  <2>2. b \in Text /\ Len(b) = (IF pad > 0 THEN pad ELSE 0) /\ \A i \in 1..Len(b) : b[i] = x
    BY <1>5, <2>1, TimesFacts DEF x
  <2> HIDE DEF b
  <2> QED BY <2>1, <2>2, NinesFacts DEF NoPercent
<1>8. c \in Text /\ Len(c) = One(v.neg \/ s.plus) /\ Nines(c) = 0 /\ NoPercent(c)
      /\ (v.neg => Contains(c, "-"))
  <2>1. CASE v.neg
    BY <2>1, OneCharacter, Characters DEF One
  <2>2. CASE ~v.neg
    <3>1. "+" \in Char \ {"9"}
      BY Characters
    <3>2. Put(s.plus, "+") \in Text /\ Len(Put(s.plus, "+")) = One(s.plus) /\ Nines(Put(s.plus, "+")) = 0
          /\ NoPercent(Put(s.plus, "+"))
      BY <1>2, <3>1, PutFacts
    <3>3. One(v.neg \/ s.plus) = One(s.plus)
      BY <2>2 DEF One
    <3> QED BY <2>2, <3>2, <3>3
  <2> QED BY <1>2, <2>1, <2>2
<1>9. d \in Text /\ Len(d) = One(s.dollar) /\ Nines(d) = 0 /\ NoPercent(d)
  <2>1. "$" \in Char \ {"9"}
    BY Characters
  <2> QED BY <1>2, <2>1, PutFacts
<1>10. h \in Text /\ Len(h) = (IF s.dot THEN 1 + s.after ELSE 0)
       /\ Nines(h) = (IF s.dot THEN D ELSE 0) /\ NoPercent(h)
  <2>1. CASE s.dot
    <3> DEFINE x == <<".">>
               y == Times(D, "9")
               u == Times(s.after - D, "0")
    <3>1. x \in Text /\ Len(x) = 1 /\ Nines(x) = 0 /\ NoPercent(x)
      BY Characters, OneCharacter
    <3>2. y \in Text /\ Len(y) = D /\ \A i \in 1..Len(y) : y[i] = "9"
      BY <1>4, Characters, TimesFacts
    <3>3. s.after - D \in Nat
      BY <1>2, <1>4
    <3>4. u \in Text /\ Len(u) = s.after - D /\ \A i \in 1..Len(u) : u[i] = "0"
      BY <3>3, Characters, TimesFacts
    <3>5. h = x \o (y \o u)
      BY <2>1 DEF Fraction, D
    <3> HIDE DEF x, y, u, h
    <3>6. Nines(y) = D /\ NoPercent(y) /\ Nines(u) = 0 /\ NoPercent(u)
      BY <3>2, <3>4, NinesFacts DEF NoPercent
    <3> DEFINE w == y \o u
    <3>7. Joined(y, u, w)
      BY <3>2, <3>4, JoinFacts
    <3> HIDE DEF w
    <3>8. w \in Text /\ Len(w) = s.after /\ Nines(w) = D /\ NoPercent(w)
      BY <1>2, <1>4, <3>2, <3>4, <3>6, <3>7 DEF Joined
    <3>9. Joined(x, w, x \o w)
      BY <3>1, <3>8, JoinFacts
    <3>10. x \o w \in Text /\ Len(x \o w) = 1 + s.after /\ Nines(x \o w) = D /\ NoPercent(x \o w)
      BY <1>2, <1>4, <3>1, <3>8, <3>9 DEF Joined
    <3> QED BY <2>1, <3>5, <3>10 DEF w
  <2>2. CASE ~s.dot
    <3>1. h = <<>>
      BY <2>2 DEF Fraction
    <3> HIDE DEF h
    <3> QED BY <2>2, <3>1, NoCharacter
  <2> QED BY <1>2, <2>1, <2>2
<1>11. z \in Text /\ Len(z) = One(s.plusEnd \/ s.minusEnd) /\ Nines(z) = 0 /\ NoPercent(z)
  <2>1. CASE s.plusEnd
    <3> DEFINE x == IF v.neg THEN "-" ELSE "+"
    <3>1. x \in Char /\ x # "9" /\ x # "%"
      BY Characters
    <3> HIDE DEF x
    <3>2. <<x>> \in Text /\ Len(<<x>>) = 1 /\ Nines(<<x>>) = 0 /\ NoPercent(<<x>>)
      BY <3>1, OneCharacter
    <3>3. One(s.plusEnd \/ s.minusEnd) = 1
      BY <2>1 DEF One
    <3> QED BY <2>1, <3>2, <3>3 DEF x
  <2>2. CASE ~s.plusEnd
    <3> DEFINE x == IF v.neg THEN "-" ELSE Space
    <3>1. x \in Char \ {"9"} /\ x # "%"
      BY Characters, Distinct
    <3> HIDE DEF x
    <3>2. Put(s.minusEnd, x) \in Text /\ Len(Put(s.minusEnd, x)) = One(s.minusEnd)
          /\ Nines(Put(s.minusEnd, x)) = 0 /\ NoPercent(Put(s.minusEnd, x))
      BY <1>2, <3>1, PutFacts
    <3>3. One(s.plusEnd \/ s.minusEnd) = One(s.minusEnd)
      BY <2>2 DEF One
    <3> QED BY <2>2, <3>2, <3>3 DEF x
  <2> QED BY <1>2, <2>1, <2>2
<1> HIDE DEF a, b, c, d, h, z
<1> DEFINE t2 == a \o b  t3 == t2 \o c  t4 == t3 \o d  t5 == t4 \o g  t6 == t5 \o h  t7 == t6 \o z
<1>12. t2 \in Text /\ Len(t2) = Len(a) + Len(b) /\ Nines(t2) = 0
       /\ (pad < 0 => t2[1] = "%" /\ Len(t2) > 0) /\ (pad >= 0 => NoPercent(t2))
  <2>1. Joined(a, b, t2)
    BY <1>6, <1>7, JoinFacts
  <2> QED BY <1>2, <1>6, <1>7, <2>1 DEF Joined
<1> HIDE DEF t2
<1>13. t3 \in Text /\ Len(t3) = Len(t2) + Len(c) /\ Nines(t3) = 0 /\ (v.neg => Contains(t3, "-"))
       /\ (pad < 0 => t3[1] = "%" /\ Len(t3) > 0) /\ (pad >= 0 => NoPercent(t3))
  <2>1. Joined(t2, c, t3)
    BY <1>8, <1>12, JoinFacts
  <2> QED BY <1>2, <1>8, <1>12, <2>1 DEF Joined
<1> HIDE DEF t3
<1>14. t4 \in Text /\ Len(t4) = Len(t3) + Len(d) /\ Nines(t4) = 0 /\ (v.neg => Contains(t4, "-"))
       /\ (pad < 0 => t4[1] = "%" /\ Len(t4) > 0) /\ (pad >= 0 => NoPercent(t4))
  <2>1. Joined(t3, d, t4)
    BY <1>9, <1>13, JoinFacts
  <2> QED BY <1>2, <1>9, <1>13, <2>1 DEF Joined
<1> HIDE DEF t4
<1>15. t5 \in Text /\ Len(t5) = Len(t4) + Len(g) /\ Nines(t5) = W /\ (v.neg => Contains(t5, "-"))
       /\ (pad < 0 => t5[1] = "%" /\ Len(t5) > 0) /\ (pad >= 0 => NoPercent(t5))
  <2>1. Joined(t4, g, t5)
    BY <1>3, <1>14, JoinFacts
  <2> QED BY <1>2, <1>3, <1>4, <1>14, <2>1 DEF Joined
<1> HIDE DEF t5
<1>16. t6 \in Text /\ Len(t6) = Len(t5) + Len(h) /\ Nines(t6) = W + (IF s.dot THEN D ELSE 0)
       /\ (v.neg => Contains(t6, "-"))
       /\ (pad < 0 => t6[1] = "%" /\ Len(t6) > 0) /\ (pad >= 0 => NoPercent(t6))
  <2>1. Joined(t5, h, t6)
    BY <1>10, <1>15, JoinFacts
  <2> QED BY <1>2, <1>4, <1>10, <1>15, <2>1 DEF Joined
<1> HIDE DEF t6
<1>17. t7 \in Text /\ Len(t7) = Len(t6) + Len(z) /\ Nines(t7) = W + (IF s.dot THEN D ELSE 0)
       /\ (v.neg => Contains(t7, "-"))
       /\ (pad < 0 => t7[1] = "%") /\ (pad >= 0 => NoPercent(t7))
  <2>1. Joined(t6, z, t7)
    BY <1>11, <1>16, JoinFacts
  <2>2. (IF s.dot THEN D ELSE 0) \in Nat
    BY <1>4
  <2> QED BY <1>2, <1>4, <1>11, <1>16, <2>1, <2>2 DEF Joined
<1>18. FormatNumber(s, v) = t7
  BY <1>1 DEF t2, t3, t4, t5, t6, a, b, c, d, g, h, z, pad
<1> HIDE DEF t7
<1>19. Len(t7) = One(pad < 0) + (IF pad > 0 THEN pad ELSE 0) + One(v.neg \/ s.plus)
                 + One(s.dollar) + Len(g)
                 + (IF s.dot THEN 1 + s.after ELSE 0) + One(s.plusEnd \/ s.minusEnd)
  BY <1>6, <1>7, <1>8, <1>9, <1>10, <1>11, <1>12, <1>13, <1>14, <1>15, <1>16, <1>17
<1> QED BY <1>17, <1>18, <1>19 DEF pad, g, W, D

LEMMA CutText ==
    ASSUME NEW t \in Text, NEW size \in Nat \ {0}
    PROVE  Cut(t, size) \in Text
<1>1. Len(t) \in Nat
  BY DEF Text
<1>2. CASE Len(t) < size
  BY <1>2 DEF Cut
<1>3. CASE ~(Len(t) < size)
  <2> DEFINE u == SubSeq(t, 1, size - 1)
  <2>1. \A i \in 1..(size - 1) : t[i] \in Char
    BY <1>1, <1>3, ElementOfSeq DEF Text
  <2>2. size - 1 \in Nat
    OBVIOUS
  <2>3. u \in Seq(Char)
    BY <1>1, <2>1, <2>2, SubSeqProperties DEF Text
  <2> HIDE DEF u
  <2> QED BY <1>3, <2>3 DEF Cut, Text, u
<1> QED BY <1>2, <1>3

LEMMA ScientificText ==
    ASSUME NEW s \in Scan, NEW v \in Value
    PROVE  Scientific(s, v) \in Text /\ (v.neg => Contains(Scientific(s, v), "-"))
<1> DEFINE total     == IF s.before + s.after < 1 THEN 1 ELSE s.before + s.after
           precision == total - 1 + s.after
           x == Times(precision, "9")
           y == IF precision > 0 THEN <<".">> \o x ELSE <<>>
           mantissa  == <<"9">> \o y
           exponent  == <<"E", "+", "9", "9">>
           whole     == mantissa \o exponent
           number    == Cut(whole, NumberSize)
           pad       == s.before + One(s.dot) + s.after + 5 - Len(number)
           sign      == IF v.neg THEN "-" ELSE IF s.plus \/ s.plusEnd THEN "+" ELSE Space
           z == Times(pad, Space)
<1>1. Scientific(s, v) = <<sign>> \o Cut(z \o number, FieldSize - 1)
  BY DEF Scientific
<1>2. s.before \in Nat /\ s.after \in Nat /\ One(s.dot) \in Nat
  BY DEF Scan, One
<1>3. precision \in Int
  BY <1>2
<1> HIDE DEF precision
<1>4. x \in Text
  BY <1>3, Characters, TimesFacts
<1>5. <<".">> \in Text /\ <<"9">> \in Text /\ exponent \in Text
  BY Characters DEF Text
<1>6. sign \in Char /\ Space \in Char
  BY Characters
<1> HIDE DEF x, exponent, sign
<1>7. <<sign>> \in Text
  BY <1>6 DEF Text
<1>8. y \in Text
  BY <1>4, <1>5, NoCharacter DEF Text
<1> HIDE DEF y
<1>9. number \in Text
  <2>1. whole \in Text
    BY <1>5, <1>8 DEF Text
  <2> HIDE DEF whole
  <2> QED BY <2>1, FormatsOK, CutText
<1> HIDE DEF number
<1>10. pad \in Int
  BY <1>2, <1>9 DEF Text
<1> HIDE DEF pad
<1>11. z \in Text
  BY <1>6, <1>10, TimesFacts
<1> HIDE DEF z
<1> DEFINE a == <<sign>>
           b == z \o number
           c == Cut(b, FieldSize - 1)
<1>12. Len(a) = 1 /\ (v.neg => Contains(a, "-"))
  BY <1>6, OneCharacter DEF sign
<1> HIDE DEF a
<1>13. a \in Text
  BY <1>7 DEF a
<1>14. b \in Text
  BY <1>9, <1>11 DEF Text
<1> HIDE DEF b
<1>15. c \in Text
  BY <1>14, FormatsOK, CutText
<1> HIDE DEF c
<1>16. Joined(a, c, a \o c)
  BY <1>13, <1>15, JoinFacts
<1>17. a \o c \in Text /\ (v.neg => Contains(a \o c, "-"))
  BY <1>12, <1>16 DEF Joined
<1> QED BY <1>1, <1>17 DEF a, b, c

LEMMA NumberShown ==
    ASSUME NEW s \in Scan, NEW v \in Value
    PROVE  FormatNumber(s, v) \in Text
<1>1. CASE s.exponent
  <2>1. FormatNumber(s, v) = Scientific(s, v)
    BY <1>1 DEF FormatNumber
  <2> QED BY <2>1, ScientificText
<1>2. CASE ~s.exponent
  BY <1>2, NumberText
<1> QED BY <1>1, <1>2

LEMMA CStringText ==
    ASSUME NEW t \in Text
    PROVE  CString(t) \in Text
<1> DEFINE S == {i \in 1..Len(t) : t[i] = Nul}
           u == SubSeq(t, 1, Min(S) - 1)
<1>1. Len(t) \in Nat
  BY DEF Text
<1>2. CASE Nul \in ToSet(t)
  <2>1. S # {}
    BY <1>2 DEF ToSet
  <2>2. S \subseteq Nat
    BY <1>1
  <2>3. Min(S) \in S
    BY <2>1, <2>2, MinFacts
  <2>4. Min(S) \in 1..Len(t)
    BY <2>3
  <2>5. CString(t) = u
    BY <1>2 DEF CString
  <2> HIDE DEF S
  <2> DEFINE m == Min(S) - 1
  <2>6. m \in Nat /\ m <= Len(t)
    BY <1>1, <2>4
  <2> HIDE DEF m
  <2>7. \A i \in 1..m : t[i] \in Char
    BY <1>1, <2>6, ElementOfSeq DEF Text
  <2>8. SubSeq(t, 1, m) \in Seq(Char)
    BY <1>1, <2>6, <2>7, SubSeqProperties DEF Text
  <2> QED BY <2>5, <2>8 DEF Text, m
<1>3. CASE Nul \notin ToSet(t)
  BY <1>3 DEF CString
<1> QED BY <1>2, <1>3

LEMMA StringShown ==
    ASSUME NEW width \in Nat \cup {-1}, NEW v \in Value
    PROVE  FormatString(width, v.text) \in Text
<1> DEFINE t == CString(v.text)
           e(i) == IF i <= Len(t) THEN t[i] ELSE Space
<1>1. t \in Seq(Char)
  <2>1. v.text \in Text
    BY DEF Value, Text
  <2> QED BY <2>1, CStringText DEF Text
<1>2. FormatString(width, v.text) = IF width = -1 THEN t ELSE [i \in 1..width |-> e(i)]
  BY DEF FormatString
<1> HIDE DEF t
<1>3. CASE width # -1
  <2>1. width \in Nat
    BY <1>3
  <2>2. \A i \in 1..width : e(i) \in Char
    BY <1>1, <2>1, Characters
  <2> HIDE DEF e
  <2>3. [i \in 1..width |-> e(i)] \in Seq(Char)
    BY <2>1, <2>2
  <2> QED BY <1>2, <1>3, <2>3 DEF Text
<1> QED BY <1>1, <1>2, <1>3 DEF Text

--------------------------------------------------------------------------------
(* Types.                                                                   *)

Item == [value : Nat, text : Text]

TypeInv ==
    /\ fmt \in Text /\ values \in Seq(Value)
    /\ phase \in {"statement", "outer", "inner", "rest", "done", "overrun",
                  "badFileNumber", "typeMismatch"}
    /\ vi \in 0..Len(values) /\ passes \in 0..MaxPasses
    /\ phase = "inner" => vi < Len(values)
    /\ fpos \in 1..(Len(fmt) + 1)
    /\ out \in Seq(Item)
    /\ \A i \in 1..Len(out) : out[i].value <= vi

LEMMA LiteralItem == \A c \in Char : Literal(c) \in Item /\ Literal(c).value = 0
<1> SUFFICES ASSUME NEW c \in Char PROVE Literal(c) \in Item /\ Literal(c).value = 0
  OBVIOUS
<1>1. <<c>> \in Text
  BY OneCharacter
<1> DEFINE t == <<c>>
<1> HIDE DEF t
<1>2. Shown(0, t) \in Item /\ Shown(0, t).value = 0
  BY <1>1 DEF Shown, Item, t
<1> QED BY <1>2 DEF Literal, t

LEMMA AppendItem ==
    ASSUME NEW o \in Seq(Item), NEW x \in Item, NEW n \in Nat, NEW m \in Nat, n <= m,
           x.value <= m, \A i \in 1..Len(o) : o[i].value <= n
    PROVE  Append(o, x) \in Seq(Item) /\ \A i \in 1..Len(Append(o, x)) : Append(o, x)[i].value <= m
<1>1. /\ Append(o, x) \in Seq(Item) /\ Len(Append(o, x)) = Len(o) + 1 /\ Len(o) \in Nat
      /\ \A i \in 1..Len(o) : Append(o, x)[i] = o[i]
      /\ Append(o, x)[Len(o) + 1] = x
  BY AppendProperties, LenProperties
<1>2. ASSUME NEW i \in 1..Len(o) PROVE o[i].value \in Nat
  <2>1. o[i] \in Item
    BY ElementOfSeq
  <2> QED BY <2>1 DEF Item
<1>3. ASSUME NEW i \in 1..Len(Append(o, x)) PROVE Append(o, x)[i].value <= m
  <2>1. CASE i = Len(o) + 1
    BY <1>1, <2>1
  <2>2. CASE i # Len(o) + 1
    <3>1. i \in 1..Len(o)
      BY <1>1, <2>2
    <3>2. Append(o, x)[i] = o[i] /\ o[i].value <= n /\ o[i].value \in Nat
      BY <1>1, <1>2, <3>1
    <3> QED BY <3>2
  <2> QED BY <2>1, <2>2
<1> QED BY <1>1, <1>3

LEMMA Typed == Init => TypeInv
<1> SUFFICES ASSUME Init PROVE TypeInv
  OBVIOUS
<1>1. fmt \in Text /\ values \in Seq(Value) /\ MaxPasses \in Nat
  BY FormatsOK DEF Init, Text
<1>2. Len(fmt) \in Nat /\ Len(values) \in Nat
  BY <1>1 DEF Text
<1>3. out = <<>> /\ out \in Seq(Item) /\ Len(out) = 0
  BY EmptySeq DEF Init
<1>4. \A i \in 1..Len(out) : out[i].value <= vi
  BY <1>3
<1>5. vi \in 0..Len(values) /\ passes \in 0..MaxPasses /\ fpos \in 1..(Len(fmt) + 1)
      /\ phase = "statement"
  BY <1>1, <1>2 DEF Init
<1> QED BY <1>1, <1>3, <1>4, <1>5 DEF TypeInv

LEMMA TypeStep ==
    ASSUME TypeInv, [Next]_vars
    PROVE  TypeInv'
<1>0. /\ fmt \in Text /\ values \in Seq(Value) /\ MaxPasses \in Nat
      /\ Len(fmt) \in Nat /\ Len(values) \in Nat
  BY FormatsOK DEF TypeInv, Text
<1>l. ASSUME fpos \in 1..Len(fmt) PROVE fmt[fpos] \in Char
  BY <1>0, <1>l, ElementOfSeq DEF Text
<1>v. ASSUME vi < Len(values) PROVE values[vi + 1] \in Value /\ vi + 1 \in 1..Len(values)
  <2>1. vi + 1 \in 1..Len(values)
    BY <1>0, <1>v DEF TypeInv
  <2> QED BY <1>0, <2>1, ElementOfSeq
<1>a. ASSUME NEW x \in Item, NEW m \in 0..Len(values), vi <= m, x.value <= m, vi' = m, out' = Append(out, x)
      PROVE  out' \in Seq(Item) /\ \A i \in 1..Len(out') : out'[i].value <= vi'
  <2>1. vi \in Nat /\ m \in Nat /\ out \in Seq(Item) /\ \A i \in 1..Len(out) : out[i].value <= vi
    BY <1>0 DEF TypeInv
  <2> HIDE <1>0
  <2>2. Append(out, x) \in Seq(Item) /\ \A i \in 1..Len(Append(out, x)) : Append(out, x)[i].value <= m
    BY <1>a, <2>1, AppendItem
  <2> QED BY <1>a, <2>2
<1>1. CASE Start
  BY <1>1 DEF Start, TypeInv, given
<1>2. CASE Recycle
  <2>1. vi < Len(values)
    BY <1>2 DEF Recycle
  <2>2. passes' \in 0..MaxPasses /\ fpos' \in 1..(Len(fmt) + 1)
    BY <1>0, <1>2 DEF Recycle, TypeInv
  <2> QED BY <1>2, <2>1, <2>2 DEF Recycle, TypeInv, given
<1>3. CASE ValuesShown
  BY <1>3 DEF ValuesShown, TypeInv, given
<1>4. CASE FormatEnds
  BY <1>4 DEF FormatEnds, TypeInv, given
<1>5. CASE Escape
  <2>1. fpos + 1 \in 1..Len(fmt) /\ fpos + 2 \in 1..(Len(fmt) + 1)
    BY <1>0, <1>5 DEF Escape, Escaped, TypeInv
  <2>2. Literal(fmt[fpos + 1]) \in Item /\ Literal(fmt[fpos + 1]).value = 0
    <3>1. fmt[fpos + 1] \in Char
      BY <1>0, <2>1, ElementOfSeq DEF Text
    <3> QED BY <3>1, LiteralItem
  <2>3. vi \in 0..Len(values) /\ vi <= vi /\ Literal(fmt[fpos + 1]).value <= vi
    BY <1>0, <2>2 DEF TypeInv
  <2>4. vi' = vi /\ out' = Append(out, Literal(fmt[fpos + 1]))
    BY <1>5 DEF Escape
  <2>5. out' \in Seq(Item) /\ \A i \in 1..Len(out') : out'[i].value <= vi'
    BY <1>a, <2>2, <2>3, <2>4
  <2> QED BY <1>5, <2>1, <2>5 DEF Escape, TypeInv, given
<1>6. CASE NumericField
  <2>1. fpos \in 1..Len(fmt) /\ vi < Len(values)
    BY <1>0, <1>6 DEF NumericField, TypeInv
  <2>2. NumericAt \in Scan /\ NumericAt.length \in 0..(Len(fmt) + 1 - fpos)
    BY <1>0, <2>1, ScanTyped DEF NumericAt
  <2> DEFINE t == FormatNumber(NumericAt, values[vi + 1])
  <2>3. t \in Text
    BY <1>v, <2>1, <2>2, NumberShown
  <2> HIDE DEF t
  <2>4. vi + 1 \in 0..Len(values) /\ vi + 1 \in Nat /\ vi <= vi + 1
    BY <1>0, <2>1 DEF TypeInv
  <2>5. Shown(vi + 1, t) \in Item /\ Shown(vi + 1, t).value <= vi + 1
    BY <2>3, <2>4 DEF Shown, Item
  <2>6. vi' = vi + 1 /\ out' = Append(out, Shown(vi + 1, t))
    BY <1>6 DEF NumericField, t
  <2>7. out' \in Seq(Item) /\ \A i \in 1..Len(out') : out'[i].value <= vi'
    BY <1>a, <2>4, <2>5, <2>6
  <2>8. fpos + NumericAt.length \in 1..(Len(fmt) + 1)
    BY <1>0, <2>1, <2>2
  <2> QED BY <1>6, <2>4, <2>7, <2>8 DEF NumericField, TypeInv, given
<1>7. CASE StringField
  <2>1. fpos \in 1..Len(fmt) /\ vi < Len(values)
    BY <1>0, <1>7 DEF StringField, TypeInv
  <2>2. StringAt.width \in Nat \cup {-1} /\ StringAt.length \in 0..(Len(fmt) + 1 - fpos)
    BY <1>0, <2>1, StringStays DEF StringAt
  <2> DEFINE t == FormatString(StringAt.width, values[vi + 1].text)
  <2>3. t \in Text
    BY <1>v, <2>1, <2>2, StringShown
  <2> HIDE DEF t
  <2>4. vi + 1 \in 0..Len(values) /\ vi + 1 \in Nat /\ vi <= vi + 1
    BY <1>0, <2>1 DEF TypeInv
  <2>5. Shown(vi + 1, t) \in Item /\ Shown(vi + 1, t).value <= vi + 1
    BY <2>3, <2>4 DEF Shown, Item
  <2>6. vi' = vi + 1 /\ out' = Append(out, Shown(vi + 1, t))
    BY <1>7 DEF StringField, t
  <2>7. out' \in Seq(Item) /\ \A i \in 1..Len(out') : out'[i].value <= vi'
    BY <1>a, <2>4, <2>5, <2>6
  <2>8. fpos + StringAt.length \in 1..(Len(fmt) + 1)
    BY <1>0, <2>1, <2>2
  <2> QED BY <1>7, <2>4, <2>7, <2>8 DEF StringField, TypeInv, given
<1>8. CASE LiteralChar \/ RestChar
  <2>1. fpos \in 1..Len(fmt) /\ fpos + 1 \in 1..(Len(fmt) + 1)
    BY <1>0, <1>8 DEF LiteralChar, RestChar, TypeInv
  <2>2. Literal(fmt[fpos]) \in Item /\ Literal(fmt[fpos]).value = 0
    BY <1>l, <2>1, LiteralItem
  <2>3. vi \in 0..Len(values) /\ vi <= vi /\ Literal(fmt[fpos]).value <= vi
    BY <1>0, <2>2 DEF TypeInv
  <2>4. vi' = vi /\ out' = Append(out, Literal(fmt[fpos]))
    BY <1>8 DEF LiteralChar, RestChar
  <2>5. out' \in Seq(Item) /\ \A i \in 1..Len(out') : out'[i].value <= vi'
    BY <1>a, <2>2, <2>3, <2>4
  <2> QED BY <1>8, <2>1, <2>5 DEF LiteralChar, RestChar, TypeInv, given
<1>9. CASE Newline
  <2>2. Literal("newline") \in Item /\ Literal("newline").value = 0
    BY Characters, LiteralItem
  <2>3. vi \in 0..Len(values) /\ vi <= vi /\ Literal("newline").value <= vi
    BY <1>0, <2>2 DEF TypeInv
  <2>4. vi' = vi /\ out' = Append(out, Literal("newline"))
    BY <1>9 DEF Newline
  <2>5. out' \in Seq(Item) /\ \A i \in 1..Len(out') : out'[i].value <= vi'
    BY <1>a, <2>2, <2>3, <2>4
  <2> QED BY <1>9, <2>5 DEF Newline, TypeInv, given
<1>10. CASE UNCHANGED vars
  BY <1>10 DEF vars, TypeInv
<1>11. CASE Overrun
  BY <1>11 DEF Overrun, TypeInv, given
<1> QED BY <1>1, <1>2, <1>3, <1>4, <1>5, <1>6, <1>7, <1>8, <1>9, <1>10, <1>11 DEF Next

LEMMA TypeInvAlways == Spec => []TypeInv
<1>1. TypeInv /\ [Next]_vars => TypeInv'
  BY TypeStep
<1> QED BY <1>1, Typed, PTL DEF Spec

(* The position stays in the format, a field is only shown when there is a  *)
(* value for it, and nothing shown names a value beyond the ones counted.   *)
THEOREM TypeAlways == Spec => []TypeOK
<1>1. ASSUME TypeInv PROVE TypeOK
  <2>1. ASSUME NEW i \in 1..Len(out) PROVE out[i].value \in 0..vi
    <3>1. out[i] \in Item
      BY <1>1, ElementOfSeq DEF TypeInv
    <3>2. out[i].value \in Nat /\ out[i].value <= vi
      BY <1>1, <3>1 DEF TypeInv, Item
    <3>3. vi \in Int
      BY <1>1 DEF TypeInv
    <3> QED BY <3>2, <3>3
  <2> QED BY <1>1, <2>1 DEF TypeInv, TypeOK
<1>2. TypeInv => TypeOK
  BY <1>1
<1> QED BY <1>2, TypeInvAlways, PTL

--------------------------------------------------------------------------------
(* Columns.                                                                 *)

LEMMA AtOne ==
    ASSUME NEW f \in Text, NEW p \in 1..(Len(f) + 1), NEW c \in Char
    PROVE  At(f, p, <<c>>) <=> p <= Len(f) /\ f[p] = c
<1> DEFINE t == <<c>>
<1>1. t \in Text /\ Len(t) = 1 /\ t[1] = c
  BY DEF Text
<1> HIDE DEF t
<1>2. Len(f) \in Nat /\ p \in Nat
  BY DEF Text
<1>3. At(f, p, t) <=> p + Len(t) - 1 <= Len(f) /\ \A i \in 1..Len(t) : f[p + i - 1] = t[i]
  BY <1>1, AtMeans
<1>4. 1..Len(t) = {1} /\ p + 1 - 1 = p
  BY <1>1, <1>2
<1>5. (\A i \in 1..Len(t) : f[p + i - 1] = t[i]) <=> f[p] = c
  BY <1>1, <1>4
<1> QED BY <1>1, <1>2, <1>3, <1>5 DEF t

LEMMA PastOne ==
    ASSUME NEW f \in Text, NEW p \in 1..(Len(f) + 1), NEW c \in Char
    PROVE  \/ p <= Len(f) /\ f[p] = c /\ Past(f, p, <<c>>) = p + 1
           \/ ~(p <= Len(f) /\ f[p] = c) /\ Past(f, p, <<c>>) = p
<1> DEFINE t == <<c>>
<1>1. t \in Text /\ Len(t) = 1
  BY OneCharacter
<1>2. At(f, p, t) <=> p <= Len(f) /\ f[p] = c
  BY AtOne
<1> HIDE DEF t
<1>3. /\ At(f, p, t) => Past(f, p, t) = p + Len(t)
      /\ ~At(f, p, t) => Past(f, p, t) = p
  BY <1>1, PastFacts
<1>4. \/ p <= Len(f) /\ f[p] = c /\ Past(f, p, t) = p + 1
      \/ ~(p <= Len(f) /\ f[p] = c) /\ Past(f, p, t) = p
  BY <1>1, <1>2, <1>3
<1> QED BY <1>4 DEF t

LEMMA SignEnds ==
    ASSUME NEW f \in Text, NEW p \in 1..(Len(f) + 1)
    PROVE  \/ p <= Len(f) /\ f[p] \in {"+", "-"} /\ Sign(f, p) = p + 1
           \/ ~(p <= Len(f) /\ f[p] \in {"+", "-"}) /\ Sign(f, p) = p
<1>1. At(f, p, <<"+">>) <=> p <= Len(f) /\ f[p] = "+"
  BY Characters, AtOne
<1>2. \/ p <= Len(f) /\ f[p] = "-" /\ Past(f, p, <<"-">>) = p + 1
      \/ ~(p <= Len(f) /\ f[p] = "-") /\ Past(f, p, <<"-">>) = p
  BY Characters, PastOne
<1> QED BY <1>1, <1>2 DEF Sign

LEMMA EndsIn ==
    ASSUME NEW f \in Text, NEW p \in 1..(Len(f) + 1), NEW e, EndsAt(f, p, e), NEW k \in 0..9
    PROVE  e[k] \in 1..(Len(f) + 1)
<1>1. e[k] \in p..(Len(f) + 1)
  BY DEF EndsAt
<1>2. Len(f) \in Nat
  BY DEF Text
<1> QED BY <1>1, <1>2

(* A field of nothing but a sign, digit positions and a point.              *)
LEMMA ScanShape ==
    ASSUME NEW f \in Text, NEW p \in 1..Len(f), ScanNumeric(f, p).length > 0
    PROVE  LET s == ScanNumeric(f, p)
           IN  /\ ~s.dot => s.after = 0
               /\ Plain(s) => s.length = One(s.plus) + s.before + (IF s.dot THEN 1 + s.after ELSE 0)
<1>1. p \in 1..(Len(f) + 1)
  BY DEF Text
<1>2. PICK e : EndsAt(f, p, e) /\ ScanNumeric(f, p) = Scanned(f, e)
  BY <1>1, ScanEnds
<1>3. /\ \A k \in 0..9 : e[k] \in Nat
      /\ e[0] <= e[1] /\ e[1] <= e[2] /\ e[2] <= e[3] /\ e[3] <= e[4]
      /\ e[4] <= e[5] /\ e[5] <= e[6] /\ e[6] <= e[7] /\ e[7] <= e[8] /\ e[8] <= e[9]
  BY <1>1, <1>2, EndFacts
<1> DEFINE x0 == e[0]  x1 == e[1]  x2 == e[2]  x3 == e[3]  x4 == e[4]
           x5 == e[5]  x6 == e[6]  x7 == e[7]  x8 == e[8]  x9 == e[9]
           s == ScanNumeric(f, p)
<1>4. x0 \in Nat /\ x1 \in Nat /\ x2 \in Nat /\ x3 \in Nat /\ x4 \in Nat
      /\ x5 \in Nat /\ x6 \in Nat /\ x7 \in Nat /\ x8 \in Nat /\ x9 \in Nat
  BY <1>3
<1>5. x0 <= x1 /\ x1 <= x2 /\ x2 <= x3 /\ x3 <= x4 /\ x4 <= x5
      /\ x5 <= x6 /\ x6 <= x7 /\ x7 <= x8 /\ x8 <= x9
  BY <1>3
<1>6. /\ s.length = IF (x4 - x3) + (x6 - x5) = 0 /\ x3 = x0 THEN 0 ELSE x9 - x0
      /\ s.before = (x4 - x3) + (x6 - x5)
      /\ s.after = IF x7 > x6 THEN x7 - x6 - 1 ELSE 0
      /\ s.plus <=> x1 > x0
      /\ s.dollar <=> x2 > x1 \/ x3 - x2 = 3
      /\ s.star <=> x3 > x2
      /\ s.comma <=> x5 > x4
      /\ s.dot <=> x7 > x6
      /\ s.exponent <=> x8 > x7
      /\ s.plusEnd <=> x9 > x8 /\ f[x8] = "+"
      /\ s.minusEnd <=> x9 > x8 /\ f[x8] = "-"
  <2>1. /\ s.length = IF (x4 - x3) + (x6 - x5) = 0 /\ x3 = x0 THEN 0 ELSE x9 - x0
        /\ s.before = (x4 - x3) + (x6 - x5)
        /\ s.after = IF x7 > x6 THEN x7 - x6 - 1 ELSE 0
    BY <1>2 DEF Scanned
  <2>2. s.plus = (x1 > x0) /\ s.dollar = (x2 > x1 \/ x3 - x2 = 3)
    BY <1>2 DEF Scanned
  <2>3. s.star = (x3 > x2) /\ s.comma = (x5 > x4) /\ s.dot = (x7 > x6) /\ s.exponent = (x8 > x7)
    BY <1>2 DEF Scanned
  <2>4. s.plusEnd = (x9 > x8 /\ f[x8] = "+") /\ s.minusEnd = (x9 > x8 /\ f[x8] = "-")
    BY <1>2 DEF Scanned
  <2> HIDE DEF x0, x1, x2, x3, x4, x5, x6, x7, x8, x9, s
  <2> QED BY <2>1, <2>2, <2>3, <2>4, Zenon
<1>7. x1 = x0 \/ x1 = x0 + 1
  <2>1. x0 \in 1..(Len(f) + 1)
    BY <1>1, <1>2, EndsIn
  <2>2. x1 = Past(f, x0, <<"+">>)
    BY <1>2 DEF EndsAt
  <2> HIDE DEF x0, x1
  <2> QED BY <2>1, <2>2, Characters, PastOne
<1>8. x9 = x8 \/ f[x8] \in {"+", "-"}
  <2>1. x8 \in 1..(Len(f) + 1)
    BY <1>1, <1>2, EndsIn
  <2>2. x9 = Sign(f, x8)
    BY <1>2 DEF EndsAt
  <2> HIDE DEF x8, x9
  <2> QED BY <2>1, <2>2, SignEnds
<1>9. s.length > 0
  OBVIOUS
<1> HIDE DEF x0, x1, x2, x3, x4, x5, x6, x7, x8, x9, s
<1>10. ~s.dot => s.after = 0
  BY <1>4, <1>6
<1>11. ASSUME Plain(s)
       PROVE  s.length = One(s.plus) + s.before + (IF s.dot THEN 1 + s.after ELSE 0)
  <2>0. ~s.dollar /\ ~s.star /\ ~s.comma /\ ~s.exponent /\ ~s.plusEnd /\ ~s.minusEnd
    BY <1>11 DEF Plain
  <2>1. x2 = x1 /\ x3 = x2 /\ x5 = x4 /\ x8 = x7
    BY <1>4, <1>5, <1>6, <2>0
  <2>2. x9 = x8
    BY <1>4, <1>5, <1>6, <1>8, <2>0
  <2>3. One(s.plus) = x1 - x0
    BY <1>4, <1>6, <1>7 DEF One
  <2>4. (IF s.dot THEN 1 + s.after ELSE 0) = x7 - x6
    BY <1>4, <1>5, <1>6
  <2>5. s.length = x9 - x0
    BY <1>6, <1>9
  <2>6. s.before = (x4 - x3) + (x6 - x5)
    BY <1>6
  <2> QED BY <1>4, <2>1, <2>2, <2>3, <2>4, <2>5, <2>6
<1> QED BY <1>10, <1>11 DEF s

(* A field keeps its column or says with a % that it does not, and shows    *)
(* every digit and the minus sign.                                          *)
LEMMA ColumnKept ==
    ASSUME NEW f \in Text, NEW p \in 1..Len(f), ScanNumeric(f, p).length > 0, NEW v \in Value
    PROVE  LET s == ScanNumeric(f, p)
               t == FormatNumber(s, v)
           IN  /\ Plain(s) => (t[1] = "%") = (Len(t) > s.length)
               /\ ~s.exponent /\ NumberFits(s, v) => Nines(t) = v.digits + s.after
               /\ v.neg => Contains(t, "-")
<1> DEFINE s == ScanNumeric(f, p)
           g == Grouped(Whole(v), s.comma)
           t == FormatNumber(s, v)
           pad == Pad(s, v, g)
           np == One(v.neg \/ s.plus)
           dot == IF s.dot THEN 1 + s.after ELSE 0
<1>1. s \in Scan
  BY ScanTyped
<1>2. s.length > 0 /\ s.length \in Nat /\ s.before \in Nat /\ s.after \in Nat
      /\ s.plus \in BOOLEAN /\ s.comma \in BOOLEAN
      /\ v.digits \in Nat \ {0} /\ v.neg \in BOOLEAN
  BY <1>1 DEF Scan, Value
<1>3. /\ ~s.dot => s.after = 0
      /\ Plain(s) => s.length = One(s.plus) + s.before + dot
  BY ScanShape
<1> HIDE DEF s
<1>4. ASSUME ~s.exponent
      PROVE  /\ t \in Text
             /\ Nines(t) = Whole(v) + (IF s.dot THEN Decimals(s, v) ELSE 0)
             /\ v.neg => Contains(t, "-")
             /\ pad < 0 => t[1] = "%"
             /\ pad >= 0 => NoPercent(t)
             /\ Len(t) = One(pad < 0) + (IF pad > 0 THEN pad ELSE 0) + np
                         + One(s.dollar) + Len(g) + dot + One(s.plusEnd \/ s.minusEnd)
  BY <1>1, <1>4, NumberText
<1>5. Len(g) \in Nat \ {0}
  <2>1. Whole(v) \in Nat \ {0}
    BY <1>1, KeptFacts
  <2> QED BY <1>2, <2>1, GroupedFacts
<1>6. /\ ~s.exponent /\ NumberFits(s, v) => Nines(t) = v.digits + s.after
      /\ v.neg => Contains(t, "-")
  <2>1. CASE s.exponent
    <3>1. t = Scientific(s, v)
      BY <2>1 DEF FormatNumber
    <3> QED BY <1>1, <2>1, <3>1, ScientificText
  <2>2. CASE ~s.exponent
    <3>1. ASSUME NumberFits(s, v) PROVE Nines(t) = v.digits + s.after
      <4>1. Whole(v) = v.digits /\ Decimals(s, v) = s.after
        BY <1>1, <3>1, KeptFacts
      <4> QED BY <1>2, <1>3, <1>4, <2>2, <4>1
    <3> QED BY <1>4, <2>2, <3>1
  <2> QED BY <2>1, <2>2
<1>7. ASSUME Plain(s) PROVE (t[1] = "%") = (Len(t) > s.length)
  <2>1. ~s.dollar /\ ~s.exponent /\ ~s.plusEnd /\ ~s.minusEnd
    BY <1>7 DEF Plain
  <2>2. One(s.dollar) = 0 /\ One(s.plusEnd \/ s.minusEnd) = 0 /\ One(s.plus) \in Nat /\ np \in Nat
    BY <2>1 DEF One
  <2>3. pad = s.before + One(s.plus) - Len(g) - np /\ dot \in Nat
    BY <1>2, <1>5, <2>2, SMTT(30) DEF Pad
  <2>4. Len(t) = One(pad < 0) + (IF pad > 0 THEN pad ELSE 0) + np + Len(g) + dot
    <3>1. One(pad < 0) \in Nat
      BY DEF One
    <3> HIDE DEF t, g, pad, np, dot
    <3>2. pad \in Int
      BY <1>2, <1>5, <2>2, <2>3
    <3> QED BY <1>4, <1>5, <2>1, <2>2, <2>3, <3>1, <3>2, SMTT(30)
  <2>5. s.length = One(s.plus) + s.before + dot
    BY <1>3, <1>7
  <2>6. t \in Text /\ (pad < 0 => t[1] = "%") /\ (pad >= 0 => NoPercent(t))
    BY <1>4, <2>1
  <2> HIDE DEF t, g, pad, np, dot
  <2>7. CASE pad < 0
    <3>1. One(pad < 0) = 1
      BY <2>7 DEF One
    <3>2. Len(t) > s.length
      BY <1>2, <1>5, <2>2, <2>3, <2>4, <2>5, <2>7, <3>1, SMTT(30)
    <3> QED BY <2>6, <2>7, <3>2
  <2>8. CASE pad >= 0
    <3>1. One(pad < 0) = 0
      BY <1>2, <1>5, <2>2, <2>3, <2>8 DEF One
    <3>2. Len(t) = s.length
      BY <1>2, <1>5, <2>2, <2>3, <2>4, <2>5, <2>8, <3>1, SMTT(30)
    <3>3. 1 \in 1..Len(t)
      BY <1>2, <3>2
    <3>4. t[1] # "%"
      BY <2>6, <2>8, <3>3 DEF NoPercent
    <3> QED BY <1>2, <3>2, <3>4
  <2> QED BY <1>2, <1>5, <2>2, <2>3, <2>7, <2>8
<1> QED BY <1>6, <1>7 DEF s

(* A plain field is as wide as it is written, unless it shows a %; a number *)
(* that fits num_str has all its digits in a field without an exponent, and *)
(* a negative number has its minus sign.                                    *)
THEOREM ColumnsAlways == Spec => []ColumnsKept
<1>1. ASSUME TypeInv PROVE ColumnsKept
  <2> SUFFICES ASSUME phase = "inner", fpos <= Len(fmt), NumericAt.length > 0
      PROVE  LET v == values[vi + 1]
                 t == FormatNumber(NumericAt, v)
             IN  /\ Plain(NumericAt) => (t[1] = "%") = (Len(t) > NumericAt.length)
                 /\ ~NumericAt.exponent /\ NumberFits(NumericAt, v) =>
                        Nines(t) = v.digits + NumericAt.after
                 /\ v.neg => Contains(t, "-")
    BY DEF ColumnsKept
  <2> DEFINE v == values[vi + 1]
  <2>1. fmt \in Text /\ values \in Seq(Value) /\ Len(fmt) \in Nat /\ Len(values) \in Nat
    BY <1>1 DEF TypeInv, Text
  <2>2. fpos \in 1..Len(fmt) /\ vi + 1 \in 1..Len(values)
    BY <1>1, <2>1 DEF TypeInv
  <2>3. v \in Value
    BY <2>1, <2>2, ElementOfSeq
  <2> HIDE DEF v
  <2> QED BY <2>1, <2>2, <2>3, ColumnKept DEF NumericAt
<1>2. TypeInv => ColumnsKept
  BY <1>1
<1> QED BY <1>2, TypeInvAlways, PTL

--------------------------------------------------------------------------------
(* The longest numeric field.  A text has the form of one if it falls into  *)
(* nine parts, each of them there or not.                                   *)

Run(f, i, j, c)    == i <= j /\ Only(f, i, j - 1, c)
Begins(f, p, u, X) == \E x \in X : At(f, p, x) /\ u = p + Len(x)

PlusPart  == {<<>>, <<"+">>}
MoneyPart == {<<>>, <<"$", "$">>}
StarsPart == {<<>>, <<"*", "*">>, <<"*", "*", "$">>}
PowerPart == {<<>>, Carets}
SignPart  == {<<>>, <<"+">>, <<"-">>}

Fits(f, p, t) ==
    /\ t \in [0..9 -> 1..(Len(f) + 1)]
    /\ t[0] = p
    /\ Begins(f, t[0], t[1], PlusPart)
    /\ Begins(f, t[1], t[2], MoneyPart)
    /\ Begins(f, t[2], t[3], StarsPart)
    /\ Run(f, t[3], t[4], "#") /\ Run(f, t[4], t[5], Comma) /\ Run(f, t[5], t[6], "#")
    /\ t[7] = t[6] \/ (t[6] < t[7] /\ f[t[6]] = "." /\ Run(f, t[6] + 1, t[7], "#"))
    /\ Begins(f, t[7], t[8], PowerPart)
    /\ Begins(f, t[8], t[9], SignPart)

Substance(t) == t[3] # t[0] \/ (t[4] - t[3]) + (t[6] - t[5]) > 0

LEMMA AtNothing ==
    ASSUME NEW f \in Text, NEW p \in 1..(Len(f) + 1)
    PROVE  At(f, p, <<>>)
<1>1. <<>> \in Text /\ Len(<<>>) = 0
  BY NoCharacter
<1>2. Len(f) \in Nat /\ p \in Nat
  BY DEF Text
<1> DEFINE t == <<>>
<1> HIDE DEF t
<1>3. t \in Text /\ Len(t) = 0
  BY <1>1 DEF t
<1>4. p + Len(t) - 1 <= Len(f) /\ \A i \in 1..Len(t) : f[p + i - 1] = t[i]
  BY <1>2, <1>3
<1>5. At(f, p, t)
  BY <1>3, <1>4, AtMeans
<1> QED BY <1>5 DEF t

LEMMA AtJoin ==
    ASSUME NEW f \in Text, NEW p \in 1..(Len(f) + 1), NEW a \in Text, NEW b \in Text
    PROVE  /\ At(f, p, a \o b) <=> At(f, p, a) /\ At(f, p + Len(a), b)
           /\ At(f, p, a) => p + Len(a) \in p..(Len(f) + 1)
           /\ Len(a \o b) = Len(a) + Len(b)
<1> DEFINE w == a \o b
<1>1. Len(f) \in Nat /\ p \in Nat \ {0} /\ Len(a) \in Nat /\ Len(b) \in Nat
  BY DEF Text
<1>2. w \in Text /\ Len(w) = Len(a) + Len(b)
      /\ \A i \in 1..(Len(a) + Len(b)) : w[i] = IF i <= Len(a) THEN a[i] ELSE b[i - Len(a)]
  BY ConcatProperties DEF Text
<1> HIDE DEF w
<1>3. At(f, p, w) <=> p + Len(w) - 1 <= Len(f) /\ \A i \in 1..Len(w) : f[p + i - 1] = w[i]
  BY <1>2, AtMeans
<1>4. At(f, p, a) <=> p + Len(a) - 1 <= Len(f) /\ \A i \in 1..Len(a) : f[p + i - 1] = a[i]
  BY AtMeans
<1>5. At(f, p, a) => p + Len(a) \in p..(Len(f) + 1)
  BY <1>1, <1>4
<1>6. ASSUME At(f, p, w) PROVE At(f, p, a) /\ At(f, p + Len(a), b)
  <2>1. p + Len(w) - 1 <= Len(f) /\ p + Len(a) \in 1..(Len(f) + 1) /\ p + Len(a) - 1 <= Len(f)
        /\ (p + Len(a)) + Len(b) - 1 <= Len(f)
    BY <1>1, <1>2, <1>3, <1>6
  <2>2. ASSUME NEW i \in 1..Len(a) PROVE f[p + i - 1] = a[i]
    <3>1. i \in 1..Len(w) /\ w[i] = a[i]
      BY <1>1, <1>2
    <3> QED BY <1>3, <1>6, <3>1
  <2>3. ASSUME NEW i \in 1..Len(b) PROVE f[(p + Len(a)) + i - 1] = b[i]
    <3>1. i + Len(a) \in 1..Len(w) /\ w[i + Len(a)] = b[i] /\ p + (i + Len(a)) - 1 = (p + Len(a)) + i - 1
      BY <1>1, <1>2
    <3>2. f[p + (i + Len(a)) - 1] = w[i + Len(a)]
      BY <1>3, <1>6, <3>1
    <3> QED BY <3>1, <3>2
  <2>4. At(f, p + Len(a), b)
    BY <2>1, <2>3, AtMeans
  <2> QED BY <1>4, <2>1, <2>2, <2>4
<1>7. ASSUME At(f, p, a), At(f, p + Len(a), b) PROVE At(f, p, w)
  <2>1. p + Len(a) \in 1..(Len(f) + 1)
    BY <1>1, <1>5, <1>7
  <2>2. (p + Len(a)) + Len(b) - 1 <= Len(f) /\ \A i \in 1..Len(b) : f[(p + Len(a)) + i - 1] = b[i]
    BY <1>7, <2>1, AtMeans
  <2>3. ASSUME NEW i \in 1..Len(w) PROVE f[p + i - 1] = w[i]
    <3>1. CASE i <= Len(a)
      <4>1. i \in 1..Len(a) /\ w[i] = a[i]
        BY <1>1, <1>2, <3>1
      <4> QED BY <1>4, <1>7, <4>1
    <3>2. CASE ~(i <= Len(a))
      <4>1. i - Len(a) \in 1..Len(b) /\ w[i] = b[i - Len(a)] /\ (p + Len(a)) + (i - Len(a)) - 1 = p + i - 1
        BY <1>1, <1>2, <3>2
      <4>2. f[(p + Len(a)) + (i - Len(a)) - 1] = b[i - Len(a)]
        BY <2>2, <4>1
      <4> QED BY <4>1, <4>2
    <3> QED BY <3>1, <3>2
  <2>4. p + Len(w) - 1 <= Len(f)
    BY <1>1, <1>2, <2>2
  <2> QED BY <1>3, <2>3, <2>4
<1> QED BY <1>2, <1>5, <1>6, <1>7 DEF w

LEMMA PartsAreTexts ==
    /\ PlusPart \subseteq Text /\ MoneyPart \subseteq Text /\ StarsPart \subseteq Text
    /\ PowerPart \subseteq Text /\ SignPart \subseteq Text
  BY Fixed, NoCharacter DEF PlusPart, MoneyPart, StarsPart, PowerPart, SignPart

LEMMA BeginsStays ==
    ASSUME NEW f \in Text, NEW p \in 1..(Len(f) + 1), NEW X, X \subseteq Text, NEW u, Begins(f, p, u, X)
    PROVE  u \in p..(Len(f) + 1) /\ u \in 1..(Len(f) + 1)
<1>1. PICK x \in X : At(f, p, x) /\ u = p + Len(x)
  BY DEF Begins
<1>2. x \in Text /\ Len(f) \in Nat /\ Len(x) \in Nat
  BY DEF Text
<1>3. p + Len(x) - 1 <= Len(f)
  BY <1>1, <1>2, AtMeans
<1> QED BY <1>1, <1>2, <1>3

LEMMA PastBegins ==
    ASSUME NEW f \in Text, NEW p \in 1..(Len(f) + 1), NEW x, NEW X, x \in X, <<>> \in X
    PROVE  Begins(f, p, Past(f, p, x), X) /\ Begins(f, p, p, X)
<1>1. At(f, p, <<>>) /\ p = p + Len(<<>>)
  BY AtNothing, NoCharacter DEF Text
<1>2. Begins(f, p, p, X)
  BY <1>1 DEF Begins
<1>3. At(f, p, x) => Begins(f, p, p + Len(x), X)
  BY DEF Begins
<1> QED BY <1>2, <1>3 DEF Past

(* The scan falls into such parts.                                          *)
LEMMA ScanFits ==
    ASSUME NEW f \in Text, NEW p \in 1..(Len(f) + 1), NEW e, EndsAt(f, p, e)
    PROVE  Fits(f, p, e)
<1>1. \A k \in 0..9 : e[k] \in 1..(Len(f) + 1)
  BY EndsIn
<1>2. e \in [0..9 -> 1..(Len(f) + 1)]
  BY <1>1 DEF EndsAt
<1>3. \A k \in 1..9 : e[k - 1] <= e[k]
  BY DEF EndsAt
<1>4. /\ e[0] = p
      /\ e[1] = Past(f, e[0], <<"+">>) /\ e[2] = Past(f, e[1], <<"$", "$">>)
      /\ e[3] = Stars(f, e[2]) /\ e[4] = Skip(f, e[3], "#") /\ e[5] = Skip(f, e[4], Comma)
      /\ e[6] = Skip(f, e[5], "#") /\ e[7] = Point(f, e[6]) /\ e[8] = Past(f, e[7], Carets)
      /\ e[9] = Sign(f, e[8])
  BY DEF EndsAt
<1>5. Begins(f, e[0], e[1], PlusPart)
  <2>1. <<"+">> \in PlusPart /\ <<>> \in PlusPart
    BY DEF PlusPart
  <2> QED BY <1>1, <1>4, <2>1, PastBegins
<1>6. Begins(f, e[1], e[2], MoneyPart)
  <2>1. <<"$", "$">> \in MoneyPart /\ <<>> \in MoneyPart
    BY DEF MoneyPart
  <2> QED BY <1>1, <1>4, <2>1, PastBegins, SMTT(30)
<1>7. Begins(f, e[2], e[3], StarsPart)
  <2>1. <<"*", "*">> \in StarsPart /\ <<>> \in StarsPart /\ <<"*", "*", "$">> \in StarsPart
    BY DEF StarsPart
  <2>2. CASE At(f, e[2], <<"*", "*", "$">>)
    <3>1. e[3] = e[2] + 3
      BY <1>4, <2>2 DEF Stars
    <3>2. e[3] = e[2] + Len(<<"*", "*", "$">>)
      BY <3>1, Fixed
    <3> QED BY <2>1, <2>2, <3>2 DEF Begins
  <2>3. CASE ~At(f, e[2], <<"*", "*", "$">>)
    <3>1. e[3] = Past(f, e[2], <<"*", "*">>)
      BY <1>4, <2>3 DEF Stars
    <3> QED BY <1>1, <2>1, <3>1, PastBegins, SMTT(30)
  <2> QED BY <2>2, <2>3
<1>8. Run(f, e[3], e[4], "#") /\ Run(f, e[4], e[5], Comma) /\ Run(f, e[5], e[6], "#")
  <2>1. Only(f, e[3], e[4] - 1, "#")
    BY <1>1, <1>4, SkipFacts, SMTT(30)
  <2>2. Only(f, e[4], e[5] - 1, Comma)
    BY <1>1, <1>4, SkipFacts, SMTT(30)
  <2>3. Only(f, e[5], e[6] - 1, "#")
    BY <1>1, <1>4, SkipFacts
  <2>4. e[3] <= e[4] /\ e[4] <= e[5] /\ e[5] <= e[6]
    BY <1>3
  <2> QED BY <2>1, <2>2, <2>3, <2>4 DEF Run
<1>9. e[7] = e[6] \/ (e[6] < e[7] /\ f[e[6]] = "." /\ Run(f, e[6] + 1, e[7], "#"))
  <2> DEFINE x == e[6]
  <2>1. x \in 1..(Len(f) + 1) /\ e[7] = Point(f, x) /\ Len(f) \in Nat
    BY <1>1, <1>4 DEF Text
  <2> HIDE DEF x
  <2>2. CASE At(f, x, <<".">>)
    <3>1. x <= Len(f) /\ f[x] = "." /\ e[7] = Skip(f, x + 1, "#")
      BY <2>1, <2>2, AtOne, Characters DEF Point
    <3>2. x + 1 \in 1..(Len(f) + 1)
      BY <2>1, <3>1
    <3>3. e[7] \in (x + 1)..(Len(f) + 1) /\ Only(f, x + 1, e[7] - 1, "#")
      BY <3>1, <3>2, SkipFacts
    <3>4. x < e[7] /\ x + 1 <= e[7]
      BY <2>1, <3>3
    <3> QED BY <3>1, <3>3, <3>4 DEF Run, x
  <2>3. CASE ~At(f, x, <<".">>)
    BY <2>1, <2>3 DEF Point, x
  <2> QED BY <2>2, <2>3
<1>10. Begins(f, e[7], e[8], PowerPart)
  <2>1. Carets \in PowerPart /\ <<>> \in PowerPart
    BY DEF PowerPart
  <2> QED BY <1>1, <1>4, <2>1, PastBegins
<1>11. Begins(f, e[8], e[9], SignPart)
  <2>1. <<"+">> \in SignPart /\ <<"-">> \in SignPart /\ <<>> \in SignPart
    BY DEF SignPart
  <2>2. CASE At(f, e[8], <<"+">>)
    <3>1. e[9] = e[8] + Len(<<"+">>)
      BY <1>4, <2>2, Fixed DEF Sign
    <3> QED BY <2>1, <2>2, <3>1 DEF Begins
  <2>3. CASE ~At(f, e[8], <<"+">>)
    <3>1. e[9] = Past(f, e[8], <<"-">>)
      BY <1>4, <2>3 DEF Sign
    <3> QED BY <1>1, <2>1, <3>1, PastBegins
  <2> QED BY <2>2, <2>3
<1> QED BY <1>2, <1>4, <1>5, <1>6, <1>7, <1>8, <1>9, <1>10, <1>11 DEF Fits

LEMMA HeadsAndTails ==
    /\ Heads = {a \o b \o c : a \in PlusPart, b \in MoneyPart, c \in StarsPart}
    /\ Tails = {a \o b : a \in PowerPart, b \in SignPart}
  BY DEF Heads, Tails, PlusPart, MoneyPart, StarsPart, PowerPart, SignPart

LEMMA HeadJoins ==
    ASSUME NEW f \in Text, NEW p \in 1..(Len(f) + 1), NEW u, NEW v, NEW s,
           Begins(f, p, u, PlusPart), Begins(f, u, v, MoneyPart), Begins(f, v, s, StarsPart)
    PROVE  \E a \in Heads : a \in Text /\ At(f, p, a) /\ s = p + Len(a)
<1>1. PICK x \in PlusPart : At(f, p, x) /\ u = p + Len(x)
  BY DEF Begins
<1>2. PICK y \in MoneyPart : At(f, u, y) /\ v = u + Len(y)
  BY DEF Begins
<1>3. PICK w \in StarsPart : At(f, v, w) /\ s = v + Len(w)
  BY DEF Begins
<1>4. x \in Text /\ y \in Text /\ w \in Text /\ Len(x) \in Nat /\ Len(y) \in Nat /\ Len(w) \in Nat
      /\ Len(f) \in Nat
  BY PartsAreTexts DEF Text
<1> DEFINE a == x \o y
           b == a \o w
<1>5. At(f, p, a) /\ Len(a) = Len(x) + Len(y) /\ a \in Text
  BY <1>1, <1>2, <1>4, AtJoin, ConcatProperties DEF Text
<1>6. b \in Heads
  BY HeadsAndTails
<1> HIDE DEF a
<1>7. v = p + Len(a)
  BY <1>1, <1>2, <1>4, <1>5
<1>8. At(f, p, b) /\ Len(b) = Len(a) + Len(w)
  BY <1>3, <1>4, <1>5, <1>7, AtJoin
<1>9. b \in Text
  BY <1>4, <1>5, ConcatProperties DEF Text
<1> HIDE DEF b
<1>10. s = p + Len(b)
  BY <1>3, <1>4, <1>5, <1>7, <1>8
<1> QED BY <1>6, <1>8, <1>9, <1>10

LEMMA HeadSplits ==
    ASSUME NEW f \in Text, NEW p \in 1..(Len(f) + 1), NEW a \in Heads, At(f, p, a)
    PROVE  /\ a \in Text
           /\ \E u, v : /\ Begins(f, p, u, PlusPart) /\ Begins(f, u, v, MoneyPart)
                        /\ Begins(f, v, p + Len(a), StarsPart)
<1>1. PICK x \in PlusPart, y \in MoneyPart, w \in StarsPart : a = x \o y \o w
  BY SMTT(30) DEF Heads, PlusPart, MoneyPart, StarsPart
<1>2. x \in Text /\ y \in Text /\ w \in Text /\ Len(x) \in Nat /\ Len(y) \in Nat /\ Len(w) \in Nat
      /\ Len(f) \in Nat
  BY PartsAreTexts DEF Text
<1> DEFINE b == x \o y
           u == p + Len(x)
           v == p + Len(b)
<1>3. b \in Text
  BY <1>2, ConcatProperties DEF Text
<1>4. /\ At(f, p, b) <=> At(f, p, x) /\ At(f, p + Len(x), y)
      /\ Len(b) = Len(x) + Len(y)
  BY <1>2, AtJoin
<1> HIDE DEF b
<1>5. a = b \o w /\ a \in Text
  BY <1>1, <1>2, <1>3, ConcatProperties DEF Text, b
<1>6. At(f, p, b) /\ At(f, p + Len(b), w) /\ Len(a) = Len(b) + Len(w)
  BY <1>2, <1>3, <1>5, AtJoin
<1>7. v = u + Len(y) /\ p + Len(a) = v + Len(w)
  BY <1>2, <1>4, <1>6
<1> HIDE DEF u, v
<1>8. Begins(f, p, u, PlusPart)
  BY <1>4, <1>6 DEF Begins, u
<1>9. Begins(f, u, v, MoneyPart)
  BY <1>4, <1>6, <1>7 DEF Begins, u
<1>10. Begins(f, v, p + Len(a), StarsPart)
  BY <1>6, <1>7 DEF Begins, v
<1> QED BY <1>5, <1>8, <1>9, <1>10

LEMMA TailJoins ==
    ASSUME NEW f \in Text, NEW p \in 1..(Len(f) + 1), NEW u, NEW s,
           Begins(f, p, u, PowerPart), Begins(f, u, s, SignPart)
    PROVE  \E z \in Tails : z \in Text /\ At(f, p, z) /\ s = p + Len(z)
<1>1. PICK x \in PowerPart : At(f, p, x) /\ u = p + Len(x)
  BY DEF Begins
<1>2. PICK y \in SignPart : At(f, u, y) /\ s = u + Len(y)
  BY DEF Begins
<1>3. x \in Text /\ y \in Text /\ Len(x) \in Nat /\ Len(y) \in Nat /\ Len(f) \in Nat
  BY PartsAreTexts DEF Text
<1> DEFINE z == x \o y
<1>4. z \in Tails
  BY HeadsAndTails
<1>5. At(f, p, z) /\ Len(z) = Len(x) + Len(y)
  BY <1>1, <1>2, <1>3, AtJoin
<1>6. z \in Text
  BY <1>3, ConcatProperties DEF Text
<1> HIDE DEF z
<1>7. s = p + Len(z)
  BY <1>1, <1>2, <1>3, <1>5
<1> QED BY <1>4, <1>5, <1>6, <1>7

LEMMA TailSplits ==
    ASSUME NEW f \in Text, NEW p \in 1..(Len(f) + 1), NEW z \in Tails, At(f, p, z)
    PROVE  \E u : Begins(f, p, u, PowerPart) /\ Begins(f, u, p + Len(z), SignPart)
<1>1. PICK x \in PowerPart, y \in SignPart : z = x \o y
  BY HeadsAndTails
<1>2. x \in Text /\ y \in Text /\ Len(x) \in Nat /\ Len(y) \in Nat /\ Len(f) \in Nat
  BY PartsAreTexts DEF Text
<1> DEFINE u == p + Len(x)
<1>3. At(f, p, x) /\ At(f, u, y) /\ Len(z) = Len(x) + Len(y)
  BY <1>1, <1>2, AtJoin
<1>4. p + Len(z) = u + Len(y)
  BY <1>2, <1>3
<1>5. Begins(f, p, u, PowerPart)
  BY <1>3 DEF Begins
<1> HIDE DEF u
<1>6. Begins(f, u, p + Len(z), SignPart)
  BY <1>3, <1>4 DEF Begins
<1> QED BY <1>5, <1>6

LEMMA TailsAreTexts == Tails \subseteq Text
<1> SUFFICES ASSUME NEW z \in Tails PROVE z \in Text
  OBVIOUS
<1>1. PICK x \in PowerPart, y \in SignPart : z = x \o y
  BY HeadsAndTails
<1>2. x \in Text /\ y \in Text
  BY PartsAreTexts
<1> QED BY <1>1, <1>2, ConcatProperties DEF Text

(* The places of a text that falls into its parts.                          *)
LEMMA FitsPlaces ==
    ASSUME NEW f \in Text, NEW p \in 1..(Len(f) + 1), NEW t, Fits(f, p, t)
    PROVE  /\ Len(f) \in Nat
           /\ t[0] \in 1..(Len(f) + 1) /\ t[1] \in 1..(Len(f) + 1) /\ t[2] \in 1..(Len(f) + 1)
           /\ t[3] \in 1..(Len(f) + 1) /\ t[4] \in 1..(Len(f) + 1) /\ t[5] \in 1..(Len(f) + 1)
           /\ t[6] \in 1..(Len(f) + 1) /\ t[7] \in 1..(Len(f) + 1) /\ t[8] \in 1..(Len(f) + 1)
           /\ t[9] \in 1..(Len(f) + 1)
           /\ t[0] = p /\ t[3] <= t[4] /\ t[4] <= t[5] /\ t[5] <= t[6] /\ t[6] <= t[7]
<1>1. t \in [0..9 -> 1..(Len(f) + 1)]
  BY DEF Fits
<1>2. Len(f) \in Nat
  BY DEF Text
<1>3. t[3] <= t[4] /\ t[4] <= t[5] /\ t[5] <= t[6]
  BY DEF Fits, Run
<1>4. t[7] = t[6] \/ t[6] < t[7]
  BY DEF Fits
<1>5. t[6] <= t[7]
  <2>1. t[6] \in 1..(Len(f) + 1) /\ t[7] \in 1..(Len(f) + 1)
    BY <1>1
  <2>2. t[6] \in Nat /\ t[7] \in Nat
    BY <1>2, <2>1
  <2> QED BY <1>4, <2>2
<1> QED BY <1>1, <1>2, <1>3, <1>5 DEF Fits

LEMMA FitsNumeric ==
    ASSUME NEW f \in Text, NEW p \in 1..(Len(f) + 1), NEW t, Fits(f, p, t), Substance(t),
           f[Len(f)] # Comma
    PROVE  IsNumeric(f, p, t[9])
<1> DEFINE N == Len(f) + 1
           x3 == t[3]  x4 == t[4]  x5 == t[5]  x6 == t[6]  x7 == t[7]  x9 == t[9]
<1>1. /\ N \in Nat /\ x3 \in 1..N /\ x4 \in 1..N /\ x5 \in 1..N /\ x6 \in 1..N /\ x7 \in 1..N
      /\ x9 \in 1..N /\ t[0] = p /\ x3 <= x4 /\ x4 <= x5 /\ x5 <= x6 /\ x6 <= x7
  BY FitsPlaces
<1>2. PICK a \in Heads : a \in Text /\ At(f, p, a) /\ x3 = p + Len(a)
  <2>1. Begins(f, p, t[1], PlusPart) /\ Begins(f, t[1], t[2], MoneyPart) /\ Begins(f, t[2], t[3], StarsPart)
    BY DEF Fits
  <2> QED BY <2>1, HeadJoins
<1>3. PICK z \in Tails : z \in Text /\ At(f, x7, z) /\ x9 = x7 + Len(z)
  <2>1. Begins(f, t[7], t[8], PowerPart) /\ Begins(f, t[8], t[9], SignPart)
    BY DEF Fits
  <2> QED BY <1>1, <2>1, TailJoins
<1>4. Len(a) \in Nat /\ Len(z) \in Nat /\ p \in Nat
  BY <1>2, <1>3 DEF Text
<1>5. Only(f, x3, x4 - 1, "#") /\ Only(f, x4, x5 - 1, Comma) /\ Only(f, x5, x6 - 1, "#")
  BY DEF Fits, Run
<1>6. x6 < x7 => f[x6] = "." /\ Only(f, x6 + 1, x7 - 1, "#")
  <2>1. x7 = x6 \/ (x6 < x7 /\ f[x6] = "." /\ Only(f, x6 + 1, x7 - 1, "#"))
    BY DEF Fits, Run
  <2> HIDE DEF N, x3, x4, x5, x6, x7, x9
  <2> QED BY <1>1, <2>1
<1>7. a # <<>> \/ (x4 - x3) + (x6 - x5) > 0
  <2>1. x3 # p \/ (x4 - x3) + (x6 - x5) > 0
    BY <1>1 DEF Substance
  <2>2. a = <<>> => Len(a) = 0
    BY NoCharacter
  <2> HIDE DEF N, x3, x4, x5, x6, x7, x9
  <2> QED BY <1>2, <1>4, <2>1, <2>2
<1> HIDE DEF N, x3, x4, x5, x6, x7, x9
<1>8. p + Len(a) = x3 /\ x9 - Len(z) = x7
  BY <1>1, <1>2, <1>3, <1>4
<1>9. x4 \in x3..x7 /\ x5 \in x4..x7 /\ x6 \in x5..x7 /\ x3 <= x7
  BY <1>1
<1>10. IsNumeric(f, p, x9)
  BY <1>2, <1>3, <1>5, <1>6, <1>7, <1>8, <1>9 DEF IsNumeric
<1> QED BY <1>10 DEF x9

LEMMA ConcatText ==
    ASSUME NEW t \in Text, NEW u \in Text
    PROVE  /\ t \o u \in Text /\ Len(t) \in Nat /\ Len(u) \in Nat /\ Len(t \o u) = Len(t) + Len(u)
           /\ \A m \in 1..Len(t) : (t \o u)[m] = t[m]
           /\ \A m \in 1..Len(u) : (t \o u)[Len(t) + m] = u[m]
<1>1. Len(t) \in Nat /\ Len(u) \in Nat
  BY DEF Text
<1>2. t \o u \in Text /\ Len(t \o u) = Len(t) + Len(u)
      /\ \A i \in 1..(Len(t) + Len(u)) : (t \o u)[i] = IF i <= Len(t) THEN t[i] ELSE u[i - Len(t)]
  BY ConcatProperties DEF Text
<1> DEFINE w == t \o u
<1> HIDE DEF w
<1>3. /\ \A m \in 1..Len(t) : w[m] = t[m]
      /\ \A m \in 1..Len(u) : w[Len(t) + m] = u[m]
  BY <1>1, <1>2 DEF w
<1> QED BY <1>1, <1>2, <1>3 DEF w

LEMMA FiveCarets ==
    \A z \in Five : z \in Text /\ Len(z) >= 5 /\ \A m \in 1..5 : z[m] = "^"
<1> SUFFICES ASSUME NEW z \in Five PROVE z \in Text /\ Len(z) >= 5 /\ \A m \in 1..5 : z[m] = "^"
  OBVIOUS
<1> DEFINE d == <<"^">>
           c == d \o Carets
<1>1. PICK b \in SignPart : z = c \o b
  BY DEF Five, SignPart
<1>2. b \in Text
  BY PartsAreTexts
<1>3. d \in Text /\ Len(d) = 1 /\ d[1] = "^"
  BY Characters, OneCharacter
<1>4. Carets \in Text /\ Len(Carets) = 4
  BY Fixed
<1>5. \A m \in 1..4 : Carets[m] = "^"
  BY DEF Carets
<1> HIDE DEF d
<1>6. /\ c \in Text /\ Len(c) = Len(d) + Len(Carets)
      /\ \A m \in 1..Len(d) : c[m] = d[m]
      /\ \A m \in 1..Len(Carets) : c[Len(d) + m] = Carets[m]
  BY <1>3, <1>4, ConcatText
<1> HIDE DEF c
<1>7. Len(c) = 5
  BY <1>3, <1>4, <1>6
<1>8. ASSUME NEW m \in 1..5 PROVE c[m] = "^"
  <2>1. CASE m = 1
    BY <1>3, <1>6, <2>1
  <2>2. CASE m # 1
    <3>1. m - 1 \in 1..4 /\ Len(d) + (m - 1) = m
      BY <1>3, <2>2
    <3>2. c[Len(d) + (m - 1)] = Carets[m - 1]
      BY <1>4, <1>6, <3>1
    <3> QED BY <1>5, <3>1, <3>2
  <2> QED BY <2>1, <2>2
<1>9. /\ z \in Text /\ Len(b) \in Nat /\ Len(z) = Len(c) + Len(b)
      /\ \A m \in 1..Len(c) : z[m] = c[m]
  BY <1>1, <1>2, <1>6, ConcatText
<1> QED BY <1>7, <1>8, <1>9

LEMMA NumericFits ==
    ASSUME NEW f \in Text, NEW p \in 1..(Len(f) + 1), NEW q \in 1..(Len(f) + 1), IsNumeric(f, p, q),
           Known(f, p)
    PROVE  \E t : Fits(f, p, t) /\ Substance(t) /\ t[9] = q
<1>1. PICK a \in Heads, z \in Tails \cup Five :
        LET s == p + Len(a)
            e == q - Len(z)
        IN  /\ s <= e /\ At(f, p, a) /\ At(f, e, z)
            /\ \E i \in s..e : \E j \in i..e : \E k \in j..e :
                  /\ Only(f, s, i - 1, "#") /\ Only(f, i, j - 1, Comma) /\ Only(f, j, k - 1, "#")
                  /\ k < e => f[k] = "." /\ Only(f, k + 1, e - 1, "#")
                  /\ a # <<>> \/ (i - s) + (k - j) > 0 \/ (k = p /\ k + 1 < e)
  BY DEF IsNumeric
<1> DEFINE s == p + Len(a)
           e == q - Len(z)
<1>2. s <= e /\ At(f, p, a) /\ At(f, e, z)
  BY <1>1
<1>3. PICK i \in s..e : \E j \in i..e : \E k \in j..e :
                  /\ Only(f, s, i - 1, "#") /\ Only(f, i, j - 1, Comma) /\ Only(f, j, k - 1, "#")
                  /\ k < e => f[k] = "." /\ Only(f, k + 1, e - 1, "#")
                  /\ a # <<>> \/ (i - s) + (k - j) > 0 \/ (k = p /\ k + 1 < e)
  BY <1>1
<1>a. PICK j \in i..e : \E k \in j..e :
                  /\ Only(f, s, i - 1, "#") /\ Only(f, i, j - 1, Comma) /\ Only(f, j, k - 1, "#")
                  /\ k < e => f[k] = "." /\ Only(f, k + 1, e - 1, "#")
                  /\ a # <<>> \/ (i - s) + (k - j) > 0 \/ (k = p /\ k + 1 < e)
  BY <1>3
<1>4. PICK k \in j..e :
                  /\ Only(f, s, i - 1, "#") /\ Only(f, i, j - 1, Comma) /\ Only(f, j, k - 1, "#")
                  /\ k < e => f[k] = "." /\ Only(f, k + 1, e - 1, "#")
                  /\ a # <<>> \/ (i - s) + (k - j) > 0 \/ (k = p /\ k + 1 < e)
  BY <1>a
<1>b. z \in Text
  BY TailsAreTexts, FiveCarets
<1>5. a \in Text /\ z \in Text /\ Len(a) \in Nat /\ Len(z) \in Nat /\ Len(f) \in Nat /\ p \in Nat /\ q \in Nat
  BY <1>2, <1>b, HeadSplits DEF Text
<1>6. e \in 1..(Len(f) + 1) /\ e + Len(z) = q /\ s \in 1..(Len(f) + 1)
  BY <1>2, <1>5
<1>c. z \in Tails
  <2> SUFFICES ASSUME z \in Five PROVE FALSE
    OBVIOUS
  <2> HIDE DEF e, s
  <2>1. Len(z) >= 5 /\ \A m \in 1..5 : z[m] = "^"
    BY FiveCarets
  <2>2. e + Len(z) - 1 <= Len(f) /\ \A m \in 1..Len(z) : f[e + m - 1] = z[m]
    BY <1>2, <1>5, <1>6, AtMeans
  <2>3. e \in 1..(Len(f) - 4)
    BY <1>5, <1>6, <2>1, <2>2
  <2>4. ASSUME NEW m \in e..(e + 4) PROVE f[m] = "^"
    <3>1. m - e + 1 \in 1..5 /\ m - e + 1 \in 1..Len(z) /\ e + (m - e + 1) - 1 = m
      BY <1>5, <2>1, <2>3
    <3> QED BY <2>1, <2>2, <3>1
  <2> QED BY <2>3, <2>4 DEF Known, Only
<1>7. i \in 1..(Len(f) + 1) /\ j \in 1..(Len(f) + 1) /\ k \in 1..(Len(f) + 1)
      /\ s <= i /\ i <= j /\ j <= k /\ k <= e
  <2>1. i \in s..e /\ j \in i..e /\ k \in j..e
    OBVIOUS
  <2>2. e \in Nat /\ s \in Nat /\ e <= Len(f) + 1 /\ 1 <= s
    BY <1>5, <1>6
  <2> HIDE DEF s, e
  <2>3. i \in Nat /\ j \in Nat /\ k \in Nat /\ s <= i /\ i <= j /\ j <= k /\ k <= e
    BY <2>1, <2>2
  <2> QED BY <1>5, <2>2, <2>3
<1>8. PICK u, v : /\ Begins(f, p, u, PlusPart) /\ Begins(f, u, v, MoneyPart)
                  /\ Begins(f, v, s, StarsPart)
  BY <1>2, HeadSplits
<1>9. PICK w : Begins(f, e, w, PowerPart) /\ Begins(f, w, q, SignPart)
  <2> HIDE DEF e
  <2>1. PICK w : Begins(f, e, w, PowerPart) /\ Begins(f, w, e + Len(z), SignPart)
    BY <1>2, <1>6, <1>c, TailSplits
  <2> QED BY <1>6, <2>1
<1> HIDE DEF s, e
<1>10. u \in 1..(Len(f) + 1) /\ v \in 1..(Len(f) + 1) /\ w \in 1..(Len(f) + 1)
  <2>1. u \in 1..(Len(f) + 1)
    BY <1>8, PartsAreTexts, BeginsStays
  <2>2. v \in 1..(Len(f) + 1)
    BY <1>8, <2>1, PartsAreTexts, BeginsStays
  <2>3. w \in 1..(Len(f) + 1)
    BY <1>6, <1>9, PartsAreTexts, BeginsStays
  <2> QED BY <2>1, <2>2, <2>3
<1> DEFINE t == [n \in 0..9 |->
                   IF n = 0 THEN p ELSE IF n = 1 THEN u ELSE IF n = 2 THEN v ELSE IF n = 3 THEN s
                   ELSE IF n = 4 THEN i ELSE IF n = 5 THEN j ELSE IF n = 6 THEN k ELSE IF n = 7 THEN e
                   ELSE IF n = 8 THEN w ELSE q]
<1>11. t[0] = p /\ t[1] = u /\ t[2] = v /\ t[3] = s /\ t[4] = i /\ t[5] = j /\ t[6] = k /\ t[7] = e
       /\ t[8] = w /\ t[9] = q
  OBVIOUS
<1>12. t \in [0..9 -> 1..(Len(f) + 1)]
  BY <1>6, <1>7, <1>10
<1> HIDE DEF t
<1>13. Run(f, s, i, "#") /\ Run(f, i, j, Comma) /\ Run(f, j, k, "#")
  BY <1>4, <1>7 DEF Run
<1>14. e = k \/ (k < e /\ f[k] = "." /\ Run(f, k + 1, e, "#"))
  BY <1>4, <1>6, <1>7 DEF Run
<1>15. Fits(f, p, t)
  BY <1>8, <1>9, <1>11, <1>12, <1>13, <1>14 DEF Fits
<1>16. Substance(t)
  <2>1. a # <<>> => s # p
    <3>1. a # <<>> => Len(a) # 0
      BY <1>5, EmptySeq DEF Text
    <3> QED BY <1>5, <3>1 DEF s
  <2>2. a # <<>> \/ (i - s) + (k - j) > 0
    <3>1. ~(k = p /\ k + 1 < e)
      <4> SUFFICES ASSUME k = p, k + 1 < e PROVE FALSE
        OBVIOUS
      <4>1. k < e
        BY <1>6, <1>7
      <4>2. f[p] = "."
        BY <1>4, <4>1
      <4> QED BY <4>2 DEF Known
    <3> QED BY <1>4, <3>1
  <2> QED BY <1>11, <2>1, <2>2 DEF Substance
<1> QED BY <1>11, <1>15, <1>16

LEMMA AtFirst ==
    ASSUME NEW f \in Text, NEW p \in 1..(Len(f) + 1), NEW s \in Text, NEW i \in 1..Len(s), At(f, p, s)
    PROVE  p <= Len(f) /\ p + i - 1 <= Len(f) /\ f[p + i - 1] = s[i]
<1>1. Len(f) \in Nat /\ Len(s) \in Nat /\ p \in Nat
  BY DEF Text
<1>2. p + Len(s) - 1 <= Len(f) /\ f[p + i - 1] = s[i]
  BY AtMeans
<1> QED BY <1>1, <1>2

(* What is read where a part is there.                                      *)
LEMMA FirstCharacters ==
    ASSUME NEW f \in Text, NEW p \in 1..(Len(f) + 1)
    PROVE  /\ At(f, p, <<"+">>) => p <= Len(f) /\ f[p] = "+"
           /\ At(f, p, <<"-">>) => p <= Len(f) /\ f[p] = "-"
           /\ At(f, p, <<"$", "$">>) => p <= Len(f) /\ f[p] = "$"
           /\ At(f, p, <<"*", "*">>) => p <= Len(f) /\ f[p] = "*"
           /\ At(f, p, <<"*", "*", "$">>) =>
                 p <= Len(f) /\ f[p] = "*" /\ At(f, p, <<"*", "*">>) /\ p + 2 <= Len(f) /\ f[p + 2] = "$"
           /\ At(f, p, Carets) => p <= Len(f) /\ f[p] = "^"
<1>1. Len(f) \in Nat /\ p \in Nat /\ p + 1 - 1 = p /\ p + 3 - 1 = p + 2 /\ p + 2 - 1 = p + 1
  BY DEF Text
<1>2. /\ At(f, p, <<"+">>) => p <= Len(f) /\ f[p] = "+"
      /\ At(f, p, <<"-">>) => p <= Len(f) /\ f[p] = "-"
  BY AtOne, Characters
<1>3. ASSUME At(f, p, <<"$", "$">>) PROVE p <= Len(f) /\ f[p] = "$"
  <2> DEFINE s == <<"$", "$">>
  <2>1. s \in Text /\ 1 \in 1..Len(s) /\ s[1] = "$"
    BY Fixed
  <2> HIDE DEF s
  <2>2. At(f, p, s)
    BY <1>3 DEF s
  <2>3. p <= Len(f) /\ f[p + 1 - 1] = s[1]
    BY <2>1, <2>2, AtFirst
  <2> QED BY <1>1, <2>1, <2>3
<1>4. ASSUME At(f, p, <<"*", "*">>) PROVE p <= Len(f) /\ f[p] = "*"
  <2> DEFINE s == <<"*", "*">>
  <2>1. s \in Text /\ 1 \in 1..Len(s) /\ s[1] = "*"
    BY Fixed
  <2> HIDE DEF s
  <2>2. At(f, p, s)
    BY <1>4 DEF s
  <2>3. p <= Len(f) /\ f[p + 1 - 1] = s[1]
    BY <2>1, <2>2, AtFirst
  <2> QED BY <1>1, <2>1, <2>3
<1>5. ASSUME At(f, p, Carets) PROVE p <= Len(f) /\ f[p] = "^"
  <2>1. Carets \in Text /\ 1 \in 1..Len(Carets) /\ Carets[1] = "^"
    BY Fixed DEF Carets
  <2>2. p <= Len(f) /\ f[p + 1 - 1] = Carets[1]
    BY <1>5, <2>1, AtFirst
  <2> QED BY <1>1, <2>1, <2>2
<1>6. ASSUME At(f, p, <<"*", "*", "$">>)
      PROVE  p <= Len(f) /\ f[p] = "*" /\ At(f, p, <<"*", "*">>) /\ p + 2 <= Len(f) /\ f[p + 2] = "$"
  <2> DEFINE s == <<"*", "*", "$">>
             a == <<"*", "*">>
  <2>1. s \in Text /\ Len(s) = 3 /\ s[1] = "*" /\ s[2] = "*" /\ s[3] = "$"
    BY Fixed
  <2>2. a \in Text /\ Len(a) = 2 /\ a[1] = "*" /\ a[2] = "*"
    BY Fixed
  <2> HIDE DEF s, a
  <2>3. At(f, p, s)
    BY <1>6 DEF s
  <2>4. p <= Len(f) /\ f[p + 1 - 1] = "*" /\ f[p + 2 - 1] = "*" /\ p + 3 - 1 <= Len(f) /\ f[p + 3 - 1] = "$"
    <3>1. 1 \in 1..Len(s) /\ 2 \in 1..Len(s) /\ 3 \in 1..Len(s)
      BY <2>1
    <3>2. p <= Len(f) /\ p + 1 - 1 <= Len(f) /\ f[p + 1 - 1] = s[1]
      BY <2>1, <2>3, <3>1, AtFirst
    <3>3. p + 2 - 1 <= Len(f) /\ f[p + 2 - 1] = s[2]
      BY <2>1, <2>3, <3>1, AtFirst
    <3>4. p + 3 - 1 <= Len(f) /\ f[p + 3 - 1] = s[3]
      BY <2>1, <2>3, <3>1, AtFirst
    <3> QED BY <2>1, <3>2, <3>3, <3>4
  <2>5. At(f, p, a)
    <3>1. p + Len(a) - 1 <= Len(f)
      BY <1>1, <2>2, <2>4
    <3>2. ASSUME NEW i \in 1..Len(a) PROVE f[p + i - 1] = a[i]
      <4>1. i = 1 \/ i = 2
        BY <2>2
      <4> QED BY <2>2, <2>4, <4>1
    <3> QED BY <2>2, <3>1, <3>2, AtMeans
  <2> QED BY <1>1, <2>4, <2>5 DEF a
<1> QED BY <1>2, <1>3, <1>4, <1>5, <1>6

(* A run of c up to a place where there is no c.                            *)
LEMMA RunLess ==
    ASSUME NEW f \in Text, NEW i \in 1..(Len(f) + 1), NEW j \in 1..(Len(f) + 1),
           NEW m \in 1..(Len(f) + 1), NEW c,
           Run(f, i, j, c), i <= m, m <= Len(f) => f[m] # c, Run(f, i, m, c)
    PROVE  j <= m /\ (j < m => f[j] = c)
<1>1. Len(f) \in Nat
  BY DEF Text
<1>2. \A k \in i..(j - 1) : f[k] = c
  BY DEF Run, Only
<1>3. \A k \in i..(m - 1) : f[k] = c
  BY DEF Run, Only
<1>4. j > m => m \in i..(j - 1) /\ m <= Len(f)
  BY <1>1
<1>5. j < m => j \in i..(m - 1)
  BY <1>1 DEF Run
<1> QED BY <1>1, <1>2, <1>3, <1>4, <1>5

LEMMA RunStays ==
    ASSUME NEW f \in Text, NEW i \in 1..(Len(f) + 1), NEW j \in 1..(Len(f) + 1), NEW c, Run(f, i, j, c)
    PROVE  i <= j /\ (j = i \/ (i <= Len(f) /\ f[i] = c))
<1>1. Len(f) \in Nat
  BY DEF Text
<1>2. i <= j /\ \A k \in i..(j - 1) : f[k] = c
  BY DEF Run, Only
<1>3. j # i => i \in i..(j - 1) /\ i <= Len(f)
  BY <1>1, <1>2
<1> QED BY <1>2, <1>3

(* A part is there or not, and what is read tells which part begins.        *)
LEMMA PartFacts ==
    ASSUME NEW f \in Text, NEW p \in 1..(Len(f) + 1), NEW u
    PROVE  /\ Begins(f, p, u, PlusPart) => u = p \/ (At(f, p, <<"+">>) /\ u = p + 1)
           /\ Begins(f, p, u, MoneyPart) => u = p \/ (At(f, p, <<"$", "$">>) /\ u = p + 2)
           /\ Begins(f, p, u, StarsPart) =>
                 \/ u = p
                 \/ At(f, p, <<"*", "*">>) /\ u = p + 2
                 \/ At(f, p, <<"*", "*", "$">>) /\ u = p + 3
           /\ Begins(f, p, u, PowerPart) => u = p \/ (At(f, p, Carets) /\ u = p + 4)
           /\ Begins(f, p, u, SignPart) =>
                 u = p \/ ((At(f, p, <<"+">>) \/ At(f, p, <<"-">>)) /\ u = p + 1)
<1>1. p + 0 = p
  BY DEF Text
<1>2. /\ Len(<<>>) = 0 /\ Len(<<"+">>) = 1 /\ Len(<<"-">>) = 1 /\ Len(<<"$", "$">>) = 2
      /\ Len(<<"*", "*">>) = 2 /\ Len(<<"*", "*", "$">>) = 3 /\ Len(Carets) = 4
  BY Fixed, NoCharacter
<1>3. ASSUME Begins(f, p, u, PlusPart) PROVE u = p \/ (At(f, p, <<"+">>) /\ u = p + 1)
  <2>1. PICK x \in PlusPart : At(f, p, x) /\ u = p + Len(x)
    BY <1>3 DEF Begins
  <2>2. x = <<>> \/ x = <<"+">>
    BY DEF PlusPart
  <2> QED BY <1>1, <1>2, <2>1, <2>2
<1>4. ASSUME Begins(f, p, u, MoneyPart) PROVE u = p \/ (At(f, p, <<"$", "$">>) /\ u = p + 2)
  <2>1. PICK x \in MoneyPart : At(f, p, x) /\ u = p + Len(x)
    BY <1>4 DEF Begins
  <2>2. x = <<>> \/ x = <<"$", "$">>
    BY DEF MoneyPart
  <2> QED BY <1>1, <1>2, <2>1, <2>2
<1>5. ASSUME Begins(f, p, u, StarsPart)
      PROVE  \/ u = p
             \/ At(f, p, <<"*", "*">>) /\ u = p + 2
             \/ At(f, p, <<"*", "*", "$">>) /\ u = p + 3
  <2>1. PICK x \in StarsPart : At(f, p, x) /\ u = p + Len(x)
    BY <1>5 DEF Begins
  <2>2. x = <<>> \/ x = <<"*", "*">> \/ x = <<"*", "*", "$">>
    BY DEF StarsPart
  <2> QED BY <1>1, <1>2, <2>1, <2>2
<1>6. ASSUME Begins(f, p, u, PowerPart) PROVE u = p \/ (At(f, p, Carets) /\ u = p + 4)
  <2>1. PICK x \in PowerPart : At(f, p, x) /\ u = p + Len(x)
    BY <1>6 DEF Begins
  <2>2. x = <<>> \/ x = Carets
    BY DEF PowerPart
  <2> QED BY <1>1, <1>2, <2>1, <2>2
<1>7. ASSUME Begins(f, p, u, SignPart)
      PROVE  u = p \/ ((At(f, p, <<"+">>) \/ At(f, p, <<"-">>)) /\ u = p + 1)
  <2>1. PICK x \in SignPart : At(f, p, x) /\ u = p + Len(x)
    BY <1>7 DEF Begins
  <2>2. x = <<>> \/ x = <<"+">> \/ x = <<"-">>
    BY DEF SignPart
  <2> QED BY <1>1, <1>2, <2>1, <2>2
<1> QED BY <1>3, <1>4, <1>5, <1>6, <1>7

LEMMA StaysUnless ==
    ASSUME NEW f \in Text, NEW p \in 1..(Len(f) + 1), NEW t, Fits(f, p, t)
    PROVE  /\ t[1] = t[0] \/ f[t[0]] = "+"
           /\ t[2] = t[1] \/ f[t[1]] = "$"
           /\ t[3] = t[2] \/ f[t[2]] = "*"
           /\ t[4] = t[3] \/ f[t[3]] = "#"
           /\ t[5] = t[4] \/ f[t[4]] = Comma
           /\ t[6] = t[5] \/ f[t[5]] = "#"
           /\ t[7] = t[6] \/ f[t[6]] = "."
           /\ t[8] = t[7] \/ f[t[7]] = "^"
           /\ t[9] = t[8] \/ f[t[8]] \in {"+", "-"}
<1>1. /\ Len(f) \in Nat
      /\ t[0] \in 1..(Len(f) + 1) /\ t[1] \in 1..(Len(f) + 1) /\ t[2] \in 1..(Len(f) + 1)
      /\ t[3] \in 1..(Len(f) + 1) /\ t[4] \in 1..(Len(f) + 1) /\ t[5] \in 1..(Len(f) + 1)
      /\ t[6] \in 1..(Len(f) + 1) /\ t[7] \in 1..(Len(f) + 1) /\ t[8] \in 1..(Len(f) + 1)
  BY FitsPlaces
<1>2. /\ Begins(f, t[0], t[1], PlusPart) /\ Begins(f, t[1], t[2], MoneyPart)
      /\ Begins(f, t[2], t[3], StarsPart) /\ Begins(f, t[7], t[8], PowerPart)
      /\ Begins(f, t[8], t[9], SignPart)
      /\ Run(f, t[3], t[4], "#") /\ Run(f, t[4], t[5], Comma) /\ Run(f, t[5], t[6], "#")
      /\ t[7] = t[6] \/ f[t[6]] = "."
  BY DEF Fits
<1> DEFINE x0 == t[0]  x1 == t[1]  x2 == t[2]  x3 == t[3]  x4 == t[4]
           x5 == t[5]  x6 == t[6]  x7 == t[7]  x8 == t[8]  x9 == t[9]
<1> HIDE DEF x0, x1, x2, x3, x4, x5, x6, x7, x8, x9
<1>3. x1 = x0 \/ f[x0] = "+"
  <2>1. x0 \in 1..(Len(f) + 1) /\ Begins(f, x0, x1, PlusPart)
    BY <1>1, <1>2 DEF x0, x1
  <2>2. x1 = x0 \/ At(f, x0, <<"+">>)
    BY <2>1, PartFacts
  <2> QED BY <2>1, <2>2, FirstCharacters
<1>4. x2 = x1 \/ f[x1] = "$"
  <2>1. x1 \in 1..(Len(f) + 1) /\ Begins(f, x1, x2, MoneyPart)
    BY <1>1, <1>2 DEF x1, x2
  <2>2. x2 = x1 \/ At(f, x1, <<"$", "$">>)
    BY <2>1, PartFacts
  <2> QED BY <2>1, <2>2, FirstCharacters
<1>5. x3 = x2 \/ f[x2] = "*"
  <2>1. x2 \in 1..(Len(f) + 1) /\ Begins(f, x2, x3, StarsPart)
    BY <1>1, <1>2 DEF x2, x3
  <2>2. x3 = x2 \/ At(f, x2, <<"*", "*">>) \/ At(f, x2, <<"*", "*", "$">>)
    BY <2>1, PartFacts
  <2> QED BY <2>1, <2>2, FirstCharacters
<1>6. x4 = x3 \/ f[x3] = "#"
  <2>1. x3 \in 1..(Len(f) + 1) /\ x4 \in 1..(Len(f) + 1) /\ Run(f, x3, x4, "#")
    BY <1>1, <1>2 DEF x3, x4
  <2> QED BY <2>1, RunStays
<1>7. x5 = x4 \/ f[x4] = Comma
  <2>1. x4 \in 1..(Len(f) + 1) /\ x5 \in 1..(Len(f) + 1) /\ Run(f, x4, x5, Comma)
    BY <1>1, <1>2 DEF x4, x5
  <2> QED BY <2>1, RunStays
<1>8. x6 = x5 \/ f[x5] = "#"
  <2>1. x5 \in 1..(Len(f) + 1) /\ x6 \in 1..(Len(f) + 1) /\ Run(f, x5, x6, "#")
    BY <1>1, <1>2 DEF x5, x6
  <2> QED BY <2>1, RunStays
<1>9. x8 = x7 \/ f[x7] = "^"
  <2>1. x7 \in 1..(Len(f) + 1) /\ Begins(f, x7, x8, PowerPart)
    BY <1>1, <1>2 DEF x7, x8
  <2>2. x8 = x7 \/ At(f, x7, Carets)
    BY <2>1, PartFacts
  <2> QED BY <2>1, <2>2, FirstCharacters
<1>10. x9 = x8 \/ f[x8] \in {"+", "-"}
  <2>1. x8 \in 1..(Len(f) + 1) /\ Begins(f, x8, x9, SignPart)
    BY <1>1, <1>2 DEF x8, x9
  <2>2. x9 = x8 \/ At(f, x8, <<"+">>) \/ At(f, x8, <<"-">>)
    BY <2>1, PartFacts
  <2> QED BY <2>1, <2>2, FirstCharacters
<1> QED BY <1>2, <1>3, <1>4, <1>5, <1>6, <1>7, <1>8, <1>9, <1>10
        DEF x0, x1, x2, x3, x4, x5, x6, x7, x8, x9

LEMMA PastMoneyOrPower ==
    ASSUME NEW f \in Text, NEW p \in 1..(Len(f) + 1)
    PROVE  /\ \/ At(f, p, <<"$", "$">>) /\ Past(f, p, <<"$", "$">>) = p + 2 /\ f[p] = "$"
              \/ ~At(f, p, <<"$", "$">>) /\ Past(f, p, <<"$", "$">>) = p
           /\ \/ At(f, p, Carets) /\ Past(f, p, Carets) = p + 4 /\ f[p] = "^"
              \/ ~At(f, p, Carets) /\ Past(f, p, Carets) = p
<1> DEFINE s == <<"$", "$">>
<1>1. s \in Text /\ Len(s) = 2 /\ Carets \in Text /\ Len(Carets) = 4
  BY Fixed
<1>2. (At(f, p, s) => f[p] = "$") /\ (At(f, p, Carets) => f[p] = "^")
  BY FirstCharacters
<1> HIDE DEF s
<1>3. /\ At(f, p, s) => Past(f, p, s) = p + 2
      /\ ~At(f, p, s) => Past(f, p, s) = p
  BY <1>1 DEF Past
<1>4. /\ At(f, p, Carets) => Past(f, p, Carets) = p + 4
      /\ ~At(f, p, Carets) => Past(f, p, Carets) = p
  BY <1>1 DEF Past
<1>5. /\ \/ At(f, p, s) /\ Past(f, p, s) = p + 2 /\ f[p] = "$"
         \/ ~At(f, p, s) /\ Past(f, p, s) = p
      /\ \/ At(f, p, Carets) /\ Past(f, p, Carets) = p + 4 /\ f[p] = "^"
         \/ ~At(f, p, Carets) /\ Past(f, p, Carets) = p
  BY <1>2, <1>3, <1>4
<1> QED BY <1>5 DEF s

(* The scan goes at least as far as any text with the parts of a field.     *)
LEMMA Greedy ==
    ASSUME NEW f \in Text, NEW p \in 1..(Len(f) + 1), NEW t, Fits(f, p, t), Substance(t),
           NEW e, EndsAt(f, p, e)
    PROVE  t[9] <= e[9] /\ Substance(e)
<1> DEFINE N == Len(f) + 1
           x0 == t[0]  x1 == t[1]  x2 == t[2]  x3 == t[3]  x4 == t[4]
           x5 == t[5]  x6 == t[6]  x7 == t[7]  x8 == t[8]  x9 == t[9]
           y0 == e[0]  y1 == e[1]  y2 == e[2]  y3 == e[3]  y4 == e[4]
           y5 == e[5]  y6 == e[6]  y7 == e[7]  y8 == e[8]  y9 == e[9]
<1>1. /\ N \in Nat /\ N = Len(f) + 1 /\ Len(f) \in Nat
      /\ x0 \in 1..N /\ x1 \in 1..N /\ x2 \in 1..N /\ x3 \in 1..N /\ x4 \in 1..N
      /\ x5 \in 1..N /\ x6 \in 1..N /\ x7 \in 1..N /\ x8 \in 1..N /\ x9 \in 1..N
  BY FitsPlaces
<1>2. x0 = p /\ x3 <= x4 /\ x4 <= x5 /\ x5 <= x6 /\ x6 <= x7
  BY FitsPlaces
<1>3. /\ y0 \in 1..N /\ y1 \in 1..N /\ y2 \in 1..N /\ y3 \in 1..N /\ y4 \in 1..N
      /\ y5 \in 1..N /\ y6 \in 1..N /\ y7 \in 1..N /\ y8 \in 1..N /\ y9 \in 1..N
  BY EndsIn
<1>4. /\ y0 = p /\ y0 <= y1 /\ y1 <= y2 /\ y2 <= y3 /\ y3 <= y4 /\ y4 <= y5 /\ y5 <= y6 /\ y6 <= y7
      /\ y7 <= y8 /\ y8 <= y9
  BY EndFacts
<1>5. /\ y1 = Past(f, y0, <<"+">>) /\ y2 = Past(f, y1, <<"$", "$">>)
      /\ y3 = Stars(f, y2) /\ y4 = Skip(f, y3, "#") /\ y5 = Skip(f, y4, Comma)
      /\ y6 = Skip(f, y5, "#") /\ y7 = Point(f, y6) /\ y8 = Past(f, y7, Carets)
      /\ y9 = Sign(f, y8)
  BY DEF EndsAt
<1>6. /\ x1 = x0 \/ f[x0] = "+"
      /\ x2 = x1 \/ f[x1] = "$"
      /\ x3 = x2 \/ f[x2] = "*"
      /\ x4 = x3 \/ f[x3] = "#"
      /\ x5 = x4 \/ f[x4] = Comma
      /\ x6 = x5 \/ f[x5] = "#"
      /\ x7 = x6 \/ f[x6] = "."
      /\ x8 = x7 \/ f[x7] = "^"
      /\ x9 = x8 \/ f[x8] \in {"+", "-"}
  BY StaysUnless
<1>7. /\ Begins(f, x0, x1, PlusPart) /\ Begins(f, x1, x2, MoneyPart)
      /\ Begins(f, x2, x3, StarsPart) /\ Begins(f, x7, x8, PowerPart)
      /\ Begins(f, x8, x9, SignPart)
      /\ Run(f, x3, x4, "#") /\ Run(f, x4, x5, Comma) /\ Run(f, x5, x6, "#")
      /\ x7 = x6 \/ (x6 < x7 /\ f[x6] = "." /\ Run(f, x6 + 1, x7, "#"))
  BY DEF Fits
<1>8. x3 # x0 \/ (x4 - x3) + (x6 - x5) > 0
  BY DEF Substance
<1>9. (y3 # y0 \/ (y4 - y3) + (y6 - y5) > 0) => Substance(e)
  BY DEF Substance
<1> HIDE DEF N, x0, x1, x2, x3, x4, x5, x6, x7, x8, x9, y0, y1, y2, y3, y4, y5, y6, y7, y8, y9
<1>n. /\ x0 \in Nat /\ x1 \in Nat /\ x2 \in Nat /\ x3 \in Nat /\ x4 \in Nat
      /\ x5 \in Nat /\ x6 \in Nat /\ x7 \in Nat /\ x8 \in Nat /\ x9 \in Nat
  BY <1>1
<1>y. /\ y0 \in Nat /\ y1 \in Nat /\ y2 \in Nat /\ y3 \in Nat /\ y4 \in Nat
      /\ y5 \in Nat /\ y6 \in Nat /\ y7 \in Nat /\ y8 \in Nat /\ y9 \in Nat
  BY <1>1, <1>3
<1>m. /\ y8 <= y9 /\ y7 <= y9 /\ y6 <= y9 /\ y5 <= y9 /\ y4 <= y9 /\ y3 <= y9 /\ y2 <= y9
      /\ y1 <= y3 /\ y0 <= y1 /\ y0 <= y3
  BY <1>4, <1>y
<1>c. Comma \notin {"#", ".", "^", "+", "-", "$", "*"}
  BY Distinct
<1>10. x1 = y1
  <2>1. x1 = p \/ (At(f, p, <<"+">>) /\ x1 = p + 1)
    BY <1>2, <1>7, PartFacts
  <2>2. \/ At(f, p, <<"+">>) /\ y1 = p + 1
        \/ ~At(f, p, <<"+">>) /\ y1 = p
    BY <1>4, <1>5, Fixed, PastFacts, ZenonT(40)
  <2>3. SUFFICES ASSUME x1 = p, At(f, p, <<"+">>) PROVE FALSE
    BY <2>1, <2>2
  <2>4. f[p] = "+"
    BY <2>3, FirstCharacters
  <2>5. x2 = p /\ x3 = p /\ x4 = p /\ x5 = p /\ x6 = p
    BY <1>c, <1>6, <2>3, <2>4
  <2> QED BY <1>1, <1>2, <1>8, <2>5
<1>11. x2 = y2 \/ (x2 < y2 /\ f[x2] = "$")
  <2>1. x2 = y1 \/ (At(f, y1, <<"$", "$">>) /\ x2 = y1 + 2)
    BY <1>1, <1>7, <1>10, PartFacts
  <2>2. \/ At(f, y1, <<"$", "$">>) /\ y2 = y1 + 2 /\ f[y1] = "$"
        \/ ~At(f, y1, <<"$", "$">>) /\ y2 = y1
    BY <1>1, <1>3, <1>5, PastMoneyOrPower
  <2> QED BY <1>n, <1>y, <2>1, <2>2
<1>12. CASE x2 < y2 /\ f[x2] = "$"
  <2>1. x9 = x2
    BY <1>c, <1>6, <1>12
  <2>2. x2 <= y9 /\ y3 # y0
    <3>1. x2 >= p
      <4>1. x2 = y1 \/ x2 = y1 + 2
        BY <1>1, <1>7, <1>10, PartFacts
      <4> QED BY <1>4, <1>n, <1>y, <4>1
    <3>2. y2 <= y3 /\ y2 <= y9 /\ y0 = p
      BY <1>4, <1>m
    <3> QED BY <1>n, <1>y, <1>12, <3>1, <3>2
  <2> QED BY <1>9, <2>1, <2>2 DEF x9, y9
<1>13. CASE x2 = y2
  <2>1. x3 = y3 \/ (x3 < y3 /\ f[x3] \in {"*", "$"} /\ x3 >= y2)
    <3>1. \/ x3 = y2
          \/ At(f, y2, <<"*", "*">>) /\ x3 = y2 + 2
          \/ At(f, y2, <<"*", "*", "$">>) /\ x3 = y2 + 3
      BY <1>1, <1>7, <1>13, PartFacts
    <3>2. \/ At(f, y2, <<"*", "*", "$">>) /\ y3 = y2 + 3
          \/ ~At(f, y2, <<"*", "*", "$">>) /\ At(f, y2, <<"*", "*">>) /\ y3 = y2 + 2
          \/ ~At(f, y2, <<"*", "*", "$">>) /\ ~At(f, y2, <<"*", "*">>) /\ y3 = y2
      BY <1>1, <1>3, <1>5, Fixed, PastFacts DEF Stars
    <3>3. /\ At(f, y2, <<"*", "*", "$">>) => f[y2] = "*" /\ At(f, y2, <<"*", "*">>) /\ f[y2 + 2] = "$"
          /\ At(f, y2, <<"*", "*">>) => f[y2] = "*"
      BY <1>1, <1>3, FirstCharacters
    <3> QED BY <1>n, <1>y, <3>1, <3>2, <3>3
  <2>2. CASE x3 < y3 /\ f[x3] \in {"*", "$"} /\ x3 >= y2
    <3>1. x9 = x3
      BY <1>c, <1>6, <2>2
    <3>2. x3 <= y9 /\ y3 # y0
      <4>1. y3 <= y9 /\ y0 <= y2
        BY <1>4, <1>m, <1>y
      <4> QED BY <1>n, <1>y, <2>2, <4>1
    <3> QED BY <1>9, <3>1, <3>2 DEF x9, y9
  <2>3. CASE x3 = y3
    <3>1. /\ x4 <= y4
          /\ x4 < y4 => f[x4] = "#"
      <4>1. Only(f, y3, y4 - 1, "#") /\ (y4 <= Len(f) => f[y4] # "#")
        BY <1>1, <1>3, <1>5, SkipFacts
      <4>2. Run(f, y3, y4, "#") /\ Run(f, y3, x4, "#")
        BY <1>4, <1>7, <2>3, <4>1 DEF Run
      <4> QED BY <1>1, <1>3, <1>4, <4>1, <4>2, RunLess
    <3>e. y4 <= Len(f) => f[y4] # "#"
      BY <1>1, <1>3, <1>5, SkipFacts
    <3>f. Only(f, y3, y4 - 1, "#")
      BY <1>1, <1>3, <1>5, SkipFacts
    <3>g. y4 = y5 \/ (y4 <= Len(f) /\ f[y4] = Comma)
      <4>1. Run(f, y4, y5, Comma)
        BY <1>1, <1>3, <1>4, <1>5, SkipFacts DEF Run
      <4>2. y5 = y4 \/ (y4 <= Len(f) /\ f[y4] = Comma)
        BY <1>1, <1>3, <4>1, RunStays
      <4> QED BY <4>2
    <3>2. x6 = y6 \/ (x6 < y6 /\ x9 = x6)
      <4>1. CASE x4 < y4
        <5>1. x5 = x4
          BY <1>c, <1>6, <3>1, <4>1
        <5>2. x6 <= y4 /\ (x6 < y4 => f[x6] = "#")
          <6>1. Run(f, x4, y4, "#")
            <7>1. \A k \in x4..(y4 - 1) : k \in y3..(y4 - 1)
              BY <1>n, <1>y, <1>2, <2>3
            <7>2. \A k \in y3..(y4 - 1) : f[k] = "#"
              BY <3>f DEF Only
            <7>3. \A k \in x4..(y4 - 1) : f[k] = "#"
              BY <7>1, <7>2
            <7>4. x4 <= y4
              BY <3>1
            <7> QED BY <7>3, <7>4 DEF Run, Only
          <6>2. Run(f, x4, x6, "#")
            BY <1>7, <5>1
          <6>3. x4 <= y4
            BY <3>1
          <6> QED BY <1>1, <1>3, <3>e, <6>1, <6>2, <6>3, RunLess
        <5>3. CASE x6 < y4
          <6>1. f[x6] = "#"
            BY <5>2, <5>3
          <6>2. x9 = x6
            BY <1>c, <1>6, <6>1
          <6> QED BY <1>1, <1>3, <1>4, <5>3, <6>2
        <5>4. CASE x6 = y4
          <6>1. CASE y4 <= Len(f) /\ f[y4] = Comma
            <7>1. x9 = x6
              BY <1>c, <1>6, <5>4, <6>1
            <7> QED BY <1>1, <1>3, <1>4, <5>4, <7>1
          <6>2. CASE y4 = y5
            <7>1. y5 = y6
              <8>1. Run(f, y5, y6, "#")
                BY <1>1, <1>3, <1>4, <1>5, SkipFacts DEF Run
              <8>2. y6 = y5 \/ (y5 <= Len(f) /\ f[y5] = "#")
                BY <1>1, <1>3, <8>1, RunStays
              <8> QED BY <3>e, <6>2, <8>2
            <7> QED BY <5>4, <6>2, <7>1
          <6> QED BY <3>g, <6>1, <6>2
        <5> QED BY <1>1, <1>3, <5>2, <5>3, <5>4
      <4>2. CASE x4 = y4
        <5>1. x5 <= y5 /\ (x5 < y5 => f[x5] = Comma)
          <6>1. Only(f, y4, y5 - 1, Comma) /\ (y5 <= Len(f) => f[y5] # Comma)
            BY <1>1, <1>3, <1>5, SkipFacts
          <6>2. Run(f, y4, y5, Comma) /\ Run(f, y4, x5, Comma)
            BY <1>4, <1>7, <4>2, <6>1 DEF Run
          <6> QED BY <1>1, <1>3, <1>4, <6>1, <6>2, RunLess
        <5>2. CASE x5 < y5
          <6>1. x9 = x5 /\ x6 = x5
            BY <1>c, <1>6, <5>1, <5>2
          <6> QED BY <1>1, <1>3, <1>4, <5>2, <6>1
        <5>3. CASE x5 = y5
          <6>1. x6 <= y6 /\ (x6 < y6 => f[x6] = "#")
            <7>1. Only(f, y5, y6 - 1, "#") /\ (y6 <= Len(f) => f[y6] # "#")
              BY <1>1, <1>3, <1>5, SkipFacts
            <7>2. Run(f, y5, y6, "#") /\ Run(f, y5, x6, "#")
              BY <1>4, <1>7, <5>3, <7>1 DEF Run
            <7> QED BY <1>1, <1>3, <1>4, <7>1, <7>2, RunLess
          <6>2. x6 < y6 => x9 = x6
            BY <1>c, <1>6, <6>1
          <6> QED BY <1>1, <1>3, <6>1, <6>2
        <5> QED BY <1>1, <1>3, <5>1, <5>2, <5>3
      <4> QED BY <1>1, <1>3, <3>1, <4>1, <4>2
    <3>3. y3 # y0 \/ (y4 - y3) + (y6 - y5) > 0
      <4> SUFFICES ASSUME y3 = y0, y4 = y3, y6 = y5 PROVE FALSE
        BY <1>3, <1>4
      <4>1. x4 = x3
        BY <1>1, <1>2, <1>3, <2>3, <3>1
      <4>2. (x4 - x3) + (x6 - x5) > 0
        BY <1>2, <1>4, <1>8, <2>3
      <4>3. x5 < x6
        BY <1>1, <4>1, <4>2
      <4>4. f[x5] = "#"
        BY <1>1, <1>6, <4>3
      <4>5. x5 = x4
        <5>1. x5 = x4 \/ (f[x4] = Comma /\ Run(f, x4, x5, Comma))
          BY <1>6, <1>7
        <5>2. CASE x5 # x4
          <6>1. x4 = y4
            BY <2>3, <4>1
          <6>2. Only(f, y4, y5 - 1, Comma) /\ (y5 <= Len(f) => f[y5] # Comma)
            BY <1>1, <1>3, <1>5, SkipFacts
          <6>3. Run(f, y4, y5, Comma) /\ Run(f, y4, x5, Comma)
            BY <1>4, <1>7, <6>1, <6>2 DEF Run
          <6>4. x5 <= y5 /\ (x5 < y5 => f[x5] = Comma)
            BY <1>1, <1>3, <1>4, <6>2, <6>3, RunLess
          <6>5. x5 = y5
            <7>1. ~(x5 < y5)
              BY <1>c, <4>4, <6>4
            <7> QED BY <1>n, <1>y, <6>4, <7>1
          <6>6. x6 <= y6
            <7>1. Only(f, y5, y6 - 1, "#") /\ (y6 <= Len(f) => f[y6] # "#")
              BY <1>1, <1>3, <1>5, SkipFacts
            <7>2. Run(f, y5, y6, "#") /\ Run(f, y5, x6, "#")
              BY <1>4, <1>7, <6>5, <7>1 DEF Run
            <7> QED BY <1>1, <1>3, <1>4, <7>1, <7>2, RunLess
          <6> QED BY <1>1, <1>3, <4>3, <6>5, <6>6, SMTT(30)
        <5> QED BY <5>2
      <4>6. x5 <= Len(f)
        BY <1>1, <4>3
      <4> QED BY <2>3, <3>e, <4>1, <4>4, <4>5, <4>6
    <3>4. x9 <= y9
      <4>1. CASE x6 < y6 /\ x9 = x6
        BY <1>1, <1>3, <1>4, <4>1
      <4>2. CASE x6 = y6
        <5>1. x7 = y7 \/ (x7 < y7 /\ x9 = x7)
          <6>1. CASE At(f, y6, <<".">>)
            <7>1. y6 <= Len(f) /\ f[y6] = "." /\ y7 = Skip(f, y6 + 1, "#")
              BY <1>3, <1>1, <1>5, <6>1, AtOne, Characters DEF Point
            <7>2. y6 + 1 \in 1..(Len(f) + 1)
              BY <1>1, <1>3, <7>1
            <7>3. y7 \in (y6 + 1)..(Len(f) + 1) /\ Only(f, y6 + 1, y7 - 1, "#")
                  /\ (y7 <= Len(f) => f[y7] # "#")
              BY <7>1, <7>2, SkipFacts
            <7>4. y6 + 1 <= y7 /\ y6 < y7
              BY <1>1, <1>3, <7>3
            <7>5. CASE x7 = x6
              <8>1. x9 = x7
                BY <1>c, <1>6, <4>2, <7>1, <7>5
              <8> QED BY <4>2, <7>4, <7>5, <8>1
            <7>6. CASE x6 < x7 /\ Run(f, x6 + 1, x7, "#")
              <8>1. Run(f, y6 + 1, y7, "#") /\ Run(f, y6 + 1, x7, "#")
                BY <4>2, <7>3, <7>4, <7>6 DEF Run
              <8>2. x7 <= y7 /\ (x7 < y7 => f[x7] = "#")
                BY <1>1, <1>3, <7>2, <7>3, <7>4, <8>1, RunLess
              <8>3. x7 < y7 => x9 = x7
                BY <1>c, <1>6, <8>2
              <8> QED BY <1>1, <1>3, <8>2, <8>3
            <7> QED BY <1>7, <7>5, <7>6
          <6>2. CASE ~At(f, y6, <<".">>)
            <7>1. y7 = y6
              BY <1>5, <6>2 DEF Point
            <7>2. ~(y6 <= Len(f) /\ f[y6] = ".")
              BY <1>1, <1>3, <6>2, AtOne, Characters
            <7>3. x7 = x6
              <8> SUFFICES ASSUME x6 < x7, f[x6] = "." PROVE FALSE
                BY <1>7
              <8>1. x7 <= Len(f) + 1
                BY <1>1
              <8>2. x6 <= Len(f)
                BY <1>1, <1>n, <8>1
              <8> QED BY <4>2, <7>2, <8>2
            <7> QED BY <4>2, <7>1, <7>3
          <6> QED BY <6>1, <6>2
        <5>2. CASE x7 < y7 /\ x9 = x7
          BY <1>1, <1>3, <1>4, <5>2
        <5>3. CASE x7 = y7
          <6>1. x8 = y8 \/ (x8 < y8 /\ x9 = x8)
            <7>1. x8 = y7 \/ (At(f, y7, Carets) /\ x8 = y7 + 4)
              BY <1>1, <1>7, <5>3, PartFacts
            <7>2. \/ At(f, y7, Carets) /\ y8 = y7 + 4 /\ f[y7] = "^"
                  \/ ~At(f, y7, Carets) /\ y8 = y7
              BY <1>1, <1>3, <1>5, PastMoneyOrPower, ZenonT(40)
            <7>3. CASE x8 # y8
              <8>1. x8 = y7 /\ f[y7] = "^" /\ y8 = y7 + 4
                BY <7>1, <7>2, <7>3
              <8>2. x9 = x8
                BY <1>c, <1>6, <8>1
              <8> QED BY <1>1, <1>3, <8>1, <8>2
            <7> QED BY <7>3
          <6>2. CASE x8 < y8 /\ x9 = x8
            BY <1>1, <1>3, <1>4, <6>2
          <6>3. CASE x8 = y8
            <7>1. \/ y8 <= Len(f) /\ f[y8] \in {"+", "-"} /\ y9 = y8 + 1
                  \/ ~(y8 <= Len(f) /\ f[y8] \in {"+", "-"}) /\ y9 = y8
              BY <1>1, <1>3, <1>5, SignEnds, ZenonT(40)
            <7>2. x9 = y8 \/ ((At(f, y8, <<"+">>) \/ At(f, y8, <<"-">>)) /\ x9 = y8 + 1)
              BY <1>1, <1>7, <6>3, PartFacts
            <7>3. At(f, y8, <<"+">>) \/ At(f, y8, <<"-">>) => y8 <= Len(f) /\ f[y8] \in {"+", "-"}
              BY <1>1, <1>3, FirstCharacters
            <7>4. CASE x9 = y8
              BY <1>m, <7>4
            <7>5. CASE x9 = y8 + 1 /\ y9 = y8 + 1
              BY <1>y, <7>5
            <7> QED BY <7>1, <7>2, <7>3, <7>4, <7>5
          <6> QED BY <6>1, <6>2, <6>3
        <5> QED BY <5>1, <5>2, <5>3
      <4> QED BY <3>2, <4>1, <4>2
    <3> QED BY <1>9, <3>3, <3>4 DEF x9, y9
  <2> QED BY <2>1, <2>2, <2>3
<1> QED BY <1>11, <1>12, <1>13

LEMMA MaxIs ==
    ASSUME NEW S, S \subseteq Nat, NEW m \in S, \A n \in S : n <= m
    PROVE  Max(S) = m
<1>1. m \in S /\ \A y \in S : m >= y
  OBVIOUS
<1>2. Max(S) \in S /\ \A y \in S : Max(S) >= y
  BY <1>1, Zenon DEF Max
<1>3. Max(S) \in Nat /\ m \in Nat /\ Max(S) >= m /\ m >= Max(S)
  BY <1>1, <1>2
<1> QED BY <1>3

LEMMA ScanIsLongest ==
    ASSUME NEW f \in Text, NEW p \in 1..Len(f), Known(f, p)
    PROVE  ScanNumeric(f, p).length = LongestNumeric(f, p)
<1> DEFINE S == {0} \cup {n \in 1..(Len(f) - p + 1) : IsNumeric(f, p, p + n)}
           L == ScanNumeric(f, p).length
<1>1. Len(f) \in Nat /\ p \in Nat \ {0} /\ p \in 1..(Len(f) + 1)
  BY DEF Text
<1>2. PICK e : EndsAt(f, p, e) /\ ScanNumeric(f, p) = Scanned(f, e)
  BY <1>1, ScanEnds
<1> DEFINE y0 == e[0]  y3 == e[3]  y4 == e[4]  y5 == e[5]  y6 == e[6]  y9 == e[9]
<1>3. y0 \in Nat /\ y3 \in Nat /\ y4 \in Nat /\ y5 \in Nat /\ y6 \in Nat /\ y9 \in Nat /\ y0 = p
      /\ y9 <= Len(f) + 1
  BY <1>1, <1>2, EndFacts
<1>4. y0 <= y3 /\ y3 <= y4 /\ y4 <= y5 /\ y5 <= y6 /\ y6 <= y9
  <2> DEFINE y1 == e[1]  y2 == e[2]  y7 == e[7]  y8 == e[8]
  <2>1. y1 \in Nat /\ y2 \in Nat /\ y7 \in Nat /\ y8 \in Nat
    BY <1>1, <1>2, EndFacts
  <2>2. y0 <= y1 /\ y1 <= y2 /\ y2 <= y3 /\ y3 <= y4 /\ y4 <= y5 /\ y5 <= y6 /\ y6 <= y7 /\ y7 <= y8
        /\ y8 <= y9
    BY <1>1, <1>2, EndFacts
  <2> HIDE DEF y0, y1, y2, y3, y4, y5, y6, y7, y8, y9
  <2> QED BY <1>3, <2>1, <2>2
<1>5. L = IF (y4 - y3) + (y6 - y5) = 0 /\ y3 = y0 THEN 0 ELSE y9 - y0
  BY <1>2 DEF Scanned
<1>6. Substance(e) <=> (y3 # y0 \/ (y4 - y3) + (y6 - y5) > 0)
  BY DEF Substance
<1>7. Fits(f, p, e)
  BY <1>1, <1>2, ScanFits
<1>8. Substance(e) => IsNumeric(f, p, y9)
  BY <1>1, <1>7, FitsNumeric DEF Known
<1>9. ASSUME NEW n \in 1..(Len(f) - p + 1), IsNumeric(f, p, p + n)
      PROVE  p + n <= y9 /\ Substance(e)
  <2>1. p + n \in 1..(Len(f) + 1)
    BY <1>1
  <2>2. PICK t : Fits(f, p, t) /\ Substance(t) /\ t[9] = p + n
    BY <1>1, <1>9, <2>1, NumericFits
  <2>3. t[9] <= e[9] /\ Substance(e)
    BY <1>1, <1>2, <2>2, Greedy
  <2> QED BY <2>2, <2>3
<1> HIDE DEF y0, y3, y4, y5, y6, y9, L
<1>10. L \in Nat /\ (Substance(e) => L = y9 - p) /\ (~Substance(e) => L = 0)
  BY <1>3, <1>4, <1>5, <1>6
<1>11. L \in S
  <2>1. CASE Substance(e)
    <3>1. L = y9 - p /\ p + L = y9 /\ L \in 1..(Len(f) - p + 1)
      BY <1>1, <1>3, <1>4, <1>6, <1>10, <2>1
    <3>2. IsNumeric(f, p, p + L)
      BY <1>8, <2>1, <3>1
    <3> QED BY <3>1, <3>2
  <2>2. CASE ~Substance(e)
    BY <1>10, <2>2
  <2> QED BY <2>1, <2>2
<1>12. ASSUME NEW n \in S PROVE n <= L
  <2>1. CASE n = 0
    BY <1>10, <2>1
  <2>2. CASE n # 0
    <3>1. n \in 1..(Len(f) - p + 1) /\ IsNumeric(f, p, p + n)
      BY <2>2
    <3>2. p + n <= y9 /\ L = y9 - p
      BY <1>9, <1>10, <3>1
    <3> QED BY <1>1, <1>3, <3>1, <3>2
  <2> QED BY <2>1, <2>2
<1>13. S \subseteq Nat
  BY <1>1
<1>14. LongestNumeric(f, p) = Max(S)
  BY DEF LongestNumeric
<1> HIDE DEF S
<1>15. Max(S) = L
  BY <1>11, <1>12, <1>13, MaxIs
<1> QED BY <1>14, <1>15 DEF L

(* Wherever the engine looks for a field that does not begin with a point,  *)
(* in a format without five carets in a row and without a comma at its end, *)
(* the scan finds the longest numeric field of the manual, though it tries  *)
(* the parts once and never goes back.                                      *)
THEOREM LongestAlways == Spec => []FieldsAreLongest
<1>1. ASSUME TypeInv PROVE FieldsAreLongest
  <2> SUFFICES ASSUME phase = "inner", fpos <= Len(fmt), Known(fmt, fpos)
      PROVE  NumericAt.length = LongestNumeric(fmt, fpos)
    BY DEF FieldsAreLongest
  <2>1. fmt \in Text /\ fpos \in 1..Len(fmt)
    BY <1>1 DEF TypeInv, Text
  <2> QED BY <2>1, ScanIsLongest DEF NumericAt
<1>2. TypeInv => FieldsAreLongest
  BY <1>1
<1> QED BY <1>2, TypeInvAlways, PTL

--------------------------------------------------------------------------------
(* Recursion from the end of a format towards its start.                    *)

Down(F, n, h, nx) ==
    F = [p \in 1..(n + 1) |-> IF p > n THEN <<>> ELSE <<h[p]>> \o F[nx[p]]]

LEMMA DownExists ==
    ASSUME NEW n \in Nat, NEW h, NEW nx, \A p \in 1..n : nx[p] \in (p + 1)..(n + 1)
    PROVE  \E F : Down(F, n, h, nx)
<1> DEFINE Back(G, k) == G = [p \in (n + 1 - k)..(n + 1) |-> IF p > n THEN <<>> ELSE <<h[p]>> \o G[nx[p]]]
           T == {k \in 0..n : \E G : Back(G, k)}
<1>1. 0 \in T
  <2> DEFINE G == [p \in (n + 1 - 0)..(n + 1) |-> <<>>]
  <2>1. \A p \in (n + 1 - 0)..(n + 1) : p > n
    OBVIOUS
  <2>2. Back(G, 0)
    BY <2>1
  <2> HIDE DEF G, Back
  <2>3. 0 \in 0..n
    OBVIOUS
  <2> QED BY <2>2, <2>3
<1>2. ASSUME NEW k \in 1..n, k - 1 \in T PROVE k \in T
  <2>1. PICK G : Back(G, k - 1)
    BY <1>2
  <2> DEFINE m == n + 1 - k
             D == (n + 1 - (k - 1))..(n + 1)
             x == <<h[m]>> \o G[nx[m]]
             H == [p \in m..(n + 1) |-> IF p = m THEN x ELSE G[p]]
  <2>2. m \in 1..n /\ D = (m + 1)..(n + 1) /\ \A p \in m..(n + 1) : p = m \/ p \in D
    OBVIOUS
  <2>3. G = [p \in D |-> IF p > n THEN <<>> ELSE <<h[p]>> \o G[nx[p]]]
    BY <2>1
  <2> HIDE DEF D, m
  <2>4. nx[m] \in D
    BY <2>2
  <2>5. \A p \in D : H[p] = G[p] /\ p # m /\ p \in m..(n + 1)
    BY <2>2
  <2>6. \A p \in D : p \in 1..n => nx[p] \in D
    BY <2>2
  <2>7. ASSUME NEW p \in m..(n + 1) PROVE H[p] = IF p > n THEN <<>> ELSE <<h[p]>> \o H[nx[p]]
    <3>1. CASE p = m
      <4>1. H[p] = x /\ ~(p > n) /\ H[nx[p]] = G[nx[m]]
        BY <2>2, <2>4, <2>5, <3>1
      <4> QED BY <3>1, <4>1
    <3>2. CASE p \in D
      <4>1. H[p] = IF p > n THEN <<>> ELSE <<h[p]>> \o G[nx[p]]
        BY <2>3, <2>5, <3>2
      <4>2. ~(p > n) => H[nx[p]] = G[nx[p]]
        BY <2>2, <2>5, <2>6, <3>2
      <4> QED BY <4>1, <4>2
    <3> QED BY <2>2, <3>1, <3>2
  <2>8. H = [p \in m..(n + 1) |-> H[p]]
    OBVIOUS
  <2> HIDE DEF H
  <2>9. Back(H, k)
    BY <2>7, <2>8 DEF m
  <2> HIDE DEF Back
  <2> QED BY <2>9
<1> HIDE DEF T
<1>3. 0..n \subseteq T
  BY <1>1, <1>2, UpTo
<1>4. n \in T
  BY <1>3
<1>5. PICK G : Back(G, n)
  BY <1>4 DEF T
<1>6. n + 1 - n = 1
  OBVIOUS
<1>7. Down(G, n, h, nx)
  BY <1>5, <1>6 DEF Down
<1> QED BY <1>7

LEMMA DownSteps ==
    ASSUME NEW n \in Nat, NEW h, NEW nx, NEW F, Down(F, n, h, nx)
    PROVE  F[n + 1] = <<>> /\ \A p \in 1..n : F[p] = <<h[p]>> \o F[nx[p]]
<1> DEFINE E(p) == IF p > n THEN <<>> ELSE <<h[p]>> \o F[nx[p]]
<1>1. F = [p \in 1..(n + 1) |-> E(p)]
  BY DEF Down
<1> HIDE DEF E
<1>2. \A p \in 1..(n + 1) : F[p] = E(p)
  BY <1>1
<1>3. n + 1 \in 1..(n + 1) /\ n + 1 > n /\ \A p \in 1..n : p \in 1..(n + 1) /\ ~(p > n)
  OBVIOUS
<1> QED BY <1>2, <1>3 DEF E

LEMMA DownTyped ==
    ASSUME NEW n \in Nat, NEW S, NEW h, NEW nx, \A p \in 1..n : nx[p] \in (p + 1)..(n + 1),
           \A p \in 1..n : h[p] \in S, NEW F, Down(F, n, h, nx)
    PROVE  \A p \in 1..(n + 1) : F[p] \in Seq(S)
<1>1. F[n + 1] = <<>> /\ \A p \in 1..n : F[p] = <<h[p]>> \o F[nx[p]]
  <2>1. F[n + 1] = <<>>
    BY DownSteps
  <2>2. ASSUME NEW p \in 1..n PROVE F[p] = <<h[p]>> \o F[nx[p]]
    BY DownSteps
  <2> QED BY <2>1, <2>2
<1> DEFINE T == {k \in 0..n : \A p \in (n + 1 - k)..(n + 1) : F[p] \in Seq(S)}
<1>2. 0 \in T
  <2>1. \A p \in (n + 1 - 0)..(n + 1) : p = n + 1
    OBVIOUS
  <2>2. <<>> \in Seq(S)
    OBVIOUS
  <2>3. \A p \in (n + 1 - 0)..(n + 1) : F[p] \in Seq(S)
    BY <1>1, <2>1, <2>2
  <2>4. 0 \in 0..n
    OBVIOUS
  <2> QED BY <2>3, <2>4
<1>3. ASSUME NEW k \in 1..n, k - 1 \in T PROVE k \in T
  <2> DEFINE m == n + 1 - k
  <2>1. m \in 1..n /\ \A p \in m..(n + 1) : p = m \/ p \in (n + 1 - (k - 1))..(n + 1)
    OBVIOUS
  <2>2. nx[m] \in (n + 1 - (k - 1))..(n + 1)
    BY <2>1
  <2>3. F[nx[m]] \in Seq(S) /\ h[m] \in S /\ F[m] = <<h[m]>> \o F[nx[m]]
    BY <1>1, <1>3, <2>1, <2>2
  <2> HIDE DEF m
  <2>4. <<h[m]>> \in Seq(S)
    BY <2>3
  <2>5. F[m] \in Seq(S)
    BY <2>3, <2>4, ConcatProperties
  <2>6. \A p \in m..(n + 1) : F[p] \in Seq(S)
    BY <1>3, <2>1, <2>5
  <2> QED BY <2>6 DEF m
<1> HIDE DEF T
<1>4. 0..n \subseteq T
  BY <1>2, <1>3, UpTo
<1>5. n \in T /\ n + 1 - n = 1
  BY <1>4
<1> QED BY <1>1, <1>5 DEF T

PieceRecord == [kind : {"literal", "numeric", "string"}, at : Nat, next : Nat]

LEMMA PieceFacts ==
    ASSUME NEW f \in Text, NEW p \in 1..Len(f)
    PROVE  /\ Piece(f, p) \in PieceRecord
           /\ Piece(f, p).at \in 1..Len(f) /\ Piece(f, p).next \in (p + 1)..(Len(f) + 1)
<1> DEFINE n == ScanNumeric(f, p).length
           s == ScanString(f, p).length
<1>1. n \in 0..(Len(f) + 1 - p) /\ s \in 0..(Len(f) + 1 - p)
  BY ScanTyped, StringStays
<1>2. Len(f) \in Nat /\ p \in Nat \ {0} /\ p <= Len(f)
  BY DEF Text
<1>3. Piece(f, p) = IF f[p] = Underscore /\ p < Len(f)
                    THEN [kind |-> "literal", at |-> p + 1, next |-> p + 2]
                    ELSE IF n > 0 THEN [kind |-> "numeric", at |-> p, next |-> p + n]
                    ELSE IF s > 0 THEN [kind |-> "string", at |-> p, next |-> p + s]
                    ELSE [kind |-> "literal", at |-> p, next |-> p + 1]
  BY DEF Piece
<1> HIDE DEF n, s
<1>4. \/ p < Len(f) /\ Piece(f, p) = [kind |-> "literal", at |-> p + 1, next |-> p + 2]
      \/ n > 0 /\ Piece(f, p) = [kind |-> "numeric", at |-> p, next |-> p + n]
      \/ s > 0 /\ Piece(f, p) = [kind |-> "string", at |-> p, next |-> p + s]
      \/ Piece(f, p) = [kind |-> "literal", at |-> p, next |-> p + 1]
  BY <1>3
<1>5. \E c \in {"literal", "numeric", "string"}, a \in 1..Len(f), m \in (p + 1)..(Len(f) + 1) :
          Piece(f, p) = [kind |-> c, at |-> a, next |-> m]
  <2>1. p < Len(f) => p + 1 \in 1..Len(f) /\ p + 2 \in (p + 1)..(Len(f) + 1)
    BY <1>2
  <2>2. n > 0 => p + n \in (p + 1)..(Len(f) + 1)
    BY <1>1, <1>2
  <2>3. s > 0 => p + s \in (p + 1)..(Len(f) + 1)
    BY <1>1, <1>2
  <2>4. p \in 1..Len(f) /\ p + 1 \in (p + 1)..(Len(f) + 1)
    BY <1>2
  <2> QED BY <1>4, <2>1, <2>2, <2>3, <2>4
<1>6. PICK c \in {"literal", "numeric", "string"}, a \in 1..Len(f), m \in Nat :
          m \in (p + 1)..(Len(f) + 1) /\ Piece(f, p) = [kind |-> c, at |-> a, next |-> m]
  BY <1>2, <1>5
<1> QED BY <1>2, <1>6 DEF PieceRecord

(* The pieces from every position of the format on.                         *)
IsCut(f, F) ==
    F = [p \in 1..(Len(f) + 1) |->
            IF p > Len(f) THEN <<>> ELSE <<Piece(f, p)>> \o F[Piece(f, p).next]]
Cutting(f) == CHOOSE F : IsCut(f, F)

LEMMA CutFacts ==
    ASSUME NEW f \in Text
    PROVE  /\ Pieces(f) = Cutting(f)[1]
           /\ \A p \in 1..(Len(f) + 1) : Cutting(f)[p] \in Seq(PieceRecord)
           /\ Cutting(f)[Len(f) + 1] = <<>>
           /\ \A p \in 1..Len(f) : Cutting(f)[p] = <<Piece(f, p)>> \o Cutting(f)[Piece(f, p).next]
<1> DEFINE n == Len(f)
           h == [p \in 1..n |-> Piece(f, p)]
           nx == [p \in 1..n |-> Piece(f, p).next]
<1>1. n \in Nat
  BY DEF Text
<1>2. \A p \in 1..n : nx[p] \in (p + 1)..(n + 1) /\ h[p] \in PieceRecord
  BY PieceFacts
<1>3. ASSUME NEW F PROVE IsCut(f, F) <=> Down(F, n, h, nx)
  <2>1. ASSUME NEW p \in 1..(n + 1)
        PROVE  (IF p > n THEN <<>> ELSE <<h[p]>> \o F[nx[p]])
                   = (IF p > n THEN <<>> ELSE <<Piece(f, p)>> \o F[Piece(f, p).next])
    <3>1. CASE p > n
      BY <3>1
    <3>2. CASE ~(p > n)
      <4>1. p \in 1..n
        BY <1>1, <3>2
      <4>2. h[p] = Piece(f, p) /\ nx[p] = Piece(f, p).next
        BY <4>1
      <4> QED BY <3>2, <4>2
    <3> QED BY <3>1, <3>2
  <2>2. [p \in 1..(n + 1) |-> IF p > n THEN <<>> ELSE <<h[p]>> \o F[nx[p]]]
            = [p \in 1..(n + 1) |-> IF p > n THEN <<>> ELSE <<Piece(f, p)>> \o F[Piece(f, p).next]]
    BY <2>1
  <2> HIDE DEF h, nx
  <2> QED BY <2>2 DEF IsCut, Down
<1> HIDE DEF h, nx
<1>4. \E F : IsCut(f, F)
  <2>1. PICK F : Down(F, n, h, nx)
    BY <1>1, <1>2, DownExists
  <2> QED BY <1>3, <2>1
<1>5. IsCut(f, Cutting(f))
  BY <1>4 DEF Cutting
<1>6. Down(Cutting(f), n, h, nx)
  BY <1>3, <1>5
<1>7. /\ \A p \in 1..(n + 1) : Cutting(f)[p] \in Seq(PieceRecord)
      /\ Cutting(f)[n + 1] = <<>>
      /\ \A p \in 1..n : Cutting(f)[p] = <<h[p]>> \o Cutting(f)[nx[p]]
  <2> DEFINE G == Cutting(f)
  <2>1. Down(G, n, h, nx)
    BY <1>6
  <2>2. (\A p \in 1..n : nx[p] \in (p + 1)..(n + 1)) /\ (\A p \in 1..n : h[p] \in PieceRecord)
    BY <1>2
  <2> HIDE DEF G, n
  <2>3. \A p \in 1..(n + 1) : G[p] \in Seq(PieceRecord)
    BY <1>1, <2>1, <2>2, DownTyped
  <2>4. G[n + 1] = <<>> /\ \A p \in 1..n : G[p] = <<h[p]>> \o G[nx[p]]
    BY <1>1, <2>1, DownSteps
  <2> QED BY <2>3, <2>4 DEF G
<1>8. Pieces(f) = Cutting(f)[1]
  BY DEF Pieces, Cutting, IsCut
<1> QED BY <1>7, <1>8 DEF h, nx

(* The rest of the format: the literal at a position and the next position. *)
Plainly(f, p) ==
    IF f[p] = Underscore /\ p < Len(f) THEN [text |-> Literal(f[p + 1]), next |-> p + 2]
    ELSE [text |-> Literal(f[p]), next |-> p + 1]

IsVerbatim(f, F) ==
    F = [p \in 1..(Len(f) + 1) |->
            IF p > Len(f) THEN <<>>
            ELSE IF f[p] = Underscore /\ p < Len(f) THEN <<Literal(f[p + 1])>> \o F[p + 2]
            ELSE <<Literal(f[p])>> \o F[p + 1]]

LEMMA PlainlyFacts ==
    ASSUME NEW f \in Text, NEW p \in 1..Len(f)
    PROVE  Plainly(f, p).text \in Item /\ Plainly(f, p).next \in (p + 1)..(Len(f) + 1)
<1>1. Len(f) \in Nat /\ p \in Nat \ {0} /\ p <= Len(f) /\ f[p] \in Char
  BY ElementOfSeq DEF Text
<1>2. p < Len(f) => p + 1 \in 1..Len(f) /\ p + 2 \in (p + 1)..(Len(f) + 1)
  BY <1>1
<1>3. p < Len(f) => f[p + 1] \in Char
  BY <1>2, ElementOfSeq DEF Text
<1>4. CASE f[p] = Underscore /\ p < Len(f)
  <2>1. Plainly(f, p) = [text |-> Literal(f[p + 1]), next |-> p + 2]
    BY <1>4 DEF Plainly
  <2>2. Literal(f[p + 1]) \in Item
    BY <1>3, <1>4, LiteralItem
  <2> QED BY <1>2, <1>4, <2>1, <2>2
<1>5. CASE ~(f[p] = Underscore /\ p < Len(f))
  <2>1. Plainly(f, p) = [text |-> Literal(f[p]), next |-> p + 1]
    BY <1>5 DEF Plainly
  <2>2. Literal(f[p]) \in Item
    BY <1>1, LiteralItem
  <2> QED BY <1>1, <2>1, <2>2
<1> QED BY <1>4, <1>5

LEMMA VerbatimFacts ==
    ASSUME NEW f \in Text
    PROVE  /\ \A p \in 1..(Len(f) + 1) : Verbatim(f, p) \in Seq(Item)
           /\ Verbatim(f, Len(f) + 1) = <<>>
           /\ \A p \in 1..Len(f) :
                 Verbatim(f, p) = <<Plainly(f, p).text>> \o Verbatim(f, Plainly(f, p).next)
<1> DEFINE n == Len(f)
           h == [p \in 1..n |-> Plainly(f, p).text]
           nx == [p \in 1..n |-> Plainly(f, p).next]
           V == CHOOSE F : IsVerbatim(f, F)
<1>1. n \in Nat
  BY DEF Text
<1>2. (\A p \in 1..n : nx[p] \in (p + 1)..(n + 1)) /\ (\A p \in 1..n : h[p] \in Item)
  BY PlainlyFacts
<1>3. ASSUME NEW F PROVE IsVerbatim(f, F) <=> Down(F, n, h, nx)
  <2> DEFINE A(p) == IF p > n THEN <<>> ELSE <<h[p]>> \o F[nx[p]]
             B(p) == IF p > n THEN <<>>
                     ELSE IF f[p] = Underscore /\ p < n THEN <<Literal(f[p + 1])>> \o F[p + 2]
                     ELSE <<Literal(f[p])>> \o F[p + 1]
  <2>1. ASSUME NEW p \in 1..(n + 1) PROVE A(p) = B(p)
    <3>1. CASE p > n
      BY <3>1
    <3>2. CASE ~(p > n)
      <4>1. p \in 1..n
        BY <1>1, <3>2
      <4>2. h[p] = Plainly(f, p).text /\ nx[p] = Plainly(f, p).next
        BY <4>1
      <4>3. CASE f[p] = Underscore /\ p < n
        <5>1. h[p] = Literal(f[p + 1]) /\ nx[p] = p + 2
          BY <4>2, <4>3 DEF Plainly
        <5> HIDE DEF h, nx
        <5> QED BY <3>2, <4>3, <5>1
      <4>4. CASE ~(f[p] = Underscore /\ p < n)
        <5>1. h[p] = Literal(f[p]) /\ nx[p] = p + 1
          BY <4>2, <4>4 DEF Plainly
        <5> HIDE DEF h, nx
        <5> QED BY <3>2, <4>4, <5>1
      <4> QED BY <4>3, <4>4
    <3> QED BY <3>1, <3>2
  <2>2. IsVerbatim(f, F) <=> F = [p \in 1..(n + 1) |-> B(p)]
    BY DEF IsVerbatim
  <2>3. Down(F, n, h, nx) <=> F = [p \in 1..(n + 1) |-> A(p)]
    BY DEF Down
  <2> HIDE DEF A, B
  <2>4. [p \in 1..(n + 1) |-> A(p)] = [p \in 1..(n + 1) |-> B(p)]
    BY <2>1
  <2> QED BY <2>2, <2>3, <2>4
<1>4. \A p \in 1..n : h[p] = Plainly(f, p).text /\ nx[p] = Plainly(f, p).next
  OBVIOUS
<1>5. \A p : Verbatim(f, p) = V[p]
  BY DEF Verbatim, IsVerbatim
<1> HIDE DEF h, nx
<1>6. \E F : IsVerbatim(f, F)
  <2>1. PICK F : Down(F, n, h, nx)
    BY <1>1, <1>2, DownExists
  <2> QED BY <1>3, <2>1
<1>7. IsVerbatim(f, V)
  BY <1>6
<1>8. Down(V, n, h, nx)
  BY <1>3, <1>7
<1> HIDE DEF V, n
<1>9. \A p \in 1..(n + 1) : V[p] \in Seq(Item)
  BY <1>1, <1>2, <1>8, DownTyped
<1>10. V[n + 1] = <<>> /\ \A p \in 1..n : V[p] = <<h[p]>> \o V[nx[p]]
  BY <1>1, <1>8, DownSteps
<1> QED BY <1>4, <1>5, <1>9, <1>10, ZenonT(40) DEF n

--------------------------------------------------------------------------------
(* Counting the fields.                                                     *)

LEMMA DivMod ==
    ASSUME NEW n \in Nat \ {0}, NEW a \in Nat, NEW j \in 0..(n - 1)
    PROVE  (a * n + j) \div n = a /\ (a * n + j) % n = j
<1> DEFINE m == a * n + j
           q == m \div n
           r == m % n
<1>1. m \in Nat
  OBVIOUS
<1> HIDE DEF m
<1>2. q \in Nat /\ r \in 0..(n - 1) /\ m = q * n + r
  BY <1>1
<1> HIDE DEF q, r
<1>3. ASSUME NEW c \in Nat, NEW d \in Nat, NEW x \in 0..(n - 1), NEW y \in 0..(n - 1),
             c * n + x = d * n + y, c < d
      PROVE  FALSE
  <2> DEFINE e == d - c - 1
  <2>1. e \in Nat /\ d = c + e + 1
    BY <1>3
  <2> HIDE DEF e
  <2>2. (c + e + 1) * n = c * n + e * n + n /\ c * n \in Nat /\ e * n \in Nat
    BY <2>1
  <2> QED BY <1>3, <2>1, <2>2
<1>4. a * n + j = q * n + r
  BY <1>2 DEF m
<1>5. ~(a < q) /\ ~(q < a)
  BY <1>2, <1>3, <1>4
<1>6. a = q
  BY <1>2, <1>5
<1>7. q * n \in Nat
  BY <1>2
<1>8. j = r
  BY <1>2, <1>4, <1>6, <1>7
<1> QED BY <1>6, <1>8 DEF m, q, r

LEMMA FieldCount ==
    ASSUME NEW n \in Nat, NEW S \in SUBSET (1..n)
    PROVE  /\ IsFiniteSet(S) /\ Cardinality(S) \in Nat
           /\ FieldsUpTo(S, 0) = 0 /\ FieldsUpTo(S, n) = Cardinality(S)
           /\ \A j \in 0..n : FieldsUpTo(S, j) \in 0..Cardinality(S)
           /\ \A j \in 1..n : FieldsUpTo(S, j) = FieldsUpTo(S, j - 1) + One(j \in S)
           /\ \A i, j \in 0..n : i <= j => FieldsUpTo(S, i) <= FieldsUpTo(S, j)
<1> DEFINE B(j) == {i \in S : i <= j}
<1>0. \A i \in S : i \in Nat /\ 1 <= i /\ i <= n
  OBVIOUS
<1>1. IsFiniteSet(S) /\ Cardinality(S) \in Nat
  <2>1. IsFiniteSet(1..n)
    BY UpToCount
  <2>2. IsFiniteSet(S)
    BY <2>1, FS_Subset
  <2> QED BY <2>2, FS_CardinalityType
<1>2. \A j \in 0..n : IsFiniteSet(B(j)) /\ Cardinality(B(j)) \in Nat /\ Cardinality(B(j)) <= Cardinality(S)
  <2> SUFFICES ASSUME NEW j \in 0..n
               PROVE  IsFiniteSet(B(j)) /\ Cardinality(B(j)) \in Nat /\ Cardinality(B(j)) <= Cardinality(S)
    OBVIOUS
  <2>1. B(j) \in SUBSET S
    OBVIOUS
  <2> HIDE DEF B
  <2>2. IsFiniteSet(B(j)) /\ Cardinality(B(j)) <= Cardinality(S)
    BY <1>1, <2>1, FS_Subset
  <2> QED BY <2>2, FS_CardinalityType
<1>3. B(0) = {} /\ B(n) = S
  <2>1. \A i \in S : i <= n /\ ~(i <= 0)
    BY <1>0
  <2> QED BY <2>1
<1>4. \A i, j \in 0..n : i <= j => Cardinality(B(i)) <= Cardinality(B(j))
  <2> SUFFICES ASSUME NEW i \in 0..n, NEW j \in 0..n, i <= j PROVE Cardinality(B(i)) <= Cardinality(B(j))
    OBVIOUS
  <2>0. \A k \in S : k <= i => k <= j
    BY <1>0
  <2>1. B(i) \in SUBSET B(j)
    BY <2>0
  <2> HIDE DEF B
  <2> QED BY <1>2, <2>1, FS_Subset
<1>5. \A j \in 1..n : Cardinality(B(j)) = Cardinality(B(j - 1)) + One(j \in S)
  <2> SUFFICES ASSUME NEW j \in 1..n PROVE Cardinality(B(j)) = Cardinality(B(j - 1)) + One(j \in S)
    OBVIOUS
  <2>0. j - 1 \in 0..n
    OBVIOUS
  <2>1. CASE j \in S
    <3>1. B(j) = B(j - 1) \cup {j} /\ j \notin B(j - 1)
      <4>1. \A i \in S : i <= j <=> (i <= j - 1 \/ i = j)
        BY <1>0
      <4>2. ~(j <= j - 1)
        OBVIOUS
      <4> QED BY <2>1, <4>1, <4>2
    <3> HIDE DEF B
    <3>2. Cardinality(B(j)) = Cardinality(B(j - 1)) + 1
      BY <1>2, <2>0, <3>1, FS_AddElement
    <3> QED BY <2>1, <3>2 DEF One
  <2>2. CASE j \notin S
    <3>1. B(j) = B(j - 1)
      <4>1. \A i \in S : i <= j <=> (i <= j - 1 \/ i = j)
        BY <1>0
      <4> QED BY <2>2, <4>1
    <3> HIDE DEF B
    <3> QED BY <1>2, <2>0, <2>2, <3>1 DEF One
  <2> QED BY <2>1, <2>2
<1>6. \A j : FieldsUpTo(S, j) = Cardinality(B(j))
  BY DEF FieldsUpTo
<1>7. Cardinality(B(0)) = 0
  BY <1>3, FS_EmptySet
<1> HIDE DEF B
<1>8. \A j \in 0..n : Cardinality(B(j)) \in 0..Cardinality(S)
  BY <1>1, <1>2
<1> QED BY <1>1, <1>3, <1>4, <1>5, <1>6, <1>7, <1>8

LEMMA NthField ==
    ASSUME NEW n \in Nat, NEW S \in SUBSET (1..n), NEW j \in S
    PROVE  Nth(S, FieldsUpTo(S, j)) = j /\ FieldsUpTo(S, j) >= 1
<1>1. /\ \A k \in 0..n : FieldsUpTo(S, k) \in Nat
      /\ \A k \in 1..n : FieldsUpTo(S, k) = FieldsUpTo(S, k - 1) + One(k \in S)
      /\ \A i, k \in 0..n : i <= k => FieldsUpTo(S, i) <= FieldsUpTo(S, k)
  <2>1. /\ Cardinality(S) \in Nat
        /\ \A k \in 0..n : FieldsUpTo(S, k) \in 0..Cardinality(S)
        /\ \A k \in 1..n : FieldsUpTo(S, k) = FieldsUpTo(S, k - 1) + One(k \in S)
        /\ \A i, k \in 0..n : i <= k => FieldsUpTo(S, i) <= FieldsUpTo(S, k)
    BY FieldCount
  <2> QED BY <2>1
<1>2. ASSUME NEW i \in S, NEW k \in S, i < k PROVE FieldsUpTo(S, i) # FieldsUpTo(S, k)
  <2>1. i \in 0..n /\ k \in 1..n /\ k - 1 \in 0..n /\ i <= k - 1 /\ k \in 0..n
    BY <1>2
  <2>2. FieldsUpTo(S, k) = FieldsUpTo(S, k - 1) + 1
    BY <1>1, <2>1 DEF One
  <2>3. FieldsUpTo(S, i) <= FieldsUpTo(S, k - 1) /\ FieldsUpTo(S, i) \in Nat /\ FieldsUpTo(S, k - 1) \in Nat
    BY <1>1, <2>1
  <2> QED BY <2>2, <2>3
<1>3. ASSUME NEW i \in S, FieldsUpTo(S, i) = FieldsUpTo(S, j) PROVE i = j
  <2>1. ~(i < j) /\ ~(j < i) /\ i \in 1..n /\ j \in 1..n
    BY <1>2, <1>3
  <2> QED BY <2>1
<1>4. Nth(S, FieldsUpTo(S, j)) = j
  BY <1>3 DEF Nth
<1>5. j \in 1..n /\ j - 1 \in 0..n
  OBVIOUS
<1>6. FieldsUpTo(S, j) = FieldsUpTo(S, j - 1) + 1 /\ FieldsUpTo(S, j - 1) \in Nat
  BY <1>1, <1>5 DEF One
<1> QED BY <1>4, <1>6

--------------------------------------------------------------------------------
(* A walk through the pieces: j of them are behind the position p.          *)

AtPiece(f, j, p) ==
    /\ j \in 0..Len(Pieces(f)) /\ p \in 1..(Len(f) + 1)
    /\ Len(Cutting(f)[p]) = Len(Pieces(f)) - j
    /\ \A i \in 1..(Len(Pieces(f)) - j) : Cutting(f)[p][i] = Pieces(f)[j + i]

LEMMA PiecesTyped ==
    ASSUME NEW f \in Text
    PROVE  Pieces(f) \in Seq(PieceRecord) /\ Len(Pieces(f)) \in Nat
<1>1. 1 \in 1..(Len(f) + 1)
  BY DEF Text
<1>2. Pieces(f) \in Seq(PieceRecord)
  BY <1>1, CutFacts
<1> QED BY <1>2

LEMMA AtStart ==
    ASSUME NEW f \in Text
    PROVE  AtPiece(f, 0, 1)
<1>1. 1 \in 1..(Len(f) + 1)
  BY DEF Text
<1>2. Pieces(f) = Cutting(f)[1] /\ Len(Pieces(f)) \in Nat
  BY CutFacts, PiecesTyped
<1> DEFINE ps == Pieces(f)
<1>3. Len(ps) - 0 = Len(ps) /\ 0 \in 0..Len(ps) /\ \A i \in 1..Len(ps) : 0 + i = i
  BY <1>2
<1> QED BY <1>1, <1>2, <1>3 DEF AtPiece

LEMMA AtEnd ==
    ASSUME NEW f \in Text, NEW j, AtPiece(f, j, Len(f) + 1)
    PROVE  j = Len(Pieces(f))
<1>1. Cutting(f)[Len(f) + 1] = <<>>
  BY CutFacts
<1>2. 0 = Len(Pieces(f)) - j /\ j \in Nat
  BY <1>1, PiecesTyped DEF AtPiece
<1> QED BY <1>2, PiecesTyped

LEMMA AtNext ==
    ASSUME NEW f \in Text, NEW j, NEW p \in 1..Len(f), AtPiece(f, j, p)
    PROVE  /\ j < Len(Pieces(f)) /\ Pieces(f)[j + 1] = Piece(f, p)
           /\ AtPiece(f, j + 1, Piece(f, p).next)
<1> DEFINE n == Len(Pieces(f))
           ps == Pieces(f)
           c == Piece(f, p)
           G == Cutting(f)[p]
           H == Cutting(f)[c.next]
<1>1. n \in Nat /\ j \in 0..n /\ Len(G) = n - j /\ \A i \in 1..(n - j) : G[i] = ps[j + i]
  BY PiecesTyped DEF AtPiece
<1>2. c \in PieceRecord /\ c.next \in 1..(Len(f) + 1)
  <2>1. Len(f) \in Nat /\ p \in Nat /\ c.next \in (p + 1)..(Len(f) + 1)
    BY PieceFacts DEF Text
  <2>2. c \in PieceRecord
    BY PieceFacts
  <2> QED BY <2>1, <2>2
<1>3. G = <<c>> \o H /\ H \in Seq(PieceRecord)
  BY <1>2, CutFacts
<1> HIDE DEF n, ps, c, G, H
<1>4. <<c>> \in Seq(PieceRecord) /\ Len(<<c>>) = 1 /\ <<c>>[1] = c
  BY <1>2
<1>5. Len(G) = 1 + Len(H) /\ Len(H) \in Nat /\ G[1] = c /\ \A i \in 1..Len(H) : G[1 + i] = H[i]
  <2> DEFINE t == <<c>>
  <2>1. t \in Seq(PieceRecord) /\ Len(t) = 1 /\ t[1] = c /\ G = t \o H
    BY <1>3, <1>4
  <2> HIDE DEF t
  <2>2. /\ Len(t \o H) = Len(t) + Len(H) /\ Len(H) \in Nat
        /\ \A i \in 1..(Len(t) + Len(H)) : (t \o H)[i] = IF i <= Len(t) THEN t[i] ELSE H[i - Len(t)]
    BY <1>3, <2>1, ConcatProperties
  <2>3. \A i \in 1..(1 + Len(H)) : G[i] = IF i <= 1 THEN t[i] ELSE H[i - 1]
    BY <2>1, <2>2
  <2>4. 1 \in 1..(1 + Len(H)) /\ \A i \in 1..Len(H) : 1 + i \in 1..(1 + Len(H)) /\ ~(1 + i <= 1) /\ (1 + i) - 1 = i
    BY <2>2
  <2>5. G[1] = c
    BY <2>1, <2>3, <2>4
  <2>6. \A i \in 1..Len(H) : G[1 + i] = H[i]
    BY <2>3, <2>4
  <2> QED BY <2>1, <2>2, <2>5, <2>6
<1>6. j < n /\ Len(H) = n - (j + 1) /\ j + 1 \in 0..n
  <2> DEFINE l == Len(H)
  <2>1. n \in Nat /\ j \in Nat /\ j <= n
    BY <1>1
  <2>2. l \in Nat /\ 1 + l = n - j
    BY <1>1, <1>5
  <2> HIDE DEF l
  <2>3. j < n /\ l = n - (j + 1) /\ j + 1 \in 0..n
    BY <2>1, <2>2
  <2> QED BY <2>3 DEF l
<1>7. ps[j + 1] = c
  <2>1. 1 \in 1..(n - j)
    BY <1>1, <1>6
  <2> QED BY <1>1, <1>5, <2>1
<1>8. ASSUME NEW i \in 1..(n - (j + 1)) PROVE H[i] = ps[(j + 1) + i]
  <2>1. i \in 1..Len(H) /\ 1 + i \in 1..(n - j) /\ j + (1 + i) = (j + 1) + i
    BY <1>1, <1>6
  <2>2. H[i] = G[1 + i] /\ G[1 + i] = ps[j + (1 + i)]
    BY <1>1, <1>5, <2>1
  <2> QED BY <2>1, <2>2
<1> QED BY <1>2, <1>6, <1>7, <1>8 DEF AtPiece, n, ps, c, H

--------------------------------------------------------------------------------
(* What has been shown on the way, as a function of the format and the      *)
(* values.                                                                  *)

ShowOf(f, vals, c, i) ==
    CASE c.kind = "literal" -> Literal(f[c.at])
      [] c.kind = "numeric" -> Shown(i, FormatNumber(ScanNumeric(f, c.at), vals[i]))
      [] c.kind = "string"  ->
            Shown(i, FormatString(ScanString(f, c.at).width, vals[i].text))

FieldsOf(f)  == {i \in 1..Len(Pieces(f)) : IsField(Pieces(f)[i])}
PerWalk(f)   == Cardinality(FieldsOf(f))
InWalk(f, i) == ((i - 1) % Len(Pieces(f))) + 1
Walk(f, i)   == (i - 1) \div Len(Pieces(f))

ShownAt(f, vals, i) ==
    ShowOf(f, vals, Pieces(f)[InWalk(f, i)],
           Walk(f, i) * PerWalk(f) + FieldsUpTo(FieldsOf(f), InWalk(f, i)))

LastWalk(f, vals)  == (Len(vals) - 1) \div PerWalk(f)
LastField(f, vals) == Nth(FieldsOf(f), ((Len(vals) - 1) % PerWalk(f)) + 1)

PromisedFor(f, vals) ==
    (IF vals = <<>> THEN Verbatim(f, 1)
     ELSE [i \in 1..(LastWalk(f, vals) * Len(Pieces(f)) + LastField(f, vals)) |-> ShownAt(f, vals, i)]
          \o Verbatim(f, Pieces(f)[LastField(f, vals)].next))
    \o <<Literal("newline")>>

LEMMA SameAsPromised == Promised(Pieces(fmt)) \o EndOfLine = PromisedFor(fmt, values)
<1>1. \A c, i : Show(fmt, c, i) = ShowOf(fmt, values, c, i)
  BY DEF Show, ShowOf
<1> QED BY <1>1 DEF Promised, EndOfLine, Repeated, PromisedFor, ShownAt, FieldsOf, PerWalk, InWalk, Walk, LastWalk, LastField

Progress(f, vals, o, w, v, j, p) ==
    /\ AtPiece(f, j, p)
    /\ Len(o) = w * Len(Pieces(f)) + j
    /\ v = w * PerWalk(f) + FieldsUpTo(FieldsOf(f), j)
    /\ \A i \in 1..Len(o) : o[i] = ShownAt(f, vals, i)

LEMMA FieldsCounted ==
    ASSUME NEW f \in Text
    PROVE  /\ FieldsOf(f) \in SUBSET (1..Len(Pieces(f)))
           /\ PerWalk(f) \in Nat
           /\ FieldsUpTo(FieldsOf(f), 0) = 0
           /\ FieldsUpTo(FieldsOf(f), Len(Pieces(f))) = PerWalk(f)
           /\ \A j \in 0..Len(Pieces(f)) : FieldsUpTo(FieldsOf(f), j) \in 0..PerWalk(f)
           /\ \A j \in 1..Len(Pieces(f)) :
                 FieldsUpTo(FieldsOf(f), j) = FieldsUpTo(FieldsOf(f), j - 1) + One(j \in FieldsOf(f))
<1> DEFINE n == Len(Pieces(f))
           S == FieldsOf(f)
<1>1. n \in Nat /\ S \in SUBSET (1..n)
  BY PiecesTyped DEF FieldsOf
<1> HIDE DEF n, S
<1>2. /\ Cardinality(S) \in Nat
      /\ FieldsUpTo(S, 0) = 0 /\ FieldsUpTo(S, n) = Cardinality(S)
      /\ \A j \in 0..n : FieldsUpTo(S, j) \in 0..Cardinality(S)
      /\ \A j \in 1..n : FieldsUpTo(S, j) = FieldsUpTo(S, j - 1) + One(j \in S)
  BY <1>1, FieldCount
<1> QED BY <1>1, <1>2 DEF n, S, PerWalk

(* One more piece.                                                          *)
LEMMA ProgressNext ==
    ASSUME NEW f \in Text, NEW vals, NEW o \in Seq(Item), NEW w \in Nat, NEW v \in Nat, NEW j,
           NEW p \in 1..Len(f), Progress(f, vals, o, w, v, j, p), NEW x \in Item, NEW u,
           u = v + One(IsField(Piece(f, p))), x = ShowOf(f, vals, Piece(f, p), u)
    PROVE  /\ Progress(f, vals, Append(o, x), w, u, j + 1, Piece(f, p).next)
           /\ Pieces(f)[j + 1] = Piece(f, p)
           /\ IsField(Piece(f, p)) => j + 1 \in FieldsOf(f)
<1> DEFINE n == Len(Pieces(f))
           c == Piece(f, p)
           per == PerWalk(f)
           F == FieldsOf(f)
           k == w * n + j
<1>1. AtPiece(f, j, p) /\ Len(o) = k /\ v = w * per + FieldsUpTo(F, j)
  BY DEF Progress
<1>2. \A i \in 1..Len(o) : o[i] = ShownAt(f, vals, i)
  BY DEF Progress
<1>3. n \in Nat /\ j \in 0..n
  BY <1>1, PiecesTyped DEF AtPiece
<1>4. j < n /\ Pieces(f)[j + 1] = c /\ AtPiece(f, j + 1, c.next)
  BY <1>1, AtNext
<1>5. j + 1 \in 1..n /\ j \in 0..(n - 1) /\ n \in Nat \ {0} /\ (j + 1) - 1 = j
  BY <1>3, <1>4
<1>6. j + 1 \in F <=> IsField(c)
  BY <1>4, <1>5 DEF FieldsOf
<1>7. per \in Nat /\ FieldsUpTo(F, j + 1) = FieldsUpTo(F, j) + One(IsField(c)) /\ FieldsUpTo(F, j) \in Nat
  <2>1. FieldsUpTo(F, j + 1) = FieldsUpTo(F, (j + 1) - 1) + One(j + 1 \in F) /\ per \in Nat
    BY <1>5, FieldsCounted
  <2>2. FieldsUpTo(F, j) \in 0..per
    BY <1>3, FieldsCounted
  <2>3. One(j + 1 \in F) = One(IsField(c))
    BY <1>6 DEF One
  <2> QED BY <1>5, <2>1, <2>2, <2>3
<1>8. k \in Nat /\ k + 1 = w * n + (j + 1)
  BY <1>3
<1>9. k \div n = w /\ k % n = j
  BY <1>5, DivMod
<1>10. One(IsField(c)) \in Nat
  BY DEF One
<1>11. u = w * per + FieldsUpTo(F, j + 1)
  <2> DEFINE a == w * per
             b == FieldsUpTo(F, j)
             d == One(IsField(c))
  <2>1. a \in Nat /\ b \in Nat /\ d \in Nat /\ u = (a + b) + d /\ FieldsUpTo(F, j + 1) = b + d
    BY <1>1, <1>7, <1>10, SMTT(30)
  <2> HIDE DEF a, b, d
  <2>2. u = a + FieldsUpTo(F, j + 1)
    BY <2>1
  <2> QED BY <2>2 DEF a
<1>12. ShownAt(f, vals, k + 1) = x
  <2>1. (k + 1) - 1 = k
    BY <1>8
  <2>2. InWalk(f, k + 1) = j + 1 /\ Walk(f, k + 1) = w
    BY <1>9, <2>1 DEF InWalk, Walk
  <2>3. ShownAt(f, vals, k + 1) = ShowOf(f, vals, Pieces(f)[j + 1], w * per + FieldsUpTo(F, j + 1))
    BY <2>2 DEF ShownAt
  <2> QED BY <1>4, <1>11, <2>3
<1> DEFINE q == Append(o, x)
<1>13. Len(q) = k + 1 /\ q[k + 1] = x /\ \A i \in 1..k : q[i] = o[i]
  BY <1>1, AppendProperties
<1> HIDE DEF k, q
<1>14. ASSUME NEW i \in 1..Len(q) PROVE q[i] = ShownAt(f, vals, i)
  <2>1. i \in 1..k \/ i = k + 1
    BY <1>8, <1>13
  <2>2. CASE i \in 1..k
    BY <1>1, <1>2, <1>13, <2>2
  <2>3. CASE i = k + 1
    BY <1>12, <1>13, <2>3
  <2> QED BY <2>1, <2>2, <2>3
<1>15. Len(q) = w * n + (j + 1)
  BY <1>8, <1>13
<1>16. Progress(f, vals, q, w, u, j + 1, c.next)
  BY <1>4, <1>11, <1>14, <1>15 DEF Progress
<1> QED BY <1>4, <1>6, <1>16 DEF q

(* At the end of the format, from its start.                                *)
LEMMA ProgressWraps ==
    ASSUME NEW f \in Text, NEW vals, NEW o, NEW w \in Nat, NEW v, NEW j,
           Progress(f, vals, o, w, v, j, Len(f) + 1)
    PROVE  Progress(f, vals, o, w + 1, v, 0, 1)
<1> DEFINE n == Len(Pieces(f))
           per == PerWalk(f)
<1>1. AtPiece(f, j, Len(f) + 1) /\ Len(o) = w * n + j /\ v = w * per + FieldsUpTo(FieldsOf(f), j)
  BY DEF Progress
<1>2. j = n /\ n \in Nat /\ per \in Nat
  BY <1>1, AtEnd, PiecesTyped, FieldsCounted
<1>3. FieldsUpTo(FieldsOf(f), j) = per /\ FieldsUpTo(FieldsOf(f), 0) = 0
  BY <1>2, FieldsCounted
<1>4. AtPiece(f, 0, 1)
  BY AtStart
<1>5. (w + 1) * n + 0 = w * n + n /\ (w + 1) * per + 0 = w * per + per
  BY <1>2
<1>6. \A i \in 1..Len(o) : o[i] = ShownAt(f, vals, i)
  BY DEF Progress
<1> QED BY <1>1, <1>2, <1>3, <1>4, <1>5, <1>6 DEF Progress

(* Behind the last value's field only the rest of the format is left.       *)
LEMMA ProgressEnds ==
    ASSUME NEW f \in Text, NEW vals \in Seq(Value), vals # <<>>, NEW o \in Seq(Item), NEW w \in Nat,
           NEW j \in FieldsOf(f), NEW p, Progress(f, vals, o, w, Len(vals), j, p),
           p = Pieces(f)[j].next
    PROVE  PromisedFor(f, vals) = (o \o Verbatim(f, p)) \o <<Literal("newline")>>
<1> DEFINE n == Len(Pieces(f))
           per == PerWalk(f)
           F == FieldsOf(f)
           m == FieldsUpTo(F, j) - 1
<1>1. Len(o) = w * n + j /\ Len(vals) = w * per + FieldsUpTo(F, j)
  BY DEF Progress
<1>2. \A i \in 1..Len(o) : o[i] = ShownAt(f, vals, i)
  BY DEF Progress
<1>3. n \in Nat /\ F \in SUBSET (1..n) /\ per \in Nat
  BY PiecesTyped, FieldsCounted
<1>4. Nth(F, FieldsUpTo(F, j)) = j /\ FieldsUpTo(F, j) >= 1
  <2> HIDE DEF n, F
  <2>1. j \in F
    BY DEF F
  <2> QED BY <1>3, <2>1, NthField
<1>5. FieldsUpTo(F, j) \in 0..per
  <2>1. j \in 0..n
    BY <1>3
  <2> QED BY <2>1, FieldsCounted
<1>6. m \in 0..(per - 1) /\ per \in Nat \ {0} /\ FieldsUpTo(F, j) = m + 1
  BY <1>3, <1>4, <1>5
<1> HIDE DEF m
<1>7. w * per \in Nat /\ Len(vals) - 1 = w * per + m
  <2>1. w * per \in Nat
    BY <1>3
  <2> QED BY <1>1, <1>6, <2>1
<1>8. (Len(vals) - 1) \div per = w /\ (Len(vals) - 1) % per = m
  BY <1>6, <1>7, DivMod
<1>9. LastWalk(f, vals) = w /\ LastField(f, vals) = j
  BY <1>4, <1>6, <1>8 DEF LastWalk, LastField
<1>10. o = [i \in 1..Len(o) |-> o[i]]
  OBVIOUS
<1>11. o = [i \in 1..(w * n + j) |-> ShownAt(f, vals, i)]
  BY <1>1, <1>2, <1>10
<1> QED BY <1>9, <1>11 DEF PromisedFor

(* A step of the inner loop shows the piece at the position.                *)
LEMMA InnerStep ==
    ASSUME TypeInv, phase = "inner", Escape \/ NumericField \/ StringField \/ LiteralChar
    PROVE  /\ fpos \in 1..Len(fmt)
           /\ vi' = vi + One(IsField(Piece(fmt, fpos)))
           /\ out' = Append(out, ShowOf(fmt, values, Piece(fmt, fpos), vi + One(IsField(Piece(fmt, fpos)))))
           /\ fpos' = Piece(fmt, fpos).next
           /\ phase' = IF IsField(Piece(fmt, fpos)) THEN "outer" ELSE "inner"
           /\ UNCHANGED <<fmt, values, passes>>
<1> DEFINE c == Piece(fmt, fpos)
           n == ScanNumeric(fmt, fpos).length
           s == ScanString(fmt, fpos).length
<1>1. fpos \in 1..Len(fmt)
  BY DEF TypeInv, Escape, NumericField, StringField, LiteralChar, Text
<1>2. vi \in Nat /\ n \in Nat /\ s \in Nat
  <2>1. vi \in Nat
    BY DEF TypeInv
  <2>2. fmt \in Text /\ Len(fmt) \in Nat
    BY DEF TypeInv, Text
  <2>3. n \in 0..(Len(fmt) + 1 - fpos) /\ s \in 0..(Len(fmt) + 1 - fpos)
    BY <1>1, <2>2, ScanTyped, StringStays
  <2> QED BY <2>1, <2>3
<1>4. CASE Escape
  <2>1. Escaped /\ out' = Append(out, Literal(fmt[fpos + 1])) /\ fpos' = fpos + 2
        /\ UNCHANGED <<fmt, values, passes, vi, phase>>
    BY <1>4 DEF Escape, given
  <2>2. fpos < Len(fmt) /\ fmt[fpos] = Underscore
    BY <1>4 DEF Escape, Escaped
  <2>3. c.kind = "literal" /\ c.at = fpos + 1 /\ c.next = fpos + 2
    <3>1. c = [kind |-> "literal", at |-> fpos + 1, next |-> fpos + 2]
      BY <2>2 DEF Piece
    <3> QED BY <3>1
  <2>4. ~IsField(c) /\ One(IsField(c)) = 0 /\ vi + 0 = vi
    BY <1>2, <2>3 DEF IsField, One
  <2>5. ShowOf(fmt, values, c, vi) = Literal(fmt[fpos + 1])
    BY <2>3 DEF ShowOf
  <2> HIDE DEF c
  <2> QED BY <1>1, <2>1, <2>3, <2>4, <2>5 DEF c
<1>5. CASE NumericField
  <2>1. ~Escaped /\ n > 0 /\ fpos' = fpos + n /\ vi' = vi + 1 /\ phase' = "outer"
        /\ UNCHANGED <<fmt, values, passes>>
    BY <1>5 DEF NumericField, NumericAt, given
  <2>2. out' = Append(out, Shown(vi + 1, FormatNumber(ScanNumeric(fmt, fpos), values[vi + 1])))
    BY <1>5 DEF NumericField, NumericAt
  <2>3. c.kind = "numeric" /\ c.at = fpos /\ c.next = fpos + n
    <3>1. ~(fmt[fpos] = Underscore /\ fpos < Len(fmt))
      BY <2>1 DEF Escaped
    <3>2. c = [kind |-> "numeric", at |-> fpos, next |-> fpos + n]
      BY <2>1, <3>1 DEF Piece
    <3> QED BY <3>2
  <2>4. IsField(c) /\ One(IsField(c)) = 1
    BY <2>3 DEF IsField, One
  <2>5. ShowOf(fmt, values, c, vi + 1) = Shown(vi + 1, FormatNumber(ScanNumeric(fmt, fpos), values[vi + 1]))
    BY <2>3 DEF ShowOf
  <2> HIDE DEF c, n
  <2> QED BY <1>1, <2>1, <2>2, <2>3, <2>4, <2>5 DEF c
<1>6. CASE StringField
  <2>1. ~Escaped /\ n = 0 /\ s > 0 /\ fpos' = fpos + s /\ vi' = vi + 1 /\ phase' = "outer"
        /\ UNCHANGED <<fmt, values, passes>>
    BY <1>6 DEF StringField, NumericAt, StringAt, given
  <2>2. out' = Append(out, Shown(vi + 1, FormatString(ScanString(fmt, fpos).width, values[vi + 1].text)))
    BY <1>6 DEF StringField, StringAt
  <2>3. c.kind = "string" /\ c.at = fpos /\ c.next = fpos + s
    <3>1. ~(fmt[fpos] = Underscore /\ fpos < Len(fmt)) /\ ~(n > 0)
      BY <2>1 DEF Escaped
    <3>2. c = [kind |-> "string", at |-> fpos, next |-> fpos + s]
      BY <2>1, <3>1 DEF Piece
    <3> QED BY <3>2
  <2>4. IsField(c) /\ One(IsField(c)) = 1
    BY <2>3 DEF IsField, One
  <2>5. ShowOf(fmt, values, c, vi + 1)
            = Shown(vi + 1, FormatString(ScanString(fmt, fpos).width, values[vi + 1].text))
    BY <2>3 DEF ShowOf
  <2> HIDE DEF c, n, s
  <2> QED BY <1>1, <2>1, <2>2, <2>3, <2>4, <2>5 DEF c
<1>7. CASE LiteralChar
  <2>1. ~Escaped /\ n = 0 /\ s = 0 /\ fpos' = fpos + 1 /\ UNCHANGED <<fmt, values, passes, vi, phase>>
    BY <1>7 DEF LiteralChar, NumericAt, StringAt, given
  <2>2. out' = Append(out, Literal(fmt[fpos]))
    BY <1>7 DEF LiteralChar
  <2>3. c.kind = "literal" /\ c.at = fpos /\ c.next = fpos + 1
    <3>1. ~(fmt[fpos] = Underscore /\ fpos < Len(fmt)) /\ ~(n > 0) /\ ~(s > 0)
      BY <2>1 DEF Escaped
    <3>2. c = [kind |-> "literal", at |-> fpos, next |-> fpos + 1]
      BY <3>1 DEF Piece
    <3> QED BY <3>2
  <2>4. ~IsField(c) /\ One(IsField(c)) = 0 /\ vi + 0 = vi
    BY <1>2, <2>3 DEF IsField, One
  <2>5. ShowOf(fmt, values, c, vi) = Literal(fmt[fpos])
    BY <2>3 DEF ShowOf
  <2> HIDE DEF c, n, s
  <2> QED BY <1>1, <2>1, <2>2, <2>3, <2>4, <2>5 DEF c
<1> QED BY <1>4, <1>5, <1>6, <1>7

(* A step of the last loop shows the character at the position.             *)
LEMMA RestStep ==
    ASSUME TypeInv, phase = "rest", Escape \/ RestChar
    PROVE  /\ fpos \in 1..Len(fmt)
           /\ out' = Append(out, Plainly(fmt, fpos).text)
           /\ fpos' = Plainly(fmt, fpos).next
           /\ UNCHANGED <<fmt, values, phase>>
<1>1. fpos \in 1..Len(fmt)
  BY DEF TypeInv, Escape, RestChar, Text
<1>2. CASE Escape
  <2>1. fmt[fpos] = Underscore /\ fpos < Len(fmt) /\ out' = Append(out, Literal(fmt[fpos + 1]))
        /\ fpos' = fpos + 2 /\ UNCHANGED <<fmt, values, phase>>
    BY <1>2 DEF Escape, Escaped, given
  <2>2. Plainly(fmt, fpos) = [text |-> Literal(fmt[fpos + 1]), next |-> fpos + 2]
    BY <2>1 DEF Plainly
  <2> QED BY <1>1, <2>1, <2>2
<1>3. CASE RestChar
  <2>1. ~(fmt[fpos] = Underscore /\ fpos < Len(fmt)) /\ out' = Append(out, Literal(fmt[fpos]))
        /\ fpos' = fpos + 1 /\ UNCHANGED <<fmt, values, phase>>
    BY <1>3 DEF RestChar, Escaped, given
  <2>2. Plainly(fmt, fpos) = [text |-> Literal(fmt[fpos]), next |-> fpos + 1]
    BY <2>1 DEF Plainly
  <2> QED BY <1>1, <2>1, <2>2
<1> QED BY <1>2, <1>3

(* On the way j pieces of the present walk have been shown, and when the    *)
(* values are used up the last of them is a field; behind it, what is shown *)
(* and the rest of the format make up what was promised.                    *)
Underway(j) ==
    /\ Progress(fmt, values, out, passes, vi, j, fpos)
    /\ phase = "outer" /\ vi = Len(values) =>
           \/ values = <<>> /\ fpos = 1 /\ out = <<>>
           \/ values # <<>> /\ j \in FieldsOf(fmt) /\ fpos = Pieces(fmt)[j].next

ShowInv ==
    /\ phase = "statement" => fpos = 1 /\ vi = 0 /\ passes = 0 /\ out = <<>>
    /\ phase \in {"outer", "inner"} => \E j \in Nat : Underway(j)
    /\ phase = "rest" =>
           PromisedFor(fmt, values) = (out \o Verbatim(fmt, fpos)) \o <<Literal("newline")>>
    /\ phase = "done" => PromisedFor(fmt, values) = out

LEMMA ShowStart ==
    ASSUME Init
    PROVE  ShowInv
<1>1. phase = "statement" /\ fpos = 1 /\ vi = 0 /\ passes = 0 /\ out = <<>>
  BY DEF Init
<1> QED BY <1>1 DEF ShowInv

LEMMA ShowStep ==
    ASSUME TypeInv, TypeInv', ShowInv, [Next]_vars
    PROVE  ShowInv'
<1>0. /\ fmt \in Text /\ Len(fmt) \in Nat /\ values \in Seq(Value) /\ Len(values) \in Nat
      /\ out \in Seq(Item) /\ out' \in Seq(Item) /\ vi \in Nat /\ passes \in Nat
      /\ vi <= Len(values) /\ fpos \in 1..(Len(fmt) + 1)
  <2>1. fmt \in Text /\ values \in Seq(Value) /\ out \in Seq(Item) /\ out' \in Seq(Item)
    BY DEF TypeInv
  <2>2. vi \in 0..Len(values) /\ passes \in 0..MaxPasses /\ MaxPasses \in Nat /\ fpos \in 1..(Len(fmt) + 1)
    BY FormatsOK DEF TypeInv
  <2>3. Len(fmt) \in Nat /\ Len(values) \in Nat
    BY <2>1 DEF Text
  <2> QED BY <2>1, <2>2, <2>3
<1>1. CASE Start
  <2>1. /\ phase' \in {"outer", "badFileNumber", "typeMismatch"} /\ phase = "statement"
        /\ UNCHANGED <<fmt, values, fpos, vi, passes, out>>
    BY <1>1 DEF Start, given
  <2>2. fpos = 1 /\ vi = 0 /\ passes = 0 /\ out = <<>>
    BY <2>1 DEF ShowInv
  <2>3. Progress(fmt, values, out, passes, vi, 0, fpos)
    <3>1. AtPiece(fmt, 0, 1) /\ Len(Pieces(fmt)) \in Nat /\ PerWalk(fmt) \in Nat
          /\ FieldsUpTo(FieldsOf(fmt), 0) = 0
      BY <1>0, AtStart, PiecesTyped, FieldsCounted
    <3>2. Len(out) = 0 /\ 0 * Len(Pieces(fmt)) + 0 = 0 /\ 0 * PerWalk(fmt) + 0 = 0
      BY <2>2, <3>1
    <3>3. \A i \in 1..Len(out) : out[i] = ShownAt(fmt, values, i)
      BY <3>2
    <3> QED BY <2>2, <3>1, <3>2, <3>3 DEF Progress
  <2>4. vi = Len(values) => values = <<>>
    BY <1>0, <2>2, EmptySeq
  <2>5. Underway(0)'
    BY <2>1, <2>2, <2>3, <2>4 DEF Underway
  <2>6. phase' \notin {"statement", "inner", "rest", "done"}
    BY <2>1
  <2> QED BY <2>5, <2>6 DEF ShowInv
<1>2. CASE Recycle
  <2>1. phase = "outer" /\ vi < Len(values) /\ phase' = "inner" /\ UNCHANGED <<fmt, values, vi, out>>
    BY <1>2 DEF Recycle, given
  <2>2. PICK j \in Nat : Underway(j)
    BY <2>1 DEF ShowInv
  <2>3. Progress(fmt, values, out, passes, vi, j, fpos)
    BY <2>2 DEF Underway
  <2>4. CASE fpos > Len(fmt)
    <3>1. fpos = Len(fmt) + 1 /\ fpos' = 1 /\ passes' = passes + 1
      BY <1>0, <1>2, <2>4 DEF Recycle
    <3>2. Progress(fmt, values, out, passes + 1, vi, 0, 1)
      BY <1>0, <2>3, <3>1, ProgressWraps
    <3>3. Underway(0)'
      BY <2>1, <3>1, <3>2 DEF Underway
    <3> QED BY <2>1, <3>3 DEF ShowInv
  <2>5. CASE ~(fpos > Len(fmt))
    <3>1. UNCHANGED <<fpos, passes>>
      BY <1>2, <2>5 DEF Recycle
    <3>2. Underway(j)'
      BY <2>1, <2>3, <3>1 DEF Underway
    <3> QED BY <2>1, <3>2 DEF ShowInv
  <2> QED BY <2>4, <2>5
<1>3. CASE ValuesShown
  <2>1. /\ phase = "outer" /\ vi = Len(values) /\ phase' = "rest"
        /\ UNCHANGED <<fmt, values, fpos, vi, passes, out>>
    BY <1>3 DEF ValuesShown, given
  <2>2. PICK j \in Nat : Underway(j)
    BY <2>1 DEF ShowInv
  <2>3. PromisedFor(fmt, values) = (out \o Verbatim(fmt, fpos)) \o <<Literal("newline")>>
    <3>1. CASE values = <<>>
      <4>1. fpos = 1 /\ out = <<>>
        BY <2>1, <2>2, <3>1 DEF Underway
      <4>2. Verbatim(fmt, fpos) \in Seq(Item)
        BY <1>0, VerbatimFacts
      <4>3. out \o Verbatim(fmt, fpos) = Verbatim(fmt, 1)
        BY <4>1, <4>2, ConcatEmptySeq
      <4> QED BY <3>1, <4>3 DEF PromisedFor
    <3>2. CASE values # <<>>
      <4>1. j \in FieldsOf(fmt) /\ fpos = Pieces(fmt)[j].next
            /\ Progress(fmt, values, out, passes, Len(values), j, fpos)
        BY <2>1, <2>2, <3>2 DEF Underway
      <4> QED BY <1>0, <3>2, <4>1, ProgressEnds, SMTT(30)
    <3> QED BY <3>1, <3>2
  <2> QED BY <2>1, <2>3 DEF ShowInv
<1>4. CASE FormatEnds
  <2>1. phase = "inner" /\ phase' = "outer" /\ UNCHANGED <<fmt, values, fpos, vi, passes, out>>
    BY <1>4 DEF FormatEnds, given
  <2>2. PICK j \in Nat : Underway(j)
    BY <2>1 DEF ShowInv
  <2>3. Progress(fmt, values, out, passes, vi, j, fpos)
    BY <2>2 DEF Underway
  <2>4. vi # Len(values)
    BY <1>0, <2>1 DEF TypeInv
  <2>5. Underway(j)'
    BY <2>1, <2>3, <2>4 DEF Underway
  <2> QED BY <2>1, <2>5 DEF ShowInv
<1>5. CASE phase = "inner" /\ (Escape \/ NumericField \/ StringField \/ LiteralChar)
  <2> DEFINE c == Piece(fmt, fpos)
             u == vi + One(IsField(c))
             x == ShowOf(fmt, values, c, u)
  <2>1. /\ fpos \in 1..Len(fmt) /\ vi' = u /\ out' = Append(out, x) /\ fpos' = c.next
        /\ phase' = IF IsField(c) THEN "outer" ELSE "inner"
        /\ UNCHANGED <<fmt, values, passes>>
    BY <1>5, InnerStep
  <2>2. PICK j \in Nat : Underway(j)
    BY <1>5 DEF ShowInv
  <2>3. Progress(fmt, values, out, passes, vi, j, fpos)
    BY <2>2 DEF Underway
  <2>4. x \in Item
    <3> HIDE DEF x
    <3>1. Len(out') = Len(out) + 1 /\ Len(out) \in Nat /\ out'[Len(out) + 1] = x
      <4>1. \E S : out \in Seq(S) /\ x \in S
        <5>1. out \in Seq(Item \cup {x})
          BY <1>0
        <5> QED BY <5>1
      <4>2. PICK S : out \in Seq(S) /\ x \in S
        BY <4>1
      <4> QED BY <2>1, <4>2, AppendProperties
    <3>2. Len(out) + 1 \in 1..Len(out')
      BY <3>1
    <3>3. out'[Len(out) + 1] \in Item
      BY <1>0, <3>2, ElementOfSeq
    <3> QED BY <3>1, <3>3
  <2>5. /\ Progress(fmt, values, out', passes, u, j + 1, c.next)
        /\ Pieces(fmt)[j + 1] = c
        /\ IsField(c) => j + 1 \in FieldsOf(fmt)
    <3>1. u = vi + One(IsField(Piece(fmt, fpos))) /\ x = ShowOf(fmt, values, Piece(fmt, fpos), u)
      OBVIOUS
    <3> HIDE DEF x, u
    <3>2. /\ Progress(fmt, values, Append(out, x), passes, u, j + 1, Piece(fmt, fpos).next)
          /\ Pieces(fmt)[j + 1] = Piece(fmt, fpos)
          /\ IsField(Piece(fmt, fpos)) => j + 1 \in FieldsOf(fmt)
      BY <1>0, <2>1, <2>3, <2>4, <3>1, ProgressNext
    <3> QED BY <2>1, <3>2
  <2> HIDE DEF c, u, x
  <2>6. ASSUME phase' = "outer", vi' = Len(values)
        PROVE  values # <<>> /\ j + 1 \in FieldsOf(fmt) /\ fpos' = Pieces(fmt)[j + 1].next
    <3>1. IsField(c)
      BY <2>1, <2>6
    <3>2. vi < Len(values)
      BY <1>5 DEF TypeInv
    <3>3. values # <<>>
      BY <1>0, <3>2
    <3> QED BY <2>1, <2>5, <3>1, <3>3
  <2>7. Underway(j + 1)'
    BY <2>1, <2>5, <2>6 DEF Underway
  <2>8. phase' \in {"outer", "inner"} /\ j + 1 \in Nat
    BY <2>1
  <2> QED BY <2>7, <2>8 DEF ShowInv
<1>6. CASE phase = "rest" /\ (Escape \/ RestChar)
  <2> DEFINE q == Plainly(fmt, fpos).text
             p == Plainly(fmt, fpos).next
             nl == <<Literal("newline")>>
  <2>1. fpos \in 1..Len(fmt) /\ out' = Append(out, q) /\ fpos' = p /\ UNCHANGED <<fmt, values, phase>>
    BY <1>6, RestStep
  <2>2. q \in Item /\ p \in 1..(Len(fmt) + 1)
    <3>1. q \in Item /\ p \in (fpos + 1)..(Len(fmt) + 1) /\ fpos \in Nat
      BY <1>0, <2>1, PlainlyFacts
    <3> QED BY <1>0, <3>1
  <2>3. Verbatim(fmt, fpos) = <<q>> \o Verbatim(fmt, p) /\ Verbatim(fmt, p) \in Seq(Item)
    BY <1>0, <2>1, <2>2, VerbatimFacts
  <2>4. PromisedFor(fmt, values) = (out \o Verbatim(fmt, fpos)) \o nl
    BY <1>6 DEF ShowInv
  <2> HIDE DEF q, p, nl
  <2>5. out \o (<<q>> \o Verbatim(fmt, p)) = (out \o <<q>>) \o Verbatim(fmt, p)
    <3> DEFINE t == <<q>>
               V == Verbatim(fmt, p)
    <3>1. t \in Seq(Item) /\ V \in Seq(Item) /\ out \in Seq(Item)
      BY <1>0, <2>2, <2>3
    <3> HIDE DEF t, V
    <3>2. (out \o t) \o V = out \o (t \o V)
      BY <3>1, ConcatAssociative
    <3> QED BY <3>2 DEF t, V
  <2>6. out' = out \o <<q>>
    BY <1>0, <2>1, <2>2, AppendIsConcat
  <2>7. PromisedFor(fmt, values) = (out' \o Verbatim(fmt, fpos')) \o nl
    BY <2>1, <2>3, <2>4, <2>5, <2>6
  <2>8. phase' = "rest"
    BY <1>6, <2>1
  <2>9. (PromisedFor(fmt, values) = (out \o Verbatim(fmt, fpos)) \o nl)'
    BY <2>1, <2>7 DEF nl
  <2> QED BY <2>8, <2>9 DEF ShowInv, nl
<1>7. CASE Newline
  <2>1. /\ phase = "rest" /\ fpos > Len(fmt) /\ phase' = "done"
        /\ out' = Append(out, Literal("newline")) /\ UNCHANGED <<fmt, values>>
    BY <1>7 DEF Newline, given
  <2>2. fpos = Len(fmt) + 1
    BY <1>0, <2>1
  <2>3. Verbatim(fmt, fpos) = <<>>
    BY <1>0, <2>2, VerbatimFacts
  <2>4. out \o Verbatim(fmt, fpos) = out
    BY <1>0, <2>3, ConcatEmptySeq
  <2>5. Literal("newline") \in Item
    BY Characters, LiteralItem
  <2>6. out' = out \o <<Literal("newline")>>
    BY <1>0, <2>1, <2>5, AppendIsConcat
  <2>7. PromisedFor(fmt, values) = out'
    BY <2>1, <2>4, <2>6 DEF ShowInv
  <2> QED BY <2>1, <2>7 DEF ShowInv
<1>8. CASE UNCHANGED vars
  BY <1>8 DEF vars, given, ShowInv, Underway
<1>12. CASE Overrun
  <2>1. phase' = "overrun"
    BY <1>12 DEF Overrun
  <2> QED BY <2>1 DEF ShowInv
<1>9. Escape => phase \in {"inner", "rest"}
  BY DEF Escape
<1>10. NumericField \/ StringField \/ LiteralChar => phase = "inner"
  BY DEF NumericField, StringField, LiteralChar
<1>11. RestChar => phase = "rest"
  BY DEF RestChar
<1> QED
  BY <1>1, <1>2, <1>3, <1>4, <1>5, <1>6, <1>7, <1>8, <1>9, <1>10, <1>11, <1>12 DEF Next

(* When the statement is done it has shown what was promised: the pieces of *)
(* the format over and over with the values in their order, cut behind the  *)
(* last value's field, then the rest of the format and the end of the line, *)
(* which a semicolon at the end of the statement was to keep back.          *)
THEOREM PromisedAlways == Spec => []AsPromised
<1>1. Init => ShowInv
  BY ShowStart
<1>2. TypeInv /\ TypeInv' /\ ShowInv /\ [Next]_vars => ShowInv'
  BY ShowStep
<1>3. ShowInv => AsPromised
  BY SameAsPromised DEF ShowInv, AsPromised
<1> QED BY <1>1, <1>2, <1>3, TypeInvAlways, PTL DEF Spec

================================================================================
