-------------------------------- MODULE ArrayProofs --------------------------------
(***************************************************************************)
(* Proofs about Arrays, for all bounds, subscripts and numbers of arrays   *)
(* and calls: flattened subscripts fill a block without a gap or a clash,  *)
(* in a program that uses arrays well no pointer dangles, and there every  *)
(* statement is a step of ArrayStore.                                      *)
(***************************************************************************)
EXTENDS Arrays, WellFoundedInduction, SequenceTheorems, FiniteSetTheorems, TLAPS

--------------------------------------------------------------------------------
(* Induction over the numbers, stated with sets: P holds of every number if *)
(* the set of those it holds of has 0 and with each number the next one.    *)

(* A set of natural numbers that is not empty has a least element.          *)
LEMMA LeastElement ==
    ASSUME NEW T, T \subseteq Nat, T # {}
    PROVE  \E n \in T : \A m \in T : n <= m
<1> DEFINE Less == {ss \in Nat \X Nat : ss[1] < ss[2]}
<1>1. IsWellFoundedOn(Less, Nat)
  BY NatLessThanWellFounded DEF OpToRel
<1> HIDE DEF Less
<1>2. PICK n \in T : \A m \in T : ~(<<m, n>> \in Less)
  BY <1>1, WFMin
<1>3. ASSUME NEW m \in T PROVE n <= m
  <2>1. <<m, n>> \in Nat \X Nat /\ ~(<<m, n>> \in Less)
    BY <1>2
  <2>2. ~(<<m, n>>[1] < <<m, n>>[2])
    BY <2>1 DEF Less
  <2> QED BY <2>2
<1> QED BY <1>3

(* A set with 0 and with each of its numbers the next one has them all.     *)
LEMMA EveryNumber ==
    ASSUME NEW T, 0 \in T, \A n \in Nat : n \in T => n + 1 \in T
    PROVE  Nat \subseteq T
<1> SUFFICES ASSUME Nat \ T # {} PROVE FALSE
  OBVIOUS
<1>1. PICK n \in Nat \ T : \A m \in Nat \ T : n <= m
  BY LeastElement
<1>2. n # 0 /\ n - 1 \in Nat /\ n - 1 \in T
  BY <1>1
<1>3. (n - 1) + 1 \in T
  BY <1>2
<1> QED BY <1>2, <1>3

(* The same for the numbers up to k.                                        *)
LEMMA UpTo ==
    ASSUME NEW T, NEW k \in Nat, 0 \in T, \A i \in 1..k : i - 1 \in T => i \in T
    PROVE  0..k \subseteq T
<1> DEFINE U == {i \in Nat : i <= k => i \in T}
<1>1. 0 \in U
  OBVIOUS
<1>2. ASSUME NEW n \in Nat, n \in U, n + 1 <= k PROVE n + 1 \in T
  <2>1. n \in T /\ n + 1 \in 1..k /\ (n + 1) - 1 = n
    BY <1>2
  <2> QED BY <2>1
<1>3. \A n \in Nat : n \in U => n + 1 \in U
  BY <1>2
<1> HIDE DEF U
<1>4. Nat \subseteq U
  BY <1>1, <1>3, EveryNumber
<1> QED BY <1>4 DEF U

--------------------------------------------------------------------------------
(* Numbers with a digit more.                                               *)

LEMMA Multiple == ASSUME NEW a \in Nat \ {0}, NEW t \in Nat PROVE a * t >= t /\ a * t \in Nat
<1> DEFINE e == a - 1
<1>1. e \in Nat /\ a = e + 1
  OBVIOUS
<1> HIDE DEF e
<1>2. e * t \in Nat /\ (e + 1) * t = e * t + t
  BY <1>1
<1> QED BY <1>1, <1>2

LEMMA DigitBounded ==
    ASSUME NEW t \in Nat \ {0}, NEW m \in Nat \ {0}, NEW x \in 0..(t - 1), NEW a \in 0..(m - 1)
    PROVE  x + a * t \in 0..(t * m - 1)
<1> DEFINE e == m - a
<1>1. e \in Nat \ {0} /\ m = a + e
  OBVIOUS
<1> HIDE DEF e
<1>2. t * (a + e) = a * t + e * t /\ a * t \in Nat
  BY <1>1
<1>3. e * t >= t /\ e * t \in Nat
  BY <1>1, Multiple
<1> QED BY <1>1, <1>2, <1>3

LEMMA SameDigits ==
    ASSUME NEW t \in Nat \ {0}, NEW x \in 0..(t - 1), NEW y \in 0..(t - 1),
           NEW a \in Int, NEW c \in Int, x + a * t = y + c * t
    PROVE  a = c /\ x = y
<1>1. ASSUME NEW e \in Nat \ {0}, NEW z \in 0..(t - 1), NEW w \in 0..(t - 1), NEW g \in Int,
             z + (g + e) * t = w + g * t
      PROVE  FALSE
  <2>1. (g + e) * t = g * t + e * t /\ g * t \in Int
    OBVIOUS
  <2>2. e * t >= t /\ e * t \in Nat
    BY Multiple
  <2> QED BY <1>1, <2>1, <2>2
<1>2. CASE a > c
  <2> DEFINE e == a - c
  <2>1. e \in Nat \ {0} /\ a = c + e
    BY <1>2
  <2> HIDE DEF e
  <2> QED BY <1>1, <2>1
<1>3. CASE a < c
  <2> DEFINE e == c - a
  <2>1. e \in Nat \ {0} /\ c = a + e
    BY <1>3
  <2> HIDE DEF e
  <2> QED BY <1>1, <2>1
<1>4. CASE a = c
  BY <1>4
<1> QED BY <1>2, <1>3, <1>4

LEMMA SplitDigit ==
    ASSUME NEW t \in Nat \ {0}, NEW m \in Nat \ {0}, NEW p \in 0..(t * m - 1)
    PROVE  \E x \in 0..(t - 1), a \in 0..(m - 1) : p = x + a * t
<1> DEFINE x == p % t
           a == p \div t
<1>1. x \in 0..(t - 1) /\ a \in Int /\ p = a * t + x
  OBVIOUS
<1> HIDE DEF x, a
<1>2. a < m
  <2> SUFFICES ASSUME a >= m PROVE FALSE
    BY <1>1
  <2> DEFINE e == a - m
  <2>1. e \in Nat /\ a = m + e
    BY <1>1
  <2> HIDE DEF e
  <2>2. (m + e) * t = t * m + e * t /\ e * t \in Nat /\ t * m \in Nat
    BY <2>1
  <2> QED BY <1>1, <2>1, <2>2
<1>3. a >= 0
  <2> SUFFICES ASSUME a < 0 PROVE FALSE
    BY <1>1
  <2> DEFINE e == -a
  <2>1. e \in Nat \ {0} /\ a = -e
    BY <1>1
  <2> HIDE DEF e
  <2>2. (-e) * t = -(e * t) /\ e * t >= t /\ e * t \in Nat
    BY <2>1, Multiple
  <2> QED BY <1>1, <2>1, <2>2
<1> QED BY <1>1, <1>2, <1>3

--------------------------------------------------------------------------------
(* The two recursive functions, with their equations.                       *)

TotalIs(b, t) == t[0] = 1 /\ \A d \in 1..Len(b) : t[d] = t[d - 1] * Size(b, d)

LEMMA TotalUnfolds ==
    ASSUME NEW b, Len(b) \in Nat
    PROVE  \E t : TotalIs(b, t) /\ Total(b) = t[Len(b)]
<1> DEFINE Next1(x, i) == x * Size(b, i)
           UpTo1(g, n) == g = [i \in 0..n |-> IF i = 0 THEN 1 ELSE Next1(g[i - 1], i)]
           T == {n \in Nat : \E g : UpTo1(g, n)}
           k == Len(b)
           f == CHOOSE g : UpTo1(g, k)
<1>1. Total(b) = f[k]
  BY DEF Total
<1> HIDE DEF Next1
<1>2. 0 \in T
  <2>1. UpTo1([i \in 0..0 |-> 1], 0)
    OBVIOUS
  <2> QED BY <2>1
<1>3. ASSUME NEW n \in Nat, n \in T PROVE n + 1 \in T
  <2>1. PICK g : UpTo1(g, n)
    BY <1>3
  <2> DEFINE h == [i \in 0..(n + 1) |-> IF i = n + 1 THEN Next1(g[n], i) ELSE g[i]]
  <2>2. UpTo1(h, n + 1)
    BY <2>1
  <2> HIDE DEF h, UpTo1
  <2> QED BY <2>2
<1> HIDE DEF T
<1>4. k \in T
  BY <1>2, <1>3, EveryNumber
<1>5. UpTo1(f, k)
  BY <1>4 DEF T
<1> HIDE DEF f
<1>6. f[0] = 1
  BY <1>5
<1>7. ASSUME NEW i \in 1..k PROVE f[i] = Next1(f[i - 1], i)
  BY <1>5
<1> QED BY <1>1, <1>6, <1>7 DEF Next1, TotalIs

(* The cells before those of a tuple, and the size, of the last k dimensions. *)
Dimension(x, b, s, d) == [flat  |-> x.flat + (s[d] - b[d][1]) * x.times,
                          times |-> x.times * Size(b, d)]
FlatIs(b, s, r) ==
    /\ r[0] = [flat |-> 0, times |-> 1]
    /\ \A k \in 1..Len(b) : r[k] = Dimension(r[k - 1], b, s, Len(b) + 1 - k)

LEMMA FlatUnfolds ==
    ASSUME NEW b, NEW s, Len(b) \in Nat
    PROVE  \E r : FlatIs(b, s, r) /\ Flat(b, s) = r[Len(b)].flat
<1> DEFINE first == [flat |-> 0, times |-> 1]
           Next1(x, i) == Dimension(x, b, s, Len(b) + 1 - i)
           UpTo1(g, n) == g = [i \in 0..n |-> IF i = 0 THEN first ELSE Next1(g[i - 1], i)]
           T == {n \in Nat : \E g : UpTo1(g, n)}
           k == Len(b)
           f == CHOOSE g : UpTo1(g, k)
<1>1. Flat(b, s) = f[k].flat
  BY DEF Flat, Dimension
<1> HIDE DEF first, Next1
<1>2. 0 \in T
  <2>1. UpTo1([i \in 0..0 |-> first], 0)
    OBVIOUS
  <2> QED BY <2>1
<1>3. ASSUME NEW n \in Nat, n \in T PROVE n + 1 \in T
  <2>1. PICK g : UpTo1(g, n)
    BY <1>3
  <2> DEFINE h == [i \in 0..(n + 1) |-> IF i = n + 1 THEN Next1(g[n], i) ELSE g[i]]
  <2>2. UpTo1(h, n + 1)
    BY <2>1
  <2> HIDE DEF h, UpTo1
  <2> QED BY <2>2
<1> HIDE DEF T
<1>4. k \in T
  BY <1>2, <1>3, EveryNumber
<1>5. UpTo1(f, k)
  BY <1>4 DEF T
<1> HIDE DEF f
<1>6. f[0] = first
  BY <1>5
<1>7. ASSUME NEW i \in 1..k PROVE f[i] = Next1(f[i - 1], i)
  BY <1>5
<1> QED BY <1>1, <1>6, <1>7 DEF Next1, first, FlatIs

--------------------------------------------------------------------------------
(* Flattening.                                                              *)

ValidBounds == {b \in Seq(Int \X Int) : b # <<>> /\ ~Invalid(b)}

LEMMA BoundsAre == ASSUME NEW b \in Bounds PROVE b \in Seq(Int \X Int) /\ b # <<>>
<1>1. CASE b \in AllBounds
  BY <1>1, BoundsOK
<1>2. CASE \E s \in Subscripts : b = ByItself(Len(s))
  <2>1. PICK s \in Subscripts : b = ByItself(Len(s))
    BY <1>2
  <2>2. Len(s) \in Nat \ {0}
    BY BoundsOK, EmptySeq, LenProperties
  <2>3. b \in [1..Len(s) -> Int \X Int]
    BY <2>1, BoundsOK DEF ByItself
  <2> QED BY <2>2, <2>3, SeqDef, LenProperties
<1> QED BY <1>1, <1>2 DEF Bounds

LEMMA SizeIsInt ==
    ASSUME NEW b \in Seq(Int \X Int), NEW d \in 1..Len(b)
    PROVE  Size(b, d) \in Int /\ b[d][1] \in Int /\ b[d][2] \in Int
  BY ElementOfSeq DEF Size

LEMMA ValidSizes ==
    ASSUME NEW b \in ValidBounds
    PROVE  /\ b \in Seq(Int \X Int) /\ Len(b) \in Nat \ {0} /\ DOMAIN b = 1..Len(b)
           /\ \A d \in 1..Len(b) : /\ Size(b, d) \in Nat \ {0}
                                   /\ b[d][1] \in Int /\ b[d][2] \in Int
<1>1. b \in Seq(Int \X Int) /\ Len(b) \in Nat \ {0} /\ DOMAIN b = 1..Len(b)
  BY EmptySeq, LenProperties DEF ValidBounds
<1>2. ASSUME NEW d \in 1..Len(b) PROVE Size(b, d) \in Nat \ {0}
  <2>1. Size(b, d) \in Int
    BY <1>1, SizeIsInt
  <2>2. ~(Size(b, d) <= 0)
    BY <1>1 DEF ValidBounds, Invalid
  <2> QED BY <2>1, <2>2
<1> QED BY <1>1, <1>2, SizeIsInt

(* A subscript of a tuple is a digit.                                       *)
LEMMA TupleDigit ==
    ASSUME NEW b \in ValidBounds, NEW s \in Tuples(b), NEW d \in 1..Len(b)
    PROVE  s[d] \in Int /\ s[d] - b[d][1] \in 0..(Size(b, d) - 1)
<1>1. DOMAIN b = 1..Len(b) /\ b[d][1] \in Int /\ b[d][2] \in Int
  BY ValidSizes
<1>2. s[d] \in b[d][1]..b[d][2]
  BY <1>1 DEF Tuples
<1> QED BY <1>1, <1>2 DEF Size

LEMMA FlatInRange ==
    ASSUME NEW b \in ValidBounds, NEW s \in Tuples(b), NEW r, FlatIs(b, s, r), NEW k \in 0..Len(b)
    PROVE  r[k].times \in Nat \ {0} /\ r[k].flat \in 0..(r[k].times - 1)
<1> DEFINE n == Len(b)
           T == {i \in 0..n : r[i].times \in Nat \ {0} /\ r[i].flat \in 0..(r[i].times - 1)}
<1>1. n \in Nat
  BY ValidSizes
<1>2. 0 \in T
  BY <1>1 DEF FlatIs
<1>3. ASSUME NEW i \in 1..n, i - 1 \in T PROVE i \in T
  <2> DEFINE d == n + 1 - i
             x == r[i - 1]
             a == s[d] - b[d][1]
  <2>1. d \in 1..n
    BY <1>1
  <2>2. a \in 0..(Size(b, d) - 1) /\ Size(b, d) \in Nat \ {0}
    BY <2>1, TupleDigit, ValidSizes
  <2>3. r[i].flat = x.flat + a * x.times /\ r[i].times = x.times * Size(b, d)
    <3>1. r[i] = Dimension(x, b, s, d)
      BY DEF FlatIs
    <3> QED BY <3>1 DEF Dimension
  <2>4. x.times \in Nat \ {0} /\ x.flat \in 0..(x.times - 1)
    BY <1>3
  <2> HIDE DEF x, a, d, n
  <2>5. r[i].flat \in 0..(x.times * Size(b, d) - 1)
    BY <2>2, <2>3, <2>4, DigitBounded
  <2>6. x.times * Size(b, d) \in Nat \ {0}
    <3>1. Size(b, d) * x.times >= x.times /\ Size(b, d) * x.times = x.times * Size(b, d)
      BY <2>2, <2>4, Multiple
    <3> QED BY <2>2, <2>4, <3>1
  <2>7. i \in 0..n
    BY <1>1 DEF n
  <2> QED BY <2>3, <2>5, <2>6, <2>7
<1> HIDE DEF T
<1>4. 0..n \subseteq T
  BY <1>1, <1>2, <1>3, UpTo
<1> QED BY <1>4 DEF T

(* Only the last k subscripts matter after k dimensions.                    *)
LEMMA FlatOfSuffix ==
    ASSUME NEW b, Len(b) \in Nat, NEW s, NEW t, NEW r, NEW q, FlatIs(b, s, r), FlatIs(b, t, q),
           NEW k \in 0..Len(b), \A d \in (Len(b) + 1 - k)..Len(b) : s[d] = t[d]
    PROVE  r[k] = q[k]
<1> DEFINE n == Len(b)
           T == {i \in 0..k : r[i] = q[i]}
<1>1. 0 \in T
  BY DEF FlatIs
<1>2. ASSUME NEW i \in 1..k, i - 1 \in T PROVE i \in T
  <2>1. n + 1 - i \in (n + 1 - k)..n /\ i \in 1..n /\ r[i - 1] = q[i - 1]
    BY <1>2
  <2>2. s[n + 1 - i] = t[n + 1 - i]
    BY <2>1
  <2>3. r[i] = Dimension(r[i - 1], b, s, n + 1 - i) /\ q[i] = Dimension(q[i - 1], b, t, n + 1 - i)
    BY <2>1 DEF FlatIs
  <2> QED BY <2>1, <2>2, <2>3 DEF Dimension
<1> HIDE DEF T
<1>3. k \in Nat
  OBVIOUS
<1>4. 0..k \subseteq T
  BY <1>1, <1>2, <1>3, UpTo
<1> QED BY <1>3, <1>4 DEF T

LEMMA FlatIsFlat ==
    ASSUME NEW b, Len(b) \in Nat, NEW s, NEW r, FlatIs(b, s, r)
    PROVE  Flat(b, s) = r[Len(b)].flat
<1>1. PICK q : FlatIs(b, s, q) /\ Flat(b, s) = q[Len(b)].flat
  BY FlatUnfolds
<1>2. r[Len(b)] = q[Len(b)]
  BY <1>1, FlatOfSuffix
<1> QED BY <1>1, <1>2

(* The sizes do not depend on the tuple.                                    *)
LEMMA SameTimes ==
    ASSUME NEW b, Len(b) \in Nat, NEW s, NEW t, NEW r, NEW q, FlatIs(b, s, r), FlatIs(b, t, q),
           NEW k \in 0..Len(b)
    PROVE  r[k].times = q[k].times
<1> DEFINE T == {i \in 0..k : r[i].times = q[i].times}
<1>1. 0 \in T
  BY DEF FlatIs
<1>2. ASSUME NEW i \in 1..k, i - 1 \in T PROVE i \in T
  <2>1. i \in 1..Len(b) /\ r[i - 1].times = q[i - 1].times
    BY <1>2
  <2>2. /\ r[i] = Dimension(r[i - 1], b, s, Len(b) + 1 - i)
        /\ q[i] = Dimension(q[i - 1], b, t, Len(b) + 1 - i)
    BY <2>1 DEF FlatIs
  <2>3. r[i].times = q[i].times
    BY <2>1, <2>2 DEF Dimension
  <2> QED BY <2>3
<1> HIDE DEF T
<1>3. k \in Nat
  OBVIOUS
<1>4. 0..k \subseteq T
  BY <1>1, <1>2, <1>3, UpTo
<1> QED BY <1>3, <1>4 DEF T

(* Tuples of one position agree in every subscript.                         *)
LEMMA FlatDecides ==
    ASSUME NEW b \in ValidBounds, NEW s \in Tuples(b), NEW t \in Tuples(b),
           NEW r, NEW q, FlatIs(b, s, r), FlatIs(b, t, q),
           NEW k \in 0..Len(b), r[k].flat = q[k].flat
    PROVE  \A d \in (Len(b) + 1 - k)..Len(b) : s[d] = t[d]
<1> DEFINE n == Len(b)
           Agree(i) == \A d \in (n + 1 - i)..n : s[d] = t[d]
           T == {i \in 0..n : r[i].flat = q[i].flat => Agree(i)}
<1>1. n \in Nat
  BY ValidSizes
<1>2. 0 \in T
  BY <1>1
<1>3. ASSUME NEW i \in 1..n, i - 1 \in T PROVE i \in T
  <2> SUFFICES ASSUME r[i].flat = q[i].flat PROVE Agree(i)
    BY <1>1
  <2> DEFINE e == n + 1 - i
             x == r[i - 1]
             y == q[i - 1]
             a == s[e] - b[e][1]
             c == t[e] - b[e][1]
  <2>1. e \in 1..n /\ i - 1 \in 0..n
    BY <1>1
  <2>2. a \in Int /\ c \in Int /\ s[e] \in Int /\ t[e] \in Int /\ b[e][1] \in Int
    <3>1. b[e][1] \in Int
      BY <2>1, ValidSizes
    <3>2. s[e] \in Int /\ t[e] \in Int
      BY <2>1, TupleDigit
    <3> QED BY <3>1, <3>2
  <2>3. r[i].flat = x.flat + a * x.times /\ q[i].flat = y.flat + c * y.times
    <3>1. r[i] = Dimension(x, b, s, e) /\ q[i] = Dimension(y, b, t, e)
      BY DEF FlatIs
    <3> QED BY <3>1 DEF Dimension
  <2>4. x.times \in Nat \ {0} /\ x.flat \in 0..(x.times - 1) /\ y.flat \in 0..(y.times - 1)
    BY <2>1, FlatInRange
  <2>5. x.times = y.times
    BY <1>1, <2>1, SameTimes
  <2>6. a = c /\ x.flat = y.flat
    <3> DEFINE u == x.flat
               w == y.flat
               m == x.times
    <3>1. u + a * m = w + c * m
      BY <2>3, <2>5
    <3>2. a \in Int /\ c \in Int
      BY <2>2
    <3>3. m \in Nat \ {0} /\ u \in 0..(m - 1) /\ w \in 0..(m - 1)
      BY <2>4, <2>5
    <3> HIDE DEF a, c, u, w, m
    <3>4. a = c /\ u = w
      BY <3>1, <3>2, <3>3, SameDigits
    <3> QED BY <3>4 DEF u, w
  <2>7. s[e] = t[e]
    BY <2>2, <2>6
  <2>8. Agree(i - 1)
    BY <1>3, <2>6
  <2>9. ASSUME NEW d \in (n + 1 - i)..n PROVE s[d] = t[d]
    <3>1. CASE d = e
      BY <2>7, <3>1
    <3>2. CASE d # e
      <4>1. d \in (n + 1 - (i - 1))..n
        BY <1>1, <3>2
      <4> QED BY <2>8, <4>1
    <3> QED BY <3>1, <3>2
  <2> QED BY <2>9
<1> HIDE DEF T
<1>4. 0..n \subseteq T
  BY <1>1, <1>2, <1>3, UpTo
<1> QED BY <1>4 DEF T

LEMMA InRange ==
    ASSUME NEW l \in Int, NEW u \in Int, NEW a \in 0..((u - l + 1) - 1) PROVE l + a \in l..u
  OBVIOUS

(* Every position is that of some tuple.                                    *)
LEMMA FlatReaches ==
    ASSUME NEW b \in ValidBounds, NEW s0 \in Tuples(b), NEW r0, FlatIs(b, s0, r0),
           NEW k \in 0..Len(b), NEW p \in 0..(r0[k].times - 1)
    PROVE  \E s \in Tuples(b) : \E r : FlatIs(b, s, r) /\ r[k].flat = p
<1> DEFINE n == Len(b)
           Reached(i, x) == \E s \in Tuples(b) : \E r : FlatIs(b, s, r) /\ r[i].flat = x
           T == {i \in 0..n : \A x \in 0..(r0[i].times - 1) : Reached(i, x)}
<1>1. n \in Nat
  BY ValidSizes
<1>2. 0 \in T
  <2>1. r0[0].times = 1 /\ r0[0].flat = 0
    BY DEF FlatIs
  <2>2. ASSUME NEW x \in 0..(r0[0].times - 1) PROVE Reached(0, x)
    <3>1. x = 0
      BY <2>1, <2>2
    <3> QED BY <2>1, <3>1
  <2> QED BY <1>1, <2>2
<1>3. ASSUME NEW i \in 1..n, i - 1 \in T PROVE i \in T
  <2> SUFFICES ASSUME NEW x \in 0..(r0[i].times - 1) PROVE Reached(i, x)
    BY <1>1
  <2> DEFINE d == n + 1 - i
             m == r0[i - 1].times
             z == Size(b, d)
  <2>1. d \in 1..n /\ i - 1 \in 0..n
    BY <1>1
  <2>2. m \in Nat \ {0}
    BY <2>1, FlatInRange
  <2>3. z \in Nat \ {0} /\ b[d][1] \in Int /\ b[d][2] \in Int
    BY <2>1, ValidSizes
  <2>4. r0[i].times = m * z
    <3>1. r0[i] = Dimension(r0[i - 1], b, s0, d)
      BY DEF FlatIs
    <3> QED BY <3>1 DEF Dimension
  <2>5. PICK y \in 0..(m - 1), a \in 0..(z - 1) : x = y + a * m
    <3> HIDE DEF m, z
    <3> QED BY <2>2, <2>3, <2>4, SplitDigit
  <2>s. PICK s \in Tuples(b) : \E r : FlatIs(b, s, r) /\ r[i - 1].flat = y
    BY <1>3, <2>5
  <2>6. PICK r : FlatIs(b, s, r) /\ r[i - 1].flat = y
    BY <2>s
  <2> DEFINE t == [s EXCEPT ![d] = b[d][1] + a]
  <2>7. DOMAIN s = 1..n /\ DOMAIN t = 1..n /\ \A e \in 1..n : t[e] = IF e = d THEN b[d][1] + a ELSE s[e]
    BY <2>1, ValidSizes DEF Tuples
  <2>8. t \in Tuples(b)
    <3> DEFINE U == UNION {b[e][1]..b[e][2] : e \in DOMAIN b}
    <3>1. DOMAIN b = 1..n
      BY ValidSizes
    <3>2. b[d][1] + a \in b[d][1]..b[d][2]
      <4>1. Size(b, d) = b[d][2] - b[d][1] + 1
        BY DEF Size
      <4> QED BY <2>3, <2>5, <4>1, InRange
    <3>3. \A e \in 1..n : s[e] \in b[e][1]..b[e][2]
      BY <3>1 DEF Tuples
    <3>4. \A e \in 1..n : t[e] \in b[e][1]..b[e][2]
      BY <2>7, <3>2, <3>3
    <3>5. \A e \in 1..n : t[e] \in U
      BY <3>1, <3>4
    <3>6. t \in [1..n -> U]
      <4> HIDE DEF U
      <4> QED BY <2>7, <3>5
    <3> HIDE DEF t
    <3> QED BY <3>1, <3>4, <3>6 DEF Tuples
  <2>9. PICK q : FlatIs(b, t, q)
    BY <1>1, FlatUnfolds
  <2>10. r[i - 1] = q[i - 1]
    <3> DEFINE j == i - 1
    <3>1. \A e \in (n + 1 - j)..n : s[e] = t[e]
      BY <1>1, <2>1, <2>7
    <3>2. j \in 0..n
      BY <2>1
    <3>4. FlatIs(b, s, r) /\ FlatIs(b, t, q) /\ Len(b) \in Nat
      BY <1>1, <2>6, <2>9
    <3> HIDE DEF t, j, T
    <3>3. r[j] = q[j]
      BY ONLY <3>1, <3>2, <3>4, FlatOfSuffix
    <3> QED BY <3>3 DEF j
  <2>11. q[i].flat = x
    <3>1. q[i] = Dimension(q[i - 1], b, t, d)
      BY <2>9 DEF FlatIs
    <3>2. t[d] - b[d][1] = a
      BY <2>1, <2>3, <2>7
    <3>3. q[i - 1].times = m
      <4> HIDE DEF t
      <4> QED BY <1>1, <2>1, <2>9, SameTimes
    <3>4. q[i].flat = q[i - 1].flat + a * m
      BY <3>1, <3>2, <3>3 DEF Dimension
    <3> QED BY <2>5, <2>6, <2>10, <3>4
  <2> QED BY <2>8, <2>9, <2>11
<1> HIDE DEF T
<1>4. 0..n \subseteq T
  BY <1>1, <1>2, <1>3, UpTo
<1> QED BY <1>4 DEF T

(* The product of the sizes is the same from either end.                    *)
LEMMA TimesIsTotal ==
    ASSUME NEW b \in ValidBounds, NEW s \in Tuples(b), NEW r, FlatIs(b, s, r)
    PROVE  r[Len(b)].times = Total(b)
<1> DEFINE n == Len(b)
<1>1. n \in Nat /\ \A d \in 1..n : Size(b, d) \in Nat \ {0}
  BY ValidSizes
<1>2. PICK t : TotalIs(b, t) /\ Total(b) = t[n]
  BY <1>1, TotalUnfolds
<1> DEFINE S == {d \in 0..n : t[d] \in Nat}
<1>3. 0..n \subseteq S
  <2>1. 0 \in S
    BY <1>1, <1>2 DEF TotalIs
  <2>2. ASSUME NEW d \in 1..n, d - 1 \in S PROVE d \in S
    <3>1. t[d] = t[d - 1] * Size(b, d)
      BY <1>2 DEF TotalIs
    <3> QED BY <1>1, <2>2, <3>1
  <2> HIDE DEF S
  <2> QED BY <1>1, <2>1, <2>2, UpTo
<1> DEFINE T == {i \in 0..n : t[n - i] * r[i].times = t[n]}
<1>4. 0 \in T
  <2>1. r[0].times = 1 /\ t[n] \in Nat
    BY <1>1, <1>3 DEF FlatIs
  <2> QED BY <1>1, <2>1
<1>5. ASSUME NEW i \in 1..n, i - 1 \in T PROVE i \in T
  <2> DEFINE d == n + 1 - i
  <2>1. d \in 1..n /\ n - i = d - 1 /\ n - (i - 1) = d /\ i - 1 \in 0..n
    BY <1>1
  <2>2. t[d] = t[d - 1] * Size(b, d) /\ t[d] * r[i - 1].times = t[n]
    BY <1>2, <1>5, <2>1 DEF TotalIs
  <2>3. r[i].times = r[i - 1].times * Size(b, d)
    <3>1. r[i] = Dimension(r[i - 1], b, s, d)
      BY DEF FlatIs
    <3> QED BY <3>1 DEF Dimension
  <2>4. t[d - 1] \in Nat /\ r[i - 1].times \in Nat /\ Size(b, d) \in Nat
    <3>1. d - 1 \in 0..n
      BY <1>1, <2>1
    <3>2. r[i - 1].times \in Nat
      BY <2>1, FlatInRange
    <3> QED BY <1>1, <1>3, <2>1, <3>1, <3>2
  <2>5. t[d - 1] * r[i].times = t[n]
    <3> DEFINE u == t[d - 1]
               v == r[i - 1].times
               z == Size(b, d)
    <3>1. (u * z) * v = t[n] /\ r[i].times = v * z /\ u \in Nat /\ v \in Nat /\ z \in Nat
      BY <2>2, <2>3, <2>4
    <3> HIDE DEF u, v, z
    <3>2. (u * z) * v = u * (v * z)
      BY <3>1
    <3> QED BY <3>1, <3>2 DEF u
  <2> QED BY <2>1, <2>5
<1> HIDE DEF T
<1>6. 0..n \subseteq T
  BY <1>1, <1>4, <1>5, UpTo
<1>7. t[n - n] * r[n].times = t[n]
  BY <1>1, <1>6 DEF T
<1>8. t[n - n] = 1 /\ r[n].times \in Nat
  BY <1>1, <1>2, FlatInRange DEF TotalIs
<1> QED BY <1>2, <1>7, <1>8

LEMMA FirstTuple == ASSUME NEW b \in ValidBounds PROVE [d \in DOMAIN b |-> b[d][1]] \in Tuples(b)
<1>1. /\ DOMAIN b = 1..Len(b)
      /\ \A d \in 1..Len(b) : Size(b, d) \in Nat \ {0} /\ b[d][1] \in Int /\ b[d][2] \in Int
  BY ValidSizes
<1>2. \A d \in 1..Len(b) : b[d][1] \in b[d][1]..b[d][2]
  BY <1>1 DEF Size
<1> QED BY <1>1, <1>2 DEF Tuples

(* fbarray_index, for arrays of every shape: the tuples within the bounds   *)
(* have the positions of the block, each another one.                       *)
LEMMA IndexIsFlat ==
    ASSUME NEW b \in ValidBounds, NEW s \in Tuples(b)
    PROVE  Index(b, s) = Flat(b, s)
<1>1. DOMAIN b = 1..Len(b) /\ DOMAIN s = DOMAIN b /\ Len(b) \in Nat
  BY ValidSizes DEF Tuples
<1>2. Len(s) = Len(b)
  BY <1>1
<1>3. \A d \in DOMAIN b : ~(s[d] < b[d][1] \/ s[d] > b[d][2])
  <2> SUFFICES ASSUME NEW d \in 1..Len(b) PROVE ~(s[d] < b[d][1] \/ s[d] > b[d][2])
    BY <1>1
  <2>1. s[d] \in b[d][1]..b[d][2] /\ b[d][1] \in Int /\ b[d][2] \in Int
    BY <1>1, ValidSizes DEF Tuples
  <2> QED BY <2>1
<1> QED BY <1>2, <1>3 DEF Index, Outside

LEMMA IndexFacts ==
    ASSUME NEW b \in ValidBounds
    PROVE  /\ Total(b) \in Nat \ {0}
           /\ {Index(b, s) : s \in Tuples(b)} = 0..(Total(b) - 1)
           /\ \A s, t \in Tuples(b) : Index(b, s) = Index(b, t) => s = t
<1> DEFINE n == Len(b)
           s0 == [d \in DOMAIN b |-> b[d][1]]
<1>1. n \in Nat \ {0} /\ DOMAIN b = 1..n
  BY ValidSizes
<1>2. PICK r0 : FlatIs(b, s0, r0)
  BY <1>1, FlatUnfolds
<1>3. s0 \in Tuples(b)
  BY FirstTuple
<1> HIDE DEF s0
<1>4. Total(b) \in Nat \ {0} /\ r0[n].times = Total(b)
  <2>1. n \in 0..n
    BY <1>1
  <2> QED BY <1>2, <1>3, <2>1, TimesIsTotal, FlatInRange
<1>5. ASSUME NEW s \in Tuples(b) PROVE Index(b, s) \in 0..(Total(b) - 1)
  <2>1. PICK r : FlatIs(b, s, r) /\ Flat(b, s) = r[n].flat
    BY <1>1, FlatUnfolds
  <2>2. n \in 0..n
    BY <1>1
  <2>3. r[n].flat \in 0..(r[n].times - 1) /\ r[n].times = Total(b)
    BY <2>1, <2>2, FlatInRange, TimesIsTotal
  <2> QED BY <2>1, <2>3, IndexIsFlat
<1>6. ASSUME NEW p \in 0..(Total(b) - 1) PROVE \E s \in Tuples(b) : Index(b, s) = p
  <2>1. n \in 0..n
    BY <1>1
  <2>s. PICK s \in Tuples(b) : \E r : FlatIs(b, s, r) /\ r[n].flat = p
    BY <1>2, <1>3, <1>4, <2>1, FlatReaches
  <2>2. PICK r : FlatIs(b, s, r) /\ r[n].flat = p
    BY <2>s
  <2>3. Flat(b, s) = p
    BY <1>1, <2>2, FlatIsFlat
  <2> QED BY <2>3, IndexIsFlat
<1>7. ASSUME NEW s \in Tuples(b), NEW t \in Tuples(b), Index(b, s) = Index(b, t) PROVE s = t
  <2>1. PICK r : FlatIs(b, s, r) /\ Flat(b, s) = r[n].flat
    BY <1>1, FlatUnfolds
  <2>2. PICK q : FlatIs(b, t, q) /\ Flat(b, t) = q[n].flat
    BY <1>1, FlatUnfolds
  <2>3. r[n].flat = q[n].flat /\ n \in 0..n
    BY <1>1, <1>7, <2>1, <2>2, IndexIsFlat
  <2>4. \A d \in (n + 1 - n)..n : s[d] = t[d]
    BY <2>1, <2>2, <2>3, FlatDecides
  <2>5. DOMAIN s = 1..n /\ DOMAIN t = 1..n /\ s = [d \in 1..n |-> s[d]] /\ t = [d \in 1..n |-> t[d]]
    BY <1>1 DEF Tuples
  <2>6. \A d \in 1..n : s[d] = t[d]
    BY <1>1, <2>4
  <2> QED BY <2>5, <2>6
<1> QED BY <1>4, <1>5, <1>6, <1>7

(* Bounds without elements leave no tuple.                                  *)
LEMMA NoTuples == ASSUME NEW b \in Bounds, Invalid(b) PROVE Tuples(b) = {}
<1>1. b \in Seq(Int \X Int) /\ DOMAIN b = 1..Len(b)
  BY BoundsAre, LenProperties
<1>2. PICK d \in 1..Len(b) : Size(b, d) <= 0
  BY <1>1 DEF Invalid
<1>3. b[d][1] \in Int /\ b[d][2] \in Int /\ Size(b, d) = b[d][2] - b[d][1] + 1
  BY <1>1, SizeIsInt DEF Size
<1>4. b[d][1]..b[d][2] = {}
  BY <1>2, <1>3
<1> QED BY <1>1, <1>4 DEF Tuples

LEMMA ByItselfValid ==
    ASSUME NEW s \in Subscripts
    PROVE  ByItself(Len(s)) \in Bounds /\ ~Invalid(ByItself(Len(s)))
<1> DEFINE b == ByItself(Len(s))
<1>1. b \in Bounds
  BY DEF Bounds
<1>2. DOMAIN b = 1..Len(s) /\ \A d \in 1..Len(s) : Size(b, d) = Top + 1
  BY BoundsOK DEF Size, ByItself
<1> HIDE DEF b
<1>3. ~Invalid(b)
  BY <1>2, BoundsOK DEF Invalid
<1> QED BY <1>1, <1>3 DEF b

--------------------------------------------------------------------------------
(* The state.  Sound is what every statement keeps, as an operator of the   *)
(* heap, the scopes and the parameters.                                     *)

Symbols    == [kind : {"array", "variable"}, array : Addresses \cup {NULL}, ref : BOOLEAN]
ScopeMaps  == UNION {[D -> Symbols] : D \in SUBSET Names}
Pointers   == [array : Addresses \cup {NULL}, index : Int]
Parameters == [to : Pointers, copy : Values]
Block(b)   == IF Invalid(b) THEN 0 ELSE Total(b)
FBArrays   == {x \in [dims : Bounds, dynamic : BOOLEAN, data : Seq(Values)] :
                  Len(x.data) = Block(x.dims)}

Typed(h, sc, ps) ==
    /\ DOMAIN h \subseteq Addresses /\ h \in [DOMAIN h -> FBArrays]
    /\ sc \in Seq(ScopeMaps) /\ ps \in Seq(Parameters)
    /\ Len(sc) = Len(ps) + 1

(* A symbol points to an array that lives, or to none.                      *)
Live(h, sc) ==
    \A i \in 1..Len(sc) : \A n \in DOMAIN sc[i] : sc[i][n].array \in DOMAIN h \cup {NULL}

(* An array has one symbol that owns it; the others have it from SHARED.    *)
Owns(sc, i, n) == n \in DOMAIN sc[i] /\ ~sc[i][n].ref /\ sc[i][n].array # NULL
Sole(sc) ==
    \A i, j \in 1..Len(sc) : \A n \in DOMAIN sc[i], m \in DOMAIN sc[j] :
        Owns(sc, i, n) /\ Owns(sc, j, m) /\ sc[i][n].array = sc[j][m].array => i = j /\ n = m

(* What SHARED entered is still what the module has under that name.        *)
Shares(sc) ==
    /\ \A n \in DOMAIN sc[1] : ~sc[1][n].ref
    /\ \A i \in 1..Len(sc) : \A n \in DOMAIN sc[i] :
          sc[i][n].ref => /\ n \in DOMAIN sc[1] /\ sc[i][n].array = sc[1][n].array
                          /\ sc[i][n].array # NULL

(* A parameter leads to a cell of an array that its caller, or one further  *)
(* out, owns.                                                               *)
InBlock(h, q) == q.array \in DOMAIN h /\ q.index + 1 \in 1..Len(h[q.array].data)
OwnedBy(sc, i, a) == \E j \in 1..i : \E n \in DOMAIN sc[j] : Owns(sc, j, n) /\ sc[j][n].array = a
Lends(h, sc, ps) ==
    \A i \in 1..Len(ps) : ps[i].to # Nowhere =>
        InBlock(h, ps[i].to) /\ OwnedBy(sc, i, ps[i].to.array)

Sound(h, sc, ps) ==
    Typed(h, sc, ps) /\ Live(h, sc) /\ Sole(sc) /\ Shares(sc) /\ Lends(h, sc, ps)

Inv == Sound(heap, scopes, params) /\ running \in BOOLEAN

--------------------------------------------------------------------------------
(* FBArrays and the heap.                                                   *)

LEMMA BlockIsNat == ASSUME NEW b \in Bounds PROVE Block(b) \in Nat
<1>1. CASE Invalid(b)
  BY <1>1 DEF Block
<1>2. CASE ~Invalid(b)
  BY <1>2, BoundsAre, IndexFacts DEF Block, ValidBounds
<1> QED BY <1>1, <1>2

LEMMA ZerosTyped == ASSUME NEW n \in Nat PROVE Zeros(n) \in Seq(Values) /\ Len(Zeros(n)) = n
<1>1. Zeros(n) \in [1..n -> Values]
  BY BoundsOK DEF Zeros
<1>2. Zeros(n) \in Seq(Values)
  BY <1>1, SeqDef
<1> QED BY <1>1, <1>2, LenProperties

LEMMA NewTyped ==
    ASSUME NEW b \in Bounds, ~Invalid(b), NEW dynamic \in BOOLEAN
    PROVE  FBArray(b, dynamic) \in FBArrays
<1>1. Total(b) \in Nat /\ Block(b) = Total(b)
  BY BoundsAre, IndexFacts DEF Block, ValidBounds
<1>2. Zeros(Total(b)) \in Seq(Values) /\ Len(Zeros(Total(b))) = Total(b)
  BY <1>1, ZerosTyped
<1> QED BY <1>1, <1>2 DEF FBArray, FBArrays

LEMMA RedimTyped ==
    ASSUME NEW x \in FBArrays, NEW b \in Bounds
    PROVE  Redimmed(x, b) \in FBArrays /\ Redimmed(x, b).dynamic = x.dynamic
<1> DEFINE data == IF Invalid(b) THEN <<>> ELSE Zeros(Total(b))
<1>1. data \in Seq(Values) /\ Len(data) = Block(b)
  <2>1. CASE Invalid(b)
    BY <2>1, EmptySeq DEF Block
  <2>2. CASE ~Invalid(b)
    <3>1. Total(b) \in Nat
      BY <2>2, BoundsAre, IndexFacts DEF ValidBounds
    <3> QED BY <2>2, <3>1, ZerosTyped DEF Block
  <2> QED BY <2>1, <2>2
<1>2. Redimmed(x, b) = [x EXCEPT !.dims = b, !.data = data]
  BY DEF Redimmed
<1> HIDE DEF data
<1>3. Redimmed(x, b) = [dims |-> b, dynamic |-> x.dynamic, data |-> data]
  BY <1>2 DEF FBArrays
<1> QED BY <1>1, <1>3 DEF FBArrays

LEMMA FilledTyped ==
    ASSUME NEW x \in FBArrays, NEW data \in Seq(Values), Len(data) = Len(x.data)
    PROVE  /\ [x EXCEPT !.data = data] \in FBArrays
           /\ [x EXCEPT !.data = data].data = data
           /\ [x EXCEPT !.data = data].dims = x.dims
           /\ [x EXCEPT !.data = data].dynamic = x.dynamic
<1>1. [x EXCEPT !.data = data] = [dims |-> x.dims, dynamic |-> x.dynamic, data |-> data]
  BY DEF FBArrays
<1> QED BY <1>1 DEF FBArrays

(* A heap with the same arrays, of the same bounds, holding other things.   *)
SameShape(h, g) ==
    /\ DOMAIN g = DOMAIN h /\ g \in [DOMAIN h -> FBArrays]
    /\ \A a \in DOMAIN h : g[a].dims = h[a].dims /\ g[a].dynamic = h[a].dynamic

LEMMA ShapeSame ==
    ASSUME NEW h, NEW g, h \in [DOMAIN h -> FBArrays], SameShape(h, g), NEW a \in DOMAIN h
    PROVE  Len(g[a].data) = Len(h[a].data)
  BY DEF SameShape, FBArrays

LEMMA StoredShape ==
    ASSUME NEW h, h \in [DOMAIN h -> FBArrays], NEW q \in Pointers, InBlock(h, q), NEW v \in Values
    PROVE  SameShape(h, Stored(h, q, v))
<1> DEFINE a == q.array
           x == h[a]
           i == q.index + 1
           data == [x.data EXCEPT ![i] = v]
           y == [x EXCEPT !.data = data]
<1>1. a \in DOMAIN h /\ x \in FBArrays /\ i \in 1..Len(x.data)
  BY DEF InBlock
<1>2. Stored(h, q, v) = [h EXCEPT ![a] = y]
  BY DEF Stored
<1>3. data \in Seq(Values) /\ Len(data) = Len(x.data)
  <2>1. x.data \in Seq(Values)
    BY <1>1 DEF FBArrays
  <2> QED BY <1>1, <2>1, ExceptSeq
<1> HIDE DEF data
<1>4. y \in FBArrays /\ y.dims = x.dims /\ y.dynamic = x.dynamic
  <2> HIDE DEF x
  <2> QED BY <1>1, <1>3, FilledTyped
<1> HIDE DEF y
<1> QED BY <1>1, <1>2, <1>4 DEF SameShape

LEMMA DerefTyped ==
    ASSUME NEW h, h \in [DOMAIN h -> FBArrays], NEW q, InBlock(h, q)
    PROVE  Deref(h, q) \in Values
<1>1. h[q.array].data \in Seq(Values) /\ q.index + 1 \in 1..Len(h[q.array].data)
  BY DEF InBlock, FBArrays
<1> QED BY <1>1, ElementOfSeq DEF Deref

LEMMA WipedShape ==
    ASSUME NEW h, h \in [DOMAIN h -> FBArrays], NEW a \in DOMAIN h
    PROVE  SameShape(h, [h EXCEPT ![a].data = Zeros(Len(@))])
<1> DEFINE x == h[a]
           data == Zeros(Len(x.data))
           y == [x EXCEPT !.data = data]
<1>1. x \in FBArrays /\ Len(x.data) \in Nat
  <2>1. x \in FBArrays /\ x.data \in Seq(Values)
    BY DEF FBArrays
  <2> QED BY <2>1, LenProperties
<1>2. data \in Seq(Values) /\ Len(data) = Len(x.data)
  BY <1>1, ZerosTyped
<1>3. [h EXCEPT ![a].data = Zeros(Len(@))] = [h EXCEPT ![a] = y]
  OBVIOUS
<1> HIDE DEF data
<1>4. y \in FBArrays /\ y.dims = x.dims /\ y.dynamic = x.dynamic
  <2> HIDE DEF x
  <2> QED BY <1>1, <1>2, FilledTyped
<1> HIDE DEF y
<1> QED BY <1>3, <1>4 DEF SameShape

--------------------------------------------------------------------------------
(* Scopes.                                                                  *)

LEMMA ScopeIs ==
    ASSUME NEW f PROVE f \in ScopeMaps <=> DOMAIN f \subseteq Names /\ f \in [DOMAIN f -> Symbols]
  BY DEF ScopeMaps

LEMMA WithScope ==
    ASSUME NEW f \in ScopeMaps, NEW n \in Names, NEW y \in Symbols
    PROVE  With(f, n, y) \in ScopeMaps
<1>1. DOMAIN f \subseteq Names /\ f \in [DOMAIN f -> Symbols]
  BY ScopeIs
<1>2. With(f, n, y) \in [DOMAIN f \cup {n} -> Symbols]
  BY <1>1 DEF With
<1> QED BY <1>1, <1>2 DEF ScopeMaps

LEMMA NoSymbolsScope == NoSymbols \in ScopeMaps /\ DOMAIN NoSymbols = {}
<1>1. DOMAIN NoSymbols = {} /\ NoSymbols \in [{} -> Symbols]
  BY DEF NoSymbols
<1> QED BY <1>1 DEF ScopeMaps

LEMMA TypedScopes ==
    ASSUME NEW h, NEW sc, NEW ps, Typed(h, sc, ps)
    PROVE  /\ Len(ps) \in Nat /\ Len(sc) = Len(ps) + 1 /\ Len(sc) \in 1..Len(sc)
           /\ \A i \in 1..Len(sc) : sc[i] \in ScopeMaps /\ DOMAIN sc[i] \subseteq Names
           /\ \A i \in 1..Len(sc) : \A n \in DOMAIN sc[i] : sc[i][n] \in Symbols
           /\ \A i \in 1..Len(ps) : ps[i] \in Parameters /\ ps[i].to \in Pointers
<1>1. sc \in Seq(ScopeMaps) /\ ps \in Seq(Parameters) /\ Len(ps) \in Nat /\ Len(sc) = Len(ps) + 1
  BY LenProperties DEF Typed
<1>2. \A i \in 1..Len(sc) : sc[i] \in ScopeMaps
  BY <1>1, ElementOfSeq
<1>3. \A i \in 1..Len(ps) : ps[i] \in Parameters
  BY <1>1, ElementOfSeq
<1>4. ASSUME NEW i \in 1..Len(sc), NEW n \in DOMAIN sc[i]
      PROVE  sc[i][n] \in Symbols
  BY <1>2, ScopeIs
<1>5. \A i \in 1..Len(sc) : DOMAIN sc[i] \subseteq Names
  BY <1>2, ScopeIs
<1>6. \A i \in 1..Len(ps) : ps[i].to \in Pointers
  BY <1>3 DEF Parameters
<1> QED BY <1>1, <1>2, <1>3, <1>4, <1>5, <1>6

(* A scope that gets a symbol.                                              *)
Entered(sc, i, n, y) == [sc EXCEPT ![i] = With(@, n, y)]

LEMMA EnteredFacts ==
    ASSUME NEW sc \in Seq(ScopeMaps), NEW i \in 1..Len(sc), NEW n \in Names, NEW y \in Symbols
    PROVE  /\ Entered(sc, i, n, y) \in Seq(ScopeMaps) /\ Len(Entered(sc, i, n, y)) = Len(sc)
           /\ DOMAIN Entered(sc, i, n, y)[i] = DOMAIN sc[i] \cup {n}
           /\ Entered(sc, i, n, y)[i][n] = y
           /\ \A m \in DOMAIN sc[i] : m # n => Entered(sc, i, n, y)[i][m] = sc[i][m]
           /\ \A j \in 1..Len(sc) : j # i => Entered(sc, i, n, y)[j] = sc[j]
<1> DEFINE f == With(sc[i], n, y)
<1>1. f \in ScopeMaps
  BY ElementOfSeq, WithScope
<1>2. Entered(sc, i, n, y) = [sc EXCEPT ![i] = f]
  BY DEF Entered
<1>3. DOMAIN f = DOMAIN sc[i] \cup {n} /\ f[n] = y /\ \A m \in DOMAIN sc[i] : m # n => f[m] = sc[i][m]
  BY DEF With
<1> HIDE DEF f
<1>4. /\ [sc EXCEPT ![i] = f] \in Seq(ScopeMaps) /\ Len([sc EXCEPT ![i] = f]) = Len(sc)
      /\ \A j \in 1..Len(sc) : [sc EXCEPT ![i] = f][j] = IF j = i THEN f ELSE sc[j]
  BY <1>1, ExceptSeq
<1> QED BY <1>2, <1>3, <1>4

--------------------------------------------------------------------------------
(* What keeps the state sound.                                              *)

LEMMA InitSound == Init => Inv
<1> SUFFICES ASSUME Init PROVE Inv
  OBVIOUS
<1>1. scopes = <<NoSymbols>> /\ params = <<>> /\ running = TRUE /\ DOMAIN heap = {}
  BY DEF Init
<1>2. scopes \in Seq(ScopeMaps) /\ Len(scopes) = 1 /\ scopes[1] = NoSymbols
  BY <1>1, NoSymbolsScope
<1>3. params \in Seq(Parameters) /\ Len(params) = 0
  BY <1>1, EmptySeq
<1>4. Typed(heap, scopes, params)
  <2>1. heap \in [DOMAIN heap -> FBArrays] /\ DOMAIN heap \subseteq Addresses
    BY <1>1 DEF Init
  <2> QED BY <1>2, <1>3, <2>1 DEF Typed
<1>5. \A i \in 1..Len(scopes) : DOMAIN scopes[i] = {}
  BY <1>2, NoSymbolsScope
<1>6. Live(heap, scopes) /\ Sole(scopes) /\ Shares(scopes)
  BY <1>2, <1>5 DEF Live, Sole, Shares
<1>7. Lends(heap, scopes, params)
  BY <1>3 DEF Lends
<1> QED BY <1>1, <1>4, <1>6, <1>7 DEF Inv, Sound

LEMMA ShapeSound ==
    ASSUME NEW h, NEW sc, NEW ps, NEW g, Sound(h, sc, ps), SameShape(h, g)
    PROVE  Sound(g, sc, ps)
<1>1. Typed(h, sc, ps) /\ Live(h, sc) /\ Sole(sc) /\ Shares(sc) /\ Lends(h, sc, ps)
  BY DEF Sound
<1>2. DOMAIN g = DOMAIN h /\ g \in [DOMAIN h -> FBArrays] /\ h \in [DOMAIN h -> FBArrays]
  BY <1>1 DEF SameShape, Typed
<1>3. \A a \in DOMAIN h : Len(g[a].data) = Len(h[a].data)
  BY <1>2, ShapeSame
<1>4. Typed(g, sc, ps) /\ Live(g, sc)
  BY <1>1, <1>2 DEF Typed, Live
<1>5. \A q : InBlock(h, q) => InBlock(g, q)
  BY <1>2, <1>3 DEF InBlock
<1>6. Lends(g, sc, ps)
  BY <1>1, <1>5 DEF Lends
<1> QED BY <1>1, <1>4, <1>6 DEF Sound

LEMMA StoreSound ==
    ASSUME NEW h, NEW sc, NEW ps, Sound(h, sc, ps), NEW q \in Pointers, InBlock(h, q), NEW v \in Values
    PROVE  Sound(Stored(h, q, v), sc, ps)
<1>1. h \in [DOMAIN h -> FBArrays]
  BY DEF Sound, Typed
<1> QED BY <1>1, StoredShape, ShapeSound

(* REDIM: no call is in progress.                                           *)
LEMMA RedimSound ==
    ASSUME NEW h, NEW sc, NEW ps, Sound(h, sc, ps), Len(ps) = 0,
           NEW a \in DOMAIN h, NEW b \in Bounds
    PROVE  Sound([h EXCEPT ![a] = Redimmed(@, b)], sc, ps)
<1> DEFINE y == Redimmed(h[a], b)
           g == [h EXCEPT ![a] = y]
<1>1. h \in [DOMAIN h -> FBArrays]
  BY DEF Sound, Typed
<1>2. y \in FBArrays
  BY <1>1, RedimTyped
<1> HIDE DEF y
<1>3. DOMAIN g = DOMAIN h /\ g \in [DOMAIN g -> FBArrays]
  BY <1>1, <1>2
<1> HIDE DEF g
<1>4. Typed(g, sc, ps) /\ Live(g, sc) /\ Sole(sc) /\ Shares(sc) /\ Lends(g, sc, ps)
  BY <1>3 DEF Sound, Typed, Live, Lends
<1> QED BY <1>4 DEF Sound, g, y

(* A new array, under a name that the scope does not have.                  *)
LEMMA InsertSound ==
    ASSUME NEW h, NEW sc, NEW ps, Sound(h, sc, ps), NEW n \in Names, n \notin DOMAIN sc[Len(sc)],
           NEW a \in Addresses \ DOMAIN h, NEW x \in FBArrays
    PROVE  Sound(With(h, a, x), Entered(sc, Len(sc), n, ArraySymbol(a)), ps)
<1> DEFINE L == Len(sc)
           y == ArraySymbol(a)
           g == With(h, a, x)
           tc == Entered(sc, L, n, y)
<1>1. Typed(h, sc, ps) /\ Live(h, sc) /\ Sole(sc) /\ Shares(sc) /\ Lends(h, sc, ps)
  BY DEF Sound
<1>2. L \in 1..L /\ sc \in Seq(ScopeMaps) /\ L \in Nat /\ Len(ps) \in Nat /\ L = Len(ps) + 1
  BY <1>1, TypedScopes DEF Typed
<1>3. y \in Symbols /\ y.array = a /\ ~y.ref /\ a # NULL
  BY BoundsOK DEF ArraySymbol, Symbols
<1>4. DOMAIN g = DOMAIN h \cup {a} /\ g[a] = x /\ \A z \in DOMAIN h : g[z] = h[z]
  BY DEF With
<1>5. /\ tc \in Seq(ScopeMaps) /\ Len(tc) = L /\ DOMAIN tc[L] = DOMAIN sc[L] \cup {n} /\ tc[L][n] = y
      /\ \A m \in DOMAIN sc[L] : tc[L][m] = sc[L][m]
      /\ \A j \in 1..L : j # L => tc[j] = sc[j]
  <2> HIDE DEF y
  <2> QED BY <1>2, <1>3, EnteredFacts, SMTT(30)
<1> HIDE DEF g, tc, y
<1>6. \A i \in 1..L : \A m \in DOMAIN tc[i] :
         \/ i = L /\ m = n /\ tc[i][m] = y
         \/ m \in DOMAIN sc[i] /\ tc[i][m] = sc[i][m] /\ ~(i = L /\ m = n)
  BY <1>5
<1>7. \A i \in 1..L : \A m \in DOMAIN sc[i] : m \in DOMAIN tc[i] /\ tc[i][m] = sc[i][m]
  BY <1>5
<1>8. Typed(g, tc, ps)
  <2>1. h \in [DOMAIN h -> FBArrays] /\ DOMAIN h \subseteq Addresses /\ ps \in Seq(Parameters)
    BY <1>1 DEF Typed
  <2>2. g \in [DOMAIN g -> FBArrays]
    BY <1>4, <2>1 DEF g, With
  <2> QED BY <1>2, <1>4, <1>5, <2>1, <2>2 DEF Typed
<1>9. Live(g, tc)
  BY <1>1, <1>3, <1>4, <1>5, <1>6 DEF Live
<1>10. \A i \in 1..L : \A m \in DOMAIN sc[i] : sc[i][m].array # a
  BY <1>1, <1>3 DEF Live
<1>11. Sole(tc)
  <2> SUFFICES ASSUME NEW i \in 1..L, NEW j \in 1..L, NEW m \in DOMAIN tc[i], NEW k \in DOMAIN tc[j],
                      Owns(tc, i, m), Owns(tc, j, k), tc[i][m].array = tc[j][k].array
               PROVE  i = j /\ m = k
    BY <1>5 DEF Sole
  <2>1. CASE i = L /\ m = n
    BY <1>3, <1>5, <1>6, <1>10, <2>1
  <2>2. CASE j = L /\ k = n
    BY <1>3, <1>5, <1>6, <1>10, <2>2
  <2>3. CASE ~(i = L /\ m = n) /\ ~(j = L /\ k = n)
    <3>1. /\ m \in DOMAIN sc[i] /\ tc[i][m] = sc[i][m]
          /\ k \in DOMAIN sc[j] /\ tc[j][k] = sc[j][k]
      BY <1>6, <2>3
    <3> QED BY <1>1, <3>1 DEF Sole, Owns
  <2> QED BY <2>1, <2>2, <2>3
<1>12. Shares(tc)
  <2>1. 1 \in 1..L
    BY <1>2
  <2>2. \A m \in DOMAIN tc[1] : ~tc[1][m].ref
    BY <1>1, <1>3, <1>6, <2>1 DEF Shares
  <2>3. ASSUME NEW i \in 1..L, NEW m \in DOMAIN tc[i], tc[i][m].ref
        PROVE  /\ m \in DOMAIN tc[1] /\ tc[i][m].array = tc[1][m].array
               /\ tc[i][m].array # NULL
    <3>1. m \in DOMAIN sc[i] /\ tc[i][m] = sc[i][m]
      BY <1>3, <1>6, <2>3
    <3>2. m \in DOMAIN sc[1] /\ sc[i][m].array = sc[1][m].array /\ sc[i][m].array # NULL
      BY <1>1, <2>3, <3>1 DEF Shares
    <3> QED BY <1>7, <2>1, <3>1, <3>2
  <2> QED BY <1>5, <2>2, <2>3 DEF Shares
<1>13. Lends(g, tc, ps)
  <2> SUFFICES ASSUME NEW i \in 1..Len(ps), ps[i].to # Nowhere
               PROVE  InBlock(g, ps[i].to) /\ OwnedBy(tc, i, ps[i].to.array)
    BY DEF Lends
  <2>1. InBlock(h, ps[i].to) /\ OwnedBy(sc, i, ps[i].to.array)
    BY <1>1 DEF Lends
  <2>2. InBlock(g, ps[i].to)
    BY <1>4, <2>1 DEF InBlock
  <2>3. PICK j \in 1..i : \E m \in DOMAIN sc[j] : Owns(sc, j, m) /\ sc[j][m].array = ps[i].to.array
    BY <2>1 DEF OwnedBy
  <2>5. PICK m \in DOMAIN sc[j] : Owns(sc, j, m) /\ sc[j][m].array = ps[i].to.array
    BY <2>3
  <2>4. m \in DOMAIN tc[j] /\ tc[j][m] = sc[j][m]
    BY <1>2, <1>7
  <2> QED BY <2>2, <2>5, <2>4 DEF OwnedBy, Owns
<1> QED BY <1>8, <1>9, <1>11, <1>12, <1>13 DEF Sound, g, tc, y

(* ERASE of a dynamic array that no parameter and no SHARED name leads to.  *)
LEMMA EraseSound ==
    ASSUME NEW h, NEW sc, NEW ps, Sound(h, sc, ps), NEW i \in 1..Len(sc), NEW n \in DOMAIN sc[i],
           NEW a \in DOMAIN h, sc[i][n].array = a,
           \A j \in 2..Len(sc) : \A m \in DOMAIN sc[j] : ~(sc[j][m].ref /\ sc[j][m].array = a),
           \A k \in 1..Len(ps) : ps[k].to.array # a
    PROVE  Sound(Without(h, {a}), [sc EXCEPT ![i][n].array = NULL], ps)
<1> DEFINE L == Len(sc)
           y == [sc[i][n] EXCEPT !.array = NULL]
           f == [sc[i] EXCEPT ![n] = y]
           g == Without(h, {a})
           tc == [sc EXCEPT ![i] = f]
<1>1. Typed(h, sc, ps) /\ Live(h, sc) /\ Sole(sc) /\ Shares(sc) /\ Lends(h, sc, ps)
  BY DEF Sound
<1>2. L \in 1..L /\ sc \in Seq(ScopeMaps) /\ L \in Nat /\ Len(ps) \in Nat /\ L = Len(ps) + 1
  BY <1>1, TypedScopes DEF Typed
<1>3. a # NULL /\ a \in Addresses
  BY <1>1, BoundsOK DEF Typed
<1>4. y \in Symbols /\ y.array = NULL /\ y.ref = sc[i][n].ref
  <2>1. sc[i][n] \in Symbols
    BY <1>1, TypedScopes
  <2> QED BY <2>1 DEF Symbols
<1>5. DOMAIN g = DOMAIN h \ {a} /\ \A z \in DOMAIN g : g[z] = h[z]
  BY DEF Without
<1>6. /\ tc \in Seq(ScopeMaps) /\ Len(tc) = L
      /\ \A j \in 1..L : DOMAIN tc[j] = DOMAIN sc[j]
      /\ \A j \in 1..L : \A m \in DOMAIN sc[j] : tc[j][m] = IF j = i /\ m = n THEN y ELSE sc[j][m]
  <2> HIDE DEF y
  <2>1. sc[i] \in ScopeMaps
    BY <1>1, TypedScopes
  <2>2. DOMAIN sc[i] \subseteq Names /\ sc[i] \in [DOMAIN sc[i] -> Symbols]
    BY <2>1, ScopeIs
  <2>3. DOMAIN f = DOMAIN sc[i] /\ f \in [DOMAIN sc[i] -> Symbols]
        /\ \A m \in DOMAIN sc[i] : f[m] = IF m = n THEN y ELSE sc[i][m]
    BY <1>4, <2>2
  <2> HIDE DEF f
  <2>4. f \in ScopeMaps
    BY <2>2, <2>3, ScopeIs
  <2>5. /\ tc \in Seq(ScopeMaps) /\ Len(tc) = Len(sc)
        /\ \A j \in 1..Len(sc) : tc[j] = IF j = i THEN f ELSE sc[j]
    BY <1>2, <2>4, ExceptSeq
  <2> QED BY <2>3, <2>5
<1>7. [sc EXCEPT ![i][n].array = NULL] = tc
  OBVIOUS
<1> HIDE DEF g, tc, y, f
<1>8. ~sc[i][n].ref
  <2>1. CASE i = 1
    BY <1>1, <2>1 DEF Shares
  <2>2. CASE i # 1
    BY <1>2, <2>2
  <2> QED BY <2>1, <2>2
<1>9. Typed(g, tc, ps)
  <2>1. h \in [DOMAIN h -> FBArrays] /\ DOMAIN h \subseteq Addresses /\ ps \in Seq(Parameters)
    BY <1>1 DEF Typed
  <2>2. g \in [DOMAIN g -> FBArrays]
    BY <2>1 DEF g, Without
  <2> QED BY <1>2, <1>5, <1>6, <2>1, <2>2 DEF Typed
<1>10. \A j \in 1..L : \A m \in DOMAIN sc[j] :
          sc[j][m].array = a => j = i /\ m = n
  <2> SUFFICES ASSUME NEW j \in 1..L, NEW m \in DOMAIN sc[j], sc[j][m].array = a
               PROVE  j = i /\ m = n
    OBVIOUS
  <2>1. ~sc[j][m].ref
    <3>1. CASE j = 1
      BY <1>1, <3>1 DEF Shares
    <3>2. CASE j # 1
      BY <1>2, <3>2
    <3> QED BY <3>1, <3>2
  <2> QED BY <1>1, <1>3, <1>8, <2>1 DEF Sole, Owns
<1>11. Live(g, tc)
  BY <1>1, <1>4, <1>5, <1>6, <1>10 DEF Live
<1>12. Sole(tc)
  <2> SUFFICES ASSUME NEW j \in 1..L, NEW k \in 1..L, NEW m \in DOMAIN tc[j], NEW o \in DOMAIN tc[k],
                      Owns(tc, j, m), Owns(tc, k, o), tc[j][m].array = tc[k][o].array
               PROVE  j = k /\ m = o
    BY <1>6 DEF Sole
  <2>1. tc[j][m] = sc[j][m] /\ tc[k][o] = sc[k][o]
    BY <1>4, <1>6 DEF Owns
  <2> QED BY <1>1, <1>6, <2>1 DEF Sole, Owns
<1>13. Shares(tc)
  <2>1. 1 \in 1..L
    BY <1>2
  <2>2. \A m \in DOMAIN tc[1] : ~tc[1][m].ref
    BY <1>1, <1>4, <1>6, <1>8, <2>1 DEF Shares
  <2>3. ASSUME NEW j \in 1..L, NEW m \in DOMAIN tc[j], tc[j][m].ref
        PROVE  /\ m \in DOMAIN tc[1] /\ tc[j][m].array = tc[1][m].array
               /\ tc[j][m].array # NULL
    <3>1. m \in DOMAIN sc[j] /\ tc[j][m] = sc[j][m] /\ j # 1
      BY <1>4, <1>6, <1>8, <2>2, <2>3
    <3>2. m \in DOMAIN sc[1] /\ sc[j][m].array = sc[1][m].array /\ sc[j][m].array # NULL
      BY <1>1, <2>3, <3>1 DEF Shares
    <3>3. sc[j][m].array # a
      BY <1>2, <2>3, <3>1
    <3>4. tc[1][m] = sc[1][m] /\ m \in DOMAIN tc[1]
      BY <1>6, <2>1, <3>2, <3>3
    <3> QED BY <3>1, <3>2, <3>4
  <2> QED BY <1>6, <2>2, <2>3 DEF Shares
<1>14. Lends(g, tc, ps)
  <2> SUFFICES ASSUME NEW k \in 1..Len(ps), ps[k].to # Nowhere
               PROVE  InBlock(g, ps[k].to) /\ OwnedBy(tc, k, ps[k].to.array)
    BY DEF Lends
  <2>1. InBlock(h, ps[k].to) /\ OwnedBy(sc, k, ps[k].to.array) /\ ps[k].to.array # a
    BY <1>1 DEF Lends
  <2>2. InBlock(g, ps[k].to)
    BY <1>5, <2>1 DEF InBlock
  <2>3. PICK j \in 1..k : \E m \in DOMAIN sc[j] : Owns(sc, j, m) /\ sc[j][m].array = ps[k].to.array
    BY <2>1 DEF OwnedBy
  <2>4. PICK m \in DOMAIN sc[j] : Owns(sc, j, m) /\ sc[j][m].array = ps[k].to.array
    BY <2>3
  <2>5. j \in 1..L /\ ~(j = i /\ m = n)
    BY <1>2, <2>1, <2>4
  <2>6. m \in DOMAIN tc[j] /\ tc[j][m] = sc[j][m]
    BY <1>6, <2>5
  <2> QED BY <2>2, <2>4, <2>6 DEF OwnedBy, Owns
<1> QED BY <1>7, <1>9, <1>11, <1>12, <1>13, <1>14 DEF Sound, g

(* A call, with a parameter that leads to an element it can see.            *)
LEMMA PushSound ==
    ASSUME NEW h, NEW sc, NEW ps, Sound(h, sc, ps), NEW p \in Parameters,
           p.to # Nowhere => InBlock(h, p.to) /\ OwnedBy(sc, Len(sc), p.to.array)
    PROVE  Sound(h, Append(sc, NoSymbols), Append(ps, p))
<1> DEFINE L == Len(sc)
           tc == Append(sc, NoSymbols)
           qs == Append(ps, p)
<1>1. Typed(h, sc, ps) /\ Live(h, sc) /\ Sole(sc) /\ Shares(sc) /\ Lends(h, sc, ps)
  BY DEF Sound
<1>2. sc \in Seq(ScopeMaps) /\ ps \in Seq(Parameters) /\ L \in Nat /\ Len(ps) \in Nat /\ L = Len(ps) + 1
  BY <1>1, TypedScopes DEF Typed
<1>3. /\ tc \in Seq(ScopeMaps) /\ Len(tc) = L + 1 /\ \A i \in 1..L : tc[i] = sc[i]
      /\ DOMAIN tc[L + 1] = {}
  <2>1. NoSymbols \in ScopeMaps /\ DOMAIN NoSymbols = {}
    BY NoSymbolsScope
  <2> QED BY <1>2, <2>1
<1>4. qs \in Seq(Parameters) /\ Len(qs) = L /\ qs[L] = p /\ \A i \in 1..Len(ps) : qs[i] = ps[i]
  BY <1>2
<1> HIDE DEF tc, qs
<1>5. Typed(h, tc, qs)
  BY <1>1, <1>2, <1>3, <1>4 DEF Typed
<1>6. \A i \in 1..(L + 1) : \A m \in DOMAIN tc[i] : i \in 1..L /\ tc[i] = sc[i]
  BY <1>2, <1>3
<1>7. Live(h, tc) /\ Sole(tc)
  BY <1>1, <1>3, <1>6, SMTT(30) DEF Live, Sole, Owns
<1>8. Shares(tc)
  <2>1. tc[1] = sc[1]
    BY <1>2, <1>3
  <2> QED BY <1>1, <1>3, <1>6, <2>1 DEF Shares
<1>9. Lends(h, tc, qs)
  <2> SUFFICES ASSUME NEW i \in 1..L, qs[i].to # Nowhere
               PROVE  InBlock(h, qs[i].to) /\ OwnedBy(tc, i, qs[i].to.array)
    BY <1>4 DEF Lends
  <2>1. InBlock(h, qs[i].to) /\ OwnedBy(sc, i, qs[i].to.array)
    <3>1. CASE i = L
      BY <1>4, <3>1
    <3>2. CASE i # L
      BY <1>1, <1>2, <1>4, <3>2 DEF Lends
    <3> QED BY <3>1, <3>2
  <2> QED BY <1>3, <2>1 DEF OwnedBy, Owns
<1> QED BY <1>5, <1>7, <1>8, <1>9 DEF Sound, tc, qs

LEMMA FrontFacts ==
    ASSUME NEW S, NEW s \in Seq(S), s # <<>>
    PROVE  /\ Front(s) \in Seq(S) /\ Len(Front(s)) = Len(s) - 1
           /\ \A d \in 1..(Len(s) - 1) : Front(s)[d] = s[d]
<1>1. Len(s) \in Nat \ {0}
  BY EmptySeq
<1> DEFINE n == Len(s) - 1
<1>2. n \in Nat /\ \A d \in 1..n : s[d] \in S
  BY <1>1, ElementOfSeq
<1>3. /\ SubSeq(s, 1, n) \in Seq(S) /\ Len(SubSeq(s, 1, n)) = (IF 1 <= n THEN n - 1 + 1 ELSE 0)
      /\ \A d \in 1..(n - 1 + 1) : SubSeq(s, 1, n)[d] = s[1 + d - 1]
  <2> HIDE DEF n
  <2> QED BY <1>2, SubSeqProperties
<1>4. Len(SubSeq(s, 1, n)) = n /\ \A d \in 1..n : SubSeq(s, 1, n)[d] = s[d]
  <2> HIDE DEF n
  <2>1. n - 1 + 1 = n /\ \A d \in 1..n : 1 + d - 1 = d
    BY <1>2
  <2> QED BY <1>2, <1>3, <2>1
<1> QED BY <1>3, <1>4 DEF Front

(* A return: the scope goes, and nothing is freed with it.                 *)
LEMMA PopSound ==
    ASSUME NEW h, NEW sc, NEW ps, Sound(h, sc, ps), Len(ps) > 0
    PROVE  Sound(h, Front(sc), Front(ps))
<1> DEFINE L == Len(sc)
           tc == Front(sc)
           qs == Front(ps)
<1>1. Typed(h, sc, ps) /\ Live(h, sc) /\ Sole(sc) /\ Shares(sc) /\ Lends(h, sc, ps)
  BY DEF Sound
<1>2. sc \in Seq(ScopeMaps) /\ ps \in Seq(Parameters) /\ L \in Nat /\ Len(ps) \in Nat /\ L = Len(ps) + 1
      /\ L > 1 /\ L \in 1..L
  BY <1>1, TypedScopes DEF Typed
<1>3. tc \in Seq(ScopeMaps) /\ Len(tc) = L - 1 /\ \A i \in 1..(L - 1) : tc[i] = sc[i]
  <2>1. sc # <<>>
    BY <1>2, EmptySeq
  <2> QED BY <1>2, <2>1, FrontFacts
<1>4. qs \in Seq(Parameters) /\ Len(qs) = L - 2 /\ \A i \in 1..(L - 2) : qs[i] = ps[i]
  <2>1. ps # <<>> /\ Len(ps) = L - 1
    BY <1>2, EmptySeq
  <2>2. Front(ps) \in Seq(Parameters) /\ Len(Front(ps)) = Len(ps) - 1
        /\ \A d \in 1..(Len(ps) - 1) : Front(ps)[d] = ps[d]
    BY <1>2, <2>1, FrontFacts
  <2> QED BY <1>2, <2>1, <2>2
<1> HIDE DEF tc, qs
<1>6. Typed(h, tc, qs)
  BY <1>1, <1>2, <1>3, <1>4 DEF Typed
<1>9. Live(h, tc)
  <2>1. \A i \in 1..(L - 1) : i \in 1..L
    BY <1>2
  <2> QED BY <1>1, <1>3, <2>1 DEF Live
<1>10. Sole(tc)
  <2> SUFFICES ASSUME NEW i \in 1..(L - 1), NEW j \in 1..(L - 1),
                      NEW n \in DOMAIN sc[i], NEW m \in DOMAIN sc[j],
                      Owns(sc, i, n), Owns(sc, j, m), sc[i][n].array = sc[j][m].array
               PROVE  i = j /\ n = m
    BY <1>3 DEF Sole, Owns
  <2>1. i \in 1..L /\ j \in 1..L
    BY <1>2
  <2> QED BY <1>1, <2>1 DEF Sole
<1>11. Shares(tc)
  <2>1. tc[1] = sc[1] /\ \A i \in 1..(L - 1) : i \in 1..L
    BY <1>2, <1>3
  <2> QED BY <1>1, <1>3, <2>1 DEF Shares
<1>12. Lends(h, tc, qs)
  <2> SUFFICES ASSUME NEW i \in 1..(L - 2), ps[i].to # Nowhere
               PROVE  InBlock(h, ps[i].to) /\ OwnedBy(tc, i, ps[i].to.array)
    BY <1>4 DEF Lends
  <2>1. i \in 1..Len(ps)
    BY <1>2
  <2>2. InBlock(h, ps[i].to) /\ OwnedBy(sc, i, ps[i].to.array)
    BY <1>1, <2>1 DEF Lends
  <2>3. PICK j \in 1..i : \E m \in DOMAIN sc[j] : Owns(sc, j, m) /\ sc[j][m].array = ps[i].to.array
    BY <2>2 DEF OwnedBy
  <2>4. PICK m \in DOMAIN sc[j] : Owns(sc, j, m) /\ sc[j][m].array = ps[i].to.array
    BY <2>3
  <2>5. j \in 1..(L - 1)
    BY <1>2
  <2>6. tc[j] = sc[j]
    BY <1>3, <2>5
  <2> QED BY <2>2, <2>4, <2>6 DEF OwnedBy, Owns
<1> QED BY <1>6, <1>9, <1>10, <1>11, <1>12 DEF Sound, tc, qs

(* SHARED of an array of the module.                                        *)
LEMMA ShareSound ==
    ASSUME NEW h, NEW sc, NEW ps, Sound(h, sc, ps), Len(ps) > 0,
           NEW n \in DOMAIN sc[1], sc[1][n].array # NULL, n \notin DOMAIN sc[Len(sc)]
    PROVE  Sound(h, Entered(sc, Len(sc), n, [sc[1][n] EXCEPT !.ref = TRUE]), ps)
<1> DEFINE L == Len(sc)
           y == [sc[1][n] EXCEPT !.ref = TRUE]
           tc == Entered(sc, L, n, y)
<1>1. Typed(h, sc, ps) /\ Live(h, sc) /\ Sole(sc) /\ Shares(sc) /\ Lends(h, sc, ps)
  BY DEF Sound
<1>2. sc \in Seq(ScopeMaps) /\ L \in Nat /\ Len(ps) \in Nat /\ L = Len(ps) + 1
      /\ L > 1 /\ L \in 1..L /\ 1 \in 1..L
  BY <1>1, TypedScopes DEF Typed
<1>3. y \in Symbols /\ y.array = sc[1][n].array /\ y.ref = TRUE /\ n \in Names
  <2>1. sc[1][n] \in Symbols /\ n \in Names
    BY <1>1, <1>2, TypedScopes
  <2> QED BY <2>1 DEF Symbols
<1> HIDE DEF y
<1>4. /\ tc \in Seq(ScopeMaps) /\ Len(tc) = L /\ DOMAIN tc[L] = DOMAIN sc[L] \cup {n} /\ tc[L][n] = y
      /\ \A m \in DOMAIN sc[L] : m # n => tc[L][m] = sc[L][m]
      /\ \A j \in 1..L : j # L => tc[j] = sc[j]
  BY <1>2, <1>3, EnteredFacts
<1> HIDE DEF tc
<1>5. \A i \in 1..L : \A m \in DOMAIN tc[i] :
         \/ i = L /\ m = n /\ tc[i][m] = y
         \/ m \in DOMAIN sc[i] /\ tc[i][m] = sc[i][m]
  BY <1>4
<1>6. \A i \in 1..L : \A m \in DOMAIN sc[i] : m \in DOMAIN tc[i] /\ tc[i][m] = sc[i][m]
  BY <1>4
<1>7. Typed(h, tc, ps)
  BY <1>1, <1>2, <1>4 DEF Typed
<1>8. Live(h, tc)
  BY <1>1, <1>2, <1>3, <1>4, <1>5 DEF Live
<1>9. Sole(tc)
  <2> SUFFICES ASSUME NEW i \in 1..L, NEW j \in 1..L, NEW m \in DOMAIN tc[i], NEW k \in DOMAIN tc[j],
                      Owns(tc, i, m), Owns(tc, j, k), tc[i][m].array = tc[j][k].array
               PROVE  i = j /\ m = k
    BY <1>4 DEF Sole
  <2>1. /\ m \in DOMAIN sc[i] /\ tc[i][m] = sc[i][m]
        /\ k \in DOMAIN sc[j] /\ tc[j][k] = sc[j][k]
    BY <1>3, <1>5 DEF Owns
  <2> QED BY <1>1, <2>1 DEF Sole, Owns
<1>10. Shares(tc)
  <2>1. tc[1] = sc[1]
    BY <1>2, <1>4
  <2>2. ASSUME NEW i \in 1..L, NEW m \in DOMAIN tc[i], tc[i][m].ref
        PROVE  /\ m \in DOMAIN tc[1] /\ tc[i][m].array = tc[1][m].array
               /\ tc[i][m].array # NULL
    BY <1>1, <1>3, <1>5, <2>1, <2>2 DEF Shares
  <2> QED BY <1>1, <1>4, <2>1, <2>2 DEF Shares
<1>11. Lends(h, tc, ps)
  <2> SUFFICES ASSUME NEW i \in 1..Len(ps), ps[i].to # Nowhere
               PROVE  InBlock(h, ps[i].to) /\ OwnedBy(tc, i, ps[i].to.array)
    BY DEF Lends
  <2>1. InBlock(h, ps[i].to) /\ OwnedBy(sc, i, ps[i].to.array)
    BY <1>1 DEF Lends
  <2>2. PICK j \in 1..i : \E m \in DOMAIN sc[j] : Owns(sc, j, m) /\ sc[j][m].array = ps[i].to.array
    BY <2>1 DEF OwnedBy
  <2>3. PICK m \in DOMAIN sc[j] : Owns(sc, j, m) /\ sc[j][m].array = ps[i].to.array
    BY <2>2
  <2>4. m \in DOMAIN tc[j] /\ tc[j][m] = sc[j][m]
    BY <1>2, <1>6
  <2> QED BY <2>1, <2>3, <2>4 DEF OwnedBy, Owns
<1> QED BY <1>7, <1>8, <1>9, <1>10, <1>11 DEF Sound, tc, y

(* LET of a parameter changes its copy.                                     *)
LEMMA CopySound ==
    ASSUME NEW h, NEW sc, NEW ps, Sound(h, sc, ps), NEW i \in 1..Len(ps), NEW v \in Values
    PROVE  Sound(h, sc, [ps EXCEPT ![i].copy = v])
<1> DEFINE x == [ps[i] EXCEPT !.copy = v]
           qs == [ps EXCEPT ![i] = x]
<1>1. Typed(h, sc, ps) /\ Live(h, sc) /\ Sole(sc) /\ Shares(sc) /\ Lends(h, sc, ps)
  BY DEF Sound
<1>2. ps \in Seq(Parameters)
  BY <1>1 DEF Typed
<1>3. x \in Parameters /\ x.to = ps[i].to
  <2>1. ps[i] \in Parameters
    BY <1>2, ElementOfSeq
  <2> QED BY <2>1 DEF Parameters
<1>4. [ps EXCEPT ![i].copy = v] = qs
  OBVIOUS
<1> HIDE DEF x
<1>5. qs \in Seq(Parameters) /\ Len(qs) = Len(ps) /\ \A j \in 1..Len(ps) : qs[j] = IF j = i THEN x ELSE ps[j]
  BY <1>2, <1>3, ExceptSeq
<1> HIDE DEF qs
<1>6. Typed(h, sc, qs)
  BY <1>1, <1>5 DEF Typed
<1>7. \A j \in 1..Len(ps) : qs[j].to = ps[j].to
  BY <1>3, <1>5
<1>8. Lends(h, sc, qs)
  BY <1>1, <1>5, <1>7 DEF Lends
<1> QED BY <1>1, <1>4, <1>6, <1>8 DEF Sound

--------------------------------------------------------------------------------
(* What a statement finds: the symbol of a name, and the element that       *)
(* subscripts lead to.                                                      *)

Reaches(st) == Sound(st.heap, st.scopes, params) /\ Len(st.scopes) = Level

LEMMA StateReaches == Inv => Reaches(State) /\ State.heap = heap /\ State.scopes = scopes
  BY DEF Inv, Reaches, State, Level

LEMMA ReachesTyped ==
    ASSUME NEW st, Reaches(st)
    PROVE  /\ Level \in Nat /\ Calls \in Nat /\ Level = Calls + 1 /\ Level \in 1..Level /\ 1 \in 1..Level
           /\ Len(st.scopes) = Level
           /\ st.heap \in [DOMAIN st.heap -> FBArrays] /\ DOMAIN st.heap \subseteq Addresses
           /\ \A i \in 1..Level : DOMAIN st.scopes[i] \subseteq Names
<1>1. Typed(st.heap, st.scopes, params) /\ Len(st.scopes) = Level
  BY DEF Reaches, Sound
<1>2. /\ Len(params) \in Nat /\ Len(st.scopes) = Len(params) + 1
      /\ \A i \in 1..Len(st.scopes) : DOMAIN st.scopes[i] \subseteq Names
  BY <1>1, TypedScopes
<1>3. st.heap \in [DOMAIN st.heap -> FBArrays] /\ DOMAIN st.heap \subseteq Addresses
  BY <1>1 DEF Typed
<1> QED BY <1>1, <1>2, <1>3 DEF Calls

LEMMA SymbolFacts ==
    ASSUME NEW st, Reaches(st), NEW n, HasArray(st, n)
    PROVE  /\ Home(st, n) \in 1..Level /\ n \in DOMAIN st.scopes[Home(st, n)]
           /\ Symbol(st, n) = st.scopes[Home(st, n)][n]
           /\ Symbol(st, n).array \in DOMAIN st.heap
           /\ OwnedBy(st.scopes, Level, Symbol(st, n).array)
<1> DEFINE i == Home(st, n)
           y == st.scopes[i][n]
<1>1. /\ Level \in 1..Level /\ 1 \in 1..Level /\ Len(st.scopes) = Level
      /\ Live(st.heap, st.scopes) /\ Shares(st.scopes)
  BY ReachesTyped DEF Reaches, Sound
<1>2. i \in 1..Level
  BY <1>1 DEF Home
<1>3. n \in DOMAIN st.scopes[i] /\ y.array # NULL /\ Symbol(st, n) = y
  BY DEF HasArray, Found, Symbol
<1> HIDE DEF i
<1>4. y.array \in DOMAIN st.heap
  BY <1>1, <1>2, <1>3 DEF Live
<1>5. OwnedBy(st.scopes, Level, y.array)
  <2>1. CASE ~y.ref
    BY <1>2, <1>3, <2>1 DEF OwnedBy, Owns
  <2>2. CASE y.ref
    <3>1. n \in DOMAIN st.scopes[1] /\ y.array = st.scopes[1][n].array /\ ~st.scopes[1][n].ref
      BY <1>1, <1>2, <1>3, <2>2 DEF Shares
    <3> QED BY <1>1, <1>3, <3>1 DEF OwnedBy, Owns
  <2> QED BY <2>1, <2>2
<1> QED BY <1>2, <1>3, <1>4, <1>5 DEF i

LEMMA Between ==
    ASSUME NEW l \in Int, NEW u \in Int, NEW x \in Int, ~(x < l \/ x > u)
    PROVE  x \in l..u
  OBVIOUS

LEMMA PositionFacts ==
    ASSUME NEW b \in Bounds, NEW s \in Subscripts, Position[b][s] # -1
    PROVE  /\ ~Invalid(b) /\ s \in Tuples(b) /\ Position[b][s] = Index(b, s)
           /\ Position[b][s] \in 0..(Block(b) - 1) /\ Block(b) \in Nat \ {0}
<1>0. Position[b][s] = Index(b, s)
  BY SMT DEF Position
<1>1. ~Outside(b, s)
  BY <1>0 DEF Index
<1>2. b \in Seq(Int \X Int) /\ b # <<>> /\ DOMAIN b = 1..Len(b) /\ Len(b) \in Nat
  BY BoundsAre, LenProperties
<1>3. s \in Seq(Int) /\ DOMAIN s = 1..Len(s) /\ Len(s) = Len(b)
  BY <1>1, BoundsOK, LenProperties DEF Outside
<1>4. s \in Tuples(b)
  <2> DEFINE U == UNION {b[d][1]..b[d][2] : d \in DOMAIN b}
  <2>1. ASSUME NEW d \in 1..Len(b) PROVE s[d] \in b[d][1]..b[d][2]
    <3>1. s[d] \in Int /\ b[d][1] \in Int /\ b[d][2] \in Int
      BY <1>2, <1>3, ElementOfSeq, SizeIsInt
    <3>2. ~(s[d] < b[d][1] \/ s[d] > b[d][2])
      BY <1>1, <1>2 DEF Outside
    <3> QED BY <3>1, <3>2, Between
  <2>2. \A d \in 1..Len(b) : s[d] \in U
    BY <1>2, <2>1
  <2>3. s \in [1..Len(b) -> U]
    <3> HIDE DEF U
    <3>1. s = [d \in 1..Len(b) |-> s[d]]
      <4>1. s \in [1..Len(s) -> Int]
        BY <1>3, LenProperties
      <4> QED BY <1>3, <4>1
    <3> QED BY <2>2, <3>1
  <2> QED BY <1>2, <2>1, <2>3 DEF Tuples
<1>5. ~Invalid(b)
  BY <1>4, NoTuples
<1>6. b \in ValidBounds
  BY <1>2, <1>5 DEF ValidBounds
<1>7. Total(b) \in Nat \ {0} /\ {Index(b, t) : t \in Tuples(b)} = 0..(Total(b) - 1)
  BY <1>6, IndexFacts
<1>8. Index(b, s) \in 0..(Total(b) - 1)
  BY <1>4, <1>7
<1>9. Block(b) = Total(b)
  BY <1>5 DEF Block
<1> QED BY <1>0, <1>4, <1>5, <1>7, <1>8, <1>9

(* A pointer into the block of an array that the symbols in sight own.      *)
Leads(st, q) == q \in Pointers /\ InBlock(st.heap, q) /\ OwnedBy(st.scopes, Level, q.array)

LEMMA ElementFacts ==
    ASSUME NEW st, Reaches(st), NEW n, NEW s \in Subscripts, HasArray(st, n),
           Element(st, n, s) # Nowhere
    PROVE  Leads(st, Element(st, n, s))
<1> DEFINE a == Symbol(st, n).array
           i == Position[st.heap[a].dims][s]
<1>1. a \in DOMAIN st.heap /\ OwnedBy(st.scopes, Level, a) /\ a \in Addresses
      /\ st.heap[a] \in FBArrays
  BY SymbolFacts, ReachesTyped
<1>2. i # -1 /\ Element(st, n, s) = Pointer(a, i)
  BY DEF Element
<1>3. st.heap[a].dims \in Bounds /\ Len(st.heap[a].data) = Block(st.heap[a].dims)
  BY <1>1 DEF FBArrays
<1>4. i \in 0..(Block(st.heap[a].dims) - 1) /\ Block(st.heap[a].dims) \in Nat
  BY <1>2, <1>3, PositionFacts
<1> HIDE DEF a, i
<1>5. i + 1 \in 1..Len(st.heap[a].data) /\ i \in Int
  BY <1>3, <1>4
<1>6. Element(st, n, s).array = a /\ Element(st, n, s).index = i
  BY <1>2 DEF Pointer
<1>7. Element(st, n, s) \in Pointers
  BY <1>1, <1>2, <1>5 DEF Pointer, Pointers
<1>8. InBlock(st.heap, Element(st, n, s))
  BY <1>1, <1>5, <1>6 DEF InBlock
<1> QED BY <1>1, <1>6, <1>7, <1>8 DEF Leads

(* u has what st has, and an array named n.                                 *)
Gains(st, u, n) ==
    /\ Reaches(u) /\ HasArray(u, n)
    /\ DOMAIN st.heap \subseteq DOMAIN u.heap
    /\ \A z \in DOMAIN st.heap : u.heap[z] = st.heap[z]
    /\ \A j \in 1..Level : \A m : Owns(st.scopes, j, m) =>
           Owns(u.scopes, j, m) /\ u.scopes[j][m] = st.scopes[j][m]

LEMMA InsertReaches ==
    ASSUME NEW st, Reaches(st), NEW n \in Names, n \notin DOMAIN st.scopes[Level], Free(st) # {},
           NEW b \in Bounds, ~Invalid(b), NEW dynamic \in BOOLEAN
    PROVE  Gains(st, Insert(st, n, b, dynamic), n)
<1> DEFINE a == CHOOSE a \in Free(st) : TRUE
           u == Insert(st, n, b, dynamic)
           x == FBArray(b, dynamic)
<1>1. a \in Addresses \ DOMAIN st.heap
  BY DEF Free
<1>2. /\ u.heap = With(st.heap, a, x)
      /\ u.scopes = Entered(st.scopes, Level, n, ArraySymbol(a))
  BY DEF Insert, Entered
<1>3. x \in FBArrays
  BY NewTyped
<1> HIDE DEF a, u, x
<1>4. Sound(st.heap, st.scopes, params) /\ Len(st.scopes) = Level /\ Level \in 1..Level /\ 1 \in 1..Level
      /\ Level \in Nat
  BY ReachesTyped DEF Reaches
<1>5. Sound(u.heap, u.scopes, params)
  BY <1>1, <1>2, <1>3, <1>4, InsertSound
<1>6. st.scopes \in Seq(ScopeMaps) /\ ArraySymbol(a) \in Symbols /\ ArraySymbol(a).array # NULL
  BY <1>1, <1>4, BoundsOK DEF Sound, Typed, ArraySymbol, Symbols
<1>7. /\ Len(u.scopes) = Level
      /\ DOMAIN u.scopes[Level] = DOMAIN st.scopes[Level] \cup {n}
      /\ u.scopes[Level][n] = ArraySymbol(a)
      /\ \A m \in DOMAIN st.scopes[Level] : m # n => u.scopes[Level][m] = st.scopes[Level][m]
      /\ \A j \in 1..Level : j # Level => u.scopes[j] = st.scopes[j]
  BY <1>2, <1>4, <1>6, EnteredFacts
<1>8. Reaches(u)
  BY <1>5, <1>7 DEF Reaches
<1>9. HasArray(u, n)
  BY <1>6, <1>7 DEF HasArray, Found, Symbol, Home
<1>10. DOMAIN st.heap \subseteq DOMAIN u.heap /\ \A z \in DOMAIN st.heap : u.heap[z] = st.heap[z]
  BY <1>1, <1>2 DEF With
<1>11. ASSUME NEW j \in 1..Level, NEW m, Owns(st.scopes, j, m)
       PROVE  Owns(u.scopes, j, m) /\ u.scopes[j][m] = st.scopes[j][m]
  <2>1. m \in DOMAIN st.scopes[j]
    BY <1>11 DEF Owns
  <2>2. m \in DOMAIN u.scopes[j] /\ u.scopes[j][m] = st.scopes[j][m]
    <3>1. CASE j = Level
      <4>1. m # n
        BY <2>1, <3>1
      <4> QED BY <1>7, <2>1, <3>1, <4>1
    <3>2. CASE j # Level
      BY <1>7, <2>1, <3>2
    <3> QED BY <3>1, <3>2
  <2> QED BY <1>11, <2>2 DEF Owns
<1> QED BY <1>8, <1>9, <1>10, <1>11 DEF Gains, u

(* Using an element of a name that has an array, or is not known.           *)
LEMMA UsedReaches ==
    ASSUME NEW st, Reaches(st), NEW n \in Names, NEW s \in Subscripts,
           Room(st, n), Found(st, n) => HasArray(st, n)
    PROVE  Gains(st, Used(st, n, s), n)
<1>1. CASE Found(st, n)
  BY <1>1 DEF Used, Gains
<1>2. CASE ~Found(st, n)
  <2>1. Used(st, n, s) = Insert(st, n, ByItself(Len(s)), FALSE)
    BY <1>2 DEF Used
  <2>2. n \notin DOMAIN st.scopes[Level]
    BY <1>2 DEF Found, Home
  <2>3. Free(st) # {}
    BY <1>2 DEF Room, HasArray
  <2>4. ByItself(Len(s)) \in Bounds /\ ~Invalid(ByItself(Len(s)))
    BY ByItselfValid
  <2> QED BY <2>1, <2>2, <2>3, <2>4, InsertReaches
<1> QED BY <1>1, <1>2

LEMMA InBlockShape ==
    ASSUME NEW h, NEW g, h \in [DOMAIN h -> FBArrays], SameShape(h, g), NEW q, InBlock(h, q)
    PROVE  InBlock(g, q)
<1>1. q.array \in DOMAIN h /\ DOMAIN g = DOMAIN h
  BY DEF InBlock, SameShape
<1>2. Len(g[q.array].data) = Len(h[q.array].data)
  BY <1>1, ShapeSame
<1> QED BY <1>1, <1>2 DEF InBlock

--------------------------------------------------------------------------------
(* The statements, of programs that keep to UsesWell, ErasesWell and        *)
(* SharesWell, one lemma each.                                              *)

LEMMA GoesSound ==
    ASSUME NEW st, Reaches(st), Goes(st), UNCHANGED params, running' \in BOOLEAN
    PROVE  Inv'
  BY DEF Reaches, Goes, Inv

LEMMA DeclaredReaches ==
    ASSUME Inv, NEW n \in Names, NEW b \in AllBounds, NEW dynamic \in BOOLEAN, Free(State) # {}
    PROVE  Reaches(Declared(n, b, dynamic))
<1> DEFINE st == State
<1>1. Reaches(st) /\ st.scopes = scopes
  BY StateReaches
<1> HIDE DEF st
<1>2. CASE n \in DOMAIN scopes[Level] \/ Invalid(b)
  BY <1>1, <1>2 DEF Declared, st
<1>3. CASE ~(n \in DOMAIN scopes[Level] \/ Invalid(b))
  <2>1. n \notin DOMAIN st.scopes[Level] /\ ~Invalid(b) /\ Free(st) # {} /\ b \in Bounds
    BY <1>1, <1>3 DEF st, Bounds
  <2>2. Gains(st, Insert(st, n, b, dynamic), n)
    BY <1>1, <2>1, InsertReaches
  <2>3. Declared(n, b, dynamic) = Insert(st, n, b, dynamic)
    BY <1>3 DEF Declared, st
  <2> QED BY <2>2, <2>3 DEF Gains
<1> QED BY <1>2, <1>3

LEMMA DimSound ==
    ASSUME Inv, NEW n \in Names, NEW b \in AllBounds, Free(State) # {}, ExecDim(n, b)
    PROVE  Inv'
<1>1. Reaches(Declared(n, b, FALSE))
  BY DeclaredReaches
<1>2. Goes(Declared(n, b, FALSE)) /\ UNCHANGED params
  BY DEF ExecDim
<1>3. running' \in BOOLEAN
  BY DEF ExecDim, Fails, Done, Inv
<1> QED BY <1>1, <1>2, <1>3, GoesSound

LEMMA RedimStatementSound ==
    ASSUME Inv, WellUsed, NEW n \in Names, NEW b \in AllBounds, Free(State) # {}, Calls = 0,
           ExecRedim(n, b)
    PROVE  Inv'
<1> DEFINE st == Redeclared(n, b)
<1>1. Goes(st) /\ UNCHANGED params
  BY DEF ExecRedim
<1>2. running' \in BOOLEAN
  BY DEF ExecRedim, Fails, Done, Inv
<1>3. Reaches(st)
  <2>1. Reaches(State) /\ State.heap = heap /\ State.scopes = scopes
    BY StateReaches
  <2>2. CASE ~HasArray(State, n)
    BY <2>2, DeclaredReaches DEF Redeclared
  <2>3. CASE HasArray(State, n) /\ Static(n)
    BY <2>1, <2>3 DEF Redeclared
  <2>4. CASE HasArray(State, n) /\ ~Static(n)
    <3>1. ArrayOf(n) \in DOMAIN heap
      BY <2>1, <2>4, SymbolFacts DEF ArrayOf
    <3>2. b \in Bounds /\ Len(params) = 0 /\ Sound(heap, scopes, params)
      BY DEF Bounds, Inv, Calls
    <3>3. Sound([heap EXCEPT ![ArrayOf(n)] = Redimmed(@, b)], scopes, params)
      BY <3>1, <3>2, RedimSound
    <3>4. st = [heap |-> [heap EXCEPT ![ArrayOf(n)] = Redimmed(@, b)], scopes |-> scopes]
      BY <2>4 DEF Redeclared
    <3>5. st.heap = [heap EXCEPT ![ArrayOf(n)] = Redimmed(@, b)] /\ st.scopes = scopes
      BY <3>4
    <3> QED BY <3>3, <3>5 DEF Reaches, Level
  <2> QED BY <2>2, <2>3, <2>4
<1> QED BY <1>1, <1>2, <1>3, GoesSound

LEMMA EraseStatementSound ==
    ASSUME Inv, WellUsed, NEW n \in Names, ExecErase(n)
    PROVE  Inv'
<1> DEFINE st == IF HasArray(State, n) THEN Erased(n) ELSE State
           a  == ArrayOf(n)
           i  == Home(State, n)
<1>1. Goes(st) /\ UNCHANGED params
  BY DEF ExecErase
<1>2. running' \in BOOLEAN
  BY DEF ExecErase, Done, Inv
<1>3. Reaches(State) /\ State.heap = heap /\ State.scopes = scopes /\ Sound(heap, scopes, params)
  BY StateReaches DEF Inv
<1>4. CASE ~HasArray(State, n)
  BY <1>1, <1>2, <1>3, <1>4, GoesSound
<1>5. CASE HasArray(State, n)
  <2>1. /\ i \in 1..Level /\ n \in DOMAIN scopes[i] /\ scopes[i][n].array = a /\ a \in DOMAIN heap
    BY <1>3, <1>5, SymbolFacts DEF ArrayOf
  <2>2. a # NULL /\ ~Touched(n) /\ (heap[a].dynamic => ~Aliased(n))
    BY <1>5 DEF ExecErase, ErasesWell, HasArray, ArrayOf
  <2>3. heap \in [DOMAIN heap -> FBArrays]
    BY <1>3 DEF Sound, Typed
  <2>4. CASE heap[a].dynamic
    <3>1. \A j \in 2..Len(scopes) : \A m \in DOMAIN scopes[j] : ~(scopes[j][m].ref /\ scopes[j][m].array = a)
      BY <2>2, <2>4 DEF Aliased, Level
    <3>2. \A k \in 1..Len(params) : params[k].to.array # a
      BY <2>2 DEF Touched, Calls
    <3>3. i \in 1..Len(scopes)
      BY <2>1 DEF Level
    <3> HIDE DEF a, i
    <3>4. Sound(Without(heap, {a}), [scopes EXCEPT ![i][n].array = NULL], params)
      BY <1>3, <2>1, <3>1, <3>2, <3>3, EraseSound
    <3>5. st.heap = Without(heap, {a}) /\ st.scopes = [scopes EXCEPT ![i][n].array = NULL]
      BY <1>5, <2>4 DEF Erased, a, i
    <3> QED BY <1>1, <1>2, <3>4, <3>5 DEF Inv, Goes
  <2>5. CASE ~heap[a].dynamic
    <3>1. st.heap = [heap EXCEPT ![a].data = Zeros(Len(@))] /\ st.scopes = scopes
      BY <1>5, <2>5 DEF Erased
    <3> HIDE DEF a, st
    <3>2. SameShape(heap, [heap EXCEPT ![a].data = Zeros(Len(@))])
      BY <2>1, <2>3, WipedShape
    <3>3. Sound(st.heap, st.scopes, params)
      BY <1>3, <3>1, <3>2, ShapeSound
    <3> QED BY <1>1, <1>2, <3>3 DEF Inv, Goes
  <2> QED BY <2>4, <2>5
<1> QED BY <1>4, <1>5

(* What UsesWell says of a name: it has an array, or is not known.          *)
LEMMA LvalueReaches ==
    ASSUME Inv, WellUsed, NEW n \in Names, NEW s \in Subscripts, NEW q, UsesWell(n, q), Room(State, n)
    PROVE  /\ Gains(State, Used(State, n, s), n)
           /\ Lvalue(n, s) # Nowhere => Leads(Used(State, n, s), Lvalue(n, s))
<1> DEFINE st == State
           u  == Used(State, n, s)
<1>1. Reaches(st) /\ (Found(st, n) => HasArray(st, n)) /\ Room(st, n)
  BY StateReaches DEF UsesWell
<1>2. Lvalue(n, s) = Element(u, n, s)
  BY DEF Lvalue
<1> HIDE DEF st
<1>3. Gains(st, Used(st, n, s), n)
  BY <1>1, UsedReaches
<1>4. Gains(st, u, n)
  BY <1>3 DEF st
<1> HIDE DEF u
<1>5. Element(u, n, s) # Nowhere => Leads(u, Element(u, n, s))
  BY <1>4, ElementFacts DEF Gains
<1> QED BY <1>2, <1>4, <1>5 DEF st, u

(* Then an expression finds what an assignment finds.                       *)
LEMMA ReadIsUsed ==
    ASSUME WellUsed, NEW n, NEW s, NEW q, UsesWell(n, q)
    PROVE  Read(n, s) = Used(State, n, s) /\ Rvalue(n, s) = Lvalue(n, s) /\ ~Lost(n)
<1>1. Found(State, n) <=> HasArray(State, n)
  BY DEF UsesWell, HasArray
<1>2. Read(n, s) = Used(State, n, s) /\ ~Lost(n)
  BY <1>1 DEF Read, Used, Lost
<1> QED BY <1>2 DEF Rvalue, Lvalue

LEMMA LetSound ==
    ASSUME Inv, WellUsed, NEW n \in Names, NEW s \in Subscripts, NEW v \in Values, ExecLet(n, s, v)
    PROVE  Inv'
<1> DEFINE q == Lvalue(n, s)
           u == Used(State, n, s)
<1>1. UsesWell(n, q) /\ Room(State, n) /\ UNCHANGED params
  BY DEF ExecLet
<1>2. running' \in BOOLEAN
  BY DEF ExecLet, Fails, Done, Inv
<1>3. Reaches(u) /\ (q # Nowhere => Leads(u, q))
  BY <1>1, LvalueReaches DEF Gains
<1>4. CASE q = Nowhere
  <2>1. Goes(u)
    BY <1>4 DEF ExecLet
  <2> QED BY <1>1, <1>2, <1>3, <2>1, GoesSound
<1>5. CASE q # Nowhere
  <2>1. heap' = Stored(u.heap, q, v) /\ scopes' = u.scopes
    BY <1>5 DEF ExecLet
  <2>2. Sound(u.heap, u.scopes, params) /\ q \in Pointers /\ InBlock(u.heap, q)
    BY <1>3, <1>5 DEF Reaches, Leads
  <2> HIDE DEF q, u
  <2>3. Sound(Stored(u.heap, q, v), u.scopes, params)
    BY <2>2, StoreSound
  <2> QED BY <1>1, <1>2, <2>1, <2>3 DEF Inv
<1> QED BY <1>4, <1>5

LEMMA PrintSound ==
    ASSUME Inv, WellUsed, NEW n \in Names, NEW s \in Subscripts, ExecPrint(n, s)
    PROVE  Inv'
<1>1. UsesWell(n, Nowhere) /\ Room(State, n) /\ UNCHANGED params
  BY DEF ExecPrint
<1>2. Read(n, s) = Used(State, n, s) /\ ~Lost(n)
  BY <1>1, ReadIsUsed
<1>3. Goes(Used(State, n, s)) /\ running' \in BOOLEAN
  BY <1>2 DEF ExecPrint, Fails, Done, Inv
<1>4. Reaches(Used(State, n, s))
  BY <1>1, LvalueReaches DEF Gains
<1> QED BY <1>1, <1>3, <1>4, GoesSound

(* A name that has an array, or gets one when another name is used, has it. *)
LEMMA SecondName ==
    ASSUME Inv, WellUsed, NEW n \in Names, NEW m \in Names, NEW s \in Subscripts, NEW q, NEW r,
           UsesWell(n, q), UsesWell(m, r), Room(State, n)
    PROVE  Found(Used(State, n, s), m) => HasArray(Used(State, n, s), m)
<1> DEFINE one == Used(State, n, s)
<1>1. UsesWell(n, q) /\ UsesWell(m, r) /\ Room(State, n)
  OBVIOUS
<1>2. Gains(State, one, n)
  BY <1>1, LvalueReaches
<1>3. CASE Found(State, n)
  <2>1. one = State
    BY <1>3 DEF Used
  <2> QED BY <1>1, <2>1 DEF UsesWell
<1>4. CASE ~Found(State, n)
  <2>1. CASE m = n
    BY <1>2, <2>1 DEF Gains
  <2>2. CASE m # n
    <3>1. one = Insert(State, n, ByItself(Len(s)), FALSE)
      BY <1>4 DEF Used
    <3>2. Level \in 1..Level /\ scopes \in Seq(ScopeMaps) /\ Len(scopes) = Level
      BY StateReaches, ReachesTyped DEF Inv, Sound, Typed, Level
    <3>3. /\ DOMAIN one.scopes[Level] = DOMAIN scopes[Level] \cup {n}
          /\ \A z \in DOMAIN scopes[Level] : z # n => one.scopes[Level][z] = scopes[Level][z]
          /\ Level # 1 => one.scopes[1] = scopes[1]
      <4> DEFINE a == CHOOSE a \in Free(State) : TRUE
                 f == With(scopes[Level], n, ArraySymbol(a))
      <4>1. one.scopes = [scopes EXCEPT ![Level] = f]
        <5> DEFINE st == State
                   b  == ByItself(Len(s))
        <5>1. one = Insert(st, n, b, FALSE) /\ st.scopes = scopes /\ a = CHOOSE z \in Free(st) : TRUE
          BY <3>1, StateReaches
        <5> HIDE DEF st, b, one
        <5>2. one.scopes = [st.scopes EXCEPT ![Level] = With(st.scopes[Level], n, ArraySymbol(a))]
          BY <5>1 DEF Insert
        <5> QED BY <5>1, <5>2
      <4>2. DOMAIN f = DOMAIN scopes[Level] \cup {n} /\ \A z \in DOMAIN scopes[Level] : z # n => f[z] = scopes[Level][z]
        BY DEF With
      <4> HIDE DEF a, f, one
      <4>3. one.scopes[Level] = f /\ (Level # 1 => one.scopes[1] = scopes[1])
        BY <3>2, <4>1
      <4> QED BY <4>2, <4>3
    <3>4. CASE m \in DOMAIN scopes[Level]
      BY <1>1, <2>2, <3>3, <3>4 DEF UsesWell, Found, HasArray, Symbol, Home, State
    <3>5. CASE m \notin DOMAIN scopes[Level]
      BY <1>1, <2>2, <3>3, <3>5 DEF UsesWell, Found, HasArray, Symbol, Home, State
    <3> QED BY <3>4, <3>5
  <2> QED BY <2>1, <2>2
<1> QED BY <1>3, <1>4

(* SWAP: the second element may come with an array of its own, and the      *)
(* first stays where it was.                                                *)
LEMMA SwapSound ==
    ASSUME Inv, WellUsed, NEW n \in Names, NEW m \in Names, NEW s \in Subscripts, NEW t \in Subscripts,
           ExecSwap(n, s, m, t)
    PROVE  Inv'
<1> DEFINE one  == Used(State, n, s)
           both == Used(one, m, t)
           q    == Element(one, n, s)
           r    == Element(both, m, t)
<1>1. UsesWell(n, q) /\ UsesWell(m, r) /\ Room(State, n) /\ Room(one, m) /\ UNCHANGED params
  BY DEF ExecSwap
<1>2. running' \in BOOLEAN
  BY DEF ExecSwap, Fails, Done, Inv
<1>3. Gains(State, one, n) /\ (q # Nowhere => Leads(one, q))
  BY <1>1, LvalueReaches DEF Lvalue
<1>4. Found(one, m) => HasArray(one, m)
  <2> HIDE DEF q, r
  <2> QED BY <1>1, SecondName
<1> HIDE DEF one
<1>5. Gains(one, both, m)
  BY <1>1, <1>3, <1>4, UsedReaches DEF Gains
<1> HIDE DEF both
<1>6. Reaches(both) /\ (r # Nowhere => Leads(both, r))
  BY <1>5, ElementFacts DEF Gains
<1> HIDE DEF q, r
<1>7. CASE Nowhere \in {q, r}
  <2>1. Goes(both)
    BY <1>7 DEF ExecSwap, one, both, q, r
  <2> QED BY <1>1, <1>2, <1>6, <2>1, GoesSound
<1>8. CASE Nowhere \notin {q, r}
  <2> DEFINE h == both.heap
             v == Deref(h, q)
             w == Deref(h, r)
             g == Stored(h, q, w)
  <2>1. heap' = Stored(g, r, v) /\ scopes' = both.scopes
    BY <1>8 DEF ExecSwap, one, both, q, r
  <2>2. Sound(h, both.scopes, params) /\ h \in [DOMAIN h -> FBArrays]
    BY <1>6 DEF Reaches, Sound, Typed
  <2>3. q \in Pointers /\ InBlock(h, q)
    <3>1. q \in Pointers /\ InBlock(one.heap, q) /\ q.array \in DOMAIN one.heap
      BY <1>3, <1>8 DEF Leads, InBlock
    <3>2. q.array \in DOMAIN h /\ h[q.array] = one.heap[q.array]
      BY <1>5, <3>1 DEF Gains
    <3> QED BY <3>1, <3>2 DEF InBlock
  <2>4. r \in Pointers /\ InBlock(h, r)
    BY <1>6, <1>8 DEF Leads
  <2> HIDE DEF h
  <2>5. v \in Values /\ w \in Values
    BY <2>2, <2>3, <2>4, DerefTyped
  <2> HIDE DEF v, w
  <2>6. Sound(g, both.scopes, params)
    BY <2>2, <2>3, <2>5, StoreSound
  <2>7. SameShape(h, g)
    BY <2>2, <2>3, <2>5, StoredShape
  <2> HIDE DEF g
  <2>8. InBlock(g, r)
    BY <2>2, <2>4, <2>7, InBlockShape
  <2>9. Sound(Stored(g, r, v), both.scopes, params)
    BY <2>4, <2>5, <2>6, <2>8, StoreSound
  <2> QED BY <1>1, <1>2, <2>1, <2>9 DEF Inv
<1> QED BY <1>7, <1>8

LEMMA CallSound ==
    ASSUME Inv, WellUsed, NEW n \in Names, NEW s \in Subscripts, NEW byval \in BOOLEAN,
           ExecCall(n, s, byval)
    PROVE  Inv'
<1> DEFINE e    == Lvalue(n, s)
           q    == IF byval THEN Nowhere ELSE e
           from == IF q = Nowhere THEN e ELSE q
           u    == Used(State, n, s)
           p    == Param(q, Deref(u.heap, from))
<1>1. UsesWell(n, q) /\ Room(State, n)
  BY DEF ExecCall
<1>2. running' \in BOOLEAN
  BY DEF ExecCall, Fails, Done, Crashes, Inv
<1>3. Read(n, s) = u /\ Rvalue(n, s) = e /\ ~Lost(n)
  BY <1>1, ReadIsUsed
<1>4. Reaches(u) /\ (e # Nowhere => Leads(u, e))
  BY <1>1, LvalueReaches DEF Gains
<1>5. IF from = Nowhere THEN Goes(u) /\ UNCHANGED params
      ELSE /\ heap' = u.heap
           /\ scopes' = Append(u.scopes, NoSymbols)
           /\ params' = Append(params, p)
  BY <1>3 DEF ExecCall
<1> HIDE DEF e, u, p
<1>6. CASE from = Nowhere
  BY <1>2, <1>4, <1>5, <1>6, GoesSound
<1>7. CASE from # Nowhere
  <2>1. from = e /\ Leads(u, e)
    BY <1>4, <1>7
  <2>2. Sound(u.heap, u.scopes, params) /\ Len(u.scopes) = Level
    BY <1>4 DEF Reaches
  <2>3. u.heap \in [DOMAIN u.heap -> FBArrays]
    BY <2>2 DEF Sound, Typed
  <2>4. Deref(u.heap, from) \in Values
    BY <2>1, <2>3, DerefTyped DEF Leads
  <2>5. q \in Pointers
    <3>1. Nowhere \in Pointers
      BY DEF Nowhere, Pointer, Pointers
    <3> QED BY <2>1, <3>1 DEF Leads
  <2>6. p \in Parameters /\ p.to = q
    BY <2>4, <2>5 DEF p, Param, Parameters
  <2>7. p.to # Nowhere => InBlock(u.heap, p.to) /\ OwnedBy(u.scopes, Len(u.scopes), p.to.array)
    BY <2>1, <2>2, <2>6 DEF Leads
  <2>8. Sound(u.heap, Append(u.scopes, NoSymbols), Append(params, p))
    BY <2>2, <2>6, <2>7, PushSound
  <2> QED BY <1>2, <1>5, <1>7, <2>8 DEF Inv
<1> QED BY <1>6, <1>7

LEMMA LastCall ==
    ASSUME Inv, Calls > 0
    PROVE  /\ Calls \in 1..Len(params) /\ params[Calls] \in Parameters
           /\ params[Calls].to # Nowhere => params[Calls].to \in Pointers /\ InBlock(heap, params[Calls].to)
<1>1. Sound(heap, scopes, params)
  BY DEF Inv
<1>2. /\ Len(params) \in Nat
      /\ \A i \in 1..Len(params) : params[i] \in Parameters /\ params[i].to \in Pointers
  BY <1>1, TypedScopes DEF Sound
<1>3. Calls \in 1..Len(params)
  BY <1>2 DEF Calls
<1> QED BY <1>1, <1>2, <1>3 DEF Sound, Lends

LEMMA BackSound ==
    ASSUME Inv, Calls > 0, NEW v \in Values
    PROVE  Sound(IF params[Calls].to = Nowhere THEN heap ELSE Stored(heap, params[Calls].to, v),
                 scopes, params)
<1>1. Sound(heap, scopes, params)
  BY DEF Inv
<1>2. CASE params[Calls].to = Nowhere
  BY <1>1, <1>2
<1>3. CASE params[Calls].to # Nowhere
  <2>1. params[Calls].to \in Pointers /\ InBlock(heap, params[Calls].to)
    BY <1>3, LastCall
  <2>2. Sound(Stored(heap, params[Calls].to, v), scopes, params)
    BY <1>1, <2>1, StoreSound
  <2> QED BY <1>3, <2>2
<1> QED BY <1>2, <1>3

LEMMA LetParamSound ==
    ASSUME Inv, NEW v \in Values, ExecLetParam(v)
    PROVE  Inv'
<1> DEFINE g == IF params[Calls].to = Nowhere THEN heap ELSE Stored(heap, params[Calls].to, v)
<1>1. /\ Calls > 0 /\ heap' = g /\ params' = [params EXCEPT ![Calls].copy = v]
      /\ scopes' = scopes /\ running' \in BOOLEAN
  BY DEF ExecLetParam, Done, Inv
<1>2. Sound(g, scopes, params) /\ Calls \in 1..Len(params)
  BY <1>1, BackSound, LastCall
<1> HIDE DEF g
<1>3. Sound(g, scopes, [params EXCEPT ![Calls].copy = v])
  BY <1>2, CopySound
<1> QED BY <1>1, <1>3 DEF Inv

LEMMA SharedSound ==
    ASSUME Inv, WellUsed, NEW n \in Names, ExecShared(n)
    PROVE  Inv'
<1> DEFINE y == [scopes[1][n] EXCEPT !.ref = TRUE]
<1>1. /\ Calls > 0 /\ n \in DOMAIN scopes[1] /\ n \notin DOMAIN scopes[Level]
      /\ scopes[1][n].array # NULL
  BY DEF ExecShared, SharesWell
<1>2. scopes' = Entered(scopes, Len(scopes), n, y) /\ UNCHANGED <<heap, params>> /\ running' \in BOOLEAN
  BY <1>1 DEF ExecShared, Done, Entered, Level, Inv
<1>3. Sound(heap, scopes, params) /\ Len(params) > 0 /\ n \notin DOMAIN scopes[Len(scopes)]
  BY <1>1 DEF Inv, Calls, Level
<1>4. Sound(heap, Entered(scopes, Len(scopes), n, y), params)
  BY <1>1, <1>3, ShareSound
<1> QED BY <1>2, <1>4 DEF Inv

LEMMA ReturnSound ==
    ASSUME Inv, ProcedureReturn
    PROVE  Inv'
<1> DEFINE p == params[Calls]
           g == IF p.to = Nowhere THEN heap ELSE Stored(heap, p.to, p.copy)
<1>1. /\ Calls > 0 /\ heap' = g
      /\ scopes' = Front(scopes) /\ params' = Front(params) /\ running' \in BOOLEAN
  BY DEF ProcedureReturn, Done, Inv
<1>2. p.copy \in Values
  BY <1>1, LastCall DEF Parameters
<1>3. Sound(g, scopes, params) /\ Len(params) > 0
  BY <1>1, <1>2, BackSound DEF Calls
<1> HIDE DEF g
<1>4. Sound(g, Front(scopes), Front(params))
  BY <1>3, PopSound
<1> QED BY <1>1, <1>4 DEF Inv

--------------------------------------------------------------------------------
(* The theorems.                                                            *)

LEMMA NextSound == ASSUME WellUsed, Inv, [Next]_vars PROVE Inv'
<1>1. CASE UNCHANGED vars
  BY <1>1 DEF Inv, vars
<1>2. ASSUME NEW n \in Names, NEW b \in AllBounds, Free(State) # {}, ExecDim(n, b) PROVE Inv'
  BY <1>2, DimSound
<1>3. ASSUME NEW n \in Names, NEW b \in AllBounds, Free(State) # {}, ExecRedim(n, b) PROVE Inv'
  BY <1>3, RedimStatementSound DEF ExecRedim
<1>4. ASSUME NEW n \in Names, ExecErase(n) PROVE Inv'
  BY <1>4, EraseStatementSound
<1>5. ASSUME NEW n \in Names, ExecShared(n) PROVE Inv'
  BY <1>5, SharedSound
<1>6. ASSUME NEW n \in Names, NEW s \in Subscripts, ExecPrint(n, s) PROVE Inv'
  BY <1>6, PrintSound
<1>7. ASSUME NEW n \in Names, NEW s \in Subscripts, NEW v \in Values, ExecLet(n, s, v) PROVE Inv'
  BY <1>7, LetSound
<1>8. ASSUME NEW n \in Names, NEW s \in Subscripts, NEW byval \in BOOLEAN, ExecCall(n, s, byval) PROVE Inv'
  BY <1>8, CallSound
<1>9. ASSUME NEW n \in Names, NEW m \in Names, NEW s \in Subscripts, NEW t \in Subscripts,
             ExecSwap(n, s, m, t) PROVE Inv'
  BY <1>9, SwapSound
<1>10. ASSUME NEW v \in Values, ExecLetParam(v) PROVE Inv'
  BY <1>10, LetParamSound
<1>11. CASE ProcedureReturn
  BY <1>11, ReturnSound
<1>12. CASE Next
  BY <1>2, <1>3, <1>4, <1>5, <1>6, <1>7, <1>8, <1>9, <1>10, <1>11, <1>12 DEF Next, ExecStatement
<1> QED BY <1>1, <1>12

LEMMA InvAlways == ASSUME WellUsed PROVE Spec => []Inv
<1>1. Init => Inv
  BY InitSound
<1>2. Inv /\ [Next]_vars => Inv'
  BY NextSound
<1> QED BY <1>1, <1>2, PTL DEF Spec

LEMMA InvTypes == Inv => TypeOK
<1> SUFFICES ASSUME Inv PROVE TypeOK
  OBVIOUS
<1>1. Typed(heap, scopes, params) /\ Live(heap, scopes) /\ running \in BOOLEAN
  BY DEF Inv, Sound
<1>2. /\ Len(params) \in Nat /\ Len(scopes) = Len(params) + 1
      /\ \A i \in 1..Len(scopes) : DOMAIN scopes[i] \subseteq Names
      /\ \A i \in 1..Len(scopes) : \A n \in DOMAIN scopes[i] : scopes[i][n] \in Symbols
      /\ \A i \in 1..Len(params) : params[i] \in Parameters
  BY <1>1, TypedScopes
<1>3. DOMAIN heap \subseteq Addresses
  BY <1>1 DEF Typed
<1>4. ASSUME NEW a \in DOMAIN heap
      PROVE  heap[a].dims \in Bounds /\ heap[a].dynamic \in BOOLEAN /\ heap[a].data \in Seq(Values)
  <2>1. heap[a] \in FBArrays
    BY <1>1 DEF Typed
  <2> QED BY <2>1 DEF FBArrays
<1>5. Level = Calls + 1
  BY <1>2 DEF Level, Calls
<1>6. ASSUME NEW i \in 1..Level, NEW n \in DOMAIN scopes[i]
      PROVE  n \in Names /\ scopes[i][n].array \in Addresses \cup {NULL}
  BY <1>2, <1>6 DEF Level, Symbols
<1>7. \A i \in 1..Calls : params[i].copy \in Values
  BY <1>2 DEF Calls, Parameters
<1> QED BY <1>1, <1>3, <1>4, <1>5, <1>6, <1>7 DEF TypeOK

(* Also of an array that REDIM has left without elements.                   *)
LEMMA BlockFacts ==
    ASSUME NEW x \in FBArrays
    PROVE  Positions[x.dims] = {i - 1 : i \in DOMAIN x.data} /\ OneToOne[x.dims]
<1> DEFINE b == x.dims
<1>1. b \in Bounds /\ Len(x.data) = Block(b) /\ DOMAIN x.data = 1..Len(x.data)
  BY LenProperties DEF FBArrays
<1>2. Positions[b] = {Index(b, s) : s \in Tuples(b)}
  BY <1>1 DEF Positions
<1>3. OneToOne[b] = \A s, t \in Tuples(b) : Index(b, s) = Index(b, t) => s = t
  BY <1>1, Zenon DEF OneToOne
<1> HIDE DEF b
<1>4. CASE Invalid(b)
  <2>1. Tuples(b) = {} /\ DOMAIN x.data = {}
    BY <1>1, <1>4, NoTuples DEF Block
  <2>2. {Index(b, s) : s \in Tuples(b)} = {} /\ {i - 1 : i \in DOMAIN x.data} = {}
    BY <2>1
  <2>3. \A s, t \in Tuples(b) : Index(b, s) = Index(b, t) => s = t
    BY <2>1
  <2>4. Positions[b] = {i - 1 : i \in DOMAIN x.data}
    BY <1>2, <2>2
  <2>5. OneToOne[b]
    BY <1>3, <2>3
  <2> QED BY <2>4, <2>5 DEF b
<1>5. CASE ~Invalid(b)
  <2>1. b \in ValidBounds /\ Block(b) = Total(b)
    BY <1>1, <1>5, BoundsAre DEF ValidBounds, Block
  <2>2. /\ Total(b) \in Nat \ {0}
        /\ {Index(b, s) : s \in Tuples(b)} = 0..(Total(b) - 1)
    BY <2>1, IndexFacts
  <2>3. \A s, t \in Tuples(b) : Index(b, s) = Index(b, t) => s = t
    BY <2>1, IndexFacts
  <2>4. {i - 1 : i \in 1..Total(b)} = 0..(Total(b) - 1)
    <3> DEFINE T == Total(b)
    <3> HIDE DEF T
    <3>1. T \in Nat \ {0}
      BY <2>2 DEF T
    <3>2. ASSUME NEW j \in 0..(T - 1) PROVE j \in {i - 1 : i \in 1..T}
      <4>1. j + 1 \in 1..T /\ j = (j + 1) - 1
        BY <3>1
      <4> QED BY <4>1
    <3>3. \A i \in 1..T : i - 1 \in 0..(T - 1)
      BY <3>1
    <3>4. {i - 1 : i \in 1..T} = 0..(T - 1)
      BY <3>2, <3>3
    <3> QED BY <3>4 DEF T
  <2>5. Positions[b] = {i - 1 : i \in DOMAIN x.data}
    BY <1>1, <1>2, <2>1, <2>2, <2>4
  <2>6. OneToOne[b]
    BY <1>3, <2>3
  <2> QED BY <2>5, <2>6 DEF b
<1> QED BY <1>4, <1>5

LEMMA InvArrays == Inv => ArraysSound
<1> SUFFICES ASSUME Inv PROVE ArraysSound
  OBVIOUS
<1>1. Sound(heap, scopes, params)
  BY DEF Inv
<1>2. ElementsInBlock
  <2> SUFFICES ASSUME NEW a \in DOMAIN heap
               PROVE  /\ Positions[heap[a].dims] = {i - 1 : i \in DOMAIN heap[a].data}
                      /\ OneToOne[heap[a].dims]
    BY DEF ElementsInBlock
  <2>1. heap[a] \in FBArrays
    BY <1>1 DEF Sound, Typed
  <2> QED BY <2>1, BlockFacts
<1>3. \A i \in 1..Level : \A n \in DOMAIN scopes[i] : scopes[i][n].array \in DOMAIN heap \cup {NULL}
  BY <1>1 DEF Sound, Live, Level
<1>4. ASSUME NEW i \in 1..Calls, params[i].to # Nowhere
      PROVE  /\ params[i].to.array \in DOMAIN heap
             /\ params[i].to.index + 1 \in DOMAIN heap[params[i].to.array].data
  <2>1. InBlock(heap, params[i].to)
    BY <1>1, <1>4 DEF Sound, Lends, Calls
  <2>2. heap[params[i].to.array].data \in Seq(Values)
    BY <1>1, <2>1 DEF Sound, Typed, FBArrays, InBlock
  <2> QED BY <2>1, <2>2, LenProperties DEF InBlock
<1> QED BY <1>2, <1>3, <1>4 DEF ArraysSound, NothingDangles

(* Whatever arrays a program declares, uses and frees, the heap holds        *)
(* FBArrays with bounds and cells, every scope and parameter has its parts,  *)
(* and there is one scope more than there are calls (fbarray_new,            *)
(* fbarray_redim, scope_insert, exec_call).                                  *)
THEOREM TypeAlways == ASSUME WellUsed PROVE Spec => []TypeOK
<1>1. Spec => []Inv
  BY InvAlways
<1> QED BY <1>1, InvTypes, PTL

(* Flattening (fbarray_index) gives every tuple of subscripts within the     *)
(* bounds of a live array a cell of its own and leaves no cell over, for     *)
(* every number of dimensions and all bounds, and no symbol or parameter     *)
(* points to what ERASE, REDIM or the end of a call has freed.               *)
THEOREM ArraysAlwaysSound == ASSUME WellUsed PROVE Spec => []ArraysSound
<1>1. Spec => []Inv
  BY InvAlways
<1> QED BY <1>1, InvArrays, PTL

--------------------------------------------------------------------------------
(* The arrays as a program sees them.                                       *)

Cells(b) == {s \in Subscripts : Position[b][s] # -1}
View(x)  == [bounds |-> x.dims, dynamic |-> x.dynamic,
             at |-> [s \in Cells(x.dims) |-> x.data[Position[x.dims][s] + 1]]]
Seen(h, y) == IF y.array = NULL THEN [bounds |-> <<>>, dynamic |-> TRUE, at |-> <<>>]
              ELSE View(h[y.array])
OwnIn(f)  == {n \in DOMAIN f : ~f[n].ref}
ViewsOf(h, f) == [n \in OwnIn(f) |-> Seen(h, f[n])]
Views(h, sc)  == [i \in 1..Len(sc) |-> ViewsOf(h, sc[i])]

(* The owner of an array, and a parameter as the name of an element.        *)
OwnerIn(sc, a) ==
    CHOOSE o \in (1..Len(sc)) \X Names : o[2] \in OwnIn(sc[o[1]]) /\ sc[o[1]][o[2]].array = a
SubsIn(h, q)   == CHOOSE s \in Subscripts : Position[h[q.array].dims][s] = q.index
NamedIn(h, sc, p) ==
    IF p.to = Nowhere THEN [k |-> "value", v |-> p.copy]
    ELSE [k |-> "element", home |-> OwnerIn(sc, p.to.array)[1], name |-> OwnerIn(sc, p.to.array)[2],
          subs |-> SubsIn(h, p.to)]
NamesIn(h, sc, ps) == [i \in 1..Len(ps) |-> NamedIn(h, sc, ps[i])]

(* A parameter that is an element has the value of its cell, is the only    *)
(* one that leads there, and does so by subscripts of the program.          *)
Kept(h, ps) ==
    \A i \in 1..Len(ps) : ps[i].to # Nowhere =>
        /\ Deref(h, ps[i].to) = ps[i].copy
        /\ \A j \in 1..Len(ps) : j # i => ps[j].to # ps[i].to
        /\ \E s \in Subscripts : Position[h[ps[i].to.array].dims][s] = ps[i].to.index

KeptInv == Inv /\ Kept(heap, params)

StoreArrays == <<OwnArrays(1)>> \o [i \in 1..Calls |-> OwnArrays(i + 1)]
StoreParams == [i \in 1..Calls |-> Named(params[i])]
AsSeen == /\ StoreArrays = Views(heap, scopes) /\ StoreParams = NamesIn(heap, scopes, params)
          /\ Calls = Len(params)

LEMMA ViewsSeen == Inv => AsSeen
<1> SUFFICES ASSUME Inv PROVE AsSeen
  OBVIOUS
<1>1. Len(params) \in Nat /\ Len(scopes) = Len(params) + 1
  BY TypedScopes DEF Inv, Sound
<1>2. ASSUME NEW i \in 1..Len(scopes) PROVE OwnArrays(i) = ViewsOf(heap, scopes[i])
  BY DEF OwnArrays, Own, OwnIn, OwnArray, ViewsOf, Seen, View, Cells
<1>3. StoreArrays = Views(heap, scopes)
  <2> DEFINE one  == <<OwnArrays(1)>>
             rest == [i \in 1..Calls |-> OwnArrays(i + 1)]
             S    == {OwnArrays(i) : i \in 1..(Calls + 1)}
  <2>1. Calls \in Nat
    BY <1>1 DEF Calls
  <2>2. one \in Seq(S) /\ rest \in Seq(S) /\ Len(one) = 1 /\ Len(rest) = Calls
    BY <2>1
  <2>3. /\ \A i \in 1..1 : one[i] = OwnArrays(1)
        /\ \A i \in 1..Calls : rest[i] = OwnArrays(i + 1)
    OBVIOUS
  <2> HIDE DEF one, rest, S
  <2>4. one \o rest = [i \in 1..(Calls + 1) |-> IF i <= 1 THEN one[i] ELSE rest[i - 1]]
    <3> DEFINE all == one \o rest
    <3>1. /\ all \in Seq(S) /\ Len(all) = Calls + 1
          /\ \A i \in 1..(Calls + 1) : all[i] = IF i <= 1 THEN one[i] ELSE rest[i - 1]
      <4>1. /\ all \in Seq(S) /\ Len(all) = Len(one) + Len(rest)
            /\ \A i \in 1..(Len(one) + Len(rest)) :
                   all[i] = IF i <= Len(one) THEN one[i] ELSE rest[i - Len(one)]
        BY <2>2, ConcatProperties
      <4>2. Len(one) + Len(rest) = Calls + 1
        BY <2>1, <2>2
      <4> HIDE DEF all
      <4> QED BY <2>2, <4>1, <4>2
    <3> HIDE DEF all
    <3>2. all = [i \in 1..(Calls + 1) |-> all[i]]
      BY <3>1, LenProperties
    <3> QED BY <3>1, <3>2 DEF all
  <2>5. \A i \in 1..(Calls + 1) : (IF i <= 1 THEN one[i] ELSE rest[i - 1]) = ViewsOf(heap, scopes[i])
    <3> SUFFICES ASSUME NEW i \in 1..(Calls + 1)
                 PROVE  (IF i <= 1 THEN one[i] ELSE rest[i - 1]) = ViewsOf(heap, scopes[i])
      OBVIOUS
    <3>1. OwnArrays(i) = ViewsOf(heap, scopes[i])
      BY <1>1, <1>2 DEF Calls
    <3>2. CASE i = 1
      BY <2>3, <3>1, <3>2
    <3>3. CASE i # 1
      <4>1. i - 1 \in 1..Calls /\ (i - 1) + 1 = i /\ ~(i <= 1)
        BY <2>1, <3>3
      <4>2. rest[i - 1] = OwnArrays((i - 1) + 1)
        BY <2>3, <4>1
      <4> QED BY <3>1, <4>1, <4>2
    <3> QED BY <3>2, <3>3
  <2>6. one \o rest = [i \in 1..(Calls + 1) |-> ViewsOf(heap, scopes[i])]
    BY <2>4, <2>5
  <2>7. Len(scopes) = Calls + 1
    BY <1>1 DEF Calls
  <2> QED BY <2>6, <2>7 DEF StoreArrays, Views, one, rest
<1>4. ASSUME NEW i \in 1..Len(params) PROVE Named(params[i]) = NamedIn(heap, scopes, params[i])
  BY DEF Named, NamedIn, Owner, OwnerIn, Own, OwnIn, SubsIn, Level
<1>5. StoreParams = NamesIn(heap, scopes, params)
  BY <1>4 DEF StoreParams, NamesIn, Calls
<1> QED BY <1>3, <1>5 DEF AsSeen, Calls

LEMMA ViewsSeenNext == Inv' => AsSeen'
  BY ViewsSeen, PTL

--------------------------------------------------------------------------------
(* Tuples of subscripts.                                                    *)

LEMMA CellFacts ==
    ASSUME NEW b \in Bounds, NEW s \in Subscripts
    PROVE  s \in Cells(b) <=> s \in Tuples(b)
<1>1. ASSUME s \in Cells(b) PROVE s \in Tuples(b)
  BY <1>1, PositionFacts DEF Cells
<1>2. ASSUME s \in Tuples(b) PROVE s \in Cells(b)
  <2>1. ~Invalid(b)
    BY <1>2, NoTuples
  <2>2. b \in ValidBounds
    BY <2>1, BoundsAre DEF ValidBounds
  <2>3. Total(b) \in Nat \ {0} /\ {Index(b, t) : t \in Tuples(b)} = 0..(Total(b) - 1)
    BY <2>2, IndexFacts
  <2>4. Index(b, s) \in 0..(Total(b) - 1)
    BY <1>2, <2>3
  <2>5. Position[b][s] = Index(b, s)
    BY DEF Position
  <2>6. Position[b][s] # -1
    BY <2>3, <2>4, <2>5
  <2> QED BY <2>6 DEF Cells
<1> QED BY <1>1, <1>2

LEMMA CellPlace ==
    ASSUME NEW x \in FBArrays, NEW s \in Cells(x.dims)
    PROVE  Position[x.dims][s] + 1 \in 1..Len(x.data) /\ Position[x.dims][s] \in Int
<1>1. x.dims \in Bounds /\ Len(x.data) = Block(x.dims) /\ s \in Subscripts /\ Position[x.dims][s] # -1
  BY DEF FBArrays, Cells
<1>2. Position[x.dims][s] \in 0..(Block(x.dims) - 1) /\ Block(x.dims) \in Nat \ {0}
  BY <1>1, PositionFacts
<1> QED BY <1>1, <1>2

(* Two tuples have two cells.                                               *)
LEMMA CellOwn ==
    ASSUME NEW b \in Bounds, NEW s \in Cells(b), NEW t \in Cells(b), Position[b][s] = Position[b][t]
    PROVE  s = t
<1>1. s \in Subscripts /\ t \in Subscripts /\ Position[b][s] # -1 /\ Position[b][t] # -1
  BY DEF Cells
<1>2. /\ ~Invalid(b) /\ s \in Tuples(b) /\ t \in Tuples(b)
      /\ Position[b][s] = Index(b, s) /\ Position[b][t] = Index(b, t)
  BY <1>1, PositionFacts
<1>3. b \in ValidBounds
  BY <1>2, BoundsAre DEF ValidBounds
<1>4. \A p, r \in Tuples(b) : Index(b, p) = Index(b, r) => p = r
  BY <1>3, IndexFacts
<1> QED BY <1>2, <1>4

LEMMA SameCount == ASSUME NEW m \in Nat, NEW n \in Nat, 1..m = 1..n PROVE m = n
<1>1. m <= n
  <2>1. CASE m = 0
    BY <2>1
  <2>2. CASE m # 0
    <3>1. m \in 1..m
      BY <2>2
    <3> QED BY <3>1
  <2> QED BY <2>1, <2>2
<1>2. n <= m
  <2>1. CASE n = 0
    BY <2>1
  <2>2. CASE n # 0
    <3>1. n \in 1..n
      BY <2>2
    <3> QED BY <3>1
  <2> QED BY <2>1, <2>2
<1> QED BY <1>1, <1>2

(* ArrayStore has the same tuples.                                          *)
LEMMA StoreTuples ==
    ASSUME NEW b \in Bounds
    PROVE  Store!Tuples(b) = Cells(b) /\ (Store!Empty(b) <=> Invalid(b))
<1>1. b \in Seq(Int \X Int) /\ DOMAIN b = 1..Len(b) /\ Len(b) \in Nat
  BY BoundsAre, LenProperties
<1>2. \A d \in 1..Len(b) : b[d][1] \in Int /\ b[d][2] \in Int
  BY <1>1, SizeIsInt
<1>3. Store!Empty(b) <=> Invalid(b)
  <2>1. \A d \in 1..Len(b) : b[d][1] > b[d][2] <=> Size(b, d) <= 0
    BY <1>2 DEF Size
  <2> QED BY <1>1, <2>1 DEF Store!Empty, Invalid
<1>4. ASSUME NEW s \in Subscripts
      PROVE  s \in Cells(b) <=> Len(s) = Len(b) /\ \A d \in DOMAIN b : b[d][1] <= s[d] /\ s[d] <= b[d][2]
  <2>1. s \in Seq(Int) /\ Len(s) \in Nat /\ s \in [1..Len(s) -> Int]
    BY BoundsOK, LenProperties
  <2>2. ASSUME s \in Tuples(b), NEW d \in DOMAIN b
        PROVE  Len(s) = Len(b) /\ b[d][1] <= s[d] /\ s[d] <= b[d][2]
    <3>1. s[d] \in b[d][1]..b[d][2] /\ DOMAIN s = 1..Len(b)
      BY <1>1, <2>2 DEF Tuples
    <3>2. Len(s) = Len(b)
      BY <1>1, <2>1, <3>1, SameCount
    <3> QED BY <1>1, <1>2, <3>1, <3>2
  <2>3. ASSUME s \in Tuples(b) PROVE Len(s) = Len(b)
    <3>1. DOMAIN s = 1..Len(b)
      BY <1>1, <2>3 DEF Tuples
    <3> QED BY <1>1, <2>1, <3>1, SameCount
  <2>4. ASSUME Len(s) = Len(b), \A d \in DOMAIN b : b[d][1] <= s[d] /\ s[d] <= b[d][2]
        PROVE  s \in Tuples(b)
    <3> DEFINE U == UNION {b[d][1]..b[d][2] : d \in DOMAIN b}
    <3>1. \A d \in DOMAIN b : s[d] \in b[d][1]..b[d][2]
      <4> SUFFICES ASSUME NEW d \in DOMAIN b PROVE s[d] \in b[d][1]..b[d][2]
        OBVIOUS
      <4>1. s[d] \in Int /\ b[d][1] \in Int /\ b[d][2] \in Int /\ b[d][1] <= s[d] /\ s[d] <= b[d][2]
        BY <1>1, <1>2, <2>1, <2>4
      <4> QED BY <4>1
    <3>2. \A d \in DOMAIN b : s[d] \in U
      BY <3>1
    <3> HIDE DEF U
    <3>3. s \in [DOMAIN b -> U]
      BY <1>1, <2>1, <2>4, <3>2
    <3> QED BY <3>1, <3>3 DEF Tuples, U
  <2> QED BY <2>2, <2>3, <2>4, CellFacts
<1>5. Cells(b) \subseteq Subscripts
  BY DEF Cells
<1> QED BY <1>3, <1>4, <1>5 DEF Store!Tuples

--------------------------------------------------------------------------------
(* What a change of one array changes of what is seen.                      *)

LEMMA ViewFacts ==
    ASSUME NEW x
    PROVE  /\ View(x).bounds = x.dims /\ View(x).dynamic = x.dynamic
           /\ DOMAIN View(x).at = Cells(x.dims)
           /\ \A s \in Cells(x.dims) : View(x).at[s] = x.data[Position[x.dims][s] + 1]
  BY DEF View

LEMMA FreshView ==
    ASSUME NEW x \in FBArrays, \A i \in 1..Len(x.data) : x.data[i] = Initial
    PROVE  View(x) = Store!Array(x.dims, x.dynamic)
<1>1. x.dims \in Bounds
  BY DEF FBArrays
<1>2. Store!Tuples(x.dims) = Cells(x.dims)
  BY <1>1, StoreTuples
<1>3. \A s \in Cells(x.dims) : x.data[Position[x.dims][s] + 1] = Initial
  BY CellPlace
<1>4. [s \in Cells(x.dims) |-> x.data[Position[x.dims][s] + 1]] = [s \in Cells(x.dims) |-> Initial]
  BY <1>3
<1> QED BY <1>2, <1>4 DEF View, Store!Array

Put(x, s, v) == [x EXCEPT !.data = [x.data EXCEPT ![Position[x.dims][s] + 1] = v]]
Changed(w, s, v) == [w EXCEPT !.at = [w.at EXCEPT ![s] = v]]

LEMMA StoredView ==
    ASSUME NEW x \in FBArrays, NEW s \in Cells(x.dims), NEW v
    PROVE  View(Put(x, s, v)) = Changed(View(x), s, v)
<1> DEFINE i == Position[x.dims][s] + 1
           d == [x.data EXCEPT ![i] = v]
           y == [x EXCEPT !.data = d]
           P == Position[x.dims]
           C == Cells(x.dims)
           at0 == [t \in C |-> x.data[P[t] + 1]]
<1>1. y.dims = x.dims /\ y.dynamic = x.dynamic /\ y.data = d
  BY DEF FBArrays
<1>2. x.data \in Seq(Values) /\ DOMAIN x.data = 1..Len(x.data) /\ x.dims \in Bounds
  BY LenProperties DEF FBArrays
<1>3. ASSUME NEW t \in C PROVE d[P[t] + 1] = IF t = s THEN v ELSE x.data[P[t] + 1]
  <2>1. P[t] + 1 \in 1..Len(x.data) /\ P[t] \in Int /\ P[s] \in Int /\ i \in 1..Len(x.data)
    BY CellPlace
  <2>2. t # s => P[t] # P[s]
    BY <1>2, CellOwn
  <2> QED BY <1>2, <2>1, <2>2
<1> HIDE DEF d, i, y
<1>4. View(y) = [bounds |-> x.dims, dynamic |-> x.dynamic, at |-> [t \in C |-> d[P[t] + 1]]]
  BY <1>1 DEF View
<1>5. [t \in C |-> d[P[t] + 1]] = [at0 EXCEPT ![s] = v]
  BY <1>3
<1>6. View(x) = [bounds |-> x.dims, dynamic |-> x.dynamic, at |-> at0]
  BY DEF View
<1> HIDE DEF at0
<1>7. Changed(View(x), s, v) = [bounds |-> x.dims, dynamic |-> x.dynamic, at |-> [at0 EXCEPT ![s] = v]]
  BY <1>6 DEF Changed
<1>8. Put(x, s, v) = y
  BY DEF Put, d, i, y
<1> QED BY <1>4, <1>5, <1>7, <1>8

LEMMA ViewsFacts ==
    ASSUME NEW h, NEW sc, Len(sc) \in Nat
    PROVE  /\ Len(Views(h, sc)) = Len(sc) /\ DOMAIN Views(h, sc) = 1..Len(sc)
           /\ Views(h, sc) = [i \in 1..Len(sc) |-> Views(h, sc)[i]]
           /\ \A i \in 1..Len(sc) : /\ Views(h, sc)[i] = ViewsOf(h, sc[i])
                                    /\ DOMAIN Views(h, sc)[i] = OwnIn(sc[i])
                                    /\ \A n \in OwnIn(sc[i]) : Views(h, sc)[i][n] = Seen(h, sc[i][n])
<1>1. Views(h, sc) \in Seq({ViewsOf(h, sc[i]) : i \in 1..Len(sc)})
  BY DEF Views
<1> QED BY <1>1 DEF Views, ViewsOf

(* Everything is seen as before but one name.                               *)
LEMMA OneView ==
    ASSUME NEW h, NEW sc, NEW g, NEW tc, Len(sc) \in Nat, Len(tc) = Len(sc),
           NEW j \in 1..Len(sc), NEW m, NEW w,
           OwnIn(tc[j]) = OwnIn(sc[j]) \cup {m},
           \A i \in 1..Len(sc) : i # j => OwnIn(tc[i]) = OwnIn(sc[i]),
           \A i \in 1..Len(sc) : \A n \in OwnIn(sc[i]) :
               i # j \/ n # m => Seen(g, tc[i][n]) = Seen(h, sc[i][n]),
           Seen(g, tc[j][m]) = w
    PROVE  Views(g, tc) = [Views(h, sc) EXCEPT ![j] = Store!With(Views(h, sc)[j], m, w)]
<1> DEFINE A == Views(h, sc)
           B == Views(g, tc)
           L == Len(sc)
<1>1. /\ DOMAIN A = 1..L /\ A = [i \in 1..L |-> A[i]]
      /\ \A i \in 1..L : A[i] = ViewsOf(h, sc[i])
  BY ViewsFacts
<1>2. B = [i \in 1..L |-> ViewsOf(g, tc[i])]
  BY DEF Views
<1>3. ASSUME NEW i \in 1..L, i # j PROVE ViewsOf(g, tc[i]) = ViewsOf(h, sc[i])
  <2>1. \A n \in OwnIn(sc[i]) : Seen(g, tc[i][n]) = Seen(h, sc[i][n])
    BY <1>3
  <2>2. OwnIn(tc[i]) = OwnIn(sc[i])
    BY <1>3
  <2> QED BY <2>1, <2>2 DEF ViewsOf
<1>4. ViewsOf(g, tc[j]) = Store!With(ViewsOf(h, sc[j]), m, w)
  <2>1. \A n \in OwnIn(sc[j]) : n # m => Seen(g, tc[j][n]) = Seen(h, sc[j][n])
    OBVIOUS
  <2>2. DOMAIN ViewsOf(h, sc[j]) = OwnIn(sc[j]) /\ \A n \in OwnIn(sc[j]) : ViewsOf(h, sc[j])[n] = Seen(h, sc[j][n])
    BY DEF ViewsOf
  <2>3. ViewsOf(g, tc[j]) = [n \in OwnIn(sc[j]) \cup {m} |-> Seen(g, tc[j][n])]
    BY DEF ViewsOf
  <2>4. Store!With(ViewsOf(h, sc[j]), m, w)
          = [n \in OwnIn(sc[j]) \cup {m} |-> IF n = m THEN w ELSE ViewsOf(h, sc[j])[n]]
    BY <2>2 DEF Store!With
  <2>5. \A n \in OwnIn(sc[j]) \cup {m} :
            Seen(g, tc[j][n]) = IF n = m THEN w ELSE ViewsOf(h, sc[j])[n]
    BY <2>1, <2>2
  <2> QED BY <2>3, <2>4, <2>5
<1> HIDE DEF A, B, L
<1>5. [A EXCEPT ![j] = Store!With(A[j], m, w)]
        = [i \in 1..L |-> IF i = j THEN Store!With(A[j], m, w) ELSE A[i]]
  BY <1>1
<1>6. \A i \in 1..L : ViewsOf(g, tc[i]) = IF i = j THEN Store!With(A[j], m, w) ELSE A[i]
  BY <1>1, <1>3, <1>4 DEF L
<1>7. B = [A EXCEPT ![j] = Store!With(A[j], m, w)]
  BY <1>2, <1>5, <1>6
<1> QED BY <1>7 DEF A, B

(* One array of the heap changes: its owner's.                              *)
LEMMA OneArrayView ==
    ASSUME NEW h, NEW sc, NEW ps, Sound(h, sc, ps), NEW j \in 1..Len(sc), NEW m, Owns(sc, j, m),
           NEW g, \A z \in DOMAIN h : z # sc[j][m].array => g[z] = h[z]
    PROVE  Views(g, sc) = [Views(h, sc) EXCEPT ![j] = Store!With(Views(h, sc)[j], m, View(g[sc[j][m].array]))]
<1> DEFINE a == sc[j][m].array
<1>1. Typed(h, sc, ps) /\ Live(h, sc) /\ Sole(sc)
  BY DEF Sound
<1>2. Len(sc) \in Nat
  BY <1>1, TypedScopes
<1>3. a # NULL /\ m \in OwnIn(sc[j]) /\ Seen(g, sc[j][m]) = View(g[a])
  BY DEF Owns, OwnIn, Seen
<1>4. ASSUME NEW i \in 1..Len(sc), NEW n \in OwnIn(sc[i]), i # j \/ n # m
      PROVE  Seen(g, sc[i][n]) = Seen(h, sc[i][n])
  <2>1. CASE sc[i][n].array = NULL
    BY <2>1 DEF Seen
  <2>2. CASE sc[i][n].array # NULL
    <3>1. Owns(sc, i, n) /\ n \in DOMAIN sc[i] /\ m \in DOMAIN sc[j]
      BY <2>2 DEF Owns, OwnIn
    <3>2. sc[i][n].array # a
      BY <1>1, <1>4, <3>1 DEF Sole
    <3>3. sc[i][n].array \in DOMAIN h
      BY <1>1, <2>2, <3>1 DEF Live
    <3>4. g[sc[i][n].array] = h[sc[i][n].array]
      BY <3>2, <3>3
    <3> QED BY <2>2, <3>4 DEF Seen
  <2> QED BY <2>1, <2>2
<1>5. OwnIn(sc[j]) = OwnIn(sc[j]) \cup {m}
  BY <1>3
<1> QED BY <1>2, <1>3, <1>4, <1>5, OneView

(* An array that a name gets.                                               *)
LEMMA InsertedView ==
    ASSUME NEW h, NEW sc, NEW ps, Sound(h, sc, ps), NEW n \in Names, n \notin DOMAIN sc[Len(sc)],
           NEW a \in Addresses \ DOMAIN h, NEW x
    PROVE  Views(With(h, a, x), Entered(sc, Len(sc), n, ArraySymbol(a)))
              = [Views(h, sc) EXCEPT ![Len(sc)] = Store!With(Views(h, sc)[Len(sc)], n, View(x))]
<1> DEFINE L  == Len(sc)
           y  == ArraySymbol(a)
           g  == With(h, a, x)
           tc == Entered(sc, L, n, y)
<1>1. Typed(h, sc, ps) /\ Live(h, sc)
  BY DEF Sound
<1>2. L \in Nat /\ L \in 1..L
  BY <1>1, TypedScopes
<1>3. y \in Symbols /\ y.array = a /\ ~y.ref /\ a # NULL
  BY BoundsOK DEF ArraySymbol, Symbols
<1>4. sc \in Seq(ScopeMaps)
  BY <1>1 DEF Typed
<1> HIDE DEF y
<1>5. /\ tc \in Seq(ScopeMaps) /\ Len(tc) = L
      /\ DOMAIN tc[L] = DOMAIN sc[L] \cup {n} /\ tc[L][n] = y
      /\ \A m \in DOMAIN sc[L] : m # n => tc[L][m] = sc[L][m]
      /\ \A i \in 1..L : i # L => tc[i] = sc[i]
  BY <1>2, <1>3, <1>4, EnteredFacts
<1>6. g[a] = x /\ \A z \in DOMAIN h : g[z] = h[z]
  BY DEF With
<1> HIDE DEF tc, g
<1>7. OwnIn(tc[L]) = OwnIn(sc[L]) \cup {n}
  BY <1>3, <1>5 DEF OwnIn
<1>8. \A i \in 1..L : i # L => OwnIn(tc[i]) = OwnIn(sc[i])
  BY <1>5
<1>9. ASSUME NEW i \in 1..L, NEW m \in OwnIn(sc[i]), i # L \/ m # n
      PROVE  Seen(g, tc[i][m]) = Seen(h, sc[i][m])
  <2>1. tc[i][m] = sc[i][m] /\ m \in DOMAIN sc[i]
    BY <1>5, <1>9 DEF OwnIn
  <2>2. sc[i][m].array \in DOMAIN h \cup {NULL}
    BY <1>1, <2>1 DEF Live
  <2> QED BY <1>6, <2>1, <2>2 DEF Seen
<1>10. Seen(g, tc[L][n]) = View(x)
  BY <1>3, <1>5, <1>6 DEF Seen
<1>11. Views(g, tc) = [Views(h, sc) EXCEPT ![L] = Store!With(Views(h, sc)[L], n, View(x))]
  BY <1>2, <1>5, <1>7, <1>8, <1>9, <1>10, OneView
<1> QED BY <1>11 DEF g, tc, y

(* An array that a name loses.                                              *)
LEMMA ErasedView ==
    ASSUME NEW h, NEW sc, NEW ps, Sound(h, sc, ps), NEW i \in 1..Len(sc), NEW n, Owns(sc, i, n)
    PROVE  Views(Without(h, {sc[i][n].array}), [sc EXCEPT ![i][n].array = NULL])
              = [Views(h, sc) EXCEPT ![i] = Store!With(Views(h, sc)[i], n, Store!Gone)]
<1> DEFINE a  == sc[i][n].array
           y  == [sc[i][n] EXCEPT !.array = NULL]
           f  == [sc[i] EXCEPT ![n] = y]
           g  == Without(h, {a})
           tc == [sc EXCEPT ![i] = f]
<1>1. Typed(h, sc, ps) /\ Live(h, sc) /\ Sole(sc)
  BY DEF Sound
<1>2. Len(sc) \in Nat /\ sc[i] \in ScopeMaps /\ n \in DOMAIN sc[i] /\ sc[i][n] \in Symbols
  BY <1>1, TypedScopes DEF Owns
<1>3. y \in Symbols /\ y.array = NULL /\ ~y.ref
  BY <1>2 DEF Symbols, Owns
<1>4. f \in ScopeMaps
  <2>1. DOMAIN sc[i] \subseteq Names /\ sc[i] \in [DOMAIN sc[i] -> Symbols]
    BY <1>2, ScopeIs
  <2> HIDE DEF y
  <2>2. DOMAIN f = DOMAIN sc[i] /\ f \in [DOMAIN sc[i] -> Symbols]
    BY <1>3, <2>1
  <2> QED BY <2>1, <2>2, ScopeIs
<1>5. DOMAIN f = DOMAIN sc[i] /\ f[n] = y /\ \A m \in DOMAIN sc[i] : m # n => f[m] = sc[i][m]
  BY <1>2
<1> HIDE DEF f, y
<1>6. sc \in Seq(ScopeMaps)
  BY <1>1 DEF Typed
<1>7. Len(tc) = Len(sc) /\ \A k \in 1..Len(sc) : tc[k] = IF k = i THEN f ELSE sc[k]
  BY <1>4, <1>6, ExceptSeq
<1>8. \A z \in DOMAIN h : z # a => g[z] = h[z]
  BY DEF Without
<1> HIDE DEF tc, g
<1>9. OwnIn(tc[i]) = OwnIn(sc[i]) \cup {n}
  <2>1. tc[i] = f
    BY <1>7
  <2> QED BY <1>2, <1>3, <1>5, <2>1 DEF OwnIn, Owns
<1>10. \A k \in 1..Len(sc) : k # i => OwnIn(tc[k]) = OwnIn(sc[k])
  BY <1>7
<1>11. ASSUME NEW k \in 1..Len(sc), NEW m \in OwnIn(sc[k]), k # i \/ m # n
       PROVE  Seen(g, tc[k][m]) = Seen(h, sc[k][m])
  <2>1. tc[k][m] = sc[k][m] /\ m \in DOMAIN sc[k]
    BY <1>5, <1>7, <1>11 DEF OwnIn
  <2>2. CASE sc[k][m].array = NULL
    BY <2>1, <2>2 DEF Seen
  <2>3. CASE sc[k][m].array # NULL
    <3>1. Owns(sc, k, m)
      BY <2>3 DEF Owns, OwnIn
    <3>2. sc[k][m].array # a
      BY <1>1, <1>2, <1>11, <2>1, <3>1 DEF Sole
    <3>3. sc[k][m].array \in DOMAIN h
      BY <1>1, <2>1, <2>3 DEF Live
    <3> QED BY <1>8, <2>1, <2>3, <3>2, <3>3 DEF Seen
  <2> QED BY <2>2, <2>3
<1>12. Seen(g, tc[i][n]) = Store!Gone
  <2>1. tc[i][n] = y
    BY <1>5, <1>7
  <2> QED BY <1>3, <2>1 DEF Seen, Store!Gone
<1>13. Views(g, tc) = [Views(h, sc) EXCEPT ![i] = Store!With(Views(h, sc)[i], n, Store!Gone)]
  BY <1>2, <1>7, <1>9, <1>10, <1>11, <1>12, OneView
<1>14. tc = [sc EXCEPT ![i][n].array = NULL]
  BY DEF tc, f, y
<1> QED BY <1>13, <1>14 DEF g

--------------------------------------------------------------------------------
(* Elements.  q points to element s of the array that name n of scope j     *)
(* owns.                                                                    *)

Spot(h, sc, q, j, n, s) ==
    /\ j \in 1..Len(sc) /\ Owns(sc, j, n) /\ sc[j][n].array \in DOMAIN h
    /\ s \in Cells(h[sc[j][n].array].dims)
    /\ q = Pointer(sc[j][n].array, Position[h[sc[j][n].array].dims][s])

LEMMA SpotFacts ==
    ASSUME NEW h, NEW sc, NEW ps, Sound(h, sc, ps), NEW q, NEW j, NEW n, NEW s, Spot(h, sc, q, j, n, s)
    PROVE  /\ q \in Pointers /\ q # Nowhere /\ InBlock(h, q) /\ q.array = sc[j][n].array
           /\ q.index = Position[h[q.array].dims][s] /\ h[q.array] \in FBArrays
           /\ n \in Names /\ n \in OwnIn(sc[j]) /\ j \in 1..Len(sc) /\ s \in Subscripts
           /\ Views(h, sc)[j][n] = View(h[q.array])
           /\ s \in DOMAIN Views(h, sc)[j][n].at /\ Views(h, sc)[j][n].at[s] = Deref(h, q)
<1> DEFINE a == sc[j][n].array
           x == h[a]
           i == Position[x.dims][s]
<1>1. Typed(h, sc, ps)
  BY DEF Sound
<1>2. /\ Len(sc) \in Nat /\ j \in 1..Len(sc) /\ a \in DOMAIN h /\ a \in Addresses /\ s \in Cells(x.dims)
      /\ x \in FBArrays /\ q = Pointer(a, i) /\ n \in OwnIn(sc[j]) /\ n \in Names /\ a # NULL
  BY <1>1, TypedScopes DEF Spot, Typed, Owns, OwnIn
<1>3. q.array = a /\ q.index = i
  BY <1>2 DEF Pointer
<1>4. i + 1 \in 1..Len(x.data) /\ i \in Int
  BY <1>2, CellPlace
<1>5. q \in Pointers
  BY <1>2, <1>4 DEF Pointer, Pointers
<1>6. q # Nowhere
  BY <1>2, <1>3 DEF Nowhere, Pointer
<1>7. InBlock(h, q)
  BY <1>2, <1>3, <1>4 DEF InBlock
<1>8. Views(h, sc)[j][n] = View(x)
  <2>1. Views(h, sc)[j][n] = Seen(h, sc[j][n])
    BY <1>2, ViewsFacts, SMTT(60)
  <2> QED BY <1>2, <2>1 DEF Seen
<1>9. s \in DOMAIN View(x).at /\ View(x).at[s] = x.data[i + 1]
  BY <1>2, ViewFacts
<1>10. Deref(h, q) = x.data[i + 1]
  BY <1>3 DEF Deref
<1>11. s \in Subscripts
  BY <1>2 DEF Cells
<1> QED BY <1>2, <1>3, <1>5, <1>6, <1>7, <1>8, <1>9, <1>10, <1>11

(* An array has one owner and a cell one tuple.                             *)
LEMMA SpotSole ==
    ASSUME NEW h, NEW sc, NEW ps, Sound(h, sc, ps), NEW q, NEW j, NEW n, NEW s, Spot(h, sc, q, j, n, s)
    PROVE  /\ OwnerIn(sc, q.array) = <<j, n>> /\ SubsIn(h, q) = s
<1>1. /\ Sole(sc) /\ q.array = sc[j][n].array /\ q.index = Position[h[q.array].dims][s]
      /\ n \in Names /\ n \in OwnIn(sc[j]) /\ j \in 1..Len(sc) /\ s \in Subscripts /\ q.array # NULL
      /\ h[q.array] \in FBArrays /\ s \in Cells(h[q.array].dims)
  <2>1. /\ q.array = sc[j][n].array /\ q.index = Position[h[q.array].dims][s]
        /\ n \in Names /\ n \in OwnIn(sc[j]) /\ j \in 1..Len(sc) /\ s \in Subscripts
        /\ h[q.array] \in FBArrays
    BY SpotFacts
  <2>2. q.array # NULL /\ s \in Cells(h[q.array].dims) /\ Sole(sc)
    BY <2>1 DEF Spot, Owns, Sound
  <2> QED BY <2>1, <2>2
<1>2. OwnerIn(sc, q.array) = <<j, n>>
  <2> DEFINE Owner_(o) == o[2] \in OwnIn(sc[o[1]]) /\ sc[o[1]][o[2]].array = q.array
  <2>1. <<j, n>> \in (1..Len(sc)) \X Names /\ Owner_(<<j, n>>)
    BY <1>1
  <2>2. ASSUME NEW o \in (1..Len(sc)) \X Names, Owner_(o) PROVE o = <<j, n>>
    <3>1. o = <<o[1], o[2]>> /\ o[1] \in 1..Len(sc)
      OBVIOUS
    <3>2. Owns(sc, o[1], o[2]) /\ Owns(sc, j, n) /\ o[2] \in DOMAIN sc[o[1]] /\ n \in DOMAIN sc[j]
      BY <1>1, <2>2 DEF Owns, OwnIn
    <3>3. o[1] = j /\ o[2] = n
      BY <1>1, <2>2, <3>1, <3>2 DEF Sole
    <3> QED BY <3>1, <3>3
  <2> HIDE DEF Owner_
  <2>3. (CHOOSE o \in (1..Len(sc)) \X Names : Owner_(o)) = <<j, n>>
    BY <2>1, <2>2
  <2> QED BY <2>3 DEF OwnerIn, Owner_
<1>3. SubsIn(h, q) = s
  <2>1. h[q.array].dims \in Bounds
    BY <1>1 DEF FBArrays
  <2>2. ASSUME NEW t \in Subscripts, Position[h[q.array].dims][t] = q.index PROVE t = s
    <3>1. t \in Cells(h[q.array].dims)
      BY <1>1, <2>2 DEF Cells
    <3> QED BY <1>1, <2>1, <2>2, <3>1, CellOwn
  <2> QED BY <1>1, <2>2 DEF SubsIn
<1> QED BY <1>2, <1>3

(* An assignment to an element is seen in it alone.                         *)
LEMMA SpotStored ==
    ASSUME NEW h, NEW sc, NEW ps, Sound(h, sc, ps), NEW q, NEW j, NEW n, NEW s, Spot(h, sc, q, j, n, s),
           NEW v
    PROVE  Views(Stored(h, q, v), sc) = [Views(h, sc) EXCEPT ![j][n].at[s] = v]
<1> DEFINE a == sc[j][n].array
           x == h[a]
           i == Position[x.dims][s] + 1
           g == Stored(h, q, v)
           A == Views(h, sc)
           d == [x.data EXCEPT ![i] = v]
           w == Changed(View(x), s, v)
<1>1. /\ j \in 1..Len(sc) /\ Owns(sc, j, n) /\ a \in DOMAIN h /\ s \in Cells(x.dims)
      /\ q.array = a /\ q.index + 1 = i /\ x \in FBArrays /\ n \in OwnIn(sc[j])
      /\ A[j][n] = View(x) /\ Len(sc) \in Nat
  <2>1. /\ q.array = a /\ q.index = Position[h[q.array].dims][s] /\ h[q.array] \in FBArrays
        /\ n \in OwnIn(sc[j]) /\ A[j][n] = View(h[q.array])
    BY SpotFacts
  <2>2. j \in 1..Len(sc) /\ Owns(sc, j, n) /\ a \in DOMAIN h /\ s \in Cells(x.dims)
    BY DEF Spot
  <2>3. Typed(h, sc, ps)
    BY DEF Sound
  <2>4. Len(sc) \in Nat
    BY <2>3, TypedScopes
  <2> QED BY <2>1, <2>2, <2>4
<1>2. g = [h EXCEPT ![a] = [x EXCEPT !.data = d]]
  <2>1. g = [h EXCEPT ![q.array] = [h[q.array] EXCEPT !.data = [h[q.array].data EXCEPT ![q.index + 1] = v]]]
    BY DEF Stored
  <2> QED BY <1>1, <2>1
<1>3. \A z \in DOMAIN h : z # a => g[z] = h[z]
  BY <1>2
<1>4. g[a] = [x EXCEPT !.data = d]
  BY <1>1, <1>2
<1>5. View(g[a]) = w
  <2>1. View(Put(x, s, v)) = w
    BY <1>1, StoredView
  <2> QED BY <1>4, <2>1 DEF Put
<1> HIDE DEF g
<1>6. Views(g, sc) = [A EXCEPT ![j] = Store!With(A[j], n, w)]
  BY <1>1, <1>3, <1>5, OneArrayView
<1>7. /\ DOMAIN A = 1..Len(sc) /\ DOMAIN A[j] = OwnIn(sc[j])
      /\ A[j] = [m \in OwnIn(sc[j]) |-> Seen(h, sc[j][m])]
  BY <1>1, ViewsFacts DEF ViewsOf
<1> HIDE DEF A, w
<1>8. Store!With(A[j], n, w) = [A[j] EXCEPT ![n] = w]
  <2> DEFINE f == A[j]
  <2>1. f = [m \in DOMAIN f |-> f[m]] /\ n \in DOMAIN f
    BY <1>1, <1>7
  <2> HIDE DEF f
  <2>2. Store!With(f, n, w) = [f EXCEPT ![n] = w]
    BY <2>1 DEF Store!With
  <2> QED BY <2>2 DEF f
<1>9. w = [A[j][n] EXCEPT !.at = [A[j][n].at EXCEPT ![s] = v]]
  BY <1>1 DEF w, Changed
<1>10. [A EXCEPT ![j] = [A[j] EXCEPT ![n] = [A[j][n] EXCEPT !.at = [A[j][n].at EXCEPT ![s] = v]]]]
         = [A EXCEPT ![j][n].at[s] = v]
  OBVIOUS
<1> QED BY <1>6, <1>8, <1>9, <1>10 DEF g, A

LEMMA SpotGains ==
    ASSUME NEW st, NEW u, NEW m, Gains(st, u, m), Reaches(st),
           NEW q, NEW j, NEW n, NEW s, Spot(st.heap, st.scopes, q, j, n, s)
    PROVE  Spot(u.heap, u.scopes, q, j, n, s)
<1>1. Len(st.scopes) = Level /\ Len(u.scopes) = Level
  BY DEF Gains, Reaches
<1>2. /\ j \in 1..Level /\ Owns(st.scopes, j, n) /\ st.scopes[j][n].array \in DOMAIN st.heap
  BY <1>1 DEF Spot
<1>3. /\ Owns(u.scopes, j, n) /\ u.scopes[j][n].array = st.scopes[j][n].array
      /\ st.scopes[j][n].array \in DOMAIN u.heap
      /\ u.heap[st.scopes[j][n].array].dims = st.heap[st.scopes[j][n].array].dims
  BY <1>2 DEF Gains
<1> QED BY <1>1, <1>2, <1>3 DEF Spot

LEMMA SpotShape ==
    ASSUME NEW h, NEW g, NEW sc, SameShape(h, g), NEW q, NEW j, NEW n, NEW s, Spot(h, sc, q, j, n, s)
    PROVE  Spot(g, sc, q, j, n, s)
  BY DEF SameShape, Spot

--------------------------------------------------------------------------------
(* Names, as ArrayStore looks them up in what is seen.                      *)

HomeIn(A, n)  == IF n \in DOMAIN A[Len(A)] THEN Len(A) ELSE 1
KnownIn(A, n) == n \in DOMAIN A[HomeIn(A, n)]
UsedIn(A, n, s) ==
    IF KnownIn(A, n) THEN A
    ELSE [A EXCEPT ![Len(A)] = Store!With(A[Len(A)], n, Store!Array(ByItself(Len(s)), FALSE))]
UsedHomeIn(A, n) == IF KnownIn(A, n) THEN HomeIn(A, n) ELSE Len(A)
Sees(st) == Views(st.heap, st.scopes)

LEMMA SeenScopes ==
    ASSUME NEW st, Reaches(st)
    PROVE  /\ Len(Sees(st)) = Level /\ DOMAIN Sees(st) = 1..Level
           /\ Level \in 1..Level /\ 1 \in 1..Level /\ Len(st.scopes) = Level
           /\ \A i \in 1..Level : DOMAIN Sees(st)[i] = OwnIn(st.scopes[i])
           /\ OwnIn(st.scopes[1]) = DOMAIN st.scopes[1]
<1>1. Level \in Nat /\ Level \in 1..Level /\ 1 \in 1..Level /\ Len(st.scopes) = Level
  BY ReachesTyped
<1>2. /\ Len(Sees(st)) = Level /\ DOMAIN Sees(st) = 1..Level
      /\ \A i \in 1..Level : DOMAIN Sees(st)[i] = OwnIn(st.scopes[i])
  BY <1>1, ViewsFacts DEF Sees
<1>3. OwnIn(st.scopes[1]) = DOMAIN st.scopes[1]
  BY DEF Reaches, Sound, Shares, OwnIn
<1> QED BY <1>1, <1>2, <1>3

LEMMA SeenFound ==
    ASSUME NEW st, Reaches(st), NEW n
    PROVE  KnownIn(Sees(st), n) <=> Found(st, n)
<1> DEFINE A == Sees(st)
<1>1. /\ Len(A) = Level /\ Level \in 1..Level /\ 1 \in 1..Level /\ Len(st.scopes) = Level
      /\ \A i \in 1..Level : DOMAIN A[i] = OwnIn(st.scopes[i])
      /\ OwnIn(st.scopes[1]) = DOMAIN st.scopes[1]
  BY SeenScopes
<1> HIDE DEF A
<1>2. CASE n \in OwnIn(st.scopes[Level])
  BY <1>1, <1>2 DEF KnownIn, HomeIn, Found, Home, OwnIn, A
<1>3. CASE n \in DOMAIN st.scopes[Level] /\ n \notin OwnIn(st.scopes[Level])
  <2>1. st.scopes[Level][n].ref
    BY <1>3 DEF OwnIn
  <2>2. n \in DOMAIN st.scopes[1]
    BY <1>1, <1>3, <2>1 DEF Reaches, Sound, Shares
  <2>3. KnownIn(A, n)
    BY <1>1, <1>3, <2>2 DEF KnownIn, HomeIn
  <2> QED BY <1>3, <2>3 DEF Found, Home, A
<1>4. CASE n \notin DOMAIN st.scopes[Level]
  <2>1. n \notin OwnIn(st.scopes[Level])
    BY <1>4 DEF OwnIn
  <2> QED BY <1>1, <1>4, <2>1 DEF KnownIn, HomeIn, Found, Home, A
<1> QED BY <1>2, <1>3, <1>4

(* A name's array is seen at its owner.                                     *)
LEMMA SeenHome ==
    ASSUME NEW st, Reaches(st), NEW n, HasArray(st, n)
    PROVE  /\ HomeIn(Sees(st), n) \in 1..Level /\ Owns(st.scopes, HomeIn(Sees(st), n), n)
           /\ st.scopes[HomeIn(Sees(st), n)][n].array = Symbol(st, n).array
           /\ n \in DOMAIN Sees(st)[HomeIn(Sees(st), n)]
           /\ Sees(st)[HomeIn(Sees(st), n)][n] = View(st.heap[Symbol(st, n).array])
<1> DEFINE A == Sees(st)
           j == HomeIn(A, n)
           L == Level
<1>1. /\ Len(A) = L /\ L \in 1..L /\ 1 \in 1..L /\ Len(st.scopes) = L
      /\ \A i \in 1..L : DOMAIN A[i] = OwnIn(st.scopes[i])
      /\ OwnIn(st.scopes[1]) = DOMAIN st.scopes[1]
  BY SeenScopes
<1>2. n \in DOMAIN st.scopes[Home(st, n)] /\ st.scopes[Home(st, n)][n].array # NULL
      /\ Symbol(st, n).array = st.scopes[Home(st, n)][n].array
  BY DEF HasArray, Found, Symbol
<1> HIDE DEF A, L
<1>3. /\ j \in 1..L /\ n \in OwnIn(st.scopes[j]) /\ st.scopes[j][n].array = Symbol(st, n).array
      /\ st.scopes[j][n].array # NULL
  <2>1. CASE n \in OwnIn(st.scopes[L])
    <3>1. Home(st, n) = L /\ j = L
      BY <1>1, <2>1 DEF HomeIn, Home, OwnIn, L
    <3> QED BY <1>1, <1>2, <2>1, <3>1
  <2>2. CASE n \in DOMAIN st.scopes[L] /\ n \notin OwnIn(st.scopes[L])
    <3>1. st.scopes[L][n].ref /\ Home(st, n) = L /\ j = 1
      BY <1>1, <2>2 DEF HomeIn, Home, OwnIn, L
    <3>2. n \in DOMAIN st.scopes[1] /\ st.scopes[L][n].array = st.scopes[1][n].array
      BY <1>1, <2>2, <3>1 DEF Reaches, Sound, Shares
    <3> QED BY <1>1, <1>2, <3>1, <3>2
  <2>3. CASE n \notin DOMAIN st.scopes[L]
    <3>1. Home(st, n) = 1 /\ j = 1
      BY <1>1, <2>3 DEF HomeIn, Home, OwnIn, L
    <3> QED BY <1>1, <1>2, <3>1
  <2> QED BY <2>1, <2>2, <2>3
<1> HIDE DEF j
<1>4. Owns(st.scopes, j, n)
  BY <1>3 DEF Owns, OwnIn
<1>5. n \in DOMAIN A[j]
  BY <1>1, <1>3
<1>6. A[j][n] = View(st.heap[Symbol(st, n).array])
  <2>1. Len(st.scopes) \in Nat
    BY ReachesTyped
  <2>2. Views(st.heap, st.scopes)[j][n] = Seen(st.heap, st.scopes[j][n])
    BY <1>1, <1>3, <2>1, ViewsFacts
  <2> QED BY <1>3, <2>2 DEF Seen, A, Sees
<1> QED BY <1>3, <1>4, <1>5, <1>6 DEF A, j, L

(* An element is Nowhere exactly if ArrayStore has none.                    *)
LEMMA SeenElement ==
    ASSUME NEW st, Reaches(st), NEW n, HasArray(st, n), NEW s \in Subscripts
    PROVE  /\ Element(st, n, s) = Nowhere <=> s \notin DOMAIN Sees(st)[HomeIn(Sees(st), n)][n].at
           /\ Element(st, n, s) # Nowhere =>
                 Spot(st.heap, st.scopes, Element(st, n, s), HomeIn(Sees(st), n), n, s)
<1> DEFINE j == HomeIn(Sees(st), n)
           a == Symbol(st, n).array
           x == st.heap[a]
           i == Position[x.dims][s]
<1>1. /\ j \in 1..Level /\ Owns(st.scopes, j, n) /\ st.scopes[j][n].array = a
      /\ Sees(st)[j][n] = View(x)
  BY SeenHome
<1>2. a \in DOMAIN st.heap /\ a # NULL
  <2>1. a \in DOMAIN st.heap
    BY SymbolFacts
  <2> QED BY <1>1, <2>1 DEF Owns
<1>3. Len(st.scopes) = Level
  BY DEF Reaches
<1>4. DOMAIN View(x).at = Cells(x.dims)
  BY ViewFacts
<1>5. Element(st, n, s) = IF i = -1 THEN Nowhere ELSE Pointer(a, i)
  BY <1>2 DEF Element
<1>6. s \in Cells(x.dims) <=> i # -1
  BY DEF Cells
<1> HIDE DEF j, a, i
<1>7. Pointer(a, i) # Nowhere
  <2>1. Pointer(a, i).array = a /\ Nowhere.array = NULL
    BY DEF Pointer, Nowhere
  <2> QED BY <1>2, <2>1
<1>8. Element(st, n, s) # Nowhere => Spot(st.heap, st.scopes, Element(st, n, s), j, n, s)
  BY <1>1, <1>2, <1>3, <1>5, <1>6 DEF Spot, i
<1> QED BY <1>1, <1>4, <1>5, <1>6, <1>7, <1>8 DEF j

(* Using a name.                                                            *)
LEMMA SeenInsert ==
    ASSUME NEW st, Reaches(st), NEW n \in Names, n \notin DOMAIN st.scopes[Level], Free(st) # {},
           NEW b \in Bounds, ~Invalid(b), NEW dynamic \in BOOLEAN
    PROVE  Sees(Insert(st, n, b, dynamic))
              = [Sees(st) EXCEPT ![Level] = Store!With(Sees(st)[Level], n, Store!Array(b, dynamic))]
<1> DEFINE a == CHOOSE a \in Free(st) : TRUE
           u == Insert(st, n, b, dynamic)
           x == FBArray(b, dynamic)
<1>1. a \in Addresses \ DOMAIN st.heap
  BY DEF Free
<1>2. /\ u.heap = With(st.heap, a, x)
      /\ u.scopes = Entered(st.scopes, Level, n, ArraySymbol(a))
  BY DEF Insert, Entered
<1>3. x \in FBArrays
  BY NewTyped
<1>4. x.dims = b /\ x.dynamic = dynamic /\ \A i \in 1..Len(x.data) : x.data[i] = Initial
  <2>1. x.data = [i \in 1..Total(b) |-> Initial] /\ x.dims = b /\ x.dynamic = dynamic
    BY DEF FBArray, Zeros
  <2>2. x.data \in Seq(Values)
    BY <1>3 DEF FBArrays
  <2>3. DOMAIN x.data = 1..Len(x.data)
    BY <2>2, LenProperties
  <2>4. DOMAIN x.data = 1..Total(b)
    BY <2>1
  <2> QED BY <2>1, <2>3, <2>4
<1> HIDE DEF a, u, x
<1>5. View(x) = Store!Array(b, dynamic)
  BY <1>3, <1>4, FreshView
<1>6. Sound(st.heap, st.scopes, params) /\ Len(st.scopes) = Level
  BY DEF Reaches
<1>7. Views(With(st.heap, a, x), Entered(st.scopes, Len(st.scopes), n, ArraySymbol(a)))
        = [Views(st.heap, st.scopes) EXCEPT
              ![Len(st.scopes)] = Store!With(Views(st.heap, st.scopes)[Len(st.scopes)], n, View(x))]
  BY <1>1, <1>6, InsertedView
<1> QED BY <1>2, <1>5, <1>6, <1>7 DEF Sees, u

LEMMA SeenUsed ==
    ASSUME NEW st, Reaches(st), NEW n \in Names, NEW s \in Subscripts,
           Room(st, n), Found(st, n) => HasArray(st, n)
    PROVE  /\ Sees(Used(st, n, s)) = UsedIn(Sees(st), n, s)
           /\ HomeIn(Sees(Used(st, n, s)), n) = UsedHomeIn(Sees(st), n)
<1> DEFINE A == Sees(st)
<1>1. /\ Len(A) = Level /\ DOMAIN A = 1..Level /\ Level \in 1..Level
      /\ (KnownIn(A, n) <=> Found(st, n))
  BY SeenScopes, SeenFound
<1>2. CASE Found(st, n)
  <2>1. Used(st, n, s) = st
    BY <1>2 DEF Used
  <2> QED BY <1>1, <1>2, <2>1 DEF UsedIn, UsedHomeIn
<1>3. CASE ~Found(st, n)
  <2> DEFINE b == ByItself(Len(s))
             u == Insert(st, n, b, FALSE)
  <2>1. Used(st, n, s) = u
    BY <1>3 DEF Used
  <2>2. n \notin DOMAIN st.scopes[Level]
    BY <1>3 DEF Found, Home
  <2>3. Free(st) # {}
    BY <1>3 DEF Room, HasArray
  <2>4. b \in Bounds /\ ~Invalid(b)
    BY ByItselfValid
  <2> HIDE DEF b
  <2>5. Sees(u) = [A EXCEPT ![Level] = Store!With(A[Level], n, Store!Array(b, FALSE))]
    <3> DEFINE dynamic == FALSE
    <3>1. dynamic \in BOOLEAN
      OBVIOUS
    <3> HIDE DEF dynamic
    <3>2. Sees(Insert(st, n, b, dynamic))
            = [Sees(st) EXCEPT ![Level] = Store!With(Sees(st)[Level], n, Store!Array(b, dynamic))]
      BY <2>2, <2>3, <2>4, <3>1, SeenInsert
    <3> QED BY <3>2 DEF dynamic
  <2> HIDE DEF A, u
  <2>6. Sees(u) = UsedIn(A, n, s)
    BY <1>1, <1>3, <2>5 DEF UsedIn, b
  <2>7. Len(Sees(u)) = Level
    <3>1. Gains(st, u, n)
      BY <2>2, <2>3, <2>4, InsertReaches DEF u
    <3> QED BY <3>1, SeenScopes DEF Gains
  <2>8. n \in DOMAIN Sees(u)[Level]
    <3>1. Sees(u)[Level] = Store!With(A[Level], n, Store!Array(b, FALSE))
      BY <1>1, <2>5
    <3> QED BY <3>1 DEF Store!With
  <2>9. HomeIn(Sees(u), n) = Level
    BY <2>7, <2>8 DEF HomeIn
  <2> QED BY <1>1, <1>3, <2>1, <2>6, <2>9 DEF UsedHomeIn, A
<1> QED BY <1>2, <1>3

--------------------------------------------------------------------------------
(* Parameters.                                                              *)

LEMMA ParamSpot ==
    ASSUME NEW h, NEW sc, NEW ps, Sound(h, sc, ps), Kept(h, ps), NEW i \in 1..Len(ps), ps[i].to # Nowhere
    PROVE  \E j \in 1..i : \E n : \E s : Spot(h, sc, ps[i].to, j, n, s)
<1> DEFINE q == ps[i].to
<1>1. Typed(h, sc, ps) /\ InBlock(h, q) /\ OwnedBy(sc, i, q.array)
  BY DEF Sound, Lends
<1>2. /\ Len(ps) \in Nat /\ Len(sc) = Len(ps) + 1 /\ q \in Pointers
  BY <1>1, TypedScopes
<1>3. PICK s \in Subscripts : Position[h[q.array].dims][s] = q.index
  BY DEF Kept
<1>4. PICK j \in 1..i : \E n \in DOMAIN sc[j] : Owns(sc, j, n) /\ sc[j][n].array = q.array
  BY <1>1 DEF OwnedBy
<1>5. PICK n \in DOMAIN sc[j] : Owns(sc, j, n) /\ sc[j][n].array = q.array
  BY <1>4
<1>6. j \in 1..Len(sc)
  BY <1>2
<1>7. q.index # -1 /\ q = Pointer(q.array, q.index) /\ q.array \in DOMAIN h
  <2>1. q.index \in Int /\ q.index + 1 \in 1..Len(h[q.array].data) /\ q = [array |-> q.array, index |-> q.index]
    BY <1>1, <1>2 DEF Pointers, InBlock
  <2> QED BY <1>1, <2>1 DEF Pointer, InBlock
<1>8. s \in Cells(h[q.array].dims)
  BY <1>3, <1>7 DEF Cells
<1> HIDE DEF q
<1>9. Spot(h, sc, q, j, n, s)
  BY <1>3, <1>5, <1>6, <1>7, <1>8 DEF Spot
<1> QED BY <1>9 DEF q

LEMMA NamedSpot ==
    ASSUME NEW h, NEW sc, NEW ps, Sound(h, sc, ps), NEW p, NEW j, NEW n, NEW s, Spot(h, sc, p.to, j, n, s)
    PROVE  NamedIn(h, sc, p) = Store!Element(j, n, s)
<1>1. OwnerIn(sc, p.to.array) = <<j, n>> /\ SubsIn(h, p.to) = s
  BY SpotSole
<1>2. p.to # Nowhere
  BY SpotFacts
<1> QED BY <1>1, <1>2 DEF NamedIn, Store!Element

LEMMA NamedSame ==
    ASSUME NEW h, NEW sc, NEW ps, Sound(h, sc, ps), Kept(h, ps), NEW i \in 1..Len(ps),
           NEW g, NEW tc, NEW qs, Sound(g, tc, qs), NEW r, r.to = ps[i].to,
           ps[i].to = Nowhere => r.copy = ps[i].copy,
           \A j \in 1..i : \A n, s : Spot(h, sc, ps[i].to, j, n, s) => Spot(g, tc, ps[i].to, j, n, s)
    PROVE  NamedIn(g, tc, r) = NamedIn(h, sc, ps[i])
<1>1. CASE ps[i].to = Nowhere
  BY <1>1 DEF NamedIn
<1>2. CASE ps[i].to # Nowhere
  <2>1. PICK j \in 1..i : \E n : \E s : Spot(h, sc, ps[i].to, j, n, s)
    BY <1>2, ParamSpot
  <2>2. PICK n : \E s : Spot(h, sc, ps[i].to, j, n, s)
    BY <2>1
  <2>3. PICK s : Spot(h, sc, ps[i].to, j, n, s)
    BY <2>2
  <2>4. Spot(g, tc, r.to, j, n, s)
    BY <2>1, <2>3
  <2>5. NamedIn(h, sc, ps[i]) = Store!Element(j, n, s)
    BY <2>3, NamedSpot
  <2>6. NamedIn(g, tc, r) = Store!Element(j, n, s)
    BY <2>4, NamedSpot
  <2> QED BY <2>5, <2>6
<1> QED BY <1>1, <1>2

(* The parameters are as before if their elements are where they were.      *)
LEMMA NamesSame ==
    ASSUME NEW h, NEW sc, NEW ps, Sound(h, sc, ps), Kept(h, ps),
           NEW g, NEW tc, NEW qs, Sound(g, tc, qs), Len(qs) = Len(ps),
           \A i \in 1..Len(ps) : qs[i].to = ps[i].to /\ (ps[i].to = Nowhere => qs[i].copy = ps[i].copy),
           \A i \in 1..Len(ps) : \A j \in 1..i : \A n, s :
               Spot(h, sc, ps[i].to, j, n, s) => Spot(g, tc, ps[i].to, j, n, s)
    PROVE  NamesIn(g, tc, qs) = NamesIn(h, sc, ps)
<1>1. ASSUME NEW i \in 1..Len(ps) PROVE NamedIn(g, tc, qs[i]) = NamedIn(h, sc, ps[i])
  <2>1. qs[i].to = ps[i].to /\ (ps[i].to = Nowhere => qs[i].copy = ps[i].copy)
    OBVIOUS
  <2>2. \A j \in 1..i : \A n, s : Spot(h, sc, ps[i].to, j, n, s) => Spot(g, tc, ps[i].to, j, n, s)
    OBVIOUS
  <2> QED BY <2>1, <2>2, NamedSame
<1> QED BY <1>1 DEF NamesIn

LEMMA DerefStored ==
    ASSUME NEW h, h \in [DOMAIN h -> FBArrays], NEW q \in Pointers, NEW r \in Pointers,
           InBlock(h, q), InBlock(h, r), NEW v
    PROVE  Deref(Stored(h, q, v), r) = IF r = q THEN v ELSE Deref(h, r)
<1> DEFINE a == q.array
           d == [h[a].data EXCEPT ![q.index + 1] = v]
           x == [h[a] EXCEPT !.data = d]
           g == [h EXCEPT ![a] = x]
<1>1. Stored(h, q, v) = g
  BY DEF Stored
<1>2. /\ a \in DOMAIN h /\ h[a].data \in Seq(Values) /\ q.index + 1 \in 1..Len(h[a].data)
      /\ h[a] \in FBArrays
      /\ r.array \in DOMAIN h /\ r.index + 1 \in 1..Len(h[r.array].data)
  BY DEF InBlock, FBArrays
<1>3. x.data = d /\ g[a] = x /\ \A z \in DOMAIN h : z # a => g[z] = h[z]
  BY <1>2 DEF FBArrays
<1>4. r = q <=> r.array = q.array /\ r.index = q.index
  BY DEF Pointers
<1>5. DOMAIN h[a].data = 1..Len(h[a].data)
  BY <1>2, LenProperties
<1>6. d[q.index + 1] = v /\ \A k \in 1..Len(h[a].data) : k # q.index + 1 => d[k] = h[a].data[k]
  BY <1>2, <1>5
<1>7. Deref(g, r) = IF r = q THEN v ELSE Deref(h, r)
  <2>1. r.index \in Int /\ q.index \in Int
    BY DEF Pointers
  <2> HIDE DEF g, x, d
  <2>2. CASE r.array # a
    BY <1>2, <1>3, <1>4, <2>2 DEF Deref
  <2>3. CASE r.array = a
    <3>1. Deref(g, r) = d[r.index + 1]
      BY <1>3, <2>3 DEF Deref
    <3>2. CASE r.index = q.index
      BY <1>4, <1>6, <2>3, <3>1, <3>2
    <3>3. CASE r.index # q.index
      <4>1. r.index + 1 # q.index + 1
        BY <2>1, <3>3
      <4>2. d[r.index + 1] = h[a].data[r.index + 1] /\ r # q
        BY <1>2, <1>4, <1>6, <2>3, <3>3, <4>1
      <4> QED BY <2>3, <3>1, <4>2 DEF Deref
    <3> QED BY <3>2, <3>3
  <2> QED BY <2>2, <2>3
<1> QED BY <1>1, <1>7

LEMMA KeptSame ==
    ASSUME NEW h, NEW ps, Kept(h, ps), NEW g,
           \A i \in 1..Len(ps) : ps[i].to # Nowhere =>
               Deref(g, ps[i].to) = Deref(h, ps[i].to) /\ g[ps[i].to.array].dims = h[ps[i].to.array].dims
    PROVE  Kept(g, ps)
  BY DEF Kept

LEMMA KeptStored ==
    ASSUME NEW h, NEW sc, NEW ps, Sound(h, sc, ps), Kept(h, ps), NEW q \in Pointers, InBlock(h, q),
           \A i \in 1..Len(ps) : ps[i].to # q, NEW v \in Values
    PROVE  Kept(Stored(h, q, v), ps)
<1> DEFINE g == Stored(h, q, v)
<1>1. h \in [DOMAIN h -> FBArrays] /\ Typed(h, sc, ps)
  BY DEF Sound, Typed
<1>2. SameShape(h, g)
  BY <1>1, StoredShape
<1>3. ASSUME NEW i \in 1..Len(ps), ps[i].to # Nowhere
      PROVE  Deref(g, ps[i].to) = Deref(h, ps[i].to) /\ g[ps[i].to.array].dims = h[ps[i].to.array].dims
  <2>1. ps[i].to \in Pointers
    BY <1>1, TypedScopes
  <2>2. InBlock(h, ps[i].to)
    BY <1>3 DEF Sound, Lends
  <2>3. ps[i].to # q
    OBVIOUS
  <2>4. Deref(g, ps[i].to) = Deref(h, ps[i].to)
    BY <1>1, <2>1, <2>2, <2>3, DerefStored
  <2>5. g[ps[i].to.array].dims = h[ps[i].to.array].dims
    BY <1>2, <2>2 DEF SameShape, InBlock
  <2> QED BY <2>4, <2>5
<1> HIDE DEF g
<1>4. Kept(g, ps)
  BY <1>3, KeptSame
<1> QED BY <1>4 DEF g

(* Using a name leaves the parameters alone.                                *)
LEMMA KeptGains ==
    ASSUME KeptInv, NEW u, NEW n, Gains(State, u, n)
    PROVE  /\ Kept(u.heap, params)
           /\ NamesIn(u.heap, u.scopes, params) = NamesIn(heap, scopes, params)
<1>1. /\ Sound(heap, scopes, params) /\ Kept(heap, params) /\ Sound(u.heap, u.scopes, params)
      /\ Reaches(State) /\ State.heap = heap /\ State.scopes = scopes
  BY StateReaches DEF KeptInv, Inv, Gains, Reaches
<1>2. \A z \in DOMAIN heap : u.heap[z] = heap[z]
  BY <1>1 DEF Gains
<1>3. ASSUME NEW i \in 1..Len(params), params[i].to # Nowhere
      PROVE  /\ Deref(u.heap, params[i].to) = Deref(heap, params[i].to)
             /\ u.heap[params[i].to.array].dims = heap[params[i].to.array].dims
  <2>1. params[i].to.array \in DOMAIN heap
    BY <1>1, <1>3 DEF Sound, Lends, InBlock
  <2> QED BY <1>2, <2>1 DEF Deref
<1>4. Kept(u.heap, params)
  BY <1>1, <1>3, KeptSame
<1>5. ASSUME NEW q, NEW j, NEW m, NEW s, Spot(heap, scopes, q, j, m, s)
      PROVE  Spot(u.heap, u.scopes, q, j, m, s)
  <2>1. Spot(State.heap, State.scopes, q, j, m, s)
    BY <1>1, <1>5
  <2> QED BY <1>1, <2>1, SpotGains
<1>6. NamesIn(u.heap, u.scopes, params) = NamesIn(heap, scopes, params)
  BY <1>1, <1>5, NamesSame
<1> QED BY <1>4, <1>6

--------------------------------------------------------------------------------
(* The operators and the actions of ArrayStore, of what is seen.            *)

SeenArrays == Views(heap, scopes)
SeenParams == NamesIn(heap, scopes, params)

LEMMA StoreOps ==
    ASSUME Inv, NEW n, NEW s
    PROVE  /\ Store!Calls = Calls
           /\ Store!Home(n) = HomeIn(SeenArrays, n)
           /\ (Store!Known(n) <=> KnownIn(SeenArrays, n))
           /\ Store!Its(n) = SeenArrays[HomeIn(SeenArrays, n)][n]
           /\ Store!Used(n, s) = UsedIn(SeenArrays, n, s)
           /\ Store!UsedHome(n) = UsedHomeIn(SeenArrays, n)
           /\ (Store!Has(n, s)
                 <=> s \in DOMAIN UsedIn(SeenArrays, n, s)[UsedHomeIn(SeenArrays, n)][n].at)
           /\ Store!At(n, s) = UsedIn(SeenArrays, n, s)[UsedHomeIn(SeenArrays, n)][n].at[s]
<1>1. StoreArrays = SeenArrays /\ StoreParams = SeenParams
  BY ViewsSeen DEF AsSeen, SeenArrays, SeenParams
<1>2. Calls \in Nat
  BY TypedScopes DEF Inv, Sound, Calls
<1>3. Store!Calls = Calls
  BY <1>2 DEF Store!Calls
<1>4. Store!Home(n) = HomeIn(SeenArrays, n)
  BY <1>1 DEF Store!Home, HomeIn, StoreArrays
<1>5. Store!Known(n) <=> KnownIn(SeenArrays, n)
  BY <1>1, <1>4 DEF Store!Known, KnownIn, StoreArrays
<1>6. Store!Its(n) = SeenArrays[HomeIn(SeenArrays, n)][n]
  BY <1>1, <1>4 DEF Store!Its, StoreArrays
<1>7. Store!ByItself(Len(s)) = ByItself(Len(s))
  BY DEF Store!ByItself, ByItself
<1>8. Store!Used(n, s) = UsedIn(SeenArrays, n, s)
  BY <1>1, <1>5, <1>7 DEF Store!Used, UsedIn, StoreArrays
<1>9. Store!UsedHome(n) = UsedHomeIn(SeenArrays, n)
  BY <1>1, <1>4, <1>5 DEF Store!UsedHome, UsedHomeIn, StoreArrays
<1> QED BY <1>3, <1>4, <1>5, <1>6, <1>8, <1>9 DEF Store!Has, Store!At

LEMMA StoreSame ==
    ASSUME Inv, Inv', SeenArrays' = SeenArrays, SeenParams' = SeenParams
    PROVE  UNCHANGED <<StoreArrays, StoreParams>>
<1>1. StoreArrays = SeenArrays /\ StoreParams = SeenParams
  BY ViewsSeen DEF AsSeen, SeenArrays, SeenParams
<1>2. StoreArrays' = SeenArrays' /\ StoreParams' = SeenParams'
  BY ViewsSeenNext DEF AsSeen, SeenArrays, SeenParams
<1> QED BY <1>1, <1>2

LEMMA IsUse ==
    ASSUME Inv, Inv', NEW n, NEW s,
           SeenArrays' = UsedIn(SeenArrays, n, s), SeenParams' = SeenParams
    PROVE  Store!Use(n, s)
<1>1. StoreArrays = SeenArrays /\ StoreParams = SeenParams
  BY ViewsSeen DEF AsSeen, SeenArrays, SeenParams
<1>2. StoreArrays' = SeenArrays' /\ StoreParams' = SeenParams'
  BY ViewsSeenNext DEF AsSeen, SeenArrays, SeenParams
<1>3. StoreArrays' = Store!Used(n, s) /\ StoreParams' = StoreParams
  BY <1>1, <1>2, StoreOps
<1> QED BY <1>3 DEF Store!Use, StoreArrays, StoreParams

LEMMA IsLet ==
    ASSUME Inv, Inv', NEW n, NEW s, NEW v, NEW A, NEW j,
           A = UsedIn(SeenArrays, n, s), j = UsedHomeIn(SeenArrays, n), s \in DOMAIN A[j][n].at,
           SeenArrays' = [A EXCEPT ![j][n].at[s] = v], SeenParams' = SeenParams
    PROVE  Store!Let(n, s, v)
<1>1. StoreArrays = SeenArrays /\ StoreParams = SeenParams
  BY ViewsSeen DEF AsSeen, SeenArrays, SeenParams
<1>2. StoreArrays' = SeenArrays' /\ StoreParams' = SeenParams'
  BY ViewsSeenNext DEF AsSeen, SeenArrays, SeenParams
<1>3. A = Store!Used(n, s) /\ j = Store!UsedHome(n)
  BY StoreOps
<1>4. Store!Has(n, s)
  BY StoreOps
<1>5. StoreArrays' = [Store!Used(n, s) EXCEPT ![Store!UsedHome(n)][n].at[s] = v]
  BY <1>2, <1>3
<1>6. StoreParams' = StoreParams
  BY <1>1, <1>2
<1> QED BY <1>4, <1>5, <1>6 DEF Store!Let, StoreArrays, StoreParams

LEMMA IsSet ==
    ASSUME Inv, Inv', NEW n, NEW w, SeenParams' = SeenParams,
           SeenArrays' = [SeenArrays EXCEPT ![HomeIn(SeenArrays, n)] =
                              Store!With(SeenArrays[HomeIn(SeenArrays, n)], n, w)]
    PROVE  Store!Set(n, w) /\ UNCHANGED StoreParams
<1>1. StoreArrays = SeenArrays /\ StoreParams = SeenParams
  BY ViewsSeen DEF AsSeen, SeenArrays, SeenParams
<1>2. StoreArrays' = SeenArrays' /\ StoreParams' = SeenParams'
  BY ViewsSeenNext DEF AsSeen, SeenArrays, SeenParams
<1>3. Store!Home(n) = HomeIn(SeenArrays, n)
  BY StoreOps
<1>4. StoreArrays' = [StoreArrays EXCEPT ![Store!Home(n)] = Store!With(@, n, w)]
  BY <1>1, <1>2, <1>3
<1> QED BY <1>1, <1>2, <1>4 DEF Store!Set, StoreArrays

--------------------------------------------------------------------------------
(* The statements: each is a step of ArrayStore or shows nothing.           *)

Refines == (Store!Next \/ UNCHANGED <<StoreArrays, StoreParams>>) /\ Kept(heap, params)'

LEMMA SeesState == Inv => /\ Reaches(State) /\ Sees(State) = SeenArrays
                          /\ Sound(heap, scopes, params) /\ State.heap = heap /\ State.scopes = scopes
  BY StateReaches DEF Sees, SeenArrays, Inv

(* The module level has no parameters.                                      *)
LEMMA NoParams ==
    ASSUME Inv, Calls = 0, UNCHANGED params
    PROVE  SeenParams' = SeenParams /\ Kept(heap, params)' /\ Level = 1
<1>0. Typed(heap, scopes, params) /\ Len(params) = 0
  BY DEF Inv, Sound, Calls
<1>1. Len(params) = 0 /\ Len(scopes) = 1
  <2>1. Len(scopes) = Len(params) + 1
    BY <1>0, TypedScopes
  <2> QED BY <1>0, <2>1
<1>2. 1..Len(params) = {} /\ 1..Len(params') = {}
  BY <1>1
<1> QED BY <1>1, <1>2 DEF SeenParams, NamesIn, Kept, Level

LEMMA DeclaredSeen ==
    ASSUME Inv, Inv', NEW n \in Names, NEW b \in AllBounds, NEW dynamic \in BOOLEAN,
           Free(State) # {}, Calls = 0, UNCHANGED params, Goes(Declared(n, b, dynamic))
    PROVE  \/ SeenArrays' = SeenArrays
           \/ /\ ~Found(State, n) /\ ~Invalid(b)
              /\ Store!Set(n, Store!Array(b, dynamic)) /\ UNCHANGED StoreParams
<1> DEFINE u == Declared(n, b, dynamic)
<1>1. SeenArrays' = Sees(u)
  BY DEF Goes, Sees, SeenArrays
<1>2. SeenParams' = SeenParams /\ Level = 1
  BY NoParams
<1>3. Reaches(State) /\ Sees(State) = SeenArrays /\ State.scopes = scopes
  BY SeesState
<1>4. CASE n \in DOMAIN scopes[Level] \/ Invalid(b)
  BY <1>1, <1>3, <1>4 DEF Declared
<1>5. CASE ~(n \in DOMAIN scopes[Level] \/ Invalid(b))
  <2>1. u = Insert(State, n, b, dynamic) /\ b \in Bounds /\ n \notin DOMAIN State.scopes[Level]
    BY <1>3, <1>5 DEF Declared, Bounds
  <2> HIDE DEF u
  <2>2. Sees(u) = [SeenArrays EXCEPT ![Level] = Store!With(SeenArrays[Level], n, Store!Array(b, dynamic))]
    BY <1>3, <1>5, <2>1, SeenInsert
  <2>3. HomeIn(SeenArrays, n) = Level
    <3>1. Len(SeenArrays) = Level
      BY <1>3, SeenScopes
    <3> QED BY <1>2, <3>1 DEF HomeIn
  <2>4. Store!Set(n, Store!Array(b, dynamic)) /\ UNCHANGED StoreParams
    <3> DEFINE w == Store!Array(b, dynamic)
    <3> HIDE DEF w
    <3>1. SeenArrays' = [SeenArrays EXCEPT ![HomeIn(SeenArrays, n)] =
                             Store!With(SeenArrays[HomeIn(SeenArrays, n)], n, w)]
      BY <1>1, <2>2, <2>3 DEF w
    <3>2. Store!Set(n, w) /\ UNCHANGED StoreParams
      BY <1>2, <3>1, IsSet
    <3> QED BY <3>2 DEF w
  <2>5. ~Found(State, n)
    BY <1>2, <2>1 DEF Found, Home
  <2> QED BY <1>5, <2>4, <2>5
<1> QED BY <1>4, <1>5

LEMMA DimRefines ==
    ASSUME KeptInv, Inv', NEW n \in Names, NEW b \in AllBounds, Free(State) # {}, ExecDim(n, b)
    PROVE  Refines
<1>1. Inv /\ Calls = 0 /\ UNCHANGED params /\ Goes(Declared(n, b, FALSE))
  BY DEF KeptInv, ExecDim
<1>2. SeenParams' = SeenParams /\ Kept(heap, params)'
  BY <1>1, NoParams
<1>3. SeenArrays' = SeenArrays \/ /\ ~Found(State, n) /\ ~Invalid(b)
                                  /\ Store!Set(n, Store!Array(b, FALSE)) /\ UNCHANGED StoreParams
  <2> DEFINE dynamic == FALSE
  <2>1. dynamic \in BOOLEAN /\ Goes(Declared(n, b, dynamic))
    BY <1>1
  <2> HIDE DEF dynamic
  <2>2. SeenArrays' = SeenArrays \/ /\ ~Found(State, n) /\ ~Invalid(b)
                                    /\ Store!Set(n, Store!Array(b, dynamic)) /\ UNCHANGED StoreParams
    BY <1>1, <2>1, DeclaredSeen
  <2> QED BY <2>2 DEF dynamic
<1>4. CASE SeenArrays' = SeenArrays
  BY <1>1, <1>2, <1>4, StoreSame DEF Refines
<1>5. CASE ~Found(State, n) /\ ~Invalid(b) /\ Store!Set(n, Store!Array(b, FALSE)) /\ UNCHANGED StoreParams
  <2>1. ~Store!Known(n) /\ Store!Calls = 0
    <3>1. ~KnownIn(SeenArrays, n)
      BY <1>1, <1>5, SeesState, SeenFound
    <3> QED BY <1>1, <3>1, StoreOps
  <2>2. ~Store!Empty(b)
    BY <1>5, StoreTuples DEF Bounds
  <2>3. Store!Dim(n, b)
    BY <1>5, <2>1, <2>2 DEF Store!Dim, StoreParams
  <2>4. Store!Next
    BY <2>3 DEF Store!Next
  <2> QED BY <1>2, <2>4 DEF Refines
<1> QED BY <1>3, <1>4, <1>5

LEMMA RedimFresh ==
    ASSUME NEW x \in FBArrays, NEW b \in Bounds
    PROVE  View(Redimmed(x, b)) = Store!Array(b, x.dynamic)
<1> DEFINE y == Redimmed(x, b)
           d == IF Invalid(b) THEN <<>> ELSE Zeros(Total(b))
<1>1. y \in FBArrays /\ y.dynamic = x.dynamic
  BY RedimTyped
<1>2. y.dims = b /\ y.data = d
  BY DEF FBArrays, Redimmed
<1>3. d \in Seq(Values) /\ DOMAIN d = 1..Len(d)
  <2>1. y.data \in Seq(Values)
    BY <1>1 DEF FBArrays
  <2> HIDE DEF y, d
  <2> QED BY <1>2, <2>1, LenProperties
<1>4. \A i \in 1..Len(d) : d[i] = Initial
  <2>1. CASE Invalid(b)
    BY <2>1, EmptySeq
  <2>2. CASE ~Invalid(b)
    <3>1. d = [i \in 1..Total(b) |-> Initial]
      BY <2>2 DEF Zeros
    <3> HIDE DEF d
    <3>2. \A i \in DOMAIN d : d[i] = Initial
      BY <3>1
    <3> QED BY <1>3, <3>2
  <2> QED BY <2>1, <2>2
<1> HIDE DEF y, d
<1>5. View(y) = Store!Array(y.dims, y.dynamic)
  BY <1>1, <1>2, <1>4, FreshView
<1> QED BY <1>1, <1>2, <1>5 DEF y

LEMMA RedimRefines ==
    ASSUME KeptInv, Inv', WellUsed, NEW n \in Names, NEW b \in AllBounds, Free(State) # {}, ExecRedim(n, b)
    PROVE  Refines
<1>1. Inv /\ Calls = 0 /\ UNCHANGED params /\ Goes(Redeclared(n, b)) /\ b \in Bounds
  BY DEF KeptInv, ExecRedim, Bounds
<1>2. SeenParams' = SeenParams /\ Kept(heap, params)'
  BY <1>1, NoParams
<1>3. /\ Reaches(State) /\ Sees(State) = SeenArrays /\ Sound(heap, scopes, params)
      /\ State.heap = heap /\ State.scopes = scopes
  BY <1>1, SeesState
<1>4. Found(State, n) => HasArray(State, n)
  BY DEF ExecRedim, UsesWell
<1>5. CASE SeenArrays' = SeenArrays
  BY <1>1, <1>2, <1>5, StoreSame DEF Refines
<1>6. CASE ~HasArray(State, n)
  <2>1. SeenArrays' = SeenArrays \/ /\ ~Found(State, n) /\ ~Invalid(b)
                                    /\ Store!Set(n, Store!Array(b, TRUE)) /\ UNCHANGED StoreParams
    <3> DEFINE dynamic == TRUE
    <3>1. dynamic \in BOOLEAN /\ Goes(Declared(n, b, dynamic))
      BY <1>1, <1>6 DEF Redeclared
    <3> HIDE DEF dynamic
    <3>2. SeenArrays' = SeenArrays \/ /\ ~Found(State, n) /\ ~Invalid(b)
                                      /\ Store!Set(n, Store!Array(b, dynamic)) /\ UNCHANGED StoreParams
      BY <1>1, <3>1, DeclaredSeen
    <3> QED BY <3>2 DEF dynamic
  <2>2. CASE ~Found(State, n) /\ ~Invalid(b) /\ Store!Set(n, Store!Array(b, TRUE)) /\ UNCHANGED StoreParams
    <3>1. ~Store!Known(n) /\ Store!Calls = 0
      <4>1. ~KnownIn(SeenArrays, n)
        BY <1>3, <2>2, SeenFound
      <4> QED BY <1>1, <4>1, StoreOps
    <3>2. ~Store!Empty(b)
      BY <1>1, <2>2, StoreTuples
    <3>3. Store!Redim(n, b)
      BY <2>2, <3>1, <3>2 DEF Store!Redim, StoreParams
    <3>4. Store!Next
      BY <3>3 DEF Store!Next
    <3> QED BY <1>2, <3>4 DEF Refines
  <2> QED BY <1>5, <2>1, <2>2
<1>7. CASE HasArray(State, n) /\ Static(n)
  <2>1. Goes(State)
    BY <1>1, <1>7 DEF Redeclared
  <2>2. SeenArrays' = SeenArrays
    BY <1>3, <2>1 DEF Goes, SeenArrays
  <2> QED BY <1>5, <2>2
<1>8. CASE HasArray(State, n) /\ ~Static(n)
  <2> DEFINE a == ArrayOf(n)
             g == [heap EXCEPT ![a] = Redimmed(heap[a], b)]
             A == SeenArrays
             j == HomeIn(A, n)
  <2>1. heap' = g /\ scopes' = scopes /\ heap[a].dynamic = TRUE
    <3>1. heap[a].dynamic
      BY <1>8 DEF Static
    <3>2. a \in DOMAIN heap
      BY <1>3, <1>8, SymbolFacts DEF ArrayOf
    <3>3. heap[a] \in FBArrays
      BY <1>3, <3>2 DEF Sound, Typed
    <3>4. heap[a].dynamic = TRUE
      BY <3>1, <3>3 DEF FBArrays
    <3> QED BY <1>1, <1>8, <3>4 DEF Redeclared, Goes
  <2>2. /\ j \in 1..Level /\ Owns(scopes, j, n) /\ scopes[j][n].array = a
        /\ n \in DOMAIN A[j] /\ A[j][n] = View(heap[a])
    BY <1>3, <1>8, SeenHome DEF ArrayOf
  <2>3. a \in DOMAIN heap /\ heap[a] \in FBArrays
    <3>1. a \in DOMAIN heap
      BY <1>3, <1>8, SymbolFacts DEF ArrayOf
    <3> QED BY <1>3, <3>1 DEF Sound, Typed
  <2>4. g[a] = Redimmed(heap[a], b) /\ \A z \in DOMAIN heap : z # a => g[z] = heap[z]
    BY <2>3
  <2> HIDE DEF g, a
  <2>5. Views(g, scopes) = [Views(heap, scopes) EXCEPT ![j] = Store!With(Views(heap, scopes)[j], n, View(g[a]))]
    <3>1. j \in 1..Len(scopes)
      BY <2>2 DEF Level
    <3> HIDE DEF j
    <3>2. \A z \in DOMAIN heap : z # scopes[j][n].array => g[z] = heap[z]
      BY <2>2, <2>4
    <3>3. Views(g, scopes) = [Views(heap, scopes) EXCEPT ![j] =
              Store!With(Views(heap, scopes)[j], n, View(g[scopes[j][n].array]))]
      BY <1>3, <2>2, <3>1, <3>2, OneArrayView
    <3> QED BY <2>2, <3>3
  <2>6. View(g[a]) = Store!Array(b, TRUE)
    BY <1>1, <2>1, <2>3, <2>4, RedimFresh
  <2>7. SeenArrays' = [A EXCEPT ![j] = Store!With(A[j], n, Store!Array(b, TRUE))]
    BY <2>1, <2>5, <2>6 DEF SeenArrays
  <2>8. Store!Set(n, Store!Array(b, TRUE)) /\ UNCHANGED StoreParams
    <3> DEFINE w == Store!Array(b, TRUE)
    <3> HIDE DEF w
    <3>1. SeenArrays' = [SeenArrays EXCEPT ![HomeIn(SeenArrays, n)] =
                             Store!With(SeenArrays[HomeIn(SeenArrays, n)], n, w)]
      BY <2>7 DEF w
    <3>2. Store!Set(n, w) /\ UNCHANGED StoreParams
      BY <1>1, <1>2, <3>1, IsSet
    <3> QED BY <3>2 DEF w
  <2>9. Store!Its(n).dynamic /\ Store!Calls = 0
    <3>1. Store!Its(n) = View(heap[a])
      BY <1>1, <2>2, StoreOps
    <3>2. View(heap[a]).dynamic = TRUE
      BY <2>1, ViewFacts
    <3> QED BY <1>1, <3>1, <3>2, StoreOps
  <2>10. Store!Redim(n, b)
    <3>1. IF Store!Known(n) THEN Store!Its(n).dynamic ELSE ~Store!Empty(b)
      <4>1. Store!Known(n)
        BY <1>1, <2>2, StoreOps DEF KnownIn
      <4> QED BY <2>9, <4>1
    <3> QED BY <2>8, <2>9, <3>1 DEF Store!Redim, StoreParams
  <2>11. Store!Next
    BY <2>10 DEF Store!Next
  <2> QED BY <1>2, <2>11 DEF Refines
<1> QED BY <1>6, <1>7, <1>8

(* What no parameter leads to may change or go: here the array at a.        *)
Apart(h, sc, ps, g, tc, a) ==
    /\ \A k \in 1..Len(ps) : ps[k].to # Nowhere => ps[k].to.array # a
    /\ \A z \in DOMAIN h : z # a => z \in DOMAIN g /\ g[z] = h[z]
    /\ \A j \in 1..Len(sc) : \A m : Owns(sc, j, m) /\ sc[j][m].array # a =>
           Owns(tc, j, m) /\ tc[j][m].array = sc[j][m].array

LEMMA KeptApart ==
    ASSUME NEW h, NEW sc, NEW ps, Sound(h, sc, ps), Kept(h, ps),
           NEW g, NEW tc, Sound(g, tc, ps), Len(tc) = Len(sc), NEW a, Apart(h, sc, ps, g, tc, a)
    PROVE  Kept(g, ps) /\ NamesIn(g, tc, ps) = NamesIn(h, sc, ps)
<1>0. /\ \A k \in 1..Len(ps) : ps[k].to # Nowhere => ps[k].to.array # a
      /\ \A z \in DOMAIN h : z # a => z \in DOMAIN g /\ g[z] = h[z]
      /\ \A j \in 1..Len(sc) : \A m : Owns(sc, j, m) /\ sc[j][m].array # a =>
             Owns(tc, j, m) /\ tc[j][m].array = sc[j][m].array
  BY DEF Apart
<1>1. ASSUME NEW i \in 1..Len(ps), ps[i].to # Nowhere
      PROVE  g[ps[i].to.array] = h[ps[i].to.array]
  <2>1. ps[i].to.array \in DOMAIN h
    BY <1>1 DEF Sound, Lends, InBlock
  <2> QED BY <1>0, <1>1, <2>1
<1>2. \A i \in 1..Len(ps) : ps[i].to # Nowhere =>
          Deref(g, ps[i].to) = Deref(h, ps[i].to) /\ g[ps[i].to.array].dims = h[ps[i].to.array].dims
  BY <1>1 DEF Deref
<1>3. Kept(g, ps)
  BY <1>2, KeptSame
<1>4. ASSUME NEW i \in 1..Len(ps), NEW j \in 1..i, NEW n, NEW s, Spot(h, sc, ps[i].to, j, n, s)
      PROVE  Spot(g, tc, ps[i].to, j, n, s)
  <2> DEFINE q == ps[i].to
  <2> HIDE DEF q
  <2>0. Spot(h, sc, q, j, n, s)
    BY <1>4 DEF q
  <2>1. /\ j \in 1..Len(sc) /\ Owns(sc, j, n) /\ sc[j][n].array \in DOMAIN h
        /\ ps[i].to.array = sc[j][n].array /\ ps[i].to # Nowhere
    <3>1. q # Nowhere /\ q.array = sc[j][n].array
      BY <2>0, SpotFacts
    <3> QED BY <2>0, <3>1 DEF Spot, q
  <2>2. sc[j][n].array # a
    BY <1>0, <2>1
  <2>3. /\ Owns(tc, j, n) /\ tc[j][n].array = sc[j][n].array
        /\ sc[j][n].array \in DOMAIN g /\ g[sc[j][n].array] = h[sc[j][n].array]
    BY <1>0, <2>1, <2>2
  <2> QED BY <1>4, <2>1, <2>3 DEF Spot
<1>5. NamesIn(g, tc, ps) = NamesIn(h, sc, ps)
  BY <1>4, NamesSame
<1> QED BY <1>3, <1>5

LEMMA WipedFresh ==
    ASSUME NEW x \in FBArrays
    PROVE  View([x EXCEPT !.data = Zeros(Len(x.data))]) = Store!Array(x.dims, x.dynamic)
<1> DEFINE d == Zeros(Len(x.data))
           y == [x EXCEPT !.data = d]
<1>1. x.data \in Seq(Values) /\ Len(x.data) \in Nat
  BY LenProperties DEF FBArrays
<1>2. d \in Seq(Values) /\ Len(d) = Len(x.data)
  BY <1>1, ZerosTyped
<1>3. \A i \in 1..Len(d) : d[i] = Initial
  BY <1>2 DEF Zeros
<1> HIDE DEF d
<1>4. y \in FBArrays /\ y.data = d /\ y.dims = x.dims /\ y.dynamic = x.dynamic
  BY <1>2, FilledTyped
<1> HIDE DEF y
<1>5. View(y) = Store!Array(y.dims, y.dynamic)
  BY <1>3, <1>4, FreshView
<1> QED BY <1>4, <1>5 DEF y, d

LEMMA EraseRefines ==
    ASSUME KeptInv, Inv', WellUsed, NEW n \in Names, ExecErase(n)
    PROVE  Refines
<1> DEFINE a == ArrayOf(n)
           A == SeenArrays
           j == HomeIn(A, n)
<1>1. Inv /\ Kept(heap, params) /\ UNCHANGED params /\ Sound(heap', scopes', params)
  <2>1. UNCHANGED params
    BY DEF ExecErase
  <2> QED BY <2>1 DEF KeptInv, Inv
<1>2. /\ Reaches(State) /\ Sees(State) = SeenArrays /\ Sound(heap, scopes, params)
      /\ State.heap = heap /\ State.scopes = scopes
  BY <1>1, SeesState
<1>3. CASE ~HasArray(State, n)
  <2>1. heap' = heap /\ scopes' = scopes
    BY <1>2, <1>3 DEF ExecErase, Goes
  <2>2. SeenArrays' = SeenArrays /\ SeenParams' = SeenParams /\ Kept(heap, params)'
    BY <1>1, <2>1 DEF SeenArrays, SeenParams
  <2> QED BY <1>1, <2>2, StoreSame DEF Refines
<1>4. ASSUME HasArray(State, n)
      PROVE  /\ j \in 1..Level /\ Owns(scopes, j, n) /\ scopes[j][n].array = a
             /\ n \in DOMAIN A[j] /\ A[j][n] = View(heap[a])
             /\ a \in DOMAIN heap /\ heap[a] \in FBArrays /\ a # NULL
             /\ Level = Len(scopes)
             /\ \A k \in 1..Len(params) : params[k].to # Nowhere => params[k].to.array # a
             /\ Store!Known(n) /\ Store!Its(n) = View(heap[a])
  <2>1. /\ j \in 1..Level /\ Owns(scopes, j, n) /\ scopes[j][n].array = a
        /\ n \in DOMAIN A[j] /\ A[j][n] = View(heap[a])
    BY <1>2, <1>4, SeenHome DEF ArrayOf
  <2>2. a \in DOMAIN heap
    BY <1>2, <1>4, SymbolFacts DEF ArrayOf
  <2>3. heap[a] \in FBArrays
    BY <1>2, <2>2 DEF Sound, Typed
  <2>4. a # NULL
    BY <2>1 DEF Owns
  <2>5. ~Touched(n)
    BY <1>4 DEF ExecErase, ErasesWell
  <2>6. \A k \in 1..Len(params) : params[k].to.array # a
    BY <2>4, <2>5 DEF Touched, Calls
  <2>7. Store!Known(n) /\ Store!Its(n) = View(heap[a])
    BY <1>1, <2>1, StoreOps DEF KnownIn
  <2> QED BY <2>1, <2>2, <2>3, <2>4, <2>6, <2>7 DEF Level
<1>5. CASE HasArray(State, n) /\ heap[a].dynamic
  <2> DEFINE i  == Home(State, n)
             tc == [scopes EXCEPT ![i][n].array = NULL]
  <2>1. heap' = Without(heap, {a}) /\ scopes' = tc
    BY <1>5 DEF ExecErase, Goes, Erased
  <2>2. ~Aliased(n)
    BY <1>5 DEF ExecErase, ErasesWell
  <2>3. i \in 1..Level /\ n \in DOMAIN scopes[i] /\ scopes[i][n].array = a
    BY <1>2, <1>5, SymbolFacts DEF ArrayOf
  <2>4. Owns(scopes, i, n)
    <3>1. ASSUME scopes[i][n].ref PROVE FALSE
      <4>1. i # 1
        BY <1>2, <2>3, <3>1 DEF Sound, Shares
      <4>2. i \in 2..Level
        <5>1. Level \in Nat
          BY <1>2, ReachesTyped
        <5> QED BY <2>3, <4>1, <5>1
      <4> HIDE DEF i
      <4> QED BY <2>2, <2>3, <3>1, <4>2 DEF Aliased
    <3> QED BY <1>4, <1>5, <2>3, <3>1 DEF Owns
  <2> HIDE DEF i
  <2>5. i = j
    <3>1. Sole(scopes)
      BY <1>2 DEF Sound
    <3> HIDE DEF j, A, a
    <3>2. j \in 1..Len(scopes) /\ Owns(scopes, j, n) /\ scopes[j][n].array = a /\ i \in 1..Len(scopes)
      BY <1>4, <1>5, <2>3
    <3>3. n \in DOMAIN scopes[j]
      BY <3>2 DEF Owns
    <3> QED BY <2>3, <2>4, <3>1, <3>2, <3>3 DEF Sole
  <2>6. SeenArrays' = [SeenArrays EXCEPT ![j] = Store!With(SeenArrays[j], n, Store!Gone)]
    <3>1. i \in 1..Len(scopes)
      BY <2>3 DEF Level
    <3>2. Views(Without(heap, {scopes[i][n].array}), tc)
            = [Views(heap, scopes) EXCEPT ![i] = Store!With(Views(heap, scopes)[i], n, Store!Gone)]
      BY <1>2, <2>4, <3>1, ErasedView
    <3> HIDE DEF tc
    <3> QED BY <2>1, <2>3, <2>5, <3>2 DEF SeenArrays
  <2>7. Store!Set(n, Store!Gone) /\ Kept(heap, params)' /\ UNCHANGED StoreParams
    <3>1. Kept(heap', params) /\ NamesIn(heap', scopes', params) = NamesIn(heap, scopes, params)
      <4> DEFINE f == [scopes[i] EXCEPT ![n] = [scopes[i][n] EXCEPT !.array = NULL]]
      <4>1. scopes' = [scopes EXCEPT ![i] = f]
        BY <2>1
      <4>2. scopes \in Seq(ScopeMaps) /\ Len(scopes) \in Nat
        BY <1>2, LenProperties DEF Sound, Typed
      <4>3. Len(scopes') = Len(scopes) /\ DOMAIN scopes = 1..Len(scopes)
        <5>1. Len(scopes') = Len(params) + 1 /\ Len(scopes) = Len(params) + 1
          BY <1>1, <1>2, TypedScopes DEF Sound
        <5> QED BY <4>2, <5>1, LenProperties
      <4>4. \A m \in DOMAIN scopes[i] : m # n => f[m] = scopes[i][m]
        OBVIOUS
      <4>5. DOMAIN f = DOMAIN scopes[i]
        OBVIOUS
      <4> HIDE DEF f
      <4>6. ASSUME NEW k \in 1..Len(scopes), NEW m, Owns(scopes, k, m), scopes[k][m].array # a
            PROVE  Owns(scopes', k, m) /\ scopes'[k][m].array = scopes[k][m].array
        <5>1. m \in DOMAIN scopes'[k] /\ scopes'[k][m] = scopes[k][m]
          <6>1. CASE k = i
            <7>1. m # n /\ scopes'[k] = f /\ m \in DOMAIN scopes[i]
              BY <2>3, <4>1, <4>3, <4>6, <6>1 DEF Owns
            <7> QED BY <4>4, <4>5, <6>1, <7>1
          <6>2. CASE k # i
            BY <4>1, <4>3, <4>6, <6>2 DEF Owns
          <6> QED BY <6>1, <6>2
        <5> QED BY <4>6, <5>1 DEF Owns
      <4>7. \A z \in DOMAIN heap : z # a => z \in DOMAIN heap' /\ heap'[z] = heap[z]
        BY <2>1 DEF Without
      <4>8. \A k \in 1..Len(params) : params[k].to # Nowhere => params[k].to.array # a
        BY <1>4, <1>5
      <4> HIDE DEF a
      <4>9. Apart(heap, scopes, params, heap', scopes', a)
        BY <4>6, <4>7, <4>8 DEF Apart
      <4> QED BY <1>1, <1>2, <4>3, <4>9, KeptApart
    <3>2. SeenParams' = SeenParams /\ Kept(heap, params)'
      BY <1>1, <3>1 DEF SeenParams
    <3> DEFINE w == Store!Gone
    <3> HIDE DEF w
    <3>3. SeenArrays' = [SeenArrays EXCEPT ![HomeIn(SeenArrays, n)] =
                             Store!With(SeenArrays[HomeIn(SeenArrays, n)], n, w)]
      BY <2>6 DEF w
    <3>4. Store!Set(n, w) /\ UNCHANGED StoreParams
      BY <1>1, <3>2, <3>3, IsSet
    <3> QED BY <3>2, <3>4 DEF w
  <2>8. Store!Its(n).dynamic
    BY <1>4, <1>5, ViewFacts
  <2>9. Store!Erase(n)
    BY <1>4, <1>5, <2>7, <2>8 DEF Store!Erase, StoreParams
  <2>10. Store!Next
    BY <2>9 DEF Store!Next
  <2> QED BY <2>7, <2>10 DEF Refines
<1>6. CASE HasArray(State, n) /\ ~heap[a].dynamic
  <2> DEFINE y == [heap[a] EXCEPT !.data = Zeros(Len(heap[a].data))]
             g == [heap EXCEPT ![a] = y]
  <2>1. heap' = g /\ scopes' = scopes
    BY <1>6 DEF ExecErase, Goes, Erased
  <2>2. heap[a].dynamic = FALSE
    <3>1. heap[a] \in FBArrays
      BY <1>4, <1>6
    <3> QED BY <1>6, <3>1 DEF FBArrays
  <2>3. View(y) = Store!Array(heap[a].dims, FALSE)
    <3>1. heap[a] \in FBArrays
      BY <1>4, <1>6
    <3>2. View(y) = Store!Array(heap[a].dims, heap[a].dynamic)
      BY <3>1, WipedFresh
    <3> QED BY <2>2, <3>2
  <2>4. g[a] = y /\ DOMAIN g = DOMAIN heap /\ \A z \in DOMAIN heap : z # a => g[z] = heap[z]
    BY <1>4, <1>6
  <2> HIDE DEF y, g
  <2>5. SeenArrays' = [A EXCEPT ![j] = Store!With(A[j], n, View(y))]
    <3>1. j \in 1..Len(scopes) /\ Owns(scopes, j, n) /\ scopes[j][n].array = a
      BY <1>4, <1>6
    <3> HIDE DEF j, a
    <3>2. \A z \in DOMAIN heap : z # scopes[j][n].array => g[z] = heap[z]
      BY <2>4, <3>1
    <3>3. Views(g, scopes) = [Views(heap, scopes) EXCEPT ![j] =
              Store!With(Views(heap, scopes)[j], n, View(g[scopes[j][n].array]))]
      BY <1>2, <3>1, <3>2, OneArrayView
    <3> QED BY <2>1, <2>4, <3>1, <3>3 DEF SeenArrays
  <2>6. Kept(heap', params) /\ NamesIn(heap', scopes', params) = NamesIn(heap, scopes, params)
    <3>1. \A k \in 1..Len(params) : params[k].to # Nowhere => params[k].to.array # a
      BY <1>4, <1>6
    <3> HIDE DEF a
    <3>2. \A z \in DOMAIN heap : z # a => z \in DOMAIN heap' /\ heap'[z] = heap[z]
      BY <2>1, <2>4
    <3>3. \A k \in 1..Len(scopes) : \A m : Owns(scopes, k, m) /\ scopes[k][m].array # a =>
              Owns(scopes', k, m) /\ scopes'[k][m].array = scopes[k][m].array
      BY <2>1
    <3>4. Apart(heap, scopes, params, heap', scopes', a)
      BY <3>1, <3>2, <3>3 DEF Apart
    <3> QED BY <1>1, <1>2, <2>1, <3>4, KeptApart
  <2>7. Store!Set(n, Store!Array(heap[a].dims, FALSE)) /\ Kept(heap, params)' /\ UNCHANGED StoreParams
    <3>1. SeenParams' = SeenParams /\ Kept(heap, params)'
      BY <1>1, <2>6 DEF SeenParams
    <3> DEFINE w == View(y)
    <3> HIDE DEF w
    <3>2. SeenArrays' = [SeenArrays EXCEPT ![HomeIn(SeenArrays, n)] =
                             Store!With(SeenArrays[HomeIn(SeenArrays, n)], n, w)]
      BY <2>5 DEF w
    <3>3. Store!Set(n, w) /\ UNCHANGED StoreParams
      BY <1>1, <3>1, <3>2, IsSet
    <3>4. w = Store!Array(heap[a].dims, FALSE)
      BY <2>3 DEF w
    <3> QED BY <3>1, <3>3, <3>4
  <2>8. ~Store!Its(n).dynamic /\ Store!Its(n).bounds = heap[a].dims
    BY <1>4, <1>6, ViewFacts
  <2>9. Store!Erase(n)
    BY <1>4, <1>6, <2>7, <2>8 DEF Store!Erase, StoreParams
  <2>10. Store!Next
    BY <2>9 DEF Store!Next
  <2> QED BY <2>7, <2>10 DEF Refines
<1> QED BY <1>3, <1>5, <1>6

LEMMA UsedSeen ==
    ASSUME KeptInv, WellUsed, NEW n \in Names, NEW s \in Subscripts, NEW q, UsesWell(n, q), Room(State, n)
    PROVE  /\ Gains(State, Used(State, n, s), n) /\ Reaches(Used(State, n, s))
           /\ HasArray(Used(State, n, s), n)
           /\ Sees(Used(State, n, s)) = UsedIn(SeenArrays, n, s)
           /\ HomeIn(Sees(Used(State, n, s)), n) = UsedHomeIn(SeenArrays, n)
           /\ Kept(Used(State, n, s).heap, params)
           /\ NamesIn(Used(State, n, s).heap, Used(State, n, s).scopes, params) = SeenParams
<1> DEFINE u == Used(State, n, s)
<1>1. Inv
  BY DEF KeptInv
<1>2. Gains(State, u, n)
  BY <1>1, LvalueReaches
<1>3. Reaches(State) /\ Sees(State) = SeenArrays
  BY <1>1, SeesState
<1>4. Found(State, n) => HasArray(State, n)
  BY DEF UsesWell
<1>5. Sees(u) = UsedIn(SeenArrays, n, s) /\ HomeIn(Sees(u), n) = UsedHomeIn(SeenArrays, n)
  BY <1>3, <1>4, SeenUsed
<1> HIDE DEF u
<1>6. Kept(u.heap, params) /\ NamesIn(u.heap, u.scopes, params) = SeenParams
  BY <1>2, KeptGains DEF SeenParams
<1>7. Reaches(u) /\ HasArray(u, n)
  BY <1>2 DEF Gains
<1> QED BY <1>2, <1>5, <1>6, <1>7 DEF u

LEMMA UseRefines ==
    ASSUME KeptInv, Inv', WellUsed, NEW n \in Names, NEW s \in Subscripts, NEW q,
           UsesWell(n, q), Room(State, n), Goes(Used(State, n, s)), UNCHANGED params
    PROVE  Refines
<1> DEFINE u == Used(State, n, s)
<1>1. heap' = u.heap /\ scopes' = u.scopes /\ Inv
  BY DEF Goes, KeptInv
<1>2. /\ Sees(u) = UsedIn(SeenArrays, n, s) /\ Kept(u.heap, params)
      /\ NamesIn(u.heap, u.scopes, params) = SeenParams
  BY UsedSeen
<1> HIDE DEF u
<1>3. SeenArrays' = UsedIn(SeenArrays, n, s) /\ SeenParams' = SeenParams /\ Kept(heap, params)'
  BY <1>1, <1>2 DEF SeenArrays, SeenParams, Sees
<1>4. Store!Use(n, s)
  BY <1>1, <1>3, IsUse
<1>5. Store!Next
  BY <1>4 DEF Store!Next
<1> QED BY <1>3, <1>5 DEF Refines

LEMMA NamesStored ==
    ASSUME NEW h, NEW sc, NEW ps, Sound(h, sc, ps), Kept(h, ps), NEW q \in Pointers, InBlock(h, q),
           NEW v \in Values
    PROVE  NamesIn(Stored(h, q, v), sc, ps) = NamesIn(h, sc, ps)
<1> DEFINE g == Stored(h, q, v)
<1>1. h \in [DOMAIN h -> FBArrays] /\ SameShape(h, g)
  <2>1. h \in [DOMAIN h -> FBArrays]
    BY DEF Sound, Typed
  <2> QED BY <2>1, StoredShape
<1>2. Sound(g, sc, ps)
  BY StoreSound
<1> HIDE DEF g
<1>3. ASSUME NEW r, NEW j, NEW n, NEW s, Spot(h, sc, r, j, n, s) PROVE Spot(g, sc, r, j, n, s)
  BY <1>1, <1>3, SpotShape
<1>4. NamesIn(g, sc, ps) = NamesIn(h, sc, ps)
  BY <1>2, <1>3, NamesSame
<1> QED BY <1>4 DEF g

LEMMA LetRefines ==
    ASSUME KeptInv, Inv', WellUsed, NEW n \in Names, NEW s \in Subscripts, NEW v \in Values,
           ExecLet(n, s, v)
    PROVE  Refines
<1> DEFINE u == Used(State, n, s)
           q == Lvalue(n, s)
           A == UsedIn(SeenArrays, n, s)
           j == UsedHomeIn(SeenArrays, n)
<1>1. Inv /\ UsesWell(n, q) /\ Room(State, n) /\ UNCHANGED params
  BY DEF ExecLet, KeptInv
<1>2. CASE q = Nowhere
  <2>1. Goes(u)
    BY <1>2 DEF ExecLet
  <2> HIDE DEF q
  <2> QED BY <1>1, <2>1, UseRefines
<1>3. CASE q # Nowhere
  <2>1. heap' = Stored(u.heap, q, v) /\ scopes' = u.scopes
    BY <1>3 DEF ExecLet
  <2>2. q = Element(u, n, s)
    BY DEF Lvalue
  <2>3. \A i \in 1..Len(params) : params[i].to # q
    BY <1>1, <1>3 DEF UsesWell, Calls
  <2> HIDE DEF q
  <2>4. /\ Reaches(u) /\ HasArray(u, n) /\ Sees(u) = A /\ HomeIn(A, n) = j /\ Kept(u.heap, params)
        /\ NamesIn(u.heap, u.scopes, params) = SeenParams
    BY <1>1, UsedSeen
  <2> HIDE DEF u, A, j
  <2>5. Spot(u.heap, u.scopes, q, j, n, s)
    BY <1>3, <2>2, <2>4, SeenElement
  <2>6. Sound(u.heap, u.scopes, params)
    BY <2>4 DEF Reaches
  <2>7. /\ q \in Pointers /\ InBlock(u.heap, q) /\ s \in DOMAIN Views(u.heap, u.scopes)[j][n].at
    BY <2>5, <2>6, SpotFacts
  <2>8. s \in DOMAIN A[j][n].at
    BY <2>4, <2>7 DEF Sees
  <2>9. SeenArrays' = [A EXCEPT ![j][n].at[s] = v]
    <3>1. Views(Stored(u.heap, q, v), u.scopes) = [Views(u.heap, u.scopes) EXCEPT ![j][n].at[s] = v]
      BY <2>5, <2>6, SpotStored
    <3> QED BY <2>1, <2>4, <3>1 DEF SeenArrays, Sees
  <2>10. SeenParams' = SeenParams
    <3>1. NamesIn(Stored(u.heap, q, v), u.scopes, params) = NamesIn(u.heap, u.scopes, params)
      BY <2>4, <2>6, <2>7, NamesStored
    <3> QED BY <1>1, <2>1, <2>4, <3>1 DEF SeenParams
  <2>11. Kept(heap, params)'
    <3>1. Kept(Stored(u.heap, q, v), params)
      BY <2>3, <2>4, <2>6, <2>7, KeptStored
    <3> QED BY <1>1, <2>1, <3>1
  <2>12. Store!Let(n, s, v)
    BY <1>1, <2>8, <2>9, <2>10, IsLet DEF A, j
  <2>13. Store!Next
    BY <2>12 DEF Store!Next
  <2> QED BY <2>11, <2>13 DEF Refines
<1> QED BY <1>2, <1>3

LEMMA PrintRefines ==
    ASSUME KeptInv, Inv', WellUsed, NEW n \in Names, NEW s \in Subscripts, ExecPrint(n, s)
    PROVE  Refines
<1>1. UsesWell(n, Nowhere) /\ Room(State, n) /\ UNCHANGED params
  BY DEF ExecPrint
<1>2. Read(n, s) = Used(State, n, s) /\ ~Lost(n)
  BY <1>1, ReadIsUsed
<1>3. Goes(Used(State, n, s))
  BY <1>2 DEF ExecPrint
<1> QED BY <1>1, <1>3, UseRefines

LEMMA SharedRefines ==
    ASSUME KeptInv, Inv', WellUsed, NEW n \in Names, ExecShared(n)
    PROVE  Refines
<1> DEFINE y  == [scopes[1][n] EXCEPT !.ref = TRUE]
           tc == Entered(scopes, Len(scopes), n, y)
<1>1. Inv /\ Kept(heap, params) /\ Sound(heap, scopes, params) /\ UNCHANGED <<heap, params>>
  BY DEF KeptInv, Inv, ExecShared
<1>2. n \in DOMAIN scopes[1] /\ n \notin DOMAIN scopes[Level] /\ Len(scopes) = Level
  BY DEF ExecShared, SharesWell, Level
<1>3. scopes' = tc
  BY <1>2 DEF ExecShared, Entered
<1>4. Sound(heap, tc, params)
  <2>1. Sound(heap', scopes', params')
    BY DEF Inv
  <2> HIDE DEF tc
  <2> QED BY <1>1, <1>3, <2>1
<1>5. /\ Len(scopes) \in Nat /\ Level \in 1..Level /\ 1 \in 1..Level /\ scopes \in Seq(ScopeMaps)
      /\ scopes[1][n] \in Symbols
  <2>1. Typed(heap, scopes, params)
    BY <1>1 DEF Sound
  <2>2. Len(scopes) \in Nat /\ scopes \in Seq(ScopeMaps) /\ Level \in 1..Level /\ 1 \in 1..Level
    BY <1>1, <2>1, StateReaches, ReachesTyped DEF Typed, Level
  <2> QED BY <1>2, <2>1, <2>2, TypedScopes
<1>6. y \in Symbols /\ y.ref
  BY <1>5 DEF Symbols
<1> HIDE DEF y
<1>7. /\ Len(tc) = Len(scopes)
      /\ DOMAIN tc[Level] = DOMAIN scopes[Level] \cup {n} /\ tc[Level][n] = y
      /\ \A m \in DOMAIN scopes[Level] : m # n => tc[Level][m] = scopes[Level][m]
      /\ \A i \in 1..Len(scopes) : i # Level => tc[i] = scopes[i]
  BY <1>2, <1>5, <1>6, EnteredFacts
<1> HIDE DEF tc
<1>8. ASSUME NEW i \in 1..Len(scopes)
      PROVE  OwnIn(tc[i]) = OwnIn(scopes[i]) /\ \A m \in OwnIn(scopes[i]) : tc[i][m] = scopes[i][m]
  <2>1. CASE i = Level
    BY <1>2, <1>6, <1>7, <2>1 DEF OwnIn
  <2>2. CASE i # Level
    BY <1>7, <2>2
  <2> QED BY <2>1, <2>2
<1>9. ASSUME NEW i \in 1..Len(scopes) PROVE ViewsOf(heap, tc[i]) = ViewsOf(heap, scopes[i])
  BY <1>8 DEF ViewsOf
<1>10. SeenArrays' = SeenArrays
  BY <1>1, <1>3, <1>7, <1>9 DEF SeenArrays, Views
<1>11. ASSUME NEW q, NEW j, NEW m, NEW s, Spot(heap, scopes, q, j, m, s)
       PROVE  Spot(heap, tc, q, j, m, s)
  <2>1. j \in 1..Len(scopes) /\ m \in OwnIn(scopes[j])
    BY <1>11 DEF Spot, Owns, OwnIn
  <2>2. tc[j][m] = scopes[j][m] /\ m \in OwnIn(tc[j])
    BY <1>8, <2>1
  <2> QED BY <1>7, <1>11, <2>1, <2>2 DEF Spot, Owns, OwnIn
<1>12. NamesIn(heap, tc, params) = NamesIn(heap, scopes, params)
  BY <1>1, <1>4, <1>11, NamesSame
<1>13. SeenParams' = SeenParams /\ Kept(heap, params)'
  BY <1>1, <1>3, <1>12 DEF SeenParams
<1> QED BY <1>1, <1>10, <1>13, StoreSame DEF Refines

(* The parameter at hand gets a value, and its cell with it.                *)
LEMMA CopiedParams ==
    ASSUME NEW ps \in Seq(Parameters), NEW c \in 1..Len(ps), NEW v \in Values
    PROVE  /\ Len([ps EXCEPT ![c].copy = v]) = Len(ps)
           /\ \A i \in 1..Len(ps) : /\ [ps EXCEPT ![c].copy = v][i].to = ps[i].to
                                    /\ [ps EXCEPT ![c].copy = v][i].copy = IF i = c THEN v ELSE ps[i].copy
<1> DEFINE x  == [ps[c] EXCEPT !.copy = v]
           qs == [ps EXCEPT ![c] = x]
<1>1. ps[c] \in Parameters
  BY ElementOfSeq
<1>2. x \in Parameters /\ x.to = ps[c].to /\ x.copy = v
  BY <1>1 DEF Parameters
<1> HIDE DEF x
<1>3. Len(qs) = Len(ps) /\ \A k \in 1..Len(ps) : qs[k] = IF k = c THEN x ELSE ps[k]
  BY <1>2, ExceptSeq
<1>4. qs = [ps EXCEPT ![c].copy = v]
  BY DEF x
<1> HIDE DEF qs
<1>5. \A i \in 1..Len(ps) : qs[i].to = ps[i].to /\ qs[i].copy = IF i = c THEN v ELSE ps[i].copy
  BY <1>2, <1>3
<1> QED BY <1>3, <1>4, <1>5

LEMMA LetParamRefines ==
    ASSUME KeptInv, Inv', NEW v \in Values, ExecLetParam(v)
    PROVE  Refines
<1> DEFINE c == Calls
           q == params[c].to
           qs == [params EXCEPT ![c].copy = v]
           g  == IF q = Nowhere THEN heap ELSE Stored(heap, q, v)
<1>1. Inv /\ Kept(heap, params) /\ Sound(heap, scopes, params) /\ Calls > 0
  BY DEF KeptInv, Inv, ExecLetParam
<1>2. heap' = g /\ scopes' = scopes /\ params' = qs
  BY DEF ExecLetParam
<1>3. c \in 1..Len(params) /\ params \in Seq(Parameters)
  BY <1>1, LastCall DEF Sound, Typed
<1>4. /\ Len(qs) = Len(params)
      /\ \A i \in 1..Len(params) : qs[i].to = params[i].to /\ qs[i].copy = IF i = c THEN v ELSE params[i].copy
  <2> HIDE DEF c
  <2> QED BY <1>3, CopiedParams
<1>5. Sound(g, scopes, qs)
  <2>1. Sound(heap', scopes', params')
    BY DEF Inv
  <2> HIDE DEF g, qs
  <2> QED BY <1>2, <2>1
<1>6. StoreArrays = SeenArrays /\ StoreParams = SeenParams
  BY <1>1, ViewsSeen DEF AsSeen, SeenArrays, SeenParams
<1>7. StoreArrays' = SeenArrays' /\ StoreParams' = SeenParams'
  BY ViewsSeenNext DEF AsSeen, SeenArrays, SeenParams
<1>8. Store!Calls = Calls
  BY <1>1, StoreOps
<1>9. Store!Param = NamedIn(heap, scopes, params[c])
  <2>1. Store!Param = StoreParams[Calls]
    BY <1>8 DEF Store!Param, StoreParams
  <2> QED BY <1>3, <1>6, <2>1 DEF SeenParams, NamesIn
<1>10. CASE q = Nowhere
  <2>1. Store!Param.k # "element"
    BY <1>9, <1>10 DEF NamedIn
  <2>2. StoreArrays' = StoreArrays
    BY <1>2, <1>6, <1>7, <1>10 DEF SeenArrays
  <2>3. Kept(heap, params)'
    <3>1. Kept(heap, qs)
      BY <1>1, <1>3, <1>4, <1>10 DEF Kept
    <3> HIDE DEF qs
    <3> QED BY <1>2, <1>10, <3>1
  <2>4. SeenParams' = [SeenParams EXCEPT ![c] = Store!Value(v)]
    <3> DEFINE P == NamesIn(heap, scopes, params)
    <3> HIDE DEF qs
    <3>1. SeenParams' = [i \in 1..Len(params) |-> NamedIn(heap, scopes, qs[i])]
      BY <1>2, <1>4, <1>10 DEF SeenParams, NamesIn
    <3>2. \A i \in 1..Len(params) : NamedIn(heap, scopes, qs[i])
             = IF i = c THEN Store!Value(v) ELSE NamedIn(heap, scopes, params[i])
      <4> SUFFICES ASSUME NEW i \in 1..Len(params)
                   PROVE  NamedIn(heap, scopes, qs[i])
                            = IF i = c THEN Store!Value(v) ELSE NamedIn(heap, scopes, params[i])
        OBVIOUS
      <4>1. CASE i = c
        BY <1>4, <1>10, <4>1 DEF NamedIn, Store!Value
      <4>2. CASE i # c
        BY <1>4, <4>2 DEF NamedIn
      <4> QED BY <4>1, <4>2
    <3>3. P = [i \in 1..Len(params) |-> NamedIn(heap, scopes, params[i])]
      BY DEF NamesIn
    <3> HIDE DEF P, c
    <3>4. [P EXCEPT ![c] = Store!Value(v)]
            = [i \in 1..Len(params) |-> IF i = c THEN Store!Value(v) ELSE NamedIn(heap, scopes, params[i])]
      BY <1>3, <3>3
    <3>5. SeenParams' = [P EXCEPT ![c] = Store!Value(v)]
      BY <3>1, <3>2, <3>4
    <3> QED BY <3>5 DEF SeenParams, P
  <2>5. StoreParams' = [StoreParams EXCEPT ![Store!Calls] = Store!Value(v)]
    BY <1>6, <1>7, <1>8, <2>4
  <2>6. Store!LetParam(v)
    BY <1>1, <1>8, <2>1, <2>2, <2>5 DEF Store!LetParam, StoreParams, StoreArrays
  <2>7. Store!Next
    BY <2>6 DEF Store!Next
  <2> QED BY <2>3, <2>7 DEF Refines
<1>11. CASE q # Nowhere
  <2>0. g = Stored(heap, q, v)
    BY <1>11
  <2>1. PICK j \in 1..c : \E n : \E s : Spot(heap, scopes, q, j, n, s)
    BY <1>1, <1>3, <1>11, ParamSpot
  <2>2. PICK n : \E s : Spot(heap, scopes, q, j, n, s)
    BY <2>1
  <2>3. PICK s : Spot(heap, scopes, q, j, n, s)
    BY <2>2
  <2>4. Store!Param = Store!Element(j, n, s)
    BY <1>1, <1>9, <2>3, NamedSpot
  <2>5. q \in Pointers /\ InBlock(heap, q)
    <3> HIDE DEF q
    <3> QED BY <1>1, <2>3, SpotFacts
  <2>6. SeenArrays' = [SeenArrays EXCEPT ![j][n].at[s] = v]
    <3> HIDE DEF q, g
    <3>1. Views(Stored(heap, q, v), scopes) = [Views(heap, scopes) EXCEPT ![j][n].at[s] = v]
      BY <1>1, <2>3, SpotStored
    <3> QED BY <1>2, <2>0, <3>1 DEF SeenArrays
  <2>7. SeenParams' = SeenParams
    <3>1. Stored(heap, q, v) = g
      BY <1>11
    <3> HIDE DEF q, g
    <3>2. SameShape(heap, g)
      <4>1. heap \in [DOMAIN heap -> FBArrays]
        BY <1>1 DEF Sound, Typed
      <4>2. SameShape(heap, Stored(heap, q, v))
        BY <2>5, <4>1, StoredShape
      <4> QED BY <3>1, <4>2
    <3>3. ASSUME NEW r, NEW k, NEW m, NEW t, Spot(heap, scopes, r, k, m, t) PROVE Spot(g, scopes, r, k, m, t)
      BY <3>2, <3>3, SpotShape
    <3> HIDE DEF qs
    <3>4. \A i \in 1..Len(params) : /\ qs[i].to = params[i].to
                                    /\ params[i].to = Nowhere => qs[i].copy = params[i].copy
      BY <1>4, <1>11 DEF q
    <3>5. NamesIn(g, scopes, qs) = NamesIn(heap, scopes, params)
      BY <1>1, <1>4, <1>5, <3>3, <3>4, NamesSame
    <3> QED BY <1>2, <3>5 DEF SeenParams
  <2>8. Kept(heap, params)'
    <3> HIDE DEF qs, g
    <3>1. ASSUME NEW i \in 1..Len(qs), qs[i].to # Nowhere
          PROVE  /\ Deref(g, qs[i].to) = qs[i].copy
                 /\ \A k \in 1..Len(qs) : k # i => qs[k].to # qs[i].to
                 /\ \E t \in Subscripts : Position[g[qs[i].to.array].dims][t] = qs[i].to.index
      <4> DEFINE r == params[i].to
      <4>1. i \in 1..Len(params) /\ qs[i].to = r /\ r # Nowhere
        BY <1>4, <3>1
      <4>2. heap \in [DOMAIN heap -> FBArrays] /\ r \in Pointers /\ InBlock(heap, r)
        <5>1. Typed(heap, scopes, params) /\ Lends(heap, scopes, params)
          BY <1>1 DEF Sound
        <5> QED BY <4>1, <5>1, TypedScopes DEF Typed, Lends
      <4>3. /\ Deref(heap, r) = params[i].copy
            /\ \A k \in 1..Len(params) : k # i => params[k].to # r
            /\ \E t \in Subscripts : Position[heap[r.array].dims][t] = r.index
        BY <1>1, <4>1 DEF Kept
      <4> HIDE DEF r
      <4>4. Deref(g, r) = IF r = q THEN v ELSE Deref(heap, r)
        <5> HIDE DEF q
        <5> QED BY <2>0, <2>5, <4>2, DerefStored
      <4>5. r = q <=> i = c
        <5>1. i # c => r # q
          BY <1>3, <4>3
        <5> QED BY <5>1 DEF r
      <4>6. qs[i].copy = IF i = c THEN v ELSE params[i].copy
        BY <1>4, <4>1
      <4>7. Deref(g, r) = qs[i].copy
        BY <4>3, <4>4, <4>5, <4>6
      <4>8. \A k \in 1..Len(qs) : k # i => qs[k].to # r
        BY <1>4, <4>3
      <4>9. g[r.array].dims = heap[r.array].dims
        <5> HIDE DEF q
        <5>1. SameShape(heap, g)
          BY <2>0, <2>5, <4>2, StoredShape
        <5> QED BY <4>2, <5>1 DEF SameShape, InBlock
      <4> QED BY <4>1, <4>3, <4>7, <4>8, <4>9
    <3>2. Kept(g, qs)
      BY <3>1 DEF Kept
    <3> QED BY <1>2, <3>2
  <2>9. Store!Param.k = "element" /\ Store!Param.home = j /\ Store!Param.name = n /\ Store!Param.subs = s
    BY <2>4 DEF Store!Element
  <2>10. StoreArrays' = [StoreArrays EXCEPT ![Store!Param.home][Store!Param.name].at[Store!Param.subs] = v]
    BY <1>6, <1>7, <2>6, <2>9
  <2>11. StoreParams' = StoreParams
    BY <1>6, <1>7, <2>7
  <2>12. Store!LetParam(v)
    BY <1>1, <1>8, <2>9, <2>10, <2>11 DEF Store!LetParam, StoreParams, StoreArrays
  <2>13. Store!Next
    BY <2>12 DEF Store!Next
  <2> QED BY <2>8, <2>13 DEF Refines
<1> QED BY <1>10, <1>11

(* A call: one scope more, without symbols, and one parameter.              *)
LEMMA AppendIs ==
    ASSUME NEW n \in Nat, NEW A, A = [i \in 1..n |-> A[i]],
           NEW B, B = [i \in 1..(n + 1) |-> B[i]], \A i \in 1..n : B[i] = A[i]
    PROVE  B = Append(A, B[n + 1])
<1> DEFINE w == B[n + 1]
           S == {A[i] : i \in 1..n} \cup {w}
           C == Append(A, w)
<1>1. A \in Seq(S) /\ Len(A) = n
  <2>1. \A i \in 1..n : A[i] \in S
    OBVIOUS
  <2> HIDE DEF S
  <2>2. A \in [1..n -> S]
    BY <2>1
  <2> QED BY <2>2, SeqDef, LenProperties
<1>2. w \in S
  OBVIOUS
<1> HIDE DEF S, w
<1>3. C \in Seq(S) /\ Len(C) = n + 1 /\ (\A i \in 1..n : C[i] = A[i]) /\ C[n + 1] = w
  BY <1>1, <1>2, AppendProperties
<1> HIDE DEF C
<1>4. C = [i \in 1..(n + 1) |-> C[i]]
  BY <1>3, LenProperties
<1>5. \A i \in 1..(n + 1) : C[i] = B[i]
  <2> SUFFICES ASSUME NEW i \in 1..(n + 1) PROVE C[i] = B[i]
    OBVIOUS
  <2>1. CASE i = n + 1
    BY <1>3, <2>1 DEF w
  <2>2. CASE i # n + 1
    <3>1. i \in 1..n
      BY <2>2
    <3> QED BY <1>3, <3>1
  <2> QED BY <2>1, <2>2
<1>6. C = B
  BY <1>4, <1>5
<1> QED BY <1>6 DEF C, w

LEMMA PushedFacts ==
    ASSUME NEW S, NEW sc \in Seq(S), NEW y \in S
    PROVE  /\ Len(Append(sc, y)) = Len(sc) + 1 /\ Len(sc) \in Nat
           /\ \A i \in 1..Len(sc) : Append(sc, y)[i] = sc[i]
           /\ Append(sc, y)[Len(sc) + 1] = y
  BY AppendProperties, LenProperties

LEMMA PushedView ==
    ASSUME NEW h, NEW sc \in Seq(ScopeMaps)
    PROVE  Views(h, Append(sc, NoSymbols)) = Append(Views(h, sc), [x \in {} |-> Store!Gone])
<1> DEFINE tc == Append(sc, NoSymbols)
           A  == Views(h, sc)
           B  == Views(h, tc)
           L  == Len(sc)
<1>1. /\ Len(tc) = L + 1 /\ L \in Nat
      /\ \A i \in 1..L : tc[i] = sc[i]
      /\ tc[L + 1] = NoSymbols
  BY NoSymbolsScope, PushedFacts
<1> HIDE DEF tc, L
<1>2. A = [i \in 1..L |-> A[i]] /\ \A i \in 1..L : A[i] = ViewsOf(h, sc[i])
  BY <1>1, ViewsFacts DEF L
<1>3. B = [i \in 1..(L + 1) |-> B[i]] /\ \A i \in 1..(L + 1) : B[i] = ViewsOf(h, tc[i])
  <2>1. Len(tc) \in Nat
    BY <1>1
  <2> QED BY <1>1, <2>1, ViewsFacts
<1>4. \A i \in 1..L : B[i] = A[i]
  BY <1>1, <1>2, <1>3
<1>5. B[L + 1] = [x \in {} |-> Store!Gone]
  <2>1. B[L + 1] = ViewsOf(h, NoSymbols)
    BY <1>1, <1>3
  <2>2. OwnIn(NoSymbols) = {}
    BY NoSymbolsScope DEF OwnIn
  <2> QED BY <2>1, <2>2 DEF ViewsOf
<1> HIDE DEF A, B
<1>6. B = Append(A, B[L + 1])
  BY <1>1, <1>2, <1>3, <1>4, AppendIs
<1> QED BY <1>5, <1>6 DEF A, B, tc

LEMMA PushedSpot ==
    ASSUME NEW h, NEW sc \in Seq(ScopeMaps), NEW q, NEW j, NEW n, NEW s, Spot(h, sc, q, j, n, s)
    PROVE  Spot(h, Append(sc, NoSymbols), q, j, n, s)
<1> DEFINE tc == Append(sc, NoSymbols)
<1>1. /\ Len(tc) = Len(sc) + 1 /\ Len(sc) \in Nat
      /\ \A i \in 1..Len(sc) : tc[i] = sc[i]
  BY NoSymbolsScope, PushedFacts
<1> HIDE DEF tc
<1>2. j \in 1..Len(sc) /\ j \in 1..Len(tc)
  BY <1>1 DEF Spot
<1>3. tc[j] = sc[j]
  BY <1>1, <1>2
<1>4. Spot(h, tc, q, j, n, s)
  BY <1>2, <1>3 DEF Spot, Owns
<1> QED BY <1>4 DEF tc

LEMMA PushedNames ==
    ASSUME NEW h, NEW sc, NEW ps, Sound(h, sc, ps), Kept(h, ps), NEW p \in Parameters,
           Sound(h, Append(sc, NoSymbols), Append(ps, p))
    PROVE  NamesIn(h, Append(sc, NoSymbols), Append(ps, p))
              = Append(NamesIn(h, sc, ps), NamedIn(h, Append(sc, NoSymbols), p))
<1> DEFINE tc == Append(sc, NoSymbols)
           qs == Append(ps, p)
           N  == Len(ps)
           A  == NamesIn(h, sc, ps)
           B  == NamesIn(h, tc, qs)
<1>0. sc \in Seq(ScopeMaps) /\ ps \in Seq(Parameters)
  BY DEF Sound, Typed
<1>1. Len(qs) = N + 1 /\ N \in Nat /\ (\A i \in 1..N : qs[i] = ps[i]) /\ qs[N + 1] = p
  BY <1>0, PushedFacts
<1> HIDE DEF qs, N
<1>2. ASSUME NEW i \in 1..N PROVE NamedIn(h, tc, ps[i]) = NamedIn(h, sc, ps[i])
  <2>1. \A j \in 1..i : \A n, s : Spot(h, sc, ps[i].to, j, n, s) => Spot(h, tc, ps[i].to, j, n, s)
    BY <1>0, PushedSpot
  <2> HIDE DEF tc
  <2>2. Sound(h, tc, qs) /\ i \in 1..Len(ps)
    BY <1>2 DEF tc, qs, N
  <2> QED BY <2>1, <2>2, NamedSame
<1> HIDE DEF tc
<1>3. A = [i \in 1..N |-> A[i]] /\ \A i \in 1..N : A[i] = NamedIn(h, sc, ps[i])
  BY DEF NamesIn, N
<1>4. B = [i \in 1..(N + 1) |-> B[i]] /\ \A i \in 1..(N + 1) : B[i] = NamedIn(h, tc, qs[i])
  BY <1>1 DEF NamesIn
<1>5. \A i \in 1..N : B[i] = A[i]
  BY <1>1, <1>2, <1>3, <1>4
<1>6. B[N + 1] = NamedIn(h, tc, p)
  BY <1>1, <1>4
<1> HIDE DEF A, B
<1>7. B = Append(A, B[N + 1])
  <2>1. A = [i \in 1..N |-> A[i]] /\ B = [i \in 1..(N + 1) |-> B[i]] /\ N \in Nat
    BY <1>1, <1>3, <1>4
  <2> QED BY ONLY <1>5, <2>1, AppendIs, SMTT(30)
<1> QED BY <1>6, <1>7 DEF A, B, tc, qs

LEMMA PushedKept ==
    ASSUME NEW h, NEW ps \in Seq(Parameters), Kept(h, ps), NEW p \in Parameters,
           p.to # Nowhere =>
               /\ Deref(h, p.to) = p.copy
               /\ \A i \in 1..Len(ps) : ps[i].to # p.to
               /\ \E s \in Subscripts : Position[h[p.to.array].dims][s] = p.to.index
    PROVE  Kept(h, Append(ps, p))
<1> DEFINE qs == Append(ps, p)
           N  == Len(ps)
<1>1. Len(qs) = N + 1 /\ N \in Nat /\ (\A i \in 1..N : qs[i] = ps[i]) /\ qs[N + 1] = p
  BY PushedFacts
<1> HIDE DEF qs, N
<1>2. ASSUME NEW i \in 1..(N + 1), qs[i].to # Nowhere
      PROVE  /\ Deref(h, qs[i].to) = qs[i].copy
             /\ \A j \in 1..(N + 1) : j # i => qs[j].to # qs[i].to
             /\ \E s \in Subscripts : Position[h[qs[i].to.array].dims][s] = qs[i].to.index
  <2>1. CASE i = N + 1
    <3>1. \A j \in 1..(N + 1) : j # i => j \in 1..N
      BY <1>1, <2>1
    <3> QED BY <1>1, <1>2, <2>1, <3>1 DEF N
  <2>2. CASE i # N + 1
    <3>1. i \in 1..N /\ qs[i] = ps[i]
      BY <1>1, <2>2
    <3>2. /\ Deref(h, ps[i].to) = ps[i].copy
          /\ \A j \in 1..N : j # i => ps[j].to # ps[i].to
          /\ \E s \in Subscripts : Position[h[ps[i].to.array].dims][s] = ps[i].to.index
      BY <1>2, <3>1 DEF Kept, N
    <3>3. p.to # ps[i].to
      BY <1>2, <3>1 DEF N
    <3>4. ASSUME NEW j \in 1..(N + 1), j # i PROVE qs[j].to # ps[i].to
      <4>1. CASE j = N + 1
        BY <1>1, <3>3, <4>1
      <4>2. CASE j # N + 1
        <5>1. j \in 1..N
          BY <1>1, <4>2
        <5> QED BY <1>1, <3>2, <3>4, <5>1
      <4> QED BY <4>1, <4>2
    <3> QED BY <3>1, <3>2, <3>4
  <2> QED BY <2>1, <2>2
<1>3. Kept(h, qs)
  BY <1>1, <1>2 DEF Kept
<1> QED BY <1>3 DEF qs

LEMMA IsCall ==
    ASSUME Inv, Inv', NEW n, NEW s, NEW byval \in BOOLEAN, NEW A, NEW j, NEW w,
           A = UsedIn(SeenArrays, n, s), j = UsedHomeIn(SeenArrays, n), s \in DOMAIN A[j][n].at,
           w = IF byval THEN Store!Value(A[j][n].at[s]) ELSE Store!Element(j, n, s),
           SeenArrays' = Append(A, [x \in {} |-> Store!Gone]), SeenParams' = Append(SeenParams, w)
    PROVE  Store!Call(n, s, byval)
<1>1. StoreArrays = SeenArrays /\ StoreParams = SeenParams
  BY ViewsSeen DEF AsSeen, SeenArrays, SeenParams
<1>2. StoreArrays' = SeenArrays' /\ StoreParams' = SeenParams'
  BY ViewsSeenNext DEF AsSeen, SeenArrays, SeenParams
<1>3. A = Store!Used(n, s) /\ j = Store!UsedHome(n) /\ A[j][n].at[s] = Store!At(n, s)
  BY StoreOps
<1>4. Store!Has(n, s)
  BY StoreOps
<1>5. StoreArrays' = Append(Store!Used(n, s), [x \in {} |-> Store!Gone])
  BY <1>2, <1>3
<1>6. StoreParams' = Append(StoreParams, IF byval THEN Store!Value(Store!At(n, s))
                                         ELSE Store!Element(Store!UsedHome(n), n, s))
  <2>1. w = IF byval THEN Store!Value(Store!At(n, s)) ELSE Store!Element(Store!UsedHome(n), n, s)
    BY <1>3
  <2> QED BY <1>1, <1>2, <2>1
<1> QED BY <1>4, <1>5, <1>6 DEF Store!Call, StoreArrays, StoreParams

LEMMA CallRefines ==
    ASSUME KeptInv, Inv', WellUsed, NEW n \in Names, NEW s \in Subscripts, NEW byval \in BOOLEAN,
           ExecCall(n, s, byval)
    PROVE  Refines
<1> DEFINE e    == Lvalue(n, s)
           q    == IF byval THEN Nowhere ELSE e
           from == IF q = Nowhere THEN e ELSE q
           u    == Used(State, n, s)
           p    == Param(q, Deref(u.heap, from))
           A    == UsedIn(SeenArrays, n, s)
           j    == UsedHomeIn(SeenArrays, n)
           tc   == Append(u.scopes, NoSymbols)
<1>1. Inv /\ UsesWell(n, q) /\ Room(State, n)
  BY DEF ExecCall, KeptInv
<1>3. Read(n, s) = u /\ Rvalue(n, s) = e /\ ~Lost(n)
  BY <1>1, ReadIsUsed
<1>4. /\ Reaches(u) /\ HasArray(u, n) /\ Sees(u) = A /\ HomeIn(A, n) = j /\ Kept(u.heap, params)
      /\ NamesIn(u.heap, u.scopes, params) = SeenParams
  BY <1>1, UsedSeen
<1>5. IF from = Nowhere THEN Goes(u) /\ UNCHANGED params
      ELSE /\ heap' = u.heap
           /\ scopes' = Append(u.scopes, NoSymbols)
           /\ params' = Append(params, p)
  BY <1>3 DEF ExecCall
<1>6. e = Element(u, n, s)
  BY DEF Lvalue
<1>7. \A i \in 1..Len(params) : q # Nowhere => params[i].to # q
  BY <1>1 DEF UsesWell, Calls
<1> HIDE DEF e, u, p, A, j, tc
<1>8. CASE from = Nowhere
  <2>1. Goes(u) /\ UNCHANGED params
    BY <1>5, <1>8
  <2> HIDE DEF q
  <2> QED BY <1>1, <2>1, UseRefines DEF u
<1>9. CASE from # Nowhere
  <2>1. e # Nowhere /\ from = e /\ (q = Nowhere <=> byval) /\ (q # Nowhere => q = e)
    BY <1>9
  <2>2. heap' = u.heap /\ scopes' = tc /\ params' = Append(params, p)
    BY <1>5, <1>9 DEF tc
  <2>3. p.to = q /\ p.copy = Deref(u.heap, e)
    BY <2>1 DEF p, Param
  <2> HIDE DEF q, from
  <2>4. Spot(u.heap, u.scopes, e, j, n, s)
    BY <1>4, <1>6, <2>1, SeenElement
  <2>5. Sound(u.heap, u.scopes, params)
    BY <1>4 DEF Reaches
  <2>6. u.scopes \in Seq(ScopeMaps) /\ params \in Seq(Parameters)
    BY <2>5 DEF Sound, Typed
  <2>7. Sound(u.heap, tc, Append(params, p))
    <3>1. Sound(heap', scopes', params')
      BY DEF Inv
    <3> QED BY <2>2, <3>1
  <2>8. /\ s \in DOMAIN A[j][n].at /\ A[j][n].at[s] = Deref(u.heap, e)
        /\ e \in Pointers /\ InBlock(u.heap, e) /\ e.index = Position[u.heap[e.array].dims][s]
    <3>1. /\ s \in DOMAIN Views(u.heap, u.scopes)[j][n].at
          /\ Views(u.heap, u.scopes)[j][n].at[s] = Deref(u.heap, e)
          /\ e \in Pointers /\ InBlock(u.heap, e) /\ e.index = Position[u.heap[e.array].dims][s]
      BY <2>4, <2>5, SpotFacts
    <3> QED BY <1>4, <3>1 DEF Sees
  <2>9. p \in Parameters
    <3>1. Deref(u.heap, e) \in Values
      <4>1. u.heap \in [DOMAIN u.heap -> FBArrays]
        BY <2>5 DEF Sound, Typed
      <4> QED BY <2>8, <4>1, DerefTyped
    <3>2. q \in Pointers
      <4>1. Nowhere \in Pointers
        BY DEF Nowhere, Pointer, Pointers
      <4> QED BY <2>1, <2>8, <4>1
    <3> QED BY <2>1, <3>1, <3>2 DEF p, Param, Parameters
  <2>10. SeenArrays' = Append(A, [x \in {} |-> Store!Gone])
    <3>1. Views(u.heap, tc) = Append(Views(u.heap, u.scopes), [x \in {} |-> Store!Gone])
      BY <2>6, PushedView DEF tc
    <3> QED BY <1>4, <2>2, <3>1 DEF SeenArrays, Sees
  <2> DEFINE w == NamedIn(u.heap, tc, p)
  <2>11. SeenParams' = Append(SeenParams, w)
    <3>1. NamesIn(u.heap, tc, Append(params, p)) = Append(NamesIn(u.heap, u.scopes, params), w)
      BY <1>4, <2>5, <2>7, <2>9, PushedNames DEF tc
    <3> HIDE DEF w
    <3> QED BY <1>4, <2>2, <3>1 DEF SeenParams
  <2>12. w = IF byval THEN Store!Value(A[j][n].at[s]) ELSE Store!Element(j, n, s)
    <3>1. CASE byval
      BY <2>1, <2>3, <2>8, <3>1 DEF NamedIn, Store!Value
    <3>2. CASE ~byval
      <4>1. Spot(u.heap, tc, p.to, j, n, s)
        <5>1. Spot(u.heap, tc, e, j, n, s)
          BY <2>4, <2>6, PushedSpot DEF tc
        <5> QED BY <2>1, <2>3, <3>2, <5>1
      <4>2. w = Store!Element(j, n, s)
        BY <2>7, <4>1, NamedSpot
      <4> QED BY <3>2, <4>2
    <3> QED BY <3>1, <3>2
  <2>13. Kept(heap, params)'
    <3>1. ASSUME p.to # Nowhere
          PROVE  /\ Deref(u.heap, p.to) = p.copy
                 /\ \A i \in 1..Len(params) : params[i].to # p.to
                 /\ \E t \in Subscripts : Position[u.heap[p.to.array].dims][t] = p.to.index
      <4>1. p.to = e
        BY <2>1, <2>3, <3>1
      <4>2. \A i \in 1..Len(params) : params[i].to # p.to
        BY <1>7, <2>3, <3>1
      <4> QED BY <2>3, <2>8, <4>1, <4>2
    <3>2. Kept(u.heap, Append(params, p))
      BY <1>4, <2>6, <2>9, <3>1, PushedKept
    <3> QED BY <2>2, <3>2
  <2> HIDE DEF w
  <2>14. Store!Call(n, s, byval)
    BY <1>1, <2>8, <2>10, <2>11, <2>12, IsCall DEF A, j
  <2>15. Store!Next
    BY <2>14 DEF Store!Next
  <2> QED BY <2>13, <2>15 DEF Refines
<1> QED BY <1>8, <1>9

(* The end of a call: the scope and the parameter go.                       *)
LEMMA SubSeqFacts ==
    ASSUME NEW S, NEW s \in Seq(S), NEW k \in 0..Len(s)
    PROVE  /\ SubSeq(s, 1, k) \in Seq(S) /\ Len(SubSeq(s, 1, k)) = k
           /\ \A d \in 1..k : SubSeq(s, 1, k)[d] = s[d]
<1>1. k \in Nat /\ k \in Int /\ \A d \in 1..k : s[d] \in S
  BY ElementOfSeq, LenProperties
<1>2. /\ SubSeq(s, 1, k) \in Seq(S) /\ Len(SubSeq(s, 1, k)) = (IF 1 <= k THEN k - 1 + 1 ELSE 0)
      /\ \A d \in 1..(k - 1 + 1) : SubSeq(s, 1, k)[d] = s[1 + d - 1]
  BY <1>1, SubSeqProperties
<1>3. k - 1 + 1 = k /\ \A d \in 1..k : 1 + d - 1 = d
  BY <1>1
<1> QED BY <1>1, <1>2, <1>3

LEMMA SubSeqIs ==
    ASSUME NEW n \in Nat, NEW A, A = [i \in 1..n |-> A[i]], NEW k \in 0..n,
           NEW B, B = [i \in 1..k |-> B[i]], \A i \in 1..k : B[i] = A[i]
    PROVE  B = SubSeq(A, 1, k)
<1> DEFINE S == {A[i] : i \in 1..n}
           C == SubSeq(A, 1, k)
<1>1. A \in Seq(S) /\ Len(A) = n /\ \A i \in 1..k : A[i] \in S
  <2>1. \A i \in 1..n : A[i] \in S
    OBVIOUS
  <2>2. 1..k \subseteq 1..n
    OBVIOUS
  <2> HIDE DEF S
  <2>3. A \in [1..n -> S]
    BY <2>1
  <2> QED BY <2>1, <2>2, <2>3, SeqDef, LenProperties
<1> HIDE DEF S
<1>2. C \in Seq(S) /\ Len(C) = k /\ \A i \in 1..k : C[i] = A[i]
  BY <1>1, SubSeqFacts
<1>3. C = [i \in 1..k |-> C[i]]
  BY <1>2, LenProperties
<1>4. C = B
  BY <1>2, <1>3
<1> QED BY <1>4 DEF C

LEMMA PoppedFacts ==
    ASSUME NEW S, NEW s \in Seq(S), Len(s) > 0
    PROVE  /\ Len(Front(s)) = Len(s) - 1 /\ Len(s) \in Nat \ {0} /\ s = [i \in 1..Len(s) |-> s[i]]
           /\ \A d \in 1..(Len(s) - 1) : Front(s)[d] = s[d]
<1>1. s # <<>>
  BY EmptySeq
<1> QED BY <1>1, FrontFacts, LenProperties

LEMMA PoppedView ==
    ASSUME NEW h, NEW sc, NEW ps, Sound(h, sc, ps), Len(ps) > 0
    PROVE  Views(h, Front(sc)) = SubSeq(Views(h, sc), 1, Len(ps))
<1> DEFINE tc == Front(sc)
           N  == Len(ps)
           A  == Views(h, sc)
           B  == Views(h, tc)
<1>1. /\ N \in Nat /\ Len(sc) = N + 1 /\ Len(tc) = N
      /\ \A d \in 1..N : tc[d] = sc[d]
  <2>1. Len(ps) \in Nat /\ Len(sc) = Len(ps) + 1 /\ sc \in Seq(ScopeMaps)
    <3>1. Typed(h, sc, ps)
      BY DEF Sound
    <3> QED BY <3>1, TypedScopes DEF Typed
  <2>2. Len(sc) > 0 /\ Len(sc) - 1 = N
    BY <2>1
  <2>3. Len(Front(sc)) = Len(sc) - 1 /\ \A d \in 1..(Len(sc) - 1) : Front(sc)[d] = sc[d]
    BY <2>1, <2>2, PoppedFacts
  <2> QED BY <2>1, <2>2, <2>3
<1> HIDE DEF tc, N
<1>3. Len(A) = N + 1 /\ A = [i \in 1..(N + 1) |-> A[i]] /\ \A i \in 1..(N + 1) : A[i] = ViewsOf(h, sc[i])
  <2>1. Len(sc) \in Nat
    BY <1>1
  <2> QED BY <1>1, <2>1, ViewsFacts
<1>4. B = [i \in 1..N |-> B[i]] /\ \A i \in 1..N : B[i] = ViewsOf(h, tc[i])
  <2>1. Len(tc) \in Nat
    BY <1>1
  <2> QED BY <1>1, <2>1, ViewsFacts
<1> HIDE DEF A, B
<1>5. \A i \in 1..N : B[i] = A[i]
  <2>1. \A i \in 1..N : i \in 1..(N + 1)
    BY <1>1
  <2> QED BY <1>1, <1>3, <1>4, <2>1
<1>6. B = SubSeq(A, 1, N)
  <2>1. N + 1 \in Nat /\ N \in 0..(N + 1)
    BY <1>1
  <2>2. A = [i \in 1..(N + 1) |-> A[i]] /\ B = [i \in 1..N |-> B[i]]
    BY <1>3, <1>4
  <2> QED BY ONLY <1>5, <2>1, <2>2, SubSeqIs, ZenonT(40)
<1> QED BY <1>6 DEF A, B, N, tc

LEMMA PoppedNames ==
    ASSUME NEW h, NEW sc, NEW ps, Sound(h, sc, ps), Kept(h, ps), Len(ps) > 0, NEW c, c = Len(ps) - 1
    PROVE  /\ Kept(h, Front(ps))
           /\ NamesIn(h, Front(sc), Front(ps))
                 = SubSeq(NamesIn(h, sc, ps), 1, c)
<1> DEFINE tc == Front(sc)
           qs == Front(ps)
           N  == Len(ps)
           A  == NamesIn(h, sc, ps)
           B  == NamesIn(h, tc, qs)
<1>0. Sound(h, tc, qs)
  BY PopSound
<1>1. /\ N \in Nat /\ Len(sc) = N + 1 /\ Len(tc) = N /\ Len(qs) = c /\ c \in 0..N /\ c < N
      /\ \A d \in 1..N : tc[d] = sc[d]
      /\ \A i \in 1..c : qs[i] = ps[i] /\ i \in 1..N
  <2>1. Len(ps) \in Nat /\ Len(sc) = Len(ps) + 1 /\ sc \in Seq(ScopeMaps) /\ ps \in Seq(Parameters)
    <3>1. Typed(h, sc, ps)
      BY DEF Sound
    <3> QED BY <3>1, TypedScopes DEF Typed
  <2>2. Len(sc) > 0 /\ Len(sc) - 1 = N
    BY <2>1
  <2>3. Len(tc) = N /\ \A d \in 1..N : tc[d] = sc[d]
    <3>1. Len(Front(sc)) = Len(sc) - 1 /\ \A d \in 1..(Len(sc) - 1) : Front(sc)[d] = sc[d]
      BY <2>1, <2>2, PoppedFacts
    <3> QED BY <2>2, <3>1
  <2>4. Len(qs) = c /\ \A d \in 1..c : qs[d] = ps[d]
    BY <2>1, PoppedFacts
  <2>5. c \in 0..N /\ c < N /\ \A i \in 1..c : i \in 1..N
    BY <2>1
  <2> QED BY <2>1, <2>3, <2>4, <2>5
<1>2. ASSUME NEW q, NEW j \in 1..N, NEW n, NEW s, Spot(h, sc, q, j, n, s)
      PROVE  Spot(h, tc, q, j, n, s)
  <2>1. tc[j] = sc[j] /\ j \in 1..Len(tc)
    BY <1>1
  <2> HIDE DEF tc
  <2> QED BY <1>2, <2>1 DEF Spot, Owns
<1> HIDE DEF tc, qs, N
<1>4. Kept(h, qs)
  <2>1. ASSUME NEW i \in 1..c, qs[i].to # Nowhere
        PROVE  /\ Deref(h, qs[i].to) = qs[i].copy
               /\ \A j \in 1..c : j # i => qs[j].to # qs[i].to
               /\ \E s \in Subscripts : Position[h[qs[i].to.array].dims][s] = qs[i].to.index
    <3>1. qs[i] = ps[i] /\ i \in 1..N /\ \A j \in 1..c : qs[j] = ps[j] /\ j \in 1..N
      BY <1>1
    <3>2. ps[i].to # Nowhere
      BY <2>1, <3>1
    <3> QED BY <3>1, <3>2 DEF Kept, N
  <2> QED BY <1>1, <2>1 DEF Kept
<1>5. ASSUME NEW i \in 1..c PROVE NamedIn(h, tc, ps[i]) = NamedIn(h, sc, ps[i])
  <2>1. i \in 1..Len(ps) /\ \A j \in 1..i : j \in 1..N
    BY <1>1 DEF N
  <2>2. \A j \in 1..i : \A n, s : Spot(h, sc, ps[i].to, j, n, s) => Spot(h, tc, ps[i].to, j, n, s)
    BY <1>2, <2>1
  <2> QED BY <1>0, <2>1, <2>2, NamedSame
<1>6. A = [i \in 1..N |-> A[i]] /\ \A i \in 1..N : A[i] = NamedIn(h, sc, ps[i])
  BY DEF NamesIn, N
<1>7. B = [i \in 1..c |-> B[i]] /\ \A i \in 1..c : B[i] = NamedIn(h, tc, qs[i])
  BY <1>1 DEF NamesIn
<1> HIDE DEF A, B
<1>8. \A i \in 1..c : B[i] = A[i]
  BY <1>1, <1>5, <1>6, <1>7
<1>9. B = SubSeq(A, 1, c)
  <2>1. N \in Nat /\ c \in 0..N /\ A = [i \in 1..N |-> A[i]] /\ B = [i \in 1..c |-> B[i]]
    BY <1>1, <1>6, <1>7
  <2> QED BY ONLY <1>8, <2>1, SubSeqIs, ZenonT(40)
<1> QED BY <1>4, <1>9 DEF A, B, tc, qs

LEMMA ReturnRefines ==
    ASSUME KeptInv, Inv', ProcedureReturn
    PROVE  Refines
<1> DEFINE p    == params[Calls]
           back == IF p.to = Nowhere THEN heap ELSE Stored(heap, p.to, p.copy)
<1>1. /\ Inv /\ Kept(heap, params) /\ Sound(heap, scopes, params) /\ Calls > 0
      /\ Calls = Len(params) /\ Calls \in Nat
  <2>1. Inv /\ Kept(heap, params) /\ Sound(heap, scopes, params) /\ Calls > 0 /\ Calls = Len(params)
    BY DEF KeptInv, Inv, ProcedureReturn, Calls
  <2>2. Calls \in Nat
    BY <2>1, TypedScopes DEF Sound
  <2> QED BY <2>1, <2>2
<1>2. heap' = back /\ scopes' = Front(scopes) /\ params' = Front(params)
  BY DEF ProcedureReturn
<1>3. back = heap
  <2>1. CASE p.to = Nowhere
    BY <2>1
  <2>2. CASE p.to # Nowhere
    <3> DEFINE q == p.to
               x == heap[q.array]
    <3>1. Deref(heap, q) = p.copy
      BY <1>1, <2>2 DEF Kept
    <3>2. Calls \in 1..Len(params) /\ InBlock(heap, q)
      BY <1>1, <2>2, LastCall
    <3>3. q.array \in DOMAIN heap /\ heap \in [DOMAIN heap -> FBArrays]
      BY <1>1, <3>2 DEF InBlock, Sound, Typed
    <3>4. x \in FBArrays /\ x.data \in Seq(Values)
      BY <3>3 DEF FBArrays
    <3> HIDE DEF q
    <3>5. DOMAIN x.data = 1..Len(x.data)
      BY <3>4, LenProperties
    <3>6. q.index + 1 \in DOMAIN x.data /\ x.data[q.index + 1] = p.copy
      BY <3>1, <3>2, <3>5 DEF InBlock, Deref
    <3>7. [x.data EXCEPT ![q.index + 1] = p.copy] = x.data
      BY <3>4, <3>6
    <3>8. [x EXCEPT !.data = x.data] = x
      BY <3>4 DEF FBArrays
    <3>9. Stored(heap, q, p.copy) = [heap EXCEPT ![q.array] = [x EXCEPT !.data = [x.data EXCEPT ![q.index + 1] = p.copy]]]
      BY DEF Stored
    <3>10. [heap EXCEPT ![q.array] = x] = heap
      BY <3>3
    <3> HIDE DEF x
    <3>11. Stored(heap, q, p.copy) = heap
      BY <3>7, <3>8, <3>9, <3>10
    <3> QED BY <2>2, <3>11 DEF q
  <2> QED BY <2>1, <2>2
<1> HIDE DEF back
<1>5. heap' = heap
  BY <1>2, <1>3
<1>6. SeenArrays' = SubSeq(SeenArrays, 1, Calls)
  <2>1. Views(heap, Front(scopes)) = SubSeq(Views(heap, scopes), 1, Len(params))
    BY <1>1, PoppedView
  <2> QED BY <1>1, <1>2, <1>5, <2>1 DEF SeenArrays
<1>7. Kept(heap, params)' /\ SeenParams' = SubSeq(SeenParams, 1, Calls - 1)
  <2>1. Kept(heap, Front(params)) /\ NamesIn(heap, Front(scopes), Front(params))
                                        = SubSeq(NamesIn(heap, scopes, params), 1, Calls - 1)
    BY <1>1, PoppedNames
  <2> QED BY <1>2, <1>5, <2>1 DEF SeenParams
<1>8. StoreArrays = SeenArrays /\ StoreParams = SeenParams
  BY <1>1, ViewsSeen DEF AsSeen, SeenArrays, SeenParams
<1>9. StoreArrays' = SeenArrays' /\ StoreParams' = SeenParams'
  BY ViewsSeenNext DEF AsSeen, SeenArrays, SeenParams
<1>10. Store!Calls = Calls
  BY <1>1, StoreOps
<1>11. StoreArrays' = SubSeq(StoreArrays, 1, Store!Calls) /\ StoreParams' = SubSeq(StoreParams, 1, Store!Calls - 1)
  BY <1>6, <1>7, <1>8, <1>9, <1>10
<1>12. Store!Return
  BY <1>1, <1>10, <1>11 DEF Store!Return, StoreArrays, StoreParams
<1>13. Store!Next
  BY <1>12 DEF Store!Next
<1> QED BY <1>7, <1>13 DEF Refines

(* SWAP.  A name that gets an array leaves the others theirs.               *)
Widened(A, m, t) == Store!With(A[Len(A)], m, Store!Array(ByItself(Len(t)), FALSE))
UsedAfter(A, S, m, t) ==
    [A EXCEPT ![Len(A)] = IF KnownIn(S, m) \/ m \in DOMAIN A[Len(A)] THEN A[Len(A)]
                          ELSE Widened(A, m, t)]

LEMMA UsedKeeps ==
    ASSUME NEW L \in Nat \ {0}, NEW A, Len(A) = L, DOMAIN A = 1..L, A = [i \in 1..L |-> A[i]],
           NEW n, NEW s
    PROVE  /\ DOMAIN UsedIn(A, n, s) = 1..L
           /\ UsedIn(A, n, s) = [i \in 1..L |-> UsedIn(A, n, s)[i]]
           /\ \A j \in 1..L : j # L => UsedIn(A, n, s)[j] = A[j]
           /\ DOMAIN UsedIn(A, n, s)[L] = DOMAIN A[L] \cup (IF KnownIn(A, n) THEN {} ELSE {n})
           /\ \A j \in 1..L : \A m \in DOMAIN A[j] : UsedIn(A, n, s)[j][m] = A[j][m]
<1>1. CASE KnownIn(A, n)
  BY <1>1 DEF UsedIn
<1>2. CASE ~KnownIn(A, n)
  <2> DEFINE w == Store!Array(ByItself(Len(s)), FALSE)
             f == Store!With(A[L], n, w)
             B == [A EXCEPT ![L] = f]
  <2>1. UsedIn(A, n, s) = B
    BY <1>2 DEF UsedIn
  <2>2. n \notin DOMAIN A[L]
    BY <1>2 DEF KnownIn, HomeIn
  <2> HIDE DEF w
  <2>3. DOMAIN f = DOMAIN A[L] \cup {n} /\ \A m \in DOMAIN A[L] : f[m] = A[L][m]
    BY <2>2 DEF Store!With
  <2> HIDE DEF f
  <2>4. DOMAIN B = 1..L /\ B[L] = f /\ \A j \in 1..L : j # L => B[j] = A[j]
    OBVIOUS
  <2>5. B = [i \in 1..L |-> B[i]]
    BY <2>4
  <2> HIDE DEF B
  <2>6. ASSUME NEW j \in 1..L, NEW m \in DOMAIN A[j] PROVE B[j][m] = A[j][m]
    <3>1. CASE j = L
      BY <2>3, <2>4, <3>1
    <3>2. CASE j # L
      BY <2>4, <3>2
    <3> QED BY <3>1, <3>2
  <2> QED BY <1>2, <2>1, <2>3, <2>4, <2>5, <2>6
<1> QED BY <1>1, <1>2

LEMMA UsedTwice ==
    ASSUME NEW L \in Nat \ {0}, NEW A, Len(A) = L, DOMAIN A = 1..L, A = [i \in 1..L |-> A[i]],
           NEW n, NEW s, NEW m, NEW t, Len(UsedIn(A, n, s)) = L
    PROVE  /\ UsedIn(UsedIn(A, n, s), m, t) = UsedAfter(UsedIn(A, n, s), A, m, t)
           /\ UsedHomeIn(UsedIn(A, n, s), m) = UsedHomeIn(A, m)
           /\ KnownIn(A, m) => KnownIn(UsedIn(A, n, s), m)
<1> DEFINE B == UsedIn(A, n, s)
           D == IF KnownIn(A, n) THEN {} ELSE {n}
<1>1. /\ DOMAIN B = 1..L /\ B = [i \in 1..L |-> B[i]] /\ Len(B) = L
      /\ \A j \in 1..L : j # L => B[j] = A[j]
      /\ DOMAIN B[L] = DOMAIN A[L] \cup D
  BY UsedKeeps
<1>2. D = {} => B = A
  BY DEF UsedIn
<1>3. D # {} => D = {n} /\ ~KnownIn(A, n)
  OBVIOUS
<1> HIDE DEF B, D
<1>4. L \in 1..L /\ 1 \in 1..L
  OBVIOUS
<1>5. CASE KnownIn(A, m)
  <2>1. KnownIn(B, m) /\ HomeIn(B, m) = HomeIn(A, m)
    <3>1. CASE m \in DOMAIN A[L]
      BY <1>1, <3>1 DEF KnownIn, HomeIn
    <3>2. CASE m \notin DOMAIN A[L]
      <4>1. m \in DOMAIN A[1] /\ HomeIn(A, m) = 1 /\ L # 1
        BY <1>5, <3>2 DEF KnownIn, HomeIn
      <4>2. m \notin D
        <5>1. D # {} => m # n
          BY <1>3, <1>5
        <5> QED BY <1>3, <5>1
      <4>3. B[1] = A[1] /\ m \notin DOMAIN B[L]
        BY <1>1, <1>4, <3>2, <4>1, <4>2
      <4> QED BY <1>1, <4>1, <4>3 DEF KnownIn, HomeIn
    <3> QED BY <3>1, <3>2
  <2>2. UsedHomeIn(B, m) = UsedHomeIn(A, m)
    BY <1>5, <2>1 DEF UsedHomeIn
  <2>3. UsedIn(B, m, t) = B
    BY <2>1 DEF UsedIn
  <2>4. [B EXCEPT ![L] = B[L]] = B
    BY <1>1
  <2>5. UsedAfter(B, A, m, t) = [B EXCEPT ![L] = B[L]]
    BY <1>1, <1>5 DEF UsedAfter
  <2> QED BY <1>5, <2>1, <2>2, <2>3, <2>4, <2>5 DEF B
<1>6. CASE ~KnownIn(A, m)
  <2>1. m \notin DOMAIN A[L] /\ m \notin DOMAIN A[1]
    BY <1>6 DEF KnownIn, HomeIn
  <2>2. KnownIn(B, m) <=> m \in DOMAIN B[L]
    <3>1. CASE L = 1
      BY <1>1, <3>1 DEF KnownIn, HomeIn
    <3>2. CASE L # 1
      BY <1>1, <1>4, <2>1, <3>2 DEF KnownIn, HomeIn
    <3> QED BY <3>1, <3>2
  <2>3. UsedHomeIn(B, m) = L /\ UsedHomeIn(A, m) = L
    BY <1>1, <1>6, <2>2 DEF UsedHomeIn, HomeIn
  <2>4. UsedIn(B, m, t) = IF m \in DOMAIN B[L] THEN B ELSE [B EXCEPT ![L] = Widened(B, m, t)]
    BY <1>1, <2>2 DEF UsedIn, Widened
  <2>5. [B EXCEPT ![L] = B[L]] = B
    BY <1>1
  <2>6. UsedAfter(B, A, m, t) = [B EXCEPT ![L] = IF m \in DOMAIN B[L] THEN B[L] ELSE Widened(B, m, t)]
    BY <1>1, <1>6 DEF UsedAfter
  <2> QED BY <1>6, <2>3, <2>4, <2>5, <2>6 DEF B
<1> QED BY <1>5, <1>6

LEMMA GainsBoth ==
    ASSUME NEW st, NEW u, NEW w, NEW n, NEW m, Gains(st, u, n), Gains(u, w, m)
    PROVE  Gains(st, w, m)
<1>1. Reaches(w) /\ HasArray(w, m) /\ DOMAIN st.heap \subseteq DOMAIN w.heap
  BY DEF Gains
<1>2. \A z \in DOMAIN st.heap : w.heap[z] = st.heap[z]
  BY DEF Gains
<1>3. \A j \in 1..Level : \A k : Owns(st.scopes, j, k) =>
          Owns(w.scopes, j, k) /\ w.scopes[j][k] = st.scopes[j][k]
  BY DEF Gains
<1> QED BY <1>1, <1>2, <1>3 DEF Gains

Exchanged(A, j, n, s, k, m, t) ==
    [A EXCEPT ![j][n].at[s] = A[k][m].at[t], ![k][m].at[t] = A[j][n].at[s]]

Stores(A, j, n, s, v) == [A EXCEPT ![j][n].at[s] = v]

LEMMA ExchangedTwice ==
    ASSUME NEW A, NEW j, NEW n, NEW s, NEW k, NEW m, NEW t, NEW v, NEW w,
           v = A[k][m].at[t], w = A[j][n].at[s]
    PROVE  Stores(Stores(A, j, n, s, v), k, m, t, w) = Exchanged(A, j, n, s, k, m, t)
  BY DEF Exchanged, Stores

LEMMA IsSwap ==
    ASSUME Inv, Inv', NEW n, NEW s, NEW m, NEW t, KnownIn(SeenArrays, n), KnownIn(SeenArrays, m),
           NEW j, NEW k, j = HomeIn(SeenArrays, n), k = HomeIn(SeenArrays, m),
           s \in DOMAIN SeenArrays[j][n].at, t \in DOMAIN SeenArrays[k][m].at,
           SeenArrays' = Exchanged(SeenArrays, j, n, s, k, m, t), SeenParams' = SeenParams
    PROVE  Store!Swap(n, s, m, t)
<1>1. StoreArrays = SeenArrays /\ StoreParams = SeenParams
  BY ViewsSeen DEF AsSeen, SeenArrays, SeenParams
<1>2. StoreArrays' = SeenArrays' /\ StoreParams' = SeenParams'
  BY ViewsSeenNext DEF AsSeen, SeenArrays, SeenParams
<1>3. Store!Known(n) /\ Store!Home(n) = j /\ Store!Its(n) = SeenArrays[j][n]
  BY StoreOps
<1>4. Store!Known(m) /\ Store!Home(m) = k /\ Store!Its(m) = SeenArrays[k][m]
  BY StoreOps
<1>5. StoreArrays' = [StoreArrays EXCEPT ![Store!Home(n)][n].at[s] = Store!Its(m).at[t],
                                         ![Store!Home(m)][m].at[t] = Store!Its(n).at[s]]
  BY <1>1, <1>2, <1>3, <1>4 DEF Exchanged
<1> QED BY <1>1, <1>2, <1>3, <1>4, <1>5 DEF Store!Swap, StoreArrays, StoreParams

LEMMA IsSwapNew ==
    ASSUME Inv, Inv', NEW n, NEW s, NEW m, NEW t, ~KnownIn(SeenArrays, n) \/ ~KnownIn(SeenArrays, m),
           NEW A, A = UsedIn(SeenArrays, n, s), NEW B,
           B = UsedAfter(A, SeenArrays, m, t),
           NEW j, NEW k, j = UsedHomeIn(SeenArrays, n), k = UsedHomeIn(SeenArrays, m),
           SeenArrays' = IF ~(s \in DOMAIN B[j][n].at /\ t \in DOMAIN B[k][m].at) THEN B
                         ELSE Exchanged(B, j, n, s, k, m, t),
           SeenParams' = SeenParams
    PROVE  Store!SwapNew(n, s, m, t)
<1>1. StoreArrays = SeenArrays /\ StoreParams = SeenParams
  BY ViewsSeen DEF AsSeen, SeenArrays, SeenParams
<1>2. StoreArrays' = SeenArrays' /\ StoreParams' = SeenParams'
  BY ViewsSeenNext DEF AsSeen, SeenArrays, SeenParams
<1>3. /\ (Store!Known(n) <=> KnownIn(SeenArrays, n)) /\ Store!UsedHome(n) = j /\ Store!Used(n, s) = A
  BY StoreOps
<1>4. (Store!Known(m) <=> KnownIn(SeenArrays, m)) /\ Store!UsedHome(m) = k
  BY StoreOps
<1>5. B = [Store!Used(n, s) EXCEPT ![Len(Store!Used(n, s))] =
               IF Store!Known(m) \/ m \in DOMAIN @ THEN @
               ELSE Store!With(@, m, Store!Array(Store!ByItself(Len(t)), FALSE))]
  BY <1>3, <1>4 DEF UsedAfter, Widened, Store!ByItself, ByItself
<1>6. StoreParams' = StoreParams
  BY <1>1, <1>2
<1>7. StoreArrays' = IF ~(s \in DOMAIN B[j][n].at /\ t \in DOMAIN B[k][m].at) THEN B
                     ELSE [B EXCEPT ![j][n].at[s] = B[k][m].at[t], ![k][m].at[t] = B[j][n].at[s]]
  BY <1>2 DEF Exchanged
<1> QED BY <1>3, <1>4, <1>5, <1>6, <1>7 DEF Store!SwapNew, StoreArrays, StoreParams

LEMMA SwapRefines ==
    ASSUME KeptInv, Inv', WellUsed, NEW n \in Names, NEW m \in Names, NEW s \in Subscripts, NEW t \in Subscripts,
           ExecSwap(n, s, m, t)
    PROVE  Refines
<1> DEFINE one  == Used(State, n, s)
           both == Used(one, m, t)
           q    == Element(one, n, s)
           r    == Element(both, m, t)
           S    == SeenArrays
           A    == UsedIn(S, n, s)
           B    == UsedIn(A, m, t)
           j    == UsedHomeIn(S, n)
           k    == UsedHomeIn(S, m)
           L    == Level
<1>1. UsesWell(n, q) /\ UsesWell(m, r) /\ Room(State, n) /\ Room(one, m) /\ UNCHANGED params /\ Inv
  BY DEF ExecSwap, KeptInv
<1>2. /\ \A i \in 1..Len(params) : q # Nowhere => params[i].to # q
      /\ \A i \in 1..Len(params) : r # Nowhere => params[i].to # r
  BY <1>1 DEF UsesWell, Calls
<1>3. IF Nowhere \in {q, r} THEN Goes(both)
      ELSE /\ heap' = Stored(Stored(both.heap, q, Deref(both.heap, r)), r, Deref(both.heap, q))
           /\ scopes' = both.scopes
  BY DEF ExecSwap
<1>4. Found(one, m) => HasArray(one, m)
  <2> HIDE DEF q, r
  <2> QED BY <1>1, SecondName
<1>5. /\ Gains(State, one, n) /\ Reaches(one) /\ HasArray(one, n)
      /\ Sees(one) = A /\ HomeIn(A, n) = j
  <2> HIDE DEF q
  <2> QED BY <1>1, UsedSeen
<1>6. q = Element(one, n, s) /\ r = Element(both, m, t)
  OBVIOUS
<1> HIDE DEF one
<1>7. Sees(both) = UsedIn(Sees(one), m, t) /\ HomeIn(Sees(both), m) = UsedHomeIn(Sees(one), m)
  BY <1>1, <1>4, <1>5, SeenUsed
<1>8. Gains(one, both, m)
  BY <1>1, <1>4, <1>5, UsedReaches
<1> HIDE DEF both, q, r
<1>9. Gains(State, both, m)
  BY <1>5, <1>8, GainsBoth
<1>10. Kept(both.heap, params) /\ NamesIn(both.heap, both.scopes, params) = SeenParams
  BY <1>9, KeptGains DEF SeenParams
<1>11. Reaches(both) /\ HasArray(both, m) /\ Sound(both.heap, both.scopes, params)
  BY <1>8 DEF Gains, Reaches
<1>12. L \in Nat \ {0} /\ Len(S) = L /\ DOMAIN S = 1..L /\ S = [i \in 1..L |-> S[i]]
  <2>1. Reaches(State) /\ Sees(State) = S
    BY <1>1, SeesState
  <2>2. Len(S) = L /\ DOMAIN S = 1..L /\ L \in 1..L
    BY <2>1, SeenScopes
  <2>3. L \in Nat /\ Level = Len(scopes)
    BY <2>1, ReachesTyped DEF Level
  <2>4. S = [i \in 1..Len(scopes) |-> S[i]]
    BY <2>3, ViewsFacts DEF SeenArrays
  <2> QED BY <2>2, <2>3, <2>4
<1>13. Len(A) = L /\ DOMAIN A = 1..L /\ A = [i \in 1..L |-> A[i]]
  <2>1. Len(A) = L
    BY <1>5, SeenScopes
  <2> HIDE DEF S, L
  <2> QED BY <1>12, <2>1, UsedKeeps
<1>14. /\ B = UsedAfter(A, S, m, t)
       /\ UsedHomeIn(A, m) = k /\ (KnownIn(S, m) => KnownIn(A, m))
  <2> HIDE DEF S, L
  <2> QED BY <1>12, <1>13, UsedTwice
<1>15. /\ \A i \in 1..L : \A z \in DOMAIN A[i] : B[i][z] = A[i][z]
  <2> HIDE DEF A, L
  <2> QED BY <1>12, <1>13, UsedKeeps
<1>16. Sees(both) = B /\ HomeIn(B, m) = k
  BY <1>5, <1>7, <1>14
<1>17. j \in 1..L /\ n \in DOMAIN A[j]
  BY <1>5, SeenHome
<1>18. /\ q = Nowhere <=> s \notin DOMAIN B[j][n].at
       /\ q # Nowhere => Spot(both.heap, both.scopes, q, j, n, s)
  <2>1. /\ q = Nowhere <=> s \notin DOMAIN A[j][n].at
        /\ q # Nowhere => Spot(one.heap, one.scopes, q, j, n, s)
    BY <1>5, <1>6, SeenElement
  <2>2. B[j][n] = A[j][n]
    BY <1>15, <1>17
  <2>3. q # Nowhere => Spot(both.heap, both.scopes, q, j, n, s)
    BY <1>5, <1>8, <2>1, SpotGains
  <2> QED BY <2>1, <2>2, <2>3
<1>19. /\ r = Nowhere <=> t \notin DOMAIN B[k][m].at
       /\ r # Nowhere => Spot(both.heap, both.scopes, r, k, m, t)
  BY <1>6, <1>11, <1>16, SeenElement
<1>20. ASSUME KnownIn(S, n), KnownIn(S, m)
       PROVE  A = S /\ B = S /\ j = HomeIn(S, n) /\ k = HomeIn(S, m)
  <2>1. A = S /\ j = HomeIn(S, n) /\ k = HomeIn(S, m)
    BY <1>20 DEF UsedIn, UsedHomeIn
  <2> HIDE DEF S
  <2>2. B = S
    BY <1>20, <2>1 DEF UsedIn
  <2> QED BY <2>1, <2>2
<1> HIDE DEF S, A, B, j, k, L
<1>21. CASE Nowhere \in {q, r}
  <2>1. heap' = both.heap /\ scopes' = both.scopes
    BY <1>3, <1>21 DEF Goes
  <2>2. SeenArrays' = B /\ SeenParams' = SeenParams /\ Kept(heap, params)'
    BY <1>1, <1>10, <1>16, <2>1 DEF SeenArrays, SeenParams, Sees
  <2>3. CASE KnownIn(S, n) /\ KnownIn(S, m)
    <3>1. SeenArrays' = SeenArrays
      BY <1>20, <2>2, <2>3 DEF S
    <3> QED BY <1>1, <2>2, <3>1, StoreSame DEF Refines
  <2>4. CASE ~KnownIn(S, n) \/ ~KnownIn(S, m)
    <3>1. ~(s \in DOMAIN B[j][n].at /\ t \in DOMAIN B[k][m].at)
      BY <1>18, <1>19, <1>21
    <3>2. SeenArrays' = IF ~(s \in DOMAIN B[j][n].at /\ t \in DOMAIN B[k][m].at) THEN B
                        ELSE Exchanged(B, j, n, s, k, m, t)
      BY <2>2, <3>1
    <3>3. Store!SwapNew(n, s, m, t)
      BY <1>1, <1>14, <2>2, <2>4, <3>2, IsSwapNew DEF S, A, j, k
    <3>4. Store!Next
      BY <3>3 DEF Store!Next
    <3> QED BY <2>2, <3>4 DEF Refines
  <2> QED BY <2>3, <2>4
<1>22. CASE Nowhere \notin {q, r}
  <2> DEFINE h == both.heap
             v == Deref(h, r)
             w == Deref(h, q)
             g == Stored(h, q, v)
  <2>1. heap' = Stored(g, r, w) /\ scopes' = both.scopes /\ q # Nowhere /\ r # Nowhere
    BY <1>3, <1>22
  <2>2. Spot(h, both.scopes, q, j, n, s) /\ Spot(h, both.scopes, r, k, m, t)
    BY <1>18, <1>19, <2>1
  <2> HIDE DEF h
  <2>3. Sound(h, both.scopes, params) /\ h \in [DOMAIN h -> FBArrays]
    BY <1>11 DEF Sound, Typed, h
  <2>4. q \in Pointers /\ InBlock(h, q) /\ B[j][n].at[s] = w
    <3>1. q \in Pointers /\ InBlock(h, q) /\ Views(h, both.scopes)[j][n].at[s] = w
      BY <2>2, <2>3, SpotFacts
    <3> QED BY <1>16, <3>1 DEF Sees, h
  <2>5. r \in Pointers /\ InBlock(h, r) /\ B[k][m].at[t] = v
    <3>1. r \in Pointers /\ InBlock(h, r) /\ Views(h, both.scopes)[k][m].at[t] = v
      BY <2>2, <2>3, SpotFacts
    <3> QED BY <1>16, <3>1 DEF Sees, h
  <2>6. v \in Values /\ w \in Values
    BY <2>3, <2>4, <2>5, DerefTyped
  <2>7. Views(g, both.scopes) = [B EXCEPT ![j][n].at[s] = v]
    <3> HIDE DEF v
    <3>1. Views(h, both.scopes) = B
      BY <1>16 DEF Sees, h
    <3> QED BY <2>2, <2>3, <3>1, SpotStored
  <2> HIDE DEF v, w
  <2>8. Sound(g, both.scopes, params) /\ SameShape(h, g)
    BY <2>3, <2>4, <2>6, StoreSound, StoredShape
  <2>9. Kept(g, params)
    <3>1. \A i \in 1..Len(params) : params[i].to # q
      BY <1>2, <2>1
    <3> QED BY <1>10, <2>3, <2>4, <2>6, <3>1, KeptStored DEF h
  <2>10. NamesIn(g, both.scopes, params) = SeenParams
    <3>1. NamesIn(g, both.scopes, params) = NamesIn(h, both.scopes, params)
      BY <1>10, <2>3, <2>4, <2>6, NamesStored DEF h
    <3> QED BY <1>10, <3>1 DEF h
  <2> HIDE DEF g
  <2>11. Spot(g, both.scopes, r, k, m, t)
    BY <2>2, <2>8, SpotShape
  <2>12. Views(Stored(g, r, w), both.scopes) = [Views(g, both.scopes) EXCEPT ![k][m].at[t] = w]
    BY <2>8, <2>11, SpotStored
  <2>13. SeenArrays' = Exchanged(B, j, n, s, k, m, t)
    <3>1. SeenArrays' = Views(Stored(g, r, w), both.scopes)
      BY <2>1 DEF SeenArrays
    <3>2. Views(g, both.scopes) = Stores(B, j, n, s, v)
      BY <2>7 DEF Stores
    <3>3. SeenArrays' = Stores(Views(g, both.scopes), k, m, t, w)
      BY <2>12, <3>1 DEF Stores
    <3>4. SeenArrays' = Stores(Stores(B, j, n, s, v), k, m, t, w)
      BY <3>2, <3>3
    <3> QED BY <2>4, <2>5, <3>4, ExchangedTwice
  <2>14. InBlock(g, r)
    BY <2>3, <2>5, <2>8, InBlockShape
  <2>15. Kept(heap, params)'
    <3>1. \A i \in 1..Len(params) : params[i].to # r
      BY <1>2, <2>1
    <3>2. Kept(Stored(g, r, w), params)
      BY <2>5, <2>6, <2>8, <2>9, <2>14, <3>1, KeptStored
    <3> QED BY <1>1, <2>1, <3>2
  <2>16. SeenParams' = SeenParams
    <3>1. NamesIn(Stored(g, r, w), both.scopes, params) = NamesIn(g, both.scopes, params)
      BY <2>5, <2>6, <2>8, <2>9, <2>14, NamesStored
    <3> QED BY <1>1, <2>1, <2>10, <3>1 DEF SeenParams
  <2>17. s \in DOMAIN B[j][n].at /\ t \in DOMAIN B[k][m].at
    BY <1>18, <1>19, <2>1
  <2>18. CASE KnownIn(S, n) /\ KnownIn(S, m)
    <3>1. B = S /\ j = HomeIn(S, n) /\ k = HomeIn(S, m)
      BY <1>20, <2>18
    <3>2. Store!Swap(n, s, m, t)
      BY <1>1, <2>13, <2>16, <2>17, <2>18, <3>1, IsSwap DEF S
    <3>3. Store!Next
      BY <3>2 DEF Store!Next
    <3> QED BY <2>15, <3>3 DEF Refines
  <2>19. CASE ~KnownIn(S, n) \/ ~KnownIn(S, m)
    <3>1. SeenArrays' = IF ~(s \in DOMAIN B[j][n].at /\ t \in DOMAIN B[k][m].at) THEN B
                        ELSE Exchanged(B, j, n, s, k, m, t)
      BY <2>13, <2>17
    <3>2. Store!SwapNew(n, s, m, t)
      BY <1>1, <1>14, <2>16, <2>19, <3>1, IsSwapNew DEF S, A, j, k
    <3>3. Store!Next
      BY <3>2 DEF Store!Next
    <3> QED BY <2>15, <3>3 DEF Refines
  <2> QED BY <2>18, <2>19
<1> QED BY <1>21, <1>22

LEMMA InitRefines == Init => Store!Init /\ KeptInv
<1> SUFFICES ASSUME Init PROVE Store!Init /\ KeptInv
  OBVIOUS
<1>1. Inv
  BY InitSound
<1>2. params = <<>> /\ scopes = <<NoSymbols>>
  BY DEF Init
<1>3. Calls = 0 /\ Len(params) = 0
  BY <1>2 DEF Calls
<1>4. Kept(heap, params)
  BY <1>3 DEF Kept
<1>5. Own(1) = {}
  BY <1>2 DEF Own, NoSymbols
<1>6. OwnArrays(1) = [n \in {} |-> Store!Gone]
  BY <1>5 DEF OwnArrays
<1>7. [i \in 1..Calls |-> OwnArrays(i + 1)] = <<>> /\ [i \in 1..Calls |-> Named(params[i])] = <<>>
  BY <1>3
<1>8. <<OwnArrays(1)>> \o <<>> = <<OwnArrays(1)>>
  OBVIOUS
<1> QED BY <1>1, <1>4, <1>6, <1>7, <1>8 DEF Store!Init, KeptInv

LEMMA NextRefines ==
    ASSUME WellUsed, KeptInv, [Next]_vars
    PROVE  Refines /\ Inv'
<1>1. Inv'
  BY NextSound DEF KeptInv
<1>2. CASE UNCHANGED vars
  <2>1. UNCHANGED <<StoreArrays, StoreParams>>
    BY <1>2 DEF vars, StoreArrays, StoreParams, OwnArrays, OwnArray, Own, Named, Owner, Calls, Level
  <2>2. Kept(heap, params)'
    BY <1>2 DEF KeptInv, vars
  <2> QED BY <1>1, <2>1, <2>2 DEF Refines
<1>3. ASSUME NEW n \in Names, NEW b \in AllBounds, Free(State) # {}, ExecDim(n, b) PROVE Refines
  BY <1>1, <1>3, DimRefines
<1>4. ASSUME NEW n \in Names, NEW b \in AllBounds, Free(State) # {}, ExecRedim(n, b) PROVE Refines
  BY <1>1, <1>4, RedimRefines
<1>5. ASSUME NEW n \in Names, ExecErase(n) PROVE Refines
  BY <1>1, <1>5, EraseRefines
<1>6. ASSUME NEW n \in Names, ExecShared(n) PROVE Refines
  BY <1>1, <1>6, SharedRefines
<1>7. ASSUME NEW n \in Names, NEW s \in Subscripts, ExecPrint(n, s) PROVE Refines
  BY <1>1, <1>7, PrintRefines
<1>8. ASSUME NEW n \in Names, NEW s \in Subscripts, NEW v \in Values, ExecLet(n, s, v) PROVE Refines
  BY <1>1, <1>8, LetRefines
<1>9. ASSUME NEW n \in Names, NEW s \in Subscripts, NEW byval \in BOOLEAN, ExecCall(n, s, byval)
      PROVE  Refines
  BY <1>1, <1>9, CallRefines
<1>10. ASSUME NEW n \in Names, NEW m \in Names, NEW s \in Subscripts, NEW t \in Subscripts,
              ExecSwap(n, s, m, t) PROVE Refines
  BY <1>1, <1>10, SwapRefines
<1>11. ASSUME NEW v \in Values, ExecLetParam(v) PROVE Refines
  BY <1>1, <1>11, LetParamRefines
<1>12. CASE ProcedureReturn
  BY <1>1, <1>12, ReturnRefines
<1>13. CASE Next
  BY <1>1, <1>3, <1>4, <1>5, <1>6, <1>7, <1>8, <1>9, <1>10, <1>11, <1>12, <1>13 DEF Next, ExecStatement
<1> QED BY <1>1, <1>2, <1>13

(* To the program an array is a function from its subscripts, with a scope  *)
(* that it lives in, and a parameter is another name of the element passed: *)
(* blocks, the order of their elements, the pointers that SHARED copies and *)
(* the parameters' copies never show.                                       *)
THEOREM AlwaysArrayStore ==
    ASSUME WellUsed
    PROVE  Spec => ImplementsArrayStore
<1>1. Init => Store!Init /\ KeptInv
  BY InitRefines
<1>2. KeptInv /\ [Next]_vars => KeptInv'
  BY NextRefines DEF Refines, KeptInv
<1>3. KeptInv /\ [Next]_vars => [Store!Next]_(Store!vars)
  <2>1. UNCHANGED <<StoreArrays, StoreParams>> => UNCHANGED Store!vars
    BY DEF Store!vars, StoreArrays, StoreParams
  <2> QED BY <2>1, NextRefines DEF Refines
<1>4. Spec => Store!Init /\ [][Store!Next]_(Store!vars)
  BY <1>1, <1>2, <1>3, PTL DEF Spec
<1> QED BY <1>4 DEF ImplementsArrayStore, Store!Spec
================================================================================
