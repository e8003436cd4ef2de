------------------------------ MODULE DataPoolProofs ------------------------------
(***************************************************************************)
(* Proofs about DataPool, for all variables, DATA pools, lists of targets  *)
(* and depths: in a program that keeps to types every variable holds a     *)
(* value of its own type and what was READ is what the item says, and in   *)
(* every program each DATA item is accounted for.                          *)
(***************************************************************************)
EXTENDS DataPool, SequenceTheorems, FiniteSetTheorems, TLAPS

--------------------------------------------------------------------------------
(* Conversions: what comes out is an error or a value of the type asked for. *)

LEMMA Bounds ==
    /\ IntMin \in Int /\ IntMax \in Int /\ LongMin \in Int /\ LongMax \in Int
    /\ INTEGERs \subseteq Int /\ LONGs \subseteq Int /\ WildLong \in Int
  <1>1. IntMin \in Int /\ LongMin \in Int
    BY WidthsOK DEF IntMin, LongMin
  <1>. QED BY <1>1, WidthsOK DEF INTEGERs, LONGs

LEMMA RintIsInt == ASSUME NEW q \in Int \X Nat, q[2] # 0 PROVE Rint(q) \in Int
  BY DEF Rint

LEMMA RoundLongIsInt == ASSUME NEW q \in Int \X Nat PROVE RoundLong(q) \in Int
  BY RintIsInt, Bounds DEF RoundLong, InLong

LEMMA IntegerIsValue == ASSUME NEW n \in Int PROVE Integer(n) \in Values /\ Long(n) \in Values
  BY DEF Integer, Long, Num, Values, Types, NumericTypes

LEMMA ToSingleIsFraction == ASSUME NEW q \in Int \X Nat PROVE ToSingle(q) \in Int \X Nat
  <1> DEFINE e == CHOOSE e \in Finest(q) : TRUE
  <1>1. CASE q[2] = 0 \/ Finest(q) = {}
    BY <1>1 DEF ToSingle
  <1>2. CASE q[2] # 0 /\ Finest(q) # {}
    <2>1. e \in Exponents
      BY <1>2, Zenon DEF Finest
    <2>2. e \in Int /\ (IF e >= 0 THEN 2^e ELSE 2^(-e)) \in Nat \ {0}
      BY <2>1, WidthsOK
    <2>3. ToSingle(q) = IF e >= 0 THEN <<InSteps(q, e) * 2^e, 1>> ELSE <<InSteps(q, e), 2^(-e)>>
      BY <1>2 DEF ToSingle
    <2>. HIDE DEF e
    <2>4. CASE e >= 0
      <3> DEFINE two == 2^e
      <3>1. two \in Nat \ {0}
        BY <2>2, <2>4
      <3>. HIDE DEF two
      <3>2. <<q[1], q[2] * two>> \in Int \X Nat /\ q[2] * two # 0
        BY <1>2, <3>1
      <3>3. InSteps(q, e) \in Int
        BY <2>4, <3>2, RintIsInt DEF InSteps, two
      <3>. QED BY <2>3, <2>4, <3>1, <3>3 DEF two
    <2>5. CASE ~(e >= 0)
      <3> DEFINE two == 2^(-e)
      <3>1. two \in Nat \ {0}
        BY <2>2, <2>5
      <3>. HIDE DEF two
      <3>2. <<q[1] * two, q[2]>> \in Int \X Nat /\ q[2] # 0
        BY <1>2, <3>1
      <3>3. InSteps(q, e) \in Int
        BY <2>5, <3>2, RintIsInt DEF InSteps, two
      <3>. QED BY <2>3, <2>5, <3>1, <3>3 DEF two
    <2>. QED BY <2>4, <2>5
  <1>. QED BY <1>1, <1>2

LEMMA Coerced ==
    ASSUME NEW v \in Values, NEW t \in Types, ~Failed(Coerce(v, t))
    PROVE  Coerce(v, t) \in Values /\ Coerce(v, t).type = t
  <1>1. ToDouble(v) \in Int \X Nat
    BY DEF ToDouble, Values
  <1>2. ToLong(v) \in Int
    BY <1>1, RoundLongIsInt DEF ToLong
  <1>3. Failed(Error(TypeMismatch)) /\ Failed(Error(Overflow))
    BY DEF Failed, Error, Num
  <1>4. CASE v.type = t
    BY <1>4 DEF Coerce
  <1>5. CASE v.type # t /\ "STRING" \in {v.type, t}
    BY <1>5, <1>3 DEF Coerce
  <1>6. CASE v.type # t /\ "STRING" \notin {v.type, t}
    <2>1. CASE t = "INTEGER"
      BY <1>6, <2>1, <1>2, <1>3, IntegerIsValue, "INTEGER" # "LONG" DEF Coerce, Integer, Num
    <2>2. CASE t = "LONG"
      BY <1>6, <2>2, <1>2, IntegerIsValue DEF Coerce, Long, Num
    <2>3. CASE t \notin {"INTEGER", "LONG"}
      BY <1>1, <1>6, <2>3, ToSingleIsFraction DEF Coerce, InFloat, Num, Values
    <2>. QED BY <2>1, <2>2, <2>3
  <1>. QED BY <1>4, <1>5, <1>6

LEMMA CoercedTo ==
    ASSUME NEW v \in Values, NEW t \in Types, ~Failed(CoerceTo(v, t))
    PROVE  CoerceTo(v, t) \in Values /\ CoerceTo(v, t).type = t
  <1>1. t # Unset
    BY DEF Types, NumericTypes, Unset
  <1>. QED BY <1>1, Coerced DEF CoerceTo

LEMMA Read_ ==
    ASSUME NEW v \in Values, NEW t \in Types, ~Failed(ForRead(v, t))
    PROVE  ForRead(v, t) \in Values /\ ForRead(v, t).type = t
  <1>1. Text(v.what) \in Values /\ Text(v.what).type = "STRING"
    BY DEF Text, Values, Types
  <1>2. Num("DOUBLE", v.what) \in Values
    BY DEF Num, Values, Types, NumericTypes
  <1>3. CASE t = "STRING" /\ v.type # "STRING"
    BY <1>3, <1>1 DEF ForRead
  <1>4. CASE t # "STRING" /\ v.type = "STRING"
    BY <1>4, <1>2, CoercedTo DEF ForRead
  <1>5. CASE (t = "STRING") = (v.type = "STRING")
    BY <1>5, CoercedTo DEF ForRead
  <1>. QED BY <1>3, <1>4, <1>5

--------------------------------------------------------------------------------
(* The READs under way, as a sequence whose last element changes.           *)

LEMMA LastRead ==
    ASSUME NEW s \in Seq(Read), s # <<>>
    PROVE  Len(s) \in Nat \ {0} /\ Last(s) = s[Len(s)] /\ Last(s) \in Read
  <1>1. Len(s) \in Nat \ {0}
    BY EmptySeq
  <1>. QED BY <1>1, ElementOfSeq DEF Last

LEMMA Replaced ==
    ASSUME NEW s \in Seq(Read), s # <<>>, NEW r \in Read
    PROVE  /\ [s EXCEPT ![Len(s)] = r] \in Seq(Read) /\ Len([s EXCEPT ![Len(s)] = r]) = Len(s)
           /\ \A d \in 1..Len(s) : [s EXCEPT ![Len(s)] = r][d] = IF d = Len(s) THEN r ELSE s[d]
  <1>1. Len(s) \in 1..Len(s)
    BY EmptySeq
  <1>. QED BY <1>1, ExceptSeq

LEMMA TookItem ==
    ASSUME NEW q \in Read, NEW e \in {0} \cup Items
    PROVE  LET r == [q EXCEPT !.item = e, !.fresh = TRUE]
           IN  /\ r \in Read
               /\ r.item = e /\ r.i = q.i /\ r.list = q.list /\ r.fresh = TRUE
  BY DEF Read

LEMMA MovedOn ==
    ASSUME NEW q \in Read
    PROVE  LET r == [q EXCEPT !.i = q.i + 1, !.item = 0]
           IN  /\ r \in Read
               /\ r.item = 0 /\ r.i = q.i + 1 /\ r.list = q.list /\ r.fresh = q.fresh
  <1> DEFINE s == [q EXCEPT !.i = q.i + 1]
             r == [q EXCEPT !.i = q.i + 1, !.item = 0]
  <1>1. s \in Read /\ r = [s EXCEPT !.item = 0]
    BY DEF Read
  <1>2. [s EXCEPT !.item = 0] \in Read
    <2>. HIDE DEF s
    <2>. QED BY <1>1 DEF Read
  <1>3. r.item = 0 /\ r.i = q.i + 1 /\ r.list = q.list /\ r.fresh = q.fresh
    BY DEF Read
  <1>. QED BY <1>1, <1>2, <1>3

LEMMA Started ==
    ASSUME NEW s \in Seq(Read), NEW r \in Read
    PROVE  /\ Append(s, r) \in Seq(Read) /\ Len(Append(s, r)) = Len(s) + 1
           /\ \A d \in 1..Len(s) : Append(s, r)[d] = s[d]
           /\ Append(s, r)[Len(s) + 1] = r
  OBVIOUS

LEMMA Ended ==
    ASSUME NEW s \in Seq(Read), s # <<>>
    PROVE  /\ Front(s) \in Seq(Read) /\ Len(Front(s)) = Len(s) - 1
           /\ \A d \in 1..(Len(s) - 1) : Front(s)[d] = s[d]
  <1>1. Len(s) \in Nat \ {0}
    BY EmptySeq
  <1> DEFINE n == Len(s) - 1
  <1>2. n \in Nat /\ \A d \in 1..n : s[d] \in Read
    BY <1>1, ElementOfSeq
  <1>3. /\ SubSeq(s, 1, n) \in Seq(Read) /\ Len(SubSeq(s, 1, n)) = (IF 1 <= n THEN n - 1 + 1 ELSE 0)
        /\ \A d \in 1..(n - 1 + 1) : SubSeq(s, 1, n)[d] = s[1 + d - 1]
    <2>. HIDE DEF n
    <2>. QED BY <1>2, SubSeqProperties
  <1>4. Len(SubSeq(s, 1, n)) = n /\ \A d \in 1..n : SubSeq(s, 1, n)[d] = s[d]
    <2>. HIDE DEF n
    <2>1. n - 1 + 1 = n /\ \A d \in 1..n : 1 + d - 1 = d
      BY <1>2
    <2>. QED BY <1>2, <1>3, <2>1
  <1>. QED BY <1>3, <1>4 DEF Front

LEMMA Staled ==
    ASSUME NEW s \in Seq(Read)
    PROVE  LET t == [d \in 1..Len(s) |-> [s[d] EXCEPT !.fresh = FALSE]]
           IN  /\ t \in Seq(Read) /\ Len(t) = Len(s)
               /\ \A d \in 1..Len(s) : t[d] = [s[d] EXCEPT !.fresh = FALSE]
  <1> DEFINE t == [d \in 1..Len(s) |-> [s[d] EXCEPT !.fresh = FALSE]]
  <1>1. Len(s) \in Nat /\ \A d \in 1..Len(s) : s[d] \in Read
    BY LenProperties, ElementOfSeq
  <1>2. \A d \in 1..Len(s) : [s[d] EXCEPT !.fresh = FALSE] \in Read
    BY <1>1 DEF Read
  <1>3. t \in [1..Len(s) -> Read]
    BY <1>2
  <1>4. t \in Seq(Read) /\ Len(t) = Len(s)
    BY <1>1, <1>3, SeqDef
  <1>. QED BY <1>4

--------------------------------------------------------------------------------
(* Types.  TypeOK is not inductive: the copy that a SUB writes back must be *)
(* of the type of the variable it came from, and a READ that holds an item  *)
(* must have a target for it, its parameter only while the SUB is active.   *)

CallTyped ==
    call # NoCall =>
        /\ call \in [to : Names, type : VarTypes, value : Values, from : {0} \cup Items]
        /\ call.type = types[call.to] /\ call.value.type = call.type

ReadsServed ==
    \A d \in 1..Len(reads) :
        /\ reads[d].item # 0 => reads[d].i <= Len(reads[d].list)
        /\ Contains(reads[d].list, Param) => call # NoCall

TypedInv == TypeOK /\ CallTyped /\ ReadsServed

LEMMA ZeroTyped == ASSUME NEW t \in Types PROVE Zero(t) \in Values /\ Zero(t).type = t
  BY DEF Zero, Text, Num, Values, Types

LEMMA InitTyped == Init => TypedInv
  <1> SUFFICES ASSUME Init PROVE TypedInv
    OBVIOUS
  <1> USE DEF Init
  <1>1. types \in [Cells -> VarTypes] /\ VarTypes \subseteq Types
    BY TypesOK
  <1>2. cells \in [Cells -> Values] /\ TypesKept
    BY <1>1, ZeroTyped DEF TypesKept
  <1>3. call \in [to : Names \cup {"none"}, type : VarTypes \cup {Unset}, value : Values,
               from : {0} \cup Items]
    BY IntegerIsValue DEF NoCall
  <1>4. data_ptr \in 0..Len(Pool)
    BY TypesOK, LenProperties
  <1>5. reads \in Seq(Read) /\ Len(reads) = 0
    BY EmptySeq
  <1>6. from \in [Cells -> {0} \cup Items]
    OBVIOUS
  <1>7. Len(reads) <= Depth /\ 1..Len(reads) = {}
    BY <1>5, DataOK
  <1>8. Shape
    BY <1>1, <1>2, <1>3, <1>4, <1>5, <1>6, <1>7 DEF Shape
  <1>. QED BY <1>2, <1>7, <1>8 DEF TypeOK, TypedInv, CallTyped, ReadsServed

(* The address that a name leads to, and the type of what is there.         *)
LEMMA AddressTyped ==
    ASSUME TypedInv, NEW n \in Cells \cup {Param}, n = Param => call # NoCall
    PROVE  /\ Address(n) \in Cells /\ TypeOf(n) = types[Address(n)] /\ TypeOf(n) \in Types
           /\ n # Param => Address(n) = n
           /\ n = Param => Address(n) = call.to
  <1> USE DEF TypedInv, TypeOK, Shape, CallTyped, TypesKept, Cells
  <1>1. CASE n = Param
    <2>1. n \notin Elements
      BY <1>1, DataOK
    <2>2. Address(n) = call.to
      BY <1>1 DEF Address
    <2>4. TypeOf(n) = call.type
      BY <1>1, <2>1, Zenon DEF TypeOf
    <2>3. call.to \in Names /\ call.type = types[call.to]
      BY <1>1
    <2>. QED BY <1>1, <2>2, <2>3, <2>4, TypesOK
  <1>2. CASE n # Param
    <2>1. n \in Cells /\ Address(n) = n /\ types[n] \in Types
      BY <1>2, TypesOK DEF Address
    <2>2. CASE n \in Elements
      BY <1>2, <2>1, <2>2 DEF TypeOf
    <2>3. CASE n \notin Elements
      BY <1>2, <2>1, <2>3 DEF TypeOf
    <2>. QED BY <1>2, <2>1, <2>2, <2>3
  <1>. QED BY <1>1, <1>2

LEMMA TargetTyped ==
    ASSUME TypedInv, Holding
    PROVE  /\ Innermost.item \in Items /\ Pool[Innermost.item] \in Values
           /\ Innermost.i \in 1..Len(Innermost.list)
           /\ Address(Target) \in Cells
           /\ TypeOf(Target) = types[Address(Target)] /\ TypeOf(Target) \in Types
  <1> USE DEF TypedInv, TypeOK, Shape, Holding, Innermost
  <1>1. reads \in Seq(Read) /\ reads # <<>> /\ Last(reads).item # 0
    OBVIOUS
  <1>2. Len(reads) \in 1..Len(reads) /\ Last(reads) = reads[Len(reads)] /\ Last(reads) \in Read
    BY <1>1, LastRead
  <1>3. Last(reads).item \in Items /\ Last(reads).list \in Seq(Cells \cup {Param})
    BY <1>1, <1>2, TypesOK DEF Read
  <1>4. Last(reads).i \in 1..Len(Last(reads).list)
    BY <1>1, <1>2, <1>3, LenProperties DEF ReadsServed
  <1>5. Target \in Cells \cup {Param} /\ (Target = Param => Contains(Last(reads).list, Param))
    BY <1>3, <1>4, ElementOfSeq DEF Target, Contains
  <1>6. Target = Param => call # NoCall
    BY <1>2, <1>5 DEF ReadsServed
  <1>7. Pool[Last(reads).item] \in Values
    BY <1>3, TypesOK, ElementOfSeq DEF Items
  <1>. QED BY <1>3, <1>4, <1>5, <1>6, <1>7, AddressTyped

(* The parts of the invariant that the actions change one at a time.        *)
CellsTyped ==
    /\ types \in [Cells -> VarTypes] /\ cells \in [Cells -> Values] /\ TypesKept
    /\ from \in [Cells -> {0} \cup Items]
CallShape == call \in [to : Names \cup {"none"}, type : VarTypes \cup {Unset}, value : Values,
                       from : {0} \cup Items]
ReadsShape ==
    /\ reads \in Seq(Read) /\ Len(reads) <= Depth
    /\ \A d \in 1..Len(reads) :
          /\ reads[d].i \in 1..(Len(reads[d].list) + 1)
          /\ d < Len(reads) => reads[d].item # 0 /\ reads[d].list[reads[d].i] \in Elements
RestShape == data_ptr \in 0..Len(Pool) /\ trap \in BOOLEAN /\ status \in {"running", "stopped"}

LEMMA Parts ==
    TypedInv <=> CellsTyped /\ CallShape /\ CallTyped /\ ReadsShape /\ ReadsServed /\ RestShape
  BY DEF TypedInv, TypeOK, Shape, CellsTyped, CallShape, ReadsShape, RestShape

LEMMA PartsNext ==
    ASSUME CellsTyped', CallShape', CallTyped', ReadsShape', ReadsServed', RestShape'
    PROVE  TypedInv'
  BY DEF TypedInv, TypeOK, Shape, CellsTyped, CallShape, ReadsShape, RestShape

LEMMA CellsKept == CellsTyped /\ UNCHANGED <<types, cells, from>> => CellsTyped'
  BY DEF CellsTyped, TypesKept

LEMMA CallKept ==
    CallShape /\ CallTyped /\ UNCHANGED <<types, call>> => CallShape' /\ CallTyped'
  BY DEF CallShape, CallTyped

LEMMA ReadsKept ==
    ReadsShape /\ ReadsServed /\ UNCHANGED reads /\ (call # NoCall => call' # NoCall)
        => ReadsShape' /\ ReadsServed'
  BY DEF ReadsShape, ReadsServed

LEMMA NoReads == reads' = <<>> => ReadsShape' /\ ReadsServed'
  <1> SUFFICES ASSUME reads' = <<>> PROVE ReadsShape' /\ ReadsServed'
    OBVIOUS
  <1>1. reads' \in Seq(Read) /\ Len(reads') = 0
    BY EmptySeq
  <1>2. 1..Len(reads') = {} /\ Len(reads') <= Depth
    BY <1>1, DataOK
  <1>. QED BY <1>1, <1>2 DEF ReadsShape, ReadsServed

LEMMA CellStored ==
    ASSUME CellsTyped, NEW a \in Cells, NEW v \in Values, v.type = types[a], NEW it \in {0} \cup Items,
           types' = types, cells' = [cells EXCEPT ![a] = v], from' = [from EXCEPT ![a] = it]
    PROVE  CellsTyped'
  BY DEF CellsTyped, TypesKept

LEMMA FailTyped == ASSUME TypedInv, NEW stmt, Fail(stmt) PROVE TypedInv'
  <1> USE DEF Fail
  <1>1. CellsTyped' /\ CallShape' /\ CallTyped'
    BY Parts, CellsKept, CallKept
  <1>2. ReadsShape' /\ ReadsServed'
    BY NoReads
  <1>3. RestShape'
    BY Parts DEF RestShape
  <1>. QED BY <1>1, <1>2, <1>3, PartsNext

--------------------------------------------------------------------------------
(* The steps of READ.                                                       *)

LEMMA ReadStartTyped == ASSUME TypedInv, NEW l \in Lists, ReadStart(l) PROVE TypedInv'
  <1> USE DEF ReadStart, history
  <1> DEFINE r == [list |-> l, i |-> 1, item |-> 0, fresh |-> TRUE]
             n == Len(reads)
  <1>1. CellsTyped' /\ CallShape' /\ CallTyped' /\ RestShape'
    BY Parts, CellsKept, CallKept DEF RestShape
  <1>2. r \in Read /\ reads \in Seq(Read) /\ reads' = Append(reads, r)
    BY Parts DEF Read, ReadsShape
  <1>3. /\ reads' \in Seq(Read) /\ Len(reads') = n + 1 /\ n \in Nat
        /\ \A d \in 1..n : reads'[d] = reads[d]
        /\ reads'[n + 1] = r
    BY <1>2, Started, LenProperties
  <1>4. n + 1 <= Depth
    BY <1>3, DataOK
  <1>5. Len(l) \in Nat
    BY TypesOK, LenProperties
  <1>6. ASSUME n # 0 PROVE reads[n].item # 0 /\ reads[n].list[reads[n].i] \in Elements
    BY <1>2, <1>6, EmptySeq DEF MayStart, Holding, Target, Innermost, Last
  <1>7. ReadsShape'
    <2>1. ASSUME NEW d \in 1..(n + 1)
          PROVE  /\ reads'[d].i \in 1..(Len(reads'[d].list) + 1)
                 /\ d < n + 1 => reads'[d].item # 0 /\ reads'[d].list[reads'[d].i] \in Elements
      <3>1. CASE d = n + 1
        BY <1>3, <1>5, <3>1
      <3>2. CASE d = n /\ n # 0
        BY <1>3, <1>6, <3>2, Parts DEF ReadsShape
      <3>3. CASE d < n
        BY <1>3, <3>3, Parts DEF ReadsShape
      <3>. QED BY <1>3, <3>1, <3>2, <3>3
    <2>. QED BY <1>3, <1>4, <2>1 DEF ReadsShape
  <1>8. ReadsServed'
    <2>1. ASSUME NEW d \in 1..(n + 1)
          PROVE  /\ reads'[d].item # 0 => reads'[d].i <= Len(reads'[d].list)
                 /\ Contains(reads'[d].list, Param) => call' # NoCall
      <3>1. CASE d = n + 1
        BY <1>3, <3>1
      <3>2. CASE d \in 1..n
        BY <1>3, <3>2, Parts DEF ReadsServed
      <3>. QED BY <1>3, <3>1, <3>2
    <2>. QED BY <1>3, <2>1 DEF ReadsServed
  <1>. QED BY <1>1, <1>7, <1>8, PartsNext

LEMMA TakeItemTyped == ASSUME TypedInv, TakeItem PROVE TypedInv'
  <1> USE DEF TakeItem, Reading, history
  <1> DEFINE n == Len(reads)
             r == [Innermost EXCEPT !.item = data_ptr + 1, !.fresh = TRUE]
  <1>1. CellsTyped' /\ CallShape' /\ CallTyped'
    BY Parts, CellsKept, CallKept
  <1>2. reads \in Seq(Read) /\ reads # <<>> /\ n \in Nat \ {0} /\ reads[n] \in Read
        /\ Innermost = reads[n]
    BY Parts, LastRead DEF ReadsShape, Innermost
  <1>3. data_ptr + 1 \in 1..Len(Pool) /\ data_ptr' = data_ptr + 1
    BY Parts, TypesOK, LenProperties DEF RestShape, Moved
  <1>4. RestShape'
    BY <1>3, Parts DEF RestShape
  <1>5. r \in Read /\ r.item # 0 /\ r.i = reads[n].i /\ r.list = reads[n].list
    <2>1. data_ptr + 1 \in {0} \cup Items
      BY <1>3 DEF Items
    <2>2. data_ptr + 1 # 0
      BY <1>3
    <2>3. /\ r \in Read
          /\ r.item = data_ptr + 1 /\ r.i = Innermost.i /\ r.list = Innermost.list
      <3>1. Innermost \in Read
        BY <1>2
      <3>. HIDE DEF TakeItem, Reading
      <3>. QED BY <2>1, <3>1, TookItem, Zenon
    <2>. QED BY <1>2, <2>2, <2>3
  <1>6. /\ reads' \in Seq(Read) /\ Len(reads') = n
        /\ \A d \in 1..n : reads'[d] = IF d = n THEN r ELSE reads[d]
    BY <1>2, <1>5, Replaced
  <1>7. ReadsShape'
    <2>1. ASSUME NEW d \in 1..n
          PROVE  /\ reads'[d].i \in 1..(Len(reads'[d].list) + 1)
                 /\ d < n => reads'[d].item # 0 /\ reads'[d].list[reads'[d].i] \in Elements
      BY <1>2, <1>5, <1>6, Parts DEF ReadsShape
    <2>. QED BY <1>6, <2>1, Parts DEF ReadsShape
  <1>8. ReadsServed'
    <2>1. ASSUME NEW d \in 1..n
          PROVE  /\ reads'[d].item # 0 => reads'[d].i <= Len(reads'[d].list)
                 /\ Contains(reads'[d].list, Param) => call' # NoCall
      BY <1>2, <1>5, <1>6, Parts DEF ReadsServed
    <2>. QED BY <1>6, <2>1 DEF ReadsServed
  <1>. QED BY <1>1, <1>4, <1>7, <1>8, PartsNext

LEMMA StoreItemTyped == ASSUME TypedInv, StoreItem PROVE TypedInv'
  <1> DEFINE it == Innermost.item
             a  == Address(Target)
             v  == ForRead(Pool[it], TypeOf(Target))
             n  == Len(reads)
             r  == [Innermost EXCEPT !.i = Innermost.i + 1, !.item = 0]
  <1>1. Holding /\ (Failed(v) => Fail(NoStmt))
    BY DEF StoreItem
  <1>2. CASE Failed(v)
    BY <1>1, <1>2, FailTyped
  <1>3. CASE ~Failed(v)
    <2>1. /\ cells' = [cells EXCEPT ![a] = v] /\ from' = [from EXCEPT ![a] = it]
          /\ reads' = [reads EXCEPT ![n] = r] /\ data_ptr' = data_ptr
          /\ UNCHANGED <<types, call, trap, status>>
      <3>1. Moved("store") = data_ptr
        BY DEF Moved
      <3>. QED BY <1>3, <3>1, Zenon DEF StoreItem
    <2>2. /\ it \in Items /\ Pool[it] \in Values /\ a \in Cells
          /\ TypeOf(Target) = types[a] /\ TypeOf(Target) \in Types
          /\ Innermost.i \in 1..Len(Innermost.list)
      BY <1>1, TargetTyped
    <2>3. v \in Values /\ v.type = types[a]
      BY <1>3, <2>2, Read_
    <2>4. CellsTyped'
      <3>. HIDE DEF a, v, it
      <3>. QED BY <2>1, <2>2, <2>3, CellStored, Parts
    <2>5. CallShape' /\ CallTyped' /\ RestShape'
      BY <2>1, Parts, CallKept DEF RestShape
    <2>6. /\ reads \in Seq(Read) /\ reads # <<>> /\ n \in Nat \ {0} /\ reads[n] \in Read
          /\ Innermost = reads[n]
      BY <1>1, Parts, LastRead DEF ReadsShape, Innermost, Holding
    <2>7. r \in Read /\ r.item = 0 /\ r.i = reads[n].i + 1 /\ r.list = reads[n].list
      BY <2>6, MovedOn
    <2>8. /\ reads' \in Seq(Read) /\ Len(reads') = n
          /\ \A d \in 1..n : reads'[d] = IF d = n THEN r ELSE reads[d]
      BY <2>1, <2>6, <2>7, Replaced
    <2>9. Len(reads[n].list) \in Nat /\ reads[n].i \in 1..Len(reads[n].list)
      BY <2>2, <2>6, TypesOK, LenProperties DEF Read
    <2>10. ReadsShape'
      <3>1. ASSUME NEW d \in 1..n
            PROVE  /\ reads'[d].i \in 1..(Len(reads'[d].list) + 1)
                   /\ d < n => reads'[d].item # 0 /\ reads'[d].list[reads'[d].i] \in Elements
        <4>. HIDE DEF r
        <4>1. CASE d = n
          BY <2>6, <2>7, <2>8, <2>9, <4>1
        <4>2. CASE d < n
          BY <2>6, <2>8, <4>2, Parts DEF ReadsShape
        <4>. QED BY <2>6, <4>1, <4>2
      <3>. QED BY <2>8, <3>1, Parts DEF ReadsShape
    <2>11. ReadsServed'
      <3>1. ASSUME NEW d \in 1..n
            PROVE  /\ reads'[d].item # 0 => reads'[d].i <= Len(reads'[d].list)
                   /\ Contains(reads'[d].list, Param) => call' # NoCall
        <4>. HIDE DEF r
        <4>1. /\ reads[d].item # 0 => reads[d].i <= Len(reads[d].list)
              /\ Contains(reads[d].list, Param) => call # NoCall
          BY Parts DEF ReadsServed
        <4>2. reads'[d].list = reads[d].list
          BY <2>6, <2>7, <2>8
        <4>3. reads'[d].item # 0 => reads'[d].i = reads[d].i /\ reads[d].item # 0
          BY <2>6, <2>7, <2>8
        <4>4. call' = call
          BY <2>1
        <4>. QED BY <4>1, <4>2, <4>3, <4>4
      <3>. QED BY <2>8, <3>1 DEF ReadsServed
    <2>. QED BY <2>4, <2>5, <2>10, <2>11, PartsNext
  <1>. QED BY <1>2, <1>3

LEMMA ReadEndTyped == ASSUME TypedInv, ReadEnd PROVE TypedInv'
  <1> USE DEF ReadEnd, Reading, history
  <1> DEFINE n == Len(reads) - 1
  <1>1. CellsTyped' /\ CallShape' /\ CallTyped' /\ RestShape'
    BY Parts, CellsKept, CallKept DEF RestShape
  <1>2. reads \in Seq(Read) /\ reads # <<>> /\ Len(reads) \in Nat \ {0}
    BY Parts, EmptySeq DEF ReadsShape
  <1>3. /\ reads' \in Seq(Read) /\ Len(reads') = n
        /\ \A d \in 1..n : reads'[d] = reads[d]
    BY <1>2, Ended
  <1>4. ReadsShape'
    <2>1. ASSUME NEW d \in 1..n
          PROVE  /\ reads'[d].i \in 1..(Len(reads'[d].list) + 1)
                 /\ d < n => reads'[d].item # 0 /\ reads'[d].list[reads'[d].i] \in Elements
      BY <1>2, <1>3, Parts DEF ReadsShape
    <2>2. n <= Depth
      BY <1>2, Parts, DataOK DEF ReadsShape
    <2>. QED BY <1>3, <2>1, <2>2 DEF ReadsShape
  <1>5. ReadsServed'
    <2>1. ASSUME NEW d \in 1..n
          PROVE  /\ reads'[d].item # 0 => reads'[d].i <= Len(reads'[d].list)
                 /\ Contains(reads'[d].list, Param) => call' # NoCall
      <3>1. d \in 1..Len(reads) /\ reads'[d] = reads[d] /\ call' = call
        BY <1>2, <1>3
      <3>2. /\ reads[d].item # 0 => reads[d].i <= Len(reads[d].list)
            /\ Contains(reads[d].list, Param) => call # NoCall
        BY <3>1, Parts DEF ReadsServed
      <3>. QED BY <3>1, <3>2
    <2>. QED BY <1>3, <2>1 DEF ReadsServed
  <1>. QED BY <1>1, <1>4, <1>5, PartsNext

LEMMA ExecRestoreTyped ==
    ASSUME TypedInv, NEW l \in DOMAIN DataAt, ExecRestore(l) PROVE TypedInv'
  <1> USE DEF ExecRestore
  <1> DEFINE n == Len(reads)
  <1>1. CellsTyped' /\ CallShape' /\ CallTyped'
    BY Parts, CellsKept, CallKept
  <1>2. data_ptr' = 0
    BY DEF RestoreIndex, data_labels
  <1>3. RestShape'
    BY <1>2, Parts, TypesOK, LenProperties DEF RestShape
  <1>4. reads \in Seq(Read) /\ n \in Nat /\ \A d \in 1..n : reads[d] \in Read
    BY Parts, LenProperties, ElementOfSeq DEF ReadsShape
  <1>5. /\ reads' \in Seq(Read) /\ Len(reads') = n
        /\ \A d \in 1..n : reads'[d] = [reads[d] EXCEPT !.fresh = FALSE]
    BY <1>4, Staled
  <1>6. \A d \in 1..n : /\ reads'[d].i = reads[d].i /\ reads'[d].list = reads[d].list
                         /\ reads'[d].item = reads[d].item
    BY <1>4, <1>5 DEF Read
  <1>7. ReadsShape'
    BY <1>5, <1>6, Parts DEF ReadsShape
  <1>8. ReadsServed'
    BY <1>5, <1>6, Parts DEF ReadsServed
  <1>. QED BY <1>1, <1>3, <1>7, <1>8, PartsNext

--------------------------------------------------------------------------------
(* The other statements.                                                    *)

LEMMA ExecLetTyped ==
    ASSUME TypedInv, NEW m \in Names \cup {Param}, NEW w \in LetValues, ExecLet(m, w)
    PROVE  TypedInv'
  <1> DEFINE a == Address(m)
             v == CoerceTo(w, TypeOf(m))
  <1>1. (m = Param => call # NoCall) /\ (Failed(v) => Fail(<<"let", m, w>>))
    BY DEF ExecLet
  <1>2. CASE Failed(v)
    BY <1>1, <1>2, FailTyped
  <1>3. CASE ~Failed(v)
    <2>1. /\ cells' = [cells EXCEPT ![a] = v] /\ from' = [from EXCEPT ![a] = 0]
          /\ call' = IF m = Param THEN [call EXCEPT !.value = v, !.from = 0] ELSE call
          /\ UNCHANGED <<types, data_ptr, reads, trap, status>>
      BY <1>3, Zenon DEF ExecLet
    <2>2. /\ a \in Cells /\ TypeOf(m) = types[a] /\ TypeOf(m) \in Types
          /\ m = Param => a = call.to
      BY <1>1, AddressTyped DEF Cells
    <2>3. w \in Values
      BY TypesOK
    <2>4. v \in Values /\ v.type = types[a]
      BY <1>3, <2>2, <2>3, CoercedTo
    <2>5. CellsTyped'
      <3>. HIDE DEF a, v
      <3>. QED BY <2>1, <2>2, <2>4, CellStored, Parts
    <2>6. CallShape' /\ CallTyped'
      <3>. HIDE DEF a, v
      <3>1. CASE m # Param
        BY <2>1, <3>1, Parts, CallKept
      <3>2. CASE m = Param
        <4>1. call # NoCall /\ call \in [to : Names, type : VarTypes, value : Values, from : {0} \cup Items]
              /\ call.type = types[call.to]
          BY <1>1, <3>2, Parts DEF CallTyped
        <4>2. call' = [call EXCEPT !.value = v, !.from = 0] /\ types' = types /\ v.type = call.type
          BY <2>1, <2>2, <2>4, <3>2, <4>1
        <4>3. /\ call' \in [to : Names, type : VarTypes, value : Values, from : {0} \cup Items]
              /\ call'.to = call.to /\ call'.type = call.type /\ call'.value = v
              /\ call'.from = 0
          BY <2>4, <4>1, <4>2
        <4>4. CallTyped'
          BY <4>1, <4>2, <4>3 DEF CallTyped
        <4>5. CallShape'
          BY <4>3 DEF CallShape
        <4>. QED BY <4>4, <4>5
      <3>. QED BY <3>1, <3>2
    <2>7. call # NoCall => call' # NoCall
      <3>. HIDE DEF a, v
      <3>1. CASE m # Param
        BY <2>1, <3>1
      <3>2. CASE m = Param
        <4>1. call.to \in Names /\ call' = [call EXCEPT !.value = v, !.from = 0]
              /\ call \in [to : Names, type : VarTypes, value : Values, from : {0} \cup Items]
          BY <1>1, <2>1, <3>2, Parts DEF CallTyped
        <4>2. call'.type \in Types
          BY <4>1, TypesOK
        <4>. QED BY <4>2 DEF NoCall, Unset, Types, NumericTypes
      <3>. QED BY <3>1, <3>2
    <2>8. ReadsShape' /\ ReadsServed' /\ RestShape'
      BY <2>1, <2>7, Parts, ReadsKept DEF RestShape
    <2>. QED BY <2>5, <2>6, <2>8, PartsNext
  <1>. QED BY <1>2, <1>3

LEMMA ExecSwapTyped ==
    ASSUME TypedInv, WellTyped, NEW m \in Names, NEW k \in Names, ExecSwap(m, k)
    PROVE  TypedInv'
  <1> USE DEF ExecSwap
  <1>1. types[m] = types[k] /\ m \in Cells /\ k \in Cells
    BY DEF Cells
  <1>2. CellsTyped'
    BY <1>1, Parts DEF CellsTyped, TypesKept
  <1>3. CallShape' /\ CallTyped' /\ ReadsShape' /\ ReadsServed' /\ RestShape'
    BY Parts, CallKept, ReadsKept DEF RestShape
  <1>. QED BY <1>2, <1>3, PartsNext

LEMMA ExecCallTyped ==
    ASSUME TypedInv, WellTyped, NEW m \in Names, NEW t \in VarTypes \cup {Unset}, ExecCall(m, t)
    PROVE  TypedInv'
  <1> DEFINE v == CoerceTo(cells[m], t)
  <1>1. t = types[m] /\ reads = <<>> /\ (Failed(v) => Fail(NoStmt))
    BY DEF ExecCall
  <1>2. CASE Failed(v)
    BY <1>1, <1>2, FailTyped
  <1>3. CASE ~Failed(v)
    <2>1. /\ call' = [to |-> m, type |-> t, value |-> v,
                     from |-> IF t = types[m] THEN from[m] ELSE 0]
          /\ UNCHANGED <<types, cells, data_ptr, reads, trap, status, from>>
      BY <1>3, Zenon DEF ExecCall, history
    <2>2. t \in VarTypes /\ t \in Types /\ cells[m] \in Values /\ from[m] \in {0} \cup Items
      BY <1>1, Parts, TypesOK DEF CellsTyped, Cells
    <2>3. v \in Values /\ v.type = t
      BY <1>3, <2>2, CoercedTo
    <2>4. CallShape' /\ CallTyped'
      <3>. HIDE DEF v
      <3>. QED BY <1>1, <2>1, <2>2, <2>3 DEF CallShape, CallTyped
    <2>5. CellsTyped' /\ ReadsShape' /\ ReadsServed' /\ RestShape'
      <3>. HIDE DEF v
      <3>. QED BY <1>1, <2>1, Parts, CellsKept, NoReads DEF RestShape
    <2>. QED BY <2>4, <2>5, PartsNext
  <1>. QED BY <1>2, <1>3

LEMMA ProcedureReturnTyped == ASSUME TypedInv, ProcedureReturn PROVE TypedInv'
  <1> USE DEF ProcedureReturn
  <1>1. /\ call.to \in Cells /\ call.value \in Values /\ call.value.type = types[call.to]
        /\ call.from \in {0} \cup Items
    BY Parts DEF CallTyped, Cells
  <1>2. CellsTyped'
    BY <1>1, Parts, CellStored
  <1>3. CallShape' /\ CallTyped'
    BY IntegerIsValue DEF CallShape, CallTyped, NoCall
  <1>4. ReadsShape' /\ ReadsServed' /\ RestShape'
    BY Parts, NoReads DEF RestShape
  <1>. QED BY <1>2, <1>3, <1>4, PartsNext

(* Of a step that leaves variables, parameter and READs as they are.        *)
LEMMA ControlTyped ==
    ASSUME TypedInv, UNCHANGED <<types, cells, call, data_ptr, reads, status, from>>,
           trap' \in BOOLEAN
    PROVE  TypedInv'
  <1>1. CellsTyped' /\ CallShape' /\ CallTyped' /\ ReadsShape' /\ ReadsServed' /\ RestShape'
    BY Parts, CellsKept, CallKept, ReadsKept DEF RestShape
  <1>. QED BY <1>1, PartsNext

LEMMA NextTyped == ASSUME WellTyped, TypedInv, [Next]_vars PROVE TypedInv'
  <1>1. CASE \E l \in Lists : ReadStart(l)
    BY <1>1, ReadStartTyped
  <1>2. CASE TakeItem
    BY <1>2, TakeItemTyped
  <1>3. CASE OutOfData
    BY <1>3, FailTyped DEF OutOfData
  <1>4. CASE StoreItem
    BY <1>4, StoreItemTyped
  <1>5. CASE ReadEnd
    BY <1>5, ReadEndTyped
  <1>6. CASE \E l \in DOMAIN DataAt : ExecRestore(l)
    BY <1>6, ExecRestoreTyped
  <1>7. CASE \E n \in Names \cup {Param}, v \in LetValues : ExecLet(n, v)
    BY <1>7, ExecLetTyped
  <1>8. CASE \E n, m \in Names : ExecSwap(n, m)
    BY <1>8, ExecSwapTyped
  <1>9. CASE \E n \in Names, t \in VarTypes \cup {Unset} : ExecCall(n, t)
    BY <1>9, ExecCallTyped
  <1>10. CASE ProcedureReturn
    BY <1>10, ProcedureReturnTyped
  <1>11. CASE ExecOnError
    BY <1>11, ControlTyped DEF ExecOnError, history
  <1>12. CASE ExecResume
    BY <1>12, ControlTyped, Parts DEF ExecResume, history, RestShape
  <1>13. CASE ExecResumeNext
    BY <1>13, ControlTyped, Parts DEF ExecResumeNext, history, RestShape
  <1>14. CASE UNCHANGED vars
    BY <1>14, ControlTyped, Parts DEF vars, RestShape
  <1>. QED BY <1>1, <1>2, <1>3, <1>4, <1>5, <1>6, <1>7, <1>8, <1>9, <1>10, <1>11, <1>12,
              <1>13, <1>14 DEF Next, Stopped

(* In a program that SWAPs only variables of one type and gives a SUB only  *)
(* variables of its parameter's type, no READ, LET, SWAP, call, return or   *)
(* trapped error ever leaves a variable with a value of another type.       *)
THEOREM TypesAlwaysKept == ASSUME WellTyped PROVE Spec => []TypeOK
  <1>1. Init => TypedInv
    BY InitTyped
  <1>2. TypedInv /\ [Next]_vars => TypedInv'
    BY NextTyped
  <1>3. TypedInv => TypeOK
    BY DEF TypedInv
  <1>. QED BY <1>1, <1>2, <1>3, PTL DEF Spec

--------------------------------------------------------------------------------
(* What READ stores of an item that the manual lets it read.                *)

(* rint is off by at most a half.                                           *)
LEMMA RintIsNearest ==
    ASSUME NEW n \in Int, NEW d \in Nat \ {0}
    PROVE  LET twice == 2 * (Rint(<<n, d>>) * d - n) IN twice <= d /\ -twice <= d
  <1> DEFINE f == n \div d
             m == n % d
  <1>1. f \in Int /\ m \in 0..(d - 1) /\ n = f * d + m
    OBVIOUS
  <1>2. Rint(<<n, d>>) = IF 2 * m < d \/ (2 * m = d /\ f % 2 = 0) THEN f ELSE f + 1
    BY DEF Rint
  <1>. HIDE DEF f, m
  <1>3. (f + 1) * d = f * d + d /\ f * d \in Int
    BY <1>1
  <1>4. CASE Rint(<<n, d>>) = f /\ 2 * m <= d
    <2>1. 2 * (f * d - n) = -(2 * m)
      BY <1>1, <1>3
    <2>. QED BY <1>1, <1>4, <2>1
  <1>5. CASE Rint(<<n, d>>) = f + 1 /\ 2 * m >= d
    <2>1. 2 * ((f + 1) * d - n) = 2 * d - 2 * m
      BY <1>1, <1>3
    <2>. QED BY <1>1, <1>5, <2>1
  <1>. QED BY <1>1, <1>2, <1>4, <1>5

(* An integer that coercion makes of a number is the nearest one.           *)
LEMMA RoundedSays ==
    ASSUME NEW item, item.what \in Int \X Nat, item.what[2] # 0,
           NEW v, v.type \in {"INTEGER", "LONG"}, v.what[1] = Rint(item.what)
    PROVE  Says(v, item)
  <1> DEFINE q == item.what
  <1>1. q = <<q[1], q[2]>> /\ q[1] \in Int /\ q[2] \in Nat \ {0}
    OBVIOUS
  <1>2. LET twice == 2 * (Rint(q) * q[2] - q[1]) IN twice <= q[2] /\ -twice <= q[2]
    BY <1>1, RintIsNearest
  <1>. QED BY <1>2 DEF Says

LEMMA CoercedSays ==
    ASSUME NEW w \in Values, NEW t \in VarTypes, ~Failed(Coerce(w, t)), Readable(w, t),
           w.type \in {"INTEGER", "LONG"} => w.what[2] = 1
    PROVE  Says(Coerce(w, t), w)
  <1>1. w.what \in Int \X Nat /\ w.type \in Types /\ t \in Types
    BY TypesOK DEF Values
  <1>2. Failed(Error(TypeMismatch)) /\ Failed(Error(Overflow))
    BY DEF Failed, Error, Num
  <1>3. CASE w.type = t
    <2>1. Coerce(w, t) = w
      BY <1>3 DEF Coerce
    <2>2. CASE t \in {"INTEGER", "LONG"}
      <3>1. w.what[1] \in Int /\ w.what[2] = 1
        BY <1>1, <1>3, <2>2
      <3>2. LET twice == 2 * (w.what[1] * w.what[2] - w.what[1])
            IN  twice <= w.what[2] /\ -twice <= w.what[2]
        BY <3>1
      <3>. QED BY <1>3, <2>1, <2>2, <3>2 DEF Says
    <2>3. CASE t \notin {"INTEGER", "LONG"}
      BY <1>3, <2>1, <2>3 DEF Says
    <2>. QED BY <2>2, <2>3
  <1>4. CASE w.type # t /\ "STRING" \in {w.type, t}
    BY <1>2, <1>4 DEF Coerce
  <1>5. CASE w.type # t /\ "STRING" \notin {w.type, t}
    <2>1. ToLong(w) = RoundLong(w.what)
      BY <1>5 DEF ToLong, ToDouble
    <2>2. CASE t \in {"INTEGER", "LONG"}
      <3>1. w.what[2] # 0 /\ Rint(w.what) \in LONGs
        BY <2>2 DEF Readable
      <3>2. ToLong(w) = Rint(w.what)
        BY <2>1, <3>1 DEF RoundLong, InLong
      <3>3. CASE t = "INTEGER"
        <4>1. Coerce(w, t) = Integer(ToLong(w))
          BY <1>2, <1>5, <3>3 DEF Coerce
        <4>2. Coerce(w, t).type = "INTEGER" /\ Coerce(w, t).what[1] = Rint(w.what)
          BY <3>2, <4>1 DEF Integer, Num
        <4>. QED BY <1>1, <3>1, <4>2, RoundedSays
      <3>4. CASE t = "LONG"
        <4>1. "LONG" # "INTEGER"
          OBVIOUS
        <4>2. Coerce(w, t) = Long(ToLong(w))
          BY <1>5, <3>4, <4>1 DEF Coerce
        <4>3. Coerce(w, t).type = "LONG" /\ Coerce(w, t).what[1] = Rint(w.what)
          BY <3>2, <4>2 DEF Long, Num
        <4>. QED BY <1>1, <3>1, <4>3, RoundedSays
      <3>. QED BY <2>2, <3>3, <3>4
    <2>3. CASE t \notin {"INTEGER", "LONG"}
      <3>1. Coerce(w, t) = InFloat(t, w.what)
        BY <1>5, <2>3 DEF Coerce
      <3>2. CASE t = "SINGLE"
        <4>1. Coerce(w, t).type = "SINGLE" /\ Coerce(w, t).what = ToSingle(w.what)
          BY <3>1, <3>2 DEF InFloat, Num
        <4>. QED BY <1>5, <3>2, <4>1 DEF Says
      <3>3. CASE t # "SINGLE"
        <4>1. Coerce(w, t).type = t /\ Coerce(w, t).what = w.what
          BY <3>1, <3>3 DEF InFloat, Num
        <4>. QED BY <2>3, <3>3, <4>1 DEF Says
      <3>. QED BY <3>2, <3>3
    <2>. QED BY <2>2, <2>3
  <1>. QED BY <1>3, <1>4, <1>5

LEMMA ReadSays ==
    ASSUME NEW it \in Items, NEW t \in VarTypes, ~Failed(ForRead(Pool[it], t)),
           Readable(Pool[it], t)
    PROVE  Says(ForRead(Pool[it], t), Pool[it])
  <1> DEFINE w == Pool[it]
  <1>1. w \in Values /\ (w.type \in {"INTEGER", "LONG"} => w.what[2] = 1)
    BY TypesOK, ElementOfSeq DEF Items
  <1>2. Readable(w, t)
    OBVIOUS
  <1>. HIDE DEF w
  <1>3. t # Unset
    BY TypesOK DEF Types, NumericTypes, Unset
  <1>4. CASE t = "STRING" /\ w.type # "STRING"
    <2>1. ForRead(w, t) = Text(w.what)
      BY <1>4 DEF ForRead
    <2>. QED BY <2>1 DEF Says, Text, w
  <1>5. CASE (t = "STRING") = (w.type = "STRING")
    <2>1. ForRead(w, t) = Coerce(w, t)
      BY <1>3, <1>5 DEF ForRead, CoerceTo
    <2>2. ~Failed(Coerce(w, t))
      BY <2>1 DEF w
    <2>3. Says(Coerce(w, t), w)
      BY <1>1, <1>2, <2>2, CoercedSays
    <2>. QED BY <2>1, <2>3 DEF w
  <1>. QED BY <1>2, <1>4, <1>5 DEF Readable

(* Every value that was READ says what its item says, and so does the copy  *)
(* that a parameter keeps of one.                                           *)
CopyExact == Faithful(call.value, call.from)
ExactInv  == TypedInv /\ ReadExact /\ CopyExact

LEMMA ExactKept ==
    /\ ReadExact /\ UNCHANGED <<cells, from>> => ReadExact'
    /\ CopyExact /\ UNCHANGED call => CopyExact'
  BY DEF ReadExact, CopyExact, Faithful

LEMMA ExactStored ==
    ASSUME ReadExact, CellsTyped, NEW a \in Cells, NEW v, NEW it, Faithful(v, it),
           cells' = [cells EXCEPT ![a] = v], from' = [from EXCEPT ![a] = it]
    PROVE  ReadExact'
  <1> SUFFICES ASSUME NEW c \in Cells PROVE Faithful(cells'[c], from'[c])
    BY DEF ReadExact, Faithful
  <1>1. DOMAIN cells = Cells /\ DOMAIN from = Cells
    BY DEF CellsTyped
  <1>2. CASE c = a
    <2>1. cells'[c] = v /\ from'[c] = it
      BY <1>1, <1>2
    <2>. QED BY <2>1
  <1>3. CASE c # a
    <2>1. cells'[c] = cells[c] /\ from'[c] = from[c]
      BY <1>1, <1>3
    <2>. QED BY <2>1 DEF ReadExact
  <1>. QED BY <1>2, <1>3

LEMMA StoreItemExact ==
    ASSUME ExactInv, StoreItem PROVE ReadExact' /\ CopyExact'
  <1> DEFINE it == Innermost.item
             a  == Address(Target)
             v  == ForRead(Pool[it], TypeOf(Target))
  <1>1. Holding /\ (Failed(v) => Fail(NoStmt))
    BY DEF StoreItem
  <1>2. CASE Failed(v)
    BY <1>1, <1>2, ExactKept DEF Fail, ExactInv
  <1>3. CASE ~Failed(v)
    <2>1. /\ cells' = [cells EXCEPT ![a] = v] /\ from' = [from EXCEPT ![a] = it]
          /\ call' = call
      BY <1>3, Zenon DEF StoreItem
    <2>2. /\ it \in Items /\ Pool[it] \in Values
          /\ a \in Cells /\ TypeOf(Target) = types[a] /\ TypeOf(Target) \in Types
      BY <1>1, TargetTyped DEF ExactInv
    <2>3. TypeOf(Target) \in VarTypes /\ CellsTyped
      BY <2>2, Parts DEF ExactInv, CellsTyped
    <2>4. v.type = TypeOf(Target)
      BY <1>3, <2>2, Read_
    <2>5. Readable(Pool[it], v.type) => Says(v, Pool[it])
      BY <1>3, <2>2, <2>3, <2>4, ReadSays
    <2>. HIDE DEF it, a, v
    <2>6. Faithful(v, it)
      BY <2>5 DEF Faithful
    <2>. QED BY <2>1, <2>2, <2>3, <2>6, ExactStored, ExactKept DEF ExactInv
  <1>. QED BY <1>2, <1>3

LEMMA ExecLetExact ==
    ASSUME ExactInv, NEW m \in Names \cup {Param}, NEW w \in LetValues, ExecLet(m, w)
    PROVE  ReadExact' /\ CopyExact'
  <1> DEFINE a == Address(m)
             v == CoerceTo(w, TypeOf(m))
  <1>1. (m = Param => call # NoCall) /\ (Failed(v) => Fail(<<"let", m, w>>))
    BY DEF ExecLet
  <1>2. CASE Failed(v)
    BY <1>1, <1>2, ExactKept DEF Fail, ExactInv
  <1>3. CASE ~Failed(v)
    <2>1. /\ cells' = [cells EXCEPT ![a] = v] /\ from' = [from EXCEPT ![a] = 0]
          /\ call' = IF m = Param THEN [call EXCEPT !.value = v, !.from = 0] ELSE call
      BY <1>3, Zenon DEF ExecLet
    <2>2. a \in Cells /\ CellsTyped /\ CallShape
      BY <1>1, AddressTyped, Parts DEF Cells, ExactInv
    <2>. HIDE DEF a, v
    <2>3. Faithful(v, 0)
      BY DEF Faithful
    <2>4. ReadExact'
      BY <2>1, <2>2, <2>3, ExactStored DEF ExactInv
    <2>5. CASE m = Param
      <3>1. call'.from = 0
        BY <2>1, <2>2, <2>5 DEF CallShape
      <3>. QED BY <2>4, <3>1 DEF CopyExact, Faithful
    <2>6. CASE m # Param
      BY <2>1, <2>4, <2>6, ExactKept DEF ExactInv
    <2>. QED BY <2>5, <2>6
  <1>. QED BY <1>2, <1>3

LEMMA ExecSwapExact ==
    ASSUME ExactInv, NEW m \in Names, NEW k \in Names, ExecSwap(m, k)
    PROVE  ReadExact' /\ CopyExact'
  <1>1. /\ cells' = [cells EXCEPT ![m] = cells[k], ![k] = cells[m]]
        /\ from' = [from EXCEPT ![m] = from[k], ![k] = from[m]]
        /\ m \in Cells /\ k \in Cells /\ call' = call
    BY DEF ExecSwap, Cells
  <1>2. DOMAIN cells = Cells /\ DOMAIN from = Cells
    BY Parts DEF ExactInv, CellsTyped
  <1>3. ASSUME NEW c \in Cells
        PROVE  \E d \in Cells : cells'[c] = cells[d] /\ from'[c] = from[d]
    <2>1. CASE c = k
      BY <1>1, <1>2, <2>1
    <2>2. CASE c = m /\ c # k
      BY <1>1, <1>2, <2>2
    <2>3. CASE c # m /\ c # k
      BY <1>1, <1>2, <2>3
    <2>. QED BY <2>1, <2>2, <2>3
  <1>4. ReadExact'
    BY <1>3 DEF ExactInv, ReadExact, Faithful
  <1>. QED BY <1>1, <1>4, ExactKept DEF ExactInv

(* The parameter takes the value and its item along.                        *)
LEMMA ExecCallExact ==
    ASSUME ExactInv, WellTyped, NEW m \in Names, NEW t \in VarTypes \cup {Unset}, ExecCall(m, t)
    PROVE  ReadExact' /\ CopyExact'
  <1> DEFINE v == CoerceTo(cells[m], t)
  <1>1. t = types[m] /\ (Failed(v) => Fail(NoStmt))
    BY DEF ExecCall
  <1>2. CASE Failed(v)
    BY <1>1, <1>2, ExactKept DEF Fail, ExactInv
  <1>3. CASE ~Failed(v)
    <2>1. /\ call' = [to |-> m, type |-> t, value |-> v,
                     from |-> IF t = types[m] THEN from[m] ELSE 0]
          /\ UNCHANGED <<cells, from>>
      BY <1>3, Zenon DEF ExecCall, history
    <2>2. m \in Cells /\ cells[m].type = t /\ t # Unset
      BY <1>1, Parts, TypesOK DEF ExactInv, CellsTyped, TypesKept, Cells, Types, NumericTypes, Unset
    <2>3. v = cells[m]
      BY <2>2 DEF CoerceTo, Coerce
    <2>. HIDE DEF v
    <2>4. call'.value = cells[m] /\ call'.from = from[m]
      BY <1>1, <2>1, <2>3
    <2>5. CopyExact'
      BY <2>2, <2>4 DEF CopyExact, Faithful, ReadExact, ExactInv
    <2>. QED BY <2>1, <2>5, ExactKept DEF ExactInv
  <1>. QED BY <1>2, <1>3

LEMMA ProcedureReturnExact ==
    ASSUME ExactInv, ProcedureReturn PROVE ReadExact' /\ CopyExact'
  <1>1. /\ cells' = [cells EXCEPT ![call.to] = call.value]
        /\ from' = [from EXCEPT ![call.to] = call.from]
        /\ call.to \in Cells /\ call'.from = 0
    BY Parts DEF ProcedureReturn, ExactInv, CallTyped, Cells, NoCall
  <1>2. ReadExact'
    BY <1>1, ExactStored, Parts DEF ExactInv, CopyExact
  <1>. QED BY <1>1, <1>2 DEF CopyExact, Faithful

LEMMA NextExact ==
    ASSUME WellTyped, ExactInv, [Next]_vars PROVE ExactInv'
  <1> SUFFICES ReadExact' /\ CopyExact'
    BY NextTyped DEF ExactInv
  <1>1. CASE StoreItem
    BY <1>1, StoreItemExact
  <1>2. CASE \E n \in Names \cup {Param}, v \in LetValues : ExecLet(n, v)
    BY <1>2, ExecLetExact
  <1>3. CASE \E n, m \in Names : ExecSwap(n, m)
    BY <1>3, ExecSwapExact
  <1>4. CASE ProcedureReturn
    BY <1>4, ProcedureReturnExact
  <1>5. CASE \E n \in Names, t \in VarTypes \cup {Unset} : ExecCall(n, t)
    BY <1>5, ExecCallExact
  <1>6. CASE (\E l \in Lists : ReadStart(l)) \/ (\E l \in DOMAIN DataAt : ExecRestore(l))
    BY <1>6, ExactKept DEF ReadStart, ExecRestore, history, ExactInv
  <1>7. CASE TakeItem \/ OutOfData \/ ReadEnd
    BY <1>7, ExactKept DEF TakeItem, OutOfData, Fail, ReadEnd, history, ExactInv
  <1>8. CASE ExecOnError \/ ExecResume \/ ExecResumeNext \/ UNCHANGED vars
    BY <1>8, ExactKept DEF ExecOnError, ExecResume, ExecResumeNext, history, vars, ExactInv
  <1>. QED BY <1>1, <1>2, <1>3, <1>4, <1>5, <1>6, <1>7, <1>8 DEF Next, Stopped

(* In a WellTyped program a value that was READ from an item the manual     *)
(* lets its variable hold says what the item says, rounded once: whichever  *)
(* FUNCTIONs run between the copy of an item and its store, whatever SWAP   *)
(* moves, and wherever a SUB's copy comes from and is written back.         *)
THEOREM ReadAlwaysExact ==
    ASSUME WellTyped PROVE Spec => []ReadExact
  <1>1. Init => ExactInv
    BY InitTyped DEF Init, ExactInv, ReadExact, CopyExact, Faithful, NoCall
  <1>2. ExactInv /\ [Next]_vars => ExactInv'
    BY NextExact
  <1>3. ExactInv => ReadExact
    BY DEF ExactInv
  <1>. QED BY <1>1, <1>2, <1>3, PTL DEF Spec

--------------------------------------------------------------------------------
(* Items.  Held counts the READs that hold an item; each step of READ adds  *)
(* or removes at most the innermost one.                                    *)

HeldIn(s, i) == {d \in 1..Len(s) : s[d].item = i /\ s[d].fresh}

LEMMA HeldInFinite ==
    ASSUME NEW s \in Seq(Read), NEW i
    PROVE  IsFiniteSet(HeldIn(s, i)) /\ Cardinality(HeldIn(s, i)) \in Nat
  <1>1. IsFiniteSet(1..Len(s))
    BY LenProperties, FS_Interval
  <1>2. HeldIn(s, i) \subseteq 1..Len(s)
    BY DEF HeldIn
  <1>. QED BY <1>1, <1>2, FS_Subset, FS_CardinalityType

(* A READ that starts, and one that ends, holds nothing.                    *)
LEMMA HeldInStarted ==
    ASSUME NEW s \in Seq(Read), NEW r \in Read, r.item = 0, NEW i \in Items
    PROVE  HeldIn(Append(s, r), i) = HeldIn(s, i)
  <1>1. Len(s) \in Nat /\ i # 0
    BY LenProperties DEF Items
  <1>. QED BY <1>1, Started DEF HeldIn

LEMMA HeldInEnded ==
    ASSUME NEW s \in Seq(Read), s # <<>>, Last(s).item = 0, NEW i \in Items
    PROVE  HeldIn(Front(s), i) = HeldIn(s, i)
  <1>1. Len(s) \in Nat \ {0} /\ s[Len(s)].item = 0 /\ i # 0
    BY LastRead DEF Items
  <1>2. Len(Front(s)) = Len(s) - 1 /\ \A d \in 1..(Len(s) - 1) : Front(s)[d] = s[d]
    BY Ended
  <1>3. ASSUME NEW d PROVE d \in HeldIn(Front(s), i) <=> d \in HeldIn(s, i)
    <2>1. CASE d \in 1..(Len(s) - 1)
      BY <1>1, <1>2, <2>1 DEF HeldIn
    <2>2. CASE d \notin 1..(Len(s) - 1)
      BY <1>1, <1>2, <2>2 DEF HeldIn
    <2>. QED BY <2>1, <2>2
  <1>. QED BY <1>3

(* The innermost READ takes an item, and lets go of it.                     *)
LEMMA HeldInReplaced ==
    ASSUME NEW s \in Seq(Read), s # <<>>, NEW r \in Read, NEW i \in Items
    PROVE  LET t == [s EXCEPT ![Len(s)] = r]
               n == Len(s)
           IN  HeldIn(t, i) = IF r.item = i /\ r.fresh THEN HeldIn(s, i) \cup {n}
                                                       ELSE HeldIn(s, i) \ {n}
  <1> DEFINE t == [s EXCEPT ![Len(s)] = r]
             n == Len(s)
  <1>1. n \in 1..n /\ Len(t) = n /\ \A d \in 1..n : t[d] = IF d = n THEN r ELSE s[d]
    BY LastRead, Replaced
  <1>2. ASSUME NEW d \in 1..n
        PROVE  d \in HeldIn(t, i) <=> IF d = n THEN r.item = i /\ r.fresh ELSE d \in HeldIn(s, i)
    BY <1>1 DEF HeldIn
  <1>3. HeldIn(t, i) \subseteq 1..n /\ HeldIn(s, i) \subseteq 1..n
    BY <1>1 DEF HeldIn
  <1>. HIDE DEF t, n
  <1>4. HeldIn(t, i) = IF r.item = i /\ r.fresh THEN HeldIn(s, i) \cup {n}
                                                ELSE HeldIn(s, i) \ {n}
    BY <1>1, <1>2, <1>3
  <1>. QED BY <1>4 DEF t, n

LEMMA HeldInLast ==
    ASSUME NEW s \in Seq(Read), s # <<>>, NEW i \in Items
    PROVE  Len(s) \in HeldIn(s, i) <=> Last(s).item = i /\ Last(s).fresh
  BY LastRead DEF HeldIn

Counted == stored \in [Items -> Nat] /\ dropped \in [Items -> Nat]

AccountInv ==
    /\ reads \in Seq(Read) /\ data_ptr \in 0..Len(Pool)
    /\ Counted /\ ItemsAccounted

LEMMA HeldIs == \A i : Held(i) = Cardinality(HeldIn(reads, i))
  BY DEF Held, HeldIn

LEMMA AccountedNext ==
    ASSUME reads' \in Seq(Read), data_ptr' \in 0..Len(Pool), Counted',
           \A i \in Items : stored'[i] + dropped'[i] + Cardinality(HeldIn(reads', i))
                               = (IF i <= data_ptr' THEN 1 ELSE 0)
    PROVE  AccountInv'
  <1>1. ItemsAccounted'
    BY DEF ItemsAccounted, Held, HeldIn
  <1>. QED BY <1>1 DEF AccountInv

LEMMA Accounted ==
    ASSUME AccountInv, NEW i \in Items
    PROVE  /\ stored[i] + dropped[i] + Cardinality(HeldIn(reads, i))
                 = (IF i <= data_ptr THEN 1 ELSE 0)
           /\ stored[i] \in Nat /\ dropped[i] \in Nat
           /\ Cardinality(HeldIn(reads, i)) \in Nat
  BY HeldIs, HeldInFinite DEF AccountInv, ItemsAccounted, Counted

LEMMA InitAccounted == Init => AccountInv
  <1> SUFFICES ASSUME Init PROVE AccountInv
    OBVIOUS
  <1>1. reads = <<>> /\ data_ptr = 0 /\ stored = Never /\ dropped = Never
    BY DEF Init
  <1>2. Len(Pool) \in Nat /\ reads \in Seq(Read) /\ 1..Len(reads) = {}
    BY <1>1, TypesOK, LenProperties, EmptySeq
  <1>3. Counted /\ \A i \in Items : stored[i] = 0 /\ dropped[i] = 0
    BY <1>1 DEF Counted, Never
  <1>4. \A i \in Items : Held(i) = 0
    BY <1>2, FS_EmptySet DEF Held
  <1>5. \A i \in Items : ~(i <= data_ptr)
    BY <1>1 DEF Items
  <1>6. ItemsAccounted
    BY <1>3, <1>4, <1>5 DEF ItemsAccounted
  <1>. QED BY <1>1, <1>2, <1>3, <1>6 DEF AccountInv

LEMMA FailAccounted == ASSUME AccountInv, NEW stmt, Fail(stmt) PROVE AccountInv'
  <1>1. reads' = <<>> /\ data_ptr' = data_ptr /\ stored' = stored
    BY DEF Fail
  <1>2. dropped' = [i \in Items |-> dropped[i] + Cardinality(HeldIn(reads, i))]
    <2>1. \A i : {d \in 1..Len(reads) : reads[d].fresh /\ reads[d].item = i} = HeldIn(reads, i)
      BY DEF HeldIn
    <2>. QED BY <2>1 DEF Fail
  <1>3. Counted'
    BY <1>1, <1>2, Accounted DEF Counted, AccountInv
  <1>4. reads' \in Seq(Read) /\ 1..Len(reads') = {}
    BY <1>1, EmptySeq
  <1>5. \A i \in Items : Cardinality(HeldIn(reads', i)) = 0
    BY <1>4, FS_EmptySet DEF HeldIn
  <1>6. ASSUME NEW i \in Items
        PROVE  stored'[i] + dropped'[i] + Cardinality(HeldIn(reads', i))
                  = (IF i <= data_ptr' THEN 1 ELSE 0)
    BY <1>1, <1>2, <1>5, Accounted
  <1>. QED BY <1>1, <1>3, <1>4, <1>6, AccountedNext DEF AccountInv

LEMMA ReadStartAccounted ==
    ASSUME AccountInv, NEW l \in Lists, ReadStart(l) PROVE AccountInv'
  <1> DEFINE r == [list |-> l, i |-> 1, item |-> 0, fresh |-> TRUE]
  <1>1. reads' = Append(reads, r) /\ UNCHANGED <<data_ptr, stored, dropped>>
    BY DEF ReadStart, history
  <1>2. r \in Read /\ r.item = 0 /\ reads \in Seq(Read)
    BY DEF Read, AccountInv
  <1>3. reads' \in Seq(Read) /\ \A i \in Items : HeldIn(reads', i) = HeldIn(reads, i)
    <2>. HIDE DEF r
    <2>. QED BY <1>1, <1>2, Started, HeldInStarted
  <1>. QED BY <1>1, <1>3, Accounted, AccountedNext DEF AccountInv, Counted

LEMMA TakeItemAccounted == ASSUME AccountInv, TakeItem PROVE AccountInv'
  <1> DEFINE r == [Innermost EXCEPT !.item = data_ptr + 1, !.fresh = TRUE]
             n == Len(reads)
  <1>1. /\ reads' = [reads EXCEPT ![n] = r] /\ UNCHANGED <<stored, dropped>>
        /\ reads # <<>> /\ Last(reads).item = 0
    BY DEF TakeItem, history, Reading, Holding, Innermost
  <1>2. data_ptr' = data_ptr + 1 /\ data_ptr + 1 \in Items /\ data_ptr \in Nat
        /\ data_ptr' \in 0..Len(Pool)
    BY TypesOK, LenProperties DEF TakeItem, Moved, Items, AccountInv
  <1>3. r \in Read /\ r.item = data_ptr + 1 /\ r.fresh = TRUE
    <2>1. Innermost \in Read /\ data_ptr + 1 \in {0} \cup Items
      BY <1>1, <1>2, LastRead DEF Innermost, AccountInv
    <2>. QED BY <2>1, TookItem, Zenon
  <1>4. reads \in Seq(Read)
    BY DEF AccountInv
  <1>5. ASSUME NEW i \in Items
        PROVE  HeldIn(reads', i) = IF i = data_ptr + 1 THEN HeldIn(reads, i) \cup {n}
                                                      ELSE HeldIn(reads, i) \ {n}
    BY <1>1, <1>3, <1>4, HeldInReplaced, ZenonT(40)
  <1>6. ASSUME NEW i \in Items PROVE n \notin HeldIn(reads, i)
    <2>1. i # 0
      BY DEF Items
    <2>. QED BY <1>1, <1>4, <2>1, HeldInLast
  <1>7. reads' \in Seq(Read)
    BY <1>1, <1>3, <1>4, Replaced
  <1>8. ASSUME NEW i \in Items
        PROVE  stored'[i] + dropped'[i] + Cardinality(HeldIn(reads', i))
                  = (IF i <= data_ptr' THEN 1 ELSE 0)
    <2>1. CASE i = data_ptr + 1
      <3>1. Cardinality(HeldIn(reads', i)) = Cardinality(HeldIn(reads, i)) + 1
        BY <1>4, <1>5, <1>6, <2>1, HeldInFinite, FS_AddElement
      <3>2. ~(i <= data_ptr) /\ i <= data_ptr'
        BY <1>2, <2>1
      <3>. QED BY <1>1, <3>1, <3>2, Accounted
    <2>2. CASE i # data_ptr + 1
      <3>1. HeldIn(reads', i) = HeldIn(reads, i)
        BY <1>5, <1>6, <2>2
      <3>2. (i <= data_ptr') = (i <= data_ptr)
        BY <1>2, <2>2 DEF Items
      <3>. QED BY <1>1, <3>1, <3>2, Accounted
    <2>. QED BY <2>1, <2>2
  <1>9. Counted'
    BY <1>1 DEF Counted, AccountInv
  <1>. QED BY <1>2, <1>7, <1>8, <1>9, AccountedNext

LEMMA StoreItemAccounted == ASSUME AccountInv, StoreItem PROVE AccountInv'
  <1> DEFINE it == Innermost.item
             v  == ForRead(Pool[it], TypeOf(Target))
             n  == Len(reads)
             r  == [Innermost EXCEPT !.i = Innermost.i + 1, !.item = 0]
             new == IF Innermost.fresh THEN 1 ELSE 0
  <1>1. Holding /\ (Failed(v) => Fail(NoStmt))
    BY DEF StoreItem
  <1>2. CASE Failed(v)
    BY <1>1, <1>2, FailAccounted
  <1>3. CASE ~Failed(v)
    <2>1. /\ stored' = [stored EXCEPT ![it] = stored[it] + new]
          /\ reads' = [reads EXCEPT ![n] = r] /\ data_ptr' = data_ptr /\ dropped' = dropped
      <3>1. Moved("store") = data_ptr
        BY DEF Moved
      <3>. QED BY <1>3, <3>1, Zenon DEF StoreItem
    <2>2. reads \in Seq(Read) /\ reads # <<>> /\ Innermost = Last(reads) /\ Innermost \in Read
          /\ it \in Items
      BY <1>1, LastRead DEF AccountInv, Holding, Innermost, Read
    <2>3. r \in Read /\ r.item = 0
      BY <2>2, MovedOn, Zenon
    <2>4. reads' \in Seq(Read)
      <3>. HIDE DEF r
      <3>. QED BY <2>1, <2>2, <2>3, Replaced
    <2>5. ASSUME NEW i \in Items PROVE HeldIn(reads', i) = HeldIn(reads, i) \ {n}
      <3>. HIDE DEF r
      <3>1. r.item # i
        BY <2>3 DEF Items
      <3>. QED BY <2>1, <2>2, <2>3, <3>1, HeldInReplaced
    <2>6. ASSUME NEW i \in Items PROVE n \in HeldIn(reads, i) <=> it = i /\ Innermost.fresh
      BY <2>2, HeldInLast
    <2>7. new \in Nat /\ Counted'
      <3>1. new \in Nat
        OBVIOUS
      <3>. HIDE DEF new, it
      <3>2. stored[it] + new \in Nat
        BY <2>2, <3>1, Accounted
      <3>. QED BY <2>1, <2>2, <3>1, <3>2 DEF Counted, AccountInv
    <2>8. ASSUME NEW i \in Items
          PROVE  stored'[i] + dropped'[i] + Cardinality(HeldIn(reads', i))
                    = (IF i <= data_ptr' THEN 1 ELSE 0)
      <3>1. CASE it = i /\ Innermost.fresh
        <4>1. Cardinality(HeldIn(reads', i)) = Cardinality(HeldIn(reads, i)) - 1
          <5>1. n \in HeldIn(reads, i) /\ HeldIn(reads', i) = HeldIn(reads, i) \ {n}
            BY <2>5, <2>6, <3>1
          <5>2. IsFiniteSet(HeldIn(reads, i))
            BY <2>2, HeldInFinite
          <5>. HIDE DEF n
          <5>. QED BY <5>1, <5>2, FS_RemoveElement
        <4>2. stored'[i] = stored[i] + 1
          BY <2>1, <3>1 DEF AccountInv, Counted
        <4>. QED BY <2>1, <4>1, <4>2, Accounted
      <3>2. CASE ~(it = i /\ Innermost.fresh)
        <4>1. HeldIn(reads', i) = HeldIn(reads, i)
          BY <2>5, <2>6, <3>2
        <4>2. stored'[i] = stored[i]
          <5>1. it = i => new = 0
            BY <3>2
          <5>2. stored[i] \in Nat /\ DOMAIN stored = Items
            BY DEF AccountInv, Counted
          <5>. HIDE DEF new, it
          <5>. QED BY <2>1, <5>1, <5>2
        <4>. QED BY <2>1, <4>1, <4>2, Accounted
      <3>. QED BY <3>1, <3>2
    <2>9. data_ptr' \in 0..Len(Pool)
      BY <2>1 DEF AccountInv
    <2>. QED BY <2>4, <2>7, <2>8, <2>9, AccountedNext
  <1>. QED BY <1>2, <1>3

LEMMA ReadEndAccounted == ASSUME AccountInv, ReadEnd PROVE AccountInv'
  <1>1. /\ reads' = Front(reads) /\ UNCHANGED <<data_ptr, stored, dropped>>
        /\ reads # <<>> /\ Last(reads).item = 0 /\ reads \in Seq(Read)
    BY DEF ReadEnd, history, Reading, Holding, Innermost, AccountInv
  <1>2. reads' \in Seq(Read) /\ \A i \in Items : HeldIn(reads', i) = HeldIn(reads, i)
    BY <1>1, Ended, HeldInEnded
  <1>. QED BY <1>1, <1>2, Accounted, AccountedNext DEF AccountInv, Counted

LEMMA ExecRestoreAccounted ==
    ASSUME AccountInv, NEW l \in DOMAIN DataAt, ExecRestore(l) PROVE AccountInv'
  <1> DEFINE n == Len(reads)
  <1>1. /\ data_ptr' = 0 /\ stored' = Never /\ dropped' = Never
        /\ reads' = [d \in 1..n |-> [reads[d] EXCEPT !.fresh = FALSE]]
    BY DEF ExecRestore, RestoreIndex, data_labels
  <1>2. reads \in Seq(Read) /\ n \in Nat /\ \A d \in 1..n : reads[d] \in Read
    BY LenProperties, ElementOfSeq DEF AccountInv
  <1>3. /\ reads' \in Seq(Read) /\ Len(reads') = n
        /\ \A d \in 1..n : reads'[d] = [reads[d] EXCEPT !.fresh = FALSE]
    BY <1>1, <1>2, Staled
  <1>4. \A d \in 1..n : reads'[d].fresh = FALSE
    BY <1>2, <1>3 DEF Read
  <1>5. \A i \in Items : Cardinality(HeldIn(reads', i)) = 0
    BY <1>3, <1>4, FS_EmptySet DEF HeldIn
  <1>6. Counted' /\ \A i \in Items : stored'[i] = 0 /\ dropped'[i] = 0 /\ ~(i <= data_ptr')
    BY <1>1 DEF Counted, Never, Items
  <1>7. data_ptr' \in 0..Len(Pool)
    BY <1>1, TypesOK, LenProperties
  <1>. QED BY <1>3, <1>5, <1>6, <1>7, AccountedNext

LEMMA OtherAccounted ==
    AccountInv /\ UNCHANGED <<data_ptr, reads, stored, dropped>> => AccountInv'
  BY DEF AccountInv, Counted, ItemsAccounted, Held

LEMMA NextAccounted == ASSUME AccountInv, [Next]_vars PROVE AccountInv'
  <1>1. CASE \E l \in Lists : ReadStart(l)
    BY <1>1, ReadStartAccounted
  <1>2. CASE TakeItem
    BY <1>2, TakeItemAccounted
  <1>3. CASE OutOfData
    BY <1>3, FailAccounted DEF OutOfData
  <1>4. CASE StoreItem
    BY <1>4, StoreItemAccounted
  <1>5. CASE ReadEnd
    BY <1>5, ReadEndAccounted
  <1>6. CASE \E l \in DOMAIN DataAt : ExecRestore(l)
    BY <1>6, ExecRestoreAccounted
  <1>7. ASSUME NEW n \in Names \cup {Param}, NEW v \in LetValues, ExecLet(n, v) PROVE AccountInv'
    <2>1. \/ Fail(<<"let", n, v>>)
          \/ UNCHANGED <<data_ptr, reads, stored, dropped>>
      BY <1>7, Zenon DEF ExecLet
    <2>. QED BY <2>1, FailAccounted, OtherAccounted
  <1>8. ASSUME NEW n \in Names, NEW m \in Names, ExecSwap(n, m) PROVE AccountInv'
    BY <1>8, OtherAccounted DEF ExecSwap
  <1>9. ASSUME NEW n \in Names, NEW t \in VarTypes \cup {Unset}, ExecCall(n, t) PROVE AccountInv'
    <2>1. Fail(NoStmt) \/ UNCHANGED <<data_ptr, reads, stored, dropped>>
      BY <1>9, Zenon DEF ExecCall, history
    <2>. QED BY <2>1, FailAccounted, OtherAccounted
  <1>10. CASE ProcedureReturn
    BY <1>10, OtherAccounted DEF ProcedureReturn
  <1>11. CASE ExecOnError \/ ExecResume \/ ExecResumeNext
    BY <1>11, OtherAccounted DEF ExecOnError, ExecResume, ExecResumeNext, history
  <1>12. CASE UNCHANGED vars
    BY <1>12, OtherAccounted DEF vars
  <1>. QED BY <1>1, <1>2, <1>3, <1>4, <1>5, <1>6, <1>7, <1>8, <1>9, <1>10, <1>11, <1>12
       DEF Next, Stopped

(* In every program, well typed or not: however deep READs nest inside the  *)
(* subscripts of each other's targets, and whichever of them errors cut     *)
(* short, each item before data_ptr was stored once, dropped once or is on  *)
(* its way, and each item behind it waits.                                  *)
THEOREM ItemsAlwaysAccounted == Spec => []ItemsAccounted
  <1>1. Init => AccountInv
    BY InitAccounted
  <1>2. AccountInv /\ [Next]_vars => AccountInv'
    BY NextAccounted
  <1>3. AccountInv => ItemsAccounted
    BY DEF AccountInv
  <1>. QED BY <1>1, <1>2, <1>3, PTL DEF Spec

================================================================================
