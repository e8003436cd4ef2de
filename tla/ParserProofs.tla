------------------------------ MODULE ParserProofs ------------------------------
(***************************************************************************)
(* Proofs that the parser registers no label, line number or procedure     *)
(* without a statement, and that it never passes the end of the tokens,    *)
(* for every set of sources.                                               *)
(***************************************************************************)
EXTENDS Parser, SequenceTheorems, WellFoundedInduction, TLAPS

--------------------------------------------------------------------------------
(* Induction over the numbers, stated with sets: P holds of every number if *)
(* the set of those it holds of has 0 and with each number the next one.    *)

(* A set of natural numbers that is not empty has a least element.          *)
LEMMA LeastElement ==
    ASSUME NEW T, T \subseteq Nat, T # {}
    PROVE  \E n \in T : \A m \in T : n <= m
<1> DEFINE Less == {ss \in Nat \X Nat : ss[1] < ss[2]}
<1>1. IsWellFoundedOn(Less, Nat)
  BY NatLessThanWellFounded DEF OpToRel
<1> HIDE DEF Less
<1>2. PICK n \in T : \A m \in T : ~(<<m, n>> \in Less)
  BY <1>1, WFMin
<1>3. ASSUME NEW m \in T PROVE n <= m
  <2>1. <<m, n>> \in Nat \X Nat /\ ~(<<m, n>> \in Less)
    BY <1>2
  <2>2. ~(<<m, n>>[1] < <<m, n>>[2])
    BY <2>1 DEF Less
  <2> QED BY <2>2
<1> QED BY <1>3

(* A set with 0 and with each of its numbers the next one has them all.     *)
LEMMA EveryNumber ==
    ASSUME NEW T, 0 \in T, \A n \in Nat : n \in T => n + 1 \in T
    PROVE  Nat \subseteq T
<1> SUFFICES ASSUME Nat \ T # {} PROVE FALSE
  OBVIOUS
<1>1. PICK n \in Nat \ T : \A m \in Nat \ T : n <= m
  BY LeastElement
<1>2. n # 0 /\ n - 1 \in Nat /\ n - 1 \in T
  BY <1>1
<1>3. (n - 1) + 1 \in T
  BY <1>2
<1> QED BY <1>2, <1>3

(* The same for the numbers up to k.                                        *)
LEMMA UpTo ==
    ASSUME NEW T, NEW k \in Nat, 0 \in T, \A i \in 1..k : i - 1 \in T => i \in T
    PROVE  0..k \subseteq T
<1> DEFINE U == {i \in Nat : i <= k => i \in T}
<1>1. 0 \in U
  OBVIOUS
<1>2. ASSUME NEW n \in Nat, n \in U, n + 1 <= k PROVE n + 1 \in T
  <2>1. n \in T /\ n + 1 \in 1..k /\ (n + 1) - 1 = n
    BY <1>2
  <2> QED BY <2>1
<1>3. \A n \in Nat : n \in U => n + 1 \in U
  BY <1>2
<1> HIDE DEF U
<1>4. Nat \subseteq U
  BY <1>1, <1>3, EveryNumber
<1> QED BY <1>4 DEF U

--------------------------------------------------------------------------------

(* Bodies hold nodes that hold bodies: there is no set of all of them to    *)
(* name, and none is needed to say that they are sequences.                 *)
IsSequence(s) == \E S : s \in Seq(S)

IsFrame(f) ==
    /\ f = [kind |-> f.kind, name |-> f.name, part |-> f.part, parts |-> f.parts,
            body |-> f.body, more |-> f.more]
    /\ IsSequence(f.body)

(* The program is at the bottom of the constructs and nowhere else.         *)
StackOK(stack) ==
    /\ IsSequence(stack) /\ stack # <<>>
    /\ \A i \in 1..Len(stack) : IsFrame(stack[i]) /\ (stack[i].kind = "program" <=> i = 1)

Count(stack) == Len(stack[1].body)

(* An entry is that of a statement of the program or, while a construct is  *)
(* being read, of the one that this construct will be.                      *)
Registered(table, stack) ==
    /\ IsSequence(table)
    /\ \A j \in 1..Len(table) :
          /\ table[j][2] \in Nat
          /\ table[j][2] < Count(stack) \/ (Len(stack) > 1 /\ table[j][2] = Count(stack))

Inv ==
    /\ StackOK(open)
    /\ Registered(labels, open) /\ Registered(line_map, open) /\ Registered(procedures, open)
    /\ status = "done" => Len(open) = 1

--------------------------------------------------------------------------------
(* Sequences.                                                               *)

LEMMA LenIsNat == ASSUME NEW s, IsSequence(s) PROVE Len(s) \in Nat
  <1>1. PICK S : s \in Seq(S)
    BY DEF IsSequence
  <1>. QED BY <1>1, LenProperties

LEMMA EmptyIsSequence == IsSequence(<<>>) /\ Len(<<>>) = 0
  <1>1. <<>> \in Seq({})
    BY EmptySeq
  <1>. QED BY <1>1, EmptySeq DEF IsSequence

LEMMA SingleIsSequence == ASSUME NEW e PROVE IsSequence(<<e>>) /\ Len(<<e>>) = 1 /\ <<e>>[1] = e
  <1>1. <<e>> \in Seq({e})
    OBVIOUS
  <1>. QED BY <1>1 DEF IsSequence

LEMMA Appended ==
    ASSUME NEW s, IsSequence(s), NEW e
    PROVE  /\ IsSequence(Append(s, e)) /\ Append(s, e) # <<>>
           /\ Len(Append(s, e)) = Len(s) + 1
           /\ \A i \in 1..Len(s) : Append(s, e)[i] = s[i]
           /\ Append(s, e)[Len(s) + 1] = e
  <1>1. PICK S : s \in Seq(S)
    BY DEF IsSequence
  <1>2. s \in Seq(S \cup {e}) /\ e \in S \cup {e}
    BY <1>1, SeqMonotonic
  <1>. QED BY <1>2, AppendProperties DEF IsSequence

LEMMA Joined ==
    ASSUME NEW s, IsSequence(s), NEW t, IsSequence(t)
    PROVE  /\ IsSequence(s \o t) /\ Len(s \o t) = Len(s) + Len(t)
           /\ \A i \in 1..(Len(s) + Len(t)) :
                 (s \o t)[i] = IF i <= Len(s) THEN s[i] ELSE t[i - Len(s)]
  <1>1. PICK S : s \in Seq(S)
    BY DEF IsSequence
  <1>2. PICK T : t \in Seq(T)
    BY DEF IsSequence
  <1>3. s \in Seq(S \cup T) /\ t \in Seq(S \cup T)
    BY <1>1, <1>2, SeqMonotonic
  <1>. QED BY <1>3, ConcatProperties DEF IsSequence

LEMMA Fronted ==
    ASSUME NEW s, IsSequence(s), s # <<>>
    PROVE  /\ Len(s) \in Nat /\ Len(s) >= 1
           /\ IsSequence(Front(s)) /\ Len(Front(s)) = Len(s) - 1
           /\ \A i \in 1..(Len(s) - 1) : Front(s)[i] = s[i]
           /\ Last(s) = s[Len(s)]
  <1>1. PICK S : s \in Seq(S)
    BY DEF IsSequence
  <1>2. Len(s) \in Nat /\ Len(s) >= 1
    BY <1>1, EmptySeq, SMT
  <1>3. \A i \in 1..(Len(s) - 1) : s[i] \in S
    BY <1>1, <1>2, ElementOfSeq
  <1>4. /\ SubSeq(s, 1, Len(s) - 1) \in Seq(S)
        /\ Len(SubSeq(s, 1, Len(s) - 1)) = IF 1 <= Len(s) - 1 THEN Len(s) - 1 - 1 + 1 ELSE 0
        /\ \A i \in 1..(Len(s) - 1 - 1 + 1) : SubSeq(s, 1, Len(s) - 1)[i] = s[1 + i - 1]
    BY <1>2, <1>3, SubSeqProperties
  <1>5. Front(s) \in Seq(S) /\ Last(s) = s[Len(s)]
    BY <1>4 DEF Front, Last
  <1>6. Len(Front(s)) = Len(s) - 1
    <2>1. CASE 1 <= Len(s) - 1
      <3>1. Len(Front(s)) = Len(s) - 1 - 1 + 1
        BY <1>4, <2>1, Zenon DEF Front
      <3>. QED BY <1>2, <3>1
    <2>2. CASE Len(s) = 1
      <3>1. ~(1 <= Len(s) - 1) /\ Len(s) - 1 = 0
        BY <2>2
      <3>. QED BY <1>4, <3>1, Zenon DEF Front
    <2>3. 1 <= Len(s) - 1 \/ Len(s) = 1
      <3>1. \A m \in Nat : m >= 1 => (1 <= m - 1 \/ m = 1)
        OBVIOUS
      <3>. QED BY <1>2, <3>1, Zenon
    <2>. QED BY <2>1, <2>2, <2>3
  <1>7. \A i \in 1..(Len(s) - 1) : Front(s)[i] = s[i]
    BY <1>2, <1>4 DEF Front
  <1>. QED BY <1>2, <1>5, <1>6, <1>7 DEF IsSequence

LEMMA Tailed ==
    ASSUME NEW s, IsSequence(s), s # <<>>
    PROVE  /\ IsSequence(Tail(s)) /\ Len(Tail(s)) = Len(s) - 1
           /\ \A i \in 1..(Len(s) - 1) : Tail(s)[i] = s[i + 1]
  <1>1. PICK S : s \in Seq(S)
    BY DEF IsSequence
  <1>. QED BY <1>1, HeadTailProperties DEF IsSequence

--------------------------------------------------------------------------------
(* Frames and stacks.                                                       *)

LEMMA FrameType ==
    ASSUME NEW kind, NEW name, NEW part, NEW parts, NEW body, IsSequence(body), NEW more
    PROVE  /\ IsFrame(Frame(kind, name, part, parts, body, more))
           /\ Frame(kind, name, part, parts, body, more).kind = kind
           /\ Frame(kind, name, part, parts, body, more).body = body
  BY DEF IsFrame, Frame

LEMMA FirstType ==
    ASSUME NEW kind, NEW name, NEW part
    PROVE  IsFrame(First(kind, name, part)) /\ First(kind, name, part).kind = kind
  <1>1. IsSequence(<<>>)
    BY EmptyIsSequence
  <1>. QED BY <1>1 DEF First, IsFrame, Frame

(* The stack without its last construct, unless that is the program.        *)
LEMMA Outer ==
    ASSUME NEW stack, StackOK(stack), Last(stack).kind # "program"
    PROVE  /\ StackOK(Front(stack)) /\ Len(Front(stack)) = Len(stack) - 1
           /\ Len(stack) \in Nat /\ Len(stack) > 1 /\ Front(stack)[1] = stack[1]
  <1>1. /\ Len(stack) \in Nat /\ Len(stack) >= 1
        /\ IsSequence(Front(stack)) /\ Len(Front(stack)) = Len(stack) - 1
        /\ \A i \in 1..(Len(stack) - 1) : Front(stack)[i] = stack[i]
        /\ Last(stack) = stack[Len(stack)]
    BY Fronted DEF StackOK
  <1>2. Len(stack) > 1
    <2>1. Len(stack) # 1
      BY <1>1 DEF StackOK
    <2>. QED BY <1>1, <2>1
  <1>3. Front(stack) # <<>>
    BY <1>1, <1>2, EmptyIsSequence
  <1>4. \A i \in 1..Len(Front(stack)) :
            IsFrame(Front(stack)[i]) /\ (Front(stack)[i].kind = "program" <=> i = 1)
    BY <1>1 DEF StackOK
  <1>. QED BY <1>1, <1>2, <1>3, <1>4 DEF StackOK

(* The last construct replaced by one of the same kind.                     *)
LEMMA Replaced ==
    ASSUME NEW stack, StackOK(stack), NEW f, IsFrame(f), f.kind = Last(stack).kind
    PROVE  /\ StackOK(Append(Front(stack), f)) /\ Len(Append(Front(stack), f)) = Len(stack)
           /\ Len(stack) \in Nat /\ Len(stack) >= 1
           /\ Len(stack) = 1 => Append(Front(stack), f)[1] = f
           /\ Len(stack) > 1 => Append(Front(stack), f)[1] = stack[1]
  <1>1. /\ Len(stack) \in Nat /\ Len(stack) >= 1
        /\ IsSequence(Front(stack)) /\ Len(Front(stack)) = Len(stack) - 1
        /\ \A i \in 1..(Len(stack) - 1) : Front(stack)[i] = stack[i]
        /\ Last(stack) = stack[Len(stack)]
    BY Fronted DEF StackOK
  <1> DEFINE new == Append(Front(stack), f)
  <1>2. /\ IsSequence(new) /\ new # <<>> /\ Len(new) = Len(stack)
        /\ \A i \in 1..(Len(stack) - 1) : new[i] = stack[i]
        /\ new[Len(stack)] = f
    <2>1. /\ IsSequence(new) /\ new # <<>> /\ Len(new) = Len(Front(stack)) + 1
          /\ \A i \in 1..Len(Front(stack)) : new[i] = Front(stack)[i]
          /\ new[Len(Front(stack)) + 1] = f
      BY <1>1, Appended
    <2>2. Len(Front(stack)) + 1 = Len(stack)
      BY <1>1
    <2>. QED BY <1>1, <2>1, <2>2
  <1>3. \A i \in 1..Len(new) : IsFrame(new[i]) /\ (new[i].kind = "program" <=> i = 1)
    <2>. SUFFICES ASSUME NEW i \in 1..Len(stack)
                  PROVE  IsFrame(new[i]) /\ (new[i].kind = "program" <=> i = 1)
      BY <1>2
    <2>1. CASE i = Len(stack)
      BY <1>1, <1>2, <2>1 DEF StackOK
    <2>2. CASE i \in 1..(Len(stack) - 1)
      BY <1>2, <2>2 DEF StackOK
    <2>. QED BY <1>1, <2>1, <2>2
  <1>. HIDE DEF new
  <1>4. StackOK(new) /\ Len(new) = Len(stack) /\ (Len(stack) = 1 => new[1] = f)
    BY <1>2, <1>3 DEF StackOK
  <1>5. Len(stack) > 1 => new[1] = stack[1]
    BY <1>1, <1>2
  <1>. QED BY <1>1, <1>4, <1>5 DEF new

LEMMA CountIsNat ==
    ASSUME NEW stack, StackOK(stack)
    PROVE  Len(stack) \in Nat /\ Len(stack) >= 1 /\ Count(stack) \in Nat
  <1>1. Len(stack) \in Nat /\ Len(stack) >= 1
    BY Fronted DEF StackOK
  <1>2. 1 \in 1..Len(stack)
    BY <1>1
  <1>3. IsSequence(stack[1].body)
    BY <1>2 DEF StackOK, IsFrame
  <1>. QED BY <1>1, <1>3, LenIsNat DEF Count

(* Entries stay registered when the program grows, and when a construct     *)
(* goes on or an inner one begins or ends.                                  *)
LEMMA StayRegistered ==
    ASSUME NEW table, NEW old, NEW new, Registered(table, old), StackOK(old), StackOK(new),
           \/ Count(new) > Count(old)
           \/ Count(new) = Count(old) /\ (Len(old) > 1 => Len(new) > 1)
    PROVE  Registered(table, new)
  <1>1. Count(old) \in Nat /\ Count(new) \in Nat /\ Len(old) \in Nat /\ Len(new) \in Nat
    BY CountIsNat
  <1>. QED BY <1>1 DEF Registered

(* A construct more on the stack.                                           *)
LEMMA Inner ==
    ASSUME NEW stack, StackOK(stack), NEW f, IsFrame(f), f.kind # "program"
    PROVE  /\ StackOK(Append(stack, f)) /\ Len(Append(stack, f)) > 1
           /\ Count(Append(stack, f)) = Count(stack)
  <1>1. Len(stack) \in Nat /\ Len(stack) >= 1
    BY CountIsNat
  <1> DEFINE new == Append(stack, f)
  <1>2. /\ IsSequence(new) /\ new # <<>> /\ Len(new) = Len(stack) + 1
        /\ \A i \in 1..Len(stack) : new[i] = stack[i]
        /\ new[Len(stack) + 1] = f
    BY Appended DEF StackOK
  <1>3. \A i \in 1..Len(new) : IsFrame(new[i]) /\ (new[i].kind = "program" <=> i = 1)
    <2>. SUFFICES ASSUME NEW i \in 1..(Len(stack) + 1)
                  PROVE  IsFrame(new[i]) /\ (new[i].kind = "program" <=> i = 1)
      BY <1>2
    <2>1. CASE i = Len(stack) + 1
      BY <1>1, <1>2, <2>1
    <2>2. CASE i \in 1..Len(stack)
      BY <1>2, <2>2 DEF StackOK
    <2>. QED BY <1>1, <2>1, <2>2
  <1>. HIDE DEF new
  <1>4. StackOK(new) /\ Len(new) > 1
    BY <1>1, <1>2, <1>3 DEF StackOK
  <1>5. new[1] = stack[1]
    BY <1>1, <1>2
  <1>. QED BY <1>4, <1>5 DEF new, Count

LEMMA Register ==
    ASSUME NEW table, NEW new, Registered(table, new), NEW name, NEW index \in Nat,
           index < Count(new) \/ (Len(new) > 1 /\ index = Count(new))
    PROVE  Registered(Append(table, <<name, index>>), new)
  <1>1. IsSequence(table) /\ Len(table) \in Nat
    BY LenIsNat DEF Registered
  <1> DEFINE longer == Append(table, <<name, index>>)
  <1>2. /\ IsSequence(longer) /\ Len(longer) = Len(table) + 1
        /\ \A j \in 1..Len(table) : longer[j] = table[j]
        /\ longer[Len(table) + 1] = <<name, index>>
    BY <1>1, Appended
  <1>3. ASSUME NEW j \in 1..(Len(table) + 1)
        PROVE  /\ longer[j][2] \in Nat
               /\ longer[j][2] < Count(new) \/ (Len(new) > 1 /\ longer[j][2] = Count(new))
    <2>1. CASE j = Len(table) + 1
      BY <1>2, <2>1
    <2>2. CASE j \in 1..Len(table)
      BY <1>2, <2>2 DEF Registered
    <2>. QED BY <1>1, <2>1, <2>2
  <1>. HIDE DEF longer
  <1>4. Registered(longer, new)
    BY <1>2, <1>3 DEF Registered
  <1>. QED BY <1>4 DEF longer

--------------------------------------------------------------------------------
(* What the parts of a step do to the stack and the tables.                 *)

IsResult(result) == result = <<>> \/ \E node : result = <<node>>

LEMMA DeliverEffect ==
    ASSUME NEW stack, StackOK(stack), NEW result, IsResult(result), NEW i,
           Deliver(stack, result, i)
    PROVE  /\ StackOK(open') /\ Len(open') = Len(stack)
           /\ Len(stack) > 1 => Count(open') = Count(stack)
           /\ Len(stack) = 1 => Count(open') = Count(stack) + Len(result)
           /\ Len(result) \in {0, 1} /\ status' = status
           /\ \/ procedures' = procedures
              \/ /\ Len(stack) = 1 /\ Len(result) = 1
                 /\ \E name : procedures' = Append(procedures, <<name, Count(stack)>>)
  <1> DEFINE f == Last(stack)
             new == Frame(f.kind, f.name, f.part, f.parts, f.body \o result, Kind(i) = "colon")
  <1>1. IsSequence(result) /\ Len(result) \in {0, 1} /\ (result # <<>> => Len(result) = 1)
    BY EmptyIsSequence, SingleIsSequence DEF IsResult
  <1>2. IsFrame(f) /\ IsSequence(f.body) /\ (Len(stack) = 1 => f = stack[1])
    <2>1. Len(stack) \in Nat /\ Len(stack) >= 1 /\ f = stack[Len(stack)]
      BY Fronted DEF StackOK
    <2>. QED BY <2>1 DEF StackOK, IsFrame
  <1>. HIDE DEF f, new
  <1>3. IsSequence(f.body \o result) /\ Len(f.body \o result) = Len(f.body) + Len(result)
    BY <1>1, <1>2, Joined
  <1>4. IsFrame(new) /\ new.kind = f.kind /\ new.body = f.body \o result
    <2>. DEFINE g(body, more) == Frame(f.kind, f.name, f.part, f.parts, body, more)
    <2>1. \A body, more : IsSequence(body) =>
            IsFrame(g(body, more)) /\ g(body, more).kind = f.kind /\ g(body, more).body = body
      BY FrameType
    <2>2. new = g(f.body \o result, Kind(i) = "colon")
      BY DEF new
    <2>. HIDE DEF g
    <2>. QED BY <1>3, <2>1, <2>2, Zenon
  <1>5. /\ open' = Append(Front(stack), new)
        /\ procedures' = IF (Len(stack) = 1 /\ result # <<>>) /\ result[1].kind \in {"sub", "function"}
                         THEN Append(procedures, <<result[1].name, Len(f.body)>>) ELSE procedures
        /\ status' = status
    BY DEF Deliver, f, new
  <1>6. /\ StackOK(open') /\ Len(open') = Len(stack)
        /\ Len(stack) = 1 => open'[1] = new
        /\ Len(stack) > 1 => open'[1] = stack[1]
    BY <1>4, <1>5, Replaced DEF f
  <1>7. Len(stack) = 1 => Len(f.body) = Count(stack)
    BY <1>2 DEF Count
  <1>8. \/ procedures' = procedures
        \/ /\ Len(stack) = 1 /\ Len(result) = 1
           /\ \E name : procedures' = Append(procedures, <<name, Count(stack)>>)
    BY <1>1, <1>5, <1>7
  <1>9. /\ Len(stack) > 1 => Count(open') = Count(stack)
        /\ Len(stack) = 1 => Count(open') = Count(stack) + Len(result)
    BY <1>3, <1>4, <1>6, <1>7 DEF Count
  <1>. QED BY <1>1, <1>5, <1>6, <1>8, <1>9

LEMMA ProceduresKeep ==
    ASSUME NEW stack, StackOK(stack), NEW result, IsResult(result), NEW i,
           Deliver(stack, result, i), Registered(procedures, open')
    PROVE  Registered(procedures', open')
  <1>1. /\ StackOK(open')
        /\ Len(stack) = 1 => Count(open') = Count(stack) + Len(result)
        /\ \/ procedures' = procedures
           \/ /\ Len(stack) = 1 /\ Len(result) = 1
              /\ \E name : procedures' = Append(procedures, <<name, Count(stack)>>)
    BY DeliverEffect
  <1>2. Count(stack) \in Nat
    BY CountIsNat
  <1>3. CASE procedures' = procedures
    BY <1>3
  <1>4. ASSUME Len(stack) = 1, Len(result) = 1,
               NEW name, procedures' = Append(procedures, <<name, Count(stack)>>)
        PROVE  Registered(procedures', open')
    <2>1. Count(stack) < Count(open')
      BY <1>1, <1>2, <1>4
    <2>. QED BY <1>2, <1>4, <2>1, Register
  <1>. QED BY <1>1, <1>3, <1>4

(* A statement that is not a label or a line number.                        *)
LEMMA ReturnKeeps ==
    ASSUME Inv, status = "parsing", NEW result, IsResult(result), NEW i, Return(result, i)
    PROVE  Inv'
  <1>1. StackOK(open) /\ Deliver(open, result, i) /\ labels' = labels /\ line_map' = line_map
    BY DEF Inv, Return
  <1>2. /\ StackOK(open') /\ Len(open') = Len(open)
        /\ Len(open) > 1 => Count(open') = Count(open)
        /\ Len(open) = 1 => Count(open') = Count(open) + Len(result)
        /\ Len(result) \in {0, 1} /\ status' = status
    BY <1>1, DeliverEffect
  <1>3. Len(open) \in Nat /\ Len(open) >= 1 /\ Count(open) \in Nat
    BY <1>1, CountIsNat
  <1>4. \A table : Registered(table, open) => Registered(table, open')
    BY <1>1, <1>2, <1>3, StayRegistered
  <1>5. Registered(procedures', open')
    BY <1>1, <1>4, ProceduresKeep DEF Inv
  <1>. QED BY <1>1, <1>2, <1>4, <1>5 DEF Inv

(* A label or a line number: table is where it is registered.               *)
LEMMA LabelKeeps ==
    ASSUME Inv, status = "parsing", NEW node, NEW name, NEW i, Deliver(open, <<node>>, i),
           \/ labels' = Append(labels, <<name, StmtCount>>) /\ line_map' = line_map
           \/ line_map' = Append(line_map, <<name, StmtCount>>) /\ labels' = labels
    PROVE  Inv'
  <1>1. StackOK(open) /\ IsResult(<<node>>) /\ Len(<<node>>) = 1
    BY SingleIsSequence DEF Inv, IsResult
  <1>2. /\ StackOK(open') /\ Len(open') = Len(open)
        /\ Len(open) > 1 => Count(open') = Count(open)
        /\ Len(open) = 1 => Count(open') = Count(open) + 1
        /\ status' = status
    BY <1>1, DeliverEffect
  <1>3. /\ Len(open) \in Nat /\ Len(open) >= 1
        /\ StmtCount \in Nat /\ StmtCount = Count(open)
    BY <1>1, CountIsNat DEF StmtCount, Count, statements
  <1>4. \A table : Registered(table, open) => Registered(table, open')
    BY <1>1, <1>2, <1>3, StayRegistered
  <1>5. Registered(procedures', open')
    BY <1>1, <1>4, ProceduresKeep DEF Inv
  <1>6. StmtCount < Count(open') \/ (Len(open') > 1 /\ StmtCount = Count(open'))
    BY <1>2, <1>3
  <1>7. \A table : Registered(table, open) => Registered(Append(table, <<name, StmtCount>>), open')
    BY <1>3, <1>4, <1>6, Register
  <1>. QED BY <1>1, <1>2, <1>4, <1>5, <1>7 DEF Inv

(* The construct on top ends: its registered statements are now that of the *)
(* program, when it was the outermost one.                                  *)
LEMMA FinishKeeps ==
    ASSUME Inv, status = "parsing", Top.kind # "program", NEW name, NEW i, Finish(name, i)
    PROVE  Inv'
  <1> DEFINE node == Finished(Top, name)
  <1>. HIDE DEF node
  <1>1. /\ Deliver(Front(open), <<node>>, i) /\ labels' = labels /\ line_map' = line_map
        /\ StackOK(open) /\ IsResult(<<node>>) /\ Len(<<node>>) = 1
    BY SingleIsSequence DEF Inv, Finish, IsResult, node
  <1>2. /\ StackOK(Front(open)) /\ Len(Front(open)) = Len(open) - 1
        /\ Len(open) \in Nat /\ Len(open) > 1 /\ Count(Front(open)) = Count(open)
    BY <1>1, Outer DEF Top, Count
  <1>3. /\ StackOK(open') /\ Len(open') = Len(open) - 1
        /\ Len(open) - 1 > 1 => Count(open') = Count(open)
        /\ Len(open) - 1 = 1 => Count(open') = Count(open) + 1
        /\ status' = status
    BY <1>1, <1>2, DeliverEffect
  <1>4. Count(open) \in Nat
    BY <1>1, CountIsNat
  <1>5. \A table : Registered(table, open) => Registered(table, open')
    BY <1>1, <1>2, <1>3, <1>4, StayRegistered
  <1>6. Registered(procedures', open')
    BY <1>1, <1>2, <1>5, ProceduresKeep DEF Inv
  <1>. QED BY <1>1, <1>3, <1>5, <1>6 DEF Inv

LEMMA BeginKeeps ==
    ASSUME Inv, status = "parsing", NEW frame, IsFrame(frame), frame.kind # "program",
           NEW i, Begin(frame, i)
    PROVE  Inv'
  <1>1. /\ open' = Append(open, frame) /\ status' = status
        /\ labels' = labels /\ line_map' = line_map /\ procedures' = procedures
    BY DEF Begin, tables
  <1>2. StackOK(open') /\ Len(open') > 1 /\ Count(open') = Count(open)
    BY <1>1, Inner DEF Inv
  <1>3. \A table : Registered(table, open) => Registered(table, open')
    BY <1>2, StayRegistered DEF Inv
  <1>. QED BY <1>1, <1>2, <1>3 DEF Inv

LEMMA NextPartKeeps ==
    ASSUME Inv, status = "parsing", Top.kind # "program",
           NEW part, NEW body, IsSequence(body), NEW i, NextPart(part, body, i)
    PROVE  Inv'
  <1> DEFINE frame == Frame(Top.kind, Top.name, part, Append(Top.parts, Part(Top)), body, body = <<>>)
  <1>1. /\ open' = Append(Front(open), frame) /\ status' = status
        /\ labels' = labels /\ line_map' = line_map /\ procedures' = procedures
    BY DEF NextPart, tables
  <1>2. IsFrame(frame) /\ frame.kind = Top.kind
    <2> DEFINE f(more) == Frame(Top.kind, Top.name, part, Append(Top.parts, Part(Top)), body, more)
    <2>1. \A more : IsFrame(f(more)) /\ f(more).kind = Top.kind
      BY FrameType
    <2>2. frame = f(body = <<>>)
      OBVIOUS
    <2>. HIDE DEF f, frame
    <2>. QED BY <2>1, <2>2, Zenon
  <1>. HIDE DEF frame
  <1>3. Len(open) > 1
    BY Outer DEF Inv, Top
  <1>4. StackOK(open') /\ Len(open') = Len(open) /\ open'[1] = open[1]
    BY <1>1, <1>2, <1>3, Replaced DEF Inv, Top
  <1>5. \A table : Registered(table, open) => Registered(table, open')
    BY <1>4, StayRegistered DEF Inv, Count
  <1>. QED BY <1>1, <1>4, <1>5 DEF Inv

LEMMA SyntaxErrorKeeps == ASSUME Inv, SyntaxError PROVE Inv'
  BY DEF Inv, SyntaxError, tables, StackOK, Registered, Count

(* DIM: the program grows below the constructs that are being read.         *)
LEMMA DimKeeps == ASSUME Inv, status = "parsing", NEW s, Dim(s) PROVE Inv'
  <1> DEFINE body    == Append(open[1].body, Node("dim", Name(s + 1)))
             program == [open[1] EXCEPT !.body = body]
             stack   == <<program>> \o Tail(open)
  <1>1. CASE Kind(s + 1) # "ident"
    BY <1>1, SyntaxErrorKeeps DEF Dim
  <1>2. CASE Kind(s + 1) = "ident"
    <2>1. Deliver(stack, <<>>, s + 2) /\ labels' = labels /\ line_map' = line_map
      BY <1>2 DEF Dim
    <2>2. /\ Len(open) \in Nat /\ Len(open) >= 1 /\ 1 \in 1..Len(open)
          /\ IsFrame(open[1]) /\ open[1].kind = "program" /\ IsSequence(open[1].body)
      <3>1. Len(open) \in Nat /\ Len(open) >= 1
        BY CountIsNat DEF Inv
      <3>2. 1 \in 1..Len(open)
        BY <3>1
      <3>. QED BY <3>1, <3>2 DEF Inv, StackOK, IsFrame
    <2>3. IsSequence(body) /\ Len(body) = Len(open[1].body) + 1
      BY <2>2, Appended
    <2>. HIDE DEF body
    <2>4. IsFrame(program) /\ program.kind = "program" /\ program.body = body
      BY <2>2, <2>3 DEF IsFrame
    <2>. HIDE DEF program
    <2>5. /\ IsSequence(stack) /\ Len(stack) = Len(open) /\ stack[1] = program
          /\ \A i \in 2..Len(open) : stack[i] = open[i]
      <3>1. /\ IsSequence(Tail(open)) /\ Len(Tail(open)) = Len(open) - 1
            /\ \A i \in 1..(Len(open) - 1) : Tail(open)[i] = open[i + 1]
        BY Tailed DEF Inv, StackOK
      <3>2. IsSequence(<<program>>) /\ Len(<<program>>) = 1 /\ <<program>>[1] = program
        BY SingleIsSequence
      <3>3. /\ IsSequence(stack) /\ Len(stack) = 1 + (Len(open) - 1)
            /\ \A i \in 1..(1 + (Len(open) - 1)) :
                  stack[i] = IF i <= 1 THEN <<program>>[i] ELSE Tail(open)[i - 1]
        BY <3>1, <3>2, Joined
      <3>. HIDE DEF stack
      <3>4. Len(stack) = Len(open) /\ stack[1] = program
        BY <2>2, <3>2, <3>3
      <3>5. ASSUME NEW i \in 2..Len(open) PROVE stack[i] = open[i]
        <4>1. i \in 1..(1 + (Len(open) - 1)) /\ ~(i <= 1) /\ i - 1 \in 1..(Len(open) - 1)
              /\ (i - 1) + 1 = i
          BY <2>2
        <4>. QED BY <3>1, <3>3, <4>1
      <3>. QED BY <3>3, <3>4, <3>5
    <2>. HIDE DEF stack
    <2>6. StackOK(stack) /\ Count(stack) = Count(open) + 1
      <3>1. stack # <<>>
        BY <2>2, <2>5, EmptyIsSequence
      <3>2. ASSUME NEW i \in 1..Len(stack)
            PROVE  IsFrame(stack[i]) /\ (stack[i].kind = "program" <=> i = 1)
        <4>1. CASE i = 1
          BY <2>4, <2>5, <4>1
        <4>2. CASE i \in 2..Len(open)
          BY <2>5, <4>2 DEF Inv, StackOK
        <4>. QED BY <2>2, <2>5, <4>1, <4>2
      <3>. QED BY <2>3, <2>4, <2>5, <3>1, <3>2 DEF StackOK, Count
    <2>7. /\ StackOK(open') /\ Len(open') = Len(stack) /\ status' = status
          /\ Len(stack) > 1 => Count(open') = Count(stack)
          /\ Len(stack) = 1 => Count(open') = Count(stack) + 0
      BY <2>1, <2>6, DeliverEffect, EmptyIsSequence DEF IsResult
    <2>8. Count(open') > Count(open)
      <3>1. Count(open) \in Nat
        BY CountIsNat DEF Inv
      <3>. QED BY <2>2, <2>5, <2>6, <2>7, <3>1
    <2>9. \A table : Registered(table, open) => Registered(table, open')
      BY <2>7, <2>8, StayRegistered DEF Inv
    <2>10. Registered(procedures', open')
      BY <2>1, <2>6, <2>9, ProceduresKeep DEF Inv, IsResult
    <2>. QED BY <2>1, <2>7, <2>9, <2>10 DEF Inv
  <1>. QED BY <1>1, <1>2

--------------------------------------------------------------------------------
(* The invariant.                                                           *)

LEMMA InitKeeps == Init => Inv
  <1>. SUFFICES ASSUME Init PROVE Inv
    OBVIOUS
  <1> DEFINE program == First("program", "", "body")
  <1>1. IsFrame(program) /\ program.kind = "program"
    BY FirstType
  <1>. HIDE DEF program
  <1>2. open = <<program>> /\ labels = <<>> /\ line_map = <<>> /\ procedures = <<>>
        /\ status = "parsing"
    BY DEF Init, program
  <1>3. StackOK(open)
    BY <1>1, <1>2, SingleIsSequence DEF StackOK
  <1>4. Registered(<<>>, open)
    BY EmptyIsSequence DEF Registered
  <1>. QED BY <1>2, <1>3, <1>4 DEF Inv

LEMMA SimpleStatementKeeps ==
    ASSUME Inv, status = "parsing", NEW s,
           \/ LineNumber(s) \/ LabelDef(s) \/ Word(s) \/ CallStatement(s) \/ Goto(s)
           \/ Data(s) \/ Dim(s) \/ EndStatement(s) \/ SkipToken(s) \/ EndOfFile(s)
    PROVE  Inv'
  <1>1. IsResult(<<>>) /\ \A node : IsResult(<<node>>)
    BY DEF IsResult
  <1>2. CASE LineNumber(s)
    BY <1>2, LabelKeeps DEF LineNumber
  <1>3. CASE LabelDef(s)
    BY <1>3, LabelKeeps DEF LabelDef
  <1>4. CASE Word(s)
    BY <1>1, <1>4, ReturnKeeps DEF Word
  <1>5. CASE CallStatement(s)
    BY <1>1, <1>5, ReturnKeeps DEF CallStatement
  <1>6. CASE Goto(s)
    BY <1>1, <1>6, ReturnKeeps, SyntaxErrorKeeps DEF Goto
  <1>7. CASE Data(s)
    BY <1>1, <1>7, ReturnKeeps DEF Data
  <1>8. CASE Dim(s)
    BY <1>8, DimKeeps
  <1>9. CASE EndStatement(s)
    BY <1>1, <1>9, ReturnKeeps DEF EndStatement
  <1>10. CASE SkipToken(s)
    BY <1>1, <1>10, ReturnKeeps DEF SkipToken
  <1>11. CASE EndOfFile(s)
    BY <1>1, <1>11, ReturnKeeps DEF EndOfFile
  <1>. QED BY <1>2, <1>3, <1>4, <1>5, <1>6, <1>7, <1>8, <1>9, <1>10, <1>11

LEMMA ConstructKeeps ==
    ASSUME Inv, status = "parsing", NEW s,
           BeginIf(s) \/ BeginLoop(s) \/ BeginSelect(s) \/ BeginProcedure(s)
    PROVE  Inv'
  <1>1. ASSUME NEW kind, kind # "program", NEW name, NEW part, NEW i,
               Begin(First(kind, name, part), i)
        PROVE  Inv'
    BY <1>1, FirstType, BeginKeeps
  <1>2. CASE BeginIf(s)
    <2> DEFINE goto == Frame("line if", "", "then", <<>>, <<Node("goto", Name(s + 3))>>, FALSE)
    <2>1. IsFrame(goto) /\ goto.kind = "line if"
      <3>1. IsSequence(<<Node("goto", Name(s + 3))>>)
        BY SingleIsSequence
      <3>. QED BY <3>1 DEF IsFrame, Frame
    <2>2. CASE Begin(goto, s + 4)
      BY <2>1, <2>2, BeginKeeps
    <2>3. \/ SyntaxError \/ Begin(goto, s + 4)
          \/ \E kind \in {"if", "line if"} : \E i : Begin(First(kind, "", "then"), i)
      BY <1>2 DEF BeginIf
    <2>. QED BY <1>1, <2>2, <2>3, SyntaxErrorKeeps
  <1>3. CASE BeginLoop(s)
    <2>1. \/ SyntaxError
          \/ \E kind \in {"for", "while", "do"} : \E name, i : Begin(First(kind, name, "body"), i)
      BY <1>3 DEF BeginLoop
    <2>. QED BY <1>1, <2>1, SyntaxErrorKeeps
  <1>4. CASE BeginSelect(s)
    BY <1>1, <1>4, SyntaxErrorKeeps DEF BeginSelect
  <1>5. CASE BeginProcedure(s)
    BY <1>1, <1>5, SyntaxErrorKeeps DEF BeginProcedure
  <1>. QED BY <1>2, <1>3, <1>4, <1>5

LEMMA EndPartKeeps == ASSUME Inv, EndPart PROVE Inv'
  <1>1. status = "parsing"
    BY DEF EndPart
  <1>2. ASSUME Top.kind # "program", NEW k, NEW name, FinishWithEnd(k, name) PROVE Inv'
    BY <1>1, <1>2, FinishKeeps, SyntaxErrorKeeps DEF FinishWithEnd
  <1>3. IsSequence(<<>>) /\ \A node : IsSequence(<<node>>)
    BY EmptyIsSequence, SingleIsSequence
  <1>4. CASE EndIfPart
    BY <1>1, <1>2, <1>3, <1>4, NextPartKeeps, SyntaxErrorKeeps DEF EndIfPart
  <1>5. CASE EndLineIfPart
    BY <1>1, <1>3, <1>5, NextPartKeeps, FinishKeeps DEF EndLineIfPart
  <1>6. CASE EndFor
    BY <1>1, <1>6, FinishKeeps, SyntaxErrorKeeps DEF EndFor
  <1>7. CASE EndWhile
    BY <1>1, <1>7, FinishKeeps, SyntaxErrorKeeps DEF EndWhile
  <1>8. CASE EndDo
    BY <1>1, <1>8, FinishKeeps, SyntaxErrorKeeps DEF EndDo
  <1>9. CASE EndCase
    BY <1>1, <1>2, <1>3, <1>9, NextPartKeeps, SyntaxErrorKeeps DEF EndCase
  <1>10. CASE EndProcedure
    BY <1>2, <1>10 DEF EndProcedure
  <1>11. CASE EndProgram
    <2>1. Len(open) \in Nat /\ Len(open) >= 1 /\ open[Len(open)].kind = "program"
      BY <1>11, Fronted DEF Inv, StackOK, EndProgram, Top
    <2>2. Len(open) = 1
      BY <2>1 DEF Inv, StackOK
    <2>. QED BY <1>11, <2>2 DEF EndProgram, tables, Inv, StackOK, Registered, Count
  <1>. QED BY <1>4, <1>5, <1>6, <1>7, <1>8, <1>9, <1>10, <1>11 DEF EndPart

LEMMA StepKeeps == Inv /\ [Next]_parserVars => Inv'
  <1>. SUFFICES ASSUME Inv, [Next]_parserVars PROVE Inv'
    OBVIOUS
  <1>1. CASE ParseStatement
    <2>1. status = "parsing"
      BY <1>1 DEF ParseStatement
    <2>. QED BY <1>1, <2>1, SimpleStatementKeeps, ConstructKeeps DEF ParseStatement
  <1>2. CASE EndPart
    BY <1>2, EndPartKeeps
  <1>3. CASE UNCHANGED parserVars
    BY <1>3 DEF parserVars, Inv, StackOK, Registered, Count
  <1>. QED BY <1>1, <1>2, <1>3 DEF Next, Parsed

(* When the source is read, every label, line number and procedure has the  *)
(* index of a statement of the program (JumpTargetsExist), whatever the     *)
(* source: a label registered while a body was open has that body's         *)
(* construct, which exec_goto and exec_gosub then start.                    *)
THEOREM TargetsExist == Spec => []JumpTargetsExist
  <1>1. Inv => JumpTargetsExist
    <2>. SUFFICES ASSUME Inv, status = "done",
                         NEW table \in {labels, line_map, procedures},
                         NEW j \in 1..Len(table)
                  PROVE  table[j][2] \in 0..(StmtCount - 1)
      BY DEF JumpTargetsExist
    <2>1. Len(open) = 1 /\ Count(open) \in Nat /\ StmtCount = Count(open)
      BY CountIsNat DEF Inv, StmtCount, Count, statements
    <2>2. Registered(table, open)
      BY DEF Inv
    <2>3. table[j][2] \in Nat /\ table[j][2] < Count(open)
      BY <2>1, <2>2 DEF Registered
    <2>. QED BY <2>1, <2>3
  <1>. QED BY InitKeeps, StepKeeps, <1>1, PTL DEF Spec

--------------------------------------------------------------------------------
(* The place in the tokens.                                                 *)

Places == 1..(Len(tokens) + 1)

InPlace == Len(tokens) \in Nat /\ pos \in Places

Stays == tokens' = tokens /\ pos' \in Places /\ status' \in {"parsing", "done", "error"}

LEMMA KindWithin ==
    ASSUME Len(tokens) \in Nat, NEW i \in Places, Kind(i) # "eof"
    PROVE  i \in 1..Len(tokens) /\ i + 1 \in Places
  BY DEF Kind, Places

LEMMA SkipStays ==
    ASSUME Len(tokens) \in Nat, NEW i \in Places
    PROVE  SkipEol(i) \in Places
  BY KindWithin DEF SkipEol

LEMMA DeliverStays ==
    ASSUME InPlace, status = "parsing", NEW stack, NEW result, NEW i \in Places,
           Deliver(stack, result, i)
    PROVE  Stays
  <1>1. /\ pos' = (IF Kind(i) = "colon" THEN i + 1
                   ELSE IF Last(stack).kind = "line if" THEN i ELSE SkipEol(i))
        /\ tokens' = tokens /\ status' = status
    BY DEF Deliver
  <1>. QED BY <1>1, KindWithin, SkipStays DEF Stays, InPlace

LEMMA BeginStays ==
    ASSUME InPlace, status = "parsing", NEW frame, NEW i \in Places, Begin(frame, i)
    PROVE  Stays
  BY DEF Begin, Stays

LEMMA NextPartStays ==
    ASSUME InPlace, status = "parsing", NEW part, NEW body, NEW i \in Places, NextPart(part, body, i)
    PROVE  Stays
  BY DEF NextPart, Stays

LEMMA FinishStays ==
    ASSUME InPlace, status = "parsing", NEW name, NEW i \in Places, Finish(name, i)
    PROVE  Stays
  BY DeliverStays DEF Finish

LEMMA ReturnStays ==
    ASSUME InPlace, status = "parsing", NEW result, NEW i \in Places, Return(result, i)
    PROVE  Stays
  BY DeliverStays DEF Return

LEMMA SyntaxErrorStays == ASSUME InPlace, SyntaxError PROVE Stays
  BY DEF SyntaxError, Stays, InPlace

(* The next places are in the source as long as what stands there is known. *)
LEMMA Ahead ==
    ASSUME Len(tokens) \in Nat, NEW s \in Places
    PROVE  /\ Kind(s) # "eof" => s + 1 \in Places
           /\ Kind(s) # "eof" /\ Kind(s + 1) # "eof" => s + 2 \in Places
           /\ Kind(s) # "eof" /\ Kind(s + 1) # "eof" /\ Kind(s + 2) # "eof" => s + 3 \in Places
           /\ Kind(s) # "eof" /\ Kind(s + 1) # "eof" /\ Kind(s + 2) # "eof" /\ Kind(s + 3) # "eof"
                 => s + 4 \in Places
  BY DEF Kind, Places

LEMMA StatementStays ==
    ASSUME InPlace, status = "parsing", NEW s \in Places,
           \/ LineNumber(s) \/ LabelDef(s) \/ Word(s) \/ CallStatement(s) \/ Goto(s)
           \/ Data(s) \/ Dim(s) \/ EndStatement(s) \/ SkipToken(s) \/ EndOfFile(s)
    PROVE  Stays
  <1>0. Len(tokens) \in Nat
    BY DEF InPlace
  <1>1. CASE LineNumber(s)
    BY <1>0, <1>1, Ahead, DeliverStays DEF LineNumber
  <1>2. CASE LabelDef(s)
    BY <1>0, <1>2, Ahead, DeliverStays DEF LabelDef
  <1>3. CASE Word(s)
    BY <1>0, <1>3, Ahead, ReturnStays DEF Word
  <1>4. CASE CallStatement(s)
    BY <1>0, <1>4, Ahead, ReturnStays DEF CallStatement
  <1>5. CASE Goto(s)
    BY <1>0, <1>5, Ahead, ReturnStays, SyntaxErrorStays DEF Goto
  <1>6. CASE Data(s)
    BY <1>0, <1>6, Ahead, ReturnStays DEF Data, AtEndOfStatement
  <1>7. CASE Dim(s)
    BY <1>0, <1>7, Ahead, DeliverStays, SyntaxErrorStays DEF Dim
  <1>8. CASE EndStatement(s)
    BY <1>0, <1>8, Ahead, ReturnStays DEF EndStatement
  <1>9. CASE SkipToken(s)
    BY <1>0, <1>9, Ahead, ReturnStays DEF SkipToken
  <1>10. CASE EndOfFile(s)
    BY <1>10, ReturnStays DEF EndOfFile
  <1>. QED BY <1>1, <1>2, <1>3, <1>4, <1>5, <1>6, <1>7, <1>8, <1>9, <1>10

LEMMA ConstructStays ==
    ASSUME InPlace, status = "parsing", NEW s \in Places,
           BeginIf(s) \/ BeginLoop(s) \/ BeginSelect(s) \/ BeginProcedure(s)
    PROVE  Stays
  <1>0. Len(tokens) \in Nat
    BY DEF InPlace
  <1>1. ASSUME NEW frame, NEW i \in Places, Begin(frame, i) \/ Begin(frame, SkipEol(i)) PROVE Stays
    BY <1>0, <1>1, SkipStays, BeginStays
  <1>2. CASE BeginIf(s)
    BY <1>0, <1>1, <1>2, Ahead, SyntaxErrorStays DEF BeginIf
  <1>3. CASE BeginLoop(s)
    BY <1>0, <1>1, <1>3, Ahead, SyntaxErrorStays DEF BeginLoop
  <1>4. CASE BeginSelect(s)
    BY <1>0, <1>1, <1>4, Ahead, SyntaxErrorStays DEF BeginSelect
  <1>5. CASE BeginProcedure(s)
    BY <1>0, <1>1, <1>5, Ahead, SyntaxErrorStays DEF BeginProcedure
  <1>. QED BY <1>2, <1>3, <1>4, <1>5

(* NEXT: the names end before the tokens do.                                *)
LEMMA AfterNamesStays ==
    ASSUME Len(tokens) \in Nat, NEW i \in Places
    PROVE  AfterNames(i) \in Places
  <1>1. CASE Kind(i) # "ident"
    BY <1>1 DEF AfterNames
  <1>2. CASE Kind(i) = "ident"
    <2> DEFINE T == { j \in (i + 1)..(Len(tokens) + 1) :
                        ~(Kind(j) = "comma" \/ (Kind(j) = "ident" /\ Kind(j - 1) = "comma")) }
    <2>1. i + 1 \in Places /\ Kind(Len(tokens) + 1) = "eof"
      BY <1>2, KindWithin DEF Kind
    <2>2. Len(tokens) + 1 \in T
      BY <2>1 DEF Places
    <2>3. T \subseteq Nat /\ T \subseteq Places
      BY DEF Places
    <2>4. AfterNames(i) = Min(T)
      BY <1>2 DEF AfterNames
    <2>. HIDE DEF T
    <2>5. \E n \in T : \A m \in T : n <= m
      BY <2>2, <2>3, LeastElement
    <2>6. Min(T) \in T
      BY <2>5 DEF Min
    <2>. QED BY <2>3, <2>4, <2>6
  <1>. QED BY <1>1, <1>2

LEMMA EndPartStays == ASSUME InPlace, EndPart PROVE Stays
  <1>0. Len(tokens) \in Nat /\ pos \in Places /\ status = "parsing"
    BY DEF InPlace, EndPart
  <1>1. ASSUME NEW k, k # "eof", NEW name, FinishWithEnd(k, name) PROVE Stays
    BY <1>0, <1>1, Ahead, FinishStays, SyntaxErrorStays DEF FinishWithEnd
  <1>2. ASSUME NEW part, NEW body, NEW i \in Places,
               NextPart(part, body, i) \/ NextPart(part, body, SkipEol(i))
        PROVE  Stays
    BY <1>0, <1>2, SkipStays, NextPartStays
  <1>3. CASE EndIfPart
    BY <1>0, <1>1, <1>2, <1>3, Ahead, SyntaxErrorStays DEF EndIfPart
  <1>4. CASE EndLineIfPart
    BY <1>0, <1>2, <1>4, Ahead, FinishStays DEF EndLineIfPart
  <1>5. CASE EndFor
    <2>1. CASE Kind(pos) = "next"
      <3>1. AfterNames(pos + 1) \in Places /\ Finish("", AfterNames(pos + 1))
        BY <1>0, <1>5, <2>1, Ahead, AfterNamesStays DEF EndFor
      <3>. QED BY <1>0, <3>1, FinishStays
    <2>2. CASE Kind(pos) # "next"
      BY <1>5, <2>2, SyntaxErrorStays DEF EndFor
    <2>. QED BY <2>1, <2>2
  <1>6. CASE EndWhile
    BY <1>0, <1>6, Ahead, FinishStays, SyntaxErrorStays DEF EndWhile
  <1>7. CASE EndDo
    BY <1>0, <1>7, Ahead, FinishStays, SyntaxErrorStays DEF EndDo
  <1>8. CASE EndCase
    BY <1>0, <1>1, <1>2, <1>8, Ahead, SyntaxErrorStays DEF EndCase
  <1>9. CASE EndProcedure
    BY <1>1, <1>9 DEF EndProcedure
  <1>10. CASE EndProgram
    BY <1>0, <1>10 DEF EndProgram, Stays
  <1>. QED BY <1>3, <1>4, <1>5, <1>6, <1>7, <1>8, <1>9, <1>10 DEF EndPart

LEMMA StepStays == InPlace /\ status \in {"parsing", "done", "error"} /\ [Next]_parserVars => Stays
  <1>. SUFFICES ASSUME InPlace, status \in {"parsing", "done", "error"}, [Next]_parserVars PROVE Stays
    OBVIOUS
  <1>1. CASE ParseStatement
    <2>1. status = "parsing" /\ SkipEol(pos) \in Places
      BY <1>1, SkipStays DEF ParseStatement, InPlace
    <2>. QED BY <1>1, <2>1, StatementStays, ConstructStays DEF ParseStatement
  <1>2. CASE EndPart
    BY <1>2, EndPartStays
  <1>3. CASE UNCHANGED parserVars
    BY <1>3 DEF parserVars, Stays, InPlace
  <1>. QED BY <1>1, <1>2, <1>3 DEF Next, Parsed

--------------------------------------------------------------------------------
(* The lexer's last pass.                                                   *)

LabelledBy(stage, raw) ==
    /\ Labelled(raw) = stage[Len(raw)]
    /\ stage[0] = <<>>
    /\ \A i \in 1..Len(raw) : stage[i] = Relabelled(stage[i - 1], raw, i)

LEMMA LabelledUnfolds ==
    ASSUME NEW raw, Len(raw) \in Nat
    PROVE  \E stage : LabelledBy(stage, raw)
  <1> DEFINE Step(done, i) == Relabelled(done, raw, i)
             UpTo1(g, n)   == g = [i \in 0..n |-> IF i = 0 THEN <<>> ELSE Step(g[i - 1], i)]
             T == {n \in Nat : \E g : UpTo1(g, n)}
             k == Len(raw)
             f == CHOOSE g : UpTo1(g, k)
  <1>1. Labelled(raw) = f[k]
    BY DEF Labelled
  <1>. HIDE DEF Step
  <1>2. 0 \in T
    <2>1. UpTo1([i \in 0..0 |-> <<>>], 0)
      OBVIOUS
    <2>. QED BY <2>1
  <1>3. ASSUME NEW n \in Nat, n \in T PROVE n + 1 \in T
    <2>1. PICK g : UpTo1(g, n)
      BY <1>3
    <2> DEFINE h == [i \in 0..(n + 1) |-> IF i = n + 1 THEN Step(g[n], i) ELSE g[i]]
    <2>2. UpTo1(h, n + 1)
      BY <2>1
    <2>. HIDE DEF h, UpTo1
    <2>. QED BY <2>2
  <1>. HIDE DEF T
  <1>4. k \in T
    BY <1>2, <1>3, EveryNumber
  <1>5. UpTo1(f, k)
    BY <1>4 DEF T
  <1>. HIDE DEF f
  <1>6. f[0] = <<>>
    BY <1>5
  <1>7. ASSUME NEW i \in 1..k PROVE f[i] = Step(f[i - 1], i)
    BY <1>5
  <1>. QED BY <1>1, <1>6, <1>7 DEF Step, LabelledBy

Token    == [kind : TokenKinds, name : STRING]
RawToken == [kind : TokenKinds \ {"label"}, name : STRING]

LEMMA SequenceFacts ==
    ASSUME NEW S, NEW q \in Seq(S)
    PROVE  Len(q) \in Nat /\ \A i \in 1..Len(q) : q[i] \in S
  BY LenProperties, ElementOfSeq

LEMMA LabelledTyped ==
    ASSUME NEW raw \in Seq(RawToken)
    PROVE  Labelled(raw) \in Seq(Token)
  <1>0. Len(raw) \in Nat /\ \A i \in 1..Len(raw) : raw[i] \in RawToken
    BY SequenceFacts
  <1>1. Len(raw) \in Nat /\ \A i \in 1..Len(raw) : raw[i] \in Token
    BY <1>0 DEF Token, RawToken
  <1>2. PICK stage : LabelledBy(stage, raw)
    BY <1>1, LabelledUnfolds
  <1> DEFINE T == {i \in 0..Len(raw) : stage[i] \in Seq(Token)}
  <1>3. 0 \in T
    <2>1. stage[0] = <<>> /\ <<>> \in Seq(Token) /\ 0 \in 0..Len(raw)
      BY <1>1, <1>2, EmptySeq DEF LabelledBy
    <2>. QED BY <2>1
  <1>4. ASSUME NEW i \in 1..Len(raw), i - 1 \in T PROVE i \in T
    <2> DEFINE done == stage[i - 1]
    <2>1. done \in Seq(Token) /\ stage[i] = Relabelled(done, raw, i)
      BY <1>2, <1>4 DEF LabelledBy
    <2>. HIDE DEF done
    <2>2. raw[i] \in Token /\ [raw[i] EXCEPT !.kind = "label"] \in Token
      BY <1>1 DEF Token, TokenKinds
    <2>3. Relabelled(done, raw, i) \in Seq(Token)
      BY <2>1, <2>2, AppendProperties DEF Relabelled
    <2>. QED BY <2>1, <2>3
  <1>. HIDE DEF T
  <1>5. 0..Len(raw) \subseteq T
    BY <1>1, <1>3, <1>4, UpTo
  <1>. QED BY <1>1, <1>2, <1>5 DEF LabelledBy, T

--------------------------------------------------------------------------------
(* Types.                                                                   *)

TypeInv ==
    /\ Inv /\ InPlace /\ status \in {"parsing", "done", "error"}
    /\ \A i \in 1..Len(tokens) : tokens[i].kind \in TokenKinds

(* The parser never passes the end of the tokens by more than the place     *)
(* after the last one, where peek finds the end of the file, whatever is    *)
(* missing in the source; and the constructs being read are those of one    *)
(* program, which is never closed (TypeOK).                                 *)
THEOREM TypeAlways == Spec => []TypeOK
  <1>1. Init => TypeInv
    <2>. SUFFICES ASSUME Init PROVE TypeInv
      OBVIOUS
    <2>1. source.raw \in Seq(RawToken)
      BY SourcesOK DEF Init, RawToken
    <2>2. tokens \in Seq(Token)
      BY <2>1, LabelledTyped DEF Init
    <2>3. Len(tokens) \in Nat /\ \A i \in 1..Len(tokens) : tokens[i] \in Token
      BY <2>2, SequenceFacts
    <2>4. \A i \in 1..Len(tokens) : tokens[i].kind \in TokenKinds
      BY <2>3 DEF Token
    <2>5. pos = 1 /\ status = "parsing"
      BY DEF Init
    <2>6. pos \in Places
      BY <2>3, <2>5 DEF Places
    <2>. QED BY <2>3, <2>4, <2>5, <2>6, InitKeeps DEF TypeInv, InPlace
  <1>2. TypeInv /\ [Next]_parserVars => TypeInv'
    <2>. SUFFICES ASSUME TypeInv, [Next]_parserVars PROVE TypeInv'
      OBVIOUS
    <2>1. Inv' /\ Stays
      BY StepKeeps, StepStays DEF TypeInv
    <2>. QED BY <2>1 DEF TypeInv, Stays, InPlace, Places
  <1>3. TypeInv => TypeOK
    <2>. SUFFICES ASSUME TypeInv PROVE TypeOK
      OBVIOUS
    <2>1. 1 \in 1..Len(open) /\ Len(open) \in Nat
      BY CountIsNat DEF TypeInv, Inv
    <2>. QED BY <2>1 DEF TypeInv, InPlace, Places, TypeOK, Inv, StackOK
  <1>. QED BY <1>1, <1>2, <1>3, PTL DEF Spec

================================================================================
