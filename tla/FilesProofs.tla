------------------------------- MODULE FilesProofs -------------------------------
(***************************************************************************)
(* Proofs about Files: its types, that reads see the file, and that what   *)
(* WRITE # wrote INPUT # reads back.                                       *)
(***************************************************************************)
EXTENDS Files, WellFoundedInduction, SequenceTheorems, TLAPS

--------------------------------------------------------------------------------
(* Induction over the numbers, stated with sets: P holds of every number if *)
(* the set of those it holds of has 0 and with each number the next one.    *)

(* A set of natural numbers that is not empty has a least element.          *)
LEMMA LeastElement ==
    ASSUME NEW T, T \subseteq Nat, T # {}
    PROVE  \E n \in T : \A m \in T : n <= m
<1> DEFINE Less == {ss \in Nat \X Nat : ss[1] < ss[2]}
<1>1. IsWellFoundedOn(Less, Nat)
  BY NatLessThanWellFounded DEF OpToRel
<1> HIDE DEF Less
<1>2. PICK n \in T : \A m \in T : ~(<<m, n>> \in Less)
  BY <1>1, WFMin
<1>3. ASSUME NEW m \in T PROVE n <= m
  <2>1. <<m, n>> \in Nat \X Nat /\ ~(<<m, n>> \in Less)
    BY <1>2
  <2>2. ~(<<m, n>>[1] < <<m, n>>[2])
    BY <2>1 DEF Less
  <2> QED BY <2>2
<1> QED BY <1>3

(* A set with 0 and with each of its numbers the next one has them all.     *)
LEMMA EveryNumber ==
    ASSUME NEW T, 0 \in T, \A n \in Nat : n \in T => n + 1 \in T
    PROVE  Nat \subseteq T
<1> SUFFICES ASSUME Nat \ T # {} PROVE FALSE
  OBVIOUS
<1>1. PICK n \in Nat \ T : \A m \in Nat \ T : n <= m
  BY LeastElement
<1>2. n # 0 /\ n - 1 \in Nat /\ n - 1 \in T
  BY <1>1
<1>3. (n - 1) + 1 \in T
  BY <1>2
<1> QED BY <1>2, <1>3

(* The same for the numbers up to k.                                        *)
LEMMA UpTo ==
    ASSUME NEW T, NEW k \in Nat, 0 \in T, \A i \in 1..k : i - 1 \in T => i \in T
    PROVE  0..k \subseteq T
<1> DEFINE U == {i \in Nat : i <= k => i \in T}
<1>1. 0 \in U
  OBVIOUS
<1>2. ASSUME NEW n \in Nat, n \in U, n + 1 <= k PROVE n + 1 \in T
  <2>1. n \in T /\ n + 1 \in 1..k /\ (n + 1) - 1 = n
    BY <1>2
  <2> QED BY <2>1
<1>3. \A n \in Nat : n \in U => n + 1 \in U
  BY <1>2
<1> HIDE DEF U
<1>4. Nat \subseteq U
  BY <1>1, <1>3, EveryNumber
<1> QED BY <1>4 DEF U

--------------------------------------------------------------------------------

Writers == {"output", "append"}

(* A file is open on one number only, unless files are shared, and then     *)
(* nobody writes it as text.                                                *)
Sole ==
    \A n, m \in Nums : IsOpen(n) /\ m \in OpenOn(files[n].file) /\ m # n =>
        Sharing /\ files[n].mode \notin Writers /\ files[m].mode \notin Writers

(* What a handle has pending still fits its file.                           *)
PendFits ==
    \A n \in Nums : IsOpen(n) /\ files[n].pend # <<>> =>
        PendAt(files[n]) + Len(files[n].pend) - 1 <= program.bytes

TypeInv == TypeOK /\ Sole /\ PendFits

(* What a handle has buffered is what the file holds.                       *)
CacheExact ==
    \A n \in Nums : IsOpen(n) /\ files[n].cached /\ files[n].pend = <<>> =>
        files[n].cache = disk[files[n].file]

(* An item ends with a comma or with the end of the line.                   *)
Delimited(c, d, b) ==
    /\ d \in 1..Len(c)
    /\ \/ c[d] = Comma /\ b = d + 1
       \/ c[d] = CR /\ d < Len(c) /\ c[d + 1] = LF /\ b = d + 2

(* The bytes of c from a up to b are the item t and its delimiter.          *)
Quoted(c, a, q, b, t) ==
    /\ c[a] = Quote /\ c[q] = Quote /\ \A j \in (a + 1)..(q - 1) : c[j] # Quote
    /\ t = SubSeq(c, a + 1, q - 1) /\ Delimited(c, q + 1, b)
Unquoted(c, a, q, b, t) ==
    /\ c[a] \notin Blank \cup {Quote}
    /\ \A j \in (a + 1)..(q - 1) : c[j] \notin {Comma, CR, LF}
    /\ t = SubSeq(c, a, q - 1) /\ Delimited(c, q, b)
Spelled(c, a, b, t) ==
    /\ a \in 1..Len(c) /\ Storable(t)
    /\ \E q \in (a + 1)..Len(c) : Quoted(c, a, q, b, t) \/ Unquoted(c, a, q, b, t)

(* The bytes c are the items ts, and P says where each of them ends.        *)
Parsed(c, ts, P) ==
    /\ P \in [0..Len(ts) -> Nat \ {0}] /\ P[0] = 1 /\ P[Len(ts)] = Len(c) + 1
    /\ \A i \in 1..Len(ts) : Spelled(c, P[i - 1], P[i], ts[i])
IsParsed(c, ts) == \E P \in [0..Len(ts) -> Nat \ {0}] : Parsed(c, ts, P)

(* What handle h and its file, which holds d, make of the items ts, if h    *)
(* has read k of them.                                                      *)
Logs(h, d, ts, k) ==
    /\ h.mode \notin Writers => h.pend = <<>>
    /\ h.mode = "output" => h.pos = Len(d) + 1
    /\ \E P \in [0..Len(ts) -> Nat \ {0}] :
          /\ Parsed(d \o h.pend, ts, P)
          /\ k # Unknown => h.mode = "input" /\ k <= Len(ts) /\ h.pos = P[k]

(* A file that only WRITE # wrote holds the items it was given.             *)
Logged ==
    \A f \in plain :
        /\ OpenOn(f) = {} => IsParsed(disk[f], fields[f])
        /\ \A n \in OpenOn(f) : Logs(files[n], disk[f], fields[f], taken[n])

--------------------------------------------------------------------------------
(* Sequences of bytes, and what the C library does with them.               *)

LEMMA ConstantFacts ==
    /\ RecLen \in Nat \ {0} /\ FieldSize \in Nat \ {0} /\ Nums \subseteq Nat \ {0} /\ NoVar \notin Vars
    /\ {Quote, Comma, CR, LF, Space, Nul, Unset} \subseteq Byte
    /\ \A p \in Programs : ProgramOK(p)
  BY ConstantsOK DEF Nums

LEMMA FirstLeast ==
    ASSUME NEW S, S \subseteq Int, NEW i \in S, \A j \in S : i <= j
    PROVE  First(S) = i
<1>1. First(S) \in S /\ \A j \in S : First(S) <= j
  BY Zenon DEF First
<1>2. First(S) \in Int /\ i \in Int /\ First(S) <= i /\ i <= First(S)
  BY <1>1
<1> QED BY <1>2

LEMMA FirstMember ==
    ASSUME NEW S, S \subseteq Nat, S # {}
    PROVE  First(S) \in S
<1>1. PICK i \in S : \A j \in S : i <= j
  BY LeastElement
<1>2. First(S) \in S
  BY <1>1, Zenon DEF First
<1> QED BY <1>2

LEMMA OverwriteFacts ==
    ASSUME NEW c \in Seq(Byte), NEW at \in Nat \ {0}, NEW b \in Seq(Byte)
    PROVE  /\ Overwrite(c, at, b) \in Seq(Byte)
           /\ b = <<>> => Overwrite(c, at, b) = c
           /\ b # <<>> => Len(Overwrite(c, at, b)) =
                  IF Len(c) < at + Len(b) - 1 THEN at + Len(b) - 1 ELSE Len(c)
<1>1. Len(c) \in Nat /\ Len(b) \in Nat /\ at \in Nat /\ at >= 1
  OBVIOUS
<1>2. CASE b = <<>>
  BY <1>2 DEF Overwrite
<1>3. CASE b # <<>>
  <2> DEFINE k == IF Len(c) < at + Len(b) - 1 THEN at + Len(b) - 1 ELSE Len(c)
             byte(i) == IF i \in at..(at + Len(b) - 1) THEN b[i - at + 1]
                        ELSE IF i <= Len(c) THEN c[i] ELSE Nul
  <2>1. k \in Nat
    BY <1>1
  <2>2. Overwrite(c, at, b) = [i \in 1..k |-> byte(i)]
    BY <1>3 DEF Overwrite
  <2>3. ASSUME NEW i \in 1..k PROVE byte(i) \in Byte
    <3>1. CASE i \in at..(at + Len(b) - 1)
      <4>1. i - at + 1 \in 1..Len(b)
        BY <1>1, <3>1
      <4> QED BY <3>1, <4>1
    <3>2. CASE i \notin at..(at + Len(b) - 1) /\ i <= Len(c)
      <4>1. i \in 1..Len(c)
        BY <2>1, <3>2
      <4> QED BY <3>2, <4>1
    <3>3. CASE i \notin at..(at + Len(b) - 1) /\ ~(i <= Len(c))
      BY <3>3, ConstantFacts
    <3> QED BY <3>1, <3>2, <3>3
  <2> HIDE DEF k, byte
  <2>4. [i \in 1..k |-> byte(i)] \in Seq(Byte) /\ Len([i \in 1..k |-> byte(i)]) = k
    BY <2>1, <2>3
  <2> QED BY <1>3, <2>2, <2>4 DEF k
<1> QED BY <1>2, <1>3

(* Written at its end, a file grows by what is written.                     *)
LEMMA OverwriteAppends ==
    ASSUME NEW c \in Seq(Byte), NEW b \in Seq(Byte)
    PROVE  Overwrite(c, Len(c) + 1, b) = c \o b
<1>1. Len(c) \in Nat /\ Len(b) \in Nat
  OBVIOUS
<1>2. CASE b = <<>>
  <2>1. Overwrite(c, Len(c) + 1, b) = c
    BY <1>2 DEF Overwrite
  <2> QED BY <1>2, <2>1, ConcatEmptySeq
<1>3. CASE b # <<>>
  <2> DEFINE w == Overwrite(c, Len(c) + 1, b)
  <2>1. Len(b) >= 1
    BY <1>3
  <2>2. w \in Seq(Byte) /\ Len(w) = Len(c) + Len(b)
    BY <1>1, <1>3, <2>1, OverwriteFacts
  <2>3. ASSUME NEW i \in 1..(Len(c) + Len(b)) PROVE w[i] = (c \o b)[i]
    BY <1>1, <1>3, <2>1 DEF Overwrite
  <2>4. c \o b \in Seq(Byte) /\ Len(c \o b) = Len(c) + Len(b)
    OBVIOUS
  <2> HIDE DEF w
  <2> QED BY <2>2, <2>3, <2>4, SeqEqual DEF w
<1> QED BY <1>2, <1>3

--------------------------------------------------------------------------------
(* Handles and the table.                                                   *)

LEMMA OpenFacts ==
    ASSUME TypeInv, NEW n \in Nums, IsOpen(n)
    PROVE  /\ files[n] \in Handles /\ files[n].mode \in Modes
           /\ files[n].file \in FileNames /\ files[n].file \in dir
           /\ n \in OpenOn(files[n].file)
           /\ disk[files[n].file] \in Seq(Byte) /\ Len(disk[files[n].file]) <= program.bytes
           /\ files[n].pos \in Nat \ {0} /\ files[n].pend \in Seq(Byte)
           /\ files[n].cache \in Seq(Byte)
           /\ files[n].map \in {<<>>} \cup program.lists
  BY DEF TypeInv, TypeOK, IsOpen, OpenOn, Handles

LEMMA ProgramFacts ==
    ASSUME TypeInv
    PROVE  program \in Programs /\ ProgramOK(program) /\ program.bytes \in Nat
  BY ConstantFacts, ZenonT(40) DEF TypeInv, TypeOK, ProgramOK

(* Where pending bytes go, and what the handle is once they are there.      *)
LEMMA SyncFacts ==
    ASSUME TypeInv, NEW n \in Nums, IsOpen(n)
    PROVE  /\ PendAt(files[n]) \in Nat \ {0}
           /\ AfterSync(files[n]) \in Handles
           /\ AfterSync(files[n]).mode = files[n].mode
           /\ AfterSync(files[n]).file = files[n].file
           /\ AfterSync(files[n]).pend = <<>>
           /\ AfterSync(files[n]).map = files[n].map
           /\ AfterSync(files[n]).cache = files[n].cache
           /\ AfterSync(files[n]).cached => files[n].cached /\ files[n].pend = <<>>
           /\ AfterSync(files[n]).pos = IF files[n].pend = <<>> THEN files[n].pos
                                        ELSE PendAt(files[n]) + Len(files[n].pend)
<1> DEFINE h == files[n]
<1>1. h \in Handles /\ h.pos \in Nat \ {0} /\ h.pend \in Seq(Byte) /\ Len(disk[h.file]) \in Nat
  BY OpenFacts
<1>2. PendAt(h) \in Nat \ {0}
  BY <1>1 DEF PendAt
<1>3. CASE h.pend = <<>>
  BY <1>1, <1>2, <1>3 DEF AfterSync
<1>4. CASE h.pend # <<>>
  <2> DEFINE p == PendAt(h) + Len(h.pend)
  <2>1. p \in Nat \ {0}
    BY <1>1, <1>2
  <2>2. AfterSync(h) = [h EXCEPT !.pos = p, !.pend = <<>>, !.cached = FALSE]
    BY <1>4 DEF AfterSync, Synced
  <2> HIDE DEF p
  <2>3. [h EXCEPT !.pos = p, !.pend = <<>>, !.cached = FALSE] \in Handles
    BY <1>1, <2>1, EmptySeq DEF Handles
  <2> QED BY <1>1, <1>2, <1>4, <2>2, <2>3 DEF Handles, p
<1> QED BY <1>2, <1>3, <1>4

(* A flush writes within the bound, and only to files that have something   *)
(* pending.                                                                 *)
LEMMA FlushedFacts ==
    ASSUME TypeInv, NEW S
    PROVE  /\ Flushed(S) \in [FileNames -> Seq(Byte)]
           /\ \A f \in FileNames : Len(Flushed(S)[f]) <= program.bytes
           /\ \A f \in FileNames :
                 (\A n \in S \cap OpenOn(f) : files[n].pend = <<>>) => Flushed(S)[f] = disk[f]
<1> DEFINE w(f) == {n \in S \cap OpenOn(f) : files[n].pend # <<>>}
           new(f) == Overwrite(disk[f], PendAt(files[First(w(f))]), files[First(w(f))].pend)
<1>1. Flushed(S) = [f \in FileNames |-> IF w(f) = {} THEN disk[f] ELSE new(f)]
  BY DEF Flushed
<1>2. ASSUME NEW f \in FileNames, w(f) # {}
      PROVE  new(f) \in Seq(Byte) /\ Len(new(f)) <= program.bytes
  <2> DEFINE n == First(w(f))
  <2>1. w(f) \subseteq Nat
    BY ConstantFacts DEF OpenOn
  <2>2. n \in w(f)
    BY <1>2, <2>1, FirstMember
  <2>3. n \in Nums /\ IsOpen(n) /\ files[n].file = f /\ files[n].pend # <<>>
    BY <2>2 DEF OpenOn, IsOpen
  <2> HIDE DEF n, w
  <2>4. /\ PendAt(files[n]) \in Nat \ {0} /\ files[n].pend \in Seq(Byte)
        /\ disk[f] \in Seq(Byte) /\ Len(disk[f]) <= program.bytes
        /\ PendAt(files[n]) + Len(files[n].pend) - 1 <= program.bytes
    BY <2>3, SyncFacts, OpenFacts DEF TypeInv, PendFits
  <2>5. Overwrite(disk[f], PendAt(files[n]), files[n].pend) \in Seq(Byte)
    BY <2>4, OverwriteFacts
  <2>6. Len(Overwrite(disk[f], PendAt(files[n]), files[n].pend)) <= program.bytes
    BY <2>3, <2>4, OverwriteFacts
  <2> QED BY <2>5, <2>6 DEF n
<1>3. \A f \in FileNames : disk[f] \in Seq(Byte) /\ Len(disk[f]) <= program.bytes
  BY DEF TypeInv, TypeOK
<1>4. \A f \in FileNames : (\A n \in S \cap OpenOn(f) : files[n].pend = <<>>) => w(f) = {}
  OBVIOUS
<1> HIDE DEF w, new
<1> QED BY <1>1, <1>2, <1>3, <1>4

--------------------------------------------------------------------------------
(* The two recursive functions: what a line writes, and where a field is.   *)

Separator(line, i) == IF i > 1 /\ line.write THEN <<Comma>> ELSE <<>>

(* stage[i] is what the first i items of line are written as.               *)
WrittenBy(stage, line, k) ==
    /\ stage[0] = <<>>
    /\ \A i \in 1..k :
          stage[i] = stage[i - 1] \o Separator(line, i) \o Shown(line.write, line.items[i])

LEMMA ItemsUnfold ==
    ASSUME NEW line, NEW k \in Nat
    PROVE  \E stage : WrittenBy(stage, line, k) /\ Items(line, k) = stage[k]
<1> DEFINE Step(done, i) ==
               done \o (IF i > 1 /\ line.write THEN <<Comma>> ELSE <<>>)
                    \o Shown(line.write, line.items[i])
           UpTo1(g, n) == g = [i \in 0..n |-> IF i = 0 THEN <<>> ELSE Step(g[i - 1], i)]
           T == {n \in Nat : \E g : UpTo1(g, n)}
           f == CHOOSE g : UpTo1(g, k)
<1>1. Items(line, k) = f[k]
  BY DEF Items
<1> HIDE DEF Step
<1>2. 0 \in T
  <2>1. UpTo1([i \in 0..0 |-> <<>>], 0)
    OBVIOUS
  <2> QED BY <2>1
<1>3. ASSUME NEW n \in Nat, n \in T PROVE n + 1 \in T
  <2>1. PICK g : UpTo1(g, n)
    BY <1>3
  <2> DEFINE h == [i \in 0..(n + 1) |-> IF i = n + 1 THEN Step(g[n], i) ELSE g[i]]
  <2>2. UpTo1(h, n + 1)
    BY <2>1
  <2> HIDE DEF h, UpTo1
  <2> QED BY <2>2
<1> HIDE DEF T
<1>4. k \in T
  BY <1>2, <1>3, EveryNumber
<1>5. UpTo1(f, k)
  BY <1>4 DEF T
<1> HIDE DEF f
<1>6. f[0] = <<>>
  BY <1>5
<1>7. ASSUME NEW i \in 1..k PROVE f[i] = Step(f[i - 1], i)
  BY <1>5
<1> QED BY <1>1, <1>6, <1>7 DEF Step, WrittenBy, Separator

LineType == [write : BOOLEAN, items : Seq([string : BOOLEAN, text : Seq(Byte)])]

LEMMA LineFacts ==
    ASSUME TypeInv, NEW line \in program.lines
    PROVE  /\ line.write \in BOOLEAN /\ Len(line.items) \in Nat \ {0}
           /\ \A i \in 1..Len(line.items) :
                 line.items[i].string \in BOOLEAN /\ line.items[i].text \in Seq(Byte)
<1>1. /\ line.write \in BOOLEAN /\ line.items # <<>>
      /\ line.items \in Seq([string : BOOLEAN, text : Seq(Byte)])
  BY ProgramFacts DEF ProgramOK
<1> DEFINE Item == [string : BOOLEAN, text : Seq(Byte)]
<1>2. \A item \in Item : item.string \in BOOLEAN /\ item.text \in Seq(Byte)
  OBVIOUS
<1>3. line.items \in Seq(Item) /\ line.items # <<>>
  BY <1>1
<1> HIDE DEF Item
<1>4. Len(line.items) \in Nat \ {0} /\ \A i \in 1..Len(line.items) : line.items[i] \in Item
  BY <1>3, EmptySeq, ElementOfSeq
<1> QED BY <1>1, <1>2, <1>4

(* A string without a NUL is the same to C.                                 *)
LEMMA CStringFacts ==
    ASSUME NEW b \in Seq(Byte)
    PROVE  /\ CString(b) \in Seq(Byte)
           /\ (\A j \in 1..Len(b) : b[j] # Nul) => CString(b) = b
<1> DEFINE A == {j \in 1..Len(b) : b[j] \in {Nul}}
           e == Find(b, 1, {Nul})
<1>1. Len(b) \in Nat /\ A \subseteq Nat /\ A \subseteq 1..Len(b)
  OBVIOUS
<1>2. e = (IF A # {} THEN First(A) ELSE Len(b) + 1)
  BY DEF Find
<1>3. (\A j \in 1..Len(b) : b[j] # Nul) => A = {}
  OBVIOUS
<1>4. CString(b) = SubSeq(b, 1, e - 1)
  BY DEF CString
<1> HIDE DEF A, e
<1>5. A # {} => First(A) \in A
  BY <1>1, FirstMember
<1>6. e \in 1..(Len(b) + 1)
  <2>1. CASE A = {}
    BY <1>1, <1>2, <2>1
  <2>2. CASE A # {}
    <3>1. First(A) \in 1..Len(b) /\ e = First(A)
      BY <1>1, <1>2, <1>5, <2>2
    <3> QED BY <1>1, <3>1
  <2> QED BY <2>1, <2>2
<1>7. e - 1 \in 0..Len(b)
  BY <1>1, <1>6
<1>8. CString(b) \in Seq(Byte)
  <2> DEFINE k == e - 1
  <2>1. k \in 0..Len(b)
    BY <1>7
  <2> HIDE DEF k
  <2>2. SubSeq(b, 1, k) \in Seq(Byte)
    BY <1>1, <2>1
  <2> QED BY <1>4, <2>2 DEF k
<1>9. ASSUME \A j \in 1..Len(b) : b[j] # Nul PROVE CString(b) = b
  <2>1. e = Len(b) + 1
    BY <1>2, <1>3, <1>9
  <2>2. e - 1 = Len(b)
    BY <1>1, <2>1
  <2>3. SubSeq(b, 1, Len(b)) = b
    OBVIOUS
  <2> QED BY <1>4, <2>2, <2>3
<1> QED BY <1>8, <1>9

LEMMA ShownTyped ==
    ASSUME NEW write \in BOOLEAN, NEW item, item.string \in BOOLEAN, item.text \in Seq(Byte)
    PROVE  Shown(write, item) \in Seq(Byte)
<1>1. CString(item.text) \in Seq(Byte)
  BY CStringFacts
<1> QED BY <1>1, ConstantFacts DEF Shown

LEMMA ItemsTyped ==
    ASSUME TypeInv, NEW line \in program.lines, NEW k \in 0..Len(line.items)
    PROVE  Items(line, k) \in Seq(Byte) /\ Given(line, k) \in Seq(Seq(Byte))
<1>0. /\ line.write \in BOOLEAN /\ Len(line.items) \in Nat /\ k \in Nat
      /\ \A i \in 1..k : line.items[i].string \in BOOLEAN /\ line.items[i].text \in Seq(Byte)
  BY LineFacts
<1>1. PICK stage : WrittenBy(stage, line, k) /\ Items(line, k) = stage[k]
  BY <1>0, ItemsUnfold
<1> DEFINE T == {i \in 0..k : stage[i] \in Seq(Byte)}
<1>2. 0 \in T
  <2>1. stage[0] = <<>> /\ <<>> \in Seq(Byte) /\ 0 \in 0..k
    BY <1>0, <1>1, EmptySeq DEF WrittenBy
  <2> QED BY <2>1
<1>3. ASSUME NEW i \in 1..k, i - 1 \in T PROVE i \in T
  <2> DEFINE item == line.items[i]
  <2>1. item.string \in BOOLEAN /\ item.text \in Seq(Byte)
    BY <1>0
  <2> HIDE DEF item
  <2>2. Shown(line.write, item) \in Seq(Byte)
    BY <1>0, <2>1, ShownTyped
  <2>3. Separator(line, i) \in Seq(Byte)
    BY ConstantFacts, EmptySeq DEF Separator
  <2>4. stage[i - 1] \in Seq(Byte)
    BY <1>3
  <2>5. stage[i] = stage[i - 1] \o Separator(line, i) \o Shown(line.write, item)
    BY <1>1 DEF WrittenBy, item
  <2>6. stage[i] \in Seq(Byte)
    BY <2>2, <2>3, <2>4, <2>5
  <2> QED BY <2>6
<1> HIDE DEF T
<1>4. 0..k \subseteq T /\ k \in Nat
  BY <1>0, <1>2, <1>3, UpTo
<1>5. Items(line, k) \in Seq(Byte)
  BY <1>1, <1>4 DEF T
<1> QED BY <1>0, <1>5 DEF Given

FieldList == Seq([var : Vars, width : Nat])

LEMMA FieldListFacts ==
    ASSUME NEW map \in FieldList
    PROVE  Len(map) \in Nat /\ \A i \in 1..Len(map) : map[i].var \in Vars /\ map[i].width \in Nat
<1> DEFINE F == [var : Vars, width : Nat]
<1>1. \A x \in F : x.var \in Vars /\ x.width \in Nat
  OBVIOUS
<1>2. map \in Seq(F)
  BY DEF FieldList
<1> HIDE DEF F
<1>3. Len(map) \in Nat /\ \A i \in 1..Len(map) : map[i] \in F
  BY <1>2, ElementOfSeq
<1> QED BY <1>1, <1>3

LEMMA OffsetTyped ==
    ASSUME NEW map \in FieldList, NEW at \in 1..Len(map)
    PROVE  Offset(map, at) \in Nat
<1> DEFINE k == at - 1
           UpTo1(g, n) == g = [j \in 0..n |-> IF j = 0 THEN 0 ELSE g[j - 1] + map[j].width]
           T == {n \in Nat : \E g : UpTo1(g, n)}
           f == CHOOSE g : UpTo1(g, k)
<1>0. Len(map) \in Nat /\ \A i \in 1..Len(map) : map[i].width \in Nat
  BY FieldListFacts
<1>1. Offset(map, at) = f[k]
  BY DEF Offset
<1>2. 0 \in T
  <2>1. UpTo1([i \in 0..0 |-> 0], 0)
    OBVIOUS
  <2> QED BY <2>1
<1>3. ASSUME NEW n \in Nat, n \in T PROVE n + 1 \in T
  <2>1. PICK g : UpTo1(g, n)
    BY <1>3
  <2> DEFINE h == [i \in 0..(n + 1) |-> IF i = n + 1 THEN g[n] + map[n + 1].width ELSE g[i]]
  <2>2. UpTo1(h, n + 1)
    BY <2>1
  <2> HIDE DEF h, UpTo1
  <2> QED BY <2>2
<1> HIDE DEF T
<1>4. k \in Nat /\ k \in T
  BY <1>0, <1>2, <1>3, EveryNumber
<1>5. UpTo1(f, k)
  BY <1>4 DEF T
<1> HIDE DEF f
<1>6. f[0] = 0 /\ \A i \in 1..k : f[i] = f[i - 1] + map[i].width
  BY <1>4, <1>5
<1> DEFINE U == {i \in 0..k : f[i] \in Nat}
<1>7. 0 \in U
  BY <1>4, <1>6
<1>8. ASSUME NEW i \in 1..k, i - 1 \in U PROVE i \in U
  <2>1. map[i].width \in Nat
    BY <1>0
  <2> QED BY <1>4, <1>6, <1>8, <2>1
<1> HIDE DEF U
<1>9. 0..k \subseteq U
  BY <1>4, <1>7, <1>8, UpTo
<1> QED BY <1>1, <1>4, <1>9 DEF U

--------------------------------------------------------------------------------
(* What a step of one handle does to the table.                             *)

TableOK ==
    /\ dir \subseteq FileNames
    /\ disk \in [FileNames -> Seq(Byte)] /\ \A f \in FileNames : Len(disk[f]) <= program.bytes
    /\ files \in [Nums -> Handles] /\ \A n \in Nums : IsOpen(n) => files[n].file \in dir
    /\ Sole /\ PendFits

LEMMA TypeInvParts ==
    TypeInv <=>
        /\ TableOK
        /\ program \in Programs /\ plain \subseteq FileNames
        /\ strs \in [Vars -> Seq(Byte)] /\ err \in {0, 11, 52, 53, 55, 62}
        /\ fields \in [FileNames -> Seq(Seq(Byte))] /\ taken \in [Nums -> Nat \cup {Unknown}]
  BY DEF TypeInv, TypeOK, TableOK

LEMMA FlushOne ==
    ASSUME TypeInv, NEW n \in Nums, IsOpen(n)
    PROVE  /\ Flushed({n}) = [disk EXCEPT ![files[n].file] = Flushed({n})[files[n].file]]
           /\ Flushed({n})[files[n].file] =
                  IF files[n].pend = <<>> THEN disk[files[n].file]
                  ELSE Overwrite(disk[files[n].file], PendAt(files[n]), files[n].pend)
<1> DEFINE d == Flushed({n})
           w(f) == {m \in {n} \cap OpenOn(f) : files[m].pend # <<>>}
<1>1. d \in [FileNames -> Seq(Byte)] /\ disk \in [FileNames -> Seq(Byte)]
  BY FlushedFacts DEF TypeInv, TypeOK
<1>2. \A f \in FileNames : f # files[n].file => d[f] = disk[f]
  <2>1. \A f \in FileNames : f # files[n].file => {n} \cap OpenOn(f) = {}
    BY DEF OpenOn
  <2> HIDE DEF d
  <2> QED BY <2>1, FlushedFacts DEF d
<1>3. files[n].pend = <<>> => w(files[n].file) = {}
  OBVIOUS
<1>4. files[n].pend # <<>> => w(files[n].file) = {n} /\ First({n}) = n
  <2>1. n \in Int /\ {n} \subseteq Int
    BY ConstantFacts
  <2>2. First({n}) = n
    BY <2>1, FirstLeast
  <2> QED BY <2>2, OpenFacts
<1>5. files[n].file \in FileNames
  BY OpenFacts
<1>6. d[files[n].file] =
        IF w(files[n].file) = {} THEN disk[files[n].file]
        ELSE Overwrite(disk[files[n].file], PendAt(files[First(w(files[n].file))]),
                       files[First(w(files[n].file))].pend)
  BY <1>5 DEF Flushed
<1> HIDE DEF w
<1>7. d[files[n].file] = IF files[n].pend = <<>> THEN disk[files[n].file]
                         ELSE Overwrite(disk[files[n].file], PendAt(files[n]), files[n].pend)
  BY <1>3, <1>4, <1>6
<1> HIDE DEF d
<1>8. d = [disk EXCEPT ![files[n].file] = d[files[n].file]]
  BY <1>1, <1>2
<1> QED BY <1>7, <1>8 DEF d

(* Handle n becomes h and its file holds d.                                 *)
HandleStep(n, h, d) ==
    /\ h \in Handles /\ h.mode = files[n].mode /\ h.file = files[n].file
    /\ d \in Seq(Byte) /\ Len(d) <= program.bytes
    /\ h.pend # <<>> =>
          (IF h.mode = "append" THEN Len(d) + 1 ELSE h.pos) + Len(h.pend) - 1 <= program.bytes
    /\ files' = [files EXCEPT ![n] = h]
    /\ disk' = [disk EXCEPT ![files[n].file] = d]
    /\ UNCHANGED <<program, dir>>

LEMMA HandleStepKeeps ==
    ASSUME TypeInv, NEW n \in Nums, IsOpen(n), NEW h, NEW d, HandleStep(n, h, d)
    PROVE  TableOK' /\ \A f : OpenOn(f)' = OpenOn(f)
<1> DEFINE f == files[n].file
<1>1. /\ f \in FileNames /\ files \in [Nums -> Handles] /\ disk \in [FileNames -> Seq(Byte)]
      /\ files' = [files EXCEPT ![n] = h] /\ disk' = [disk EXCEPT ![f] = d]
  BY OpenFacts DEF TypeInv, TypeOK, HandleStep
<1>2. Handles' = Handles /\ program' = program /\ dir' = dir
  BY DEF Handles, HandleStep
<1>3. \A m \in Nums : files'[m] = IF m = n THEN h ELSE files[m]
  BY <1>1
<1>4. \A m \in Nums : files'[m].mode = files[m].mode /\ files'[m].file = files[m].file
  BY <1>3 DEF HandleStep
<1>5. \A g : OpenOn(g)' = OpenOn(g)
  BY <1>4 DEF OpenOn
<1>6. \A m \in Nums : IsOpen(m)' <=> IsOpen(m)
  BY <1>4 DEF IsOpen
<1>7. disk' \in [FileNames -> Seq(Byte)] /\ \A g \in FileNames : Len(disk'[g]) <= program'.bytes
  <2>1. d \in Seq(Byte) /\ Len(d) <= program.bytes /\ \A g \in FileNames : Len(disk[g]) <= program.bytes
    BY DEF TypeInv, TypeOK, HandleStep
  <2> QED BY <1>1, <1>2, <2>1
<1>8. files' \in [Nums -> Handles'] /\ \A m \in Nums : IsOpen(m)' => files'[m].file \in dir'
  <2>1. h \in Handles
    BY DEF HandleStep
  <2> QED BY <1>1, <1>2, <1>4, <1>6, <2>1 DEF TypeInv, TypeOK
<1>9. Sole'
  BY <1>4, <1>5, <1>6 DEF TypeInv, Sole
<1>10. PendFits'
  <2> SUFFICES ASSUME NEW m \in Nums, IsOpen(m)', files'[m].pend # <<>>
               PROVE  (PendAt(files[m]))' + Len(files'[m].pend) - 1 <= program.bytes
    BY <1>2 DEF PendFits
  <2>1. CASE m = n
    <3>1. files'[m] = h /\ disk'[h.file] = d
      BY <1>1, <1>3, <2>1 DEF HandleStep
    <3>2. (PendAt(files[m]))' = IF h.mode = "append" THEN Len(d) + 1 ELSE h.pos
      BY <3>1 DEF PendAt
    <3> QED BY <3>1, <3>2 DEF HandleStep
  <2>2. CASE m # n
    <3>1. files'[m] = files[m] /\ IsOpen(m)
      BY <1>3, <1>6, <2>2
    <3>2. files[m].mode = "append" => disk'[files[m].file] = disk[files[m].file]
      <4>1. files[m].mode = "append" => files[m].file # f
        BY <2>2, <3>1 DEF TypeInv, Sole, Writers, OpenOn, IsOpen
      <4> QED BY <1>1, <3>1, <4>1, OpenFacts
    <3>3. (PendAt(files[m]))' = PendAt(files[m])
      BY <3>1, <3>2 DEF PendAt
    <3> QED BY <3>1, <3>3 DEF TypeInv, PendFits
  <2> QED BY <2>1, <2>2
<1>11. dir' \subseteq FileNames
  BY <1>2 DEF TypeInv, TypeOK
<1> QED BY <1>5, <1>7, <1>8, <1>9, <1>10, <1>11 DEF TableOK

(* A flush, and then any change to the handle that leaves nothing pending.  *)
LEMMA FlushedStep ==
    ASSUME TypeInv, NEW n \in Nums, IsOpen(n), NEW h \in Handles,
           h.mode = files[n].mode, h.file = files[n].file, h.pend = <<>>,
           files' = [files EXCEPT ![n] = h], disk' = Flushed({n}), UNCHANGED <<program, dir>>
    PROVE  HandleStep(n, h, Flushed({n})[files[n].file])
<1>1. /\ Flushed({n})[files[n].file] \in Seq(Byte)
      /\ Len(Flushed({n})[files[n].file]) <= program.bytes
  BY FlushedFacts, OpenFacts
<1>2. disk' = [disk EXCEPT ![files[n].file] = Flushed({n})[files[n].file]]
  BY FlushOne
<1> QED BY <1>1, <1>2 DEF HandleStep

--------------------------------------------------------------------------------
(* Reading.                                                                 *)

LEMMA ViewTyped ==
    ASSUME TypeInv, NEW n \in Nums, IsOpen(n), NEW view \in Views(n)
    PROVE  view \in Seq(Byte)
<1> DEFINE c == files[n].cache
           now == Flushed({n})[files[n].file]
<1>1. c \in Seq(Byte) /\ now \in Seq(Byte)
  BY FlushedFacts, OpenFacts
<1>2. view \in {now, c, c \o SubSeq(now, Len(c) + 1, Len(now))}
  BY DEF Views
<1> HIDE DEF c, now
<1>3. SubSeq(now, Len(c) + 1, Len(now)) \in Seq(Byte)
  <2>1. \A i \in (Len(c) + 1)..Len(now) : i \in 1..Len(now)
    BY <1>1
  <2> QED BY <1>1, <2>1, SubSeqProperties
<1>4. c \o SubSeq(now, Len(c) + 1, Len(now)) \in Seq(Byte)
  BY <1>1, <1>3
<1> QED BY <1>1, <1>2, <1>4, Zenon

LEMMA FindTyped ==
    ASSUME NEW view \in Seq(Byte), NEW i \in Nat \ {0}, NEW S
    PROVE  /\ Find(view, i, S) \in Nat \ {0} /\ SkipBlank(view, i) \in Nat \ {0}
<1>1. Len(view) \in Nat
  OBVIOUS
<1> DEFINE A == {j \in i..Len(view) : view[j] \in S}
           B == {j \in i..Len(view) : view[j] \notin Blank}
<1>2. A \subseteq Nat \ {0} /\ A \subseteq Nat /\ B \subseteq Nat \ {0} /\ B \subseteq Nat
  BY <1>1
<1>3. Find(view, i, S) = (IF A # {} THEN First(A) ELSE Len(view) + 1)
  BY DEF Find
<1>4. SkipBlank(view, i) = (IF B # {} THEN First(B) ELSE Len(view) + 1)
  BY DEF SkipBlank
<1> HIDE DEF A, B
<1>5. (A # {} => First(A) \in A) /\ (B # {} => First(B) \in B)
  BY <1>2, FirstMember
<1>6. Len(view) + 1 \in Nat \ {0}
  BY <1>1
<1>7. (A # {} => First(A) \in Nat \ {0}) /\ (B # {} => First(B) \in Nat \ {0})
  BY <1>2, <1>5
<1>8. Find(view, i, S) \in Nat \ {0}
  BY <1>3, <1>6, <1>7, Zenon
<1>9. SkipBlank(view, i) \in Nat \ {0}
  BY <1>4, <1>6, <1>7, Zenon
<1> QED BY <1>8, <1>9

LEMMA InputFieldTyped ==
    ASSUME NEW view \in Seq(Byte), NEW i \in Nat \ {0}
    PROVE  InputField(view, i).next \in Nat \ {0}
<1> DEFINE quoted == At(view, i) = Quote
           stop == IF quoted THEN Find(view, i + 1, {Quote}) ELSE Find(view, i + 1, {Comma, CR, LF})
           ending == IF quoted THEN stop + 1 ELSE stop
           skip == At(view, ending) = CR /\ (quoted \/ At(view, ending + 1) = LF)
<1>1. i + 1 \in Nat \ {0} /\ Len(view) \in Nat
  OBVIOUS
<1>2. stop \in Nat \ {0}
  BY <1>1, FindTyped
<1>3. InputField(view, i).next = Smaller(IF skip THEN ending + 2 ELSE ending + 1, Len(view) + 1)
  BY DEF InputField
<1> HIDE DEF stop, skip
<1> QED BY <1>1, <1>2, <1>3 DEF Smaller

LEMMA HereTyped ==
    ASSUME TypeInv, NEW n \in Nums, IsOpen(n)
    PROVE  Here(n) \in Nat \ {0}
<1>1. files[n].pos \in Nat \ {0} /\ PendAt(files[n]) \in Nat \ {0} /\ files[n].pend \in Seq(Byte)
  BY OpenFacts, SyncFacts
<1>2. Here(n) = IF files[n].pend = <<>> THEN files[n].pos
                ELSE PendAt(files[n]) + Len(files[n].pend)
  BY SyncFacts DEF Here
<1> QED BY <1>1, <1>2

LEMMA ReadStep ==
    ASSUME TypeInv, NEW n \in Nums, IsOpen(n), NEW view \in Views(n), NEW pos \in Nat \ {0},
           Read(n, view, pos), UNCHANGED <<program, dir>>
    PROVE  \E h : /\ h.pos = pos /\ h.pend = <<>> /\ h.cached /\ h.cache = view
                  /\ HandleStep(n, h, Flushed({n})[files[n].file])
<1> DEFINE a == AfterSync(files[n])
           h == [a EXCEPT !.pos = pos, !.cached = TRUE, !.cache = view]
<1>1. a \in Handles /\ a.mode = files[n].mode /\ a.file = files[n].file /\ a.pend = <<>>
  BY SyncFacts
<1>2. view \in Seq(Byte)
  BY ViewTyped
<1>3. disk' = Flushed({n}) /\ files' = [files EXCEPT ![n] = h]
  BY DEF Read
<1> HIDE DEF a
<1>4. /\ h \in Handles /\ h.mode = files[n].mode /\ h.file = files[n].file
      /\ h.pos = pos /\ h.pend = <<>> /\ h.cached /\ h.cache = view
  BY <1>1, <1>2 DEF Handles
<1> HIDE DEF h
<1>5. HandleStep(n, h, Flushed({n})[files[n].file])
  BY <1>3, <1>4, FlushedStep
<1> QED BY <1>4, <1>5

--------------------------------------------------------------------------------
(* Types: one lemma for each statement.                                     *)

LEMMA StillTyped ==
    ASSUME TypeInv, TableOK', program' = program, plain' \subseteq FileNames,
           strs' \in [Vars -> Seq(Byte)], err' \in {0, 11, 52, 53, 55, 62},
           fields' \in [FileNames -> Seq(Seq(Byte))], taken' \in [Nums -> Nat \cup {Unknown}]
    PROVE  TypeInv'
<1>1. program' \in Programs
  BY TypeInvParts
<1>2. TypeOK' /\ Sole' /\ PendFits'
  BY <1>1 DEF TableOK, TypeOK
<1> QED BY <1>2 DEF TypeInv

LEMMA TableSame ==
    ASSUME TypeInv, UNCHANGED <<program, dir, disk, files>>
    PROVE  TableOK'
<1>1. TableOK
  BY TypeInvParts
<1> QED BY <1>1 DEF TableOK, Sole, PendFits, PendAt, IsOpen, OpenOn, Handles

LEMMA FailKeeps ==
    ASSUME TypeInv, NEW code \in {11, 52, 53, 55, 62}, Fail(code)
    PROVE  TypeInv'
<1>1. UNCHANGED <<program, dir, disk, files, strs, plain, fields, taken>> /\ err' = code
  BY DEF Fail, history
<1>2. TableOK'
  BY <1>1, TableSame
<1> QED BY <1>1, <1>2, TypeInvParts, StillTyped

LEMMA StringsKeep ==
    ASSUME TypeInv, End, UNCHANGED <<dir, disk, files, history>>, strs' \in [Vars -> Seq(Byte)]
    PROVE  TypeInv'
<1>1. UNCHANGED <<program, dir, disk, files, plain, fields, taken>> /\ err' = 0
  BY DEF End, history
<1>2. TableOK'
  BY <1>1, TableSame
<1> QED BY <1>1, <1>2, TypeInvParts, StillTyped

(* A handle that is put into the table, for a file that is not in use.      *)
LEMMA ClosedTyped == Closed \in Handles /\ Closed.pend = <<>> /\ Closed.mode = "closed"
  BY EmptySeq DEF Closed, Handles

LEMMA OpenKeeps ==
    ASSUME TypeInv, NEW n, NEW f \in FileNames, NEW mode \in Modes, ExecOpen(n, f, mode)
    PROVE  TypeInv'
<1>1. CASE \E code \in {52, 53, 55} : Fail(code)
  BY <1>1, FailKeeps
<1>2. CASE /\ n \in Nums /\ ~IsOpen(n) /\ MayOpen(f, mode)
           /\ FileOpen(n, f, mode) /\ End /\ UNCHANGED strs
  <2> DEFINE h == [Closed EXCEPT !.mode = mode, !.file = f]
             d == IF mode = "output" THEN <<>> ELSE disk[f]
  <2>1. /\ TableOK /\ plain \subseteq FileNames
        /\ fields \in [FileNames -> Seq(Seq(Byte))] /\ taken \in [Nums -> Nat \cup {Unknown}]
    BY TypeInvParts
  <2>2. /\ disk' = [disk EXCEPT ![f] = d] /\ dir' = dir \cup {f}
        /\ files' = [files EXCEPT ![n] = h] /\ program' = program
    BY <1>2 DEF FileOpen, End
  <2>3. h \in Handles /\ h.mode = mode /\ h.file = f /\ h.pend = <<>>
    BY ClosedTyped DEF Handles
  <2>4. d \in Seq(Byte) /\ Len(d) <= program.bytes
    <3>1. disk[f] \in Seq(Byte) /\ Len(disk[f]) <= program.bytes
      BY <2>1 DEF TableOK
    <3>2. <<>> \in Seq(Byte) /\ Len(<<>>) = 0 /\ program.bytes \in Nat
      BY EmptySeq, ProgramFacts
    <3> QED BY <3>1, <3>2
  <2> HIDE DEF h
  <2>5. Handles' = Handles
    BY <2>2 DEF Handles
  <2>6. \A m \in Nums : files'[m] = IF m = n THEN h ELSE files[m]
    BY <2>1, <2>2 DEF TableOK
  <2>7. \A m \in Nums : m # n => (IsOpen(m)' <=> IsOpen(m)) /\ files'[m] = files[m]
    BY <2>6 DEF IsOpen
  <2>8. disk' \in [FileNames -> Seq(Byte)] /\ \A g \in FileNames : Len(disk'[g]) <= program'.bytes
    <3> HIDE DEF d
    <3> QED BY <2>1, <2>2, <2>4 DEF TableOK
  <2>9. files' \in [Nums -> Handles'] /\ \A m \in Nums : IsOpen(m)' => files'[m].file \in dir'
    BY <1>2, <2>1, <2>2, <2>3, <2>5, <2>6, <2>7 DEF TableOK
  <2>10. \A m \in Nums : m # n /\ IsOpen(m) /\ files[m].file = f =>
            Sharing /\ mode \notin Writers /\ files[m].mode \notin Writers
    BY <1>2 DEF MayOpen, OpenOn, IsOpen, Writers
  <2>11. Sole'
    <3> SUFFICES ASSUME NEW m \in Nums, NEW k \in Nums, m # k, IsOpen(m)', IsOpen(k)',
                        files'[m].file = files'[k].file
                 PROVE  Sharing /\ files'[m].mode \notin Writers /\ files'[k].mode \notin Writers
      BY DEF Sole, OpenOn, IsOpen
    <3>1. CASE m = n
      BY <2>3, <2>6, <2>7, <2>10, <3>1
    <3>2. CASE k = n
      BY <2>3, <2>6, <2>7, <2>10, <3>2
    <3>3. CASE m # n /\ k # n
      <4>1. IsOpen(m) /\ IsOpen(k) /\ files[m].file = files[k].file /\ files'[m] = files[m] /\ files'[k] = files[k]
        BY <2>7, <3>3
      <4> QED BY <2>1, <4>1 DEF TableOK, Sole, OpenOn, IsOpen
    <3> QED BY <3>1, <3>2, <3>3
  <2>12. PendFits'
    <3> SUFFICES ASSUME NEW m \in Nums, IsOpen(m)', files'[m].pend # <<>>
                 PROVE  (PendAt(files[m]))' + Len(files'[m].pend) - 1 <= program.bytes
      BY <2>2 DEF PendFits
    <3>1. m # n
      BY <2>3, <2>6
    <3>2. IsOpen(m) /\ files'[m] = files[m]
      BY <2>7, <3>1
    <3>3. files[m].mode = "append" => disk'[files[m].file] = disk[files[m].file]
      <4>1. files[m].mode = "append" => files[m].file # f
        BY <2>10, <3>1, <3>2 DEF Writers
      <4> QED BY <2>1, <2>2, <3>2, <4>1, OpenFacts DEF TableOK
    <3>4. (PendAt(files[m]))' = PendAt(files[m])
      BY <3>2, <3>3 DEF PendAt
    <3> QED BY <2>1, <3>2, <3>4 DEF TableOK, PendFits
  <2>13. TableOK'
    BY <2>1, <2>2, <2>8, <2>9, <2>11, <2>12 DEF TableOK
  <2>14. /\ plain' \subseteq FileNames /\ fields' \in [FileNames -> Seq(Seq(Byte))]
         /\ taken' \in [Nums -> Nat \cup {Unknown}] /\ err' = 0 /\ strs' = strs
    <3>1. <<>> \in Seq(Seq(Byte))
      BY EmptySeq
    <3> QED BY <1>2, <2>1, <3>1 DEF FileOpen, End
  <2> QED BY <2>2, <2>13, <2>14, StillTyped, TypeInvParts
<1> QED BY <1>1, <1>2 DEF ExecOpen

LEMMA CloseKeeps ==
    ASSUME TypeInv, NEW S, CloseFiles(S)
    PROVE  TypeInv'
<1>1. /\ disk' = Flushed(S) /\ files' = [n \in Nums |-> IF n \in S THEN Closed ELSE files[n]]
      /\ UNCHANGED <<program, dir, strs, plain, fields, taken>> /\ err' = 0
  BY DEF CloseFiles, End, history
<1>2. TableOK
  BY TypeInvParts
<1>3. Handles' = Handles
  BY <1>1 DEF Handles
<1>4. \A m \in Nums : files'[m] = IF m \in S THEN Closed ELSE files[m]
  BY <1>1
<1>5. \A m \in Nums : IsOpen(m)' => m \notin S /\ IsOpen(m) /\ files'[m] = files[m]
  BY <1>4, ClosedTyped DEF IsOpen
<1>6. files' \in [Nums -> Handles'] /\ \A m \in Nums : IsOpen(m)' => files'[m].file \in dir'
  BY <1>1, <1>2, <1>3, <1>5, ClosedTyped DEF TableOK
<1>7. disk' \in [FileNames -> Seq(Byte)] /\ \A g \in FileNames : Len(disk'[g]) <= program'.bytes
  BY <1>1, FlushedFacts
<1>8. Sole'
  BY <1>2, <1>5 DEF TableOK, Sole, OpenOn, IsOpen
<1>9. PendFits'
  <2> SUFFICES ASSUME NEW m \in Nums, IsOpen(m)', files'[m].pend # <<>>
               PROVE  (PendAt(files[m]))' + Len(files'[m].pend) - 1 <= program.bytes
    BY <1>1 DEF PendFits
  <2>1. IsOpen(m) /\ files'[m] = files[m] /\ m \notin S
    BY <1>5
  <2>2. files[m].mode = "append" => disk'[files[m].file] = disk[files[m].file]
    <3> SUFFICES ASSUME files[m].mode = "append" PROVE Flushed(S)[files[m].file] = disk[files[m].file]
      BY <1>1
    <3>1. \A k \in S \cap OpenOn(files[m].file) : FALSE
      BY <1>2, <2>1 DEF TableOK, Sole, Writers, OpenOn, IsOpen
    <3> QED BY <2>1, <3>1, FlushedFacts, OpenFacts
  <2>3. (PendAt(files[m]))' = PendAt(files[m])
    BY <2>1, <2>2 DEF PendAt
  <2> QED BY <1>2, <2>1, <2>3 DEF TableOK, PendFits
<1>10. TableOK'
  BY <1>1, <1>2, <1>6, <1>7, <1>8, <1>9 DEF TableOK
<1> QED BY <1>1, <1>10, StillTyped, TypeInvParts

(* KILL and NAME change files that are not open.                            *)
LEMMA DirectoryKeeps ==
    ASSUME TypeInv, NEW S \in SUBSET FileNames, \A f \in S : OpenOn(f) = {},
           UNCHANGED <<program, files, strs, taken>>, err' = 0,
           dir' \subseteq FileNames, dir \ S \subseteq dir', plain' \subseteq FileNames,
           fields' \in [FileNames -> Seq(Seq(Byte))], disk' \in [FileNames -> Seq(Byte)],
           \A f \in FileNames : f \notin S => disk'[f] = disk[f],
           \A f \in S : Len(disk'[f]) <= program.bytes
    PROVE  TypeInv'
<1>1. TableOK
  BY TypeInvParts
<1>2. Handles' = Handles
  BY DEF Handles
<1>3. \A m \in Nums : IsOpen(m)' => IsOpen(m) /\ files[m].file \in FileNames \ S
  <2>1. \A m \in Nums : IsOpen(m)' => IsOpen(m)
    BY DEF IsOpen
  <2>2. \A m \in Nums : IsOpen(m) => m \in OpenOn(files[m].file) /\ files[m].file \in FileNames
    BY OpenFacts
  <2> QED BY <2>1, <2>2
<1>4. files' \in [Nums -> Handles'] /\ \A m \in Nums : IsOpen(m)' => files'[m].file \in dir'
  BY <1>1, <1>2, <1>3 DEF TableOK
<1>5. \A f \in FileNames : Len(disk'[f]) <= program'.bytes
  BY <1>1 DEF TableOK
<1>6. Sole'
  BY <1>1 DEF TableOK, Sole, OpenOn, IsOpen
<1>7. PendFits'
  <2> SUFFICES ASSUME NEW m \in Nums, IsOpen(m)', files'[m].pend # <<>>
               PROVE  (PendAt(files[m]))' + Len(files'[m].pend) - 1 <= program.bytes
    BY DEF PendFits
  <2>1. (PendAt(files[m]))' = PendAt(files[m])
    BY <1>3 DEF PendAt
  <2> QED BY <1>1, <1>3, <2>1 DEF TableOK, PendFits
<1>8. TableOK'
  BY <1>4, <1>5, <1>6, <1>7 DEF TableOK
<1> QED BY <1>8, StillTyped, TypeInvParts

LEMMA KillKeeps ==
    ASSUME TypeInv, NEW f \in FileNames, ExecKill(f)
    PROVE  TypeInv'
<1>1. CASE Fail(53)
  BY <1>1, FailKeeps
<1>2. CASE ~Fail(53)
  <2>1. /\ OpenOn(f) = {} /\ dir' = dir \ {f} /\ disk' = [disk EXCEPT ![f] = <<>>]
        /\ plain' = plain \cup {f} /\ fields' = [fields EXCEPT ![f] = <<>>]
        /\ err' = 0 /\ UNCHANGED <<program, files, strs, taken>>
    BY <1>2 DEF ExecKill, End
  <2>2. /\ dir \subseteq FileNames /\ plain \subseteq FileNames
        /\ disk \in [FileNames -> Seq(Byte)] /\ fields \in [FileNames -> Seq(Seq(Byte))]
    BY DEF TypeInv, TypeOK
  <2>3. <<>> \in Seq(Byte) /\ <<>> \in Seq(Seq(Byte)) /\ Len(<<>>) = 0 /\ program.bytes \in Nat
    BY EmptySeq, ProgramFacts
  <2>4. {f} \in SUBSET FileNames /\ \A g \in {f} : OpenOn(g) = {}
    BY <2>1
  <2>5. /\ dir' \subseteq FileNames /\ dir \ {f} \subseteq dir' /\ plain' \subseteq FileNames
        /\ fields' \in [FileNames -> Seq(Seq(Byte))] /\ disk' \in [FileNames -> Seq(Byte)]
        /\ \A g \in FileNames : g \notin {f} => disk'[g] = disk[g]
        /\ \A g \in {f} : Len(disk'[g]) <= program.bytes
    BY <2>1, <2>2, <2>3
  <2> QED BY <2>1, <2>4, <2>5, DirectoryKeeps
<1> QED BY <1>1, <1>2

LEMMA NameKeeps ==
    ASSUME TypeInv, NEW f \in FileNames, NEW g \in FileNames, ExecName(f, g)
    PROVE  TypeInv'
<1>1. CASE Fail(53)
  BY <1>1, FailKeeps
<1>2. CASE ~Fail(53)
  <2>1. /\ f # g /\ OpenOn(f) = {} /\ OpenOn(g) = {} /\ dir' = (dir \ {f}) \cup {g}
        /\ disk' = [disk EXCEPT ![g] = disk[f], ![f] = <<>>]
        /\ plain' \subseteq plain \cup {f, g}
        /\ fields' = [fields EXCEPT ![g] = fields[f], ![f] = <<>>]
        /\ err' = 0 /\ UNCHANGED <<program, files, strs, taken>>
    BY <1>2 DEF ExecName, End
  <2>2. /\ dir \subseteq FileNames /\ plain \subseteq FileNames
        /\ disk \in [FileNames -> Seq(Byte)] /\ fields \in [FileNames -> Seq(Seq(Byte))]
        /\ \A h \in FileNames : Len(disk[h]) <= program.bytes
    BY DEF TypeInv, TypeOK
  <2>3. <<>> \in Seq(Byte) /\ <<>> \in Seq(Seq(Byte)) /\ Len(<<>>) = 0 /\ program.bytes \in Nat
    BY EmptySeq, ProgramFacts
  <2>4. {f, g} \in SUBSET FileNames /\ \A h \in {f, g} : OpenOn(h) = {}
    BY <2>1
  <2>5. dir' \subseteq FileNames /\ dir \ {f, g} \subseteq dir' /\ plain' \subseteq FileNames
    BY <2>1, <2>2
  <2>6. fields' \in [FileNames -> Seq(Seq(Byte))]
    BY <2>1, <2>2, <2>3
  <2>7. disk' \in [FileNames -> Seq(Byte)] /\ disk'[f] = <<>> /\ disk'[g] = disk[f]
    BY <2>1, <2>2, <2>3
  <2>8. \A h \in FileNames : h \notin {f, g} => disk'[h] = disk[h]
    BY <2>1, <2>2
  <2>9. \A h \in {f, g} : Len(disk'[h]) <= program.bytes
    BY <2>2, <2>3, <2>7
  <2> QED BY <2>1, <2>4, <2>5, <2>6, <2>7, <2>8, <2>9, DirectoryKeeps
<1> QED BY <1>1, <1>2

LEMMA SpoilTyped ==
    ASSUME TypeInv, NEW f \in FileNames, Spoil(f)
    PROVE  plain' \subseteq FileNames /\ fields' \in [FileNames -> Seq(Seq(Byte))]
<1>1. <<>> \in Seq(Seq(Byte))
  BY EmptySeq
<1> QED BY <1>1, TypeInvParts DEF Spoil

(* What PRINT # and WRITE # make of a handle that is not for INPUT.         *)
LEMMA EmitStep ==
    ASSUME TypeInv, NEW n \in Nums, IsOpen(n), NEW bytes \in Seq(Byte), NEW line, NEW k,
           Emit(n, bytes, line, k), files[n].mode # "input"
    PROVE  \E h : /\ h.pend = files[n].pend \o bytes /\ h.pos = files[n].pos
                  /\ h.cached = files[n].cached /\ h.cache = files[n].cache
                  /\ HandleStep(n, h, disk[files[n].file])
<1> DEFINE h == files[n]
           pend == h.pend \o bytes
           e == [h EXCEPT !.pend = pend]
<1>1. /\ h \in Handles /\ h.file \in FileNames /\ h.pend \in Seq(Byte)
      /\ disk[h.file] \in Seq(Byte) /\ Len(disk[h.file]) <= program.bytes
      /\ PendAt(h) \in Nat \ {0} /\ files \in [Nums -> Handles]
  BY OpenFacts, SyncFacts DEF TypeInv, TypeOK
<1>2. /\ PendAt(h) + Len(h.pend) + Len(bytes) - 1 <= program.bytes
      /\ UNCHANGED <<program, dir, disk>>
  BY DEF Emit, Fits
<1>3. files' = [files EXCEPT ![n] = e]
  BY <1>1 DEF Emit
<1>4. pend \in Seq(Byte) /\ Len(pend) = Len(h.pend) + Len(bytes) /\ Len(h.pend) \in Nat /\ Len(bytes) \in Nat
  BY <1>1
<1> HIDE DEF pend, h
<1>5. /\ e \in Handles /\ e.mode = h.mode /\ e.file = h.file /\ e.pend = pend /\ e.pos = h.pos
      /\ e.cached = h.cached /\ e.cache = h.cache
  BY <1>1, <1>4 DEF Handles
<1>6. PendAt(h) + Len(e.pend) - 1 <= program.bytes
  BY <1>1, <1>2, <1>4, <1>5, ProgramFacts
<1>7. (IF e.mode = "append" THEN Len(disk[h.file]) + 1 ELSE e.pos) = PendAt(h)
  BY <1>5 DEF PendAt
<1>8. disk' = [disk EXCEPT ![files[n].file] = disk[h.file]]
  BY <1>1, <1>2 DEF TypeInv, TypeOK, h
<1> HIDE DEF e
<1>9. HandleStep(n, e, disk[h.file])
  BY <1>1, <1>2, <1>3, <1>5, <1>6, <1>7, <1>8 DEF HandleStep, h
<1> QED BY <1>5, <1>9 DEF h, pend

LEMMA EmitKeeps ==
    ASSUME TypeInv, NEW n \in Nums, IsOpen(n), NEW bytes \in Seq(Byte),
           NEW line \in program.lines, NEW k \in 0..Len(line.items),
           Emit(n, bytes, line, k), err' \in {0, 11}
    PROVE  TypeInv'
<1> DEFINE f == files[n].file
<1>1. f \in FileNames /\ UNCHANGED <<program, dir, disk, strs>>
  BY OpenFacts DEF Emit
<1>2. CASE files[n].mode = "input"
  <2>1. UNCHANGED <<program, dir, disk, files, plain, fields, taken, strs>>
    BY <1>1, <1>2 DEF Emit, history
  <2>2. TableOK'
    BY <2>1, TableSame
  <2> QED BY <2>1, <2>2, StillTyped, TypeInvParts
<1>3. CASE files[n].mode # "input"
  <2> DEFINE d == disk[f]
  <2>1. PICK h : HandleStep(n, h, d)
    BY <1>3, EmitStep
  <2> HIDE DEF d
  <2>2. TableOK'
    BY <2>1, HandleStepKeeps
  <2> DEFINE items == fields[f] \o Given(line, k)
  <2>3. \/ Spoil(f) /\ taken' = taken
        \/ /\ fields' = [fields EXCEPT ![f] = IF f \in plain THEN items ELSE @]
           /\ UNCHANGED <<plain, taken>>
    BY <1>1, <1>3, TypeInvParts DEF Emit
  <2>4. fields[f] \in Seq(Seq(Byte)) /\ Given(line, k) \in Seq(Seq(Byte))
    BY <1>1, TypeInvParts, ItemsTyped
  <2>5. items \in Seq(Seq(Byte))
    BY <2>4
  <2> HIDE DEF items
  <2>6. plain' \subseteq FileNames /\ fields' \in [FileNames -> Seq(Seq(Byte))] /\ taken' = taken
    <3>1. CASE Spoil(f) /\ taken' = taken
      BY <1>1, <3>1, SpoilTyped
    <3>2. CASE /\ fields' = [fields EXCEPT ![f] = IF f \in plain THEN items ELSE @]
               /\ UNCHANGED <<plain, taken>>
      BY <2>5, <3>2, TypeInvParts
    <3> QED BY <2>3, <3>1, <3>2
  <2> QED BY <1>1, <2>2, <2>6, StillTyped, TypeInvParts
<1> QED BY <1>2, <1>3

(* The two ways in which a statement writes the first k items of a line.    *)
Prints(n, line) ==
    \/ ExecPrintFile(n, line)
    \/ \E j \in 0..(Len(line.items) - 1) : PrintFileFails(n, line, j)

LEMMA PrintEmits ==
    ASSUME TypeInv, NEW n, NEW line \in program.lines, Prints(n, line), ~Fail(52)
    PROVE  /\ n \in Nums /\ IsOpen(n) /\ MayEmit(n)
           /\ \E k \in 0..Len(line.items), last \in {<<>>, <<Comma>>, <<CR, LF>>} :
                 /\ Emit(n, Items(line, k) \o last, line, k) /\ err' \in {0, 11}
                 /\ line.write /\ k > 0 => last # <<>>
                 /\ k = 0 => last = <<>>
<1>0. Len(line.items) \in Nat \ {0}
  BY LineFacts
<1>1. CASE ExecPrintFile(n, line)
  <2>1. /\ n \in Nums /\ IsOpen(n) /\ MayEmit(n) /\ err' = 0
        /\ Emit(n, Items(line, Len(line.items)) \o <<CR, LF>>, line, Len(line.items))
    BY <1>1 DEF ExecPrintFile, IsOpen
  <2>2. Len(line.items) \in 0..Len(line.items) /\ Len(line.items) # 0 /\ <<CR, LF>> # <<>>
    BY <1>0
  <2> QED BY <2>1, <2>2
<1>2. CASE \E j \in 0..(Len(line.items) - 1) : PrintFileFails(n, line, j)
  <2>1. PICK k \in 0..(Len(line.items) - 1) : PrintFileFails(n, line, k)
    BY <1>2
  <2> DEFINE last == IF k > 0 /\ line.write THEN <<Comma>> ELSE <<>>
  <2>2. /\ n \in Nums /\ IsOpen(n) /\ MayEmit(n) /\ err' = 11
        /\ Emit(n, Items(line, k) \o last, line, k)
    BY <2>1 DEF PrintFileFails, IsOpen
  <2>3. k \in 0..Len(line.items) /\ <<Comma>> # <<>>
    BY <1>0
  <2>4. last \in {<<>>, <<Comma>>, <<CR, LF>>} /\ (line.write /\ k > 0 => last # <<>>) /\ (k = 0 => last = <<>>)
    BY <2>3
  <2> HIDE DEF last
  <2> QED BY <2>2, <2>3, <2>4
<1> QED BY <1>1, <1>2 DEF Prints

LEMMA EmittedTyped ==
    ASSUME TypeInv, NEW line \in program.lines, NEW k \in 0..Len(line.items),
           NEW last \in {<<>>, <<Comma>>, <<CR, LF>>}
    PROVE  Items(line, k) \o last \in Seq(Byte)
<1>1. Items(line, k) \in Seq(Byte)
  BY ItemsTyped
<1>2. <<>> \in Seq(Byte) /\ <<Comma>> \in Seq(Byte) /\ <<CR, LF>> \in Seq(Byte)
  BY ConstantFacts, EmptySeq
<1>3. last \in Seq(Byte)
  BY <1>2
<1> DEFINE items == Items(line, k)
<1>4. items \in Seq(Byte)
  BY <1>1
<1> HIDE DEF items
<1>5. items \o last \in Seq(Byte)
  BY <1>3, <1>4
<1> QED BY <1>5 DEF items

LEMMA PrintKeeps ==
    ASSUME TypeInv, NEW n, NEW line \in program.lines, Prints(n, line)
    PROVE  TypeInv'
<1>1. CASE Fail(52)
  BY <1>1, FailKeeps
<1>2. CASE ~Fail(52)
  <2>1. PICK k \in 0..Len(line.items), last \in {<<>>, <<Comma>>, <<CR, LF>>} :
           Emit(n, Items(line, k) \o last, line, k) /\ err' \in {0, 11}
    BY <1>2, PrintEmits
  <2> DEFINE bytes == Items(line, k) \o last
  <2>2. bytes \in Seq(Byte) /\ Emit(n, bytes, line, k)
    BY <2>1, EmittedTyped
  <2> HIDE DEF bytes
  <2>3. n \in Nums /\ IsOpen(n)
    BY <1>2, PrintEmits
  <2> QED BY <2>1, <2>2, <2>3, EmitKeeps
<1> QED BY <1>1, <1>2

LEMMA ReadKeeps ==
    ASSUME TypeInv, NEW n \in Nums, IsOpen(n), NEW view \in Views(n), NEW pos \in Nat \ {0},
           Read(n, view, pos), UNCHANGED <<program, dir, plain, fields>>, err' \in {0, 62},
           taken' \in [Nums -> Nat \cup {Unknown}], strs' \in [Vars -> Seq(Byte)]
    PROVE  TypeInv'
<1> DEFINE d == Flushed({n})[files[n].file]
<1>1. PICK h : HandleStep(n, h, d)
  BY ReadStep
<1> HIDE DEF d
<1>2. TableOK'
  BY <1>1, HandleStepKeeps
<1>3. plain' \subseteq FileNames /\ fields' \in [FileNames -> Seq(Seq(Byte))]
  BY TypeInvParts
<1> QED BY <1>2, <1>3, StillTyped

(* INPUT # reads one item, or finds that there is none left.                *)
LEMMA InputReads ==
    ASSUME TypeInv, NEW n, ExecInputFile(n), ~\E code \in {52, 62} : Fail(code)
    PROVE  /\ n \in Nums /\ IsOpen(n) /\ Readable(n)
           /\ UNCHANGED <<program, dir, strs, plain, fields>> /\ err' \in {0, 62}
           /\ \E view \in Views(n), pos \in Nat \ {0} :
                 /\ Read(n, view, pos)
                 /\ IF SkipBlank(view, Here(n)) > Len(view)
                    THEN pos = SkipBlank(view, Here(n)) /\ taken' = taken
                    ELSE /\ pos = InputField(view, SkipBlank(view, Here(n))).next
                         /\ taken' = [taken EXCEPT ![n] = IF @ = Unknown THEN @ ELSE @ + 1]
<1>1. n \in Nums /\ IsOpen(n) /\ Readable(n)
  BY DEF ExecInputFile, IsOpen
<1>2. PICK view \in Views(n) :
         LET i == SkipBlank(view, Here(n))  field == InputField(view, i) IN
         /\ IF i > Len(view)
            THEN Read(n, view, i) /\ err' = 62 /\ UNCHANGED taken
            ELSE /\ Read(n, view, field.next)
                 /\ err' = 0
                 /\ taken' = [taken EXCEPT ![n] = IF @ = Unknown THEN @ ELSE @ + 1]
         /\ UNCHANGED <<program, dir, strs, plain, fields>>
  BY <1>1 DEF ExecInputFile
<1> DEFINE i == SkipBlank(view, Here(n))
           next == InputField(view, i).next
<1>3. i \in Nat \ {0} /\ next \in Nat \ {0}
  BY <1>1, ViewTyped, HereTyped, FindTyped, InputFieldTyped
<1>4. IF i > Len(view) THEN Read(n, view, i) /\ taken' = taken
      ELSE Read(n, view, next) /\ taken' = [taken EXCEPT ![n] = IF @ = Unknown THEN @ ELSE @ + 1]
  BY <1>2
<1>5. UNCHANGED <<program, dir, strs, plain, fields>> /\ err' \in {0, 62}
  BY <1>2
<1>6. \E pos \in Nat \ {0} :
         /\ Read(n, view, pos)
         /\ IF i > Len(view) THEN pos = i /\ taken' = taken
            ELSE pos = next /\ taken' = [taken EXCEPT ![n] = IF @ = Unknown THEN @ ELSE @ + 1]
  <2> HIDE DEF i, next
  <2>1. CASE i > Len(view)
    BY <1>3, <1>4, <2>1
  <2>2. CASE ~(i > Len(view))
    BY <1>3, <1>4, <2>2
  <2> QED BY <2>1, <2>2
<1> QED BY <1>1, <1>5, <1>6

LEMMA InputKeeps ==
    ASSUME TypeInv, NEW n, ExecInputFile(n)
    PROVE  TypeInv'
<1>1. CASE \E code \in {52, 62} : Fail(code)
  BY <1>1, FailKeeps
<1>2. CASE ~\E code \in {52, 62} : Fail(code)
  <2>1. /\ n \in Nums /\ IsOpen(n) /\ err' \in {0, 62}
        /\ UNCHANGED <<program, dir, strs, plain, fields>>
    BY <1>2, InputReads
  <2>2. PICK view \in Views(n), pos \in Nat \ {0} :
           /\ Read(n, view, pos)
           /\ \/ taken' = taken
              \/ taken' = [taken EXCEPT ![n] = IF @ = Unknown THEN @ ELSE @ + 1]
    BY <1>2, InputReads
  <2>3. taken \in [Nums -> Nat \cup {Unknown}] /\ strs' \in [Vars -> Seq(Byte)]
    BY <2>1, TypeInvParts
  <2>4. taken' \in [Nums -> Nat \cup {Unknown}]
    <3>1. taken[n] \in Nat \cup {Unknown}
      BY <2>1, <2>3
    <3>2. (IF taken[n] = Unknown THEN taken[n] ELSE taken[n] + 1) \in Nat \cup {Unknown}
      BY <3>1
    <3> QED BY <2>2, <2>3, <3>2
  <2> QED BY <2>1, <2>2, <2>3, <2>4, ReadKeeps
<1> QED BY <1>1, <1>2

(* LINE INPUT # reads a line, or from a handle that cannot be read nothing. *)
LEMMA LineInputReads ==
    ASSUME TypeInv, NEW n, ExecLineInputFile(n), ~Fail(52),
           ~(End /\ UNCHANGED <<dir, disk, files, strs, history>>)
    PROVE  /\ n \in Nums /\ IsOpen(n) /\ Readable(n) /\ err' = 0
           /\ UNCHANGED <<program, dir, strs, plain, fields>>
           /\ taken' = [taken EXCEPT ![n] = Unknown]
           /\ \E view \in Views(n), pos \in Nat \ {0} : Read(n, view, pos)
<1>1. /\ n \in Nums /\ IsOpen(n) /\ Readable(n) /\ err' = 0
      /\ UNCHANGED <<program, dir, strs, plain, fields>>
      /\ taken' = [taken EXCEPT ![n] = Unknown]
  BY DEF ExecLineInputFile, IsOpen, End
<1>2. PICK view \in Views(n) : Read(n, view, Smaller(Find(view, Here(n), {LF}) + 1, Len(view) + 1))
  BY DEF ExecLineInputFile
<1> DEFINE found == Find(view, Here(n), {LF})
           pos == Smaller(found + 1, Len(view) + 1)
<1>3. found \in Nat \ {0} /\ Len(view) \in Nat
  BY <1>1, ViewTyped, HereTyped, FindTyped
<1> HIDE DEF found
<1>4. pos \in Nat \ {0} /\ Read(n, view, pos)
  BY <1>2, <1>3 DEF Smaller, found
<1> QED BY <1>1, <1>4

LEMMA LineInputKeeps ==
    ASSUME TypeInv, NEW n, ExecLineInputFile(n)
    PROVE  TypeInv'
<1>1. CASE Fail(52)
  BY <1>1, FailKeeps
<1>2. CASE End /\ UNCHANGED <<dir, disk, files, strs, history>>
  BY <1>2, StringsKeep, TypeInvParts
<1>3. CASE ~Fail(52) /\ ~(End /\ UNCHANGED <<dir, disk, files, strs, history>>)
  <2>1. /\ n \in Nums /\ IsOpen(n) /\ err' = 0 /\ UNCHANGED <<program, dir, strs, plain, fields>>
        /\ taken' = [taken EXCEPT ![n] = Unknown]
    BY <1>3, LineInputReads
  <2>2. PICK view \in Views(n), pos \in Nat \ {0} : Read(n, view, pos)
    BY <1>3, LineInputReads
  <2>3. taken' \in [Nums -> Nat \cup {Unknown}] /\ strs' \in [Vars -> Seq(Byte)]
    BY <2>1, TypeInvParts
  <2> QED BY <2>1, <2>2, <2>3, ReadKeeps
<1> QED BY <1>1, <1>2, <1>3

(* A step that only flushes the handle and moves it.                        *)
Moves(n, pos) ==
    /\ disk' = Flushed({n})
    /\ files' = [files EXCEPT ![n] = [AfterSync(files[n]) EXCEPT !.pos = pos]]
    /\ UNCHANGED <<program, dir>>

LEMMA MoveStep ==
    ASSUME TypeInv, NEW n \in Nums, IsOpen(n), NEW pos \in Nat \ {0}, Moves(n, pos)
    PROVE  \E h : /\ h.pos = pos /\ h.pend = <<>> /\ h.cache = files[n].cache
                  /\ h.cached => files[n].cached /\ files[n].pend = <<>>
                  /\ HandleStep(n, h, Flushed({n})[files[n].file])
<1> DEFINE a == AfterSync(files[n])
           h == [a EXCEPT !.pos = pos]
<1>1. /\ a \in Handles /\ a.mode = files[n].mode /\ a.file = files[n].file /\ a.pend = <<>>
      /\ a.cache = files[n].cache /\ (a.cached => files[n].cached /\ files[n].pend = <<>>)
  BY SyncFacts
<1>2. files' = [files EXCEPT ![n] = h] /\ disk' = Flushed({n}) /\ UNCHANGED <<program, dir>>
  BY DEF Moves
<1> HIDE DEF a
<1>3. /\ h \in Handles /\ h.mode = files[n].mode /\ h.file = files[n].file /\ h.pend = <<>>
      /\ h.pos = pos /\ h.cache = files[n].cache
      /\ (h.cached => files[n].cached /\ files[n].pend = <<>>)
  BY <1>1 DEF Handles
<1> HIDE DEF h
<1>4. HandleStep(n, h, Flushed({n})[files[n].file])
  BY <1>2, <1>3, FlushedStep
<1> QED BY <1>3, <1>4

LEMMA MoveKeeps ==
    ASSUME TypeInv, NEW n \in Nums, IsOpen(n), NEW pos \in Nat \ {0}, Moves(n, pos),
           strs' = strs, err' = 0, plain' \subseteq FileNames,
           fields' \in [FileNames -> Seq(Seq(Byte))], taken' \in [Nums -> Nat \cup {Unknown}]
    PROVE  TypeInv'
<1> DEFINE d == Flushed({n})[files[n].file]
<1>1. PICK h : HandleStep(n, h, d)
  BY MoveStep
<1> HIDE DEF d
<1>2. TableOK' /\ program' = program
  BY <1>1, HandleStepKeeps DEF HandleStep
<1> QED BY <1>2, StillTyped, TypeInvParts

LEMMA EofMoves ==
    ASSUME TypeInv, NEW n \in Nums, IsOpen(n), EvalEof(n), files[n].mode # "input"
    PROVE  Moves(n, Here(n))
<1>1. disk' = Flushed({n}) /\ files' = [files EXCEPT ![n] = AfterSync(@)] /\ UNCHANGED <<program, dir>>
  BY DEF EvalEof, End
<1>2. AfterSync(files[n]) = [AfterSync(files[n]) EXCEPT !.pos = Here(n)]
  <2>1. AfterSync(files[n]) \in Handles
    BY SyncFacts
  <2> QED BY <2>1 DEF Handles, Here
<1>3. files' = [files EXCEPT ![n] = [AfterSync(files[n]) EXCEPT !.pos = Here(n)]]
  BY <1>1, <1>2 DEF TypeInv, TypeOK
<1> QED BY <1>1, <1>3 DEF Moves

LEMMA EofKeeps ==
    ASSUME TypeInv, NEW n, EvalEof(n)
    PROVE  TypeInv'
<1>1. /\ n \in Nums /\ IsOpen(n) /\ err' = 0
      /\ UNCHANGED <<program, dir, strs, plain, fields, taken>>
  BY DEF EvalEof, IsOpen, End, history
<1>2. strs' \in [Vars -> Seq(Byte)] /\ plain' \subseteq FileNames
      /\ fields' \in [FileNames -> Seq(Seq(Byte))] /\ taken' \in [Nums -> Nat \cup {Unknown}]
  BY <1>1, TypeInvParts
<1>3. Here(n) \in Nat \ {0}
  BY <1>1, HereTyped
<1>4. CASE files[n].mode = "input"
  <2>1. PICK view \in Views(n) : Read(n, view, Here(n))
    BY <1>4 DEF EvalEof
  <2> QED BY <1>1, <1>2, <1>3, <2>1, ReadKeeps
<1>5. CASE files[n].mode # "input"
  <2>1. Moves(n, Here(n))
    BY <1>1, <1>5, EofMoves
  <2> QED BY <1>1, <1>2, <1>3, <2>1, MoveKeeps
<1> QED BY <1>4, <1>5

LEMMA PositionTyped ==
    ASSUME TypeInv, NEW n \in Nums, IsOpen(n), NEW r \in Nat
    PROVE  Position(n, r) \in Nat \ {0}
<1>1. Here(n) \in Nat \ {0} /\ RecLen \in Nat
  BY HereTyped, ConstantFacts
<1>2. CASE r = 0
  BY <1>1, <1>2 DEF Position
<1>3. CASE r # 0
  <2>1. r - 1 \in Nat
    BY <1>3
  <2>2. (r - 1) * RecLen \in Nat
    BY <1>1, <2>1
  <2>3. Position(n, r) \in {(r - 1) * RecLen + 1, r}
    BY <1>3 DEF Position
  <2> DEFINE skipped == (r - 1) * RecLen
  <2> HIDE DEF skipped
  <2>4. skipped + 1 \in Nat \ {0}
    BY <2>2 DEF skipped
  <2> QED BY <1>3, <2>3, <2>4 DEF skipped
<1> QED BY <1>2, <1>3

LEMMA SeekMoves ==
    ASSUME TypeInv, NEW n, NEW p \in Nat, ExecSeek(n, p), ~Fail(52)
    PROVE  /\ n \in Nums /\ IsOpen(n) /\ Moves(n, Position(n, p)) /\ Position(n, p) \in Nat \ {0}
           /\ IF files[n].mode = "output" THEN Spoil(files[n].file) ELSE UNCHANGED <<plain, fields>>
           /\ taken' = [taken EXCEPT ![n] = IF files[n].mode = "input" /\ p = 1 THEN 0
                                            ELSE IF p = 0 THEN @ ELSE Unknown]
           /\ strs' = strs /\ err' = 0
<1>1. /\ n \in Nums /\ IsOpen(n) /\ disk' = Flushed({n}) /\ err' = 0
      /\ files' = [files EXCEPT ![n] = [AfterSync(@) EXCEPT !.pos = Position(n, p)]]
      /\ IF files[n].mode = "output" THEN Spoil(files[n].file) ELSE UNCHANGED <<plain, fields>>
      /\ taken' = [taken EXCEPT ![n] = IF files[n].mode = "input" /\ p = 1 THEN 0
                                       ELSE IF p = 0 THEN @ ELSE Unknown]
      /\ UNCHANGED <<program, dir, strs>>
  BY DEF ExecSeek, IsOpen, End
<1>2. files' = [files EXCEPT ![n] = [AfterSync(files[n]) EXCEPT !.pos = Position(n, p)]]
  BY <1>1 DEF TypeInv, TypeOK
<1>3. Position(n, p) \in Nat \ {0}
  BY <1>1, PositionTyped
<1>4. Moves(n, Position(n, p))
  BY <1>1, <1>2 DEF Moves
<1> QED BY <1>1, <1>3, <1>4

LEMMA SeekKeeps ==
    ASSUME TypeInv, NEW n, NEW p \in Nat, ExecSeek(n, p)
    PROVE  TypeInv'
<1>1. CASE Fail(52)
  BY <1>1, FailKeeps
<1>2. CASE ~Fail(52)
  <2>1. n \in Nums /\ IsOpen(n) /\ Moves(n, Position(n, p)) /\ Position(n, p) \in Nat \ {0}
    BY <1>2, SeekMoves
  <2>2. taken' \in [Nums -> Nat \cup {Unknown}]
    <3>1. taken \in [Nums -> Nat \cup {Unknown}]
      BY TypeInvParts
    <3> QED BY <1>2, <2>1, <3>1, SeekMoves
  <2>3. plain' \subseteq FileNames /\ fields' \in [FileNames -> Seq(Seq(Byte))]
    <3>1. Spoil(files[n].file) \/ UNCHANGED <<plain, fields>>
      BY <1>2, SeekMoves
    <3> QED BY <2>1, <3>1, OpenFacts, SpoilTyped, TypeInvParts
  <2>4. strs' = strs /\ err' = 0
    BY <1>2, SeekMoves
  <2> QED BY <2>1, <2>2, <2>3, <2>4, MoveKeeps
<1> QED BY <1>1, <1>2

LEMMA FieldStep ==
    ASSUME TypeInv, NEW n, NEW list \in program.lists, ExecField(n, list), ~Fail(52)
    PROVE  /\ n \in Nums /\ IsOpen(n) /\ err' = 0
           /\ UNCHANGED <<program, dir, disk, strs, plain, fields, taken>>
           /\ \E h : /\ h.pend = files[n].pend /\ h.pos = files[n].pos
                     /\ h.cached = files[n].cached /\ h.cache = files[n].cache
                     /\ HandleStep(n, h, disk[files[n].file])
<1> DEFINE h == [files[n] EXCEPT !.map = list]
           d == disk[files[n].file]
<1>1. /\ n \in Nums /\ IsOpen(n) /\ err' = 0
      /\ files' = [files EXCEPT ![n].map = list]
      /\ UNCHANGED <<program, dir, disk, strs, plain, fields, taken>>
  BY DEF ExecField, IsOpen, End, history
<1>2. files' = [files EXCEPT ![n] = h]
  BY <1>1 DEF TypeInv, TypeOK
<1>3. files[n] \in Handles /\ d \in Seq(Byte) /\ Len(d) <= program.bytes
  BY <1>1, OpenFacts
<1>4. /\ h \in Handles /\ h.mode = files[n].mode /\ h.file = files[n].file
      /\ h.pend = files[n].pend /\ h.pos = files[n].pos
      /\ h.cached = files[n].cached /\ h.cache = files[n].cache
  BY <1>3 DEF Handles
<1>5. h.pend # <<>> => (IF h.mode = "append" THEN Len(d) + 1 ELSE h.pos) + Len(h.pend) - 1 <= program.bytes
  <2>1. PendAt(files[n]) = IF files[n].mode = "append" THEN Len(d) + 1 ELSE files[n].pos
    BY DEF PendAt
  <2> QED BY <1>1, <1>4, <2>1 DEF TypeInv, PendFits
<1>6. disk' = [disk EXCEPT ![files[n].file] = d]
  BY <1>1, OpenFacts DEF TypeInv, TypeOK
<1> HIDE DEF h, d
<1>7. HandleStep(n, h, d)
  BY <1>1, <1>2, <1>3, <1>4, <1>5, <1>6 DEF HandleStep
<1> QED BY <1>1, <1>4, <1>7 DEF d

LEMMA FieldKeeps ==
    ASSUME TypeInv, NEW n, NEW list \in program.lists, ExecField(n, list)
    PROVE  TypeInv'
<1>1. CASE Fail(52)
  BY <1>1, FailKeeps
<1>2. CASE ~Fail(52)
  <2> DEFINE d == disk[files[n].file]
  <2>1. PICK h : HandleStep(n, h, d)
    BY <1>2, FieldStep
  <2> HIDE DEF d
  <2>2. /\ n \in Nums /\ IsOpen(n) /\ err' = 0
        /\ UNCHANGED <<program, dir, disk, strs, plain, fields, taken>>
    BY <1>2, FieldStep
  <2>3. TableOK'
    BY <2>1, <2>2, HandleStepKeeps
  <2> QED BY <2>2, <2>3, StillTyped, TypeInvParts
<1> QED BY <1>1, <1>2

--------------------------------------------------------------------------------
(* Records and strings.                                                     *)

LEMMA PaddedTyped ==
    ASSUME NEW b \in Seq(Byte), NEW len \in Nat, NEW with \in Byte
    PROVE  /\ Padded(b, len, with) \in Seq(Byte) /\ Len(Padded(b, len, with)) = len
<1> DEFINE byte(i) == IF i <= Len(b) THEN b[i] ELSE with
<1>1. \A i \in 1..len : byte(i) \in Byte
  OBVIOUS
<1>2. Padded(b, len, with) = [i \in 1..len |-> byte(i)]
  BY DEF Padded
<1> HIDE DEF byte
<1> QED BY <1>1, <1>2

LEMMA BytesTyped ==
    ASSUME NEW c \in Seq(Byte), NEW from \in Nat \ {0}, NEW len \in Nat
    PROVE  Bytes(c, from, len) \in Seq(Byte)
<1> DEFINE to == Smaller(from + len - 1, Len(c))
<1>1. to \in Int /\ to <= Len(c) /\ Len(c) \in Nat
  BY DEF Smaller
<1> HIDE DEF to
<1>2. \A i \in from..to : c[i] \in Byte
  BY <1>1
<1>3. SubSeq(c, from, to) \in Seq(Byte)
  BY <1>1, <1>2, SubSeqProperties
<1> QED BY <1>3 DEF Bytes, to

LEMMA MapTyped ==
    ASSUME TypeInv, NEW n \in Nums, IsOpen(n)
    PROVE  files[n].map \in FieldList
<1>1. program.lists \subseteq FieldList
  BY ProgramFacts DEF ProgramOK, FieldList
<1> QED BY <1>1, OpenFacts, EmptySeq DEF FieldList

LEMMA MappedFacts ==
    ASSUME NEW map \in FieldList, NEW i \in Mapped(map)
    PROVE  /\ map[i].var \in Vars /\ map[i].width \in Nat /\ Offset(map, i) \in Nat
           /\ Offset(map, i) + map[i].width <= RecLen
<1>1. i \in 1..Len(map)
  BY DEF Mapped
<1>2. map[i].var \in Vars /\ map[i].width \in Nat
  BY <1>1, FieldListFacts
<1>3. Offset(map, i) \in Nat
  BY <1>1, OffsetTyped
<1> QED BY <1>2, <1>3 DEF Mapped

LEMMA FromRecordTyped ==
    ASSUME TypeInv, NEW map \in FieldList, NEW record \in Seq(Byte), Len(record) = RecLen, NEW v
    PROVE  FromRecord(map, record, v) \in [Vars -> Seq(Byte)]
<1> SUFFICES ASSUME NEW x \in Vars PROVE FromRecord(map, record, v)[x] \in Seq(Byte)
  BY DEF FromRecord
<1>1. strs[x] \in Seq(Byte)
  BY TypeInvParts
<1>2. CASE \E i \in Mapped(map) : map[i].var = x
  <2> DEFINE i == CHOOSE i \in Mapped(map) : map[i].var = x
             from == Offset(map, i) + 1
             to == Offset(map, i) + map[i].width
  <2>1. i \in Mapped(map)
    BY <1>2, Zenon
  <2>2. FromRecord(map, record, v)[x] = SubSeq(record, from, to)
    BY <1>2 DEF FromRecord
  <2> HIDE DEF i
  <2>3. from \in Nat \ {0} /\ to \in Nat /\ to <= Len(record)
    BY <2>1, MappedFacts
  <2> HIDE DEF from, to
  <2>4. \A j \in from..to : record[j] \in Byte
    BY <2>3
  <2>5. SubSeq(record, from, to) \in Seq(Byte)
    BY <2>3, <2>4, SubSeqProperties
  <2> QED BY <2>2, <2>5
<1>3. CASE ~\E i \in Mapped(map) : map[i].var = x
  <2>1. FromRecord(map, record, v)[x] = IF x = v THEN record ELSE strs[x]
    BY <1>3 DEF FromRecord
  <2> QED BY <1>1, <2>1
<1> QED BY <1>2, <1>3

LEMMA ToRecordTyped ==
    ASSUME TypeInv, NEW map \in FieldList, NEW v \in Vars \cup {NoVar}
    PROVE  ToRecord(map, v) \in Seq(Byte)
<1>1. strs \in [Vars -> Seq(Byte)] /\ Space \in Byte /\ RecLen \in Nat
  BY TypeInvParts, ConstantFacts
<1>2. CASE v # NoVar
  <2>1. strs[v] \in Seq(Byte)
    BY <1>1, <1>2
  <2>2. Padded(strs[v], RecLen, Space) \in Seq(Byte)
    BY <1>1, <2>1, PaddedTyped
  <2> QED BY <1>2, <2>2 DEF ToRecord
<1>3. CASE v = NoVar
  <2> DEFINE covering(b) == {i \in Mapped(map) : b - Offset(map, i) \in 1..map[i].width}
             chosen(b) == CHOOSE i \in covering(b) : TRUE
             field(i) == Padded(strs[map[i].var], map[i].width, Space)
             byte(b) == IF covering(b) = {} THEN Space
                        ELSE field(chosen(b))[b - Offset(map, chosen(b))]
  <2>1. ToRecord(map, v) = [b \in 1..RecLen |-> byte(b)]
    BY <1>3 DEF ToRecord
  <2>2. ASSUME NEW b \in 1..RecLen PROVE byte(b) \in Byte
    <3>1. CASE covering(b) # {}
      <4> DEFINE i == chosen(b)
      <4>1. i \in covering(b)
        BY <3>1
      <4>2. i \in Mapped(map) /\ b - Offset(map, i) \in 1..map[i].width
        BY <4>1
      <4> HIDE DEF i
      <4>3. map[i].var \in Vars /\ map[i].width \in Nat
        BY <4>2, MappedFacts
      <4>4. strs[map[i].var] \in Seq(Byte)
        BY <1>1, <4>3
      <4>5. field(i) \in Seq(Byte) /\ Len(field(i)) = map[i].width
        BY <1>1, <4>3, <4>4, PaddedTyped
      <4> DEFINE q == field(i)
                 j == b - Offset(map, i)
      <4>6. q \in Seq(Byte) /\ j \in 1..Len(q)
        BY <4>2, <4>5
      <4> HIDE DEF q, j
      <4>7. q[j] \in Byte
        BY <4>6, ElementOfSeq
      <4> QED BY <3>1, <4>7 DEF q, j, i
    <3>2. CASE covering(b) = {}
      BY <1>1, <3>2
    <3> QED BY <3>1, <3>2
  <2> HIDE DEF byte
  <2> QED BY <1>1, <2>1, <2>2
<1> QED BY <1>2, <1>3

LEMMA GetReads ==
    ASSUME TypeInv, NEW n, NEW r \in Nat, NEW v \in Vars \cup {NoVar}, ExecGet(n, r, v), ~Fail(52)
    PROVE  /\ n \in Nums /\ IsOpen(n) /\ files[n].mode \in {"random", "binary"} /\ err' = 0
           /\ UNCHANGED <<program, dir, plain, fields, taken>> /\ strs' \in [Vars -> Seq(Byte)]
           /\ \E view \in Views(n), pos \in Nat \ {0} : Read(n, view, pos)
<1>1. /\ n \in Nums /\ IsOpen(n) /\ (GetRecord(n, r, v) \/ GetBinary(n, r, v))
      /\ err' = 0 /\ UNCHANGED <<program, dir, plain, fields, taken>>
  BY DEF ExecGet, IsOpen, End, history
<1>2. files[n].mode \in {"random", "binary"}
  BY <1>1 DEF GetRecord, GetBinary
<1>3. Position(n, r) \in Nat \ {0} /\ RecLen \in Nat /\ Nul \in Byte /\ Unset \in Byte
  BY <1>1, PositionTyped, ConstantFacts
<1>4. ASSUME NEW view \in Views(n), NEW b \in Seq(Byte), Read(n, view, Position(n, r) + Len(b))
      PROVE  \E pos \in Nat \ {0} : Read(n, view, pos)
  <2>1. Position(n, r) + Len(b) \in Nat \ {0}
    BY <1>3
  <2> DEFINE pos == Position(n, r) + Len(b)
  <2> HIDE DEF pos
  <2>2. pos \in Nat \ {0} /\ Read(n, view, pos)
    BY <1>4, <2>1 DEF pos
  <2> QED BY <2>2
<1>5. CASE GetRecord(n, r, v)
  <2>1. PICK view \in Views(n) :
           LET b == Bytes(view, Position(n, r), RecLen) IN
           /\ Read(n, view, Position(n, r) + Len(b))
           /\ strs' = FromRecord(files[n].map, Padded(b, RecLen, Nul), v)
    BY <1>5 DEF GetRecord
  <2> DEFINE b == Bytes(view, Position(n, r), RecLen)
             record == Padded(b, RecLen, Nul)
  <2>2. b \in Seq(Byte)
    BY <1>1, <1>3, ViewTyped, BytesTyped
  <2>3. Read(n, view, Position(n, r) + Len(b)) /\ strs' = FromRecord(files[n].map, record, v)
    BY <2>1
  <2> HIDE DEF b
  <2>4. record \in Seq(Byte) /\ Len(record) = RecLen
    BY <1>3, <2>2, PaddedTyped
  <2> HIDE DEF record
  <2>5. files[n].map \in FieldList
    BY <1>1, MapTyped
  <2>6. strs' \in [Vars -> Seq(Byte)]
    BY <2>3, <2>4, <2>5, FromRecordTyped
  <2> QED BY <1>1, <1>2, <1>4, <2>2, <2>3, <2>6
<1>6. CASE GetBinary(n, r, v)
  <2>1. PICK view \in Views(n) :
           LET b == IF v = NoVar THEN <<>> ELSE Bytes(view, Position(n, r), Len(strs[v])) IN
           /\ Read(n, view, Position(n, r) + Len(b))
           /\ strs' = [x \in Vars |-> IF x = v THEN Padded(b, Len(strs[v]), Unset) ELSE strs[x]]
    BY <1>6 DEF GetBinary
  <2> DEFINE b == IF v = NoVar THEN <<>> ELSE Bytes(view, Position(n, r), Len(strs[v]))
  <2>2. strs \in [Vars -> Seq(Byte)] /\ view \in Seq(Byte)
    BY <1>1, ViewTyped, TypeInvParts
  <2>3. v \in Vars => Len(strs[v]) \in Nat
    BY <2>2
  <2>4. b \in Seq(Byte)
    BY <1>3, <2>2, <2>3, BytesTyped, EmptySeq
  <2>5. /\ Read(n, view, Position(n, r) + Len(b))
        /\ strs' = [x \in Vars |-> IF x = v THEN Padded(b, Len(strs[v]), Unset) ELSE strs[x]]
    BY <2>1
  <2> HIDE DEF b
  <2>6. v \in Vars => Padded(b, Len(strs[v]), Unset) \in Seq(Byte)
    BY <1>3, <2>3, <2>4, PaddedTyped
  <2>7. strs' \in [Vars -> Seq(Byte)]
    BY <2>2, <2>5, <2>6
  <2> QED BY <1>1, <1>2, <1>4, <2>4, <2>5, <2>7
<1> QED BY <1>1, <1>5, <1>6

LEMMA GetKeeps ==
    ASSUME TypeInv, NEW n, NEW r \in Nat, NEW v \in Vars \cup {NoVar}, ExecGet(n, r, v)
    PROVE  TypeInv'
<1>1. CASE Fail(52)
  BY <1>1, FailKeeps
<1>2. CASE ~Fail(52)
  <2>1. /\ n \in Nums /\ IsOpen(n) /\ err' = 0
        /\ UNCHANGED <<program, dir, plain, fields, taken>> /\ strs' \in [Vars -> Seq(Byte)]
    BY <1>2, GetReads
  <2>2. PICK view \in Views(n), pos \in Nat \ {0} : Read(n, view, pos)
    BY <1>2, GetReads
  <2>3. taken' \in [Nums -> Nat \cup {Unknown}]
    BY <2>1, TypeInvParts
  <2> QED BY <2>1, <2>2, <2>3, ReadKeeps
<1> QED BY <1>1, <1>2

LEMMA PutBytesTyped ==
    ASSUME TypeInv, NEW n \in Nums, IsOpen(n), NEW v \in Vars \cup {NoVar}
    PROVE  PutBytes(n, v) \in Seq(Byte)
<1>1. ToRecord(files[n].map, v) \in Seq(Byte)
  BY MapTyped, ToRecordTyped
<1>2. <<>> \in Seq(Byte) /\ strs \in [Vars -> Seq(Byte)]
  BY TypeInvParts, EmptySeq
<1> QED BY <1>1, <1>2 DEF PutBytes

(* What PUT makes of the handle and of the file.                            *)
LEMMA WrittenStep ==
    ASSUME TypeInv, NEW n \in Nums, IsOpen(n), NEW at \in Nat \ {0}, NEW b \in Seq(Byte),
           Fits(files[n].file, at + Len(b) - 1), Written(n, at, b), UNCHANGED <<program, dir>>
    PROVE  \E h : /\ h.pend = <<>> /\ ~h.cached
                  /\ HandleStep(n, h, Overwrite(Flushed({n})[files[n].file], at, b))
<1> DEFINE f == files[n].file
           now == Flushed({n})[f]
           d == Overwrite(now, at, b)
           a == AfterSync(files[n])
           pos == at + Len(b)
           h == [a EXCEPT !.pos = pos, !.cached = FALSE]
<1>1. a \in Handles /\ a.mode = files[n].mode /\ a.file = files[n].file /\ a.pend = <<>>
  BY SyncFacts
<1>2. f \in FileNames /\ now \in Seq(Byte) /\ Len(now) <= program.bytes
  BY OpenFacts, FlushedFacts
<1>3. files \in [Nums -> Handles] /\ disk \in [FileNames -> Seq(Byte)]
      /\ Flushed({n}) \in [FileNames -> Seq(Byte)]
  BY FlushedFacts DEF TypeInv, TypeOK
<1>4. files' = [files EXCEPT ![n] = h]
  BY <1>3 DEF Written
<1>5. disk' = [disk EXCEPT ![f] = d]
  <2>1. disk' = [Flushed({n}) EXCEPT ![f] = d]
    BY <1>2, <1>3 DEF Written
  <2>2. Flushed({n}) = [disk EXCEPT ![f] = now]
    BY FlushOne
  <2> HIDE DEF now, d
  <2> QED BY <1>3, <2>1, <2>2
<1>6. at + Len(b) - 1 <= program.bytes /\ Len(b) \in Nat /\ program.bytes \in Nat
  BY ProgramFacts DEF Fits
<1> HIDE DEF now
<1>7. d \in Seq(Byte) /\ Len(d) <= program.bytes
  BY <1>2, <1>6, OverwriteFacts
<1>8. pos \in Nat \ {0}
  BY <1>6
<1> HIDE DEF a, pos, d
<1>9. h \in Handles /\ h.mode = files[n].mode /\ h.file = files[n].file /\ h.pend = <<>> /\ ~h.cached
  BY <1>1, <1>8 DEF Handles
<1> HIDE DEF h
<1>10. HandleStep(n, h, d)
  BY <1>4, <1>5, <1>7, <1>9 DEF HandleStep
<1> QED BY <1>9, <1>10 DEF d, now

LEMMA PutWrites ==
    ASSUME TypeInv, NEW n, NEW r \in Nat, NEW v \in Vars \cup {NoVar}, ExecPut(n, r, v), ~Fail(52)
    PROVE  /\ n \in Nums /\ IsOpen(n) /\ Spoil(files[n].file)
           /\ err' = 0 /\ UNCHANGED <<program, dir, strs, taken>>
           /\ \E h, d : h.pend = <<>> /\ ~h.cached /\ HandleStep(n, h, d)
<1> DEFINE at == Position(n, r)
           b == PutBytes(n, v)
<1>1. /\ n \in Nums /\ IsOpen(n) /\ Fits(files[n].file, at + Len(b) - 1)
      /\ Written(n, at, b) /\ Spoil(files[n].file)
      /\ err' = 0 /\ UNCHANGED <<program, dir, strs, taken>>
  BY DEF ExecPut, IsOpen, End
<1>2. at \in Nat \ {0} /\ b \in Seq(Byte)
  BY <1>1, PositionTyped, PutBytesTyped
<1> HIDE DEF at, b
<1> DEFINE d == Overwrite(Flushed({n})[files[n].file], at, b)
<1>3. PICK h : h.pend = <<>> /\ ~h.cached /\ HandleStep(n, h, d)
  BY <1>1, <1>2, WrittenStep
<1> HIDE DEF d
<1> QED BY <1>1, <1>3

LEMMA PutKeeps ==
    ASSUME TypeInv, NEW n, NEW r \in Nat, NEW v \in Vars \cup {NoVar}, ExecPut(n, r, v)
    PROVE  TypeInv'
<1>1. CASE Fail(52)
  BY <1>1, FailKeeps
<1>2. CASE ~Fail(52)
  <2>1. /\ n \in Nums /\ IsOpen(n) /\ Spoil(files[n].file)
        /\ err' = 0 /\ UNCHANGED <<program, dir, strs, taken>>
    BY <1>2, PutWrites
  <2>2. PICK h, d : HandleStep(n, h, d)
    BY <1>2, PutWrites
  <2>3. TableOK'
    BY <2>1, <2>2, HandleStepKeeps
  <2>4. plain' \subseteq FileNames /\ fields' \in [FileNames -> Seq(Seq(Byte))]
    BY <2>1, OpenFacts, SpoilTyped
  <2> QED BY <2>1, <2>3, <2>4, StillTyped, TypeInvParts
<1> QED BY <1>1, <1>2

LEMMA AssignKeeps ==
    ASSUME TypeInv, NEW v \in DOMAIN program.texts, NEW t \in program.texts[v],
           ExecLet(v, t) \/ ExecLset(v, t) \/ ExecRset(v, t)
    PROVE  TypeInv'
<1>1. v \in Vars /\ t \in Seq(Byte) /\ strs \in [Vars -> Seq(Byte)] /\ Space \in Byte
  BY ProgramFacts, TypeInvParts, ConstantFacts DEF ProgramOK
<1>2. strs[v] \in Seq(Byte) /\ Len(strs[v]) \in Nat /\ Len(t) \in Nat
  BY <1>1
<1>3. ASSUME NEW s \in Seq(Byte), strs' = [strs EXCEPT ![v] = s],
             End, UNCHANGED <<dir, disk, files, history>>
      PROVE  TypeInv'
  <2>1. strs' \in [Vars -> Seq(Byte)]
    BY <1>1, <1>3
  <2> QED BY <1>3, <2>1, StringsKeep
<1>4. CASE ExecLet(v, t)
  BY <1>1, <1>3, <1>4 DEF ExecLet
<1>5. CASE ExecLset(v, t)
  <2>1. Padded(t, Len(strs[v]), Space) \in Seq(Byte)
    BY <1>1, <1>2, PaddedTyped
  <2> QED BY <1>3, <1>5, <2>1 DEF ExecLset
<1>6. CASE ExecRset(v, t)
  <2> DEFINE w == Len(strs[v])
             c == Smaller(Len(t), w)
             byte(i) == IF i <= w - c THEN Space ELSE t[i - w + c]
             s == [i \in 1..w |-> byte(i)]
  <2>1. c \in Nat /\ c <= w /\ c <= Len(t)
    BY <1>2 DEF Smaller
  <2>2. strs' = [strs EXCEPT ![v] = s] /\ End /\ UNCHANGED <<dir, disk, files, history>>
    BY <1>6 DEF ExecRset
  <2> HIDE DEF c
  <2>3. ASSUME NEW i \in 1..w PROVE byte(i) \in Byte
    <3>1. CASE i <= w - c
      BY <1>1, <3>1
    <3>2. CASE ~(i <= w - c)
      <4>1. i - w + c \in 1..Len(t)
        BY <1>2, <2>1, <3>2
      <4> QED BY <1>1, <3>2, <4>1, ElementOfSeq
    <3> QED BY <3>1, <3>2
  <2> HIDE DEF byte
  <2>4. s \in Seq(Byte)
    BY <1>2, <2>3
  <2> HIDE DEF s
  <2> QED BY <1>3, <2>2, <2>4
<1> QED BY <1>4, <1>5, <1>6

LEMMA TypeInit == Init => TypeInv
<1> SUFFICES ASSUME Init PROVE TypeInv
  OBVIOUS
<1>1. <<>> \in Seq(Byte) /\ <<>> \in Seq(Seq(Byte)) /\ Len(<<>>) = 0
  BY EmptySeq
<1>2. program.bytes \in Nat
  BY ConstantFacts DEF Init, ProgramOK
<1>3. \A n \in Nums : files[n] = Closed /\ ~IsOpen(n)
  BY ClosedTyped DEF Init, IsOpen
<1>4. files \in [Nums -> Handles]
  BY ClosedTyped DEF Init
<1>5. Sole /\ PendFits
  BY <1>3 DEF Sole, PendFits
<1> QED BY <1>1, <1>2, <1>3, <1>4, <1>5 DEF Init, TypeInv, TypeOK

LEMMA TypeStep == TypeInv /\ [Next]_fileVars => TypeInv'
<1> SUFFICES ASSUME TypeInv, [Next]_fileVars PROVE TypeInv'
  OBVIOUS
<1>1. program.numbers \subseteq Nat /\ program.moved \subseteq FileNames /\ program.places \subseteq Nat
      /\ DOMAIN program.texts \subseteq Vars
  <2>1. 0..MaxFiles \subseteq Nat
    BY ConstantsOK
  <2> QED BY <2>1, ProgramFacts DEF ProgramOK
<1>2. CASE Table
  BY <1>1, <1>2, OpenKeeps, CloseKeeps, KillKeeps, NameKeeps DEF Table, ExecClose, ExecReset
<1>3. CASE Sequential
  BY <1>3, InputKeeps, LineInputKeeps, EofKeeps, PrintKeeps DEF Sequential, Prints
<1>4. CASE Random
  BY <1>1, <1>4, SeekKeeps, GetKeeps, PutKeeps, FieldKeeps, AssignKeeps DEF Random, Named
<1>5. CASE UNCHANGED fileVars
  <2>1. UNCHANGED <<program, dir, disk, files, strs, err, plain, fields, taken>>
    BY <1>5 DEF fileVars, history
  <2>2. TableOK'
    BY <2>1, TableSame
  <2> QED BY <2>1, <2>2, StillTyped, TypeInvParts
<1> QED BY <1>2, <1>3, <1>4, <1>5 DEF Next

(* Every handle, file and string keeps its type, no file grows beyond the   *)
(* bound with what is pending for it, and an open file is in the directory  *)
(* (TypeOK), also in programs that open a file on several numbers.          *)
THEOREM TypeAlways == Spec => []TypeOK
<1>1. TypeInv => TypeOK
  BY DEF TypeInv
<1> QED BY TypeInit, TypeStep, <1>1, PTL DEF Spec

--------------------------------------------------------------------------------
(* What reads see, in programs that do not share files.                     *)

LEMMA OnlyHandle ==
    ASSUME ~Sharing, TypeInv, NEW n \in Nums, IsOpen(n)
    PROVE  OpenOn(files[n].file) = {n}
  BY OpenFacts DEF TypeInv, Sole, OpenOn, IsOpen

LEMMA ViewIsFile ==
    ASSUME TypeInv, CacheExact, NEW n \in Nums, IsOpen(n), NEW view \in Views(n)
    PROVE  view = Flushed({n})[files[n].file]
<1> DEFINE c == files[n].cache
           now == Flushed({n})[files[n].file]
<1>1. c \in Seq(Byte) /\ now \in Seq(Byte)
  BY FlushedFacts, OpenFacts
<1>2. IF ~files[n].cached \/ files[n].pend # <<>> THEN view = now
      ELSE view \in {now, c, c \o SubSeq(now, Len(c) + 1, Len(now))}
  BY DEF Views
<1>3. files[n].cached /\ files[n].pend = <<>> => c = now
  BY FlushOne DEF CacheExact
<1> HIDE DEF c, now
<1>4. CASE c = now
  <2>1. SubSeq(now, Len(c) + 1, Len(now)) = <<>>
    BY <1>1, <1>4, SubSeqEmpty
  <2>2. c \o <<>> = now
    BY <1>1, <1>4, ConcatEmptySeq
  <2> QED BY <1>2, <1>4, <2>1, <2>2 DEF now
<1> QED BY <1>2, <1>3, <1>4 DEF now

LEMMA CacheStep ==
    ASSUME ~Sharing, TypeInv, CacheExact, NEW n \in Nums, IsOpen(n), NEW h, NEW d,
           HandleStep(n, h, d), h.cached /\ h.pend = <<>> => h.cache = d
    PROVE  CacheExact'
<1>1. /\ files' = [files EXCEPT ![n] = h] /\ disk' = [disk EXCEPT ![files[n].file] = d]
      /\ h.mode = files[n].mode /\ h.file = files[n].file
  BY DEF HandleStep
<1>2. files \in [Nums -> Handles] /\ disk \in [FileNames -> Seq(Byte)]
  BY DEF TypeInv, TypeOK
<1> SUFFICES ASSUME NEW m \in Nums, IsOpen(m)', files'[m].cached, files'[m].pend = <<>>
             PROVE  files'[m].cache = disk'[files'[m].file]
  BY DEF CacheExact
<1>3. CASE m = n
  BY <1>1, <1>2, <1>3, OpenFacts
<1>4. CASE m # n
  <2>1. files'[m] = files[m] /\ IsOpen(m)
    BY <1>1, <1>2, <1>4 DEF IsOpen
  <2>2. files[m].file # files[n].file
    BY <1>4, <2>1, OnlyHandle, OpenFacts
  <2>3. disk'[files[m].file] = disk[files[m].file]
    BY <1>1, <1>2, <2>1, <2>2, OpenFacts
  <2> QED BY <2>1, <2>3 DEF CacheExact
<1> QED BY <1>3, <1>4

LEMMA CacheSame ==
    ASSUME CacheExact, UNCHANGED <<disk, files>>
    PROVE  CacheExact'
  BY DEF CacheExact, IsOpen

LEMMA CacheRead ==
    ASSUME ~Sharing, TypeInv, CacheExact, NEW n \in Nums, IsOpen(n), NEW view \in Views(n),
           NEW pos \in Nat \ {0}, Read(n, view, pos), UNCHANGED <<program, dir>>
    PROVE  CacheExact'
<1> DEFINE d == Flushed({n})[files[n].file]
<1>1. PICK h : h.cache = view /\ HandleStep(n, h, d)
  BY ReadStep
<1>2. view = d
  BY ViewIsFile
<1> HIDE DEF d
<1> QED BY <1>1, <1>2, CacheStep

LEMMA CacheMove ==
    ASSUME ~Sharing, TypeInv, CacheExact, NEW n \in Nums, IsOpen(n),
           NEW pos \in Nat \ {0}, Moves(n, pos)
    PROVE  CacheExact'
<1> DEFINE d == Flushed({n})[files[n].file]
<1>1. PICK h : /\ h.cache = files[n].cache /\ (h.cached => files[n].cached /\ files[n].pend = <<>>)
               /\ HandleStep(n, h, d)
  BY MoveStep
<1>2. files[n].cached /\ files[n].pend = <<>> => files[n].cache = d
  BY FlushOne DEF CacheExact
<1> HIDE DEF d
<1> QED BY <1>1, <1>2, CacheStep

(* A step of a handle on which nothing is read or written at once.          *)
LEMMA CacheWaits ==
    ASSUME ~Sharing, TypeInv, CacheExact, NEW n \in Nums, IsOpen(n), NEW h,
           h.cached = files[n].cached, h.cache = files[n].cache,
           h.pend = <<>> => files[n].pend = <<>>, HandleStep(n, h, disk[files[n].file])
    PROVE  CacheExact'
<1> DEFINE d == disk[files[n].file]
<1>1. files[n].cached /\ files[n].pend = <<>> => files[n].cache = d
  BY DEF CacheExact
<1>2. HandleStep(n, h, d)
  OBVIOUS
<1> HIDE DEF d
<1> QED BY <1>1, <1>2, CacheStep

LEMMA CacheEmit ==
    ASSUME ~Sharing, TypeInv, CacheExact, NEW n \in Nums, IsOpen(n), NEW bytes \in Seq(Byte),
           NEW line, NEW k, Emit(n, bytes, line, k)
    PROVE  CacheExact'
<1>1. CASE files[n].mode = "input"
  BY <1>1, CacheSame DEF Emit
<1>2. CASE files[n].mode # "input"
  <2>1. PICK h : /\ h.pend = files[n].pend \o bytes /\ h.cached = files[n].cached /\ h.cache = files[n].cache
                 /\ HandleStep(n, h, disk[files[n].file])
    BY <1>2, EmitStep
  <2>2. files[n].pend \in Seq(Byte)
    BY OpenFacts
  <2>3. h.pend = <<>> => files[n].pend = <<>>
    <3>1. Len(h.pend) = Len(files[n].pend) + Len(bytes) /\ Len(bytes) \in Nat
      BY <2>1, <2>2
    <3> QED BY <2>2, <3>1, EmptySeq
  <2> QED BY <2>1, <2>3, CacheWaits
<1> QED BY <1>1, <1>2

LEMMA CacheTable ==
    ASSUME ~Sharing, TypeInv, CacheExact, Table
    PROVE  CacheExact'
<1>0. /\ disk \in [FileNames -> Seq(Byte)] /\ files \in [Nums -> Handles]
      /\ program.moved \subseteq FileNames
  BY ProgramFacts DEF TypeInv, TypeOK, ProgramOK
<1>1. ASSUME NEW code, Fail(code) PROVE CacheExact'
  BY <1>1, CacheSame DEF Fail
<1>2. ASSUME NEW n \in Nums, NEW f \in FileNames, NEW mode \in Modes,
             OpenOn(f) = {}, FileOpen(n, f, mode)
      PROVE  CacheExact'
  <2> DEFINE h == [Closed EXCEPT !.mode = mode, !.file = f]
             d == IF mode = "output" THEN <<>> ELSE disk[f]
  <2>1. files' = [files EXCEPT ![n] = h] /\ disk' = [disk EXCEPT ![f] = d]
    BY <1>2 DEF FileOpen
  <2>2. ~h.cached
    BY DEF Closed
  <2> HIDE DEF h, d
  <2> SUFFICES ASSUME NEW m \in Nums, IsOpen(m)', files'[m].cached, files'[m].pend = <<>>
               PROVE  files'[m].cache = disk'[files'[m].file]
    BY DEF CacheExact
  <2>3. m # n /\ files'[m] = files[m] /\ IsOpen(m)
    BY <1>0, <2>1, <2>2 DEF IsOpen
  <2>4. files[m].file # f
    BY <1>2, <2>3, OpenFacts
  <2>5. disk'[files[m].file] = disk[files[m].file]
    BY <1>0, <2>1, <2>3, <2>4, OpenFacts
  <2> QED BY <2>3, <2>5 DEF CacheExact
<1>3. ASSUME NEW n, NEW f \in FileNames, NEW mode \in Modes, ExecOpen(n, f, mode)
      PROVE  CacheExact'
  <2>1. \/ \E code : Fail(code)
        \/ n \in Nums /\ OpenOn(f) = {} /\ FileOpen(n, f, mode)
    BY <1>3 DEF ExecOpen, MayOpen
  <2> QED BY <1>1, <1>2, <2>1
<1>4. ASSUME NEW S, CloseFiles(S) PROVE CacheExact'
  <2>1. disk' = Flushed(S) /\ files' = [n \in Nums |-> IF n \in S THEN Closed ELSE files[n]]
    BY <1>4 DEF CloseFiles
  <2> SUFFICES ASSUME NEW m \in Nums, IsOpen(m)', files'[m].cached, files'[m].pend = <<>>
               PROVE  files'[m].cache = disk'[files'[m].file]
    BY DEF CacheExact
  <2>2. m \notin S /\ files'[m] = files[m] /\ IsOpen(m)
    BY <2>1, ClosedTyped DEF IsOpen
  <2>3. OpenOn(files[m].file) = {m}
    BY <2>2, OnlyHandle
  <2>4. disk'[files[m].file] = disk[files[m].file]
    BY <2>1, <2>2, <2>3, FlushedFacts, OpenFacts
  <2> QED BY <2>2, <2>4 DEF CacheExact
<1>5. ASSUME NEW T \in SUBSET FileNames, \A f \in T : OpenOn(f) = {}, files' = files,
             \A f \in FileNames : f \notin T => disk'[f] = disk[f]
      PROVE  CacheExact'
  <2> SUFFICES ASSUME NEW m \in Nums, IsOpen(m)', files'[m].cached, files'[m].pend = <<>>
               PROVE  files'[m].cache = disk'[files'[m].file]
    BY DEF CacheExact
  <2>1. IsOpen(m) /\ files'[m] = files[m]
    BY <1>5 DEF IsOpen
  <2>2. files[m].file \in FileNames /\ files[m].file \notin T
    BY <1>5, <2>1, OpenFacts
  <2>3. disk'[files[m].file] = disk[files[m].file]
    BY <1>5, <2>2
  <2> QED BY <2>1, <2>3 DEF CacheExact
<1>6. ASSUME NEW f \in program.moved, ExecKill(f) PROVE CacheExact'
  <2>1. CASE Fail(53)
    BY <1>1, <2>1
  <2>2. CASE ~Fail(53)
    <3>1. OpenOn(f) = {} /\ files' = files /\ disk' = [disk EXCEPT ![f] = <<>>]
      BY <1>6, <2>2 DEF ExecKill
    <3>2. {f} \in SUBSET FileNames /\ \A g \in FileNames : g \notin {f} => disk'[g] = disk[g]
      BY <1>0, <3>1
    <3> QED BY <1>5, <3>1, <3>2
  <2> QED BY <2>1, <2>2
<1>7. ASSUME NEW f \in program.moved, NEW g \in program.moved, ExecName(f, g) PROVE CacheExact'
  <2>1. CASE Fail(53)
    BY <1>1, <2>1
  <2>2. CASE ~Fail(53)
    <3>1. /\ OpenOn(f) = {} /\ OpenOn(g) = {} /\ files' = files
          /\ disk' = [disk EXCEPT ![g] = disk[f], ![f] = <<>>]
      BY <1>7, <2>2 DEF ExecName
    <3>2. {f, g} \in SUBSET FileNames /\ \A h \in FileNames : h \notin {f, g} => disk'[h] = disk[h]
      BY <1>0, <3>1
    <3> QED BY <1>5, <3>1, <3>2
  <2> QED BY <2>1, <2>2
<1> QED BY <1>3, <1>4, <1>6, <1>7 DEF Table, ExecClose, ExecReset

LEMMA CacheSequential ==
    ASSUME ~Sharing, TypeInv, CacheExact, Sequential
    PROVE  CacheExact'
<1>1. ASSUME NEW code, Fail(code) PROVE CacheExact'
  BY <1>1, CacheSame DEF Fail
<1>2. ASSUME NEW n, ExecInputFile(n), ~\E code \in {52, 62} : Fail(code) PROVE CacheExact'
  <2>1. n \in Nums /\ IsOpen(n) /\ UNCHANGED <<program, dir>>
    BY <1>2, InputReads
  <2>2. PICK view \in Views(n), pos \in Nat \ {0} : Read(n, view, pos)
    BY <1>2, InputReads
  <2> QED BY <2>1, <2>2, CacheRead
<1>3. ASSUME NEW n, ExecLineInputFile(n), ~Fail(52),
             ~(End /\ UNCHANGED <<dir, disk, files, strs, history>>)
      PROVE  CacheExact'
  <2>1. n \in Nums /\ IsOpen(n) /\ UNCHANGED <<program, dir>>
    BY <1>3, LineInputReads
  <2>2. PICK view \in Views(n), pos \in Nat \ {0} : Read(n, view, pos)
    BY <1>3, LineInputReads
  <2> QED BY <2>1, <2>2, CacheRead
<1>4. ASSUME NEW n, EvalEof(n) PROVE CacheExact'
  <2>1. n \in Nums /\ IsOpen(n) /\ UNCHANGED <<program, dir>>
    BY <1>4 DEF EvalEof, IsOpen, End
  <2>2. Here(n) \in Nat \ {0}
    BY <2>1, HereTyped
  <2>3. CASE files[n].mode = "input"
    <3>1. PICK view \in Views(n) : Read(n, view, Here(n))
      BY <1>4, <2>3 DEF EvalEof
    <3> QED BY <2>1, <2>2, <3>1, CacheRead
  <2>4. CASE files[n].mode # "input"
    BY <1>4, <2>1, <2>2, <2>4, EofMoves, CacheMove
  <2> QED BY <2>3, <2>4
<1>5. ASSUME NEW n, NEW line \in program.lines, Prints(n, line), ~Fail(52) PROVE CacheExact'
  <2>1. PICK k \in 0..Len(line.items), last \in {<<>>, <<Comma>>, <<CR, LF>>} :
           Emit(n, Items(line, k) \o last, line, k)
    BY <1>5, PrintEmits
  <2> DEFINE bytes == Items(line, k) \o last
  <2>2. bytes \in Seq(Byte) /\ Emit(n, bytes, line, k)
    BY <2>1, EmittedTyped
  <2> HIDE DEF bytes
  <2>3. n \in Nums /\ IsOpen(n)
    BY <1>5, PrintEmits
  <2> QED BY <2>2, <2>3, CacheEmit
<1>6. PICK n : \/ ExecInputFile(n) \/ ExecLineInputFile(n) \/ EvalEof(n)
               \/ \E line \in program.lines : Prints(n, line)
  BY DEF Sequential, Prints
<1>7. CASE UNCHANGED <<disk, files>>
  BY <1>7, CacheSame
<1> QED BY <1>1, <1>2, <1>3, <1>4, <1>5, <1>6, <1>7

LEMMA CacheRandom ==
    ASSUME ~Sharing, TypeInv, CacheExact, Random
    PROVE  CacheExact'
<1>0. program.places \subseteq Nat /\ DOMAIN program.texts \subseteq Vars
  BY ProgramFacts DEF ProgramOK
<1>1. ASSUME NEW code, Fail(code) PROVE CacheExact'
  BY <1>1, CacheSame DEF Fail
<1>2. ASSUME NEW n, NEW r \in Nat, ExecSeek(n, r), ~Fail(52) PROVE CacheExact'
  BY <1>2, SeekMoves, CacheMove
<1>3. ASSUME NEW n, NEW r \in Nat, NEW v \in Vars \cup {NoVar}, ExecGet(n, r, v), ~Fail(52)
      PROVE  CacheExact'
  <2>1. n \in Nums /\ IsOpen(n) /\ UNCHANGED <<program, dir>>
    BY <1>3, GetReads
  <2>2. PICK view \in Views(n), pos \in Nat \ {0} : Read(n, view, pos)
    BY <1>3, GetReads
  <2> QED BY <2>1, <2>2, CacheRead
<1>4. ASSUME NEW n, NEW r \in Nat, NEW v \in Vars \cup {NoVar}, ExecPut(n, r, v), ~Fail(52)
      PROVE  CacheExact'
  <2>1. n \in Nums /\ IsOpen(n)
    BY <1>4, PutWrites
  <2>2. PICK h, d : ~h.cached /\ HandleStep(n, h, d)
    BY <1>4, PutWrites
  <2> QED BY <2>1, <2>2, CacheStep
<1>5. ASSUME NEW n, NEW list \in program.lists, ExecField(n, list), ~Fail(52) PROVE CacheExact'
  <2>1. n \in Nums /\ IsOpen(n)
    BY <1>5, FieldStep
  <2>2. PICK h : /\ h.pend = files[n].pend /\ h.cached = files[n].cached /\ h.cache = files[n].cache
                 /\ HandleStep(n, h, disk[files[n].file])
    BY <1>5, FieldStep
  <2> QED BY <2>1, <2>2, CacheWaits
<1>6. ASSUME NEW v, NEW t, ExecLet(v, t) \/ ExecLset(v, t) \/ ExecRset(v, t) PROVE CacheExact'
  BY <1>6, CacheSame DEF ExecLet, ExecLset, ExecRset
<1> QED BY <1>0, <1>1, <1>2, <1>3, <1>4, <1>5, <1>6 DEF Random, Named

LEMMA CacheInit == Init => CacheExact
  BY ClosedTyped DEF Init, CacheExact, IsOpen

LEMMA CacheKept ==
    ASSUME ~Sharing, TypeInv, CacheExact, [Next]_fileVars
    PROVE  CacheExact'
<1>1. CASE UNCHANGED fileVars
  BY <1>1, CacheSame DEF fileVars
<1> QED BY <1>1, CacheTable, CacheSequential, CacheRandom DEF Next

--------------------------------------------------------------------------------
(* What WRITE # writes and INPUT # reads.                                   *)

LEMMA BytesDiffer ==
    /\ Quote \notin Blank /\ Comma \notin Blank /\ Quote \notin {Comma, CR, LF}
    /\ Comma # CR /\ Comma # LF /\ CR # LF /\ Blank = {Space, CR, LF}
  BY DEF Quote, Comma, CR, LF, Space, Blank

LEMMA FindIs ==
    ASSUME NEW c \in Seq(Byte), NEW a \in Nat \ {0}, NEW q \in a..Len(c), NEW S,
           c[q] \in S, \A j \in a..(q - 1) : c[j] \notin S
    PROVE  Find(c, a, S) = q
<1> DEFINE A == {j \in a..Len(c) : c[j] \in S}
<1>1. q \in A /\ A \subseteq Int
  OBVIOUS
<1>2. \A j \in A : q <= j
  OBVIOUS
<1>3. Find(c, a, S) = (IF A # {} THEN First(A) ELSE Len(c) + 1)
  BY DEF Find
<1> HIDE DEF A
<1> QED BY <1>1, <1>2, <1>3, FirstLeast

LEMMA NothingToSkip ==
    ASSUME NEW c \in Seq(Byte), NEW a \in Nat \ {0}, a <= Len(c) + 1,
           a <= Len(c) => c[a] \notin Blank
    PROVE  SkipBlank(c, a) = a
<1> DEFINE B == {j \in a..Len(c) : c[j] \notin Blank}
<1>1. SkipBlank(c, a) = (IF B # {} THEN First(B) ELSE Len(c) + 1)
  BY DEF SkipBlank
<1>2. Len(c) \in Nat
  OBVIOUS
<1>3. CASE a <= Len(c)
  <2>1. a \in B /\ B \subseteq Int /\ \A j \in B : a <= j
    BY <1>2, <1>3
  <2> HIDE DEF B
  <2> QED BY <1>1, <2>1, FirstLeast
<1>4. CASE a = Len(c) + 1
  <2>1. B = {}
    BY <1>2, <1>4
  <2> QED BY <1>1, <1>4, <2>1
<1> QED BY <1>2, <1>3, <1>4

(* An item that fits the buffer of INPUT # and has no NUL is kept.          *)
LEMMA BufferedWhole ==
    ASSUME NEW t \in Seq(Byte), Storable(t)
    PROVE  Buffered(t) = t
<1>1. Len(t) \in Nat /\ FieldSize \in Nat /\ Len(t) < FieldSize
  BY ConstantFacts DEF Storable
<1>2. Smaller(Len(t), FieldSize - 1) = Len(t)
  BY <1>1 DEF Smaller
<1>3. SubSeq(t, 1, Len(t)) = t
  OBVIOUS
<1>4. CString(t) = t
  BY CStringFacts DEF Storable
<1> QED BY <1>2, <1>3, <1>4 DEF Buffered

(* INPUT # takes the item and its delimiter, all of them.                   *)
LEMMA SpelledReads ==
    ASSUME NEW c \in Seq(Byte), NEW a, NEW b, NEW t \in Seq(Byte), Spelled(c, a, b, t)
    PROVE  /\ a \in 1..Len(c) /\ SkipBlank(c, a) = a
           /\ InputField(c, a).text = t /\ InputField(c, a).next = b
<1> DEFINE n == Len(c)
<1>1. n \in Nat /\ a \in 1..n /\ a \in Nat \ {0} /\ a + 1 \in Nat \ {0} /\ At(c, a) = c[a]
  BY DEF Spelled, At
<1>2. PICK q \in (a + 1)..n : Quoted(c, a, q, b, t) \/ Unquoted(c, a, q, b, t)
  BY DEF Spelled
<1>3. c[a] \notin Blank
  BY <1>2, BytesDiffer DEF Quoted, Unquoted
<1>4. SkipBlank(c, a) = a
  BY <1>1, <1>3, NothingToSkip
<1>7. Buffered(t) = t
  BY BufferedWhole DEF Spelled
<1>5. CASE Quoted(c, a, q, b, t)
  <2> DEFINE stop == Find(c, a + 1, {Quote})
             far == At(c, stop + 1) = CR
  <2>1. stop = q
    <3>1. c[q] \in {Quote} /\ \A j \in (a + 1)..(q - 1) : c[j] \notin {Quote}
      BY <1>5 DEF Quoted
    <3> QED BY <1>1, <1>2, <3>1, FindIs
  <2>2. At(c, a) = Quote
    BY <1>1, <1>5 DEF Quoted
  <2>3. InputField(c, a) = [text |-> Buffered(SubSeq(c, a + 1, stop - 1)),
                            next |-> Smaller(IF far THEN stop + 3 ELSE stop + 2, n + 1)]
    <3>1. stop \in Int
      BY <1>1, <1>2, <2>1
    <3> HIDE DEF stop
    <3>2. stop + 1 + 2 = stop + 3 /\ stop + 1 + 1 = stop + 2
      BY <3>1
    <3> QED BY <2>2, <3>2 DEF InputField, stop
  <2> HIDE DEF stop
  <2>4. q + 1 \in 1..n /\ At(c, q + 1) = c[q + 1]
    BY <1>5 DEF Quoted, Delimited, At
  <2>5. IF far THEN b = q + 3 /\ q + 1 < n ELSE b = q + 2
    <3>1. c[q + 1] = Comma => b = q + 2
      BY <1>1, <1>2, <1>5, BytesDiffer DEF Quoted, Delimited
    <3>2. c[q + 1] = CR => b = q + 3 /\ q + 1 < n
      BY <1>1, <1>2, <1>5, BytesDiffer DEF Quoted, Delimited
    <3>3. c[q + 1] \in {Comma, CR}
      BY <1>5 DEF Quoted, Delimited
    <3> QED BY <2>1, <2>4, <3>1, <3>2, <3>3
  <2> HIDE DEF far
  <2>6. Smaller(IF far THEN q + 3 ELSE q + 2, n + 1) = b
    BY <1>1, <1>2, <2>4, <2>5 DEF Smaller
  <2> QED BY <1>1, <1>4, <1>5, <1>7, <2>1, <2>3, <2>6 DEF Quoted
<1>6. CASE Unquoted(c, a, q, b, t)
  <2> DEFINE stop == Find(c, a + 1, {Comma, CR, LF})
             far == At(c, stop) = CR /\ At(c, stop + 1) = LF
  <2>0. q \in 1..n /\ At(c, q) = c[q] /\ c[q] \in {Comma, CR, LF}
    BY <1>6 DEF Unquoted, Delimited, At
  <2>1. stop = q
    BY <1>1, <1>2, <1>6, <2>0, FindIs DEF Unquoted
  <2>2. At(c, a) # Quote
    BY <1>1, <1>6 DEF Unquoted
  <2>3. InputField(c, a) = [text |-> Buffered(SubSeq(c, a, stop - 1)),
                            next |-> Smaller(IF far THEN stop + 2 ELSE stop + 1, n + 1)]
    BY <2>2 DEF InputField
  <2> HIDE DEF stop
  <2>4. IF far THEN b = q + 2 /\ q < n ELSE b = q + 1
    <3>1. c[q] = Comma => b = q + 1
      BY <1>1, <1>2, <1>6, BytesDiffer DEF Unquoted, Delimited
    <3>2. c[q] = CR => b = q + 2 /\ q < n /\ c[q + 1] = LF /\ At(c, q + 1) = LF
      BY <1>1, <1>2, <1>6, BytesDiffer DEF Unquoted, Delimited, At
    <3>3. c[q] \in {Comma, CR}
      BY <1>6 DEF Unquoted, Delimited
    <3> QED BY <2>0, <2>1, <3>1, <3>2, <3>3, BytesDiffer
  <2> HIDE DEF far
  <2>5. Smaller(IF far THEN q + 2 ELSE q + 1, n + 1) = b
    BY <1>1, <1>2, <2>0, <2>4 DEF Smaller
  <2> QED BY <1>1, <1>4, <1>6, <1>7, <2>1, <2>3, <2>5 DEF Unquoted
<1> QED BY <1>2, <1>5, <1>6

(* And it does so as well when more follows.                                *)
LEMMA SpelledStays ==
    ASSUME NEW c \in Seq(Byte), NEW e \in Seq(Byte), NEW a, NEW b, NEW t, Spelled(c, a, b, t)
    PROVE  Spelled(c \o e, a, b, t)
<1> DEFINE w == c \o e
<1>1. /\ w \in Seq(Byte) /\ Len(c) \in Nat /\ Len(w) \in Nat /\ Len(c) <= Len(w)
      /\ \A j \in 1..Len(c) : w[j] = c[j]
  OBVIOUS
<1>2. ASSUME NEW i \in 1..Len(c), NEW j \in 0..(Len(c) - 1) PROVE SubSeq(w, i, j) = SubSeq(c, i, j)
  <2>1. \A m \in 1..(j - i + 1) : m + i - 1 \in 1..Len(c)
    BY <1>1
  <2>2. \A m \in 1..(j - i + 1) : w[i + m - 1] = c[i + m - 1]
    BY <1>1
  <2> HIDE DEF w
  <2> QED BY <1>1, <2>1, <2>2
<1> HIDE DEF w
<1>3. a \in 1..Len(c) /\ a \in 1..Len(w)
  BY <1>1 DEF Spelled
<1>9. Storable(t)
  BY DEF Spelled
<1>4. PICK q \in (a + 1)..Len(c) : Quoted(c, a, q, b, t) \/ Unquoted(c, a, q, b, t)
  BY DEF Spelled
<1>5. q \in (a + 1)..Len(w) /\ q \in 1..Len(c)
  BY <1>1, <1>3, <1>4
<1>6. ASSUME NEW d, Delimited(c, d, b) PROVE Delimited(w, d, b)
  <2>1. d \in 1..Len(c) /\ d \in 1..Len(w) /\ w[d] = c[d]
    BY <1>1, <1>6 DEF Delimited
  <2>2. CASE c[d] = Comma /\ b = d + 1
    BY <2>1, <2>2 DEF Delimited
  <2>3. CASE c[d] = CR /\ d < Len(c) /\ c[d + 1] = LF /\ b = d + 2
    <3>1. d + 1 \in 1..Len(c) /\ d < Len(w)
      BY <1>1, <2>1, <2>3
    <3>2. w[d + 1] = LF
      BY <1>1, <2>3, <3>1
    <3> QED BY <2>1, <2>3, <3>1, <3>2 DEF Delimited
  <2> QED BY <1>6, <2>2, <2>3 DEF Delimited
<1>7. CASE Quoted(c, a, q, b, t)
  <2>1. a + 1 \in 1..Len(c) /\ q - 1 \in 0..(Len(c) - 1)
    BY <1>1, <1>3, <1>4
  <2>2. \A j \in (a + 1)..(q - 1) : j \in 1..Len(c)
    BY <1>1, <1>3, <1>4
  <2>3. Quoted(w, a, q, b, t)
    BY <1>1, <1>2, <1>3, <1>5, <1>6, <1>7, <2>1, <2>2 DEF Quoted
  <2> QED BY <1>3, <1>5, <1>9, <2>3 DEF Spelled, w
<1>8. CASE Unquoted(c, a, q, b, t)
  <2>1. q - 1 \in 0..(Len(c) - 1)
    BY <1>1, <1>3, <1>4
  <2>2. \A j \in (a + 1)..(q - 1) : j \in 1..Len(c)
    BY <1>1, <1>3, <1>4
  <2>3. Unquoted(w, a, q, b, t)
    BY <1>1, <1>2, <1>3, <1>5, <1>6, <1>8, <2>1, <2>2 DEF Unquoted
  <2> QED BY <1>3, <1>5, <1>9, <2>3 DEF Spelled, w
<1> QED BY <1>4, <1>7, <1>8

Delimiters == {<<Comma>>, <<CR, LF>>}
AsWritten(string, t) == IF string THEN <<Quote>> \o t \o <<Quote>> ELSE t

LEMMA Joined ==
    ASSUME NEW a \in Seq(Byte), NEW b \in Seq(Byte)
    PROVE  /\ a \o b \in Seq(Byte) /\ Len(a \o b) = Len(a) + Len(b)
           /\ \A j \in 1..Len(a) : (a \o b)[j] = a[j]
           /\ \A j \in 1..Len(b) : (a \o b)[Len(a) + j] = b[j]
  OBVIOUS

LEMMA SubSeqIs ==
    ASSUME NEW w \in Seq(Byte), NEW t \in Seq(Byte), NEW n \in Nat, n + Len(t) <= Len(w),
           \A j \in 1..Len(t) : w[n + j] = t[j]
    PROVE  SubSeq(w, n + 1, n + Len(t)) = t
<1> DEFINE k == Len(t)
           s == SubSeq(w, n + 1, n + k)
<1>1. k \in Nat /\ Len(w) \in Nat
  OBVIOUS
<1> HIDE DEF k
<1>2. \A j \in (n + 1)..(n + k) : j \in 1..Len(w)
  BY <1>1 DEF k
<1>3. (n + k) - (n + 1) + 1 = k /\ \A j \in 1..k : n + 1 + j - 1 = n + j
  BY <1>1
<1>4. s \in Seq(Byte)
  BY <1>1, <1>2
<1>5. Len(s) = k /\ \A j \in 1..k : s[j] = w[n + j]
  BY <1>1, <1>3
<1> HIDE DEF s
<1>6. s = t
  BY <1>4, <1>5, SeqEqual DEF k
<1> QED BY <1>6 DEF s, k

(* An item as WRITE # writes it, with the delimiter last.                   *)
LEMMA SpelledNew ==
    ASSUME NEW c \in Seq(Byte), NEW string \in BOOLEAN, NEW t \in Seq(Byte),
           NEW last \in Delimiters,
           NEW s \in Seq(Byte), s = AsWritten(string, t),
           PlainItem([string |-> string, text |-> t])
    PROVE  /\ c \o (s \o last) \in Seq(Byte)
           /\ Spelled(c \o (s \o last), Len(c) + 1, Len(c \o (s \o last)) + 1, t)
<1> DEFINE w == c \o (s \o last)
           n == Len(c)
           m == n + Len(s)
<1>1. last \in Seq(Byte) /\ Len(last) \in Nat \ {0} /\ n \in Nat /\ Len(s) \in Nat /\ Len(t) \in Nat
  <2>1. <<Comma>> \in Seq(Byte) /\ <<CR, LF>> \in Seq(Byte)
    BY ConstantFacts
  <2>2. <<Comma>> # <<>> /\ <<CR, LF>> # <<>>
    OBVIOUS
  <2>3. last \in Seq(Byte) /\ last # <<>>
    BY <2>1, <2>2, Zenon DEF Delimiters
  <2> QED BY <2>3, EmptySeq
<1>2. /\ w \in Seq(Byte) /\ Len(w) = m + Len(last)
      /\ \A j \in 1..Len(s) : w[n + j] = s[j]
      /\ \A j \in 1..Len(last) : w[m + j] = last[j]
  <2> DEFINE e == s \o last
  <2>1. /\ e \in Seq(Byte) /\ Len(e) = Len(s) + Len(last)
        /\ \A j \in 1..Len(s) : e[j] = s[j]
        /\ \A j \in 1..Len(last) : e[Len(s) + j] = last[j]
    BY <1>1, Joined
  <2> HIDE DEF e
  <2>2. c \o e \in Seq(Byte) /\ Len(c \o e) = n + Len(e) /\ \A j \in 1..Len(e) : (c \o e)[n + j] = e[j]
    BY <2>1, Joined
  <2>3. \A j \in 1..Len(s) : j \in 1..Len(e)
    BY <1>1, <2>1
  <2>4. \A j \in 1..Len(last) : Len(s) + j \in 1..Len(e) /\ n + (Len(s) + j) = m + j
    BY <1>1, <2>1
  <2>5. \A j \in 1..Len(last) : (c \o e)[m + j] = last[j]
    BY <2>1, <2>2, <2>4
  <2>6. Len(c \o e) = m + Len(last)
    BY <1>1, <2>1, <2>2
  <2> QED BY <2>1, <2>2, <2>3, <2>5, <2>6 DEF e
<1> HIDE DEF w
<1>3. Delimited(w, m + 1, Len(w) + 1)
  <2>1. CASE last = <<Comma>>
    <3>1. Len(last) = 1 /\ last[1] = Comma
      BY <2>1
    <3> QED BY <1>1, <1>2, <3>1 DEF Delimited
  <2>2. CASE last = <<CR, LF>>
    <3>1. Len(last) = 2 /\ last[1] = CR /\ last[2] = LF
      BY <2>2
    <3>2. Len(w) = m + 2 /\ w[m + 1] = CR /\ w[m + 2] = LF
      BY <1>2, <3>1
    <3> QED BY <1>1, <3>2 DEF Delimited
  <2> QED BY <2>1, <2>2 DEF Delimiters
<1>6. Storable(t)
  BY DEF PlainItem
<1>4. CASE string
  <2> DEFINE q == n + Len(t) + 2
  <2>1. /\ Len(s) = Len(t) + 2 /\ s[1] = Quote /\ s[Len(t) + 2] = Quote
        /\ \A j \in 1..Len(t) : s[1 + j] = t[j]
    <3>1. Quote \in Byte /\ s = <<Quote>> \o t \o <<Quote>>
      BY <1>4, ConstantFacts DEF AsWritten
    <3> QED BY <1>1, <3>1
  <2>2. m = q /\ n + 1 \in 1..Len(w) /\ q \in (n + 2)..Len(w)
    BY <1>1, <1>2, <2>1
  <2>3. w[n + 1] = Quote /\ w[q] = Quote
    <3>1. 1 \in 1..Len(s) /\ Len(t) + 2 \in 1..Len(s) /\ n + (Len(t) + 2) = q
      BY <1>1, <2>1
    <3> QED BY <1>2, <2>1, <3>1
  <2>4. \A j \in 1..Len(t) : w[n + 1 + j] = t[j]
    <3>1. \A j \in 1..Len(t) : 1 + j \in 1..Len(s) /\ n + (1 + j) = n + 1 + j
      BY <1>1, <2>1
    <3> QED BY <1>2, <2>1, <3>1
  <2>5. \A j \in (n + 2)..(q - 1) : w[j] # Quote
    <3>1. \A j \in (n + 2)..(q - 1) : j - n - 1 \in 1..Len(t) /\ n + 1 + (j - n - 1) = j
      BY <1>1
    <3>2. \A j \in 1..Len(t) : t[j] # Quote
      BY <1>4 DEF PlainItem
    <3> QED BY <2>4, <3>1, <3>2
  <2>6. t = SubSeq(w, n + 2, q - 1)
    <3>1. n + 1 \in Nat /\ (n + 1) + 1 = n + 2 /\ (n + 1) + Len(t) = q - 1
          /\ n + 1 + Len(t) <= Len(w)
      BY <1>1, <1>2, <2>1
    <3> QED BY <1>2, <2>4, <3>1, SubSeqIs, SMTT(30)
  <2>7. n + 1 + 1 = n + 2
    BY <1>1
  <2>8. Quoted(w, n + 1, q, Len(w) + 1, t)
    BY <1>3, <2>2, <2>3, <2>5, <2>6, <2>7 DEF Quoted
  <2>9. Spelled(w, n + 1, Len(w) + 1, t)
    BY <1>6, <2>2, <2>7, <2>8 DEF Spelled
  <2> QED BY <1>2, <2>9 DEF w
<1>5. CASE ~string
  <2> DEFINE q == n + Len(t) + 1
  <2>1. s = t /\ Len(t) >= 1 /\ \A j \in 1..Len(t) : t[j] \notin {Quote, Comma, Space, CR, LF}
    <3>1. t # <<>> /\ \A j \in 1..Len(t) : t[j] \notin {Quote, Comma, Space, CR, LF}
      BY <1>5 DEF PlainItem
    <3> QED BY <1>1, <1>5, <3>1, EmptySeq DEF AsWritten
  <2>2. m + 1 = q /\ n + 1 \in 1..Len(w) /\ q \in (n + 2)..Len(w)
    <3>1. Len(s) = Len(t)
      BY <2>1
    <3> QED BY <1>1, <1>2, <2>1, <3>1
  <2>3. \A j \in 1..Len(t) : w[n + j] = t[j]
    BY <1>2, <2>1
  <2>4. \A j \in (n + 1)..(q - 1) : w[j] \notin {Quote, Comma, Space, CR, LF}
    <3>1. \A j \in (n + 1)..(q - 1) : j - n \in 1..Len(t) /\ n + (j - n) = j
      BY <1>1
    <3> QED BY <2>1, <2>3, <3>1
  <2>5. w[n + 1] \notin Blank \cup {Quote}
    <3>1. n + 1 \in (n + 1)..(q - 1)
      BY <1>1, <2>1
    <3> QED BY <2>4, <3>1, BytesDiffer
  <2>6. \A j \in (n + 2)..(q - 1) : w[j] \notin {Comma, CR, LF}
    BY <1>1, <2>4
  <2>7. t = SubSeq(w, n + 1, q - 1)
    <3>1. n + Len(t) = q - 1 /\ n + Len(t) <= Len(w)
      BY <1>1, <1>2, <2>1
    <3> QED BY <1>1, <1>2, <2>3, <3>1, SubSeqIs
  <2>8. n + 1 + 1 = n + 2
    BY <1>1
  <2>9. Unquoted(w, n + 1, q, Len(w) + 1, t)
    BY <1>3, <2>2, <2>5, <2>6, <2>7, <2>8 DEF Unquoted
  <2>10. Spelled(w, n + 1, Len(w) + 1, t)
    BY <1>6, <2>2, <2>8, <2>9 DEF Spelled
  <2> QED BY <1>2, <2>10 DEF w
<1> QED BY <1>4, <1>5

(* A file of items and one item more.                                       *)
LEMMA ParsedMore ==
    ASSUME NEW c \in Seq(Byte), NEW ts \in Seq(Seq(Byte)), IsParsed(c, ts),
           NEW e \in Seq(Byte), NEW t \in Seq(Byte), c \o e \in Seq(Byte),
           Spelled(c \o e, Len(c) + 1, Len(c \o e) + 1, t)
    PROVE  IsParsed(c \o e, ts \o <<t>>)
<1> DEFINE w == c \o e
           us == ts \o <<t>>
           k == Len(ts)
<1>1. k \in Nat /\ Len(c) \in Nat /\ Len(w) \in Nat
  OBVIOUS
<1>2. us \in Seq(Seq(Byte)) /\ Len(us) = k + 1 /\ us[k + 1] = t /\ \A i \in 1..k : us[i] = ts[i]
  OBVIOUS
<1>3. PICK P \in [0..k -> Nat \ {0}] : Parsed(c, ts, P)
  BY DEF IsParsed
<1> DEFINE R == [i \in 0..(k + 1) |-> IF i = k + 1 THEN Len(w) + 1 ELSE P[i]]
<1> HIDE DEF w, us
<1>4. /\ R \in [0..Len(us) -> Nat \ {0}] /\ R[0] = 1 /\ R[Len(us)] = Len(w) + 1
      /\ R[k] = Len(c) + 1 /\ \A i \in 0..k : R[i] = P[i]
  BY <1>1, <1>2, <1>3 DEF Parsed
<1> HIDE DEF R
<1>5. ASSUME NEW i \in 1..Len(us) PROVE Spelled(w, R[i - 1], R[i], us[i])
  <2>1. CASE i = k + 1
    <3>1. i - 1 = k
      BY <1>1, <2>1
    <3> QED BY <1>2, <1>4, <2>1, <3>1 DEF w
  <2>2. CASE i # k + 1
    <3>1. i \in 1..k /\ i - 1 \in 0..k /\ i \in 0..k
      BY <1>1, <1>2, <2>2
    <3>2. Spelled(c, P[i - 1], P[i], ts[i])
      BY <1>3, <3>1 DEF Parsed
    <3>3. Spelled(w, P[i - 1], P[i], ts[i])
      BY <3>2, SpelledStays DEF w
    <3> QED BY <1>2, <1>4, <3>1, <3>3
  <2> QED BY <2>1, <2>2
<1>6. Parsed(w, us, R)
  BY <1>4, <1>5 DEF Parsed
<1> QED BY <1>4, <1>6 DEF IsParsed, w, us

(* What INPUT # finds after the first k items.                              *)
LEMMA NextItem ==
    ASSUME NEW c \in Seq(Byte), NEW ts \in Seq(Seq(Byte)), NEW P, Parsed(c, ts, P),
           NEW k \in 0..Len(ts)
    PROVE  /\ SkipBlank(c, P[k]) = P[k]
           /\ k < Len(ts) => /\ P[k] <= Len(c) /\ InputField(c, P[k]).text = ts[k + 1]
                             /\ InputField(c, P[k]).next = P[k + 1]
           /\ k = Len(ts) => P[k] = Len(c) + 1
<1>1. Len(ts) \in Nat /\ Len(c) \in Nat
  OBVIOUS
<1>2. CASE k = Len(ts)
  <2>1. P[k] = Len(c) + 1
    BY <1>2 DEF Parsed
  <2>2. SkipBlank(c, Len(c) + 1) = Len(c) + 1
    <3> DEFINE a == Len(c) + 1
    <3>1. a \in Nat \ {0} /\ a <= Len(c) + 1 /\ ~(a <= Len(c))
      BY <1>1
    <3> HIDE DEF a
    <3>2. SkipBlank(c, a) = a
      BY <3>1, NothingToSkip
    <3> QED BY <3>2 DEF a
  <2> QED BY <1>1, <1>2, <2>1, <2>2
<1>3. CASE k < Len(ts)
  <2>1. k + 1 \in 1..Len(ts) /\ (k + 1) - 1 = k
    BY <1>1, <1>3
  <2>2. Spelled(c, P[k], P[k + 1], ts[k + 1])
    BY <2>1 DEF Parsed
  <2>3. ts[k + 1] \in Seq(Byte)
    <3> DEFINE Texts == Seq(Byte)
    <3>1. ts \in Seq(Texts)
      OBVIOUS
    <3> HIDE DEF Texts
    <3>2. ts[k + 1] \in Texts
      BY <2>1, <3>1
    <3> QED BY <3>2 DEF Texts
  <2>4. /\ P[k] \in 1..Len(c) /\ SkipBlank(c, P[k]) = P[k]
        /\ InputField(c, P[k]).text = ts[k + 1] /\ InputField(c, P[k]).next = P[k + 1]
    BY <2>2, <2>3, SpelledReads
  <2> QED BY <1>1, <1>3, <2>4
<1> QED BY <1>1, <1>2, <1>3

LEMMA Regroup ==
    ASSUME NEW ts \in Seq(Seq(Byte)), NEW us \in Seq(Seq(Byte)), NEW t \in Seq(Byte)
    PROVE  ts \o us \in Seq(Seq(Byte)) /\ ts \o (us \o <<t>>) = (ts \o us) \o <<t>>
<1> DEFINE Texts == Seq(Byte)
           u == <<t>>
<1>1. ts \in Seq(Texts) /\ us \in Seq(Texts) /\ u \in Seq(Texts)
  OBVIOUS
<1> HIDE DEF Texts, u
<1>2. ts \o (us \o u) = (ts \o us) \o u
  BY <1>1
<1>3. ts \o us \in Seq(Texts)
  BY <1>1
<1> QED BY <1>2, <1>3 DEF Texts, u

LEMMA GivenGrows ==
    ASSUME NEW line, NEW i \in Nat \ {0}, NEW ts \in Seq(Seq(Byte)),
           \A j \in 1..i : line.items[j].text \in Seq(Byte)
    PROVE  /\ ts \o Given(line, i - 1) \in Seq(Seq(Byte))
           /\ ts \o Given(line, i) = (ts \o Given(line, i - 1)) \o <<line.items[i].text>>
<1> DEFINE t(j) == line.items[j].text
           a == [j \in 1..i |-> t(j)]
           b == [j \in 1..(i - 1) |-> t(j)]
<1>1. i - 1 \in Nat /\ i \in Nat /\ i \in 1..i /\ \A j \in 1..(i - 1) : j \in 1..i
  OBVIOUS
<1>2. Given(line, i) = a /\ Given(line, i - 1) = b
  BY DEF Given
<1> HIDE DEF t
<1>3. \A j \in 1..i : t(j) \in Seq(Byte)
  BY DEF t
<1>4. a \in Seq(Seq(Byte)) /\ Len(a) = i /\ b \in Seq(Seq(Byte)) /\ Len(b) = i - 1
  BY <1>1, <1>3
<1>5. \A j \in 1..i : a[j] = t(j) /\ \A m \in 1..(i - 1) : b[m] = t(m)
  OBVIOUS
<1> HIDE DEF a, b
<1>6. t(i) \in Seq(Byte)
  BY <1>1, <1>3
<1>7. /\ b \o <<t(i)>> \in Seq(Seq(Byte)) /\ Len(b \o <<t(i)>>) = i
      /\ \A j \in 1..(i - 1) : (b \o <<t(i)>>)[j] = b[j]
      /\ (b \o <<t(i)>>)[i] = t(i)
  BY <1>1, <1>4, <1>6
<1>8. \A j \in 1..i : (b \o <<t(i)>>)[j] = a[j]
  <2>1. \A j \in 1..i : j = i \/ j \in 1..(i - 1)
    OBVIOUS
  <2> QED BY <1>1, <1>5, <1>7, <2>1
<1>9. a = b \o <<t(i)>>
  BY <1>4, <1>7, <1>8, SeqEqual
<1>10. ts \o b \in Seq(Seq(Byte)) /\ ts \o (b \o <<t(i)>>) = (ts \o b) \o <<t(i)>>
  BY <1>4, <1>6, Regroup
<1> QED BY <1>2, <1>9, <1>10 DEF t

LEMMA LineShown ==
    ASSUME TypeInv, NEW line \in program.lines, NEW i \in 1..Len(line.items)
    PROVE  Shown(line.write, line.items[i]) \in Seq(Byte)
<1> DEFINE item == line.items[i]
<1>1. item.string \in BOOLEAN /\ item.text \in Seq(Byte) /\ line.write \in BOOLEAN
  BY LineFacts
<1> HIDE DEF item
<1>2. Shown(line.write, item) \in Seq(Byte)
  BY <1>1, ShownTyped
<1> QED BY <1>2 DEF item

LEMMA ItemParsed ==
    ASSUME NEW c \in Seq(Byte), NEW b \in Seq(Byte), NEW us \in Seq(Seq(Byte)), IsParsed(c \o b, us),
           NEW string \in BOOLEAN, NEW t \in Seq(Byte), PlainItem([string |-> string, text |-> t]),
           NEW s \in Seq(Byte), s = AsWritten(string, t),
           NEW d \in Seq(Byte), d \in Delimiters
    PROVE  IsParsed(c \o ((b \o s) \o d), us \o <<t>>)
<1> DEFINE w == c \o b
           e == s \o d
<1>1. c \o ((b \o s) \o d) = w \o e
  BY SMTT(60)
<1>2. w \in Seq(Byte) /\ e \in Seq(Byte)
  OBVIOUS
<1>3. IsParsed(w, us)
  OBVIOUS
<1> HIDE DEF w
<1>4. w \o e \in Seq(Byte) /\ Spelled(w \o e, Len(w) + 1, Len(w \o e) + 1, t)
  BY <1>2, SpelledNew
<1> HIDE DEF e
<1>5. IsParsed(w \o e, us \o <<t>>)
  BY <1>2, <1>3, <1>4, ParsedMore
<1> QED BY <1>1, <1>5

(* A file of items, and a line of WRITE # or the beginning of one.          *)
LEMMA ParsedLine ==
    ASSUME TypeInv, ItemsPlain, NEW line \in program.lines, line.write,
           NEW k \in 1..Len(line.items), NEW last \in Delimiters,
           NEW c \in Seq(Byte), NEW ts \in Seq(Seq(Byte)), IsParsed(c, ts)
    PROVE  IsParsed(c \o (Items(line, k) \o last), ts \o Given(line, k))
<1>0. /\ Len(line.items) \in Nat /\ k \in Nat /\ k \in 1..k
      /\ \A i \in 1..k : /\ line.items[i].string \in BOOLEAN /\ line.items[i].text \in Seq(Byte)
                         /\ PlainItem(line.items[i])
  BY LineFacts, ProgramFacts DEF ItemsPlain
<1>1. PICK stage : WrittenBy(stage, line, k) /\ Items(line, k) = stage[k]
  BY <1>0, ItemsUnfold
<1> DEFINE Before(i) == IF i = 0 THEN <<>> ELSE stage[i] \o <<Comma>>
           T == {i \in 0..k : /\ Before(i) \in Seq(Byte)
                              /\ IsParsed(c \o Before(i), ts \o Given(line, i))}
<1>2. 0 \in T
  <2>1. c \o <<>> = c /\ ts \o <<>> = ts /\ <<>> \in Seq(Byte)
    BY ConcatEmptySeq, EmptySeq
  <2>2. Given(line, 0) = <<>> /\ 0 \in 0..k
    BY <1>0 DEF Given
  <2> QED BY <2>1, <2>2
<1>3. ASSUME NEW i \in 1..k, i - 1 \in T, NEW d \in Delimiters
      PROVE  stage[i] \in Seq(Byte) /\ IsParsed(c \o (stage[i] \o d), ts \o Given(line, i))
  <2> DEFINE string == line.items[i].string
             t == line.items[i].text
             s == Shown(line.write, line.items[i])
             b == Before(i - 1)
             us == ts \o Given(line, i - 1)
  <2>1. /\ string \in BOOLEAN /\ t \in Seq(Byte)
        /\ PlainItem([string |-> string, text |-> t])
    <3>1. PlainItem(line.items[i])
      BY <1>0
    <3>2. PlainItem([string |-> string, text |-> t])
      BY <3>1 DEF PlainItem
    <3> QED BY <1>0, <3>2
  <2>2. s \in Seq(Byte)
    <3>1. i \in 1..Len(line.items)
      BY <1>0
    <3> QED BY <3>1, LineShown
  <2>3. s = AsWritten(string, t)
    <3>1. CString(t) = t
      BY <2>1, CStringFacts DEF PlainItem, Storable
    <3> QED BY <3>1 DEF Shown, AsWritten
  <2>4. b \in Seq(Byte) /\ IsParsed(c \o b, us)
    BY <1>3
  <2>5. stage[i] = b \o s
    <3>1. stage[i] = stage[i - 1] \o Separator(line, i) \o s
      BY <1>1 DEF WrittenBy
    <3>2. CASE i = 1
      <4>1. i - 1 = 0
        BY <3>2
      <4>2. stage[i - 1] = <<>> /\ Separator(line, i) = <<>>
        BY <1>1, <3>2, <4>1 DEF WrittenBy, Separator
      <4>3. <<>> \o <<>> = <<>>
        BY EmptySeq, ConcatEmptySeq
      <4>4. b = <<>>
        BY <4>1
      <4> HIDE DEF b, s
      <4> QED BY <3>1, <4>2, <4>3, <4>4
    <3>3. CASE i # 1
      <4>1. i > 1 /\ i - 1 # 0
        BY <1>0, <3>3
      <4>2. Separator(line, i) = <<Comma>>
        BY <4>1 DEF Separator
      <4> QED BY <3>1, <4>1, <4>2
    <3> QED BY <3>2, <3>3
  <2>6. /\ us \in Seq(Seq(Byte)) /\ ts \o Given(line, i) = us \o <<t>>
    <3>1. i \in Nat \ {0} /\ \A j \in 1..i : line.items[j].text \in Seq(Byte)
      BY <1>0
    <3> QED BY <3>1, GivenGrows
  <2>7. d \in Seq(Byte)
    <3>1. <<Comma>> \in Seq(Byte) /\ <<CR, LF>> \in Seq(Byte)
      BY ConstantFacts
    <3> QED BY <3>1, Zenon DEF Delimiters
  <2> HIDE DEF Before, T, string, t, s, us
  <2> HIDE DEF b
  <2>8. IsParsed(c \o ((b \o s) \o d), us \o <<t>>)
    BY <2>1, <2>2, <2>3, <2>4, <2>6, <2>7, ItemParsed
  <2>9. stage[i] \in Seq(Byte)
    BY <2>2, <2>4, <2>5
  <2> QED BY <2>5, <2>6, <2>8, <2>9
<1>4. ASSUME NEW i \in 1..k, i - 1 \in T PROVE i \in T
  <2>1. stage[i] \in Seq(Byte) /\ IsParsed(c \o (stage[i] \o <<Comma>>), ts \o Given(line, i))
    BY <1>3, <1>4 DEF Delimiters
  <2>2. stage[i] \o <<Comma>> \in Seq(Byte)
    BY <2>1, ConstantFacts
  <2>3. i # 0 /\ i \in 0..k
    BY <1>0
  <2> QED BY <2>1, <2>2, <2>3
<1> HIDE DEF T
<1>5. 0..k \subseteq T
  BY <1>0, <1>2, <1>4, UpTo
<1>6. k - 1 \in 0..k
  BY <1>0
<1>7. k - 1 \in T
  BY <1>5, <1>6
<1>8. IsParsed(c \o (stage[k] \o last), ts \o Given(line, k))
  BY <1>0, <1>3, <1>7
<1> QED BY <1>1, <1>8

--------------------------------------------------------------------------------
(* Files of WRITE #: one lemma for each kind of step.                       *)

LEMMA LogParts ==
    ASSUME TypeInv, Logged, NEW f \in plain
    PROVE  /\ f \in FileNames /\ fields[f] \in Seq(Seq(Byte)) /\ disk[f] \in Seq(Byte)
           /\ OpenOn(f) = {} => IsParsed(disk[f], fields[f])
           /\ \A n \in OpenOn(f) : n \in Nums /\ IsOpen(n) /\ files[n].file = f
                                   /\ Logs(files[n], disk[f], fields[f], taken[n])
<1>1. f \in FileNames /\ fields[f] \in Seq(Seq(Byte)) /\ disk[f] \in Seq(Byte)
  BY DEF TypeInv, TypeOK
<1>2. \A n \in OpenOn(f) : n \in Nums /\ IsOpen(n) /\ files[n].file = f
  BY DEF OpenOn, IsOpen
<1> QED BY <1>1, <1>2 DEF Logged

(* The statements that touch neither files nor what is said about them.     *)
LEMMA LogSame ==
    ASSUME Logged, UNCHANGED <<disk, files, plain, fields, taken>>
    PROVE  Logged'
  BY DEF Logged, OpenOn

LEMMA LogStep ==
    ASSUME ~Sharing, TypeInv, Logged, NEW n \in Nums, IsOpen(n), NEW h, NEW d,
           HandleStep(n, h, d), plain' \subseteq plain,
           \A g \in FileNames : g # files[n].file => fields'[g] = fields[g],
           \A m \in Nums : m # n => taken'[m] = taken[m],
           files[n].file \in plain' => Logs(h, d, fields'[files[n].file], taken'[n])
    PROVE  Logged'
<1> DEFINE f == files[n].file
<1>1. /\ files' = [files EXCEPT ![n] = h] /\ disk' = [disk EXCEPT ![f] = d]
      /\ files \in [Nums -> Handles] /\ disk \in [FileNames -> Seq(Byte)] /\ f \in FileNames
  BY OpenFacts DEF HandleStep, TypeInv, TypeOK
<1>2. \A g : OpenOn(g)' = OpenOn(g)
  BY HandleStepKeeps
<1>3. OpenOn(f) = {n}
  BY OnlyHandle
<1> SUFFICES ASSUME NEW g \in plain'
             PROVE  /\ OpenOn(g) = {} => IsParsed(disk'[g], fields'[g])
                    /\ \A m \in OpenOn(g) : Logs(files'[m], disk'[g], fields'[g], taken'[m])
  BY <1>2 DEF Logged
<1>4. CASE g = f
  BY <1>1, <1>3, <1>4
<1>5. CASE g # f
  <2>1. g \in plain
    OBVIOUS
  <2>2. /\ g \in FileNames /\ (OpenOn(g) = {} => IsParsed(disk[g], fields[g]))
        /\ \A m \in OpenOn(g) : m \in Nums /\ files[m].file = g
                                /\ Logs(files[m], disk[g], fields[g], taken[m])
    BY <2>1, LogParts
  <2>3. disk'[g] = disk[g] /\ fields'[g] = fields[g]
    BY <1>1, <1>5, <2>2
  <2>4. \A m \in OpenOn(g) : files'[m] = files[m] /\ taken'[m] = taken[m]
    <3>1. \A m \in OpenOn(g) : m \in Nums /\ m # n
      BY <1>5, <2>2
    <3> QED BY <1>1, <3>1
  <2> QED BY <2>2, <2>3, <2>4
<1> QED BY <1>4, <1>5

(* A statement after which the file does not count any more.                *)
LEMMA LogSpoil ==
    ASSUME ~Sharing, TypeInv, Logged, NEW n \in Nums, IsOpen(n), NEW h, NEW d,
           HandleStep(n, h, d), Spoil(files[n].file), \A m \in Nums : m # n => taken'[m] = taken[m]
    PROVE  Logged'
<1>1. plain' \subseteq plain /\ files[n].file \notin plain'
  BY DEF Spoil
<1>2. \A g \in FileNames : g # files[n].file => fields'[g] = fields[g]
  BY DEF Spoil, TypeInv, TypeOK
<1> QED BY <1>1, <1>2, LogStep

(* What a flush makes of such a file.                                       *)
LEMMA FlushLogs ==
    ASSUME TypeInv, Logged, NEW n \in Nums, IsOpen(n), files[n].file \in plain
    PROVE  /\ Flushed({n})[files[n].file] = disk[files[n].file] \o files[n].pend
           /\ files[n].mode \notin Writers =>
                 files[n].pend = <<>> /\ Flushed({n})[files[n].file] = disk[files[n].file]
                 /\ Here(n) = files[n].pos
           /\ files[n].mode = "output" => Here(n) = Len(Flushed({n})[files[n].file]) + 1
<1> DEFINE h == files[n]
           d == disk[h.file]
           now == Flushed({n})[h.file]
<1>1. /\ h.pend \in Seq(Byte) /\ d \in Seq(Byte) /\ n \in OpenOn(h.file) /\ h.mode \in Modes
  BY OpenFacts
<1>2. (h.mode \notin Writers => h.pend = <<>>) /\ (h.mode = "output" => h.pos = Len(d) + 1)
  BY <1>1, LogParts DEF Logs
<1>3. now = IF h.pend = <<>> THEN d ELSE Overwrite(d, PendAt(h), h.pend)
  BY FlushOne
<1>4. Here(n) = IF h.pend = <<>> THEN h.pos ELSE PendAt(h) + Len(h.pend)
  BY SyncFacts DEF Here
<1>5. h.pend # <<>> => PendAt(h) = Len(d) + 1
  BY <1>2 DEF PendAt, Writers
<1> HIDE DEF now, d
<1>6. CASE h.pend = <<>>
  <2>1. d \o h.pend = d
    BY <1>1, <1>6, ConcatEmptySeq
  <2> QED BY <1>2, <1>3, <1>4, <1>6, <2>1 DEF now, d
<1>7. CASE h.pend # <<>>
  <2> DEFINE p == h.pend
  <2>1. p \in Seq(Byte)
    BY <1>1
  <2> HIDE DEF p
  <2>2. Overwrite(d, Len(d) + 1, p) = d \o p
    BY <1>1, <2>1, OverwriteAppends
  <2>3. now = d \o p
    BY <1>3, <1>5, <1>7, <2>2 DEF p
  <2>4. Here(n) = Len(d) + 1 + Len(p)
    BY <1>4, <1>5, <1>7 DEF p
  <2>5. Len(now) = Len(d) + Len(p) /\ Len(d) \in Nat /\ Len(p) \in Nat
    BY <1>1, <2>1, <2>3
  <2>6. Here(n) = Len(now) + 1
    BY <2>4, <2>5
  <2> QED BY <1>2, <1>7, <2>3, <2>6 DEF now, d, p
<1> QED BY <1>6, <1>7

(* P says where the items of the file end, and n is where it should be.     *)
Reached(n, P) ==
    LET ts == fields[files[n].file] IN
    /\ Parsed(disk[files[n].file], ts, P)
    /\ taken[n] # Unknown => taken[n] <= Len(ts) /\ files[n].pos = P[taken[n]]

(* A flush, a move to h.pos, and k items read after that.                   *)
LEMMA LogMove ==
    ASSUME ~Sharing, TypeInv, Logged, NEW n \in Nums, IsOpen(n), NEW h, NEW k,
           h.pend = <<>>, files[n].mode = "output" => h.pos = Here(n),
           HandleStep(n, h, Flushed({n})[files[n].file]),
           UNCHANGED <<plain, fields>>, taken' = [taken EXCEPT ![n] = k],
           files[n].file \in plain /\ k # Unknown =>
              /\ files[n].mode = "input"
              /\ \A P : Reached(n, P) => k <= Len(fields[files[n].file]) /\ h.pos = P[k]
    PROVE  Logged'
<1> DEFINE f == files[n].file
           d == Flushed({n})[f]
           ts == fields[f]
<1>1. taken \in [Nums -> Nat \cup {Unknown}] /\ d \in Seq(Byte) /\ n \in OpenOn(f)
      /\ h.mode = files[n].mode
  BY OpenFacts, FlushedFacts DEF TypeInv, TypeOK, HandleStep
<1>2. taken'[n] = k /\ \A m \in Nums : m # n => taken'[m] = taken[m]
  BY <1>1
<1>3. ASSUME f \in plain PROVE Logs(h, d, ts, k)
  <2>1. Logs(files[n], disk[f], ts, taken[n])
    BY <1>1, <1>3, LogParts
  <2>2. /\ d = disk[f] \o files[n].pend
        /\ files[n].mode \notin Writers => d = disk[f]
        /\ files[n].mode = "output" => h.pos = Len(d) + 1
    BY <1>3, FlushLogs
  <2>3. PICK P \in [0..Len(ts) -> Nat \ {0}] :
           /\ Parsed(disk[f] \o files[n].pend, ts, P)
           /\ taken[n] # Unknown => taken[n] <= Len(ts) /\ files[n].pos = P[taken[n]]
    BY <2>1 DEF Logs
  <2>4. d \o h.pend = d
    BY <1>1, ConcatEmptySeq
  <2>5. k # Unknown => h.mode = "input" /\ k <= Len(ts) /\ h.pos = P[k]
    <3>1. CASE k # Unknown
      <4>1. files[n].mode = "input" /\ files[n].mode \notin Writers
        BY <1>3, <3>1 DEF Writers
      <4>2. Reached(n, P)
        BY <2>2, <2>3, <4>1 DEF Reached
      <4> QED BY <1>1, <1>3, <3>1, <4>1, <4>2
    <3> QED BY <3>1
  <2>6. Parsed(d \o h.pend, ts, P)
    BY <2>2, <2>3, <2>4
  <2> HIDE DEF d, ts
  <2> QED BY <1>1, <2>2, <2>5, <2>6 DEF Logs
<1>4. f \in plain' => Logs(h, d, fields'[f], taken'[n])
  BY <1>2, <1>3
<1> HIDE DEF d
<1> QED BY <1>2, <1>4, LogStep DEF d

LEMMA LogRead ==
    ASSUME ~Sharing, TypeInv, Logged, NEW n \in Nums, IsOpen(n), Readable(n),
           NEW view \in Views(n), NEW pos \in Nat \ {0}, NEW k, Read(n, view, pos),
           UNCHANGED <<program, dir, plain, fields>>, taken' = [taken EXCEPT ![n] = k],
           files[n].file \in plain /\ k # Unknown =>
              /\ files[n].mode = "input"
              /\ \A P : Reached(n, P) => k <= Len(fields[files[n].file]) /\ pos = P[k]
    PROVE  Logged'
<1> DEFINE d == Flushed({n})[files[n].file]
<1>1. PICK h : h.pos = pos /\ h.pend = <<>> /\ HandleStep(n, h, d)
  BY ReadStep
<1>2. files[n].mode # "output"
  BY DEF Readable
<1> QED BY <1>1, <1>2, LogMove

LEMMA LogInput ==
    ASSUME ~Sharing, TypeInv, CacheExact, Logged, NEW n, ExecInputFile(n),
           ~\E code \in {52, 62} : Fail(code)
    PROVE  Logged'
<1>1. n \in Nums /\ IsOpen(n) /\ Readable(n) /\ UNCHANGED <<program, dir, plain, fields>>
  BY InputReads
<1>2. PICK view \in Views(n), pos \in Nat \ {0} :
         /\ Read(n, view, pos)
         /\ IF SkipBlank(view, Here(n)) > Len(view)
            THEN pos = SkipBlank(view, Here(n)) /\ taken' = taken
            ELSE /\ pos = InputField(view, SkipBlank(view, Here(n))).next
                 /\ taken' = [taken EXCEPT ![n] = IF @ = Unknown THEN @ ELSE @ + 1]
  BY InputReads
<1> DEFINE f == files[n].file
           ts == fields[f]
           atEnd == SkipBlank(view, Here(n)) > Len(view)
           k == IF atEnd \/ taken[n] = Unknown THEN taken[n] ELSE taken[n] + 1
<1>3. taken \in [Nums -> Nat \cup {Unknown}] /\ n \in OpenOn(f)
  BY <1>1, OpenFacts DEF TypeInv, TypeOK
<1>4. taken' = [taken EXCEPT ![n] = k]
  BY <1>1, <1>2, <1>3
<1>5. ASSUME f \in plain, k # Unknown
      PROVE  /\ files[n].mode = "input"
             /\ \A P : Reached(n, P) => k <= Len(ts) /\ pos = P[k]
  <2>1. taken[n] # Unknown /\ taken[n] \in Nat
    BY <1>1, <1>3, <1>5
  <2>2. files[n].mode = "input" /\ ts \in Seq(Seq(Byte)) /\ disk[f] \in Seq(Byte)
    BY <1>3, <1>5, <2>1, LogParts DEF Logs
  <2>3. view = disk[f] /\ Here(n) = files[n].pos
    BY <1>1, <1>5, <2>2, ViewIsFile, FlushLogs DEF Writers
  <2>4. ASSUME NEW P, Reached(n, P) PROVE k <= Len(ts) /\ pos = P[k]
    <3>1. /\ Parsed(view, ts, P) /\ taken[n] \in 0..Len(ts) /\ Here(n) = P[taken[n]]
          /\ Len(ts) \in Nat /\ Len(view) \in Nat
      BY <2>1, <2>2, <2>3, <2>4 DEF Reached
    <3> HIDE DEF ts
    <3>2. /\ SkipBlank(view, Here(n)) = Here(n)
          /\ taken[n] < Len(ts) => /\ Here(n) <= Len(view)
                                   /\ InputField(view, Here(n)).next = P[taken[n] + 1]
          /\ taken[n] = Len(ts) => Here(n) = Len(view) + 1
      <4> DEFINE j == taken[n]
      <4>1. view \in Seq(Byte) /\ ts \in Seq(Seq(Byte)) /\ j \in 0..Len(ts) /\ Parsed(view, ts, P)
        BY <2>2, <2>3, <3>1 DEF ts
      <4>2. Here(n) = P[j]
        BY <3>1
      <4> HIDE DEF j
      <4>3. /\ SkipBlank(view, P[j]) = P[j]
            /\ j < Len(ts) => P[j] <= Len(view) /\ InputField(view, P[j]).next = P[j + 1]
            /\ j = Len(ts) => P[j] = Len(view) + 1
        BY <4>1, NextItem
      <4> QED BY <4>2, <4>3 DEF j
    <3>3. CASE taken[n] < Len(ts)
      <4>1. ~atEnd
        BY <1>1, <3>1, <3>2, <3>3, HereTyped
      <4>2. k = taken[n] + 1
        BY <2>1, <4>1
      <4> QED BY <1>2, <3>1, <3>2, <3>3, <4>1, <4>2
    <3>4. CASE taken[n] = Len(ts)
      <4>1. atEnd
        BY <1>1, <3>1, <3>2, <3>4, HereTyped
      <4>2. k = taken[n]
        BY <4>1
      <4> QED BY <1>2, <3>1, <3>2, <3>4, <4>1, <4>2
    <3> QED BY <3>1, <3>3, <3>4
  <2> QED BY <2>2, <2>4
<1> HIDE DEF k
<1> QED BY <1>1, <1>2, <1>4, <1>5, LogRead

LEMMA LogLineInput ==
    ASSUME ~Sharing, TypeInv, Logged, NEW n, ExecLineInputFile(n), ~Fail(52),
           ~(End /\ UNCHANGED <<dir, disk, files, strs, history>>)
    PROVE  Logged'
<1>1. /\ n \in Nums /\ IsOpen(n) /\ Readable(n) /\ UNCHANGED <<program, dir, plain, fields>>
      /\ taken' = [taken EXCEPT ![n] = Unknown]
  BY LineInputReads
<1>2. PICK view \in Views(n), pos \in Nat \ {0} : Read(n, view, pos)
  BY LineInputReads
<1> QED BY <1>1, <1>2, LogRead

(* A handle that stays where it is.                                         *)
LEMMA StaysReached ==
    ASSUME TypeInv, Logged, NEW n \in Nums, IsOpen(n), files[n].file \in plain, taken[n] # Unknown
    PROVE  /\ files[n].mode = "input" /\ Here(n) = files[n].pos
           /\ \A P : Reached(n, P) => taken[n] <= Len(fields[files[n].file]) /\ Here(n) = P[taken[n]]
<1>1. n \in OpenOn(files[n].file)
  BY OpenFacts
<1>2. files[n].mode = "input"
  BY <1>1, LogParts DEF Logs
<1>3. Here(n) = files[n].pos
  BY <1>2, FlushLogs DEF Writers
<1> QED BY <1>2, <1>3 DEF Reached

LEMMA LogEof ==
    ASSUME ~Sharing, TypeInv, Logged, NEW n, EvalEof(n)
    PROVE  Logged'
<1>1. /\ n \in Nums /\ IsOpen(n) /\ UNCHANGED <<program, dir, plain, fields>> /\ taken' = taken
  BY DEF EvalEof, IsOpen, End, history
<1> DEFINE k == taken[n]
           pos == Here(n)
<1>2. taken' = [taken EXCEPT ![n] = k]
  BY <1>1 DEF TypeInv, TypeOK
<1>3. files[n].file \in plain /\ k # Unknown =>
         /\ files[n].mode = "input"
         /\ \A P : Reached(n, P) => k <= Len(fields[files[n].file]) /\ pos = P[k]
  BY <1>1, StaysReached
<1>4. pos \in Nat \ {0}
  BY <1>1, HereTyped
<1> HIDE DEF k
<1>5. CASE files[n].mode = "input"
  <2>1. PICK view \in Views(n) : Read(n, view, pos)
    BY <1>5 DEF EvalEof
  <2> HIDE DEF pos
  <2> QED BY <1>1, <1>2, <1>3, <1>4, <1>5, <2>1, LogRead DEF Readable
<1>6. CASE files[n].mode # "input"
  <2> DEFINE d == Flushed({n})[files[n].file]
  <2>1. Moves(n, pos)
    BY <1>1, <1>6, EofMoves
  <2>2. PICK h : h.pos = pos /\ h.pend = <<>> /\ HandleStep(n, h, d)
    BY <1>1, <1>4, <2>1, MoveStep
  <2> QED BY <1>1, <1>2, <1>3, <2>2, LogMove
<1> QED BY <1>5, <1>6

LEMMA LogSeek ==
    ASSUME ~Sharing, TypeInv, Logged, NEW n, NEW p \in Nat, ExecSeek(n, p), ~Fail(52)
    PROVE  Logged'
<1> DEFINE d == Flushed({n})[files[n].file]
           pos == Position(n, p)
           k == IF files[n].mode = "input" /\ p = 1 THEN 0 ELSE IF p = 0 THEN taken[n] ELSE Unknown
<1>1. /\ n \in Nums /\ IsOpen(n) /\ Moves(n, pos) /\ pos \in Nat \ {0}
      /\ IF files[n].mode = "output" THEN Spoil(files[n].file) ELSE UNCHANGED <<plain, fields>>
      /\ taken' = [taken EXCEPT ![n] = IF files[n].mode = "input" /\ p = 1 THEN 0
                                       ELSE IF p = 0 THEN @ ELSE Unknown]
  BY SeekMoves
<1>2. taken' = [taken EXCEPT ![n] = k] /\ \A m \in Nums : m # n => taken'[m] = taken[m]
  BY <1>1 DEF TypeInv, TypeOK
<1>3. PICK h : h.pos = pos /\ h.pend = <<>> /\ HandleStep(n, h, d)
  BY <1>1, MoveStep
<1>4. CASE files[n].mode = "output"
  BY <1>1, <1>2, <1>3, <1>4, LogSpoil
<1>5. CASE files[n].mode # "output"
  <2>1. ASSUME files[n].file \in plain, k # Unknown
        PROVE  /\ files[n].mode = "input"
               /\ \A P : Reached(n, P) => k <= Len(fields[files[n].file]) /\ pos = P[k]
    <3>1. CASE files[n].mode = "input" /\ p = 1
      <4>1. pos = 1 /\ k = 0 /\ Len(fields[files[n].file]) \in Nat
        BY <2>1, <3>1, LogParts DEF Position
      <4> QED BY <3>1, <4>1 DEF Reached, Parsed
    <3>2. CASE ~(files[n].mode = "input" /\ p = 1)
      <4>1. p = 0 /\ k = taken[n] /\ pos = Here(n)
        BY <2>1, <3>2 DEF Position
      <4> QED BY <1>1, <2>1, <4>1, StaysReached
    <3> QED BY <3>1, <3>2
  <2>2. n \in Nums /\ IsOpen(n) /\ UNCHANGED <<plain, fields>> /\ taken' = [taken EXCEPT ![n] = k]
    BY <1>1, <1>2, <1>5
  <2>3. h.pend = <<>> /\ HandleStep(n, h, Flushed({n})[files[n].file])
    BY <1>3
  <2> HIDE DEF k, pos
  <2>4. files[n].file \in plain /\ k # Unknown =>
           /\ files[n].mode = "input"
           /\ \A P : Reached(n, P) => k <= Len(fields[files[n].file]) /\ h.pos = P[k]
    BY <1>3, <2>1
  <2> QED BY <1>5, <2>2, <2>3, <2>4, LogMove
<1> QED BY <1>4, <1>5

LEMMA LogGet ==
    ASSUME ~Sharing, TypeInv, Logged, NEW n, NEW r \in Nat, NEW v \in Vars \cup {NoVar},
           ExecGet(n, r, v), ~Fail(52)
    PROVE  Logged'
<1>1. n \in Nums /\ IsOpen(n) /\ UNCHANGED <<program, dir, plain, fields>> /\ taken' = taken
  BY GetReads
<1>2. files[n].mode \in {"random", "binary"} /\ Readable(n)
  BY DEF ExecGet, GetRecord, GetBinary, Readable
<1>3. PICK view \in Views(n), pos \in Nat \ {0} : Read(n, view, pos)
  BY GetReads
<1> DEFINE k == taken[n]
<1>4. taken' = [taken EXCEPT ![n] = k]
  BY <1>1 DEF TypeInv, TypeOK
<1>5. ~(files[n].file \in plain /\ k # Unknown)
  BY <1>1, <1>2, StaysReached
<1> HIDE DEF k
<1> QED BY <1>1, <1>2, <1>3, <1>4, <1>5, LogRead

LEMMA LogPut ==
    ASSUME ~Sharing, TypeInv, Logged, NEW n, NEW r \in Nat, NEW v \in Vars \cup {NoVar},
           ExecPut(n, r, v), ~Fail(52)
    PROVE  Logged'
<1>1. n \in Nums /\ IsOpen(n) /\ Spoil(files[n].file) /\ taken' = taken
  BY PutWrites
<1>2. PICK h, d : HandleStep(n, h, d)
  BY PutWrites
<1> QED BY <1>1, <1>2, LogSpoil

LEMMA LogField ==
    ASSUME ~Sharing, TypeInv, Logged, NEW n, NEW list \in program.lists, ExecField(n, list), ~Fail(52)
    PROVE  Logged'
<1> DEFINE f == files[n].file
           d == disk[f]
<1>1. n \in Nums /\ IsOpen(n) /\ UNCHANGED <<plain, fields, taken>>
  BY FieldStep
<1>2. PICK h : h.pend = files[n].pend /\ h.pos = files[n].pos /\ HandleStep(n, h, d)
  BY FieldStep
<1>3. f \in plain => Logs(files[n], d, fields[f], taken[n])
  BY <1>1, OpenFacts, LogParts
<1>4. h.mode = files[n].mode
  BY <1>2 DEF HandleStep
<1> HIDE DEF d
<1>5. f \in plain => Logs(h, d, fields[f], taken[n])
  BY <1>2, <1>3, <1>4 DEF Logs
<1> QED BY <1>1, <1>2, <1>5, LogStep

(* A line is written: WRITE # to a file that only it wrote, or anything.    *)
LEMMA LogPrint ==
    ASSUME ~Sharing, ItemsPlain, TypeInv, Logged, NEW n, NEW line \in program.lines,
           Prints(n, line), ~Fail(52)
    PROVE  Logged'
<1>1. n \in Nums /\ IsOpen(n)
  BY PrintEmits
<1>2. PICK k \in 0..Len(line.items), last \in {<<>>, <<Comma>>, <<CR, LF>>} :
         /\ Emit(n, Items(line, k) \o last, line, k)
         /\ line.write /\ k > 0 => last # <<>>
         /\ k = 0 => last = <<>>
  BY PrintEmits
<1> DEFINE bytes == Items(line, k) \o last
           f == files[n].file
           d == disk[f]
           pend == files[n].pend
           ts == fields[f]
           us == ts \o Given(line, k)
<1>3. bytes \in Seq(Byte) /\ Emit(n, bytes, line, k)
  BY <1>2, EmittedTyped
<1>4. /\ f \in FileNames /\ n \in OpenOn(f) /\ d \in Seq(Byte) /\ pend \in Seq(Byte)
      /\ fields \in [FileNames -> Seq(Seq(Byte))]
  BY <1>1, OpenFacts DEF TypeInv, TypeOK
<1>5. CASE files[n].mode = "input"
  <2>1. UNCHANGED <<disk, files, plain, fields, taken>>
    BY <1>3, <1>5 DEF Emit, history
  <2> QED BY <2>1, LogSame
<1>6. CASE files[n].mode # "input"
  <2> HIDE DEF bytes
  <2>1. PICK h : h.pend = pend \o bytes /\ h.pos = files[n].pos /\ HandleStep(n, h, d)
    BY <1>1, <1>3, <1>6, EmitStep
  <2>2. CASE Spoil(f) /\ taken' = taken
    BY <1>1, <2>1, <2>2, LogSpoil
  <2>3. CASE /\ line.write /\ files[n].mode \in Writers
             /\ fields' = [fields EXCEPT ![f] = IF f \in plain THEN us ELSE @]
             /\ UNCHANGED <<plain, taken>>
    <3>1. ASSUME f \in plain PROVE Logs(h, d, us, taken[n])
      <4>1. /\ Logs(files[n], d, ts, taken[n]) /\ ts \in Seq(Seq(Byte))
        BY <1>4, <3>1, LogParts
      <4>2. taken[n] = Unknown /\ h.mode \in Writers /\ (h.mode = "output" => h.pos = Len(d) + 1)
        BY <1>6, <2>1, <2>3, <4>1 DEF Logs, HandleStep
      <4> DEFINE c == d \o pend
      <4>3. IsParsed(c, ts) /\ c \in Seq(Byte)
        BY <1>4, <4>1 DEF Logs, IsParsed
      <4>4. IsParsed(c \o bytes, us)
        <5>1. CASE k = 0
          <6>1. PICK stage : WrittenBy(stage, line, 0) /\ Items(line, 0) = stage[0]
            BY ItemsUnfold
          <6>2. bytes = <<>>
            <7>1. Items(line, k) = <<>> /\ last = <<>>
              BY <1>2, <5>1, <6>1 DEF WrittenBy
            <7> QED BY <7>1, EmptySeq, ConcatEmptySeq DEF bytes
          <6>3. Given(line, k) = <<>>
            BY <5>1 DEF Given
          <6>4. c \o bytes = c /\ us = ts
            BY <4>1, <4>3, <6>2, <6>3, ConcatEmptySeq
          <6> QED BY <4>3, <6>4
        <5>2. CASE k # 0
          <6>1. k \in 1..Len(line.items) /\ last \in Delimiters
            BY <1>2, <2>3, <5>2, LineFacts DEF Delimiters
          <6> HIDE DEF c
          <6> QED BY <2>3, <4>1, <4>3, <6>1, ParsedLine DEF bytes
        <5> QED BY <5>1, <5>2
      <4>5. c \o bytes = d \o h.pend
        <5> HIDE DEF d, pend
        <5>1. (d \o pend) \o bytes = d \o (pend \o bytes)
          BY <1>3, <1>4, SMTT(30)
        <5> QED BY <2>1, <5>1
      <4>6. IsParsed(d \o h.pend, us)
        BY <4>4, <4>5
      <4> HIDE DEF us, c
      <4> QED BY <4>2, <4>6 DEF Logs, IsParsed
    <3>2. f \in plain' => Logs(h, d, fields'[f], taken'[n])
      BY <1>4, <2>3, <3>1
    <3>3. \A g \in FileNames : g # f => fields'[g] = fields[g]
      BY <1>4, <2>3
    <3> QED BY <1>1, <2>1, <2>3, <3>2, <3>3, LogStep
  <2>4. \/ Spoil(f) /\ taken' = taken
        \/ /\ line.write /\ files[n].mode \in Writers
           /\ fields' = [fields EXCEPT ![f] = IF f \in plain THEN us ELSE @]
           /\ UNCHANGED <<plain, taken>>
    BY <1>3, <1>4, <1>6 DEF Emit, Writers
  <2> QED BY <2>2, <2>3, <2>4
<1> QED BY <1>5, <1>6

LEMMA NothingParsed == IsParsed(<<>>, <<>>) /\ <<>> \o <<>> = <<>>
<1> DEFINE P == [i \in 0..0 |-> 1]
<1>1. P \in [0..0 -> Nat \ {0}] /\ P[0] = 1 /\ Len(<<>>) = 0
  OBVIOUS
<1>2. Parsed(<<>>, <<>>, P)
  BY <1>1 DEF Parsed
<1>3. <<>> \o <<>> = <<>>
  BY EmptySeq, ConcatEmptySeq
<1> QED BY <1>1, <1>2, <1>3 DEF IsParsed

LEMMA LogOpen ==
    ASSUME TypeInv, Logged, NEW n \in Nums, NEW f \in FileNames, NEW mode \in Modes,
           ~IsOpen(n), OpenOn(f) = {}, FileOpen(n, f, mode)
    PROVE  Logged'
<1> DEFINE h == [Closed EXCEPT !.mode = mode, !.file = f]
           d == IF mode = "output" THEN <<>> ELSE disk[f]
           ts == IF mode = "output" THEN <<>> ELSE fields[f]
           k == IF mode = "input" THEN 0 ELSE Unknown
<1>1. /\ files' = [files EXCEPT ![n] = h] /\ disk' = [disk EXCEPT ![f] = d]
      /\ plain' = plain \cup (IF mode = "output" THEN {f} ELSE {})
      /\ fields' = [fields EXCEPT ![f] = ts] /\ taken' = [taken EXCEPT ![n] = k]
  BY DEF FileOpen
<1>2. /\ h.mode = mode /\ h.file = f /\ h.pos = 1 /\ h.pend = <<>> /\ mode # "closed"
  BY DEF Closed, Modes
<1>3. /\ files \in [Nums -> Handles] /\ disk \in [FileNames -> Seq(Byte)]
      /\ fields \in [FileNames -> Seq(Seq(Byte))] /\ taken \in [Nums -> Nat \cup {Unknown}]
  BY DEF TypeInv, TypeOK
<1> HIDE DEF h
<1>4. /\ files'[n] = h /\ disk'[f] = d /\ fields'[f] = ts /\ taken'[n] = k
      /\ \A m \in Nums : m # n => files'[m] = files[m] /\ taken'[m] = taken[m]
      /\ \A g \in FileNames : g # f => disk'[g] = disk[g] /\ fields'[g] = fields[g]
  BY <1>1, <1>3
<1>5. OpenOn(f)' = {n}
  BY <1>2, <1>4 DEF OpenOn
<1>6. \A g : g # f => OpenOn(g)' = OpenOn(g)
  BY <1>2, <1>4 DEF OpenOn, IsOpen
<1>7. ASSUME f \in plain' PROVE Logs(h, d, ts, k)
  <2>1. IsParsed(d, ts) /\ d \in Seq(Byte) /\ ts \in Seq(Seq(Byte))
    <3>1. CASE mode = "output"
      BY <3>1, NothingParsed, EmptySeq
    <3>2. CASE mode # "output"
      BY <1>1, <1>7, <3>2, LogParts
    <3> QED BY <3>1, <3>2
  <2>2. d \o h.pend = d
    BY <1>2, <2>1, ConcatEmptySeq
  <2>3. PICK P \in [0..Len(ts) -> Nat \ {0}] : Parsed(d \o h.pend, ts, P)
    BY <2>1, <2>2 DEF IsParsed
  <2>4. mode = "output" => h.pos = Len(d) + 1
    BY <1>2
  <2>5. k # Unknown => h.mode = "input" /\ k <= Len(ts) /\ h.pos = P[k]
    <3>1. Len(ts) \in Nat /\ P[0] = 1
      BY <2>1, <2>3 DEF Parsed
    <3> QED BY <1>2, <3>1
  <2> HIDE DEF d, ts, k
  <2> QED BY <1>2, <2>3, <2>4, <2>5 DEF Logs
<1> HIDE DEF d, ts, k
<1> SUFFICES ASSUME NEW g \in plain'
             PROVE  /\ OpenOn(g)' = {} => IsParsed(disk'[g], fields'[g])
                    /\ \A m \in OpenOn(g)' : Logs(files'[m], disk'[g], fields'[g], taken'[m])
  BY DEF Logged
<1>8. CASE g = f
  BY <1>4, <1>5, <1>7, <1>8
<1>9. CASE g # f
  <2>1. g \in plain
    BY <1>1, <1>9
  <2>2. /\ g \in FileNames /\ (OpenOn(g) = {} => IsParsed(disk[g], fields[g]))
        /\ \A m \in OpenOn(g) : m \in Nums /\ IsOpen(m) /\ Logs(files[m], disk[g], fields[g], taken[m])
    BY <2>1, LogParts
  <2>3. \A m \in OpenOn(g) : m # n
    BY <2>2
  <2> QED BY <1>4, <1>6, <1>9, <2>2, <2>3
<1> QED BY <1>8, <1>9

LEMMA LogClose ==
    ASSUME ~Sharing, TypeInv, Logged, NEW S, CloseFiles(S)
    PROVE  Logged'
<1>1. /\ disk' = Flushed(S) /\ files' = [n \in Nums |-> IF n \in S THEN Closed ELSE files[n]]
      /\ UNCHANGED <<plain, fields, taken>>
  BY DEF CloseFiles, history
<1>2. \A g : OpenOn(g)' = OpenOn(g) \ S
  BY <1>1, ClosedTyped DEF OpenOn
<1> SUFFICES ASSUME NEW g \in plain
             PROVE  /\ OpenOn(g) \ S = {} => IsParsed(disk'[g], fields[g])
                    /\ \A m \in OpenOn(g) \ S : Logs(files'[m], disk'[g], fields[g], taken[m])
  BY <1>1, <1>2 DEF Logged
<1>3. /\ g \in FileNames /\ (OpenOn(g) = {} => IsParsed(disk[g], fields[g]))
      /\ \A m \in OpenOn(g) : m \in Nums /\ IsOpen(m) /\ files[m].file = g
                              /\ Logs(files[m], disk[g], fields[g], taken[m])
  BY LogParts
<1>4. \A m \in OpenOn(g) : OpenOn(g) = {m}
  BY <1>3, OnlyHandle
<1>5. ASSUME OpenOn(g) \cap S = {} PROVE disk'[g] = disk[g]
  BY <1>1, <1>3, <1>5, FlushedFacts
<1>6. CASE OpenOn(g) = {}
  BY <1>3, <1>5, <1>6
<1>7. ASSUME NEW m \in OpenOn(g), m \in S PROVE IsParsed(disk'[g], fields[g])
  <2>1. disk'[g] = Flushed({m})[g]
    <3>1. S \cap OpenOn(g) = {m} \cap OpenOn(g)
      BY <1>4, <1>7
    <3> QED BY <1>1, <1>3, <3>1 DEF Flushed
  <2>2. Flushed({m})[g] = disk[g] \o files[m].pend
    BY <1>3, <1>7, FlushLogs
  <2> QED BY <1>3, <1>7, <2>1, <2>2 DEF Logs, IsParsed
<1>8. ASSUME NEW m \in OpenOn(g), m \notin S
      PROVE  disk'[g] = disk[g] /\ files'[m] = files[m]
  <2>1. OpenOn(g) \cap S = {}
    BY <1>4, <1>8
  <2> QED BY <1>1, <1>3, <1>5, <1>8, <2>1
<1>9. CASE OpenOn(g) # {}
  <2>1. PICK m : m \in OpenOn(g)
    BY <1>9
  <2>2. OpenOn(g) = {m}
    BY <1>4, <2>1
  <2>3. CASE m \in S
    BY <1>7, <2>2, <2>3
  <2>4. CASE m \notin S
    BY <1>3, <1>8, <2>2, <2>4
  <2> QED BY <2>3, <2>4
<1> QED BY <1>6, <1>9

(* KILL and NAME: what happens to closed files.                             *)
LEMMA LogDirectory ==
    ASSUME TypeInv, Logged, NEW T \in SUBSET FileNames, \A f \in T : OpenOn(f) = {},
           UNCHANGED <<files, taken>>,
           \A f \in FileNames \ T : /\ disk'[f] = disk[f] /\ fields'[f] = fields[f]
                                    /\ f \in plain' => f \in plain,
           plain' \subseteq FileNames, \A f \in T \cap plain' : IsParsed(disk'[f], fields'[f])
    PROVE  Logged'
<1>1. \A f : OpenOn(f)' = OpenOn(f)
  BY DEF OpenOn
<1> SUFFICES ASSUME NEW g \in plain'
             PROVE  /\ OpenOn(g) = {} => IsParsed(disk'[g], fields'[g])
                    /\ \A m \in OpenOn(g) : Logs(files'[m], disk'[g], fields'[g], taken'[m])
  BY <1>1 DEF Logged
<1>2. CASE g \in T
  BY <1>2
<1>3. CASE g \notin T
  <2>1. g \in plain /\ disk'[g] = disk[g] /\ fields'[g] = fields[g]
    BY <1>3
  <2> QED BY <2>1 DEF Logged
<1> QED BY <1>2, <1>3

LEMMA LogKill ==
    ASSUME TypeInv, Logged, NEW f \in FileNames, ExecKill(f), ~Fail(53)
    PROVE  Logged'
<1>1. /\ OpenOn(f) = {} /\ UNCHANGED <<files, taken>> /\ disk' = [disk EXCEPT ![f] = <<>>]
      /\ plain' = plain \cup {f} /\ fields' = [fields EXCEPT ![f] = <<>>]
  BY DEF ExecKill
<1>2. /\ disk \in [FileNames -> Seq(Byte)] /\ fields \in [FileNames -> Seq(Seq(Byte))]
      /\ plain \subseteq FileNames
  BY DEF TypeInv, TypeOK
<1>3. disk'[f] = <<>> /\ fields'[f] = <<>> /\ plain' \subseteq FileNames
      /\ \A g \in FileNames \ {f} : /\ disk'[g] = disk[g] /\ fields'[g] = fields[g]
                                    /\ g \in plain' => g \in plain
  BY <1>1, <1>2
<1>4. {f} \in SUBSET FileNames /\ \A g \in {f} : OpenOn(g) = {} /\ IsParsed(disk'[g], fields'[g])
  BY <1>1, <1>3, NothingParsed
<1> QED BY <1>1, <1>3, <1>4, LogDirectory

LEMMA LogName ==
    ASSUME TypeInv, Logged, NEW f \in FileNames, NEW g \in FileNames, ExecName(f, g), ~Fail(53)
    PROVE  Logged'
<1>1. /\ f # g /\ OpenOn(f) = {} /\ OpenOn(g) = {} /\ UNCHANGED <<files, taken>>
      /\ disk' = [disk EXCEPT ![g] = disk[f], ![f] = <<>>]
      /\ plain' = (IF f \in plain THEN plain \cup {g} ELSE plain \ {g}) \cup {f}
      /\ fields' = [fields EXCEPT ![g] = fields[f], ![f] = <<>>]
  BY DEF ExecName
<1>2. /\ disk \in [FileNames -> Seq(Byte)] /\ fields \in [FileNames -> Seq(Seq(Byte))]
      /\ plain \subseteq FileNames
  BY DEF TypeInv, TypeOK
<1>3. /\ disk'[f] = <<>> /\ fields'[f] = <<>> /\ disk'[g] = disk[f] /\ fields'[g] = fields[f]
      /\ plain' \subseteq FileNames
      /\ \A x \in FileNames \ {f, g} : /\ disk'[x] = disk[x] /\ fields'[x] = fields[x]
                                       /\ x \in plain' => x \in plain
  BY <1>1, <1>2
<1>4. g \in plain' => IsParsed(disk'[g], fields'[g])
  <2>1. g \in plain' => f \in plain
    BY <1>1
  <2> QED BY <1>1, <1>3, <2>1, LogParts
<1>5. IsParsed(disk'[f], fields'[f])
  BY <1>3, NothingParsed
<1>6. /\ {f, g} \in SUBSET FileNames /\ \A x \in {f, g} : OpenOn(x) = {}
      /\ \A x \in {f, g} \cap plain' : IsParsed(disk'[x], fields'[x])
  BY <1>1, <1>4, <1>5
<1> QED BY <1>1, <1>3, <1>6, LogDirectory

LEMMA LogTable ==
    ASSUME ~Sharing, TypeInv, Logged, Table
    PROVE  Logged'
<1>1. ASSUME NEW code, Fail(code) PROVE Logged'
  BY <1>1, LogSame DEF Fail, history
<1>2. ASSUME NEW n, NEW f \in FileNames, NEW mode \in Modes, ExecOpen(n, f, mode) PROVE Logged'
  <2>1. \/ \E code : Fail(code)
        \/ n \in Nums /\ ~IsOpen(n) /\ OpenOn(f) = {} /\ FileOpen(n, f, mode)
    BY <1>2 DEF ExecOpen, MayOpen
  <2> QED BY <1>1, <2>1, LogOpen
<1>3. program.moved \subseteq FileNames
  BY ProgramFacts DEF ProgramOK
<1>4. ASSUME NEW f \in program.moved, ExecKill(f) PROVE Logged'
  BY <1>1, <1>3, <1>4, LogKill
<1>5. ASSUME NEW f \in program.moved, NEW g \in program.moved, ExecName(f, g) PROVE Logged'
  BY <1>1, <1>3, <1>5, LogName
<1> QED BY <1>2, <1>4, <1>5, LogClose DEF Table, ExecClose, ExecReset

LEMMA LogSequential ==
    ASSUME ~Sharing, ItemsPlain, TypeInv, CacheExact, Logged, Sequential
    PROVE  Logged'
<1>1. ASSUME NEW code, Fail(code) PROVE Logged'
  BY <1>1, LogSame DEF Fail, history
<1>2. CASE End /\ UNCHANGED <<dir, disk, files, strs, history>>
  BY <1>2, LogSame DEF history
<1>3. PICK n : \/ ExecInputFile(n) \/ ExecLineInputFile(n) \/ EvalEof(n)
               \/ \E line \in program.lines : Prints(n, line)
  BY DEF Sequential, Prints
<1> QED BY <1>1, <1>2, <1>3, LogInput, LogLineInput, LogEof, LogPrint

LEMMA LogRandom ==
    ASSUME ~Sharing, TypeInv, Logged, Random
    PROVE  Logged'
<1>1. ASSUME NEW code, Fail(code) PROVE Logged'
  BY <1>1, LogSame DEF Fail, history
<1>2. program.places \subseteq Nat /\ DOMAIN program.texts \subseteq Vars
  BY ProgramFacts DEF ProgramOK
<1>3. ASSUME NEW v, NEW t, ExecLet(v, t) \/ ExecLset(v, t) \/ ExecRset(v, t) PROVE Logged'
  BY <1>3, LogSame DEF ExecLet, ExecLset, ExecRset, history
<1> QED BY <1>1, <1>2, <1>3, LogSeek, LogGet, LogPut, LogField DEF Random, Named

LEMMA LogInit == Init => Logged
<1> SUFFICES ASSUME Init PROVE Logged
  OBVIOUS
<1>1. \A f : OpenOn(f) = {}
  BY ClosedTyped DEF Init, OpenOn
<1>2. \A f \in plain : disk[f] = <<>> /\ fields[f] = <<>>
  BY DEF Init
<1> QED BY <1>1, <1>2, NothingParsed DEF Logged

LEMMA LogKept ==
    ASSUME ~Sharing, ItemsPlain, TypeInv, CacheExact, Logged, [Next]_fileVars
    PROVE  Logged'
<1>1. CASE UNCHANGED fileVars
  BY <1>1, LogSame DEF fileVars, history
<1> QED BY <1>1, LogTable, LogSequential, LogRandom DEF Next

FileInv == TypeInv /\ CacheExact /\ Logged

LEMMA FileInvariant ==
    ASSUME ~Sharing, ItemsPlain PROVE Spec => []FileInv
<1>1. Init => FileInv
  BY TypeInit, CacheInit, LogInit DEF FileInv
<1>2. FileInv /\ [Next]_fileVars => FileInv'
  BY TypeStep, CacheKept, LogKept DEF FileInv
<1> QED BY <1>1, <1>2, PTL DEF Spec

(* What a read of handle n finds, if all it has read are items.             *)
LEMMA ItemAhead ==
    ASSUME FileInv, NEW n \in Nums, IsOpen(n), taken[n] # Unknown,
           files[n].file \in plain, NEW view \in Views(n)
    PROVE  LET ts == fields[files[n].file] IN
           /\ taken[n] <= Len(ts) /\ taken[n] \in Nat /\ Len(ts) \in Nat /\ Len(view) \in Nat
           /\ Here(n) \in Nat
           /\ taken[n] < Len(ts) =>
                 /\ Here(n) <= Len(view)
                 /\ InputField(view, SkipBlank(view, Here(n))).text = ts[taken[n] + 1]
           /\ taken[n] = Len(ts) => Here(n) = Len(view) + 1
<1> DEFINE f == files[n].file
           ts == fields[f]
           k == taken[n]
<1>1. TypeInv /\ CacheExact /\ Logged /\ n \in OpenOn(f)
  BY OpenFacts DEF FileInv
<1>2. /\ ts \in Seq(Seq(Byte)) /\ disk[f] \in Seq(Byte) /\ Logs(files[n], disk[f], ts, k)
  BY <1>1, LogParts
<1>3. files[n].mode = "input" /\ files[n].mode \notin Writers /\ Here(n) = files[n].pos
  BY <1>1, StaysReached DEF Writers
<1>4. view = disk[f] /\ files[n].pend = <<>>
  BY <1>1, <1>3, ViewIsFile, FlushLogs
<1>5. disk[f] \o files[n].pend = view
  BY <1>2, <1>4, ConcatEmptySeq
<1>6. PICK P : Parsed(view, ts, P) /\ k <= Len(ts) /\ Here(n) = P[k]
  BY <1>2, <1>3, <1>5 DEF Logs
<1>7. k \in Nat /\ Len(ts) \in Nat /\ k \in 0..Len(ts) /\ view \in Seq(Byte) /\ Len(view) \in Nat
  BY <1>1, <1>2, <1>4, <1>6 DEF TypeInv, TypeOK
<1>8. Here(n) \in Nat
  BY <1>1, HereTyped
<1> HIDE DEF k, ts
<1>9. /\ SkipBlank(view, P[k]) = P[k]
      /\ k < Len(ts) => P[k] <= Len(view) /\ InputField(view, P[k]).text = ts[k + 1]
      /\ k = Len(ts) => P[k] = Len(view) + 1
  BY <1>2, <1>6, <1>7, NextItem
<1> QED BY <1>6, <1>7, <1>8, <1>9 DEF k, ts

(* What INPUT # reads from a file that WRITE # wrote is what was written,   *)
(* item by item, strings with commas, blanks and line ends in them included *)
(* (ReadsBack), in programs that open a file on one number only, write no   *)
(* quotes and no NUL bytes in strings, and items that fit the buffer of     *)
(* INPUT #.                                                                 *)
THEOREM AlwaysReadsBack ==
    ASSUME ~Sharing, ItemsPlain PROVE Spec => []ReadsBack
<1>1. FileInv => ReadsBack
  <2> SUFFICES ASSUME FileInv, NEW n \in Nums, IsOpen(n), taken[n] # Unknown,
                      files[n].file \in plain, taken[n] < Len(fields[files[n].file]),
                      NEW view \in Views(n)
               PROVE  InputField(view, SkipBlank(view, Here(n))).text = fields[files[n].file][taken[n] + 1]
    BY DEF ReadsBack
  <2> QED BY ItemAhead
<1> QED BY <1>1, FileInvariant, PTL

(* On such a file EOF is true exactly when INPUT # has read every item      *)
(* (EofTellsInput), whatever was written in how many lines, with errors in  *)
(* the middle of some of them.                                              *)
THEOREM EofAlwaysTells ==
    ASSUME ~Sharing, ItemsPlain PROVE Spec => []EofTellsInput
<1>1. FileInv => EofTellsInput
  <2> SUFFICES ASSUME FileInv, NEW n \in Nums, IsOpen(n), taken[n] # Unknown,
                      files[n].file \in plain, NEW view \in Views(n)
               PROVE  AtEof(n, view) <=> taken[n] = Len(fields[files[n].file])
    BY DEF EofTellsInput
  <2> QED BY ItemAhead DEF AtEof
<1> QED BY <1>1, FileInvariant, PTL

================================================================================
