-------------------------- MODULE RegionFileProofs --------------------------
(***************************************************************************)
(* Proofs about RegionFile: the lookup table, the reverse map of sectors   *)
(* and the order of the blocks stay one layout whatever is saved, fails or *)
(* crashes; and, wherever in a sector the header ends, a block that leaves *)
(* room for its tail reads back byte for byte.                             *)
(***************************************************************************)
EXTENDS RegionFile, SequenceTheorems, FiniteSetTheorems, TLAPS

-----------------------------------------------------------------------------
(* The inductive invariant: types, the save under way, the layout.         *)

Entry == [index : Nat, count : Nat]

Byte == {Zero, HeaderByte} \cup (Blocks \X Nat \X Nat)

InSave == {"shift", "cut", "prefix", "payload", "pad", "header"}

RegionTypeOK ==
  /\ file \in Seq(Byte)
  /\ diskLut \in [Blocks -> Entry]
  /\ lut \in [Blocks -> Entry]
  /\ sectors \in Seq(Blocks)
  /\ pc \in InSave \cup {"idle", "closed", "unreadable"}
  /\ op \in [pos : Blocks, size : Sizes \cup {0}, remove : Nat, append : BOOLEAN]
  /\ saves \in 0 .. MaxSaves
  /\ saved \in [Blocks -> [save : 0 .. MaxSaves, size : Sizes \cup {0}]]
  /\ crashes \in Nat /\ failures \in Nat

\* Where the save is, as far as the table knows its block.
OpExact ==
  /\ pc \in InSave => op.size \in Sizes
  /\ pc \in {"shift", "cut"} => op = Plan(op.pos, op.size) /\ op.remove > 0
  /\ pc \in {"prefix", "payload"} =>
       IF op.append THEN ~Present(lut, op.pos)
       ELSE Present(lut, op.pos) /\ lut[op.pos].count = SectorCount(op.size)
  /\ pc = "pad" => op.append /\ ~Present(lut, op.pos)
  /\ pc = "header" => Present(lut, op.pos) /\ lut[op.pos].count = SectorCount(op.size)

\* The sectors of p in the data area, numbered from 1 as in the reverse map.
Run(t, p) == t[p].index + 1 .. t[p].index + t[p].count

\* The reverse map s gives every sector to the block whose run it is in.
Layout(t, s) ==
  /\ \A p \in Blocks : Present(t, p) => t[p].count > 0 /\ t[p].index + t[p].count <= Len(s)
  /\ \A i \in 1 .. Len(s) : Present(t, s[i]) /\ i \in Run(t, s[i])
  /\ \A p \in Blocks : Present(t, p) => \A i \in Run(t, p) : s[i] = p

Contiguous(t) == \E s \in Seq(Blocks) : Layout(t, s)

\* A block that memory has and the header does not is the one whose save is about to write
\* the header; the others are in the order they have on disk.
Derived ==
  pc \in (InSave \cup {"idle"}) \ {"header"} =>
    \A p \in Blocks :
      Present(lut, p) => /\ Present(diskLut, p)
                         /\ \A q \in Blocks : /\ Present(lut, q)
                                              /\ diskLut[p].index <= diskLut[q].index
                                              => lut[p].index <= lut[q].index

LayoutInv ==
  /\ RegionTypeOK
  /\ OpExact
  /\ pc \in InSave \cup {"idle"} => Layout(lut, sectors)
  /\ Contiguous(diskLut)
  /\ Undisturbed /\ pc \in {"idle", "shift", "cut", "closed"} => diskLut = lut
  /\ Undisturbed /\ pc = "closed" => Layout(lut, sectors)
  /\ Derived

-----------------------------------------------------------------------------
(* The inductive invariant: bytes.                                         *)

\* The bytes of n sectors.
Room(n) == n * SectorSize

\* The file holds the bytes of the save e of p from the byte start.
Held(f, start, p, e) ==
  /\ start + e.size <= Len(f)
  /\ \A j \in 1 .. e.size : f[start + j] = <<p, e.save, j>>

\* ... and the table t leads to them; the last HeaderTail bytes of the sectors stay free.
Kept(f, t, p, e) ==
  /\ Present(t, p)
  /\ e.size \in Sizes /\ e.size + HeaderTail <= Room(t[p].count)
  /\ Held(f, Offset(t[p].index), p, e)

AllKept(f, t, blocks) == \A p \in blocks : Secure(p) => Kept(f, t, p, saved[p])

BytesKept ==
  /\ pc \in {"idle", "shift"} => AllKept(file, lut, Blocks)
  /\ pc = "cut" => AllKept(file, CutTable, Blocks \ {op.pos})
  /\ pc \in {"prefix", "payload", "pad", "header"} => AllKept(file, lut, Blocks \ {op.pos})
  /\ pc = "closed" => AllKept(file, diskLut, Blocks)

\* The entries the header has, of the blocks a failure would leave alone.
OnDisk ==
  /\ pc \in {"idle", "shift", "cut"} => \A p \in Blocks : Secure(p) => lut[p] = diskLut[p]
  /\ pc \in {"prefix", "payload", "pad", "header"} =>
       \A p \in Blocks \ AtRisk : Secure(p) => lut[p] = diskLut[p]

\* n bytes end between a multiple of the sector size in the file and the end of a sector.
Whole(n) == \E k \in Nat : Room(k) <= n /\ n <= Offset(k)

\* The file is short of the end of the data area by no more than the header's tail, and ends
\* at most that far from a boundary unless a block is being appended.
LongEnough ==
  /\ pc \in InSave \cup {"idle"} \/ (pc = "closed" /\ Undisturbed) =>
       Offset(Len(sectors)) <= Len(file) + HeaderTail
  /\ pc # "prefix" => HeaderTail <= Len(file)
  /\ \/ Whole(Len(file))
     \/ pc = "payload" /\ op.append /\ Len(file) = Offset(Len(sectors)) + 1
     \/ pc = "pad" /\ Len(file) = Offset(Len(sectors)) + op.size

UnderWay == [save |-> saves, size |-> op.size]

\* What the save under way has written.
Written ==
  /\ pc = "payload" =>
       /\ Offset(Target) + 1 <= Len(file)
       /\ file[Offset(Target) + 1] = <<op.pos, saves, 1>>
  /\ pc = "pad" => Held(file, Offset(Len(sectors)), op.pos, UnderWay)
  /\ pc = "header" => Held(file, Offset(lut[op.pos].index), op.pos, UnderWay)

BytesInv == crashes = 0 => BytesKept /\ OnDisk /\ LongEnough /\ Written

-----------------------------------------------------------------------------
(* Sequences and the file.                                                 *)

\* A function on 1 .. n is a sequence of length n.
LEMMA FunctionIsSeq ==
  ASSUME NEW S, NEW n \in Nat, NEW f \in [1 .. n -> S]
  PROVE  f \in Seq(S) /\ Len(f) = n /\ DOMAIN f = 1 .. n
  BY SeqDef

\* Seeking and writing leaves the other bytes where they are.
LEMMA WriteAtFacts ==
  ASSUME NEW f \in Seq(Byte), NEW at \in Nat, NEW bytes \in Seq(Byte)
  PROVE  /\ WriteAt(f, at, bytes) \in Seq(Byte)
         /\ Len(WriteAt(f, at, bytes)) = IF at + Len(bytes) > Len(f) THEN at + Len(bytes) ELSE Len(f)
         /\ \A i \in 1 .. Len(bytes) : WriteAt(f, at, bytes)[at + i] = bytes[i]
         /\ \A i \in 1 .. Len(f) :
              i <= at \/ i > at + Len(bytes) => WriteAt(f, at, bytes)[i] = f[i]
<1> DEFINE n == IF at + Len(bytes) > Len(f) THEN at + Len(bytes) ELSE Len(f)
           W == WriteAt(f, at, bytes)
<1>1. /\ Len(f) \in Nat /\ Len(bytes) \in Nat
      /\ \A i \in 1 .. Len(f) : f[i] \in Byte
      /\ \A i \in 1 .. Len(bytes) : bytes[i] \in Byte
  BY LenProperties, ElementOfSeq
<1>2. n \in Nat
  BY <1>1
<1>3. W = [i \in 1 .. n |-> IF i \in at + 1 .. at + Len(bytes) THEN bytes[i - at]
                           ELSE IF i <= Len(f) THEN f[i] ELSE Zero]
  BY DEF WriteAt
<1>4. ASSUME NEW i \in 1 .. n PROVE W[i] \in Byte
  <2>1. CASE i \in at + 1 .. at + Len(bytes)
    <3>1. i - at \in 1 .. Len(bytes)
      BY <1>1, <2>1
    <3> QED BY <1>1, <1>3, <2>1, <3>1
  <2>2. CASE i \notin at + 1 .. at + Len(bytes) /\ i <= Len(f)
    <3>1. i \in 1 .. Len(f)
      BY <1>1, <2>2, <1>2
    <3> QED BY <1>1, <1>3, <2>2, <3>1
  <2>3. CASE i \notin at + 1 .. at + Len(bytes) /\ ~(i <= Len(f))
    BY <1>3, <2>3 DEF Byte
  <2> QED BY <2>1, <2>2, <2>3
<1>5. W \in [1 .. n -> Byte]
  BY <1>3, <1>4
<1>6. W \in Seq(Byte) /\ Len(W) = n
  BY <1>2, <1>5, FunctionIsSeq
<1>7. ASSUME NEW i \in 1 .. Len(bytes) PROVE W[at + i] = bytes[i]
  <2>1. at + i \in 1 .. n /\ at + i \in at + 1 .. at + Len(bytes) /\ (at + i) - at = i
    BY <1>1
  <2> QED BY <1>3, <2>1
<1>8. ASSUME NEW i \in 1 .. Len(f), i <= at \/ i > at + Len(bytes) PROVE W[i] = f[i]
  <2>1. i \in 1 .. n /\ i \notin at + 1 .. at + Len(bytes) /\ i <= Len(f)
    BY <1>1, <1>8
  <2> QED BY <1>3, <2>1
<1> QED BY <1>6, <1>7, <1>8

\* Cutting leaves the bytes before.
LEMMA SetLenFacts ==
  ASSUME NEW f \in Seq(Byte), NEW n \in Int
  PROVE  /\ SetLen(f, n) \in Seq(Byte)
         /\ n \in Nat => Len(SetLen(f, n)) = n
         /\ \A i \in 1 .. Len(f) : i <= n => SetLen(f, n)[i] = f[i]
<1>1. Len(f) \in Nat /\ \A i \in 1 .. Len(f) : f[i] \in Byte
  BY LenProperties, ElementOfSeq
<1>2. SetLen(f, n) \in [1 .. n -> Byte]
  BY <1>1 DEF SetLen, Byte
<1>3. CASE n \in Nat
  BY <1>1, <1>2, <1>3, FunctionIsSeq DEF SetLen
<1>4. CASE n \notin Nat
  <2>1. 1 .. n = 1 .. 0
    BY <1>4
  <2>2. SetLen(f, n) \in [1 .. 0 -> Byte]
    BY <1>2, <2>1
  <2> QED BY <1>1, <1>4, <2>2, FunctionIsSeq
<1> QED BY <1>3, <1>4

\* Removing n elements from position first.
LEMMA WithoutSectorsFacts ==
  ASSUME NEW s \in Seq(Blocks), NEW first \in Nat \ {0}, NEW n \in Nat, first + n - 1 <= Len(s)
  PROVE  /\ WithoutSectors(s, first, n) \in Seq(Blocks)
         /\ Len(WithoutSectors(s, first, n)) = Len(s) - n
         /\ \A i \in 1 .. Len(s) - n :
              WithoutSectors(s, first, n)[i] = IF i < first THEN s[i] ELSE s[i + n]
<1> DEFINE a == SubSeq(s, 1, first - 1)
           b == SubSeq(s, first + n, Len(s))
           c == a \o b
<1>1. Len(s) \in Nat /\ \A i \in 1 .. Len(s) : s[i] \in Blocks
  BY LenProperties, ElementOfSeq
<1>2. /\ a \in Seq(Blocks) /\ Len(a) = first - 1
      /\ \A i \in 1 .. first - 1 : a[i] = s[i]
  <2>1. 1 \in Int /\ first - 1 \in Int /\ \A i \in 1 .. first - 1 : s[i] \in Blocks
    BY <1>1
  <2> HIDE DEF a
  <2>2. /\ a \in Seq(Blocks) /\ Len(a) = IF 1 <= first - 1 THEN (first - 1) - 1 + 1 ELSE 0
        /\ \A i \in 1 .. (first - 1) - 1 + 1 : a[i] = s[1 + i - 1]
    BY <2>1, SubSeqProperties DEF a
  <2> QED BY <2>2
<1>3. /\ b \in Seq(Blocks) /\ Len(b) = Len(s) - (first + n) + 1
      /\ \A i \in 1 .. Len(s) - (first + n) + 1 : b[i] = s[first + n + i - 1]
  <2> DEFINE d == first + n
             l == Len(s)
  <2>1. d \in Int /\ l \in Int /\ \A i \in d .. l : s[i] \in Blocks
    BY <1>1
  <2>2. b = SubSeq(s, d, l)
    OBVIOUS
  <2>3. d <= l + 1
    BY <1>1
  <2> HIDE DEF b, d, l
  <2>4. /\ b \in Seq(Blocks) /\ Len(b) = IF d <= l THEN l - d + 1 ELSE 0
        /\ \A i \in 1 .. l - d + 1 : b[i] = s[d + i - 1]
    BY <2>1, <2>2, SubSeqProperties
  <2>5. Len(b) = l - d + 1
    BY <2>1, <2>3, <2>4
  <2> QED BY <2>4, <2>5 DEF d, l
<1> HIDE DEF a, b
<1>4. /\ c \in Seq(Blocks)
      /\ Len(c) = Len(a) + Len(b)
      /\ \A i \in 1 .. Len(a) + Len(b) : c[i] = IF i <= Len(a) THEN a[i] ELSE b[i - Len(a)]
  BY <1>2, <1>3, ConcatProperties DEF c
<1> HIDE DEF c
<1>5. WithoutSectors(s, first, n) = c
  BY DEF WithoutSectors, a, b, c
<1>6. Len(a) + Len(b) = Len(s) - n
  BY <1>1, <1>2, <1>3
<1>7. ASSUME NEW i \in 1 .. Len(s) - n PROVE c[i] = IF i < first THEN s[i] ELSE s[i + n]
  <2>0. i \in 1 .. Len(a) + Len(b)
    BY <1>6
  <2>1. CASE i < first
    <3>1. i <= Len(a) /\ i \in 1 .. first - 1
      BY <1>1, <1>2, <2>1
    <3>2. c[i] = a[i]
      BY <1>4, <2>0, <3>1
    <3> QED BY <1>2, <2>1, <3>1, <3>2
  <2>2. CASE i >= first
    <3>1. i - Len(a) \in 1 .. Len(s) - (first + n) + 1 /\ ~(i <= Len(a))
          /\ first + n + (i - Len(a)) - 1 = i + n
      BY <1>1, <1>2, <2>2
    <3>2. c[i] = b[i - Len(a)]
      BY <1>4, <2>0, <3>1
    <3>3. b[i - Len(a)] = s[first + n + (i - Len(a)) - 1]
      BY <1>3, <3>1
    <3> QED BY <2>2, <3>1, <3>2, <3>3
  <2> QED BY <2>1, <2>2
<1> QED BY <1>4, <1>5, <1>6, <1>7

-----------------------------------------------------------------------------
(* Layouts.                                                                *)

\* The runs of two blocks follow one another.
LEMMA RunsAreApart ==
  ASSUME NEW t \in [Blocks -> Entry], NEW s \in Seq(Blocks), Layout(t, s),
         NEW p \in Blocks, NEW q \in Blocks, p # q, Present(t, p), Present(t, q)
  PROVE  \/ t[p].index + t[p].count <= t[q].index
         \/ t[q].index + t[q].count <= t[p].index
<1>1. /\ t[p].index \in Nat /\ t[p].count \in Nat /\ t[p].count > 0
      /\ t[q].index \in Nat /\ t[q].count \in Nat /\ t[q].count > 0
  BY DEF Layout, Entry
<1>2. /\ \A i \in Run(t, p) : s[i] = p
      /\ \A i \in Run(t, q) : s[i] = q
  BY DEF Layout
<1>3. SUFFICES ASSUME t[p].index + t[p].count > t[q].index, t[q].index + t[q].count > t[p].index
               PROVE  FALSE
  BY <1>1
<1> DEFINE a == t[p].index
           b == t[q].index
           first == IF a >= b THEN a + 1 ELSE b + 1
<1>4. Run(t, p) = a + 1 .. a + t[p].count /\ Run(t, q) = b + 1 .. b + t[q].count
  BY DEF Run
<1>5. a \in Nat /\ b \in Nat /\ t[p].count \in Nat \ {0} /\ t[q].count \in Nat \ {0}
      /\ a + t[p].count > b /\ b + t[q].count > a
  BY <1>1, <1>3
<1> HIDE DEF a, b
<1>6. first \in Run(t, p) /\ first \in Run(t, q)
  BY <1>4, <1>5
<1> QED BY <1>2, <1>6

\* The empty table.
LEMMA EmptyLayout ==
  Layout([p \in Blocks |-> Empty], <<>>) /\ [p \in Blocks |-> Empty] \in [Blocks -> Entry]
BY EmptySeq DEF Layout, Present, Empty, Entry

\* The sectors that the reverse map gives to a block are its run.
LEMMA MapIsExact ==
  ASSUME NEW t \in [Blocks -> Entry], NEW s \in Seq(Blocks), Layout(t, s), NEW p \in Blocks
  PROVE  {i \in DOMAIN s : s[i] = p} = IF Present(t, p) THEN Run(t, p) ELSE {}
<1>1. DOMAIN s = 1 .. Len(s) /\ Len(s) \in Nat
  BY LenProperties
<1>2. CASE Present(t, p)
  <2>1. t[p].index \in Nat /\ t[p].count \in Nat /\ t[p].index + t[p].count <= Len(s)
    BY <1>2 DEF Layout, Entry
  <2>2. ASSUME NEW i \in Run(t, p) PROVE i \in DOMAIN s /\ s[i] = p
    BY <1>1, <1>2, <2>1 DEF Layout, Run
  <2>3. ASSUME NEW i \in DOMAIN s, s[i] = p PROVE i \in Run(t, p)
    BY <1>1, <2>3 DEF Layout
  <2> QED BY <1>2, <2>2, <2>3
<1>3. CASE ~Present(t, p)
  <2>1. ASSUME NEW i \in DOMAIN s PROVE s[i] # p
    BY <1>1, <1>3 DEF Layout
  <2> QED BY <1>3, <2>1
<1> QED BY <1>2, <1>3

\* The number of naturals below i.
LEMMA BelowCount ==
  ASSUME NEW n \in Nat, NEW i \in 0 .. n - 1
  PROVE  Cardinality({j \in 0 .. n - 1 : j < i}) = i
<1>1. {j \in 0 .. n - 1 : j < i} = 0 .. i - 1
  OBVIOUS
<1>2. 0 \in Int /\ i - 1 \in Int
  OBVIOUS
<1>3. Cardinality(0 .. i - 1) = IF 0 > i - 1 THEN 0 ELSE (i - 1) - 0 + 1
  BY <1>2, FS_Interval
<1>4. Cardinality(0 .. i - 1) = i
  BY <1>3
<1> QED BY <1>1, <1>4

\* rebuild_sectors finds the reverse map of a table without gaps.
LEMMA RebuiltIsExact ==
  ASSUME NEW t \in [Blocks -> Entry], NEW s \in Seq(Blocks), Layout(t, s)
  PROVE  RebuiltSectors(t) = s
<1> DEFINE n == Len(s)
<1>0. n \in Nat /\ s \in [1 .. n -> Blocks] /\ \A i \in 1 .. n : s[i] \in Blocks
  BY LenProperties, ElementOfSeq
<1>1. ASSUME NEW p \in PresentIn(t), NEW i
      PROVE  i \in Span(t, p) <=> i \in 0 .. n - 1 /\ s[i + 1] = p
  <2>1. /\ p \in Blocks /\ Present(t, p) /\ t[p].index \in Nat /\ t[p].count \in Nat
        /\ t[p].count > 0 /\ t[p].index + t[p].count <= n
        /\ \A j \in Run(t, p) : s[j] = p
    BY <1>1 DEF PresentIn, Layout, Entry
  <2>2. ASSUME i \in Span(t, p) PROVE i \in 0 .. n - 1 /\ s[i + 1] = p
    <3>1. i \in 0 .. n - 1 /\ i + 1 \in Run(t, p)
      BY <1>0, <2>1, <2>2 DEF Span, Run
    <3> QED BY <2>1, <3>1
  <2>3. ASSUME i \in 0 .. n - 1, s[i + 1] = p PROVE i \in Span(t, p)
    <3>1. i + 1 \in 1 .. n
      BY <1>0, <2>3
    <3>2. i + 1 \in Run(t, p)
      BY <2>3, <3>1 DEF Layout
    <3> QED BY <2>1, <2>3, <3>2 DEF Span, Run
  <2> QED BY <2>2, <2>3
<1>2. \A i \in 0 .. n - 1 : s[i + 1] \in PresentIn(t)
  <2> TAKE i \in 0 .. n - 1
  <2>1. i + 1 \in 1 .. n
    BY <1>0
  <2> QED BY <1>0, <2>1 DEF Layout, PresentIn
<1>3. UsedSectors(t) = 0 .. n - 1
  <2>1. ASSUME NEW i \in UsedSectors(t) PROVE i \in 0 .. n - 1
    BY <1>1, <2>1 DEF UsedSectors
  <2>2. ASSUME NEW i \in 0 .. n - 1 PROVE i \in UsedSectors(t)
    <3>1. s[i + 1] \in PresentIn(t) /\ i \in Span(t, s[i + 1])
      BY <1>1, <1>2, <2>2
    <3> QED BY <3>1 DEF UsedSectors
  <2> QED BY <2>1, <2>2
<1>4. Cardinality(UsedSectors(t)) = n
  <2> HIDE DEF n
  <2>1. 0 \in Int /\ n - 1 \in Int
    BY <1>0
  <2>2. Cardinality(0 .. n - 1) = IF 0 > n - 1 THEN 0 ELSE (n - 1) - 0 + 1
    BY <2>1, FS_Interval
  <2>3. Cardinality(0 .. n - 1) = n
    BY <1>0, <2>2
  <2> QED BY <1>3, <2>3
<1>5. ASSUME NEW k \in 1 .. n
      PROVE  (CHOOSE p \in PresentIn(t) :
                \E i \in Span(t, p) : Cardinality({j \in UsedSectors(t) : j < i}) = k - 1) = s[k]
  <2>1. ASSUME NEW p \in PresentIn(t)
        PROVE  (\E i \in Span(t, p) : Cardinality({j \in UsedSectors(t) : j < i}) = k - 1)
                 <=> p = s[k]
    <3>1. ASSUME NEW i \in Span(t, p)
          PROVE  i \in 0 .. n - 1 /\ s[i + 1] = p
                 /\ Cardinality({j \in UsedSectors(t) : j < i}) = i
      BY <1>0, <1>1, <1>3, <3>1, BelowCount
    <3>2. ASSUME NEW i \in Span(t, p), Cardinality({j \in UsedSectors(t) : j < i}) = k - 1
          PROVE  p = s[k]
      <4>1. i \in 0 .. n - 1 /\ s[i + 1] = p
        BY <3>1
      <4>2. i = k - 1
        BY <3>1, <3>2, Zenon
      <4>3. i + 1 = k
        BY <1>0, <4>1, <4>2
      <4> QED BY <4>1, <4>3
    <3>3. ASSUME p = s[k]
          PROVE  \E i \in Span(t, p) : Cardinality({j \in UsedSectors(t) : j < i}) = k - 1
      <4>1. k - 1 \in 0 .. n - 1 /\ (k - 1) + 1 = k
        BY <1>0
      <4>2. k - 1 \in Span(t, p)
        BY <1>1, <3>3, <4>1
      <4> QED BY <3>1, <4>2
    <3> QED BY <3>2, <3>3
  <2>2. s[k] \in PresentIn(t)
    <3>1. k - 1 \in 0 .. n - 1 /\ (k - 1) + 1 = k
      BY <1>0
    <3> QED BY <1>2, <3>1
  <2> QED BY <2>1, <2>2
<1>6. RebuiltSectors(t) = [k \in 1 .. n |-> s[k]]
  BY <1>4, <1>5 DEF RebuiltSectors
<1>7. [k \in 1 .. n |-> s[k]] = s
  BY <1>0
<1> QED BY <1>6, <1>7

-----------------------------------------------------------------------------
(* Sectors and bytes.                                                      *)

LEMMA SizesFacts == \A size \in Sizes : size \in Nat /\ size > 1
<1>1. Sizes \subseteq Nat \ {0, 1}
  BY RegionAssumption
<1> QED BY <1>1

\* Rounding up to whole sectors.
LEMMA SectorCountFacts ==
  ASSUME NEW bytes \in Nat
  PROVE  /\ SectorCount(bytes) \in Nat
         /\ bytes <= SectorCount(bytes) * SectorSize
         /\ SectorCount(bytes) * SectorSize < bytes + SectorSize
         /\ bytes > 0 => SectorCount(bytes) > 0
<1> DEFINE q == SectorCount(bytes)
           r == (bytes + SectorSize - 1) % SectorSize
<1>1. SectorSize \in Nat /\ SectorSize > 0
  BY RegionAssumption
<1>2. /\ q \in Int /\ r \in 0 .. SectorSize - 1
      /\ bytes + SectorSize - 1 = SectorSize * q + r
  BY <1>1 DEF SectorCount
<1> HIDE DEF q, r
<1>3. SectorSize * q = q * SectorSize /\ q * SectorSize \in Int
  BY <1>1, <1>2
<1>4. q >= 0
  <2>1. SUFFICES ASSUME q <= -1 PROVE FALSE
    BY <1>2
  <2>2. q * SectorSize <= (-1) * SectorSize
    BY <1>1, <1>2, <2>1
  <2> QED BY <1>1, <1>2, <1>3, <2>2
<1>5. bytes <= q * SectorSize /\ q * SectorSize < bytes + SectorSize
  BY <1>1, <1>2, <1>3
<1>6. bytes > 0 => q > 0
  <2>1. q = 0 => q * SectorSize = 0
    BY <1>1
  <2> QED BY <1>2, <1>4, <1>5, <2>1
<1> QED BY <1>2, <1>4, <1>5, <1>6 DEF q

-----------------------------------------------------------------------------
(* The steps of a save and the layout.                                     *)

\* What the plan of a save is while sectors are removed.
LEMMA RemovalFacts ==
  ASSUME RegionTypeOK, OpExact, pc \in {"shift", "cut"}, Layout(lut, sectors)
  PROVE  /\ Present(lut, op.pos)
         /\ op.remove \in 1 .. lut[op.pos].count
         /\ op.append => op.remove = lut[op.pos].count
         /\ ~op.append => lut[op.pos].count - op.remove = SectorCount(op.size)
                          /\ SectorCount(op.size) > 0
<1> DEFINE old == lut[op.pos].count
           new == SectorCount(op.size)
<1>1. /\ op.pos \in Blocks /\ op.size \in Sizes /\ old \in Nat /\ op.remove > 0
      /\ op.remove = IF new > old THEN old ELSE old - new
      /\ op.append = (~Present(lut, op.pos) \/ new > old)
  BY DEF RegionTypeOK, OpExact, Plan, InSave, Entry
<1>2. op.size \in Nat /\ op.size > 0
  BY <1>1, SizesFacts
<1>3. new \in Nat /\ new > 0
  BY <1>2, SectorCountFacts
<1> HIDE DEF new
<1>4. Present(lut, op.pos)
  <2>1. SUFFICES ASSUME ~Present(lut, op.pos) PROVE FALSE
    OBVIOUS
  <2>2. old = 0
    BY <2>1 DEF Present, Empty
  <2> QED BY <1>1, <1>3, <2>2
<1>5. op.remove \in 1 .. old
  BY <1>1, <1>3
<1>6. op.append <=> new > old
  BY <1>1, <1>4
<1> QED BY <1>1, <1>3, <1>4, <1>5, <1>6 DEF new

\* u is the table t without n sectors at the end of the run of p0.
IsCut(t, u, p0, n) ==
  /\ u \in [Blocks -> Entry]
  /\ u[p0] = IF n = t[p0].count THEN Empty
             ELSE [index |-> t[p0].index, count |-> t[p0].count - n]
  /\ \A p \in Blocks \ {p0} :
       /\ ~Present(t, p) => u[p] = Empty
       /\ Present(t, p) =>
            \/ t[p].index + t[p].count <= t[p0].index /\ u[p] = t[p]
            \/ /\ t[p].index >= t[p0].index + t[p0].count
               /\ u[p] = [index |-> t[p].index - n, count |-> t[p].count]

\* The entries of the table without the removed sectors.
LEMMA CutEntries ==
  ASSUME RegionTypeOK, Layout(lut, sectors), Present(lut, op.pos),
         op.remove \in 1 .. lut[op.pos].count
  PROVE  IsCut(lut, CutTable, op.pos, op.remove)
<1>1. /\ op.pos \in Blocks /\ lut \in [Blocks -> Entry] /\ sectors \in Seq(Blocks)
      /\ \A p \in Blocks : lut[p] \in Entry /\ lut[p].index \in Nat /\ lut[p].count \in Nat
      /\ \A p \in Blocks : Present(lut, p) => lut[p].count > 0
      /\ Empty \in Entry
  BY DEF RegionTypeOK, Layout, Entry, Empty
<1>2. /\ CutTable[op.pos] =
           IF op.remove = lut[op.pos].count THEN Empty
           ELSE [index |-> lut[op.pos].index, count |-> lut[op.pos].count - op.remove]
      /\ CutTable[op.pos] \in Entry
  <2>1. CutTable[op.pos] = Shrunk(lut[op.pos], op.remove)
    BY <1>1 DEF CutTable
  <2>2. CASE op.remove = lut[op.pos].count
    BY <1>1, <2>1, <2>2 DEF Shrunk
  <2>3. CASE op.remove # lut[op.pos].count
    <3>1. lut[op.pos] = [index |-> lut[op.pos].index, count |-> lut[op.pos].count]
      BY <1>1 DEF Entry
    <3>2. CutTable[op.pos] = [lut[op.pos] EXCEPT !.count = lut[op.pos].count - op.remove]
      BY <2>1, <2>3 DEF Shrunk
    <3>3. CutTable[op.pos] = [index |-> lut[op.pos].index, count |-> lut[op.pos].count - op.remove]
      BY <3>1, <3>2
    <3>4. lut[op.pos].count - op.remove \in Nat
      BY <1>1
    <3> QED BY <1>1, <2>3, <3>3, <3>4 DEF Entry
  <2> QED BY <2>2, <2>3
<1>3. ASSUME NEW p \in Blocks \ {op.pos}
      PROVE  /\ CutTable[p] \in Entry
             /\ ~Present(lut, p) => CutTable[p] = Empty
             /\ Present(lut, p) =>
                  \/ /\ lut[p].index + lut[p].count <= lut[op.pos].index
                     /\ CutTable[p] = lut[p]
                  \/ /\ lut[p].index >= lut[op.pos].index + lut[op.pos].count
                     /\ CutTable[p] = [index |-> lut[p].index - op.remove, count |-> lut[p].count]
  <2>1. CutTable[p] = IF Present(lut, p) THEN Shifted(lut[p], lut[op.pos].index, op.remove) ELSE Empty
    BY <1>3 DEF CutTable
  <2>2. CASE ~Present(lut, p)
    BY <1>1, <2>1, <2>2
  <2>3. CASE Present(lut, p)
    <3>1. \/ lut[p].index + lut[p].count <= lut[op.pos].index
          \/ lut[op.pos].index + lut[op.pos].count <= lut[p].index
      BY <1>1, <1>3, <2>3, RunsAreApart
    <3>2. CASE lut[p].index + lut[p].count <= lut[op.pos].index
      <4>1. ~(lut[p].index > lut[op.pos].index)
        BY <1>1, <2>3, <3>2
      <4>2. CutTable[p] = lut[p]
        BY <2>1, <2>3, <4>1 DEF Shifted
      <4> QED BY <1>1, <1>3, <2>3, <3>2, <4>2
    <3>3. CASE lut[op.pos].index + lut[op.pos].count <= lut[p].index
      <4>1. lut[p].index > lut[op.pos].index /\ lut[p].index - op.remove \in Nat
        <5> DEFINE i == lut[p].index
                   j == lut[op.pos].index
                   c == lut[op.pos].count
                   n == op.remove
        <5>1. i \in Nat /\ j \in Nat /\ c \in Nat /\ n \in Nat /\ n > 0 /\ n <= c /\ j + c <= i
          BY <1>1, <3>3
        <5> HIDE DEF i, j, c, n
        <5>2. i > j /\ i - n \in Nat
          BY <5>1
        <5> QED BY <5>2 DEF i, j, n
      <4>2. CutTable[p] = [lut[p] EXCEPT !.index = lut[p].index - op.remove]
        BY <2>1, <2>3, <4>1 DEF Shifted
      <4>3. CutTable[p] = [index |-> lut[p].index - op.remove, count |-> lut[p].count]
        BY <1>1, <1>3, <4>2 DEF Entry
      <4> QED BY <1>1, <1>3, <2>3, <3>3, <4>1, <4>3 DEF Entry
    <3> QED BY <3>1, <3>2, <3>3
  <2> QED BY <2>2, <2>3
<1>4. CutTable \in [Blocks -> Entry]
  <2>1. \A p \in Blocks : CutTable[p] \in Entry
    BY <1>2, <1>3
  <2> QED BY <2>1 DEF CutTable
<1> QED BY <1>2, <1>3, <1>4 DEF IsCut

\* The same for a table that is one layout with the map s.
Cutting(t, u, s, p0, n) ==
  /\ t \in [Blocks -> Entry] /\ s \in Seq(Blocks) /\ Layout(t, s)
  /\ p0 \in Blocks /\ Present(t, p0) /\ n \in Nat /\ n > 0 /\ n <= t[p0].count
  /\ IsCut(t, u, p0, n)

\* What a block that stays has.
LEMMA CutRuns ==
  ASSUME NEW t, NEW u, NEW s, NEW p0, NEW n, Cutting(t, u, s, p0, n), NEW p \in Blocks
  PROVE  /\ t[p0].index \in Nat /\ t[p0].count \in Nat /\ t[p].index \in Nat /\ t[p].count \in Nat
         /\ Present(u, p) =>
              /\ Present(t, p) /\ t[p].count > 0 /\ u[p].count > 0
              /\ \/ p = p0 /\ u[p].index = t[p].index /\ u[p].count = t[p].count - n
                 \/ /\ p # p0 /\ t[p].index + t[p].count <= t[p0].index
                    /\ u[p].index = t[p].index /\ u[p].count = t[p].count
                 \/ /\ p # p0 /\ t[p].index >= t[p0].index + t[p0].count
                    /\ u[p].index = t[p].index - n /\ u[p].count = t[p].count
         /\ Present(t, p) /\ (p = p0 => n # t[p0].count) => Present(u, p)
<1>1. /\ t[p0].index \in Nat /\ t[p0].count \in Nat /\ t[p].index \in Nat /\ t[p].count \in Nat
      /\ Present(t, p) => t[p].count > 0
  BY DEF Cutting, Layout, Entry
<1>0. IsCut(t, u, p0, n) /\ p0 \in Blocks /\ Present(t, p0) /\ n \in Nat /\ n > 0 /\ n <= t[p0].count
  BY DEF Cutting
<1>2. CASE p = p0
  <2>1. CASE n = t[p0].count
    BY <1>0, <1>1, <1>2, <2>1 DEF IsCut, Present
  <2>2. CASE n # t[p0].count
    <3>1. u[p].index = t[p].index /\ u[p].count = t[p].count - n
      BY <1>0, <1>2, <2>2 DEF IsCut
    <3>2. u[p].count > 0
      BY <1>0, <1>1, <1>2, <2>2, <3>1
    <3>3. u[p] # Empty
      BY <3>2 DEF Empty
    <3> QED BY <1>0, <1>1, <1>2, <3>1, <3>2, <3>3 DEF Present
  <2> QED BY <2>1, <2>2
<1>3. CASE p # p0
  <2>1. CASE ~Present(t, p)
    <3>1. u[p] = Empty
      BY <1>0, <1>3, <2>1 DEF IsCut
    <3> QED BY <1>0, <1>1, <1>3, <2>1, <3>1 DEF Present
  <2>2. CASE Present(t, p)
    <3>1. \/ t[p].index + t[p].count <= t[p0].index /\ u[p] = t[p]
          \/ /\ t[p].index >= t[p0].index + t[p0].count
             /\ u[p] = [index |-> t[p].index - n, count |-> t[p].count]
      BY <1>0, <1>3, <2>2 DEF IsCut
    <3>2. CASE t[p].index + t[p].count <= t[p0].index /\ u[p] = t[p]
      BY <1>1, <1>3, <2>2, <3>2 DEF Present
    <3>3. CASE /\ t[p].index >= t[p0].index + t[p0].count
               /\ u[p] = [index |-> t[p].index - n, count |-> t[p].count]
      <4>1. u[p].index = t[p].index - n /\ u[p].count = t[p].count
        BY <3>3
      <4>2. u[p] # Empty
        BY <1>1, <2>2, <4>1 DEF Empty
      <4> QED BY <1>0, <1>1, <1>3, <2>2, <3>3, <4>1, <4>2 DEF Present
    <3> QED BY <3>1, <3>2, <3>3
  <2> QED BY <2>1, <2>2
<1> QED BY <1>2, <1>3

\* Cutting the end of a run out of the table and of the map keeps one layout.
LEMMA CutLayout ==
  ASSUME NEW t, NEW u, NEW s, NEW p0, NEW n, Cutting(t, u, s, p0, n),
         NEW first, first = t[p0].index + t[p0].count - n + 1
  PROVE  /\ WithoutSectors(s, first, n) \in Seq(Blocks)
         /\ Len(WithoutSectors(s, first, n)) = Len(s) - n
         /\ Layout(u, WithoutSectors(s, first, n))
<1> DEFINE r == WithoutSectors(s, first, n)
<1>0. /\ t \in [Blocks -> Entry] /\ s \in Seq(Blocks) /\ Layout(t, s)
      /\ p0 \in Blocks /\ Present(t, p0) /\ n \in Nat /\ n > 0 /\ n <= t[p0].count
  BY DEF Cutting
<1>1. /\ \A p \in Blocks : t[p].index \in Nat /\ t[p].count \in Nat
      /\ \A p \in Blocks : Present(t, p) => t[p].count > 0 /\ t[p].index + t[p].count <= Len(s)
      /\ \A i \in 1 .. Len(s) : Present(t, s[i]) /\ i \in Run(t, s[i])
      /\ \A p \in Blocks : Present(t, p) => \A i \in Run(t, p) : s[i] = p
      /\ Len(s) \in Nat /\ \A i \in 1 .. Len(s) : s[i] \in Blocks
  BY <1>0, LenProperties, ElementOfSeq DEF Layout, Entry
<1>2. /\ t[p0].index \in Nat /\ t[p0].count \in Nat
      /\ t[p0].index + t[p0].count <= Len(s)
  BY <1>0, <1>1
<1>3. first \in Nat \ {0} /\ first + n - 1 <= Len(s)
  BY <1>0, <1>2
<1>4. /\ r \in Seq(Blocks) /\ Len(r) = Len(s) - n
      /\ \A i \in 1 .. Len(s) - n : r[i] = IF i < first THEN s[i] ELSE s[i + n]
  <2>1. n \in Nat /\ first \in Nat \ {0} /\ first + n - 1 <= Len(s) /\ s \in Seq(Blocks)
    BY <1>0, <1>3
  <2> QED BY <2>1, WithoutSectorsFacts
<1> HIDE DEF r
<1> DEFINE a == t[p0].index
           b == t[p0].count
<1>5. /\ a \in Nat /\ b \in Nat /\ a + b <= Len(s)
      /\ n \in Nat /\ n > 0 /\ n <= b /\ Len(s) \in Nat /\ Len(r) = Len(s) - n
      /\ first = a + b - n + 1
  BY <1>0, <1>1, <1>2, <1>4
<1>6. ASSUME NEW p \in Blocks, Present(u, p)
      PROVE  u[p].count > 0 /\ u[p].index + u[p].count <= Len(r) /\ \A i \in Run(u, p) : r[i] = p
  <2> DEFINE c == t[p].index
             d == t[p].count
             x == u[p].index
             y == u[p].count
  <2>1. /\ y > 0
        /\ \/ p = p0 /\ c = a /\ d = b /\ x = c /\ y = d - n
           \/ c + d <= a /\ x = c /\ y = d
           \/ c >= a + b /\ x = c - n /\ y = d
    BY <1>6, CutRuns
  <2>2. Present(t, p)
    BY <1>6, CutRuns
  <2>3. c \in Nat /\ d \in Nat /\ d > 0 /\ c + d <= Len(s)
    BY <1>1, <2>2
  <2>4. \A i \in c + 1 .. c + d : s[i] = p
    BY <1>1, <2>2 DEF Run
  <2>5. Run(u, p) = x + 1 .. x + y
    BY DEF Run
  <2> HIDE DEF a, b, c, d, x, y
  <2>6. x + y <= Len(r)
    BY <1>5, <2>1, <2>3
  <2>7. ASSUME NEW i \in x + 1 .. x + y PROVE r[i] = p
    <3>1. i \in Nat /\ i >= x + 1 /\ i <= x + y /\ x \in Nat
      BY <1>5, <2>1, <2>3
    <3>2. i \in 1 .. Len(s) - n
      BY <1>5, <2>6, <2>1, <2>3, <3>1
    <3>3. \/ i < first /\ i \in c + 1 .. c + d
          \/ ~(i < first) /\ i + n \in c + 1 .. c + d
      BY <1>5, <2>1, <2>3, <3>1
    <3> QED BY <1>4, <2>4, <3>2, <3>3
  <2> QED BY <2>1, <2>5, <2>6, <2>7 DEF x, y
<1>7. ASSUME NEW i \in 1 .. Len(r) PROVE Present(u, r[i]) /\ i \in Run(u, r[i])
  <2> DEFINE k == IF i < first THEN i ELSE i + n
             p == s[k]
             c == t[p].index
             d == t[p].count
             x == u[p].index
             y == u[p].count
  <2>1. i \in 1 .. Len(s) - n /\ k \in 1 .. Len(s) /\ i \in Nat
    BY <1>1, <1>5
  <2>2. r[i] = p
    BY <1>4, <2>1
  <2>3. p \in Blocks /\ Present(t, p) /\ k \in Run(t, p)
    BY <1>1, <2>1
  <2> HIDE DEF p
  <2>4. c \in Nat /\ d \in Nat /\ k \in c + 1 .. c + d
    BY <1>1, <2>3 DEF Run
  <2>5. p = p0 => n # b
    <3>1. p = p0 => c = a /\ d = b
      OBVIOUS
    <3> HIDE DEF a, b, c, d
    <3> QED BY <1>5, <2>1, <2>4, <3>1
  <2>6. Present(u, p)
    BY <2>3, <2>5, CutRuns
  <2>7. \/ p = p0 /\ c = a /\ d = b /\ x = c /\ y = d - n
        \/ c + d <= a /\ x = c /\ y = d
        \/ c >= a + b /\ x = c - n /\ y = d
    BY <2>3, <2>6, CutRuns
  <2>8. Run(u, p) = x + 1 .. x + y
    BY DEF Run
  <2> HIDE DEF a, b, c, d, x, y
  <2>9. i \in x + 1 .. x + y
    <3>1. i \in Nat /\ n \in Nat /\ a \in Nat /\ b \in Nat /\ c \in Nat /\ d \in Nat
      BY <1>5, <2>1, <2>4
    <3>2. CASE p = p0 /\ c = a /\ d = b /\ x = c /\ y = d - n
      BY <1>5, <2>1, <2>4, <3>1, <3>2
    <3>3. CASE c + d <= a /\ x = c /\ y = d
      BY <1>5, <2>1, <2>4, <3>1, <3>3
    <3>4. CASE c >= a + b /\ x = c - n /\ y = d
      BY <1>5, <2>1, <2>4, <3>1, <3>4
    <3> QED BY <2>7, <3>2, <3>3, <3>4
  <2> QED BY <2>2, <2>6, <2>8, <2>9
<1>8. Layout(u, r)
  BY <1>6, <1>7 DEF Layout
<1> QED BY <1>4, <1>8 DEF r

\* Removing sectors keeps the order of the blocks that stay.
LEMMA CutOrder ==
  ASSUME NEW t, NEW u, NEW s, NEW p0, NEW n, Cutting(t, u, s, p0, n),
         NEW p \in Blocks, NEW q \in Blocks, Present(u, p), Present(u, q)
  PROVE  /\ Present(t, p) /\ Present(t, q)
         /\ t[p].index <= t[q].index => u[p].index <= u[q].index
<1> DEFINE a == t[p0].index
           b == t[p0].count
           c == t[p].index
           d == t[p].count
           e == t[q].index
           f == t[q].count
           x == u[p].index
           y == u[q].index
<1>1. /\ a \in Nat /\ b \in Nat /\ c \in Nat /\ d \in Nat /\ Present(t, p) /\ d > 0
      /\ \/ c = a /\ x = c
         \/ c + d <= a /\ x = c
         \/ c >= a + b /\ x = c - n
  BY CutRuns
<1>2. /\ e \in Nat /\ f \in Nat /\ Present(t, q) /\ f > 0
      /\ \/ e = a /\ y = e
         \/ e + f <= a /\ y = e
         \/ e >= a + b /\ y = e - n
  BY CutRuns
<1>3. n \in Nat /\ n <= b
  BY DEF Cutting
<1> HIDE DEF a, b, c, d, e, f, x, y
<1>4. c <= e => x <= y
  BY <1>1, <1>2, <1>3
<1> QED BY <1>1, <1>2, <1>4 DEF c, e, x, y

\* u and r are t and s with a run of n sectors for p at the end.
Appended(t, s, p, n, u, r) ==
  /\ u = [t EXCEPT ![p] = [index |-> Len(s), count |-> n]]
  /\ r = s \o [i \in 1 .. n |-> p]

\* A block appended to the map gets an entry behind all the others.
LEMMA AppendLayout ==
  ASSUME NEW t \in [Blocks -> Entry], NEW s \in Seq(Blocks), Layout(t, s),
         NEW p \in Blocks, ~Present(t, p), NEW n \in Nat, n > 0,
         NEW u, NEW r, Appended(t, s, p, n, u, r)
  PROVE  u \in [Blocks -> Entry] /\ r \in Seq(Blocks) /\ Len(r) = Len(s) + n /\ Layout(u, r)
<1> DEFINE tail == [i \in 1 .. n |-> p]
<1>0. r = s \o tail
  BY DEF Appended
<1>1. Len(s) \in Nat /\ \A i \in 1 .. Len(s) : s[i] \in Blocks
  BY LenProperties, ElementOfSeq
<1>2. tail \in Seq(Blocks) /\ Len(tail) = n /\ \A i \in 1 .. n : tail[i] = p
  <2>1. tail \in [1 .. n -> Blocks]
    OBVIOUS
  <2>2. \A i \in 1 .. n : tail[i] = p
    OBVIOUS
  <2> HIDE DEF tail
  <2> QED BY <2>1, <2>2, FunctionIsSeq
<1> HIDE DEF tail
<1>3. /\ r \in Seq(Blocks) /\ Len(r) = Len(s) + n
      /\ \A i \in 1 .. Len(s) + n : r[i] = IF i <= Len(s) THEN s[i] ELSE tail[i - Len(s)]
  BY <1>0, <1>2, ConcatProperties
<1>4. \A i \in 1 .. Len(s) + n : r[i] = IF i <= Len(s) THEN s[i] ELSE p
  <2> TAKE i \in 1 .. Len(s) + n
  <2>1. i <= Len(s) \/ i - Len(s) \in 1 .. n
    BY <1>1
  <2> QED BY <1>2, <1>3, <2>1
<1>5. /\ u \in [Blocks -> Entry]
      /\ u[p] = [index |-> Len(s), count |-> n]
      /\ \A q \in Blocks \ {p} : u[q] = t[q]
  BY <1>1 DEF Entry, Appended
<1>6. u[p].index = Len(s) /\ u[p].count = n /\ Present(u, p)
  <2>1. u[p].index = Len(s) /\ u[p].count = n
    BY <1>5
  <2>2. u[p] # Empty
    BY <2>1 DEF Empty
  <2> QED BY <2>1, <2>2 DEF Present
<1>7. /\ \A q \in Blocks : Present(t, q) => t[q].count > 0 /\ t[q].index + t[q].count <= Len(s)
      /\ \A i \in 1 .. Len(s) : Present(t, s[i]) /\ i \in Run(t, s[i])
      /\ \A q \in Blocks : Present(t, q) => \A i \in Run(t, q) : s[i] = q
      /\ \A q \in Blocks : t[q].index \in Nat /\ t[q].count \in Nat
  BY DEF Layout, Entry
<1>8. ASSUME NEW q \in Blocks, Present(u, q)
      PROVE  u[q].count > 0 /\ u[q].index + u[q].count <= Len(r) /\ \A i \in Run(u, q) : r[i] = q
  <2>1. CASE q = p
    <3>1. ASSUME NEW i \in Run(u, q) PROVE r[i] = q
      <4>1. i \in 1 .. Len(s) + n /\ ~(i <= Len(s))
        BY <1>1, <1>6, <2>1, <3>1 DEF Run
      <4> QED BY <1>4, <2>1, <4>1
    <3> QED BY <1>1, <1>3, <1>6, <2>1, <3>1
  <2>2. CASE q # p
    <3>1. u[q] = t[q] /\ Present(t, q)
      BY <1>5, <1>8, <2>2 DEF Present
    <3>2. ASSUME NEW i \in Run(u, q) PROVE r[i] = q
      <4>1. i \in Run(t, q)
        BY <3>1, <3>2 DEF Run
      <4>2. i \in 1 .. Len(s) + n /\ i <= Len(s)
        BY <1>1, <1>7, <3>1, <4>1 DEF Run
      <4> QED BY <1>4, <1>7, <3>1, <4>1, <4>2
    <3> QED BY <1>1, <1>3, <1>7, <3>1, <3>2
  <2> QED BY <2>1, <2>2
<1>9. ASSUME NEW i \in 1 .. Len(r) PROVE Present(u, r[i]) /\ i \in Run(u, r[i])
  <2>1. i \in 1 .. Len(s) + n
    BY <1>3
  <2>2. CASE i <= Len(s)
    <3>1. i \in 1 .. Len(s) /\ r[i] = s[i]
      BY <1>1, <1>4, <2>1, <2>2
    <3>2. s[i] \in Blocks /\ Present(t, s[i]) /\ i \in Run(t, s[i])
      BY <1>1, <1>7, <3>1
    <3>3. u[s[i]] = t[s[i]]
      BY <1>5, <3>2
    <3> QED BY <3>1, <3>2, <3>3 DEF Present, Run
  <2>3. CASE ~(i <= Len(s))
    BY <1>1, <1>4, <1>6, <2>1, <2>3 DEF Run
  <2> QED BY <2>2, <2>3
<1>10. Layout(u, r)
  BY <1>8, <1>9 DEF Layout
<1> QED BY <1>3, <1>5, <1>10

-----------------------------------------------------------------------------
(* What a save writes.                                                     *)

LEMMA OffsetFacts ==
  ASSUME NEW a \in Nat, NEW b \in Nat
  PROVE  /\ Offset(a) \in Nat
         /\ a * SectorSize \in Nat
         /\ Offset(a + b) = Offset(a) + b * SectorSize
         /\ a <= b => Offset(b) - a * SectorSize = Offset(b - a)
         /\ a <= b => a * SectorSize <= b * SectorSize
         /\ a < b => a * SectorSize + SectorSize <= b * SectorSize
<1>1. SectorSize \in Nat /\ SectorSize > 0 /\ HeaderTail \in Nat
  BY RegionAssumption
<1>2. a * SectorSize \in Nat /\ b * SectorSize \in Nat
  BY <1>1
<1>3. (a + b) * SectorSize = a * SectorSize + b * SectorSize
  BY <1>1
<1>4. (b - a) * SectorSize = b * SectorSize - a * SectorSize
  BY <1>1
<1>5. a <= b => a * SectorSize <= b * SectorSize
  <2>1. SUFFICES ASSUME a <= b PROVE a * SectorSize <= b * SectorSize
    OBVIOUS
  <2>2. b - a \in Nat
    BY <2>1
  <2>3. (b - a) * SectorSize \in Nat
    BY <1>1, <2>2
  <2> QED BY <1>2, <1>4, <2>3
<1>6. a < b => a * SectorSize + SectorSize <= b * SectorSize
  <2>1. SUFFICES ASSUME a < b PROVE a * SectorSize + SectorSize <= b * SectorSize
    OBVIOUS
  <2>2. b - a - 1 \in Nat
    BY <2>1
  <2>3. (b - a - 1) * SectorSize \in Nat
    BY <1>1, <2>2
  <2>4. (b - a - 1) * SectorSize = b * SectorSize - a * SectorSize - SectorSize
    BY <1>1
  <2> QED BY <1>1, <1>2, <2>3, <2>4
<1> QED BY <1>1, <1>2, <1>3, <1>4, <1>5, <1>6 DEF Offset

\* The bytes of the save under way.
LEMMA NewBytesFacts ==
  ASSUME RegionTypeOK, op.size \in Sizes
  PROVE  /\ NewBytes \in Seq(Byte) /\ Len(NewBytes) = op.size
         /\ SubSeq(NewBytes, 1, 1) \in Seq(Byte) /\ Len(SubSeq(NewBytes, 1, 1)) = 1
         /\ SubSeq(NewBytes, 1, 1)[1] = <<op.pos, saves, 1>>
         /\ SubSeq(NewBytes, 2, op.size) \in Seq(Byte)
         /\ Len(SubSeq(NewBytes, 2, op.size)) = op.size - 1
         /\ \A i \in 1 .. op.size - 1 : SubSeq(NewBytes, 2, op.size)[i] = <<op.pos, saves, i + 1>>
<1> DEFINE n == op.size
           b == NewBytes
<1>1. op.pos \in Blocks /\ saves \in Nat /\ n \in Nat /\ n > 1
  BY SizesFacts DEF RegionTypeOK
<1>2. \A i \in 1 .. n : <<op.pos, saves, i>> \in Byte
  BY <1>1 DEF Byte
<1>3. b = [i \in 1 .. n |-> <<op.pos, saves, i>>]
  BY DEF NewBytes, Bytes
<1>4. b \in [1 .. n -> Byte] /\ \A i \in 1 .. n : b[i] = <<op.pos, saves, i>>
  BY <1>2, <1>3
<1> HIDE DEF n, b
<1>5. b \in Seq(Byte) /\ Len(b) = n
  BY <1>1, <1>4, FunctionIsSeq
<1>6. /\ SubSeq(b, 1, 1) \in Seq(Byte) /\ Len(SubSeq(b, 1, 1)) = 1
      /\ SubSeq(b, 1, 1)[1] = b[1]
  <2> DEFINE c == SubSeq(b, 1, 1)
  <2>1. 1 \in Int /\ \A i \in 1 .. 1 : b[i] \in Byte
    BY <1>1, <1>2, <1>4
  <2> HIDE DEF c
  <2>2. /\ c \in Seq(Byte)
        /\ Len(c) = IF 1 <= 1 THEN 1 - 1 + 1 ELSE 0
        /\ \A i \in 1 .. 1 - 1 + 1 : c[i] = b[1 + i - 1]
    BY <2>1, SubSeqProperties DEF c
  <2>3. Len(c) = 1 /\ c[1] = b[1]
    BY <2>2
  <2> QED BY <2>2, <2>3 DEF c
<1>7. /\ SubSeq(b, 2, n) \in Seq(Byte) /\ Len(SubSeq(b, 2, n)) = n - 1
      /\ \A i \in 1 .. n - 1 : SubSeq(b, 2, n)[i] = b[i + 1]
  <2> DEFINE c == SubSeq(b, 2, n)
  <2>1. 2 \in Int /\ n \in Int /\ \A i \in 2 .. n : b[i] \in Byte
    BY <1>1, <1>2, <1>4
  <2> HIDE DEF c
  <2>2. /\ c \in Seq(Byte)
        /\ Len(c) = IF 2 <= n THEN n - 2 + 1 ELSE 0
        /\ \A i \in 1 .. n - 2 + 1 : c[i] = b[2 + i - 1]
    BY <2>1, SubSeqProperties DEF c
  <2>3. Len(c) = n - 1
    BY <1>1, <2>2
  <2>4. ASSUME NEW i \in 1 .. n - 1 PROVE c[i] = b[i + 1]
    <3>1. i \in 1 .. n - 2 + 1 /\ 2 + i - 1 = i + 1
      BY <1>1
    <3> QED BY <2>2, <3>1
  <2> QED BY <2>2, <2>3, <2>4 DEF c
<1>8. b[1] = <<op.pos, saves, 1>> /\ \A i \in 1 .. n - 1 : b[i + 1] = <<op.pos, saves, i + 1>>
  BY <1>1, <1>4
<1> QED BY <1>5, <1>6, <1>7, <1>8 DEF n, b

\* A run of one byte.
LEMMA FillFacts ==
  ASSUME NEW n \in Nat, NEW byte \in Byte
  PROVE  [i \in 1 .. n |-> byte] \in Seq(Byte) /\ Len([i \in 1 .. n |-> byte]) = n
<1> DEFINE f == [i \in 1 .. n |-> byte]
<1>1. f \in [1 .. n -> Byte]
  OBVIOUS
<1> HIDE DEF f
<1>2. f \in Seq(Byte) /\ Len(f) = n
  BY <1>1, FunctionIsSeq
<1> QED BY <1>2 DEF f

\* The end of a sequence of bytes.
LEMMA TailFacts ==
  ASSUME NEW f \in Seq(Byte), NEW from \in Nat, from < Len(f)
  PROVE  /\ SubSeq(f, from + 1, Len(f)) \in Seq(Byte)
         /\ Len(SubSeq(f, from + 1, Len(f))) = Len(f) - from
         /\ \A i \in 1 .. Len(f) - from : SubSeq(f, from + 1, Len(f))[i] = f[from + i]
<1> DEFINE n == Len(f)
           c == SubSeq(f, from + 1, n)
<1>1. n \in Nat /\ from < n /\ \A i \in 1 .. n : f[i] \in Byte
  BY LenProperties, ElementOfSeq
<1> HIDE DEF n, c
<1>2. from + 1 \in Int /\ n \in Int /\ \A i \in from + 1 .. n : f[i] \in Byte
  BY <1>1
<1>3. /\ c \in Seq(Byte)
      /\ Len(c) = IF from + 1 <= n THEN n - (from + 1) + 1 ELSE 0
      /\ \A i \in 1 .. n - (from + 1) + 1 : c[i] = f[from + 1 + i - 1]
  BY <1>2, SubSeqProperties DEF c
<1>4. Len(c) = n - from
  BY <1>1, <1>3
<1>5. ASSUME NEW i \in 1 .. n - from PROVE c[i] = f[from + i]
  <2>1. i \in 1 .. n - (from + 1) + 1 /\ from + 1 + i - 1 = from + i
    BY <1>1
  <2> QED BY <1>3, <2>1
<1> QED BY <1>3, <1>4, <1>5 DEF n, c

\* The number of zeros that pad_to_sector_size writes.
LEMMA MissingFacts ==
  ASSUME NEW end \in Nat
  PROVE  (SectorSize - (end % SectorSize)) % SectorSize \in 0 .. SectorSize - 1
<1>1. SectorSize \in Nat /\ SectorSize > 0
  BY RegionAssumption
<1>2. SectorSize - (end % SectorSize) \in Int
  BY <1>1
<1> QED BY <1>1, <1>2

\* The file stays a sequence of bytes.
LEMMA FileTyped ==
  ASSUME LayoutInv, Next
  PROVE  file' \in Seq(Byte)
<1>0. RegionTypeOK /\ OpExact
  BY DEF LayoutInv
<1>1. /\ file \in Seq(Byte) /\ op.pos \in Blocks /\ op.remove \in Nat /\ Len(sectors) \in Nat
      /\ lut[op.pos].index \in Nat /\ lut[op.pos].count \in Nat
      /\ Len(file) \in Nat
  BY <1>0, LenProperties DEF RegionTypeOK, Entry
<1>2. op.size \in Sizes /\ pc \in InSave => NewBytes \in Seq(Byte)
  BY <1>0, NewBytesFacts
<1>3. Offset(Target) \in Nat
  <2>1. Target \in Nat
    BY <1>1 DEF Target
  <2> QED BY <2>1, OffsetFacts
<1>4. pc \in InSave => op.size \in Sizes /\ op.size \in Nat
  BY <1>0, SizesFacts DEF OpExact
<1>5. Zero \in Byte /\ HeaderByte \in Byte
  BY DEF Byte
<1>6. CASE ShiftTail
  <2>1. pc = "shift" /\ Layout(lut, sectors)
    BY <1>6 DEF ShiftTail, LayoutInv, InSave
  <2>2. op.remove \in 1 .. lut[op.pos].count
    BY <1>0, <2>1, RemovalFacts
  <2> DEFINE e == lut[op.pos].index + lut[op.pos].count
             at == SourceStart - op.remove * SectorSize
  <2>3. e \in Nat /\ op.remove <= e /\ e - op.remove \in Nat
    <3> DEFINE a == lut[op.pos].index
               c == lut[op.pos].count
               n == op.remove
    <3>1. a \in Nat /\ c \in Nat /\ n \in Nat /\ n <= c
      BY <1>1, <2>2
    <3>2. e = a + c
      OBVIOUS
    <3> HIDE DEF a, c, n
    <3>3. e \in Nat /\ n <= e /\ e - n \in Nat
      BY <3>1, <3>2
    <3> QED BY <3>3 DEF n
  <2>4. SourceStart = Offset(e)
    BY DEF SourceStart
  <2> HIDE DEF e
  <2>5. SourceStart \in Nat /\ at = Offset(e - op.remove) /\ at \in Nat
    <3>1. op.remove \in Nat /\ op.remove <= e
      BY <1>1, <2>3
    <3>2. Offset(e) \in Nat /\ Offset(e) - op.remove * SectorSize = Offset(e - op.remove)
      BY <2>3, <3>1, OffsetFacts
    <3>3. Offset(e - op.remove) \in Nat
      BY <2>3, OffsetFacts
    <3> QED BY <2>4, <3>2, <3>3
  <2> HIDE DEF at
  <2>6. CASE Len(file) > SourceStart
    <3>1. SubSeq(file, SourceStart + 1, Len(file)) \in Seq(Byte)
      BY <1>1, <2>5, <2>6, TailFacts
    <3>2. WriteAt(file, at, SubSeq(file, SourceStart + 1, Len(file))) \in Seq(Byte)
      BY <1>1, <2>5, <3>1, WriteAtFacts
    <3> QED BY <1>6, <2>6, <3>2 DEF ShiftTail, at
  <2>7. CASE ~(Len(file) > SourceStart)
    BY <1>1, <1>6, <2>7 DEF ShiftTail
  <2> QED BY <2>6, <2>7
<1>7. CASE CutFile
  <2>1. Len(file) - op.remove * SectorSize \in Int
    BY <1>1, OffsetFacts
  <2>2. file' = SetLen(file, Len(file) - op.remove * SectorSize)
    BY <1>7 DEF CutFile
  <2> QED BY <1>1, <2>1, <2>2, SetLenFacts
<1>8. CASE WritePrefix
  <2>1. pc = "prefix" /\ file' = WriteAt(file, Offset(Target), SubSeq(NewBytes, 1, 1))
    BY <1>8 DEF WritePrefix
  <2>2. SubSeq(NewBytes, 1, 1) \in Seq(Byte)
    BY <1>0, <1>4, <2>1, NewBytesFacts DEF InSave
  <2> QED BY <1>1, <1>3, <2>1, <2>2, WriteAtFacts
<1>9. CASE WritePayload
  <2>1. pc = "payload" /\ file' = WriteAt(file, Offset(Target) + 1, SubSeq(NewBytes, 2, op.size))
    BY <1>9 DEF WritePayload
  <2>2. SubSeq(NewBytes, 2, op.size) \in Seq(Byte)
    BY <1>0, <1>4, <2>1, NewBytesFacts DEF InSave
  <2>3. Offset(Target) + 1 \in Nat
    BY <1>3
  <2> QED BY <1>1, <2>1, <2>2, <2>3, WriteAtFacts
<1>10. ASSUME pc = "pad" PROVE Padded \in Seq(Byte)
  <2> DEFINE end == Offset(Target) + op.size
             missing == (SectorSize - (end % SectorSize)) % SectorSize
             zeros == [i \in 1 .. missing |-> Zero]
  <2>1. end \in Nat
    BY <1>3, <1>4, <1>10 DEF InSave
  <2>2. Padded = WriteAt(file, end, zeros)
    BY DEF Padded
  <2> HIDE DEF end
  <2>3. missing \in Nat
    BY <2>1, MissingFacts, RegionAssumption
  <2> HIDE DEF missing
  <2>4. zeros \in Seq(Byte)
    BY <1>5, <2>3, FillFacts
  <2> HIDE DEF zeros
  <2> QED BY <1>1, <2>1, <2>2, <2>4, WriteAtFacts
<1>11. CASE PadAndRegister
  BY <1>10, <1>11 DEF PadAndRegister
<1>12. CASE RegisterFails
  BY <1>10, <1>12 DEF RegisterFails
<1>13. CASE WriteHeader
  <2> DEFINE header == [i \in 1 .. HeaderTail |-> HeaderByte]
  <2>1. HeaderTail \in Nat
    BY RegionAssumption
  <2>2. header \in Seq(Byte)
    BY <1>5, <2>1, FillFacts
  <2>3. file' = WriteAt(file, 0, header)
    BY <1>13 DEF WriteHeader
  <2> HIDE DEF header
  <2> QED BY <1>1, <2>2, <2>3, WriteAtFacts
<1>14. CASE UNCHANGED file
  BY <1>1, <1>14
<1>15. /\ \A p \in Blocks, size \in Sizes : BeginSave(p, size) => UNCHANGED file
       /\ Open => UNCHANGED file
       /\ Close => UNCHANGED file
       /\ Crash => UNCHANGED file
  BY DEF BeginSave, Open, Close, Crash
<1> QED BY <1>6, <1>7, <1>8, <1>9, <1>11, <1>12, <1>13, <1>14, <1>15 DEF Next, SaveStep

-----------------------------------------------------------------------------
(* The table and the map: every step keeps the invariant.                  *)

OpType == [pos : Blocks, size : Sizes \cup {0}, remove : Nat, append : BOOLEAN]

LEMMA NoOpTyped == NoOp \in OpType
<1>1. (CHOOSE p \in Blocks : TRUE) \in Blocks
  BY RegionAssumption
<1> QED BY <1>1 DEF NoOp, OpType

\* What the plan of a save is.
LEMMA PlanFacts ==
  ASSUME RegionTypeOK, Layout(lut, sectors), NEW p \in Blocks, NEW size \in Sizes
  PROVE  /\ Plan(p, size) \in OpType
         /\ Plan(p, size).pos = p /\ Plan(p, size).size = size
         /\ Plan(p, size).remove = 0 =>
              IF Plan(p, size).append THEN ~Present(lut, p)
              ELSE Present(lut, p) /\ lut[p].count = SectorCount(size)
<1> DEFINE old == lut[p].count
           new == SectorCount(size)
           n == IF new > old THEN old ELSE old - new
           app == ~Present(lut, p) \/ new > old
<1>1. Plan(p, size) = [pos |-> p, size |-> size, remove |-> n, append |-> app]
  BY DEF Plan
<1>2. old \in Nat /\ (Present(lut, p) => old > 0)
  BY DEF RegionTypeOK, Layout, Entry
<1>3. new \in Nat /\ new > 0
  BY SizesFacts, SectorCountFacts
<1> HIDE DEF new
<1>4. n \in Nat /\ (n = 0 => old = new \/ old = 0)
  BY <1>2, <1>3
<1>5. n = 0 => IF app THEN ~Present(lut, p) ELSE Present(lut, p) /\ old = new
  BY <1>2, <1>3
<1>6. app \in BOOLEAN
  OBVIOUS
<1> HIDE DEF old, n, app
<1>7. /\ Plan(p, size) \in OpType /\ Plan(p, size).pos = p /\ Plan(p, size).size = size
      /\ Plan(p, size).remove = n /\ Plan(p, size).append = app
  BY <1>1, <1>4, <1>6 DEF OpType
<1> QED BY <1>5, <1>7 DEF old, new

LEMMA LayoutInit == Init => LayoutInv
<1> SUFFICES ASSUME Init PROVE LayoutInv
  OBVIOUS
<1>1. /\ file = [i \in 1 .. HeaderTail |-> HeaderByte]
      /\ diskLut = [p \in Blocks |-> Empty] /\ lut = diskLut /\ sectors = <<>> /\ pc = "idle"
      /\ op = NoOp /\ saves = 0 /\ saved = [p \in Blocks |-> Never] /\ crashes = 0 /\ failures = 0
  BY DEF Init
<1>2. Layout(lut, sectors) /\ lut \in [Blocks -> Entry] /\ sectors \in Seq(Blocks)
  BY <1>1, EmptyLayout, EmptySeq
<1>3. file \in Seq(Byte)
  <2>1. HeaderTail \in Nat /\ HeaderByte \in Byte
    BY RegionAssumption DEF Byte
  <2> QED BY <1>1, <2>1, FillFacts
<1>4. saved \in [Blocks -> [save : 0 .. MaxSaves, size : Sizes \cup {0}]] /\ saves \in 0 .. MaxSaves
  <2>1. Never \in [save : 0 .. MaxSaves, size : Sizes \cup {0}] /\ 0 \in 0 .. MaxSaves
    BY RegionAssumption DEF Never
  <2> QED BY <1>1, <2>1
<1>5. RegionTypeOK
  BY <1>1, <1>2, <1>3, <1>4, NoOpTyped DEF RegionTypeOK, OpType
<1>6. OpExact
  BY <1>1 DEF OpExact, InSave
<1>7. Contiguous(diskLut)
  BY <1>1, <1>2 DEF Contiguous
<1>8. Derived
  BY <1>1 DEF Derived
<1> QED BY <1>1, <1>2, <1>5, <1>6, <1>7, <1>8 DEF LayoutInv

\* A step that leaves the tables and the map as they are, and stays in the save.
LEMMA SameTables ==
  ASSUME LayoutInv, pc \in InSave \cup {"idle"}, pc' \in InSave \cup {"idle"},
         UNCHANGED <<diskLut, lut, sectors>>,
         pc = "header" => pc' = "header",
         Undisturbed' /\ pc' \in {"idle", "shift", "cut"} => Undisturbed /\ pc \in {"idle", "shift", "cut"}
  PROVE  /\ Layout(lut', sectors')
         /\ Contiguous(diskLut)'
         /\ Undisturbed' /\ pc' \in {"idle", "shift", "cut", "closed"} => diskLut' = lut'
         /\ pc' # "closed"
         /\ Derived'
<1>1. Layout(lut, sectors) /\ Contiguous(diskLut) /\ Derived
      /\ (Undisturbed /\ pc \in {"idle", "shift", "cut", "closed"} => diskLut = lut)
  BY DEF LayoutInv
<1>2. Layout(lut', sectors') /\ Contiguous(diskLut)'
  BY <1>1 DEF Contiguous, Layout, Run, Present
<1>3. pc' # "closed"
  BY DEF InSave
<1>4. Derived'
  BY <1>1 DEF Derived, Present
<1> QED BY <1>1, <1>2, <1>3, <1>4

LEMMA BeginSaveLayout ==
  ASSUME LayoutInv, NEW p \in Blocks, NEW size \in Sizes, BeginSave(p, size), Next
  PROVE  LayoutInv'
<1>1. /\ pc = "idle" /\ saves < MaxSaves /\ op' = Plan(p, size)
      /\ pc' = (IF op'.remove > 0 THEN "shift" ELSE "prefix")
      /\ saves' = saves + 1
      /\ UNCHANGED <<file, diskLut, lut, sectors, saved, crashes, failures>>
  BY DEF BeginSave, handleVars
<1>2. RegionTypeOK /\ Layout(lut, sectors)
  BY <1>1 DEF LayoutInv
<1>3. /\ op' \in OpType /\ op'.pos = p /\ op'.size = size
      /\ op'.remove = 0 => IF op'.append THEN ~Present(lut, p)
                           ELSE Present(lut, p) /\ lut[p].count = SectorCount(size)
  BY <1>1, <1>2, PlanFacts
<1>4. saves' \in 0 .. MaxSaves
  BY <1>1, <1>2, RegionAssumption DEF RegionTypeOK
<1>5. RegionTypeOK'
  BY <1>1, <1>2, <1>3, <1>4 DEF RegionTypeOK, InSave, OpType
<1>6. OpExact'
  <2>1. op'.remove \in Nat
    BY <1>3 DEF OpType
  <2>3. CASE op'.remove > 0
    <3>1. pc' = "shift"
      BY <1>1, <2>3
    <3>2. Plan(op.pos, op.size)' = op'
      BY <1>1, <1>3 DEF Plan, Present
    <3> QED BY <1>3, <2>3, <3>1, <3>2 DEF OpExact, InSave
  <2>4. CASE ~(op'.remove > 0)
    <3>1. pc' = "prefix" /\ op'.remove = 0
      BY <1>1, <2>1, <2>4
    <3>2. IF op'.append THEN ~Present(lut', op'.pos)
          ELSE Present(lut', op'.pos) /\ lut'[op'.pos].count = SectorCount(op'.size)
      BY <1>1, <1>3, <3>1 DEF Present
    <3> QED BY <1>3, <3>1, <3>2 DEF OpExact, InSave
  <2> QED BY <2>3, <2>4
<1>7. /\ Layout(lut', sectors')
      /\ Contiguous(diskLut)'
      /\ Undisturbed' /\ pc' \in {"idle", "shift", "cut", "closed"} => diskLut' = lut'
      /\ pc' # "closed"
      /\ Derived'
  <2>1. pc \in InSave \cup {"idle"} /\ pc' \in InSave \cup {"idle"} /\ pc # "header"
    BY <1>1 DEF InSave
  <2>2. Undisturbed' => Undisturbed
    BY <1>1 DEF Undisturbed
  <2>3. UNCHANGED <<diskLut, lut, sectors>>
    BY <1>1
  <2> QED BY <1>1, <2>1, <2>2, <2>3, SameTables
<1> QED BY <1>5, <1>6, <1>7 DEF LayoutInv

LEMMA ShiftTailLayout ==
  ASSUME LayoutInv, ShiftTail, Next
  PROVE  LayoutInv'
<1>1. /\ pc = "shift" /\ pc' = "cut"
      /\ UNCHANGED <<diskLut, lut, sectors, op, saves, saved, crashes, failures>>
  BY DEF ShiftTail, handleVars, historyVars
<1>2. RegionTypeOK'
  BY <1>1, FileTyped DEF LayoutInv, RegionTypeOK, InSave
<1>3. OpExact'
  <2>1. op.size \in Sizes /\ op = Plan(op.pos, op.size) /\ op.remove > 0
    BY <1>1 DEF LayoutInv, OpExact, InSave
  <2>2. Plan(op.pos, op.size)' = Plan(op.pos, op.size)
    BY <1>1 DEF Plan, Present
  <2> QED BY <1>1, <2>1, <2>2 DEF OpExact
<1>4. /\ Layout(lut', sectors')
      /\ Contiguous(diskLut)'
      /\ Undisturbed' /\ pc' \in {"idle", "shift", "cut", "closed"} => diskLut' = lut'
      /\ pc' # "closed"
      /\ Derived'
  <2>1. /\ pc \in InSave \cup {"idle"} /\ pc' \in InSave \cup {"idle"} /\ pc # "header"
        /\ pc \in {"idle", "shift", "cut"}
    BY <1>1 DEF InSave
  <2>2. Undisturbed' => Undisturbed
    BY <1>1 DEF Undisturbed
  <2> QED BY <1>1, <2>1, <2>2, SameTables
<1> QED BY <1>2, <1>3, <1>4 DEF LayoutInv

LEMMA CutFileLayout ==
  ASSUME LayoutInv, CutFile, Next
  PROVE  LayoutInv'
<1> DEFINE first == lut[op.pos].index + lut[op.pos].count - op.remove + 1
<1>1. /\ pc = "cut" /\ pc' = "prefix" /\ lut' = CutTable
      /\ sectors' = WithoutSectors(sectors, first, op.remove)
      /\ UNCHANGED <<diskLut, op, saves, saved, crashes, failures>>
  BY DEF CutFile, historyVars
<1>2. RegionTypeOK /\ OpExact /\ Layout(lut, sectors) /\ Contiguous(diskLut) /\ Derived
  BY <1>1 DEF LayoutInv, InSave
<1>3. /\ Present(lut, op.pos)
      /\ op.remove \in 1 .. lut[op.pos].count
      /\ op.append => op.remove = lut[op.pos].count
      /\ ~op.append => lut[op.pos].count - op.remove = SectorCount(op.size)
                       /\ SectorCount(op.size) > 0
  BY <1>1, <1>2, RemovalFacts
<1>4. IsCut(lut, CutTable, op.pos, op.remove)
  BY <1>2, <1>3, CutEntries
<1>5. op.pos \in Blocks /\ lut \in [Blocks -> Entry] /\ sectors \in Seq(Blocks)
  BY <1>2 DEF RegionTypeOK
<1>6. Cutting(lut, CutTable, sectors, op.pos, op.remove)
  <2>1. lut[op.pos].count \in Nat
    BY <1>5 DEF Entry
  <2>2. op.remove \in Nat /\ op.remove > 0 /\ op.remove <= lut[op.pos].count
    BY <1>3, <2>1
  <2> QED BY <1>2, <1>3, <1>4, <1>5, <2>2 DEF Cutting
<1>7. sectors' \in Seq(Blocks) /\ Layout(lut', sectors')
  <2> HIDE DEF first
  <2>1. first = lut[op.pos].index + lut[op.pos].count - op.remove + 1
    BY DEF first
  <2> QED BY <1>1, <1>6, <2>1, CutLayout
<1>8. RegionTypeOK'
  <2>1. lut' \in [Blocks -> Entry]
    BY <1>1, <1>4 DEF IsCut
  <2> QED BY <1>1, <1>2, <1>7, <2>1, FileTyped DEF RegionTypeOK, InSave
<1>9. OpExact'
  <2>1. op.size \in Sizes
    BY <1>1, <1>2 DEF OpExact, InSave
  <2>2. CutTable[op.pos] = IF op.remove = lut[op.pos].count THEN Empty
                           ELSE [index |-> lut[op.pos].index, count |-> lut[op.pos].count - op.remove]
    BY <1>4 DEF IsCut
  <2>3. CASE op.append
    <3>1. ~Present(lut', op.pos)
      BY <1>1, <1>3, <2>2, <2>3 DEF Present
    <3> QED BY <1>1, <2>1, <2>3, <3>1 DEF OpExact
  <2>4. CASE ~op.append
    <3> DEFINE new == SectorCount(op.size)
    <3>1. op.remove # lut[op.pos].count
      <4> DEFINE c == lut[op.pos].count
                 n == op.remove
      <4>1. c - n = new /\ new > 0 /\ c \in Nat /\ n \in Nat
        BY <1>3, <1>5, <2>4 DEF Entry
      <4> HIDE DEF c, n, new
      <4>2. n # c
        BY <4>1
      <4> QED BY <4>2 DEF n, c
    <3> HIDE DEF new
    <3>2. CutTable[op.pos] = [index |-> lut[op.pos].index, count |-> new]
      BY <1>3, <2>2, <2>4, <3>1 DEF new
    <3>3. lut'[op.pos].count = new /\ new > 0
      BY <1>1, <1>3, <2>4, <3>2 DEF new
    <3>4. Present(lut', op.pos)
      BY <3>3 DEF Present, Empty
    <3> QED BY <1>1, <2>1, <2>4, <3>3, <3>4 DEF OpExact, new
  <2> QED BY <2>3, <2>4
<1>10. Derived'
  <2> SUFFICES ASSUME NEW p \in Blocks, Present(lut', p)
               PROVE  /\ Present(diskLut, p)
                      /\ \A q \in Blocks : /\ Present(lut', q)
                                           /\ diskLut[p].index <= diskLut[q].index
                                           => lut'[p].index <= lut'[q].index
    BY <1>1 DEF Derived, Present
  <2>1. \A q \in Blocks : Present(lut', q) =>
           /\ Present(lut, p) /\ Present(lut, q)
           /\ lut[p].index <= lut[q].index => lut'[p].index <= lut'[q].index
    BY <1>1, <1>6, CutOrder
  <2>2. /\ Present(diskLut, p)
        /\ \A q \in Blocks : /\ Present(lut, q)
                             /\ diskLut[p].index <= diskLut[q].index
                             => lut[p].index <= lut[q].index
    BY <1>1, <1>2, <2>1 DEF Derived, InSave
  <2> QED BY <2>1, <2>2
<1>11. Contiguous(diskLut)'
  BY <1>1, <1>2 DEF Contiguous, Layout, Run, Present
<1> QED BY <1>1, <1>7, <1>8, <1>9, <1>10, <1>11 DEF LayoutInv

LEMMA WritePrefixLayout ==
  ASSUME LayoutInv, WritePrefix, Next
  PROVE  LayoutInv'
<1>1. /\ pc = "prefix" /\ pc' = "payload"
      /\ UNCHANGED <<diskLut, lut, sectors, op, saves, saved, crashes, failures>>
  BY DEF WritePrefix, handleVars, historyVars
<1>2. RegionTypeOK'
  BY <1>1, FileTyped DEF LayoutInv, RegionTypeOK, InSave
<1>3. OpExact'
  BY <1>1 DEF LayoutInv, OpExact, InSave, Present
<1>4. /\ Layout(lut', sectors')
      /\ Contiguous(diskLut)'
      /\ Undisturbed' /\ pc' \in {"idle", "shift", "cut", "closed"} => diskLut' = lut'
      /\ pc' # "closed"
      /\ Derived'
  <2>1. /\ pc \in InSave \cup {"idle"} /\ pc' \in InSave \cup {"idle"} /\ pc # "header"
        /\ pc' \notin {"idle", "shift", "cut"}
    BY <1>1 DEF InSave
  <2> QED BY <1>1, <2>1, SameTables
<1> QED BY <1>2, <1>3, <1>4 DEF LayoutInv

LEMMA WritePayloadLayout ==
  ASSUME LayoutInv, WritePayload, Next
  PROVE  LayoutInv'
<1>1. /\ pc = "payload" /\ pc' = (IF op.append THEN "pad" ELSE "header")
      /\ UNCHANGED <<diskLut, lut, sectors, op, saves, saved, crashes, failures>>
  BY DEF WritePayload, handleVars, historyVars
<1>2. RegionTypeOK'
  BY <1>1, FileTyped DEF LayoutInv, RegionTypeOK, InSave
<1>3. OpExact'
  BY <1>1 DEF LayoutInv, OpExact, InSave, Present
<1>4. /\ Layout(lut', sectors')
      /\ Contiguous(diskLut)'
      /\ Undisturbed' /\ pc' \in {"idle", "shift", "cut", "closed"} => diskLut' = lut'
      /\ pc' # "closed"
      /\ Derived'
  <2>1. /\ pc \in InSave \cup {"idle"} /\ pc' \in InSave \cup {"idle"} /\ pc # "header"
        /\ pc' \notin {"idle", "shift", "cut"}
    BY <1>1 DEF InSave
  <2> QED BY <1>1, <2>1, SameTables
<1> QED BY <1>2, <1>3, <1>4 DEF LayoutInv

LEMMA PadAndRegisterLayout ==
  ASSUME LayoutInv, PadAndRegister, Next
  PROVE  LayoutInv'
<1> DEFINE new == SectorCount(op.size)
<1>1. /\ pc = "pad" /\ pc' = "header"
      /\ lut' = [lut EXCEPT ![op.pos] = [index |-> Len(sectors), count |-> new]]
      /\ sectors' = sectors \o [i \in 1 .. new |-> op.pos]
      /\ UNCHANGED <<diskLut, op, saves, saved, crashes, failures>>
  BY DEF PadAndRegister, historyVars
<1>2. RegionTypeOK /\ OpExact /\ Layout(lut, sectors) /\ Contiguous(diskLut)
  BY <1>1 DEF LayoutInv, InSave
<1>3. op.size \in Sizes /\ ~Present(lut, op.pos)
  BY <1>1, <1>2 DEF OpExact, InSave
<1>4. op.pos \in Blocks /\ lut \in [Blocks -> Entry] /\ sectors \in Seq(Blocks)
  BY <1>2 DEF RegionTypeOK
<1>5. new \in Nat /\ new > 0
  BY <1>3, SizesFacts, SectorCountFacts
<1> HIDE DEF new
<1>6. lut' \in [Blocks -> Entry] /\ sectors' \in Seq(Blocks) /\ Layout(lut', sectors')
  <2>1. Appended(lut, sectors, op.pos, new, lut', sectors')
    BY <1>1 DEF Appended
  <2> QED BY <1>2, <1>3, <1>4, <1>5, <2>1, AppendLayout
<1>7. RegionTypeOK'
  BY <1>1, <1>2, <1>6, FileTyped DEF RegionTypeOK, InSave
<1>8. OpExact'
  <2>1. lut'[op.pos].count = new
    BY <1>1, <1>4
  <2>2. Present(lut', op.pos)
    BY <1>5, <2>1 DEF Present, Empty
  <2> QED BY <1>1, <1>3, <2>1, <2>2 DEF OpExact, new
<1>9. Contiguous(diskLut)'
  BY <1>1, <1>2 DEF Contiguous, Layout, Run, Present
<1>10. Derived'
  BY <1>1 DEF Derived
<1> QED BY <1>1, <1>6, <1>7, <1>8, <1>9, <1>10 DEF LayoutInv

LEMMA ForgottenTyped ==
  ASSUME RegionTypeOK
  PROVE  Forgotten \in [Blocks -> [save : 0 .. MaxSaves, size : Sizes \cup {0}]]
<1>1. Never \in [save : 0 .. MaxSaves, size : Sizes \cup {0}]
  BY RegionAssumption DEF Never
<1> QED BY <1>1 DEF RegionTypeOK, Forgotten

LEMMA RegisterFailsLayout ==
  ASSUME LayoutInv, RegisterFails, Next
  PROVE  LayoutInv'
<1>1. /\ pc = "pad" /\ pc' = "idle" /\ op' = NoOp /\ saved' = Forgotten /\ failures' = failures + 1
      /\ UNCHANGED <<diskLut, lut, sectors, saves, crashes>>
  BY DEF RegisterFails, handleVars
<1>2. RegionTypeOK
  BY DEF LayoutInv
<1>3. RegionTypeOK'
  BY <1>1, <1>2, FileTyped, ForgottenTyped, NoOpTyped DEF RegionTypeOK, InSave, OpType
<1>4. OpExact'
  BY <1>1 DEF OpExact, InSave
<1>5. /\ Layout(lut', sectors')
      /\ Contiguous(diskLut)'
      /\ Undisturbed' /\ pc' \in {"idle", "shift", "cut", "closed"} => diskLut' = lut'
      /\ pc' # "closed"
      /\ Derived'
  <2>1. pc \in InSave \cup {"idle"} /\ pc' \in InSave \cup {"idle"} /\ pc # "header"
    BY <1>1 DEF InSave
  <2>2. ~Undisturbed'
    BY <1>1, <1>2 DEF RegionTypeOK, Undisturbed
  <2> QED BY <1>1, <2>1, <2>2, SameTables
<1> QED BY <1>3, <1>4, <1>5 DEF LayoutInv

LEMMA WriteHeaderLayout ==
  ASSUME LayoutInv, WriteHeader, Next
  PROVE  LayoutInv'
<1>1. /\ pc = "header" /\ pc' = "idle" /\ op' = NoOp /\ diskLut' = lut
      /\ saved' = [saved EXCEPT ![op.pos] = [save |-> saves, size |-> op.size]]
      /\ UNCHANGED <<lut, sectors, saves, crashes, failures>>
  BY DEF WriteHeader, HeaderOf, handleVars
<1>2. RegionTypeOK /\ Layout(lut, sectors)
  BY <1>1 DEF LayoutInv, InSave
<1>3. saved' \in [Blocks -> [save : 0 .. MaxSaves, size : Sizes \cup {0}]]
  <2>1. /\ saves \in 0 .. MaxSaves /\ op.size \in Sizes \cup {0}
        /\ saved \in [Blocks -> [save : 0 .. MaxSaves, size : Sizes \cup {0}]]
    BY <1>2 DEF RegionTypeOK
  <2>2. [save |-> saves, size |-> op.size] \in [save : 0 .. MaxSaves, size : Sizes \cup {0}]
    BY <2>1
  <2> QED BY <1>1, <2>1, <2>2
<1>4. RegionTypeOK'
  BY <1>1, <1>2, <1>3, FileTyped, NoOpTyped DEF RegionTypeOK, InSave, OpType
<1>5. OpExact'
  BY <1>1 DEF OpExact, InSave
<1>6. Layout(lut', sectors') /\ Contiguous(diskLut)'
  <2>1. sectors \in Seq(Blocks) /\ Layout(diskLut', sectors)
    BY <1>1, <1>2 DEF RegionTypeOK, Layout, Run, Present
  <2>2. Layout(lut', sectors')
    BY <1>1, <1>2 DEF Layout, Run, Present
  <2> QED BY <2>1, <2>2 DEF Contiguous
<1>7. Derived'
  BY <1>1 DEF Derived, Present
<1> QED BY <1>1, <1>4, <1>5, <1>6, <1>7 DEF LayoutInv

LEMMA OpenLayout ==
  ASSUME LayoutInv, Open
  PROVE  LayoutInv'
<1>1. /\ pc = "closed"
      /\ UNCHANGED <<file, diskLut, op, saves, saved, crashes, failures>>
  BY DEF Open, historyVars
<1>2. RegionTypeOK /\ Contiguous(diskLut)
  BY DEF LayoutInv
<1>3. Contiguous(diskLut)'
  BY <1>1, <1>2 DEF Contiguous, Layout, Run, Present
<1>4. CASE Opens(file, diskLut)
  <2>1. lut' = diskLut /\ sectors' = RebuiltSectors(diskLut) /\ pc' = "idle"
    BY <1>4 DEF Open
  <2>2. PICK s \in Seq(Blocks) : Layout(diskLut, s)
    BY <1>2 DEF Contiguous
  <2>3. diskLut \in [Blocks -> Entry]
    BY <1>2 DEF RegionTypeOK
  <2>4. sectors' = s
    BY <2>1, <2>2, <2>3, RebuiltIsExact
  <2>5. RegionTypeOK'
    BY <1>1, <1>2, <2>1, <2>3, <2>4 DEF RegionTypeOK
  <2>6. Layout(lut', sectors')
    BY <2>1, <2>2, <2>4
  <2>7. OpExact' /\ Derived'
    BY <1>1, <2>1 DEF OpExact, InSave, Derived, Present
  <2> QED BY <1>1, <1>3, <2>1, <2>5, <2>6, <2>7 DEF LayoutInv
<1>5. CASE ~Opens(file, diskLut)
  <2>1. lut' = lut /\ sectors' = sectors /\ pc' = "unreadable"
    BY <1>5 DEF Open, handleVars
  <2>2. RegionTypeOK'
    BY <1>1, <1>2, <2>1 DEF RegionTypeOK
  <2>3. OpExact' /\ Derived'
    BY <2>1 DEF OpExact, InSave, Derived
  <2> QED BY <1>3, <2>1, <2>2, <2>3 DEF LayoutInv, InSave
<1> QED BY <1>4, <1>5

LEMMA CloseLayout ==
  ASSUME LayoutInv, Close
  PROVE  LayoutInv'
<1>1. /\ pc = "idle" /\ pc' = "closed"
      /\ UNCHANGED <<file, diskLut, lut, sectors, op, saves, saved, crashes, failures>>
  BY DEF Close, handleVars, historyVars
<1>2. RegionTypeOK /\ Contiguous(diskLut) /\ Layout(lut, sectors) /\ (Undisturbed => diskLut = lut)
  BY <1>1 DEF LayoutInv
<1>3. RegionTypeOK'
  BY <1>1, <1>2 DEF RegionTypeOK
<1>4. OpExact' /\ Derived'
  BY <1>1 DEF OpExact, InSave, Derived
<1>5. Contiguous(diskLut)' /\ Layout(lut', sectors')
  BY <1>1, <1>2 DEF Contiguous, Layout, Run, Present
<1>6. Undisturbed' => diskLut' = lut'
  BY <1>1, <1>2 DEF Undisturbed
<1> QED BY <1>1, <1>3, <1>4, <1>5, <1>6 DEF LayoutInv, InSave

LEMMA CrashLayout ==
  ASSUME LayoutInv, Crash
  PROVE  LayoutInv'
<1>1. /\ pc' = "closed" /\ op' = NoOp /\ crashes' = crashes + 1 /\ saved' = Forgotten
      /\ UNCHANGED <<file, diskLut, lut, sectors, saves, failures>>
  BY DEF Crash, handleVars
<1>2. RegionTypeOK /\ Contiguous(diskLut)
  BY DEF LayoutInv
<1>3. RegionTypeOK'
  BY <1>1, <1>2, ForgottenTyped, NoOpTyped DEF RegionTypeOK, OpType
<1>4. OpExact' /\ Derived'
  BY <1>1 DEF OpExact, InSave, Derived
<1>5. Contiguous(diskLut)'
  BY <1>1, <1>2 DEF Contiguous, Layout, Run, Present
<1>6. ~Undisturbed'
  BY <1>1, <1>2 DEF RegionTypeOK, Undisturbed
<1> QED BY <1>1, <1>3, <1>4, <1>5, <1>6 DEF LayoutInv, InSave

LEMMA LayoutNext == LayoutInv /\ [Next]_vars => LayoutInv'
<1> SUFFICES ASSUME LayoutInv, [Next]_vars PROVE LayoutInv'
  OBVIOUS
<1>1. CASE UNCHANGED vars
  <2>1. UNCHANGED <<file, diskLut, lut, sectors, pc, op, saves, saved, crashes, failures>>
    BY <1>1 DEF vars, handleVars, historyVars
  <2>2. RegionTypeOK'
    BY <2>1 DEF LayoutInv, RegionTypeOK
  <2>3. Plan(op.pos, op.size)' = Plan(op.pos, op.size)
    BY <2>1 DEF Plan, Present
  <2>4. OpExact'
    BY <2>1, <2>3 DEF LayoutInv, OpExact, Present
  <2>5. Layout(lut', sectors') <=> Layout(lut, sectors)
    BY <2>1
  <2>6. Contiguous(diskLut)' <=> Contiguous(diskLut)
    BY <2>1 DEF Contiguous, Layout, Run, Present
  <2>7. Derived' /\ (Undisturbed' <=> Undisturbed)
    BY <2>1 DEF LayoutInv, Derived, Present, Undisturbed
  <2> QED BY <2>1, <2>2, <2>4, <2>5, <2>6, <2>7 DEF LayoutInv
<1>2. CASE Next
  <2>1. ASSUME NEW p \in Blocks, NEW size \in Sizes, BeginSave(p, size) PROVE LayoutInv'
    BY <1>2, <2>1, BeginSaveLayout
  <2>2. CASE SaveStep
    BY <1>2, <2>2, ShiftTailLayout, CutFileLayout, WritePrefixLayout, WritePayloadLayout,
       PadAndRegisterLayout, RegisterFailsLayout, WriteHeaderLayout DEF SaveStep
  <2> QED BY <1>2, <2>1, <2>2, OpenLayout, CloseLayout, CrashLayout DEF Next
<1> QED BY <1>1, <1>2

\* The two sides of the layout, as the reverse map and as the table have it.
LEMMA LayoutGivesExact ==
  ASSUME LayoutInv
  PROVE  LayoutExact
<1>1. ASSUME pc = "idle", NEW p \in Blocks
      PROVE  {i \in DOMAIN sectors : sectors[i] = p}
               = IF Present(lut, p) THEN {i + 1 : i \in Span(lut, p)} ELSE {}
  <2>1. Layout(lut, sectors) /\ lut \in [Blocks -> Entry] /\ sectors \in Seq(Blocks)
    BY <1>1 DEF LayoutInv, RegionTypeOK
  <2>2. {i \in DOMAIN sectors : sectors[i] = p} = IF Present(lut, p) THEN Run(lut, p) ELSE {}
    BY <2>1, MapIsExact
  <2>3. lut[p].index \in Nat /\ lut[p].count \in Nat
    BY <2>1 DEF Entry
  <2>4. Run(lut, p) = {i + 1 : i \in Span(lut, p)}
    <3>1. ASSUME NEW i \in Run(lut, p) PROVE \E j \in Span(lut, p) : i = j + 1
      <4>1. i - 1 \in Span(lut, p) /\ i = (i - 1) + 1
        BY <2>3, <3>1 DEF Run, Span
      <4> QED BY <4>1
    <3>2. ASSUME NEW j \in Span(lut, p) PROVE j + 1 \in Run(lut, p)
      BY <2>3, <3>2 DEF Run, Span
    <3> QED BY <3>1, <3>2
  <2> QED BY <2>2, <2>4
<1>2. Undisturbed /\ pc = "idle" => diskLut = lut
  BY DEF LayoutInv
<1> QED BY <1>1, <1>2 DEF LayoutExact

\* Whatever is saved, fails or crashes, the lookup table and the reverse map of sectors describe one
\* layout between two saves, in which every sector of the data area has exactly one block; and the
\* table on disk is the one in memory while every save ended well (RegionFile::save_block,
\* remove_sectors_from_block, open).
THEOREM LayoutIsExact == Spec => []LayoutExact
<1>1. LayoutInv => LayoutExact
  BY LayoutGivesExact
<1> QED BY <1>1, LayoutInit, LayoutNext, PTL DEF Spec

\* Blocks, sectors, the state of the save and the history have their types (RegionFile).
THEOREM RegionTypeCorrect == Spec => []TypeOK
<1>1. LayoutInv => TypeOK
  <2> SUFFICES ASSUME LayoutInv PROVE TypeOK
    OBVIOUS
  <2>1. RegionTypeOK
    BY DEF LayoutInv
  <2>2. \A i \in DOMAIN sectors : sectors[i] \in Blocks
    BY <2>1, LenProperties, ElementOfSeq DEF RegionTypeOK
  <2> QED BY <2>1, <2>2 DEF RegionTypeOK, TypeOK, Entry, InSave
<1> QED BY <1>1, LayoutInit, LayoutNext, PTL DEF Spec

-----------------------------------------------------------------------------
(* Bytes.                                                                  *)

\* Sectors and bytes grow together.
LEMMA Offsets ==
  ASSUME NEW a \in Nat, NEW b \in Nat
  PROVE  /\ Offset(a) \in Nat /\ Offset(b) \in Nat /\ Room(a) \in Nat /\ Room(b) \in Nat
         /\ Offset(0) = HeaderTail /\ Room(0) = 0
         /\ a * SectorSize = Room(a)
         /\ Offset(a) = HeaderTail + Room(a)
         /\ Offset(a + b) = Offset(a) + Room(b)
         /\ a <= b => /\ Offset(a) <= Offset(b) /\ Room(a) <= Room(b)
                      /\ Offset(b - a) = Offset(b) - Room(a) /\ Room(b - a) = Room(b) - Room(a)
                      /\ b - a \in Nat
         /\ a < b => Room(a) + SectorSize <= Room(b)
         /\ HeaderTail \in Nat /\ HeaderTail < SectorSize /\ SectorSize \in Nat
<1>1. SectorSize \in Nat /\ SectorSize > 0 /\ HeaderTail \in Nat /\ HeaderTail < SectorSize
  BY RegionAssumption
<1>2. /\ Offset(a) = HeaderTail + a * SectorSize /\ Offset(b) = HeaderTail + b * SectorSize
      /\ Offset(0) = HeaderTail + 0 * SectorSize
      /\ Offset(a + b) = HeaderTail + (a + b) * SectorSize /\ Offset(b - a) = HeaderTail + (b - a) * SectorSize
  BY DEF Offset
<1>3. 0 * SectorSize = 0 /\ (a + b) * SectorSize = a * SectorSize + b * SectorSize
      /\ (b - a) * SectorSize = b * SectorSize - a * SectorSize
  BY <1>1
<1>4. /\ a * SectorSize \in Nat /\ b * SectorSize \in Nat
      /\ a <= b => a * SectorSize <= b * SectorSize
      /\ a < b => a * SectorSize + SectorSize <= b * SectorSize
  BY OffsetFacts
<1> QED BY <1>1, <1>2, <1>3, <1>4 DEF Room

\* Whole sectors from n, seen from the other side.
LEMMA WholeFacts ==
  ASSUME NEW n \in Nat, NEW k \in Nat, Room(n) <= Offset(k)
  PROVE  n <= k
<1> SUFFICES ASSUME k < n PROVE FALSE
  OBVIOUS
<1>1. Room(k) + SectorSize <= Room(n) /\ Offset(k) = HeaderTail + Room(k)
  BY Offsets
<1>2. Room(k) \in Nat /\ Room(n) \in Nat /\ HeaderTail \in Nat /\ SectorSize \in Nat /\ HeaderTail < SectorSize
  BY Offsets
<1> QED BY <1>1, <1>2

\* A block has room in its sectors, no more sectors than it needs, and its first sector is longer
\* than the header's tail.
LEMMA RoomFacts ==
  ASSUME NEW size \in Sizes
  PROVE  /\ SectorCount(size) \in Nat /\ SectorCount(size) > 0
         /\ size <= Room(SectorCount(size))
         /\ Room(SectorCount(size)) < size + SectorSize
         /\ HeaderTail < Room(SectorCount(size))
         /\ LeavesRoom(size) => size + HeaderTail <= Room(SectorCount(size))
<1>1. size \in Nat /\ size > 0
  BY SizesFacts
<1> DEFINE n == SectorCount(size)
<1>2. n \in Nat /\ n > 0 /\ size <= n * SectorSize /\ n * SectorSize < size + SectorSize
  BY <1>1, SectorCountFacts
<1>3. LeavesRoom(size) <=> size + HeaderTail <= n * SectorSize
  BY DEF LeavesRoom
<1> HIDE DEF n
<1>4. n * SectorSize = Room(n)
  BY DEF Room
<1>5. HeaderTail < Room(n)
  <2>1. Room(0) + SectorSize <= Room(n) /\ Room(0) = 0 /\ HeaderTail < SectorSize
    BY <1>2, Offsets
  <2>2. Room(n) \in Nat /\ HeaderTail \in Nat /\ SectorSize \in Nat
    BY <1>2, Offsets
  <2> QED BY <2>1, <2>2
<1> QED BY <1>2, <1>3, <1>4, <1>5 DEF n

\* What is kept ends before the header's tail would.
LEMMA KeptFacts ==
  ASSUME NEW f, NEW t \in [Blocks -> Entry], NEW p \in Blocks, NEW e, Kept(f, t, p, e)
  PROVE  /\ e.size \in Nat /\ e.size > 0 /\ HeaderTail \in Nat
         /\ Offset(t[p].index) \in Nat /\ Room(t[p].count) \in Nat
         /\ e.size + HeaderTail <= Room(t[p].count) /\ e.size <= Room(t[p].count)
<1>1. e.size \in Nat /\ e.size > 0 /\ e.size + HeaderTail <= Room(t[p].count)
  BY SizesFacts DEF Kept
<1>2. t[p].index \in Nat /\ t[p].count \in Nat
  BY DEF Entry
<1>3. Offset(t[p].index) \in Nat /\ Room(t[p].count) \in Nat /\ HeaderTail \in Nat
  BY <1>2, Offsets
<1> QED BY <1>1, <1>3

\* A write somewhere else leaves the bytes.
LEMMA HeldWrite ==
  ASSUME NEW f \in Seq(Byte), NEW start \in Nat, NEW p, NEW e, e.size \in Nat, Held(f, start, p, e),
         NEW at \in Nat, NEW bytes \in Seq(Byte),
         start + e.size <= at \/ start >= at + Len(bytes)
  PROVE  Held(WriteAt(f, at, bytes), start, p, e)
<1> DEFINE W == WriteAt(f, at, bytes)
           n == e.size
<1>1. Len(f) \in Nat /\ Len(bytes) \in Nat
  BY LenProperties
<1>2. /\ Len(W) = IF at + Len(bytes) > Len(f) THEN at + Len(bytes) ELSE Len(f)
      /\ \A i \in 1 .. Len(f) : i <= at \/ i > at + Len(bytes) => W[i] = f[i]
  BY WriteAtFacts
<1>3. start + n <= Len(f) /\ n \in Nat /\ \A j \in 1 .. n : f[start + j] = <<p, e.save, j>>
  BY DEF Held
<1>4. start + n <= at \/ start >= at + Len(bytes)
  OBVIOUS
<1> HIDE DEF W, n
<1>5. start + n <= Len(W)
  BY <1>1, <1>2, <1>3
<1>6. ASSUME NEW j \in 1 .. n PROVE W[start + j] = <<p, e.save, j>>
  <2>1. start + j \in 1 .. Len(f) /\ (start + j <= at \/ start + j > at + Len(bytes))
    BY <1>1, <1>3, <1>4
  <2> QED BY <1>2, <1>3, <2>1
<1> QED BY <1>5, <1>6 DEF Held, W, n

\* Bytes behind `from' move with the tail of the file.
LEMMA HeldShift ==
  ASSUME NEW f \in Seq(Byte), NEW start \in Nat, NEW p, NEW e, e.size \in Nat, Held(f, start, p, e),
         NEW from \in Nat, NEW to \in Nat, to <= from, from < Len(f), from <= start
  PROVE  Held(WriteAt(f, to, SubSeq(f, from + 1, Len(f))), start - (from - to), p, e)
<1> DEFINE b == SubSeq(f, from + 1, Len(f))
           W == WriteAt(f, to, b)
           n == e.size
           d == from - to
<1>1. Len(f) \in Nat
  BY LenProperties
<1>2. b \in Seq(Byte) /\ Len(b) = Len(f) - from /\ \A i \in 1 .. Len(f) - from : b[i] = f[from + i]
  BY TailFacts
<1> HIDE DEF b
<1>3. /\ Len(W) = IF to + Len(b) > Len(f) THEN to + Len(b) ELSE Len(f)
      /\ \A i \in 1 .. Len(b) : W[to + i] = b[i]
  BY <1>2, WriteAtFacts
<1>4. start + n <= Len(f) /\ n \in Nat /\ \A j \in 1 .. n : f[start + j] = <<p, e.save, j>>
  BY DEF Held
<1> HIDE DEF W, n
<1>5. (start - d) + n <= Len(W)
  BY <1>1, <1>2, <1>3, <1>4
<1>6. ASSUME NEW j \in 1 .. n PROVE W[(start - d) + j] = <<p, e.save, j>>
  <2> DEFINE i == start - from + j
  <2>1. i \in 1 .. Len(f) - from /\ to + i = (start - d) + j /\ from + i = start + j
    BY <1>1, <1>4
  <2> HIDE DEF i, d
  <2>2. W[to + i] = f[from + i]
    BY <1>2, <1>3, <2>1
  <2> QED BY <1>4, <2>1, <2>2
<1> QED BY <1>5, <1>6 DEF Held, W, n, b

\* Cutting the file behind the bytes leaves them.
LEMMA HeldCut ==
  ASSUME NEW f \in Seq(Byte), NEW start \in Nat, NEW p, NEW e, e.size \in Nat, Held(f, start, p, e),
         NEW m \in Nat, start + e.size <= m
  PROVE  Held(SetLen(f, m), start, p, e)
<1> DEFINE n == e.size
           W == SetLen(f, m)
<1>1. Len(f) \in Nat
  BY LenProperties
<1>2. Len(W) = m /\ \A i \in 1 .. Len(f) : i <= m => W[i] = f[i]
  BY SetLenFacts
<1>3. start + n <= Len(f) /\ n \in Nat /\ start + n <= m /\ \A j \in 1 .. n : f[start + j] = <<p, e.save, j>>
  BY DEF Held
<1> HIDE DEF n, W
<1>4. ASSUME NEW j \in 1 .. n PROVE W[start + j] = <<p, e.save, j>>
  <2>1. start + j \in 1 .. Len(f) /\ start + j <= m
    BY <1>1, <1>3
  <2> QED BY <1>2, <1>3, <2>1
<1> QED BY <1>2, <1>3, <1>4 DEF Held, n, W

\* Where blocks are in the file: inside the data area, and one behind the other.
LEMMA Places ==
  ASSUME NEW t \in [Blocks -> Entry], NEW s \in Seq(Blocks), Layout(t, s),
         NEW p \in Blocks, Present(t, p)
  PROVE  /\ Offset(t[p].index) \in Nat /\ Room(t[p].count) \in Nat
         /\ Offset(t[p].index) + Room(t[p].count) <= Offset(Len(s))
         /\ \A q \in Blocks \ {p} : Present(t, q) =>
              \/ Offset(t[p].index) + Room(t[p].count) <= Offset(t[q].index)
              \/ Offset(t[q].index) + Room(t[q].count) <= Offset(t[p].index)
<1> DEFINE a == t[p].index
           c == t[p].count
<1>1. a \in Nat /\ c \in Nat /\ a + c <= Len(s) /\ Len(s) \in Nat
  BY LenProperties DEF Layout, Entry
<1>2. ASSUME NEW q \in Blocks \ {p}, Present(t, q)
      PROVE  \/ Offset(a) + Room(c) <= Offset(t[q].index)
             \/ Offset(t[q].index) + Room(t[q].count) <= Offset(a)
  <2> DEFINE b == t[q].index
             d == t[q].count
  <2>1. b \in Nat /\ d \in Nat
    BY <1>2 DEF Entry
  <2>2. a + c <= b \/ b + d <= a
    BY <1>2, RunsAreApart
  <2> HIDE DEF a, b, c, d
  <2>3. /\ Offset(a + c) = Offset(a) + Room(c) /\ Offset(b + d) = Offset(b) + Room(d)
        /\ a + c \in Nat /\ b + d \in Nat
    <3>1. Offset(a + c) = Offset(a) + Room(c)
      BY <1>1, Offsets
    <3>2. Offset(b + d) = Offset(b) + Room(d)
      BY <2>1, Offsets
    <3> QED BY <1>1, <2>1, <3>1, <3>2
  <2>4. CASE a + c <= b
    <3>1. Offset(a + c) <= Offset(b)
      BY <2>1, <2>3, <2>4, Offsets
    <3> QED BY <2>3, <3>1 DEF b
  <2>5. CASE b + d <= a
    <3>1. Offset(b + d) <= Offset(a)
      BY <1>1, <2>3, <2>5, Offsets
    <3> QED BY <2>3, <3>1 DEF b, d
  <2> QED BY <2>2, <2>4, <2>5
<1> HIDE DEF a, c
<1>3. Offset(a) \in Nat /\ Room(c) \in Nat /\ Offset(a + c) = Offset(a) + Room(c)
      /\ a + c \in Nat
  <2>1. Offset(a) \in Nat /\ Room(c) \in Nat /\ Offset(a + c) = Offset(a) + Room(c)
    BY <1>1, Offsets
  <2> QED BY <1>1, <2>1
<1>4. Offset(a + c) <= Offset(Len(s))
  BY <1>1, <1>3, Offsets
<1> QED BY <1>2, <1>3, <1>4 DEF a, c

\* A write before or behind a block leaves it.
LEMMA KeptWrite ==
  ASSUME NEW t \in [Blocks -> Entry], NEW p \in Blocks, NEW e,
         NEW f \in Seq(Byte), NEW at \in Nat, NEW bytes \in Seq(Byte), Kept(f, t, p, e),
         \/ Offset(t[p].index) + Room(t[p].count) <= at
         \/ Offset(t[p].index) >= at + Len(bytes)
  PROVE  Kept(WriteAt(f, at, bytes), t, p, e)
<1>1. e.size \in Nat /\ e.size <= Room(t[p].count)
  BY KeptFacts
<1>2. Offset(t[p].index) \in Nat /\ Room(t[p].count) \in Nat
  BY KeptFacts
<1>3. Len(bytes) \in Nat
  BY LenProperties
<1>4. Held(WriteAt(f, at, bytes), Offset(t[p].index), p, e)
  <2>1. Held(f, Offset(t[p].index), p, e)
    BY DEF Kept
  <2>2. Offset(t[p].index) + e.size <= at \/ Offset(t[p].index) >= at + Len(bytes)
    BY <1>1, <1>2
  <2> QED BY <1>1, <1>2, <2>1, <2>2, HeldWrite
<1> QED BY <1>4 DEF Kept

\* Where the new bytes go.
LEMMA TargetFacts ==
  ASSUME LayoutInv, pc \in {"prefix", "payload", "pad"}
  PROVE  /\ Target \in Nat /\ Offset(Target) \in Nat /\ op.size \in Sizes
         /\ op.append => Target = Len(sectors)
         /\ ~op.append => /\ Offset(Target) + op.size <= Offset(Len(sectors))
                          /\ Offset(Target) + HeaderTail < Offset(Len(sectors))
         /\ \A p \in Blocks \ {op.pos} : Present(lut, p) =>
              \/ Offset(lut[p].index) + Room(lut[p].count) <= Offset(Target)
              \/ Offset(lut[p].index) >= Offset(Target) + op.size
<1>1. RegionTypeOK /\ OpExact /\ Layout(lut, sectors)
  BY DEF LayoutInv, InSave
<1>2. op.pos \in Blocks /\ lut \in [Blocks -> Entry] /\ sectors \in Seq(Blocks) /\ Len(sectors) \in Nat
  BY <1>1, LenProperties DEF RegionTypeOK
<1>3. op.size \in Sizes /\ op.size \in Nat
  BY <1>1, SizesFacts DEF OpExact, InSave
<1>4. CASE op.append
  <2>1. Target = Len(sectors) /\ Offset(Target) \in Nat
    BY <1>2, <1>4, Offsets DEF Target
  <2> QED BY <1>1, <1>2, <1>3, <1>4, <2>1, Places
<1>5. CASE ~op.append
  <2>1. pc # "pad" /\ Present(lut, op.pos) /\ lut[op.pos].count = SectorCount(op.size)
    BY <1>1, <1>5 DEF OpExact
  <2>2. Target = lut[op.pos].index /\ Target \in Nat
    BY <1>2, <1>5 DEF Target, Entry
  <2> DEFINE a == Offset(lut[op.pos].index)
             c == Room(lut[op.pos].count)
  <2>3. op.size <= c /\ HeaderTail < c /\ HeaderTail \in Nat
    <3>1. op.size <= c /\ HeaderTail < c
      BY <1>3, <2>1, RoomFacts
    <3> QED BY <1>2, <3>1, Offsets
  <2>4. /\ a \in Nat /\ c \in Nat /\ a + c <= Offset(Len(sectors))
        /\ \A q \in Blocks \ {op.pos} : Present(lut, q) =>
             a + c <= Offset(lut[q].index) \/ Offset(lut[q].index) + Room(lut[q].count) <= a
    BY <1>1, <1>2, <2>1, Places
  <2>5. Offset(Target) = a
    BY <2>2
  <2> HIDE DEF a, c
  <2>6. a + op.size <= Offset(Len(sectors)) /\ a + HeaderTail < Offset(Len(sectors))
    <3>1. Offset(Len(sectors)) \in Nat
      BY <1>2, Offsets
    <3> QED BY <1>3, <2>3, <2>4, <3>1
  <2>7. ASSUME NEW q \in Blocks \ {op.pos}, Present(lut, q)
        PROVE  \/ Offset(lut[q].index) + Room(lut[q].count) <= a
               \/ Offset(lut[q].index) >= a + op.size
    <3>1. Offset(lut[q].index) \in Nat
      BY <1>2, <2>7, Offsets DEF Entry
    <3> QED BY <1>3, <2>3, <2>4, <2>7, <3>1
  <2> QED BY <1>3, <1>5, <2>2, <2>4, <2>5, <2>6, <2>7
<1> QED BY <1>4, <1>5

\* The blocks other than the one being saved keep their bytes when its bytes are written.
LEMMA OthersKept ==
  ASSUME LayoutInv, pc \in {"prefix", "payload", "pad"},
         AllKept(file, lut, Blocks \ {op.pos}),
         NEW at \in Nat, NEW bytes \in Seq(Byte), Offset(Target) <= at,
         op.append \/ at + Len(bytes) <= Offset(Target) + op.size
  PROVE  AllKept(WriteAt(file, at, bytes), lut, Blocks \ {op.pos})
<1>1. RegionTypeOK /\ Layout(lut, sectors)
  BY DEF LayoutInv, InSave
<1>2. /\ lut \in [Blocks -> Entry] /\ sectors \in Seq(Blocks) /\ file \in Seq(Byte)
      /\ Len(bytes) \in Nat
  BY <1>1, LenProperties DEF RegionTypeOK
<1>3. op.size \in Nat /\ Offset(Target) \in Nat
  BY TargetFacts, SizesFacts
<1> SUFFICES ASSUME NEW p \in Blocks \ {op.pos}, Secure(p)
             PROVE  Kept(WriteAt(file, at, bytes), lut, p, saved[p])
  BY DEF AllKept, Secure
<1>4. Kept(file, lut, p, saved[p]) /\ Present(lut, p)
  BY DEF AllKept, Secure, Kept
<1>5. /\ Offset(lut[p].index) \in Nat /\ Room(lut[p].count) \in Nat
      /\ Offset(lut[p].index) + Room(lut[p].count) <= Offset(Len(sectors))
  BY <1>1, <1>2, <1>4, Places
<1>6. \/ Offset(lut[p].index) + Room(lut[p].count) <= Offset(Target)
      \/ Offset(lut[p].index) >= Offset(Target) + op.size
  BY <1>4, TargetFacts
<1>7. \/ Offset(lut[p].index) + Room(lut[p].count) <= at
      \/ Offset(lut[p].index) >= at + Len(bytes)
  <2> DEFINE x == Offset(lut[p].index)
             y == Room(lut[p].count)
             z == Offset(Target)
  <2>1. CASE op.append
    <3>1. x + y <= z
      BY <1>5, <2>1, TargetFacts
    <3> QED BY <1>3, <1>5, <3>1
  <2>2. CASE ~op.append
    BY <1>2, <1>3, <1>5, <1>6, <2>2
  <2> QED BY <2>1, <2>2
<1> QED BY <1>2, <1>4, <1>7, KeptWrite

-----------------------------------------------------------------------------
(* Every step keeps the bytes.                                             *)

BytesSafe == BytesKept /\ OnDisk /\ LongEnough /\ Written

LEMMA BeginSaveBytes ==
  ASSUME LayoutInv, BytesSafe, NEW p \in Blocks, NEW size \in Sizes, BeginSave(p, size)
  PROVE  BytesSafe'
<1>1. /\ pc = "idle" /\ op' = Plan(p, size) /\ pc' = (IF op'.remove > 0 THEN "shift" ELSE "prefix")
      /\ UNCHANGED <<file, diskLut, lut, sectors, saved, crashes, failures>>
  BY DEF BeginSave, handleVars
<1>2. AllKept(file, lut, Blocks) /\ \A q \in Blocks : Secure(q) => lut[q] = diskLut[q]
  BY <1>1 DEF BytesSafe, BytesKept, OnDisk
<1>3. Whole(Len(file)) /\ Offset(Len(sectors)) <= Len(file) + HeaderTail /\ HeaderTail <= Len(file)
  BY <1>1 DEF BytesSafe, LongEnough
<1>4. pc' \in {"shift", "prefix"}
  BY <1>1
<1>5. BytesKept'
  BY <1>1, <1>2, <1>4 DEF BytesKept, AllKept, Secure
<1>6. OnDisk'
  BY <1>1, <1>2, <1>4 DEF OnDisk, Secure
<1>7. LongEnough'
  BY <1>1, <1>3 DEF LongEnough
<1>8. Written'
  BY <1>4 DEF Written
<1> QED BY <1>5, <1>6, <1>7, <1>8 DEF BytesSafe

LEMMA ShiftTailBytes ==
  ASSUME LayoutInv, BytesSafe, ShiftTail
  PROVE  BytesSafe'
<1> DEFINE a == lut[op.pos].index
           c == lut[op.pos].count
           n == op.remove
           to == Offset(a + c - n)
           tail == SubSeq(file, SourceStart + 1, Len(file))
<1>1. /\ pc = "shift" /\ pc' = "cut"
      /\ file' = IF Len(file) > SourceStart
                 THEN WriteAt(file, SourceStart - op.remove * SectorSize, tail) ELSE file
      /\ UNCHANGED <<diskLut, lut, sectors, op, saves, saved, crashes, failures>>
  BY DEF ShiftTail, handleVars, historyVars
<1>2. RegionTypeOK /\ OpExact /\ Layout(lut, sectors)
  BY <1>1 DEF LayoutInv, InSave
<1>3. /\ op.pos \in Blocks /\ lut \in [Blocks -> Entry] /\ sectors \in Seq(Blocks) /\ file \in Seq(Byte)
      /\ Len(file) \in Nat /\ Len(sectors) \in Nat
  BY <1>2, LenProperties DEF RegionTypeOK
<1>4. Present(lut, op.pos) /\ op.remove \in 1 .. lut[op.pos].count
  BY <1>1, <1>2, RemovalFacts
<1>5. a \in Nat /\ c \in Nat /\ n \in Nat /\ n > 0 /\ n <= c
  BY <1>3, <1>4 DEF Entry
<1>6. Cutting(lut, CutTable, sectors, op.pos, op.remove)
  BY <1>2, <1>3, <1>4, <1>5, CutEntries DEF Cutting
<1>7. SourceStart = Offset(a + c)
  BY DEF SourceStart
<1>8. AllKept(file, lut, Blocks) /\ \A q \in Blocks : Secure(q) => lut[q] = diskLut[q]
  BY <1>1 DEF BytesSafe, BytesKept, OnDisk
<1>9. Whole(Len(file)) /\ Offset(Len(sectors)) <= Len(file) + HeaderTail /\ HeaderTail <= Len(file)
  BY <1>1 DEF BytesSafe, LongEnough, InSave
<1>10. \A p \in Blocks \ {op.pos} : Secure(p) =>
         /\ Kept(file, lut, p, saved[p])
         /\ lut[p].index \in Nat /\ lut[p].count \in Nat
         /\ Present(CutTable, p)
         /\ \/ lut[p].index + lut[p].count <= a
               /\ CutTable[p].index = lut[p].index /\ CutTable[p].count = lut[p].count
            \/ lut[p].index >= a + c
               /\ CutTable[p].index = lut[p].index - n /\ CutTable[p].count = lut[p].count
  <2> SUFFICES ASSUME NEW p \in Blocks \ {op.pos}, Secure(p)
               PROVE  /\ Kept(file, lut, p, saved[p])
                      /\ lut[p].index \in Nat /\ lut[p].count \in Nat
                      /\ Present(CutTable, p)
                      /\ \/ lut[p].index + lut[p].count <= a
                            /\ CutTable[p].index = lut[p].index /\ CutTable[p].count = lut[p].count
                         \/ lut[p].index >= a + c
                            /\ CutTable[p].index = lut[p].index - n /\ CutTable[p].count = lut[p].count
    OBVIOUS
  <2>1. Kept(file, lut, p, saved[p]) /\ Present(lut, p)
    BY <1>8 DEF AllKept, Secure, Kept
  <2>2. Present(CutTable, p)
    BY <1>6, <2>1, CutRuns
  <2> QED BY <1>6, <2>1, <2>2, CutRuns
<1> HIDE DEF a, c, n
<1>11. /\ a + c \in Nat /\ n <= a + c /\ a + c - n \in Nat /\ a <= a + c - n
       /\ Offset(a + c) \in Nat /\ to \in Nat /\ to = Offset(a + c) - Room(n) /\ to <= Offset(a + c)
       /\ Room(n) \in Nat /\ n * SectorSize = Room(n) /\ Offset(a) \in Nat /\ Offset(a) <= to
  <2>1. a + c \in Nat /\ n <= a + c /\ a + c - n \in Nat /\ a <= a + c - n
    BY <1>5
  <2>2. Offset(a + c - n) \in Nat
    BY <2>1, Offsets
  <2>3. Offset(a) \in Nat /\ Offset(a) <= Offset(a + c - n)
    BY <1>5, <2>1, Offsets
  <2> DEFINE e == a + c
  <2> HIDE DEF e
  <2>4. Offset(e) \in Nat /\ Room(n) \in Nat /\ n * SectorSize = Room(n)
        /\ Offset(e - n) = Offset(e) - Room(n)
    BY <1>5, <2>1, Offsets DEF e
  <2>5. to = Offset(e - n) /\ Offset(a) <= to /\ to \in Nat
    <3>1. to = Offset(e - n)
      <4>1. a + c - n = e - n
        BY <1>5 DEF e
      <4> QED BY <4>1
    <3>2. Offset(a) <= to
      BY <2>3
    <3>3. to \in Nat
      BY <2>2
    <3> QED BY <3>1, <3>2, <3>3
  <2> HIDE DEF to
  <2>6. to = Offset(e) - Room(n) /\ to <= Offset(e)
    BY <2>4, <2>5
  <2> QED BY <2>1, <2>3, <2>4, <2>5, <2>6 DEF e
<1>12. file' = IF Len(file) > SourceStart THEN WriteAt(file, to, tail) ELSE file
  <2>1. SourceStart - op.remove * SectorSize = to
    BY <1>7, <1>11 DEF n
  <2> QED BY <1>1, <2>1
<1> HIDE DEF to
<1>13. Len(file) > SourceStart => tail \in Seq(Byte) /\ Len(tail) = Len(file) - SourceStart
  BY <1>3, <1>7, <1>11, TailFacts
<1>14. Len(file') = Len(file)
  <2>1. CASE Len(file) > SourceStart
    <3>1. tail \in Seq(Byte) /\ Len(tail) = Len(file) - SourceStart
      BY <1>13, <2>1
    <3> HIDE DEF tail
    <3>2. Len(WriteAt(file, to, tail)) = IF to + Len(tail) > Len(file) THEN to + Len(tail) ELSE Len(file)
      <4>1. to \in Nat /\ file \in Seq(Byte) /\ tail \in Seq(Byte)
        BY <1>3, <1>11, <3>1
      <4> QED BY <4>1, WriteAtFacts
    <3>3. ~(to + Len(tail) > Len(file))
      <4>1. to \in Nat /\ SourceStart \in Nat /\ to <= SourceStart /\ Len(file) \in Nat
        BY <1>3, <1>7, <1>11
      <4> QED BY <3>1, <4>1
    <3> QED BY <1>12, <2>1, <3>2, <3>3
  <2> QED BY <1>12, <2>1
<1>15. ASSUME NEW p \in Blocks \ {op.pos}, Secure(p)
       PROVE  Kept(file', CutTable, p, saved[p])
  <2> DEFINE x == lut[p].index
             y == lut[p].count
             e == saved[p]
  <2>1. /\ Kept(file, lut, p, e) /\ Present(CutTable, p) /\ x \in Nat /\ y \in Nat
        /\ \/ x + y <= a /\ CutTable[p].index = x /\ CutTable[p].count = y
           \/ x >= a + c /\ CutTable[p].index = x - n /\ CutTable[p].count = y
    BY <1>10, <1>15
  <2>2. e.size \in Sizes /\ e.size + HeaderTail <= Room(y) /\ Held(file, Offset(x), p, e)
    BY <2>1 DEF Kept
  <2>3. e.size \in Nat /\ e.size > 0 /\ e.size <= Room(y)
    BY <1>3, <2>1, KeptFacts
  <2> HIDE DEF x, y, e
  <2>4. Offset(x) \in Nat /\ Room(y) \in Nat /\ Offset(x + y) = Offset(x) + Room(y)
    BY <2>1, Offsets
  <2>5. CASE x + y <= a /\ CutTable[p].index = x /\ CutTable[p].count = y
    <3>1. Offset(x) + Room(y) <= Offset(a)
      <4>1. x + y \in Nat
        BY <2>1
      <4>2. Offset(x + y) <= Offset(a)
        BY <1>5, <2>5, <4>1, Offsets
      <4> QED BY <2>4, <4>2
    <3>2. Held(file', Offset(x), p, e)
      <4>1. CASE Len(file) > SourceStart
        <5>1. tail \in Seq(Byte)
          BY <1>13, <4>1
        <5> HIDE DEF tail
        <5>2. Offset(x) + e.size <= to
          BY <1>11, <2>2, <2>3, <2>4, <3>1
        <5>3. Held(WriteAt(file, to, tail), Offset(x), p, e)
          BY <1>3, <1>11, <2>2, <2>3, <2>4, <5>1, <5>2, HeldWrite
        <5> QED BY <1>12, <4>1, <5>3
      <4> QED BY <1>12, <2>2, <4>1
    <3> QED BY <2>1, <2>2, <2>5, <3>2 DEF Kept, e
  <2>6. CASE x >= a + c /\ CutTable[p].index = x - n /\ CutTable[p].count = y
    <3>1. Offset(a + c) <= Offset(x) /\ Offset(x - n) = Offset(x) - Room(n)
      <4>1. Offset(a + c) <= Offset(x)
        <5>1. a + c \in Nat /\ x \in Nat /\ a + c <= x
          BY <1>11, <2>1, <2>6
        <5> QED BY <5>1, Offsets
      <4>2. n <= x
        BY <1>5, <1>11, <2>1, <2>6
      <4>3. n \in Nat /\ x \in Nat
        BY <1>5, <2>1
      <4>4. Offset(x - n) = Offset(x) - Room(n)
        BY <4>2, <4>3, Offsets
      <4> QED BY <4>1, <4>4
    <3>2. Len(file) > SourceStart
      <4>1. Offset(x) + e.size <= Len(file)
        BY <2>2 DEF Held
      <4>2. SourceStart \in Nat /\ SourceStart <= Offset(x) /\ Offset(x) \in Nat
        BY <1>7, <1>11, <2>3, <2>4, <3>1
      <4>3. e.size \in Nat /\ e.size > 0 /\ Len(file) \in Nat
        BY <1>3, <2>3, <2>4
      <4> QED BY <4>1, <4>2, <4>3
    <3>3. Held(WriteAt(file, to, tail), Offset(x) - (SourceStart - to), p, e)
      <4>1. SourceStart \in Nat /\ to <= SourceStart /\ SourceStart <= Offset(x)
        BY <1>7, <1>11, <3>1
      <4> QED BY <1>3, <1>11, <2>2, <2>3, <2>4, <3>2, <4>1, HeldShift
    <3>4. Offset(x) - (SourceStart - to) = Offset(x - n)
      BY <1>7, <1>11, <2>4, <3>1
    <3>5. Held(file', Offset(CutTable[p].index), p, e)
      BY <1>12, <2>6, <3>2, <3>3, <3>4
    <3> QED BY <2>1, <2>2, <2>6, <3>5 DEF Kept, e
  <2> QED BY <2>1, <2>5, <2>6
<1>16. BytesKept'
  <2>1. CutTable' = CutTable
    BY <1>1 DEF CutTable, Present
  <2> QED BY <1>1, <1>15, <2>1 DEF BytesKept, AllKept, Secure
<1>17. OnDisk'
  BY <1>1, <1>8 DEF OnDisk, Secure
<1>18. LongEnough'
  BY <1>1, <1>9, <1>14 DEF LongEnough
<1>19. Written'
  BY <1>1 DEF Written
<1> QED BY <1>16, <1>17, <1>18, <1>19 DEF BytesSafe

LEMMA CutFileBytes ==
  ASSUME LayoutInv, LayoutInv', BytesSafe, CutFile
  PROVE  BytesSafe'
<1> DEFINE first == lut[op.pos].index + lut[op.pos].count - op.remove + 1
           n == op.remove
           L == Len(sectors)
           m == Len(file) - n * SectorSize
<1>1. /\ pc = "cut" /\ pc' = "prefix" /\ lut' = CutTable
      /\ file' = SetLen(file, m)
      /\ sectors' = WithoutSectors(sectors, first, op.remove)
      /\ UNCHANGED <<diskLut, op, saves, saved, crashes, failures>>
  BY DEF CutFile, historyVars
<1>2. RegionTypeOK /\ OpExact /\ Layout(lut, sectors) /\ Derived
  BY <1>1 DEF LayoutInv, InSave
<1>3. /\ op.pos \in Blocks /\ lut \in [Blocks -> Entry] /\ sectors \in Seq(Blocks) /\ file \in Seq(Byte)
      /\ Len(file) \in Nat /\ L \in Nat
  BY <1>2, LenProperties DEF RegionTypeOK
<1>4. Present(lut, op.pos) /\ op.remove \in 1 .. lut[op.pos].count
  BY <1>1, <1>2, RemovalFacts
<1>5. IsCut(lut, CutTable, op.pos, op.remove)
  BY <1>2, <1>4, CutEntries
<1>6. n \in Nat /\ n > 0 /\ n <= lut[op.pos].count /\ lut[op.pos].count \in Nat /\ n <= L
  <2>1. /\ lut[op.pos].count \in Nat /\ lut[op.pos].index \in Nat
        /\ lut[op.pos].index + lut[op.pos].count <= L
    BY <1>2, <1>3, <1>4 DEF Layout, Entry
  <2>2. n \in Nat /\ n > 0 /\ n <= lut[op.pos].count
    BY <1>4, <2>1
  <2> HIDE DEF n, L
  <2> QED BY <1>3, <2>1, <2>2
<1>7. Cutting(lut, CutTable, sectors, op.pos, op.remove)
  BY <1>2, <1>3, <1>4, <1>5, <1>6 DEF Cutting
<1>8. sectors' \in Seq(Blocks) /\ Len(sectors') = L - n /\ Layout(lut', sectors')
  <2> HIDE DEF first
  <2>1. first = lut[op.pos].index + lut[op.pos].count - op.remove + 1
    BY DEF first
  <2> QED BY <1>1, <1>7, <2>1, CutLayout
<1>9. lut' \in [Blocks -> Entry]
  BY <1>1, <1>5 DEF IsCut
<1>10. /\ AllKept(file, CutTable, Blocks \ {op.pos})
       /\ \A q \in Blocks : Secure(q) => lut[q] = diskLut[q]
  BY <1>1 DEF BytesSafe, BytesKept, OnDisk
<1>11. Whole(Len(file)) /\ Offset(L) <= Len(file) + HeaderTail
  BY <1>1 DEF BytesSafe, LongEnough, InSave
<1> HIDE DEF L, n
<1>12. /\ m = Len(file) - Room(n) /\ m \in Nat /\ L - n \in Nat /\ Offset(L - n) <= m + HeaderTail
       /\ Offset(L - n) \in Nat /\ Offset(L) \in Nat /\ HeaderTail \in Nat
  <2>1. /\ n * SectorSize = Room(n) /\ Room(n) \in Nat /\ Offset(L) \in Nat
        /\ Offset(L - n) = Offset(L) - Room(n) /\ L - n \in Nat
        /\ Offset(L) = HeaderTail + Room(L) /\ Room(n) <= Room(L)
    BY <1>3, <1>6, Offsets
  <2>2. Offset(L - n) \in Nat /\ HeaderTail \in Nat /\ Room(L) \in Nat
    BY <1>3, <2>1, Offsets
  <2>3. m = Len(file) - Room(n)
    BY <2>1
  <2> HIDE DEF m
  <2>5. m \in Nat /\ Offset(L - n) <= m + HeaderTail
    <3> DEFINE len == Len(file)
               all == Room(L)
               cut == Room(n)
               end == Offset(L - n)
    <3>1. /\ len \in Nat /\ all \in Nat /\ cut \in Nat /\ HeaderTail \in Nat /\ m = len - cut
          /\ end = HeaderTail + all - cut /\ cut <= all /\ HeaderTail + all <= len + HeaderTail
      BY <1>3, <1>11, <2>1, <2>2, <2>3
    <3> HIDE DEF len, all, cut, end
    <3>2. m \in Nat /\ end <= m + HeaderTail
      BY <3>1
    <3> QED BY <3>2 DEF end
  <2> QED BY <2>1, <2>2, <2>3, <2>5
<1> HIDE DEF m
<1>13. Len(file') = m
  BY <1>1, <1>3, <1>12, SetLenFacts
<1>14. ASSUME NEW p \in Blocks \ {op.pos}, Secure(p) PROVE Kept(file', lut', p, saved[p])
  <2> DEFINE x == Offset(lut'[p].index)
             y == Room(lut'[p].count)
             e == saved[p]
  <2>1. Kept(file, lut', p, e)
    BY <1>1, <1>10, <1>14 DEF AllKept, Secure
  <2>2. Present(lut', p) /\ e.size \in Sizes /\ e.size + HeaderTail <= y /\ Held(file, x, p, e)
    BY <2>1 DEF Kept
  <2>3. e.size \in Nat
    BY <2>2, SizesFacts
  <2>4. x \in Nat /\ y \in Nat /\ x + y <= Offset(L - n)
    BY <1>8, <1>9, <2>2, Places
  <2> HIDE DEF x, y, e
  <2>5. x + e.size <= m
    <3> DEFINE size == e.size
               end == Offset(L - n)
    <3>1. size \in Nat /\ end \in Nat /\ size + HeaderTail <= y /\ x + y <= end /\ end <= m + HeaderTail
      BY <1>12, <2>2, <2>3, <2>4
    <3> HIDE DEF size, end
    <3>2. x + size <= m
      BY <1>12, <2>4, <3>1
    <3> QED BY <3>2 DEF size
  <2>6. Held(file', x, p, e)
    BY <1>1, <1>3, <1>12, <2>2, <2>3, <2>4, <2>5, HeldCut
  <2> QED BY <2>2, <2>6 DEF Kept, x, y, e
<1>15. BytesKept'
  BY <1>1, <1>14 DEF BytesKept, AllKept, Secure
<1>16. AtRisk' = AtRisk
  BY <1>1 DEF AtRisk
<1>17. ASSUME NEW p \in Blocks \ AtRisk, Secure(p) PROVE lut'[p] = diskLut[p]
  <2>1. p # op.pos /\ ~(diskLut[p].index > diskLut[op.pos].index)
    BY <1>6, <1>17 DEF AtRisk, n
  <2>2. Present(CutTable, p)
    BY <1>10, <1>17, <2>1 DEF AllKept, Secure, Kept
  <2>3. Present(lut, p)
    BY <1>7, <2>2, CutRuns
  <2>4. diskLut[p].index \in Nat /\ diskLut[op.pos].index \in Nat /\ lut[p].index \in Nat /\ lut[op.pos].index \in Nat
    BY <1>2, <1>3 DEF RegionTypeOK, Entry
  <2>5. lut[p].index <= lut[op.pos].index
    <3>1. diskLut[p].index <= diskLut[op.pos].index
      BY <2>1, <2>4
    <3> QED BY <1>1, <1>2, <1>3, <1>4, <2>3, <3>1 DEF Derived, InSave
  <2>6. ~(lut[p].index >= lut[op.pos].index + lut[op.pos].count)
    <3> DEFINE x == lut[p].index
               a == lut[op.pos].index
               c == lut[op.pos].count
    <3>1. x \in Nat /\ a \in Nat /\ c \in Nat /\ c > 0 /\ x <= a
      BY <1>6, <2>4, <2>5
    <3> HIDE DEF x, a, c
    <3>2. ~(x >= a + c)
      BY <3>1
    <3> QED BY <3>2 DEF x, a, c
  <2>7. CutTable[p] = lut[p]
    BY <1>5, <2>1, <2>3, <2>6 DEF IsCut
  <2> QED BY <1>1, <1>10, <1>17, <2>7
<1>18. OnDisk'
  BY <1>1, <1>16, <1>17 DEF OnDisk, Secure
<1>19. LongEnough'
  <2>1. PICK k \in Nat : Room(k) <= Len(file) /\ Len(file) <= Offset(k)
    BY <1>11 DEF Whole
  <2>2. L <= k
    <3>1. Offset(L) = HeaderTail + Room(L) /\ Room(L) \in Nat /\ Offset(k) \in Nat
      BY <1>3, Offsets
    <3>2. Room(L) <= Offset(k)
      <4> DEFINE len == Len(file)
                 all == Room(L)
                 end == Offset(k)
      <4>1. /\ len \in Nat /\ all \in Nat /\ end \in Nat /\ HeaderTail \in Nat
            /\ HeaderTail + all <= len + HeaderTail /\ len <= end
        BY <1>3, <1>11, <1>12, <2>1, <3>1
      <4> HIDE DEF len, all, end
      <4>2. all <= end
        BY <4>1
      <4> QED BY <4>2 DEF all, end
    <3> QED BY <1>3, <3>2, WholeFacts
  <2>3. n <= k
    BY <1>3, <1>6, <2>2
  <2>4. k - n \in Nat /\ Offset(k - n) = Offset(k) - Room(n) /\ Room(k - n) = Room(k) - Room(n)
    BY <1>6, <2>3, Offsets
  <2>5. Whole(Len(file'))
    <3>1. Room(k) \in Nat /\ Offset(k) \in Nat /\ Room(n) \in Nat
      BY <1>6, Offsets
    <3>2. Room(k - n) <= m /\ m <= Offset(k - n)
      <4> DEFINE len == Len(file)
                 all == Room(k)
                 end == Offset(k)
                 cut == Room(n)
                 low == Room(k - n)
                 high == Offset(k - n)
      <4>1. /\ len \in Nat /\ all \in Nat /\ end \in Nat /\ cut \in Nat /\ all <= len /\ len <= end
            /\ m = len - cut /\ low = all - cut /\ high = end - cut
        BY <1>3, <1>12, <2>1, <2>4, <3>1
      <4> HIDE DEF len, all, end, cut, low, high
      <4>2. low <= m /\ m <= high
        BY <4>1
      <4> QED BY <4>2 DEF low, high
    <3> QED BY <1>13, <2>4, <3>2 DEF Whole
  <2>6. Offset(Len(sectors')) <= Len(file') + HeaderTail
    BY <1>8, <1>12, <1>13
  <2> QED BY <1>1, <2>5, <2>6 DEF LongEnough, Whole
<1>20. Written'
  BY <1>1 DEF Written
<1> QED BY <1>15, <1>18, <1>19, <1>20 DEF BytesSafe

LEMMA WritePrefixBytes ==
  ASSUME LayoutInv, BytesSafe, WritePrefix
  PROVE  BytesSafe'
<1> DEFINE at == Offset(Target)
           b == SubSeq(NewBytes, 1, 1)
           L == Offset(Len(sectors))
<1>1. /\ pc = "prefix" /\ pc' = "payload" /\ file' = WriteAt(file, at, b)
      /\ UNCHANGED <<diskLut, lut, sectors, op, saves, saved, crashes, failures>>
  BY DEF WritePrefix, handleVars, historyVars
<1>2. RegionTypeOK
  BY DEF LayoutInv
<1>3. file \in Seq(Byte) /\ Len(file) \in Nat /\ Len(sectors) \in Nat
  BY <1>2, LenProperties DEF RegionTypeOK
<1>4. /\ Target \in Nat /\ at \in Nat /\ op.size \in Sizes /\ op.size \in Nat /\ op.size > 1
      /\ op.append => at = L
      /\ ~op.append => at + HeaderTail < L
  BY <1>1, TargetFacts, SizesFacts
<1>5. b \in Seq(Byte) /\ Len(b) = 1 /\ b[1] = <<op.pos, saves, 1>>
  BY <1>2, <1>4, NewBytesFacts
<1>6. AllKept(file, lut, Blocks \ {op.pos}) /\ \A p \in Blocks \ AtRisk : Secure(p) => lut[p] = diskLut[p]
  BY <1>1 DEF BytesSafe, BytesKept, OnDisk
<1>7. Whole(Len(file)) /\ L <= Len(file) + HeaderTail
  BY <1>1 DEF BytesSafe, LongEnough, InSave
<1>8. AllKept(file', lut, Blocks \ {op.pos})
  <2> HIDE DEF at, b
  <2>1. at + Len(b) <= Offset(Target) + op.size /\ Offset(Target) <= at
    BY <1>4, <1>5 DEF at
  <2> QED BY <1>1, <1>4, <1>5, <1>6, <2>1, OthersKept
<1>9. BytesKept'
  BY <1>1, <1>8 DEF BytesKept, AllKept, Secure
<1>10. OnDisk'
  <2>1. AtRisk' = AtRisk
    BY <1>1 DEF AtRisk
  <2> QED BY <1>1, <1>6, <2>1 DEF OnDisk, Secure
<1>11. L \in Nat /\ HeaderTail \in Nat /\ HeaderTail <= at
  <2>1. L \in Nat /\ HeaderTail \in Nat
    BY <1>3, Offsets
  <2>2. at = HeaderTail + Room(Target) /\ Room(Target) \in Nat
    BY <1>4, Offsets
  <2> QED BY <2>1, <2>2
<1> HIDE DEF at, b
<1>12. /\ Len(file') = IF at + 1 > Len(file) THEN at + 1 ELSE Len(file)
       /\ file'[at + 1] = <<op.pos, saves, 1>>
  <2>1. /\ Len(file') = IF at + Len(b) > Len(file) THEN at + Len(b) ELSE Len(file)
        /\ \A i \in 1 .. Len(b) : file'[at + i] = b[i]
    <3> DEFINE W == WriteAt(file, at, b)
    <3>1. /\ Len(W) = IF at + Len(b) > Len(file) THEN at + Len(b) ELSE Len(file)
          /\ \A i \in 1 .. Len(b) : W[at + i] = b[i]
      BY <1>3, <1>4, <1>5, WriteAtFacts
    <3>2. file' = W
      BY <1>1
    <3> HIDE DEF W
    <3> QED BY <3>1, <3>2
  <2> QED BY <1>5, <2>1
<1>13. LongEnough'
  <2>1. L <= Len(file') + HeaderTail /\ HeaderTail <= Len(file')
    BY <1>3, <1>4, <1>7, <1>11, <1>12
  <2>2. CASE at + 1 > Len(file)
    <3>1. op.append /\ at = L
      BY <1>3, <1>4, <1>7, <1>11, <2>2
    <3> QED BY <1>1, <1>12, <2>1, <2>2, <3>1 DEF LongEnough
  <2>3. CASE ~(at + 1 > Len(file))
    BY <1>1, <1>7, <1>12, <2>1, <2>3 DEF LongEnough, Whole
  <2> QED BY <2>2, <2>3
<1>14. Written'
  <2>1. Target' = Target
    BY <1>1 DEF Target
  <2>2. at + 1 <= Len(file')
    BY <1>3, <1>4, <1>12
  <2> QED BY <1>1, <1>12, <2>1, <2>2 DEF Written, at
<1> QED BY <1>9, <1>10, <1>13, <1>14 DEF BytesSafe

LEMMA WritePayloadBytes ==
  ASSUME LayoutInv, BytesSafe, WritePayload
  PROVE  BytesSafe'
<1> DEFINE start == Offset(Target)
           at == start + 1
           b == SubSeq(NewBytes, 2, op.size)
           L == Offset(Len(sectors))
           n == op.size
<1>1. /\ pc = "payload" /\ pc' = (IF op.append THEN "pad" ELSE "header") /\ file' = WriteAt(file, at, b)
      /\ UNCHANGED <<diskLut, lut, sectors, op, saves, saved, crashes, failures>>
  BY DEF WritePayload, handleVars, historyVars
<1>2. RegionTypeOK /\ OpExact
  BY DEF LayoutInv
<1>3. file \in Seq(Byte) /\ Len(file) \in Nat /\ Len(sectors) \in Nat
  BY <1>2, LenProperties DEF RegionTypeOK
<1>4. /\ Target \in Nat /\ start \in Nat /\ n \in Sizes /\ n \in Nat /\ n > 1
      /\ op.append => start = L
      /\ ~op.append => start + n <= L
  BY <1>1, TargetFacts, SizesFacts
<1>5. b \in Seq(Byte) /\ Len(b) = n - 1 /\ \A i \in 1 .. n - 1 : b[i] = <<op.pos, saves, i + 1>>
  BY <1>2, <1>4, NewBytesFacts
<1>6. AllKept(file, lut, Blocks \ {op.pos}) /\ \A p \in Blocks \ AtRisk : Secure(p) => lut[p] = diskLut[p]
  BY <1>1 DEF BytesSafe, BytesKept, OnDisk
<1>7. /\ L <= Len(file) + HeaderTail /\ HeaderTail <= Len(file)
      /\ Whole(Len(file)) \/ (op.append /\ Len(file) = L + 1)
      /\ start + 1 <= Len(file) /\ file[start + 1] = <<op.pos, saves, 1>>
  BY <1>1 DEF BytesSafe, LongEnough, Written, InSave
<1>8. AllKept(file', lut, Blocks \ {op.pos})
  <2>1. at \in Nat /\ at + Len(b) <= Offset(Target) + op.size /\ Offset(Target) <= at
    BY <1>4, <1>5
  <2> HIDE DEF at, b
  <2> QED BY <1>1, <1>5, <1>6, <2>1, OthersKept
<1>9. pc' \in {"pad", "header"}
  BY <1>1
<1>10. BytesKept'
  BY <1>1, <1>8, <1>9 DEF BytesKept, AllKept, Secure
<1>11. OnDisk'
  <2>1. AtRisk' = AtRisk
    BY <1>1 DEF AtRisk
  <2> QED BY <1>1, <1>6, <1>9, <2>1 DEF OnDisk, Secure
<1>12. L \in Nat /\ HeaderTail \in Nat
  BY <1>3, Offsets
<1> HIDE DEF start, b
<1>13. /\ Len(file') = IF start + n > Len(file) THEN start + n ELSE Len(file)
       /\ \A i \in 1 .. n - 1 : file'[start + 1 + i] = <<op.pos, saves, i + 1>>
       /\ file'[start + 1] = <<op.pos, saves, 1>>
  <2> DEFINE W == WriteAt(file, at, b)
  <2>1. at \in Nat
    BY <1>4
  <2>2. /\ Len(W) = IF at + Len(b) > Len(file) THEN at + Len(b) ELSE Len(file)
        /\ \A i \in 1 .. Len(b) : W[at + i] = b[i]
        /\ \A i \in 1 .. Len(file) : i <= at \/ i > at + Len(b) => W[i] = file[i]
    <3> HIDE DEF at
    <3> QED BY <1>3, <1>5, <2>1, WriteAtFacts
  <2>3. file' = W
    BY <1>1
  <2> HIDE DEF W
  <2>4. Len(W) = IF start + n > Len(file) THEN start + n ELSE Len(file)
    <3>1. at + Len(b) = start + n
      <4>1. Len(b) = n - 1
        BY <1>5
      <4> HIDE DEF n
      <4> QED BY <1>4, <4>1
    <3> HIDE DEF at
    <3> QED BY <2>2, <3>1
  <2>5. \A i \in 1 .. n - 1 : W[start + 1 + i] = <<op.pos, saves, i + 1>>
    BY <1>4, <1>5, <2>2
  <2>6. W[start + 1] = file[start + 1]
    <3>1. start + 1 \in 1 .. Len(file) /\ start + 1 <= at
      BY <1>3, <1>4, <1>7
    <3> QED BY <2>2, <3>1
  <2> QED BY <1>7, <2>3, <2>4, <2>5, <2>6
<1> HIDE DEF n
<1>14. LongEnough'
  <2>1. L <= Len(file') + HeaderTail /\ HeaderTail <= Len(file')
    BY <1>3, <1>4, <1>7, <1>12, <1>13
  <2>2. CASE start + n > Len(file)
    <3>1. CASE op.append
      BY <1>1, <1>4, <1>13, <2>1, <2>2, <3>1 DEF LongEnough, n
    <3>2. CASE ~op.append
      <4> DEFINE l == Len(sectors)
      <4>1. l \in Nat /\ L = HeaderTail + Room(l) /\ Room(l) \in Nat
        BY <1>3, Offsets
      <4>2. Room(l) <= Len(file') /\ Len(file') <= L
        BY <1>3, <1>4, <1>7, <1>12, <1>13, <2>2, <3>2, <4>1
      <4>3. Whole(Len(file'))
        BY <4>1, <4>2 DEF Whole
      <4> QED BY <1>1, <2>1, <4>3 DEF LongEnough, Whole
    <3> QED BY <3>1, <3>2
  <2>3. CASE ~(start + n > Len(file))
    <3>1. ~(op.append /\ Len(file) = L + 1)
      BY <1>4, <1>12, <2>3
    <3> QED BY <1>1, <1>7, <1>13, <2>1, <2>3, <3>1 DEF LongEnough, Whole
  <2> QED BY <2>2, <2>3
<1>15. Held(file', start, op.pos, UnderWay)
  <2>1. UnderWay.size = n /\ UnderWay.save = saves
    BY DEF UnderWay, n
  <2>2. start + n <= Len(file')
    BY <1>3, <1>4, <1>13
  <2>3. ASSUME NEW j \in 1 .. n PROVE file'[start + j] = <<op.pos, saves, j>>
    <3>1. CASE j = 1
      BY <1>13, <3>1
    <3>2. CASE j # 1
      <4>1. j - 1 \in 1 .. n - 1 /\ start + 1 + (j - 1) = start + j /\ (j - 1) + 1 = j
        BY <1>4, <3>2
      <4>2. file'[start + 1 + (j - 1)] = <<op.pos, saves, (j - 1) + 1>>
        BY <1>13, <4>1
      <4> QED BY <4>1, <4>2
    <3> QED BY <3>1, <3>2
  <2> QED BY <2>1, <2>2, <2>3 DEF Held
<1>16. Written'
  <2>1. UnderWay' = UnderWay
    BY <1>1 DEF UnderWay
  <2>2. start = Offset(IF op.append THEN Len(sectors) ELSE lut[op.pos].index)
    BY DEF start, Target
  <2>3. CASE op.append
    <3>1. pc' = "pad" /\ start = Offset(Len(sectors'))
      BY <1>1, <2>2, <2>3
    <3> QED BY <1>1, <1>15, <2>1, <3>1 DEF Written
  <2>4. CASE ~op.append
    <3>1. pc' = "header" /\ start = Offset(lut'[op.pos].index)
      BY <1>1, <2>2, <2>4
    <3> QED BY <1>1, <1>15, <2>1, <3>1 DEF Written
  <2> QED BY <2>3, <2>4
<1> QED BY <1>10, <1>11, <1>14, <1>16 DEF BytesSafe

\* The zeros of pad_to_sector_size reach a multiple of the sector size in the file, past the
\* beginning of the last sector of the block.
LEMMA PaddingFacts ==
  ASSUME NEW n \in Nat, NEW size \in Sizes, NEW end, end = Offset(n) + size,
         NEW missing, missing = (SectorSize - (end % SectorSize)) % SectorSize
  PROVE  /\ missing \in Nat /\ end \in Nat
         /\ \E k \in Nat : end + missing = Room(k) /\ n + SectorCount(size) <= k
<1> DEFINE S == SectorSize
           c == SectorCount(size)
           q == end \div S
           r == end % S
           m == n + c
<1>1. S \in Nat /\ S > 0 /\ size \in Nat /\ size > 0 /\ HeaderTail \in Nat
  BY RegionAssumption, SizesFacts
<1>2. c \in Nat /\ Room(c) < size + S
  BY RoomFacts
<1>3. Offset(n) = HeaderTail + Room(n) /\ Room(n) \in Nat /\ Room(c) \in Nat
  BY <1>2, Offsets
<1>4. end \in Nat /\ end = HeaderTail + Room(n) + size
  BY <1>1, <1>3
<1>5. q \in Nat /\ r \in 0 .. S - 1 /\ end = S * q + r
  <2> SUFFICES ASSUME NEW x \in Nat, NEW d \in Nat, d > 0
               PROVE  x \div d \in Nat /\ x % d \in 0 .. d - 1 /\ x = d * (x \div d) + (x % d)
    BY <1>1, <1>4
  <2> QED OBVIOUS
<1>6. (S - r) % S = IF r = 0 THEN 0 ELSE S - r
  <2> HIDE DEF S, r
  <2>1. CASE r = 0
    <3>1. S % S = 0
      BY <1>1
    <3> QED BY <1>1, <2>1, <3>1
  <2>2. CASE r # 0
    <3>1. S - r \in 1 .. S - 1
      BY <1>1, <1>5, <2>2
    <3>2. \A k \in 1 .. S - 1 : k % S = k
      BY <1>1
    <3> QED BY <2>2, <3>1, <3>2
  <2> QED BY <2>1, <2>2
<1>7. missing = IF r = 0 THEN 0 ELSE S - r
  BY <1>6
<1>8. m \in Nat /\ Room(m) = Room(n) + Room(c)
  <2> HIDE DEF c
  <2>1. Offset(n + c) = Offset(n) + Room(c) /\ n + c \in Nat
    BY <1>2, Offsets
  <2>2. Offset(m) = HeaderTail + Room(m) /\ Room(m) \in Nat
    BY <2>1, Offsets
  <2> QED BY <1>1, <1>3, <2>1, <2>2
<1> HIDE DEF c, q, r, m
<1>9. Room(q) = S * q /\ Room(q) \in Nat /\ q + 1 \in Nat /\ Room(q + 1) = Room(q) + S
  <2>1. q * SectorSize = SectorSize * q /\ (q + 1) * SectorSize = q * SectorSize + SectorSize
    BY <1>1, <1>5
  <2> QED BY <1>5, <2>1, Offsets DEF Room
<1>10. Room(m) < end + S /\ Room(m) \in Nat
  BY <1>1, <1>2, <1>3, <1>4, <1>8
<1> HIDE DEF S
<1>11. \E k \in Nat : end + missing = Room(k) /\ end <= Room(k)
  <2>1. CASE r = 0
    <3>1. end + missing = Room(q) /\ end <= Room(q)
      BY <1>1, <1>5, <1>7, <1>9, <2>1
    <3> QED BY <1>5, <3>1
  <2>2. CASE r # 0
    <3>1. end + missing = Room(q + 1) /\ end <= Room(q + 1)
      BY <1>1, <1>5, <1>7, <1>9, <2>2
    <3> QED BY <1>9, <3>1
  <2> QED BY <2>1, <2>2
<1>12. missing \in Nat
  BY <1>1, <1>5, <1>7
<1>13. ASSUME NEW k \in Nat, end <= Room(k) PROVE m <= k
  <2>1. k < m => Room(k) + S <= Room(m)
    BY <1>8, Offsets DEF S
  <2>2. Room(k) \in Nat
    BY Offsets
  <2> QED BY <1>1, <1>4, <1>8, <1>10, <1>13, <2>1, <2>2
<1> QED BY <1>4, <1>11, <1>12, <1>13 DEF m, c

\* What padding does to the file.
LEMMA PaddedFacts ==
  ASSUME LayoutInv, BytesSafe, pc = "pad"
  PROVE  /\ Whole(Len(Padded)) /\ HeaderTail <= Len(Padded)
         /\ Offset(Len(sectors)) <= Len(Padded) + HeaderTail
         /\ Offset(Len(sectors) + SectorCount(op.size)) <= Len(Padded) + HeaderTail
         /\ AllKept(Padded, lut, Blocks \ {op.pos})
         /\ Held(Padded, Offset(Len(sectors)), op.pos, UnderWay)
<1> DEFINE n == Len(sectors)
           size == op.size
           c == SectorCount(size)
           start == Offset(n) + size
           m == n + c
           missing == (SectorSize - (start % SectorSize)) % SectorSize
           zeros == [i \in 1 .. missing |-> Zero]
           L == Offset(n)
<1>1. RegionTypeOK /\ OpExact
  BY DEF LayoutInv
<1>2. file \in Seq(Byte) /\ Len(file) \in Nat /\ n \in Nat /\ op.pos \in Blocks
  BY <1>1, LenProperties DEF RegionTypeOK
<1>3. op.append
  BY <1>1 DEF OpExact
<1>4. size \in Sizes /\ size \in Nat /\ size > 0 /\ Target = n
  BY <1>3, TargetFacts, SizesFacts
<1>5. c \in Nat
  BY <1>4, RoomFacts
<1>6. /\ missing \in Nat /\ start \in Nat
      /\ \E k \in Nat : start + missing = Room(k) /\ m <= k
  <2> HIDE DEF n, size
  <2>1. start = Offset(n) + size
    OBVIOUS
  <2>2. missing = (SectorSize - (start % SectorSize)) % SectorSize
    OBVIOUS
  <2> HIDE DEF start, missing
  <2> QED BY <1>2, <1>4, <2>1, <2>2, PaddingFacts
<1>7. Padded = WriteAt(file, start, zeros)
  BY <1>4 DEF Padded
<1> HIDE DEF missing
<1>8. zeros \in Seq(Byte) /\ Len(zeros) = missing
  <2>1. Zero \in Byte
    BY DEF Byte
  <2> QED BY <1>6, <2>1, FillFacts
<1> HIDE DEF zeros
<1>9. /\ L \in Nat /\ m \in Nat /\ Offset(m) \in Nat /\ HeaderTail \in Nat
      /\ L <= Offset(m) /\ Offset(m) = HeaderTail + Room(m) /\ Room(m) \in Nat
  <2>1. m \in Nat /\ n <= m
    BY <1>2, <1>5
  <2> HIDE DEF n, m
  <2> QED BY <1>2, <2>1, Offsets
<1> HIDE DEF m
<1>10. PICK k \in Nat : start + missing = Room(k) /\ m <= k
  BY <1>6
<1>11. /\ L <= Len(file) + HeaderTail /\ HeaderTail <= Len(file)
       /\ Whole(Len(file)) \/ Len(file) = start
       /\ AllKept(file, lut, Blocks \ {op.pos})
       /\ Held(file, L, op.pos, UnderWay)
  BY DEF BytesSafe, LongEnough, BytesKept, Written, InSave
<1> HIDE DEF start
<1>12. /\ Room(k) \in Nat /\ Offset(k) = HeaderTail + Room(k) /\ Room(m) <= Room(k)
       /\ Len(Padded) = IF Room(k) > Len(file) THEN Room(k) ELSE Len(file)
  <2>1. Len(WriteAt(file, start, zeros)) = IF start + Len(zeros) > Len(file) THEN start + Len(zeros) ELSE Len(file)
    BY <1>2, <1>6, <1>8, WriteAtFacts
  <2>2. Room(k) \in Nat /\ Offset(k) = HeaderTail + Room(k) /\ Room(m) <= Room(k)
    BY <1>9, <1>10, Offsets
  <2> QED BY <1>7, <1>8, <1>10, <2>1, <2>2
<1>13. /\ Whole(Len(Padded)) /\ HeaderTail <= Len(Padded)
       /\ L <= Len(Padded) + HeaderTail /\ Offset(m) <= Len(Padded) + HeaderTail
  <2>1. Room(k) <= Len(Padded) /\ Len(file) <= Len(Padded)
    BY <1>2, <1>12
  <2>2. Whole(Room(k))
    BY <1>9, <1>12 DEF Whole
  <2>3. Whole(Len(Padded))
    BY <1>2, <1>6, <1>10, <1>11, <1>12, <2>2
  <2> HIDE DEF L
  <2> QED BY <1>2, <1>9, <1>11, <1>12, <2>1, <2>3
<1>14. AllKept(Padded, lut, Blocks \ {op.pos})
  <2>1. Offset(Target) <= start
    BY <1>4, <1>9 DEF start
  <2>2. AllKept(WriteAt(file, start, zeros), lut, Blocks \ {op.pos})
    BY <1>3, <1>6, <1>8, <1>11, <2>1, OthersKept
  <2> QED BY <1>7, <2>2
<1>15. Held(Padded, L, op.pos, UnderWay)
  <2>1. UnderWay.size = size
    BY DEF UnderWay
  <2>2. L + UnderWay.size <= start /\ UnderWay.size \in Nat
    BY <1>4, <1>9, <2>1 DEF start
  <2> HIDE DEF L
  <2>3. Held(WriteAt(file, start, zeros), L, op.pos, UnderWay)
    BY <1>2, <1>6, <1>8, <1>9, <1>11, <2>2, HeldWrite
  <2> QED BY <1>7, <2>3
<1> QED BY <1>13, <1>14, <1>15 DEF m

LEMMA PadAndRegisterBytes ==
  ASSUME LayoutInv, LayoutInv', BytesSafe, PadAndRegister
  PROVE  BytesSafe'
<1> DEFINE new == SectorCount(op.size)
           n == Len(sectors)
<1>1. /\ pc = "pad" /\ pc' = "header" /\ file' = Padded
      /\ lut' = [lut EXCEPT ![op.pos] = [index |-> Len(sectors), count |-> new]]
      /\ sectors' = sectors \o [i \in 1 .. new |-> op.pos]
      /\ UNCHANGED <<diskLut, op, saves, saved, crashes, failures>>
  BY DEF PadAndRegister, historyVars
<1>2. RegionTypeOK /\ OpExact /\ Layout(lut, sectors)
  BY <1>1 DEF LayoutInv, InSave
<1>3. op.size \in Sizes /\ ~Present(lut, op.pos) /\ op.append
  BY <1>1, <1>2 DEF OpExact, InSave
<1>4. op.pos \in Blocks /\ lut \in [Blocks -> Entry] /\ sectors \in Seq(Blocks) /\ n \in Nat
      /\ file \in Seq(Byte) /\ Len(file) \in Nat
  BY <1>2, LenProperties DEF RegionTypeOK
<1>5. new \in Nat /\ new > 0
  BY <1>3, RoomFacts
<1>6. Len(sectors') = n + new
  <2>1. Appended(lut, sectors, op.pos, new, lut', sectors')
    BY <1>1 DEF Appended
  <2> HIDE DEF new
  <2> QED BY <1>2, <1>3, <1>4, <1>5, <2>1, AppendLayout
<1>7. /\ Offset(n + new) <= Len(file') + HeaderTail
      /\ Whole(Len(file')) /\ HeaderTail <= Len(file')
      /\ AllKept(file', lut, Blocks \ {op.pos})
      /\ Held(file', Offset(n), op.pos, UnderWay)
  BY <1>1, PaddedFacts
<1>8. \A p \in Blocks \ {op.pos} : lut'[p] = lut[p]
  BY <1>1
<1>9. BytesKept'
  <2>1. ASSUME NEW p \in Blocks \ {op.pos}, Secure(p) PROVE Kept(file', lut', p, saved[p])
    BY <1>7, <1>8, <2>1 DEF AllKept, Secure, Kept, Present
  <2> QED BY <1>1, <2>1 DEF BytesKept, AllKept, Secure
<1>10. OnDisk'
  <2>1. AtRisk' = AtRisk /\ op.pos \in AtRisk
    BY <1>1 DEF AtRisk
  <2>2. \A p \in Blocks \ AtRisk : Secure(p) => lut[p] = diskLut[p]
    BY <1>1 DEF BytesSafe, OnDisk
  <2> QED BY <1>1, <1>8, <2>1, <2>2 DEF OnDisk, Secure
<1>11. LongEnough'
  BY <1>6, <1>7 DEF LongEnough, Whole
<1>12. Written'
  <2>1. UnderWay' = UnderWay
    BY <1>1 DEF UnderWay
  <2>2. lut'[op.pos].index = n
    BY <1>1, <1>4
  <2> QED BY <1>1, <1>7, <2>1, <2>2 DEF Written
<1> QED BY <1>9, <1>10, <1>11, <1>12 DEF BytesSafe

LEMMA RegisterFailsBytes ==
  ASSUME LayoutInv, BytesSafe, RegisterFails
  PROVE  BytesSafe'
<1>1. /\ pc = "pad" /\ pc' = "idle" /\ op' = NoOp /\ saved' = Forgotten /\ file' = Padded
      /\ UNCHANGED <<diskLut, lut, sectors, saves, crashes>>
  BY DEF RegisterFails, handleVars
<1>2. /\ Whole(Len(file')) /\ Offset(Len(sectors)) <= Len(file') + HeaderTail /\ HeaderTail <= Len(file')
      /\ AllKept(file', lut, Blocks \ {op.pos})
  BY <1>1, PaddedFacts
<1>3. \A p \in Blocks : Secure(p)' => p \notin AtRisk /\ saved'[p] = saved[p] /\ Secure(p) /\ p # op.pos
  BY <1>1 DEF Forgotten, AtRisk, Secure
<1>4. BytesKept'
  BY <1>1, <1>2, <1>3 DEF BytesKept, AllKept, Secure
<1>5. OnDisk'
  <2>1. \A p \in Blocks \ AtRisk : Secure(p) => lut[p] = diskLut[p]
    BY <1>1 DEF BytesSafe, OnDisk
  <2> QED BY <1>1, <1>3, <2>1 DEF OnDisk, Secure
<1>6. LongEnough'
  BY <1>1, <1>2 DEF LongEnough, Whole
<1>7. Written'
  BY <1>1 DEF Written
<1> QED BY <1>4, <1>5, <1>6, <1>7 DEF BytesSafe

LEMMA WriteHeaderBytes ==
  ASSUME LayoutInv, BytesSafe, WriteHeader
  PROVE  BytesSafe'
<1> DEFINE b == [i \in 1 .. HeaderTail |-> HeaderByte]
<1>1. /\ pc = "header" /\ pc' = "idle" /\ op' = NoOp /\ diskLut' = lut
      /\ saved' = [saved EXCEPT ![op.pos] = [save |-> saves, size |-> op.size]]
      /\ file' = WriteAt(file, 0, b)
      /\ UNCHANGED <<lut, sectors, saves, crashes, failures>>
  BY DEF WriteHeader, HeaderOf, handleVars
<1>2. RegionTypeOK /\ OpExact /\ Layout(lut, sectors)
  BY <1>1 DEF LayoutInv, InSave
<1>3. /\ op.pos \in Blocks /\ lut \in [Blocks -> Entry] /\ sectors \in Seq(Blocks) /\ file \in Seq(Byte)
      /\ Len(file) \in Nat /\ DOMAIN saved = Blocks
  BY <1>2, LenProperties DEF RegionTypeOK
<1>4. op.size \in Sizes /\ op.size \in Nat /\ Present(lut, op.pos) /\ lut[op.pos].count = SectorCount(op.size)
  BY <1>1, <1>2, SizesFacts DEF OpExact, InSave
<1>5. b \in Seq(Byte) /\ Len(b) = HeaderTail /\ HeaderTail \in Nat
  <2>1. HeaderTail \in Nat /\ HeaderByte \in Byte
    BY RegionAssumption DEF Byte
  <2> QED BY <2>1, FillFacts
<1> HIDE DEF b
<1>6. /\ AllKept(file, lut, Blocks \ {op.pos})
      /\ Whole(Len(file)) /\ Offset(Len(sectors)) <= Len(file) + HeaderTail /\ HeaderTail <= Len(file)
      /\ Held(file, Offset(lut[op.pos].index), op.pos, UnderWay)
  BY <1>1 DEF BytesSafe, BytesKept, LongEnough, Written, InSave
<1>7. Len(file') = Len(file)
  <2> DEFINE at == 0
  <2>1. at \in Nat /\ at + Len(b) <= Len(file)
    BY <1>5, <1>6
  <2> HIDE DEF at
  <2>2. Len(WriteAt(file, at, b)) = IF at + Len(b) > Len(file) THEN at + Len(b) ELSE Len(file)
    BY <1>3, <1>5, <2>1, WriteAtFacts
  <2>3. Len(WriteAt(file, at, b)) = Len(file)
    BY <1>3, <2>1, <2>2
  <2> QED BY <1>1, <2>3 DEF at
<1>8. ASSUME NEW p \in Blocks, Secure(p)' PROVE Kept(file', lut, p, saved'[p])
  <2>1. Kept(file, lut, p, saved'[p])
    <3>1. CASE p = op.pos
      <4>1. saved'[p] = UnderWay
        BY <1>1, <1>3, <3>1 DEF UnderWay
      <4>2. UnderWay.size = op.size
        BY DEF UnderWay
      <4>3. op.size + HeaderTail <= Room(lut[p].count)
        BY <1>4, <1>8, <3>1, <4>1, <4>2, RoomFacts DEF Secure
      <4> QED BY <1>4, <1>6, <3>1, <4>1, <4>2, <4>3 DEF Kept
    <3>2. CASE p # op.pos
      <4>1. saved'[p] = saved[p]
        BY <1>1, <1>3, <3>2
      <4> QED BY <1>6, <1>8, <3>2, <4>1 DEF AllKept, Secure
    <3> QED BY <3>1, <3>2
  <2>2. Present(lut, p)
    BY <2>1 DEF Kept
  <2>3. Offset(lut[p].index) \in Nat /\ HeaderTail <= Offset(lut[p].index)
    <3>1. lut[p].index \in Nat
      BY <1>3 DEF Entry
    <3>2. Offset(lut[p].index) = HeaderTail + Room(lut[p].index) /\ Room(lut[p].index) \in Nat
      BY <3>1, Offsets
    <3> QED BY <1>5, <3>2
  <2>4. Offset(lut[p].index) >= 0 + Len(b) /\ 0 \in Nat
    BY <1>5, <2>3
  <2> QED BY <1>1, <1>3, <1>5, <2>1, <2>4, KeptWrite
<1>9. BytesKept'
  BY <1>1, <1>8 DEF BytesKept, AllKept, Secure
<1>10. OnDisk'
  BY <1>1 DEF OnDisk, Secure
<1>11. LongEnough'
  BY <1>1, <1>6, <1>7 DEF LongEnough, Whole
<1>12. Written'
  BY <1>1 DEF Written
<1> QED BY <1>9, <1>10, <1>11, <1>12 DEF BytesSafe

\* The sectors open counts in a file of m bytes behind the header.
LEMMA WholeCount ==
  ASSUME NEW m \in Nat, NEW k \in Nat
  PROVE  /\ SectorCount(m) \in Nat
         /\ m <= Room(k) => SectorCount(m) <= k
         /\ Room(k) <= m + HeaderTail => k <= SectorCount(m)
<1> DEFINE x == SectorCount(m)
<1>1. x \in Nat /\ m <= Room(x) /\ Room(x) < m + SectorSize
  BY SectorCountFacts DEF Room
<1> HIDE DEF x
<1>2. /\ Room(x) \in Nat /\ Room(k) \in Nat
      /\ HeaderTail \in Nat /\ SectorSize \in Nat /\ HeaderTail < SectorSize
  BY <1>1, Offsets
<1>3. ASSUME m <= Room(k) PROVE x <= k
  <2>1. k < x => Room(k) + SectorSize <= Room(x)
    BY <1>1, Offsets
  <2> QED BY <1>1, <1>2, <1>3, <2>1
<1>4. ASSUME Room(k) <= m + HeaderTail PROVE k <= x
  <2>1. x < k => Room(x) + SectorSize <= Room(k)
    BY <1>1, Offsets
  <2> QED BY <1>1, <1>2, <1>4, <2>1
<1> QED BY <1>1, <1>3, <1>4 DEF x

LEMMA OpenBytes ==
  ASSUME LayoutInv, LayoutInv', BytesSafe, Open
  PROVE  BytesSafe'
<1>1. /\ pc = "closed"
      /\ UNCHANGED <<file, diskLut, op, saves, saved, crashes, failures>>
  BY DEF Open, historyVars
<1>2. AllKept(file, diskLut, Blocks) /\ Whole(Len(file)) /\ HeaderTail <= Len(file)
  BY <1>1 DEF BytesSafe, BytesKept, LongEnough
<1>3. CASE Opens(file, diskLut)
  <2>1. lut' = diskLut /\ pc' = "idle"
    BY <1>3 DEF Open
  <2>2. /\ Layout(lut', sectors') /\ lut' \in [Blocks -> Entry] /\ sectors' \in Seq(Blocks)
        /\ file \in Seq(Byte)
    BY <1>1, <2>1 DEF LayoutInv, RegionTypeOK
  <2>3. BytesKept'
    BY <1>1, <1>2, <2>1 DEF BytesKept, AllKept, Secure
  <2>4. OnDisk'
    BY <1>1, <2>1 DEF OnDisk
  <2> DEFINE n == Len(sectors')
  <2>5. PICK k \in Nat : Room(k) <= Len(file) /\ Len(file) <= Offset(k)
    BY <1>2 DEF Whole
  <2>6. n \in Nat /\ (n > 0 => sectors'[n] \in Blocks)
    <3>1. n \in Nat
      BY <2>2, LenProperties
    <3>2. n > 0 => n \in 1 .. n
      BY <3>1
    <3> QED BY <2>2, <3>1, <3>2, ElementOfSeq
  <2>7. n <= k
    <3>1. CASE n = 0
      BY <2>5, <3>1
    <3>2. CASE n > 0
      <4> DEFINE p == sectors'[n]
                 a == lut'[p].index
                 c == lut'[p].count
      <4>1. n \in 1 .. n
        BY <2>6, <3>2
      <4>2. p \in Blocks /\ Present(lut', p) /\ n \in Run(lut', p)
        BY <2>2, <2>6, <3>2, <4>1 DEF Layout
      <4>3. a + c <= SectorCount(Len(file) - HeaderTail)
        BY <1>3, <2>1, <4>2 DEF Opens, PresentIn
      <4>4. Len(file) - HeaderTail \in Nat /\ Len(file) - HeaderTail <= Room(k)
        <5>1. Offset(k) = HeaderTail + Room(k) /\ Room(k) \in Nat /\ HeaderTail \in Nat /\ Len(file) \in Nat
          BY <2>2, LenProperties, Offsets
        <5> QED BY <1>2, <2>5, <5>1
      <4>5. SectorCount(Len(file) - HeaderTail) <= k /\ SectorCount(Len(file) - HeaderTail) \in Nat
        BY <4>4, WholeCount
      <4>6. a \in Nat /\ c \in Nat /\ n \in a + 1 .. a + c
        BY <2>2, <4>2 DEF Run, Entry
      <4> HIDE DEF a, c, n
      <4> QED BY <2>6, <4>3, <4>5, <4>6
    <3> HIDE DEF n
    <3> QED BY <2>6, <3>1, <3>2
  <2>8. Offset(n) <= Len(file) + HeaderTail
    <3> HIDE DEF n
    <3>1. Room(n) <= Room(k) /\ Offset(n) = HeaderTail + Room(n)
      BY <2>6, <2>7, Offsets
    <3>2. Room(n) \in Nat /\ Room(k) \in Nat /\ HeaderTail \in Nat /\ Len(file) \in Nat
      BY <2>2, <2>6, LenProperties, Offsets
    <3> QED BY <2>5, <3>1, <3>2
  <2>9. LongEnough'
    BY <1>1, <1>2, <2>8 DEF LongEnough, Whole
  <2>10. Written'
    BY <2>1 DEF Written
  <2> QED BY <2>3, <2>4, <2>9, <2>10 DEF BytesSafe
<1>4. CASE ~Opens(file, diskLut)
  <2>1. pc' = "unreadable"
    BY <1>4 DEF Open
  <2>2. BytesKept' /\ OnDisk' /\ Written'
    BY <2>1 DEF BytesKept, OnDisk, Written
  <2>3. LongEnough'
    BY <1>1, <1>2, <2>1 DEF LongEnough, Whole, InSave
  <2> QED BY <2>2, <2>3 DEF BytesSafe
<1> QED BY <1>3, <1>4

\* A file whose saves all ended well passes validate_lut.
LEMMA UndisturbedOpens ==
  ASSUME LayoutInv, BytesSafe, Undisturbed, pc = "closed"
  PROVE  Opens(file, diskLut)
<1>1. diskLut = lut /\ Layout(diskLut, sectors) /\ RegionTypeOK
  BY DEF LayoutInv
<1>2. diskLut \in [Blocks -> Entry] /\ sectors \in Seq(Blocks) /\ Len(sectors) \in Nat /\ Len(file) \in Nat
  BY <1>1, LenProperties DEF RegionTypeOK
<1>3. Offset(Len(sectors)) <= Len(file) + HeaderTail /\ HeaderTail <= Len(file)
  BY DEF BytesSafe, LongEnough
<1>4. /\ Len(file) - HeaderTail \in Nat /\ HeaderTail \in Nat
      /\ Room(Len(sectors)) <= (Len(file) - HeaderTail) + HeaderTail
  <2>1. /\ Offset(Len(sectors)) = HeaderTail + Room(Len(sectors)) /\ Room(Len(sectors)) \in Nat
        /\ HeaderTail \in Nat
    BY <1>2, Offsets
  <2> QED BY <1>2, <1>3, <2>1
<1>5. Len(sectors) <= SectorCount(Len(file) - HeaderTail) /\ SectorCount(Len(file) - HeaderTail) \in Nat
  BY <1>2, <1>4, WholeCount
<1>7. ASSUME NEW p \in PresentIn(diskLut)
      PROVE  diskLut[p].index + diskLut[p].count <= SectorCount(Len(file) - HeaderTail)
  <2>1. /\ diskLut[p].index \in Nat /\ diskLut[p].count \in Nat
        /\ diskLut[p].index + diskLut[p].count <= Len(sectors)
    BY <1>1, <1>2, <1>7 DEF Layout, Entry, PresentIn
  <2> QED BY <1>2, <1>5, <2>1
<1>8. ASSUME NEW p \in PresentIn(diskLut), NEW q \in PresentIn(diskLut), p # q
      PROVE  Span(diskLut, p) \cap Span(diskLut, q) = {}
  <2> DEFINE a == diskLut[p].index
             c == diskLut[p].count
             b == diskLut[q].index
             d == diskLut[q].count
  <2>1. a \in Nat /\ c \in Nat /\ b \in Nat /\ d \in Nat
    BY <1>2, <1>8 DEF Entry, PresentIn
  <2>2. a + c <= b \/ b + d <= a
    BY <1>1, <1>2, <1>8, RunsAreApart DEF PresentIn
  <2>3. Span(diskLut, p) = a .. a + c - 1 /\ Span(diskLut, q) = b .. b + d - 1
    BY DEF Span
  <2> HIDE DEF a, b, c, d
  <2>4. (a .. a + c - 1) \cap (b .. b + d - 1) = {}
    BY <2>1, <2>2
  <2> QED BY <2>3, <2>4
<1> QED BY <1>3, <1>7, <1>8 DEF Opens

LEMMA CloseBytes ==
  ASSUME BytesSafe, Close
  PROVE  BytesSafe'
<1>1. /\ pc = "idle" /\ pc' = "closed"
      /\ UNCHANGED <<file, diskLut, lut, sectors, op, saves, saved, crashes, failures>>
  BY DEF Close, handleVars, historyVars
<1>2. /\ AllKept(file, lut, Blocks) /\ \A q \in Blocks : Secure(q) => lut[q] = diskLut[q]
      /\ Whole(Len(file)) /\ Offset(Len(sectors)) <= Len(file) + HeaderTail /\ HeaderTail <= Len(file)
  BY <1>1 DEF BytesSafe, BytesKept, OnDisk, LongEnough
<1>3. BytesKept'
  BY <1>1, <1>2 DEF BytesKept, AllKept, Secure, Kept, Present
<1>4. OnDisk' /\ Written'
  BY <1>1 DEF OnDisk, Written
<1>5. LongEnough'
  BY <1>1, <1>2 DEF LongEnough, Whole
<1> QED BY <1>3, <1>4, <1>5 DEF BytesSafe

LEMMA BytesInit == Init => BytesInv /\ OpensAgain
<1> SUFFICES ASSUME Init PROVE BytesInv /\ OpensAgain
  OBVIOUS
<1>1. /\ file = [i \in 1 .. HeaderTail |-> HeaderByte] /\ sectors = <<>> /\ pc = "idle" /\ lut = diskLut
      /\ saved = [p \in Blocks |-> Never]
  BY DEF Init
<1>2. Len(file) = HeaderTail /\ Len(sectors) = 0 /\ Offset(0) = HeaderTail /\ Room(0) = 0 /\ HeaderTail \in Nat
  <2>1. HeaderTail \in Nat /\ HeaderByte \in Byte
    BY RegionAssumption DEF Byte
  <2>2. Len([i \in 1 .. HeaderTail |-> HeaderByte]) = HeaderTail
    BY <2>1, FillFacts
  <2>3. Offset(0) = HeaderTail /\ Room(0) = 0
    BY <2>1, Offsets
  <2> QED BY <1>1, <2>1, <2>2, <2>3, EmptySeq
<1>3. BytesKept /\ OnDisk /\ Written
  BY <1>1 DEF BytesKept, AllKept, Secure, OnDisk, Written
<1>4. LongEnough
  <2>1. Whole(Len(file))
    <3>1. 0 \in Nat /\ Room(0) <= Len(file) /\ Len(file) <= Offset(0)
      BY <1>2
    <3> QED BY <3>1 DEF Whole
  <2> QED BY <1>1, <1>2, <2>1 DEF LongEnough
<1> QED BY <1>1, <1>3, <1>4 DEF BytesInv, OpensAgain

LEMMA BytesNext ==
  LayoutInv /\ LayoutInv' /\ BytesInv /\ OpensAgain /\ [Next]_vars
    => BytesInv' /\ OpensAgain'
<1> SUFFICES ASSUME LayoutInv, LayoutInv', BytesInv, OpensAgain, [Next]_vars
             PROVE  BytesInv' /\ OpensAgain'
  OBVIOUS
<1>1. CASE UNCHANGED vars
  <2>1. UNCHANGED <<file, diskLut, lut, sectors, pc, op, saves, saved, crashes, failures>>
    BY <1>1 DEF vars, handleVars, historyVars
  <2>2. AtRisk' = AtRisk /\ CutTable' = CutTable /\ Target' = Target /\ UnderWay' = UnderWay
    BY <2>1 DEF AtRisk, CutTable, Target, UnderWay, Present
  <2>3. (BytesKept' <=> BytesKept) /\ (OnDisk' <=> OnDisk)
    BY <2>1, <2>2 DEF BytesKept, OnDisk, AllKept, Secure
  <2>4. (LongEnough' <=> LongEnough) /\ (Written' <=> Written)
    BY <2>1, <2>2 DEF LongEnough, Written, Whole, Undisturbed
  <2> QED BY <2>1, <2>3, <2>4 DEF BytesInv, OpensAgain, Undisturbed
<1>2. CASE Next
  <2>1. CASE Crash
    <3>1. crashes' # 0 /\ pc' = "closed"
      BY <2>1 DEF Crash, LayoutInv, RegionTypeOK
    <3> QED BY <3>1 DEF BytesInv, OpensAgain
  <2>2. CASE ~Crash
    <3>1. crashes' = crashes
      BY <1>2, <2>2 DEF Next, BeginSave, SaveStep, ShiftTail, CutFile, WritePrefix, WritePayload, PadAndRegister,
         RegisterFails, WriteHeader, Open, Close, historyVars
    <3>2. crashes = 0 => BytesSafe
      BY DEF BytesInv, BytesSafe
    <3>3. ASSUME crashes = 0 PROVE BytesSafe'
      <4>1. BytesSafe
        BY <3>2, <3>3
      <4>2. ASSUME NEW p \in Blocks, NEW size \in Sizes, BeginSave(p, size) PROVE BytesSafe'
        BY <4>1, <4>2, BeginSaveBytes
      <4>3. CASE SaveStep
        BY <4>1, <4>3, ShiftTailBytes, CutFileBytes, WritePrefixBytes, WritePayloadBytes,
           PadAndRegisterBytes, RegisterFailsBytes, WriteHeaderBytes DEF SaveStep
      <4> QED BY <1>2, <2>2, <4>1, <4>2, <4>3, OpenBytes, CloseBytes DEF Next
    <3>4. BytesInv'
      BY <3>1, <3>3 DEF BytesInv, BytesSafe
    <3>5. OpensAgain'
      <4> SUFFICES ASSUME Undisturbed', pc' = "unreadable" PROVE FALSE
        BY DEF OpensAgain
      <4>1. Open \/ pc = "unreadable"
        BY <1>2, <2>2 DEF Next, BeginSave, SaveStep, ShiftTail, CutFile, WritePrefix, WritePayload, PadAndRegister,
           RegisterFails, WriteHeader, Close
      <4>2. CASE Open
        <5>1. Undisturbed /\ pc = "closed" /\ ~Opens(file, diskLut)
          BY <4>2 DEF Open, Undisturbed, historyVars
        <5> QED BY <3>2, <5>1, UndisturbedOpens DEF Undisturbed
      <4>3. CASE ~Open
        <5>1. pc = "unreadable"
          BY <4>1, <4>3
        <5> QED BY <1>2, <2>2, <4>3, <5>1 DEF Next, BeginSave, SaveStep, ShiftTail, CutFile, WritePrefix,
               WritePayload, PadAndRegister, RegisterFails, WriteHeader, Close
      <4> QED BY <4>2, <4>3
    <3> QED BY <3>4, <3>5
  <2> QED BY <2>1, <2>2
<1> QED BY <1>1, <1>2

\* Bytes that are held where the table leads are what load_block reads.
LEMMA KeptReadsBack ==
  ASSUME RegionTypeOK, NEW t \in [Blocks -> Entry], NEW p \in Blocks,
         Kept(file, t, p, saved[p])
  PROVE  ReadsBack(file, t, p)
<1> DEFINE size == saved[p].size
           save == saved[p].save
           at == Offset(t[p].index)
           read == SubSeq(file, at + 1, at + size)
<1>1. size \in Nat /\ save \in Nat /\ at \in Nat /\ file \in Seq(Byte) /\ Len(file) \in Nat
  <2>1. saved[p].size \in Nat
    BY SizesFacts DEF Kept
  <2>2. saved[p].save \in Nat
    BY RegionAssumption DEF RegionTypeOK
  <2>3. Offset(t[p].index) \in Nat
    BY Offsets DEF Entry
  <2> QED BY <2>1, <2>2, <2>3, LenProperties DEF RegionTypeOK
<1>2. at + size <= Len(file) /\ \A j \in 1 .. size : file[at + j] = <<p, save, j>>
  BY DEF Kept, Held
<1>3. Present(t, p) /\ size <= t[p].count * SectorSize
  <2>1. size <= Room(t[p].count)
    BY KeptFacts
  <2> QED BY <2>1 DEF Kept, Room
<1>4. Bytes(p, save, size) \in Seq(Byte) /\ Len(Bytes(p, save, size)) = size
      /\ \A j \in 1 .. size : Bytes(p, save, size)[j] = <<p, save, j>>
  <2> HIDE DEF size, save
  <2>1. \A j \in 1 .. size : <<p, save, j>> \in Byte
    BY <1>1 DEF Byte
  <2>2. Bytes(p, save, size) \in [1 .. size -> Byte]
    BY <2>1 DEF Bytes
  <2>3. Bytes(p, save, size) \in Seq(Byte) /\ Len(Bytes(p, save, size)) = size
    BY <1>1, <2>2, FunctionIsSeq
  <2> QED BY <2>3 DEF Bytes
<1> HIDE DEF size, save, at
<1>5. \A i \in at + 1 .. at + size : file[i] \in Byte
  <2>1. ASSUME NEW i \in at + 1 .. at + size PROVE file[i] \in Byte
    <3>1. i \in 1 .. Len(file)
      BY <1>1, <1>2, <2>1
    <3> QED BY <1>1, <3>1, ElementOfSeq
  <2> QED BY <2>1
<1>6. /\ read \in Seq(Byte) /\ Len(read) = size
      /\ \A j \in 1 .. size : read[j] = file[at + j]
  <2> DEFINE first == at + 1
             last == at + size
  <2>1. first \in Int /\ last \in Int /\ last - first + 1 = size /\ (first <= last <=> size > 0)
    BY <1>1
  <2>2. \A i \in first .. last : file[i] \in Byte
    BY <1>5
  <2>3. read = SubSeq(file, first, last)
    BY DEF read
  <2> HIDE DEF read, first, last
  <2>4. /\ read \in Seq(Byte)
        /\ Len(read) = IF first <= last THEN last - first + 1 ELSE 0
        /\ \A j \in 1 .. last - first + 1 : read[j] = file[first + j - 1]
    BY <2>1, <2>2, <2>3, SubSeqProperties
  <2>5. Len(read) = size
    BY <1>1, <2>1, <2>4
  <2>6. ASSUME NEW j \in 1 .. size PROVE read[j] = file[at + j]
    <3>1. j \in 1 .. last - first + 1
      BY <2>1
    <3>2. first + j - 1 = at + j
      BY <1>1 DEF first
    <3> QED BY <2>4, <3>1, <3>2
  <2> QED BY <2>4, <2>5, <2>6
<1> HIDE DEF read
<1>7. read = Bytes(p, save, size)
  <2> DEFINE b == Bytes(p, save, size)
  <2>1. b \in Seq(Byte) /\ Len(b) = size /\ \A j \in 1 .. size : b[j] = <<p, save, j>>
    BY <1>4
  <2> HIDE DEF b
  <2>2. \A j \in 1 .. Len(read) : read[j] = b[j]
    BY <1>2, <1>6, <2>1
  <2>3. Len(read) = Len(b) /\ read \in Seq(Byte)
    BY <1>6, <2>1
  <2>4. read = b
    BY <2>1, <2>2, <2>3, SeqEqual
  <2> QED BY <2>4 DEF b
<1> QED BY <1>2, <1>3, <1>7 DEF ReadsBack, size, save, at, read

\* For any blocks, sizes, sector size and header: between two saves every block whose last save
\* nothing put at risk, and whose bytes leave room for the header's tail in their last sector,
\* reads back byte for byte, whatever came, grew, shrank, moved or failed since; while a block is
\* appended or written in place the table on disk leads to all the others; and a file whose saves
\* all ended well opens.  A block that does not leave the room can lose its end: pad_to_sector_size
\* counts sectors from the beginning of the file, where the blocks' are counted from the end of
\* the header (RegionFile::save_block, remove_sectors_from_block, open).
THEOREM BlocksReadBack == Spec => []FileReadsBack
<1>1. LayoutInv /\ BytesInv /\ OpensAgain => FileReadsBack
  <2> SUFFICES ASSUME LayoutInv, BytesInv, OpensAgain PROVE FileReadsBack
    OBVIOUS
  <2>1. RegionTypeOK /\ lut \in [Blocks -> Entry] /\ diskLut \in [Blocks -> Entry]
    BY DEF LayoutInv, RegionTypeOK
  <2>2. SecureBlocksReadBack
    <3>1. ASSUME pc = "idle", crashes = 0, NEW p \in Blocks, Secure(p)
          PROVE  ReadsBack(file, lut, p)
      <4>1. Kept(file, lut, p, saved[p])
        BY <3>1 DEF BytesInv, BytesKept, AllKept, Secure
      <4> QED BY <2>1, <4>1, KeptReadsBack
    <3> QED BY <3>1 DEF SecureBlocksReadBack
  <2>3. OthersReadBackInPlace
    <3>1. ASSUME pc \in {"prefix", "payload", "pad", "header"}, op.remove = 0, crashes = 0,
                 NEW p \in Blocks \ {op.pos}, Secure(p)
          PROVE  ReadsBack(file, diskLut, p)
      <4>1. p \notin AtRisk
        BY <2>1, <3>1 DEF AtRisk, RegionTypeOK
      <4>2. lut[p] = diskLut[p]
        BY <3>1, <4>1 DEF BytesInv, OnDisk
      <4>3. Kept(file, lut, p, saved[p])
        BY <3>1 DEF BytesInv, BytesKept, AllKept, Secure
      <4>4. Kept(file, diskLut, p, saved[p])
        BY <4>2, <4>3 DEF Kept, Present
      <4> QED BY <2>1, <4>4, KeptReadsBack
    <3> QED BY <3>1 DEF OthersReadBackInPlace
  <2> QED BY <2>2, <2>3, LayoutGivesExact DEF FileReadsBack
<1>2. Init => LayoutInv /\ BytesInv /\ OpensAgain
  BY LayoutInit, BytesInit
<1>3. LayoutInv /\ BytesInv /\ OpensAgain /\ [Next]_vars => (LayoutInv /\ BytesInv /\ OpensAgain)'
  BY LayoutNext, BytesNext
<1> QED BY <1>1, <1>2, <1>3, PTL DEF Spec

=============================================================================
