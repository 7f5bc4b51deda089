------------------------- MODULE SharedVoxelsProofs -------------------------
(***************************************************************************)
(* Theorems about the voxels that threads share, for any threads, LODs and *)
(* positions: the spatial locks exclude and wake whom they must, and what  *)
(* runs under a region is as good as one step for the edits.               *)
(***************************************************************************)
EXTENDS SharedVoxels, FiniteSetTheorems, SequenceTheorems, WellFoundedInduction, TLAPS

-----------------------------------------------------------------------------
(* The entries of a lock.                                                  *)

\* Entries keep their places but for the last one, which fills the gap.
LEMMA SwapRemoveIs ==
  ASSUME NEW S, NEW s \in Seq(S), NEW i \in 1 .. Len(s)
  PROVE  LET r == SwapRemove(s, i) IN
           /\ r \in Seq(S) /\ DOMAIN r = 1 .. Len(s) - 1
           /\ \A j \in DOMAIN r : r[j] = IF j = i THEN s[Len(s)] ELSE s[j]
           /\ \A k \in DOMAIN s \ {i} : \E j \in DOMAIN r : r[j] = s[k]
<1> DEFINE r == SwapRemove(s, i)
           L == Len(s)
<1>1. L \in Nat /\ L - 1 \in Nat /\ i \in 1 .. L /\ DOMAIN s = 1 .. L
  BY LenProperties
<1>2. DOMAIN r = 1 .. L - 1 /\ \A j \in 1 .. L - 1 : r[j] = IF j = i THEN s[L] ELSE s[j]
  BY DEF SwapRemove
<1>3. \A j \in 1 .. L - 1 : r[j] \in S
  BY <1>1, <1>2, ElementOfSeq
<1>4. r \in [1 .. L - 1 -> S]
  BY <1>2, <1>3 DEF SwapRemove
<1>5. r \in Seq(S)
  BY <1>1, <1>4
<1> HIDE DEF L
<1>6. ASSUME NEW k \in DOMAIN s \ {i} PROVE \E j \in DOMAIN r : r[j] = s[k]
  <2>1. CASE k = L
    <3>1. i \in 1 .. L - 1
      BY <1>1, <1>6, <2>1
    <3> QED
      BY <1>2, <2>1, <3>1
  <2>2. CASE k # L
    <3>1. k \in 1 .. L - 1 /\ k # i
      BY <1>1, <1>6, <2>2
    <3> QED
      BY <1>2, <3>1
  <2> QED
    BY <2>1, <2>2
<1> QED
  BY <1>2, <1>5, <1>6 DEF L

\* The places of a sequence that have an element.
PlacesOf(s, e) == {i \in DOMAIN s : s[i] = e}

LEMMA PlacesFinite ==
  ASSUME NEW S, NEW s \in Seq(S), NEW e
  PROVE  IsFiniteSet(PlacesOf(s, e)) /\ Cardinality(PlacesOf(s, e)) \in Nat
<1>1. DOMAIN s = 1 .. Len(s) /\ Len(s) \in Int /\ 1 \in Int
  BY LenProperties
<1>2. IsFiniteSet(1 .. Len(s))
  BY <1>1, FS_Interval
<1>3. PlacesOf(s, e) \in SUBSET (1 .. Len(s))
  BY <1>1 DEF PlacesOf
<1>4. IsFiniteSet(PlacesOf(s, e))
  BY <1>2, <1>3, FS_Subset
<1> QED
  BY <1>4, FS_CardinalityType

\* One place fewer for the element that was removed, as many for the others.
LEMMA SwapRemoveCounts ==
  ASSUME NEW S, NEW s \in Seq(S), NEW i \in 1 .. Len(s), NEW e
  PROVE  Cardinality(PlacesOf(SwapRemove(s, i), e))
           = IF s[i] = e THEN Cardinality(PlacesOf(s, e)) - 1 ELSE Cardinality(PlacesOf(s, e))
<1> DEFINE r == SwapRemove(s, i)
           L == Len(s)
           B == PlacesOf(s, e) \ {i}
<1>1. L \in Nat /\ L - 1 \in Nat /\ i \in 1 .. L /\ DOMAIN s = 1 .. L
  BY LenProperties
<1>2. DOMAIN r = 1 .. L - 1 /\ \A j \in 1 .. L - 1 : r[j] = IF j = i THEN s[L] ELSE s[j]
  BY DEF SwapRemove
<1>3. IsFiniteSet(B) /\ Cardinality(B)
        = IF i \in PlacesOf(s, e) THEN Cardinality(PlacesOf(s, e)) - 1 ELSE Cardinality(PlacesOf(s, e))
  BY PlacesFinite, FS_RemoveElement
<1>4. i \in PlacesOf(s, e) <=> s[i] = e
  BY <1>1 DEF PlacesOf
<1> HIDE DEF r, L
<1>5. CASE i = L \/ s[L] # e
  <2>1. PlacesOf(r, e) = B
    BY <1>1, <1>2, <1>5 DEF PlacesOf
  <2> QED
    BY <1>3, <1>4, <2>1 DEF r
<1>6. CASE i # L /\ s[L] = e
  <2>1. L \in B /\ i \notin B
    BY <1>1, <1>6 DEF PlacesOf
  <2>2. PlacesOf(r, e) = (B \ {L}) \cup {i}
    BY <1>1, <1>2, <1>6 DEF PlacesOf
  <2>3. IsFiniteSet(B \ {L}) /\ Cardinality(B \ {L}) = Cardinality(B) - 1
    BY <1>3, <2>1, FS_RemoveElement
  <2>4. i \notin B \ {L}
    BY <2>1
  <2>5. Cardinality((B \ {L}) \cup {i}) = Cardinality(B \ {L}) + 1
    BY <2>3, <2>4, FS_AddElement
  <2>6. Cardinality(B) \in Nat
    BY <1>3, FS_CardinalityType
  <2> QED
    BY <1>3, <1>4, <2>2, <2>3, <2>5, <2>6 DEF r
<1> QED
  BY <1>5, <1>6

\* The first place of an element that is there.
LEMMA FirstPlace ==
  ASSUME NEW S, NEW s \in Seq(S), NEW e, PlacesOf(s, e) # {}
  PROVE  \E i \in DOMAIN s : s[i] = e /\ \A j \in 1 .. i - 1 : s[j] # e
<1>1. DOMAIN s = 1 .. Len(s) /\ Len(s) \in Nat
  BY LenProperties
<1>2. PlacesOf(s, e) \subseteq Nat
  BY <1>1 DEF PlacesOf
<1>3. IsWellFoundedOn(OpToRel(<, Nat), Nat)
  BY NatLessThanWellFounded
<1>4. PICK i \in PlacesOf(s, e) : \A j \in PlacesOf(s, e) : ~ (<<j, i>> \in OpToRel(<, Nat))
  BY <1>2, <1>3, WFMin
<1>5. \A a, b \in Nat : a < b => <<a, b>> \in OpToRel(<, Nat)
  BY DEF OpToRel
<1>6. i \in 1 .. Len(s) /\ s[i] = e
  BY <1>1 DEF PlacesOf
<1>7. ASSUME NEW j \in 1 .. i - 1 PROVE s[j] # e
  <2>1. j \in 1 .. Len(s) /\ j \in Nat /\ i \in Nat /\ j < i
    BY <1>1, <1>6
  <2> QED
    BY <1>1, <1>4, <1>5, <2>1 DEF PlacesOf
<1> QED
  BY <1>1, <1>6, <1>7

LEMMA AppendCounts ==
  ASSUME NEW S, NEW s \in Seq(S), NEW x \in S, NEW e
  PROVE  Cardinality(PlacesOf(Append(s, x), e))
           = IF x = e THEN Cardinality(PlacesOf(s, e)) + 1 ELSE Cardinality(PlacesOf(s, e))
<1> DEFINE r == Append(s, x)
           L == Len(s)
<1>1. L \in Nat /\ DOMAIN s = 1 .. L /\ DOMAIN r = 1 .. L + 1 /\ r[L + 1] = x
      /\ \A j \in 1 .. L : r[j] = s[j]
  BY LenProperties, AppendProperties
<1>2. IsFiniteSet(PlacesOf(s, e)) /\ L + 1 \notin PlacesOf(s, e)
  <2>1. L + 1 \notin 1 .. L
    BY <1>1
  <2> QED
    BY <1>1, <2>1, PlacesFinite DEF PlacesOf
<1> HIDE DEF r, L
<1>3. CASE x = e
  <2>1. PlacesOf(r, e) = PlacesOf(s, e) \cup {L + 1}
    BY <1>1, <1>3 DEF PlacesOf
  <2> QED
    BY <1>2, <1>3, <2>1, FS_AddElement DEF r
<1>4. CASE x # e
  <2>1. PlacesOf(r, e) = PlacesOf(s, e)
    BY <1>1, <1>4 DEF PlacesOf
  <2> QED
    BY <1>4, <2>1 DEF r
<1> QED
  BY <1>3, <1>4

-----------------------------------------------------------------------------
(* The spatial locks.                                                      *)

Modes == {"Read", "Write"}
Intervals == [lo : Int, hi : Int]
Regions == Intervals \cup {InsertBox(q, l) : q \in Positions, l \in Lods}
                     \cup {GatherBox(q, l) : q \in Positions, l \in Lods}
Entries == [lod : Lods, bounds : Regions, mode : Modes]

Operations ==
  [pc : {"idle", "lock", "held", "write", "unlock"},
   op : {"none", "edit", "gather", "view", "unview", "insert", "check"},
   lod : Lods, box : Intervals, bounds : Regions, mode : Modes, edit : Nat, viewers : Nat,
   missing : BOOLEAN]

\* The region of an operation covers the blocks that it changes, for writing.
OperationExact(o) ==
  /\ o.op = "edit" => /\ o.lod = 0 /\ o.mode = "Write" /\ o.box.lo \in Positions
                      /\ o.box.hi = o.box.lo + 1 /\ o.bounds = VoxelBox(o.box)
  /\ o.op \in {"view", "unview"} => o.mode = "Write" /\ o.bounds = VoxelBox(o.box)
  /\ o.op = "insert" => /\ o.mode = "Write" /\ o.box.lo \in Positions
                        /\ o.bounds = InsertBox(o.box.lo, o.lod)
  /\ o.pc = "write" => o.op = "edit"

LockTypeOK ==
  /\ entries \in Seq(Entries)
  /\ thr \in [Threads -> Operations]
  /\ asleep \subseteq Threads
  /\ \A t \in Threads : OperationExact(thr[t])

EntriesExclude ==
  \A i, j \in DOMAIN entries :
    i # j /\ entries[i].lod = entries[j].lod /\ Intersects(entries[i].bounds, entries[j].bounds)
      => entries[i].mode = "Read" /\ entries[j].mode = "Read"

HoldersOf(e) == {t \in Threads : Holds(t) /\ EntryOf(t) = e}

EntriesAreHeld == \A e \in Entries : Cardinality(PlacesOf(entries, e)) = Cardinality(HoldersOf(e))

LockInv == LockTypeOK /\ EntriesExclude /\ EntriesAreHeld /\ NoForgottenLocker

LEMMA EntryTyped == ASSUME LockTypeOK, NEW t \in Threads PROVE EntryOf(t) \in Entries
  BY DEF LockTypeOK, EntryOf, Operations, Entries

LEMMA HoldersFinite ==
  \A e : IsFiniteSet(HoldersOf(e)) /\ Cardinality(HoldersOf(e)) \in Nat
<1> TAKE e
<1>1. IsFiniteSet(Threads)
  <2>1. IsFiniteSet(Editors \cup Gatherers)
    BY SharedAssumption, FS_Union
  <2>2. IsFiniteSet((Editors \cup Gatherers) \cup {Main})
    BY <2>1, FS_AddElement
  <2> QED
    BY <2>2 DEF Threads
<1>2. HoldersOf(e) \in SUBSET Threads
  BY DEF HoldersOf
<1>3. IsFiniteSet(HoldersOf(e))
  BY <1>1, <1>2, FS_Subset
<1> QED
  BY <1>3, FS_CardinalityType

LEMMA IntersectsSymmetric == \A a, b : Intersects(a, b) <=> Intersects(b, a)
  BY DEF Intersects

\* The operation of one thread changes.
LEMMA ThreadChange ==
  ASSUME LockTypeOK, NEW t \in Threads, NEW o \in Operations, OperationExact(o),
         thr' = [thr EXCEPT ![t] = o]
  PROVE  /\ thr' \in [Threads -> Operations] /\ thr'[t] = o
         /\ \A u \in Threads \ {t} : thr'[u] = thr[u]
         /\ \A u \in Threads : OperationExact(thr'[u])
<1>1. thr' \in [Threads -> Operations] /\ thr'[t] = o /\ \A u \in Threads \ {t} : thr'[u] = thr[u]
  BY DEF LockTypeOK
<1> QED
  BY <1>1 DEF LockTypeOK

\* Two threads inside regions of one LOD that intersect both read.
LEMMA HoldersExclude ==
  ASSUME LockInv, NEW t \in Threads, NEW u \in Threads, t # u, Holds(t), Holds(u),
         thr[t].lod = thr[u].lod, Intersects(thr[t].bounds, thr[u].bounds)
  PROVE  thr[t].mode = "Read" /\ thr[u].mode = "Read"
<1> DEFINE e == EntryOf(t)
           f == EntryOf(u)
<1>1. e \in Entries /\ f \in Entries /\ entries \in Seq(Entries)
  BY EntryTyped DEF LockInv, LockTypeOK
<1>2. /\ e.lod = thr[t].lod /\ e.bounds = thr[t].bounds /\ e.mode = thr[t].mode
      /\ f.lod = thr[u].lod /\ f.bounds = thr[u].bounds /\ f.mode = thr[u].mode
  BY DEF EntryOf
<1>3. t \in HoldersOf(e) /\ u \in HoldersOf(f)
  BY DEF HoldersOf
<1> HIDE DEF e, f
<1>4. PlacesOf(entries, e) # {} /\ PlacesOf(entries, f) # {}
  <2>1. Cardinality(HoldersOf(e)) # 0 /\ Cardinality(HoldersOf(f)) # 0
    BY <1>3, HoldersFinite, FS_EmptySet
  <2> QED
    BY <1>1, <2>1, FS_EmptySet DEF LockInv, EntriesAreHeld
<1>5. \E i, j \in DOMAIN entries : i # j /\ entries[i] = e /\ entries[j] = f
  <2>1. CASE e # f
    BY <1>4, <2>1 DEF PlacesOf
  <2>2. CASE e = f
    <3>1. Cardinality(HoldersOf(e)) # 1
      <4> SUFFICES ASSUME Cardinality(HoldersOf(e)) = 1 PROVE FALSE
        OBVIOUS
      <4>1. \E x : HoldersOf(e) = {x}
        BY HoldersFinite, FS_Singleton
      <4> QED
        BY <1>3, <2>2, <4>1
    <3>2. PICK i \in PlacesOf(entries, e) : TRUE
      BY <1>4
    <3>3. PlacesOf(entries, e) # {i}
      <4> SUFFICES ASSUME PlacesOf(entries, e) = {i} PROVE FALSE
        OBVIOUS
      <4>1. Cardinality(PlacesOf(entries, e)) = 1
        BY FS_Singleton
      <4> QED
        BY <1>1, <3>1, <4>1 DEF LockInv, EntriesAreHeld
    <3>4. PICK j \in PlacesOf(entries, e) : j # i
      BY <3>2, <3>3
    <3> QED
      BY <2>2, <3>2, <3>4 DEF PlacesOf
  <2> QED
    BY <2>1, <2>2
<1>6. PICK i \in DOMAIN entries, j \in DOMAIN entries : i # j /\ entries[i] = e /\ entries[j] = f
  BY <1>5
<1> QED
  BY <1>2, <1>6 DEF LockInv, EntriesExclude

\* An operation begins, or goes on inside its region: the lock does not see it.
LEMMA LockUnseen ==
  ASSUME LockInv, NEW t \in Threads, NEW o \in Operations, OperationExact(o),
         thr' = [thr EXCEPT ![t] = o], UNCHANGED <<entries, asleep>>,
         \/ ~ Holds(t) /\ thr[t].pc # "lock" /\ o.pc = "lock"
         \/ /\ Holds(t) /\ o.pc \in {"held", "write", "unlock"}
            /\ o.lod = thr[t].lod /\ o.bounds = thr[t].bounds /\ o.mode = thr[t].mode
  PROVE  LockInv'
<1>1. LockTypeOK /\ EntriesExclude /\ EntriesAreHeld /\ NoForgottenLocker
  BY DEF LockInv
<1>2. /\ thr' \in [Threads -> Operations] /\ thr'[t] = o
      /\ \A u \in Threads \ {t} : thr'[u] = thr[u]
      /\ \A u \in Threads : OperationExact(thr'[u])
  BY <1>1, ThreadChange
<1>3. LockTypeOK'
  BY <1>1, <1>2 DEF LockTypeOK
<1>4. \A e : HoldersOf(e)' = HoldersOf(e)
  <2> TAKE e
  <2>1. ASSUME NEW u \in Threads PROVE (Holds(u) /\ EntryOf(u) = e)' <=> Holds(u) /\ EntryOf(u) = e
    <3>1. CASE u = t
      BY <1>2, <3>1 DEF Holds, EntryOf
    <3>2. CASE u # t
      BY <1>2, <3>2 DEF Holds, EntryOf
    <3> QED
      BY <3>1, <3>2
  <2> QED
    BY <2>1 DEF HoldersOf
<1>5. EntriesAreHeld'
  BY <1>1, <1>4 DEF EntriesAreHeld
<1>6. NoForgottenLocker'
  <2>1. t \notin asleep
    BY <1>1 DEF NoForgottenLocker, Holds
  <2>2. \A u \in asleep : thr'[u] = thr[u]
    BY <1>1, <1>2, <2>1 DEF LockTypeOK
  <2> QED
    BY <1>1, <2>2 DEF NoForgottenLocker, CanAcquire, EntryOf
<1> QED
  BY <1>1, <1>3, <1>5, <1>6 DEF LockInv, EntriesExclude

LEMMA LockAcquire ==
  ASSUME LockInv, NEW t \in Threads, Acquire(t)
  PROVE  LockInv'
<1> DEFINE e == EntryOf(t)
<1>1. LockTypeOK /\ EntriesExclude /\ EntriesAreHeld /\ NoForgottenLocker
  BY DEF LockInv
<1>2. thr[t].pc = "lock" /\ t \notin asleep /\ entries \in Seq(Entries) /\ e \in Entries
  BY <1>1, EntryTyped DEF Acquire, LockTypeOK
<1>3. CASE CanAcquire(e)
  <2> DEFINE o == [thr[t] EXCEPT !.pc = "held"]
  <2>1. thr[t] \in Operations /\ OperationExact(thr[t])
    BY <1>1 DEF LockTypeOK
  <2>2. /\ o \in Operations /\ o.pc = "held" /\ o.lod = thr[t].lod /\ o.bounds = thr[t].bounds
        /\ o.mode = thr[t].mode /\ o.op = thr[t].op /\ o.box = thr[t].box
    BY <2>1 DEF Operations
  <2>3. OperationExact(o)
    BY <2>1, <2>2 DEF OperationExact
  <2>4. entries' = Append(entries, e) /\ thr' = [thr EXCEPT ![t] = o] /\ asleep' = asleep
    BY <1>1, <1>3 DEF Acquire, LockTypeOK
  <2> HIDE DEF o
  <2>5. /\ thr' \in [Threads -> Operations] /\ thr'[t] = o
        /\ \A u \in Threads \ {t} : thr'[u] = thr[u]
        /\ \A u \in Threads : OperationExact(thr'[u])
    BY <1>1, <2>2, <2>3, <2>4, ThreadChange
  <2>6. /\ entries' \in Seq(Entries) /\ DOMAIN entries = 1 .. Len(entries) /\ Len(entries) \in Nat
        /\ DOMAIN entries' = 1 .. Len(entries) + 1 /\ entries'[Len(entries) + 1] = e
        /\ \A i \in DOMAIN entries : entries'[i] = entries[i]
    BY <1>2, <2>4
  <2>7. LockTypeOK'
    BY <1>1, <2>4, <2>5, <2>6 DEF LockTypeOK
  <2>8. EntriesExclude'
    <3> SUFFICES ASSUME NEW i \in DOMAIN entries', NEW j \in DOMAIN entries', i # j,
                        entries'[i].lod = entries'[j].lod,
                        Intersects(entries'[i].bounds, entries'[j].bounds)
                 PROVE  entries'[i].mode = "Read" /\ entries'[j].mode = "Read"
      BY DEF EntriesExclude
    <3>1. ASSUME NEW k \in DOMAIN entries, entries[k].lod = e.lod, Intersects(entries[k].bounds, e.bounds)
          PROVE  entries[k].mode = "Read" /\ e.mode = "Read"
      BY <1>3, <3>1 DEF CanAcquire
    <3>2. \A k \in DOMAIN entries' : k \in DOMAIN entries \/ k = Len(entries) + 1
      BY <2>6
    <3>3. CASE i \in DOMAIN entries /\ j \in DOMAIN entries
      BY <1>1, <2>6, <3>3 DEF EntriesExclude
    <3>4. CASE i \in DOMAIN entries /\ j = Len(entries) + 1
      BY <2>6, <3>1, <3>4
    <3>5. CASE j \in DOMAIN entries /\ i = Len(entries) + 1
      BY <2>6, <3>1, <3>5, IntersectsSymmetric
    <3> QED
      BY <3>2, <3>3, <3>4, <3>5
  <2>9. ASSUME NEW f \in Entries
        PROVE  Cardinality(PlacesOf(entries, f)') = Cardinality(HoldersOf(f)')
    <3>1. Cardinality(PlacesOf(entries', f))
            = IF e = f THEN Cardinality(PlacesOf(entries, f)) + 1 ELSE Cardinality(PlacesOf(entries, f))
      BY <1>2, <2>4, AppendCounts
    <3>2. ~ Holds(t) /\ Holds(t)' /\ EntryOf(t)' = e
      BY <1>2, <2>2, <2>5 DEF Holds, EntryOf
    <3>3. \A u \in Threads \ {t} : Holds(u)' = Holds(u) /\ EntryOf(u)' = EntryOf(u)
      BY <2>5 DEF Holds, EntryOf
    <3>4. HoldersOf(f)' = IF e = f THEN HoldersOf(f) \cup {t} ELSE HoldersOf(f)
      BY <3>2, <3>3 DEF HoldersOf
    <3>5. t \notin HoldersOf(f)
      BY <3>2 DEF HoldersOf
    <3>6. Cardinality(HoldersOf(f) \cup {t}) = Cardinality(HoldersOf(f)) + 1
      BY <3>5, HoldersFinite, FS_AddElement
    <3>7. Cardinality(PlacesOf(entries, f)) = Cardinality(HoldersOf(f))
      BY <1>1 DEF EntriesAreHeld
    <3>8. PlacesOf(entries, f)' = PlacesOf(entries', f)
      BY DEF PlacesOf
    <3> QED
      BY <3>1, <3>4, <3>6, <3>7, <3>8
  <2>10. NoForgottenLocker'
    <3> SUFFICES ASSUME NEW u \in asleep PROVE thr'[u].pc = "lock" /\ ~ CanAcquire(EntryOf(u))'
      BY <2>4 DEF NoForgottenLocker
    <3>1. thr'[u] = thr[u] /\ EntryOf(u)' = EntryOf(u) /\ thr[u].pc = "lock"
      BY <1>1, <1>2, <2>5 DEF EntryOf, LockTypeOK, NoForgottenLocker
    <3>2. ~ CanAcquire(EntryOf(u))
      BY <1>1 DEF NoForgottenLocker
    <3>3. \A i \in DOMAIN entries : i \in DOMAIN entries' /\ entries'[i] = entries[i]
      BY <2>6
    <3> QED
      BY <3>1, <3>2, <3>3 DEF CanAcquire
  <2> QED
    BY <2>7, <2>8, <2>9, <2>10 DEF LockInv, EntriesAreHeld
<1>4. CASE ~ CanAcquire(e)
  <2>1. asleep' = asleep \cup {t} /\ UNCHANGED <<entries, thr>>
    BY <1>4 DEF Acquire
  <2>2. LockTypeOK' /\ EntriesExclude'
    BY <1>1, <2>1 DEF LockTypeOK, EntriesExclude
  <2>3. \A f : PlacesOf(entries, f)' = PlacesOf(entries, f) /\ HoldersOf(f)' = HoldersOf(f)
    BY <2>1 DEF PlacesOf, HoldersOf, Holds, EntryOf
  <2>4. EntriesAreHeld'
    BY <1>1, <2>3 DEF EntriesAreHeld
  <2>5. \A u \in asleep' : CanAcquire(EntryOf(u))' = CanAcquire(EntryOf(u)) /\ thr'[u] = thr[u]
    BY <2>1 DEF CanAcquire, EntryOf
  <2>6. NoForgottenLocker'
    BY <1>1, <1>2, <1>4, <2>1, <2>5 DEF NoForgottenLocker
  <2> QED
    BY <2>2, <2>4, <2>6 DEF LockInv
<1> QED
  BY <1>3, <1>4

LEMMA LockRelease ==
  ASSUME LockInv, NEW t \in Threads, Release(t)
  PROVE  LockInv'
<1> DEFINE e == EntryOf(t)
           i == FirstEntry(e)
           L == Len(entries)
<1>1. LockTypeOK /\ EntriesExclude /\ EntriesAreHeld /\ NoForgottenLocker
  BY DEF LockInv
<1>2. /\ thr[t].pc = "unlock" /\ Holds(t) /\ entries \in Seq(Entries) /\ e \in Entries
      /\ e.lod = thr[t].lod
  BY <1>1, EntryTyped DEF Release, LockTypeOK, Holds, EntryOf
<1>3. L \in Nat /\ DOMAIN entries = 1 .. L
  BY <1>2, LenProperties
<1>4. t \in HoldersOf(e)
  BY <1>2 DEF HoldersOf
<1>5. PlacesOf(entries, e) # {}
  <2>1. Cardinality(HoldersOf(e)) # 0
    BY <1>4, HoldersFinite, FS_EmptySet
  <2>2. Cardinality(PlacesOf(entries, e)) # 0
    BY <1>1, <1>2, <2>1 DEF EntriesAreHeld
  <2> QED
    BY <2>2, FS_EmptySet
<1>6. i \in 1 .. L /\ entries[i] = e
  <2>1. \E k \in DOMAIN entries : entries[k] = e /\ \A j \in 1 .. k - 1 : entries[j] # e
    BY <1>2, <1>5, FirstPlace
  <2> QED
    BY <1>3, <2>1 DEF FirstEntry
<1>7. entries' = SwapRemove(entries, i) /\ asleep' = asleep \ Woken(thr[t].lod) /\ thr' = [thr EXCEPT ![t] = Idle]
  BY DEF Release
<1> HIDE DEF e, i, L
<1>8. /\ entries' \in Seq(Entries) /\ DOMAIN entries' = 1 .. L - 1
      /\ \A j \in DOMAIN entries' : entries'[j] = IF j = i THEN entries[L] ELSE entries[j]
      /\ \A k \in DOMAIN entries \ {i} : \E j \in DOMAIN entries' : entries'[j] = entries[k]
  BY <1>2, <1>6, <1>7, SwapRemoveIs DEF L
<1>9. Idle \in Operations /\ OperationExact(Idle)
  <2>1. Interval(0, 0) \in Intervals /\ Interval(0, 0) \in Regions
    BY DEF Interval, Intervals, Regions
  <2> QED
    BY <2>1, SharedAssumption DEF Idle, Operations, OperationExact, Modes
<1>10. /\ thr' \in [Threads -> Operations] /\ thr'[t] = Idle
       /\ \A u \in Threads \ {t} : thr'[u] = thr[u]
       /\ \A u \in Threads : OperationExact(thr'[u])
  BY <1>1, <1>7, <1>9, ThreadChange
<1>11. LockTypeOK'
  BY <1>1, <1>7, <1>8, <1>10 DEF LockTypeOK
<1>12. EntriesExclude'
  <2> SUFFICES ASSUME NEW j \in DOMAIN entries', NEW k \in DOMAIN entries', j # k,
                      entries'[j].lod = entries'[k].lod,
                      Intersects(entries'[j].bounds, entries'[k].bounds)
               PROVE  entries'[j].mode = "Read" /\ entries'[k].mode = "Read"
    BY DEF EntriesExclude
  <2> DEFINE a == IF j = i THEN L ELSE j
             b == IF k = i THEN L ELSE k
  <2>1. a \in DOMAIN entries /\ b \in DOMAIN entries /\ a # b
    BY <1>3, <1>6, <1>8
  <2>2. entries'[j] = entries[a] /\ entries'[k] = entries[b]
    BY <1>8
  <2> HIDE DEF a, b
  <2> QED
    BY <1>1, <2>1, <2>2 DEF EntriesExclude
<1>13. ASSUME NEW f \in Entries
       PROVE  Cardinality(PlacesOf(entries, f)') = Cardinality(HoldersOf(f)')
  <2>1. Cardinality(PlacesOf(entries', f))
          = IF entries[i] = f THEN Cardinality(PlacesOf(entries, f)) - 1 ELSE Cardinality(PlacesOf(entries, f))
    BY <1>2, <1>6, <1>7, SwapRemoveCounts DEF L
  <2>2. ~ Holds(t)'
    BY <1>10 DEF Holds, Idle
  <2>3. \A u \in Threads \ {t} : Holds(u)' = Holds(u) /\ EntryOf(u)' = EntryOf(u)
    BY <1>10 DEF Holds, EntryOf
  <2>4. HoldersOf(f)' = HoldersOf(f) \ {t}
    BY <2>2, <2>3 DEF HoldersOf
  <2>5. t \in HoldersOf(f) <=> e = f
    BY <1>2 DEF HoldersOf, e
  <2>6. Cardinality(HoldersOf(f) \ {t})
          = IF e = f THEN Cardinality(HoldersOf(f)) - 1 ELSE Cardinality(HoldersOf(f))
    BY <2>5, HoldersFinite, FS_RemoveElement
  <2>7. Cardinality(PlacesOf(entries, f)) = Cardinality(HoldersOf(f))
    BY <1>1 DEF EntriesAreHeld
  <2>8. PlacesOf(entries, f)' = PlacesOf(entries', f)
    BY DEF PlacesOf
  <2> QED
    BY <1>6, <2>1, <2>4, <2>6, <2>7, <2>8
<1>14. NoForgottenLocker'
  <2> SUFFICES ASSUME NEW u \in asleep' PROVE thr'[u].pc = "lock" /\ ~ CanAcquire(EntryOf(u))'
    BY DEF NoForgottenLocker
  <2>1. u \in asleep /\ thr[u].lod # e.lod /\ thr[u].pc = "lock" /\ u \in Threads
    BY <1>1, <1>2, <1>7 DEF Woken, NoForgottenLocker, LockTypeOK
  <2>2. u # t
    BY <1>2, <2>1
  <2>3. thr'[u] = thr[u] /\ EntryOf(u)' = EntryOf(u) /\ EntryOf(u).lod = thr[u].lod
    BY <1>10, <2>1, <2>2 DEF EntryOf
  <2>4. ~ CanAcquire(EntryOf(u))
    BY <1>1, <2>1 DEF NoForgottenLocker
  <2>5. PICK k \in DOMAIN entries :
          /\ entries[k].lod = EntryOf(u).lod /\ Intersects(entries[k].bounds, EntryOf(u).bounds)
          /\ ~ (entries[k].mode = "Read" /\ EntryOf(u).mode = "Read")
    BY <2>4 DEF CanAcquire
  <2>6. k # i
    BY <1>6, <2>1, <2>3, <2>5
  <2>7. PICK j \in DOMAIN entries' : entries'[j] = entries[k]
    BY <1>8, <2>6
  <2>8. ~ CanAcquire(EntryOf(u))'
    BY <2>3, <2>5, <2>7 DEF CanAcquire
  <2> QED
    BY <2>1, <2>3, <2>8
<1> QED
  BY <1>11, <1>12, <1>13, <1>14 DEF LockInv, EntriesAreHeld

\* A thread leaves its region next.
LEMMA LockLeft ==
  ASSUME LockInv, NEW t \in Threads, Holds(t), thr' = [thr EXCEPT ![t].pc = "unlock"],
         UNCHANGED <<entries, asleep>>
  PROVE  LockInv' /\ thr'[t].pc = "unlock" /\ \A u \in Threads \ {t} : thr'[u] = thr[u]
<1> DEFINE o == [thr[t] EXCEPT !.pc = "unlock"]
<1>1. LockTypeOK
  BY DEF LockInv
<1>2. thr[t] \in Operations /\ OperationExact(thr[t])
  BY <1>1 DEF LockTypeOK
<1>3. /\ o \in Operations /\ o.pc = "unlock" /\ o.lod = thr[t].lod /\ o.bounds = thr[t].bounds
      /\ o.mode = thr[t].mode /\ o.op = thr[t].op /\ o.box = thr[t].box
  BY <1>2 DEF Operations
<1>4. OperationExact(o)
  BY <1>2, <1>3 DEF OperationExact
<1>5. thr' = [thr EXCEPT ![t] = o]
  BY <1>1 DEF LockTypeOK
<1> HIDE DEF o
<1>6. LockInv'
  BY <1>3, <1>4, <1>5, LockUnseen
<1> QED
  BY <1>1, <1>3, <1>4, <1>5, <1>6, ThreadChange

\* A thread asks for the region of an operation.
LEMMA LockBegun ==
  ASSUME LockInv, ops \in Nat, NEW t \in Threads,
         NEW op \in {"edit", "gather", "view", "unview", "insert", "check"}, NEW lod \in Lods,
         NEW box \in Intervals, NEW bounds \in Regions, NEW mode \in Modes, NEW viewers \in Nat,
         op = "edit" => /\ lod = 0 /\ mode = "Write" /\ box.lo \in Positions
                        /\ box.hi = box.lo + 1 /\ bounds = VoxelBox(box),
         op \in {"view", "unview"} => mode = "Write" /\ bounds = VoxelBox(box),
         op = "insert" => mode = "Write" /\ box.lo \in Positions /\ bounds = InsertBox(box.lo, lod),
         Begin(t, op, lod, box, bounds, mode, viewers), UNCHANGED <<entries, asleep>>
  PROVE  /\ LockInv' /\ ops' \in Nat /\ thr'[t].pc = "lock"
         /\ \A u \in Threads \ {t} : thr'[u] = thr[u]
<1> DEFINE o == [pc |-> "lock", op |-> op, lod |-> lod, box |-> box, bounds |-> bounds, mode |-> mode,
                 edit |-> IF op = "edit" THEN ops + 1 ELSE 0, viewers |-> viewers, missing |-> FALSE]
<1>1. /\ thr[t].pc = "idle" /\ ops' = ops + 1 /\ thr' = [thr EXCEPT ![t] = o]
  BY DEF Begin
<1>2. o \in Operations
  BY DEF Operations
<1>3. /\ o.pc = "lock" /\ o.op = op /\ o.lod = lod /\ o.box = box /\ o.bounds = bounds /\ o.mode = mode
  OBVIOUS
<1> HIDE DEF o
<1>4. OperationExact(o)
  BY <1>3 DEF OperationExact
<1>5. ~ Holds(t) /\ thr[t].pc # "lock"
  BY <1>1 DEF Holds
<1>6. LockInv'
  BY <1>1, <1>2, <1>3, <1>4, <1>5, LockUnseen
<1>7. LockTypeOK
  BY DEF LockInv
<1>8. thr'[t] = o /\ \A u \in Threads \ {t} : thr'[u] = thr[u]
  BY <1>1, <1>2, <1>4, <1>7, ThreadChange
<1>9. ops' \in Nat
  BY <1>1
<1> QED
  BY <1>3, <1>6, <1>8, <1>9

LEMMA BlocksInVoxels ==
  \A a, b \in Int : a <= b => a * BlockSize <= b * BlockSize
<1> TAKE a, b \in Int
<1> HAVE a <= b
<1>1. BlockSize \in Nat
  BY SharedAssumption
<1>2. PICK k \in Nat : b = a + k
  <2>1. b - a \in Nat /\ b = a + (b - a)
    OBVIOUS
  <2> QED
    BY <2>1
<1>3. k * BlockSize >= 0
  BY <1>1
<1>4. b * BlockSize = a * BlockSize + k * BlockSize
  BY <1>1, <1>2
<1> QED
  BY <1>1, <1>3, <1>4

\* A region of which the intervals are known.
LEMMA BoxesMeet ==
  ASSUME NEW p \in Int, NEW box \in Intervals, box.lo <= p, p < box.hi
  PROVE  /\ Intersects(VoxelBox(Interval(p, 1)), VoxelBox(box))
         /\ Intersects(VoxelBox(Interval(p, 1)), InsertBox(p, 0))
<1> DEFINE n == BlockSize
<1>1. n \in Nat /\ box.lo \in Int /\ box.hi \in Int
  BY SharedAssumption DEF Intervals
<1>2. box.lo * n <= (p + 1) * n /\ p * n <= box.hi * n
  BY <1>1, BlocksInVoxels
<1>3. p * n <= (p + 1) * n
  BY <1>1, BlocksInVoxels
<1>4. /\ box.lo * n + (box.hi - box.lo) * n = box.hi * n /\ p * n + (p + 1 - p) * n = (p + 1) * n
      /\ p * n + n = (p + 1) * n
  BY <1>1
<1>5. VoxelBox(Interval(p, 1)) = [lo |-> p * n, hi |-> (p + 1) * n]
  BY <1>1, <1>4 DEF VoxelBox, Interval
<1>6. VoxelBox(box) = [lo |-> box.lo * n, hi |-> box.hi * n]
  BY <1>1, <1>4 DEF VoxelBox, Interval
<1>7. InsertBox(p, 0) = [lo |-> p * n, hi |-> (p + 1) * n]
  BY <1>1, <1>4 DEF InsertBox, Interval
<1>8. p * n \in Int /\ (p + 1) * n \in Int /\ box.lo * n \in Int /\ box.hi * n \in Int
  BY <1>1
<1> QED
  BY <1>2, <1>3, <1>5, <1>6, <1>7, <1>8 DEF Intersects

\* Nobody else is inside a region that covers the block an editor is about to write.
LEMMA EditUndisturbed ==
  ASSUME LockInv, NEW e \in Threads, thr[e].pc = "write", NEW t \in Threads, t # e, Holds(t),
         thr[t].lod = 0, thr[t].op \in {"edit", "unview", "insert"},
         IF thr[t].op = "insert" THEN thr[t].box.lo = EditPos(e)
                                 ELSE thr[t].box.lo <= EditPos(e) /\ EditPos(e) < thr[t].box.hi
  PROVE  FALSE
<1> DEFINE p == EditPos(e)
<1>1. LockTypeOK /\ Holds(e)
  BY DEF LockInv, Holds
<1>2. OperationExact(thr[e]) /\ OperationExact(thr[t]) /\ thr[t] \in Operations /\ thr[e] \in Operations
  BY <1>1 DEF LockTypeOK
<1>3. /\ p \in Positions /\ thr[e].lod = 0 /\ thr[e].mode = "Write"
      /\ thr[e].box \in Intervals /\ thr[e].box.lo = p /\ thr[e].box.hi = p + 1
      /\ thr[e].bounds = VoxelBox(thr[e].box)
  BY <1>2 DEF OperationExact, EditPos, Operations
<1>4. p \in Int
  BY <1>3, SharedAssumption
<1>5. thr[e].bounds = VoxelBox(Interval(p, 1))
  BY <1>3, <1>4 DEF Interval, VoxelBox
<1>6. thr[t].mode = "Write" /\ thr[t].box \in Intervals
  BY <1>2 DEF OperationExact, Operations
<1>7. Intersects(thr[e].bounds, thr[t].bounds)
  <2>1. CASE thr[t].op = "insert"
    <3>1. thr[t].bounds = InsertBox(p, 0)
      BY <1>2, <2>1 DEF OperationExact
    <3>2. Interval(p, 1) \in Intervals /\ Interval(p, 1).lo <= p /\ p < Interval(p, 1).hi
      BY <1>4 DEF Interval, Intervals
    <3> QED
      BY <1>4, <1>5, <3>1, <3>2, BoxesMeet
  <2>2. CASE thr[t].op # "insert"
    <3>1. thr[t].bounds = VoxelBox(thr[t].box) /\ thr[t].box.lo <= p /\ p < thr[t].box.hi
      BY <1>2, <2>2 DEF OperationExact
    <3> QED
      BY <1>4, <1>5, <1>6, <3>1, BoxesMeet
  <2> QED
    BY <2>1, <2>2
<1>8. thr[t].mode = "Read"
  BY <1>1, <1>3, <1>7, HoldersExclude
<1> QED
  BY <1>6, <1>8

-----------------------------------------------------------------------------
(* The maps.                                                               *)

Blocks == [resident : BOOLEAN, edits : SUBSET Nat, modified : BOOLEAN, viewers : Nat]

MapTypeOK ==
  /\ maps \in [Lods -> [Positions -> Blocks]]
  /\ loading \in [Lods -> [Positions -> Nat]]
  /\ ops \in Nat

\* A block that is not there carries no edits that a load could lose.
AbsentIsClean == \A p \in Positions : ~ maps[0][p].resident => ~ maps[0][p].modified

SharedInv == LockInv /\ MapTypeOK /\ AbsentIsClean /\ EditsAreAtomic

\* An acknowledged edit stays in its block, or goes with the block to be saved.
LEMMA EditsKept ==
  ASSUME AckedEditIsKept, acked' = acked, handedOver \subseteq handedOver',
         \A p \in Positions : SavedVoxels(maps[0][p]) \subseteq handedOver' \cup SavedVoxels(maps'[0][p])
  PROVE  AckedEditIsKept'
<1> SUFFICES ASSUME NEW x \in acked
             PROVE  x \in handedOver' \/ \E p \in Positions : x \in SavedVoxels(maps'[0][p])
  BY DEF AckedEditIsKept, SavedVoxels
<1>1. x \in handedOver \/ \E p \in Positions : x \in SavedVoxels(maps[0][p])
  BY DEF AckedEditIsKept
<1> QED
  BY <1>1

\* Steps that leave the blocks alone.
LEMMA MapsUntouched ==
  ASSUME SharedInv, LockInv', MapTypeOK', UNCHANGED <<maps, acked, handedOver>>, NEW t \in Threads,
         \A u \in Threads \ {t} : thr'[u] = thr[u],
         thr'[t].pc = "write" => (thr'[t].missing <=> ~ maps[0][thr'[t].box.lo].resident)
  PROVE  SharedInv'
<1>1. /\ EditFindsWhatItSaw /\ AckedEditIsKept /\ AbsentIsClean
  BY DEF SharedInv, EditsAreAtomic
<1>2. EditFindsWhatItSaw'
  <2> SUFFICES ASSUME NEW e \in Editors, thr'[e].pc = "write"
               PROVE  thr'[e].missing <=> ~ maps'[0][thr'[e].box.lo].resident
    BY DEF EditFindsWhatItSaw, EditPos
  <2>1. e \in Threads
    BY DEF Threads
  <2>2. CASE e = t
    BY <2>2
  <2>3. CASE e # t
    BY <1>1, <2>1, <2>3 DEF EditFindsWhatItSaw, EditPos
  <2> QED
    BY <2>2, <2>3
<1>3. AckedEditIsKept' /\ AbsentIsClean'
  BY <1>1 DEF AckedEditIsKept, AbsentIsClean, SavedVoxels
<1> QED
  BY <1>2, <1>3 DEF SharedInv, EditsAreAtomic

\* Blocks change that no editor is about to write.
LEMMA MapsChanged ==
  ASSUME SharedInv, LockInv', MapTypeOK', AbsentIsClean', AckedEditIsKept', NEW t \in Threads,
         thr'[t].pc # "write", \A u \in Threads \ {t} : thr'[u] = thr[u],
         \A e \in Editors \ {t} :
            thr[e].pc = "write" => maps'[0][EditPos(e)].resident = maps[0][EditPos(e)].resident
  PROVE  SharedInv'
<1>1. EditFindsWhatItSaw
  BY DEF SharedInv, EditsAreAtomic
<1>2. EditFindsWhatItSaw'
  <2> SUFFICES ASSUME NEW e \in Editors, thr'[e].pc = "write"
               PROVE  thr'[e].missing <=> ~ maps'[0][thr'[e].box.lo].resident
    BY DEF EditFindsWhatItSaw, EditPos
  <2>1. e \in Threads \ {t}
    BY DEF Threads
  <2>2. thr'[e] = thr[e]
    BY <2>1
  <2> QED
    BY <1>1, <2>1, <2>2 DEF EditFindsWhatItSaw, EditPos
<1> QED
  BY <1>2 DEF SharedInv, EditsAreAtomic

LEMMA RegionsTyped ==
  /\ \A box \in Intervals : VoxelBox(box) \in Regions
  /\ \A p \in Positions, l \in Lods : InsertBox(p, l) \in Regions /\ GatherBox(p, l) \in Regions
  /\ \A p \in Positions : Interval(p, 1) \in Intervals /\ Interval(p - 1, 3) \in Intervals
  /\ \A p \in Positions : Interval(p, 1).lo = p /\ Interval(p, 1).hi = p + 1
  /\ \A box \in BlockBoxes : box \in Intervals
<1>1. Positions \subseteq Int /\ BlockSize \in Nat
  BY SharedAssumption
<1>2. \A box \in Intervals : VoxelBox(box) \in Intervals
  <2> TAKE box \in Intervals
  <2>1. box.lo \in Int /\ box.hi \in Int
    BY DEF Intervals
  <2>2. box.lo * BlockSize \in Int /\ (box.hi - box.lo) * BlockSize \in Int
    BY <1>1, <2>1
  <2> QED
    BY <2>2 DEF VoxelBox, Interval, Intervals
<1>3. \A p \in Positions : Interval(p, 1) \in Intervals /\ Interval(p - 1, 3) \in Intervals
  BY <1>1 DEF Interval, Intervals
<1>4. \A box \in BlockBoxes : box \in Intervals
  <2> TAKE box \in BlockBoxes
  <2>1. box \in [lo : Positions, hi : {p + 1 : p \in Positions}]
    BY DEF BlockBoxes
  <2>2. \A h \in {p + 1 : p \in Positions} : h \in Int
    BY <1>1
  <2> QED
    BY <1>1, <2>1, <2>2 DEF Intervals
<1> QED
  BY <1>2, <1>3, <1>4 DEF Regions, Interval

-----------------------------------------------------------------------------
(* The steps.                                                              *)

LEMMA SharedBegins ==
  ASSUME SharedInv, Starts
  PROVE  SharedInv'
<1>1. LockInv /\ MapTypeOK /\ ops \in Nat
  BY DEF SharedInv, MapTypeOK
<1> DEFINE Begun(t) ==
             /\ LockInv' /\ ops' \in Nat /\ thr'[t].pc = "lock"
             /\ \A u \in Threads \ {t} : thr'[u] = thr[u]
<1>2. ASSUME NEW t \in Threads, Begun(t), UNCHANGED <<maps, acked, handedOver>>,
             loading' \in [Lods -> [Positions -> Nat]]
      PROVE  SharedInv'
  <2>1. MapTypeOK'
    BY <1>1, <1>2 DEF MapTypeOK
  <2> QED
    BY <1>2, <2>1, MapsUntouched
<1>3. Main \in Threads /\ Editors \subseteq Threads /\ Gatherers \subseteq Threads /\ 0 \in Lods /\ 0 \in Nat
  BY SharedAssumption DEF Threads
<1>4. loading \in [Lods -> [Positions -> Nat]]
  BY <1>1 DEF MapTypeOK
<1>5. ASSUME NEW e \in Editors, BeginEdit(e) PROVE SharedInv'
  <2>1. PICK pos \in Positions : Begin(e, "edit", 0, Interval(pos, 1), VoxelBox(Interval(pos, 1)), "Write", 0)
    BY <1>5 DEF BeginEdit
  <2>2. UNCHANGED <<streaming, maps, loading, viewed, entries, asleep, acked, handedOver>>
    BY <1>5 DEF BeginEdit
  <2>3. Begun(e)
    BY <1>1, <1>3, <2>1, <2>2, RegionsTyped, LockBegun DEF Modes
  <2> QED
    BY <1>2, <1>3, <1>4, <2>2, <2>3
<1>6. ASSUME NEW g \in Gatherers, BeginGather(g) PROVE SharedInv'
  <2>1. PICK lod \in Lods, pos \in Positions :
          Begin(g, "gather", lod, Interval(pos - 1, 3), GatherBox(pos, lod), "Read", 0)
    BY <1>6 DEF BeginGather
  <2>2. UNCHANGED <<streaming, maps, loading, viewed, entries, asleep, acked, handedOver>>
    BY <1>6 DEF BeginGather
  <2>3. Begun(g)
    BY <1>1, <1>3, <2>1, <2>2, RegionsTyped, LockBegun DEF Modes
  <2> QED
    BY <1>2, <1>3, <1>4, <2>2, <2>3
<1>7. ASSUME BeginView PROVE SharedInv'
  <2>1. PICK lod \in Lods, box \in BlockBoxes : Begin(Main, "view", lod, box, VoxelBox(box), "Write", 0)
    BY <1>7 DEF BeginView
  <2>2. UNCHANGED <<streaming, maps, loading, viewed, entries, asleep, acked, handedOver>>
    BY <1>7 DEF BeginView
  <2>3. Begun(Main)
    BY <1>1, <1>3, <2>1, <2>2, RegionsTyped, LockBegun DEF Modes
  <2> QED
    BY <1>2, <1>3, <1>4, <2>2, <2>3
<1>8. ASSUME BeginUnview PROVE SharedInv'
  <2>1. PICK lod \in Lods, box \in BlockBoxes : Begin(Main, "unview", lod, box, VoxelBox(box), "Write", 0)
    BY <1>8 DEF BeginUnview
  <2>2. UNCHANGED <<streaming, maps, loading, viewed, entries, asleep, acked, handedOver>>
    BY <1>8 DEF BeginUnview
  <2>3. Begun(Main)
    BY <1>1, <1>3, <2>1, <2>2, RegionsTyped, LockBegun DEF Modes
  <2> QED
    BY <1>2, <1>3, <1>4, <2>2, <2>3
<1>9. ASSUME BeginInsert PROVE SharedInv'
  <2>1. PICK lod \in Lods, pos \in Positions :
          /\ Begin(Main, "insert", lod, Interval(pos, 1), InsertBox(pos, lod), "Write", loading[lod][pos])
          /\ loading' = [loading EXCEPT ![lod][pos] = 0]
    BY <1>9 DEF BeginInsert
  <2>2. UNCHANGED <<streaming, maps, viewed, entries, asleep, acked, handedOver>>
    BY <1>9 DEF BeginInsert
  <2>3. loading[lod][pos] \in Nat /\ loading' \in [Lods -> [Positions -> Nat]]
    BY <1>4, <2>1
  <2>4. Begun(Main)
    BY <1>1, <1>3, <2>1, <2>2, <2>3, RegionsTyped, LockBegun DEF Modes
  <2> QED
    BY <1>2, <1>3, <2>2, <2>3, <2>4
<1>10. ASSUME BeginCheck PROVE SharedInv'
  <2>1. PICK lod \in Lods, pos \in Positions :
          Begin(Main, "check", lod, Interval(pos - 1, 3), VoxelBox(Interval(pos - 1, 3)), "Read", 0)
    BY <1>10 DEF BeginCheck
  <2>2. UNCHANGED <<streaming, maps, loading, viewed, entries, asleep, acked, handedOver>>
    BY <1>10 DEF BeginCheck
  <2>3. Begun(Main)
    BY <1>1, <1>3, <2>1, <2>2, RegionsTyped, LockBegun DEF Modes
  <2> QED
    BY <1>2, <1>3, <1>4, <2>2, <2>3
<1> QED
  BY <1>5, <1>6, <1>7, <1>8, <1>9, <1>10 DEF Starts, MainBegins

LEMMA SharedLocks ==
  ASSUME SharedInv, NEW t \in Threads, Acquire(t) \/ Release(t) \/ Look(t)
  PROVE  SharedInv'
<1>1. LockInv /\ LockTypeOK /\ MapTypeOK
  BY DEF SharedInv, LockInv
<1>2. UNCHANGED <<maps, loading, ops, acked, handedOver>>
  BY DEF Acquire, Release, Look
<1>3. MapTypeOK'
  BY <1>1, <1>2 DEF MapTypeOK
<1>4. thr[t] \in Operations /\ thr \in [Threads -> Operations]
  BY <1>1 DEF LockTypeOK
<1>5. CASE Acquire(t)
  <2>1. LockInv'
    BY <1>1, <1>5, LockAcquire
  <2>2. thr' = [thr EXCEPT ![t].pc = "held"] \/ thr' = thr
    BY <1>5 DEF Acquire
  <2>3. thr'[t].pc # "write" /\ \A u \in Threads \ {t} : thr'[u] = thr[u]
    BY <1>4, <1>5, <2>2 DEF Acquire, Operations
  <2> QED
    BY <1>2, <1>3, <2>1, <2>3, MapsUntouched
<1>6. CASE Release(t)
  <2>1. LockInv'
    BY <1>1, <1>6, LockRelease
  <2>2. thr' = [thr EXCEPT ![t] = Idle]
    BY <1>6 DEF Release
  <2>3. thr'[t].pc # "write" /\ \A u \in Threads \ {t} : thr'[u] = thr[u]
    BY <1>4, <2>2 DEF Idle
  <2> QED
    BY <1>2, <1>3, <2>1, <2>3, MapsUntouched
<1>7. CASE Look(t)
  <2>1. Holds(t) /\ thr' = [thr EXCEPT ![t].pc = "unlock"] /\ UNCHANGED <<entries, asleep>>
    BY <1>7 DEF Look, Holds
  <2>2. LockInv' /\ thr'[t].pc = "unlock" /\ \A u \in Threads \ {t} : thr'[u] = thr[u]
    BY <1>1, <2>1, LockLeft
  <2> QED
    BY <1>2, <1>3, <2>2, MapsUntouched
<1> QED
  BY <1>5, <1>6, <1>7

\* Between its look and its write nobody comes between an editor and its block.
LEMMA SharedEdits ==
  ASSUME SharedInv, NEW e \in Editors, EditLooks(e) \/ EditWrites(e)
  PROVE  SharedInv'
<1>1. LockInv /\ LockTypeOK /\ MapTypeOK /\ AbsentIsClean /\ AckedEditIsKept /\ EditFindsWhatItSaw
  BY DEF SharedInv, LockInv, EditsAreAtomic
<1>2. e \in Threads /\ 0 \in Lods
  BY SharedAssumption DEF Threads
<1>3. /\ thr \in [Threads -> Operations] /\ thr[e] \in Operations /\ OperationExact(thr[e])
      /\ maps \in [Lods -> [Positions -> Blocks]]
  BY <1>1, <1>2 DEF LockTypeOK, MapTypeOK
<1>4. ASSUME EditLooks(e) PROVE SharedInv'
  <2> DEFINE missing == ~ maps[0][EditPos(e)].resident
             o == [thr[e] EXCEPT !.missing = missing,
                                 !.pc = IF missing /\ streaming THEN "unlock" ELSE "write"]
  <2>1. thr[e].pc = "held" /\ thr[e].op = "edit" /\ UNCHANGED <<entries, asleep>>
    BY <1>4 DEF EditLooks
  <2>2. UNCHANGED <<maps, loading, ops, acked, handedOver>>
    BY <1>4 DEF EditLooks
  <2>3. thr' = [thr EXCEPT ![e] = o]
    BY <1>3, <1>4 DEF EditLooks
  <2>4. missing \in BOOLEAN
    OBVIOUS
  <2> HIDE DEF missing
  <2>5. /\ o \in Operations /\ o.pc \in {"unlock", "write"} /\ o.missing = missing
        /\ o.lod = thr[e].lod /\ o.bounds = thr[e].bounds /\ o.mode = thr[e].mode
        /\ o.op = thr[e].op /\ o.box = thr[e].box
    BY <1>3, <2>4 DEF Operations
  <2> HIDE DEF o
  <2>6. OperationExact(o)
    BY <1>3, <2>1, <2>5 DEF OperationExact
  <2>7. Holds(e)
    BY <2>1 DEF Holds
  <2>8. LockInv'
    BY <1>1, <1>2, <2>1, <2>3, <2>5, <2>6, <2>7, LockUnseen
  <2>9. thr'[e] = o /\ \A u \in Threads \ {e} : thr'[u] = thr[u]
    BY <1>1, <1>2, <2>3, <2>5, <2>6, ThreadChange
  <2>10. thr'[e].missing <=> ~ maps[0][thr'[e].box.lo].resident
    BY <2>5, <2>9 DEF missing, EditPos
  <2>11. MapTypeOK'
    BY <1>1, <2>2 DEF MapTypeOK
  <2> QED
    BY <1>2, <2>2, <2>8, <2>9, <2>10, <2>11, MapsUntouched
<1>5. ASSUME EditWrites(e) PROVE SharedInv'
  <2> DEFINE p == EditPos(e)
             edit == thr[e].edit
             b == EditedBlock(maps[0][p], edit)
  <2>1. thr[e].pc = "write" /\ thr' = [thr EXCEPT ![e].pc = "unlock"] /\ UNCHANGED <<entries, asleep>>
    BY <1>5 DEF EditWrites
  <2>2. UNCHANGED <<loading, ops, handedOver>> /\ acked' = acked \cup {edit}
    BY <1>5 DEF EditWrites
  <2>3. thr[e].op = "edit" /\ p \in Positions /\ edit \in Nat /\ thr[e].lod = 0
    BY <1>3, <2>1 DEF OperationExact, EditPos, Operations
  <2>4. maps' = [maps EXCEPT ![0][p] = b]
    BY <1>5 DEF EditWrites
  <2>5. maps[0][p] \in Blocks
    BY <1>2, <1>3, <2>3
  <2>6. b \in Blocks /\ b.resident /\ b.modified /\ b.edits = maps[0][p].edits \cup {edit}
    BY <2>3, <2>5 DEF EditedBlock, Blocks
  <2> HIDE DEF p, edit, b
  <2>7. /\ maps' \in [Lods -> [Positions -> Blocks]] /\ maps'[0][p] = b
        /\ \A q \in Positions \ {p} : maps'[0][q] = maps[0][q]
    BY <1>2, <1>3, <2>3, <2>4, <2>6
  <2>8. MapTypeOK'
    BY <1>1, <2>2, <2>7 DEF MapTypeOK
  <2>9. AbsentIsClean'
    BY <1>1, <2>6, <2>7 DEF AbsentIsClean
  <2>10. AckedEditIsKept'
    <3> SUFFICES ASSUME NEW x \in acked'
                 PROVE  x \in handedOver' \/ \E q \in Positions : x \in SavedVoxels(maps'[0][q])
      BY DEF AckedEditIsKept, SavedVoxels
    <3>1. SavedVoxels(maps'[0][p]) = maps[0][p].edits \cup {edit}
      BY <2>6, <2>7 DEF SavedVoxels
    <3>2. CASE x = edit
      BY <2>3, <3>1, <3>2 DEF p
    <3>3. CASE x \in acked
      <4>1. x \in handedOver \/ \E q \in Positions : x \in SavedVoxels(maps[0][q])
        BY <1>1, <3>3 DEF AckedEditIsKept
      <4>2. \A q \in Positions : SavedVoxels(maps[0][q]) \subseteq SavedVoxels(maps'[0][q])
        <5> TAKE q \in Positions
        <5>1. CASE q = p
          BY <3>1, <5>1 DEF SavedVoxels
        <5>2. CASE q # p
          BY <2>7, <5>2
        <5> QED
          BY <5>1, <5>2
      <4> QED
        BY <2>2, <4>1, <4>2
    <3> QED
      BY <2>2, <3>2, <3>3
  <2>11. LockInv' /\ thr'[e].pc = "unlock" /\ \A u \in Threads \ {e} : thr'[u] = thr[u]
    BY <1>1, <1>2, <2>1, LockLeft DEF Holds
  <2>12. ASSUME NEW f \in Editors \ {e}, thr[f].pc = "write"
         PROVE  maps'[0][EditPos(f)].resident = maps[0][EditPos(f)].resident
    <3>1. f \in Threads /\ f # e
      BY DEF Threads
    <3>2. EditPos(f) # p
      <4> SUFFICES ASSUME EditPos(f) = p PROVE FALSE
        OBVIOUS
      <4>1. thr[e].box.lo <= EditPos(f) /\ EditPos(f) < thr[e].box.hi
        <5>1. thr[e].box.lo \in Positions /\ thr[e].box.hi = thr[e].box.lo + 1 /\ p = thr[e].box.lo
          BY <1>3, <2>3 DEF OperationExact, EditPos, p
        <5>2. thr[e].box.lo \in Int
          BY <5>1, SharedAssumption
        <5> QED
          BY <5>1, <5>2
      <4> QED
        BY <1>1, <1>2, <2>1, <2>3, <2>12, <3>1, <4>1, EditUndisturbed DEF Holds
    <3>3. EditPos(f) \in Positions
      <4>1. OperationExact(thr[f])
        BY <1>1, <3>1 DEF LockTypeOK
      <4> QED
        BY <2>12, <4>1 DEF OperationExact, EditPos
    <3> QED
      BY <2>7, <3>2, <3>3
  <2> QED
    BY <1>2, <2>8, <2>9, <2>10, <2>11, <2>12, MapsChanged
<1> QED
  BY <1>4, <1>5

\* The terrain: a block that goes or comes is in a region held for writing.
LEMMA SharedMains ==
  ASSUME SharedInv, View \/ Unview \/ Insert
  PROVE  SharedInv'
<1> DEFINE t == thr[Main]
           l == t.lod
           cells == Cells(t.box)
<1>1. LockInv /\ LockTypeOK /\ MapTypeOK /\ AbsentIsClean /\ AckedEditIsKept
  BY DEF SharedInv, LockInv, EditsAreAtomic
<1>2. Main \in Threads /\ 0 \in Lods
  BY SharedAssumption DEF Threads
<1>3. /\ t \in Operations /\ OperationExact(t) /\ l \in Lods
      /\ maps \in [Lods -> [Positions -> Blocks]] /\ loading \in [Lods -> [Positions -> Nat]]
  BY <1>1, <1>2 DEF LockTypeOK, MapTypeOK, Operations
<1>4. /\ t.pc = "held" /\ thr' = [thr EXCEPT ![Main].pc = "unlock"]
      /\ UNCHANGED <<entries, asleep, ops, acked>>
  BY DEF View, Unview, Insert
<1>5. LockInv' /\ thr'[Main].pc = "unlock" /\ \A u \in Threads \ {Main} : thr'[u] = thr[u]
  BY <1>1, <1>2, <1>4, LockLeft DEF Holds
<1>6. \A p \in Positions : maps[l][p] \in Blocks /\ loading[l][p] \in Nat
  BY <1>3
<1>7. \A e \in Editors : thr[e].pc = "write" => e \in Threads \ {Main} /\ EditPos(e) \in Positions
  <2> TAKE e \in Editors
  <2> HAVE thr[e].pc = "write"
  <2>1. e \in Threads /\ e # Main
    BY <1>4 DEF Threads
  <2>2. OperationExact(thr[e])
    BY <1>1, <2>1 DEF LockTypeOK
  <2> QED
    BY <2>1, <2>2 DEF OperationExact, EditPos
<1>8. ASSUME View PROVE SharedInv'
  <2> DEFINE row == [p \in Positions |->
                       IF p \in cells /\ maps[l][p].resident
                         THEN WithViewers(maps[l][p], maps[l][p].viewers + 1) ELSE maps[l][p]]
             counts == [p \in Positions |->
                       IF p \in cells /\ ~ maps[l][p].resident THEN loading[l][p] + 1 ELSE loading[l][p]]
  <2>1. maps' = [maps EXCEPT ![l] = row] /\ loading' = [loading EXCEPT ![l] = counts] /\ handedOver' = handedOver
    <3>1. maps' = [maps EXCEPT ![l] = row]
      BY <1>8 DEF View
    <3>2. loading' = [loading EXCEPT ![l] = counts]
      BY <1>8 DEF View
    <3>3. handedOver' = handedOver
      BY <1>8 DEF View
    <3> QED
      BY <3>1, <3>2, <3>3
  <2>2. ASSUME NEW p \in Positions
        PROVE  /\ row[p] \in Blocks /\ row[p].resident = maps[l][p].resident
               /\ row[p].modified = maps[l][p].modified /\ row[p].edits = maps[l][p].edits
    <3>1. maps[l][p] \in Blocks
      BY <1>6
    <3>2. CASE p \in cells /\ maps[l][p].resident
      <4> DEFINE b == WithViewers(maps[l][p], maps[l][p].viewers + 1)
      <4>1. /\ b \in Blocks /\ b.resident = maps[l][p].resident
            /\ b.modified = maps[l][p].modified /\ b.edits = maps[l][p].edits
        BY <3>1 DEF Blocks, WithViewers
      <4>2. row[p] = b
        BY <3>2
      <4> QED
        BY <4>1, <4>2
    <3>3. CASE ~ (p \in cells /\ maps[l][p].resident)
      BY <3>1, <3>3
    <3> QED
      BY <3>2, <3>3
  <2>3. row \in [Positions -> Blocks]
    BY <2>2
  <2>4. counts \in [Positions -> Nat]
    BY <1>6
  <2> HIDE DEF row, counts
  <2>5. maps' \in [Lods -> [Positions -> Blocks]] /\ loading' \in [Lods -> [Positions -> Nat]]
    BY <1>3, <2>1, <2>3, <2>4
  <2>6. \A p \in Positions : /\ maps'[0][p].resident = maps[0][p].resident
                             /\ maps'[0][p].modified = maps[0][p].modified
                             /\ maps'[0][p].edits = maps[0][p].edits
    <3>1. CASE l = 0
      BY <1>2, <1>3, <2>1, <2>2, <3>1
    <3>2. CASE l # 0
      BY <1>2, <1>3, <2>1, <3>2
    <3> QED
      BY <3>1, <3>2
  <2>7. MapTypeOK' /\ AbsentIsClean'
    BY <1>1, <1>4, <2>5, <2>6 DEF MapTypeOK, AbsentIsClean
  <2>8. AckedEditIsKept'
    BY <1>1, <1>4, <2>1, <2>6, EditsKept DEF SavedVoxels
  <2> QED
    BY <1>2, <1>5, <1>7, <2>6, <2>7, <2>8, MapsChanged
<1>9. ASSUME Unview PROVE SharedInv'
  <2> DEFINE removed == {p \in cells : Leaves(maps[l][p])}
             row == [p \in Positions |->
                       CASE p \in removed -> NoBlock
                         [] p \in cells \ removed /\ maps[l][p].resident ->
                              WithViewers(maps[l][p], maps[l][p].viewers - 1)
                         [] OTHER -> maps[l][p]]
             counts == [p \in Positions |->
                       CASE p \in removed -> 0
                         [] p \in cells /\ ~ maps[l][p].resident /\ loading[l][p] > 0 -> loading[l][p] - 1
                         [] OTHER -> loading[l][p]]
  <2>1. /\ maps' = [maps EXCEPT ![l] = row] /\ loading' = [loading EXCEPT ![l] = counts]
        /\ handedOver' = handedOver \cup UNION {SavedVoxels(maps[l][p]) : p \in removed}
        /\ t.op = "unview"
    <3>1. maps' = [maps EXCEPT ![l] = row]
      BY <1>9 DEF Unview
    <3>2. loading' = [loading EXCEPT ![l] = counts]
      BY <1>9 DEF Unview
    <3>3. handedOver' = handedOver \cup UNION {SavedVoxels(maps[l][p]) : p \in removed}
      BY <1>9 DEF Unview
    <3>4. t.op = "unview"
      BY <1>9 DEF Unview
    <3> QED
      BY <3>1, <3>2, <3>3, <3>4
  <2>2. NoBlock \in Blocks /\ ~ NoBlock.resident /\ ~ NoBlock.modified
    BY DEF NoBlock, Blocks
  <2>3. ASSUME NEW p \in Positions
        PROVE  /\ row[p] \in Blocks /\ (p \in removed => row[p] = NoBlock)
               /\ p \notin removed => /\ row[p].resident = maps[l][p].resident
                                      /\ row[p].modified = maps[l][p].modified
                                      /\ row[p].edits = maps[l][p].edits
    <3>1. maps[l][p] \in Blocks
      BY <1>6
    <3>2. CASE p \in removed
      <4>1. row[p] = NoBlock
        BY <3>2
      <4> QED
        BY <2>2, <3>2, <4>1
    <3>3. CASE p \in cells \ removed /\ maps[l][p].resident
      <4> DEFINE b == WithViewers(maps[l][p], maps[l][p].viewers - 1)
      <4>1. maps[l][p].viewers \in Nat /\ maps[l][p].viewers > 1
        BY <3>1, <3>3 DEF Leaves, Blocks
      <4>2. /\ b \in Blocks /\ b.resident = maps[l][p].resident
            /\ b.modified = maps[l][p].modified /\ b.edits = maps[l][p].edits
        BY <3>1, <4>1 DEF Blocks, WithViewers
      <4>3. row[p] = b
        BY <3>3
      <4> HIDE DEF b, row, removed
      <4> QED
        BY <3>3, <4>2, <4>3
    <3>4. CASE p \notin removed /\ ~ (p \in cells \ removed /\ maps[l][p].resident)
      <4>1. row[p] = maps[l][p]
        BY <3>4
      <4> HIDE DEF row, removed
      <4> QED
        BY <3>1, <3>4, <4>1
    <3> QED
      BY <3>2, <3>3, <3>4
  <2>4. row \in [Positions -> Blocks]
    BY <2>3
  <2>5. counts \in [Positions -> Nat]
    <3>1. ASSUME NEW p \in Positions PROVE counts[p] \in Nat
      <4>1. loading[l][p] \in Nat
        BY <1>6
      <4> QED
        BY <4>1
    <3> QED
      BY <3>1
  <2>6. removed \subseteq Positions /\ removed \subseteq cells
    BY DEF Cells
  <2> HIDE DEF row, counts, removed
  <2>7. maps' \in [Lods -> [Positions -> Blocks]] /\ loading' \in [Lods -> [Positions -> Nat]]
    BY <1>3, <2>1, <2>4, <2>5
  <2>8. \A p \in Positions : IF l = 0 /\ p \in removed
                               THEN maps'[0][p] = NoBlock
                               ELSE /\ maps'[0][p].resident = maps[0][p].resident
                                    /\ maps'[0][p].modified = maps[0][p].modified
                                    /\ maps'[0][p].edits = maps[0][p].edits
    <3>1. CASE l = 0
      BY <1>2, <1>3, <2>1, <2>3, <3>1
    <3>2. CASE l # 0
      BY <1>2, <1>3, <2>1, <3>2
    <3> QED
      BY <3>1, <3>2
  <2>9. MapTypeOK' /\ AbsentIsClean'
    BY <1>1, <1>4, <2>2, <2>7, <2>8 DEF MapTypeOK, AbsentIsClean
  <2>10. AckedEditIsKept'
    <3>1. \A p \in Positions : SavedVoxels(maps[0][p]) \subseteq handedOver' \cup SavedVoxels(maps'[0][p])
      <4> TAKE p \in Positions
      <4>1. CASE l = 0 /\ p \in removed
        BY <2>1, <4>1
      <4>2. CASE ~ (l = 0 /\ p \in removed)
        BY <2>8, <4>2 DEF SavedVoxels
      <4> QED
        BY <4>1, <4>2
    <3>2. handedOver \subseteq handedOver'
      BY <2>1
    <3> QED
      BY <1>1, <1>4, <3>1, <3>2, EditsKept
  <2>11. ASSUME NEW e \in Editors, thr[e].pc = "write"
         PROVE  maps'[0][EditPos(e)].resident = maps[0][EditPos(e)].resident
    <3>1. e \in Threads \ {Main} /\ EditPos(e) \in Positions
      BY <1>7, <2>11
    <3>2. ~ (l = 0 /\ EditPos(e) \in removed)
      <4> SUFFICES ASSUME l = 0, EditPos(e) \in removed PROVE FALSE
        OBVIOUS
      <4>1. t.box.lo <= EditPos(e) /\ EditPos(e) < t.box.hi
        BY <2>6 DEF Cells
      <4> QED
        BY <1>1, <1>2, <1>4, <2>1, <2>11, <3>1, <4>1, EditUndisturbed DEF Holds
    <3> QED
      BY <2>8, <3>1, <3>2
  <2> QED
    BY <1>2, <1>5, <2>9, <2>10, <2>11, MapsChanged
<1>10. ASSUME Insert PROVE SharedInv'
  <2> DEFINE p == t.box.lo
             b == LoadedOver(maps[l][p], t.viewers)
  <2>1. t.op = "insert" /\ UNCHANGED <<loading, handedOver>> /\ maps' = [maps EXCEPT ![l][p] = b]
    BY <1>10 DEF Insert
  <2>2. p \in Positions /\ t.viewers \in Nat
    BY <1>3, <2>1 DEF OperationExact, Operations
  <2>3. maps[l][p] \in Blocks
    BY <1>6, <2>2
  <2>4. /\ b \in Blocks /\ b.resident
        /\ maps[l][p].resident => b = maps[l][p]
    BY <2>2, <2>3 DEF LoadedOver, Blocks
  <2> HIDE DEF b
  <2>5. /\ maps' \in [Lods -> [Positions -> Blocks]] /\ maps'[l][p] = b
        /\ \A q \in Positions : l # 0 \/ q # p => maps'[0][q] = maps[0][q]
    BY <1>2, <1>3, <2>1, <2>2, <2>4
  <2>6. MapTypeOK'
    BY <1>1, <1>4, <2>1, <2>5 DEF MapTypeOK
  <2>7. AbsentIsClean'
    BY <1>1, <2>4, <2>5 DEF AbsentIsClean
  <2>8. AckedEditIsKept'
    <3>1. \A q \in Positions : SavedVoxels(maps[0][q]) \subseteq SavedVoxels(maps'[0][q])
      <4> TAKE q \in Positions
      <4>1. CASE l # 0 \/ q # p
        BY <2>5, <4>1
      <4>2. CASE l = 0 /\ q = p
        BY <1>1, <2>4, <2>5, <4>2 DEF AbsentIsClean, SavedVoxels
      <4> QED
        BY <4>1, <4>2
    <3> QED
      BY <1>1, <1>4, <2>1, <3>1, EditsKept
  <2>9. ASSUME NEW e \in Editors, thr[e].pc = "write"
        PROVE  maps'[0][EditPos(e)].resident = maps[0][EditPos(e)].resident
    <3>1. e \in Threads \ {Main} /\ EditPos(e) \in Positions
      BY <1>7, <2>9
    <3>2. ~ (l = 0 /\ EditPos(e) = p)
      BY <1>1, <1>2, <1>4, <2>1, <2>9, <3>1, EditUndisturbed DEF Holds
    <3> QED
      BY <2>5, <3>1, <3>2
  <2> QED
    BY <1>2, <1>5, <2>6, <2>7, <2>8, <2>9, MapsChanged
<1> QED
  BY <1>8, <1>9, <1>10

-----------------------------------------------------------------------------
(* The theorem.                                                            *)

LEMMA SharedStarts == SharedInit => SharedInv
<1> SUFFICES ASSUME SharedInit PROVE SharedInv
  OBVIOUS
<1>1. /\ maps = [l \in Lods |-> [p \in Positions |-> NoBlock]]
      /\ loading = [l \in Lods |-> [p \in Positions |-> 0]]
      /\ entries = << >> /\ thr = [t \in Threads |-> Idle] /\ asleep = {} /\ ops = 0 /\ acked = {}
  BY DEF SharedInit
<1>2. Idle \in Operations /\ OperationExact(Idle) /\ Idle.pc = "idle"
  <2>1. Interval(0, 0) \in Intervals /\ Interval(0, 0) \in Regions
    BY DEF Interval, Intervals, Regions
  <2> QED
    BY <2>1, SharedAssumption DEF Idle, Operations, OperationExact, Modes
<1>3. NoBlock \in Blocks /\ ~ NoBlock.modified /\ 0 \in Lods
  BY SharedAssumption DEF NoBlock, Blocks
<1>4. \A t \in Threads : thr[t] = Idle
  BY <1>1
<1>5. LockTypeOK
  BY <1>1, <1>2, <1>4 DEF LockTypeOK
<1>6. EntriesExclude /\ NoForgottenLocker
  BY <1>1 DEF EntriesExclude, NoForgottenLocker
<1>7. EntriesAreHeld
  <2>1. \A e \in Entries : PlacesOf(entries, e) = {} /\ HoldersOf(e) = {}
    BY <1>1, <1>2, <1>4 DEF PlacesOf, HoldersOf, Holds
  <2> QED
    BY <2>1 DEF EntriesAreHeld
<1>8. MapTypeOK
  BY <1>1, <1>3 DEF MapTypeOK
<1>9. AbsentIsClean
  BY <1>1, <1>3 DEF AbsentIsClean
<1>10. EditsAreAtomic
  <2>1. \A e \in Editors : thr[e].pc # "write"
    BY <1>2, <1>4 DEF Threads
  <2> QED
    BY <1>1, <2>1 DEF EditsAreAtomic, EditFindsWhatItSaw, AckedEditIsKept
<1> QED
  BY <1>5, <1>6, <1>7, <1>8, <1>9, <1>10 DEF SharedInv, LockInv

LEMMA SharedSteps == SharedInv /\ [SharedNext]_sharedVars => SharedInv'
<1> SUFFICES ASSUME SharedInv, [SharedNext]_sharedVars PROVE SharedInv'
  OBVIOUS
<1>1. CASE Starts
  BY <1>1, SharedBegins
<1>2. ASSUME NEW t \in Threads, Continue(t) PROVE SharedInv'
  <2>1. CASE Acquire(t) \/ Release(t) \/ Look(t)
    BY <2>1, SharedLocks
  <2>2. CASE t \in Editors /\ (EditLooks(t) \/ EditWrites(t))
    BY <2>2, SharedEdits
  <2>3. CASE t = Main /\ (View \/ Unview \/ Insert)
    BY <2>3, SharedMains
  <2> QED
    BY <1>2, <2>1, <2>2, <2>3 DEF Continue
<1>3. CASE UNCHANGED sharedVars
  <2>1. UNCHANGED <<maps, loading, entries, thr, asleep, ops, acked, handedOver>>
    BY <1>3 DEF sharedVars
  <2>2. LockInv'
    <3>1. LockTypeOK' /\ EntriesExclude' /\ NoForgottenLocker'
      BY <2>1 DEF SharedInv, LockInv, LockTypeOK, EntriesExclude, NoForgottenLocker, CanAcquire, EntryOf
    <3>2. \A e : PlacesOf(entries, e)' = PlacesOf(entries, e) /\ HoldersOf(e)' = HoldersOf(e)
      BY <2>1 DEF PlacesOf, HoldersOf, Holds, EntryOf
    <3> QED
      BY <3>1, <3>2 DEF SharedInv, LockInv, EntriesAreHeld
  <2> QED
    BY <2>1, <2>2 DEF SharedInv, MapTypeOK, AbsentIsClean, EditsAreAtomic, EditFindsWhatItSaw,
                      AckedEditIsKept, EditPos, SavedVoxels
<1> QED
  BY <1>1, <1>2, <1>3 DEF SharedNext

LEMMA SharedIsExact == SharedInv => SharedVoxelsExact
<1> SUFFICES ASSUME SharedInv PROVE SharedVoxelsExact
  OBVIOUS
<1>1. LockTypeOK /\ EntriesExclude /\ EntriesAreHeld /\ NoForgottenLocker
  BY DEF SharedInv, LockInv
<1>2. ASSUME NEW e \in {entries[i] : i \in DOMAIN entries} \cup {EntryOf(t) : t \in {u \in Threads : Holds(u)}}
      PROVE  Cardinality({i \in DOMAIN entries : entries[i] = e})
               = Cardinality({t \in Threads : Holds(t) /\ EntryOf(t) = e})
  <2>1. e \in Entries
    <3>1. CASE e \in {entries[i] : i \in DOMAIN entries}
      BY <1>1, <3>1, ElementOfSeq DEF LockTypeOK
    <3>2. CASE e \in {EntryOf(t) : t \in {u \in Threads : Holds(u)}}
      BY <1>1, <3>2, EntryTyped
    <3> QED
      BY <1>2, <3>1, <3>2
  <2> QED
    BY <1>1, <2>1 DEF EntriesAreHeld, PlacesOf, HoldersOf
<1>3. RegionsExclude
  BY <1>1, <1>2 DEF RegionsExclude, EntriesExclude
<1> QED
  BY <1>1, <1>3 DEF SharedInv, SharedVoxelsExact, RegionLocksExact

\* The spatial locks let two threads into intersecting regions only to read, keep exactly the
\* entries of the threads inside and wake who may go in; an edit finds its block as it saw it
\* before it generated, and an edit that was answered stays in its block or goes with it to be
\* saved (SharedVoxelData, SpatialLock3D, try_edit_voxel).
THEOREM SharedVoxelsAreExact == SharedSpec => []SharedVoxelsExact
<1>1. SharedInit => SharedInv
  BY SharedStarts
<1>2. SharedInv /\ [SharedNext]_sharedVars => SharedInv'
  BY SharedSteps
<1>3. SharedInv => SharedVoxelsExact
  BY SharedIsExact
<1> QED
  BY <1>1, <1>2, <1>3, PTL DEF SharedSpec

=============================================================================
