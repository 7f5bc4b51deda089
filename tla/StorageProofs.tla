---------------------------- MODULE StorageProofs ----------------------------
(***************************************************************************)
(* Proofs about the storage of voxels: the volume with its LODs            *)
(* (VoxelData), the memory pool its arrays come from (MemoryPool) and the  *)
(* buffers of its blocks (VoxelBuffers).                                   *)
(***************************************************************************)
EXTENDS VoxelData, MemoryPool, VoxelBuffers, FiniteSetTheorems, NaturalsInduction, WellFoundedInduction,
        TLAPS

-----------------------------------------------------------------------------
(* Numbers.                                                                *)

\* Every set of natural numbers that is not empty has a least one: what the inductions below use.
LEMMA LeastNatural ==
  ASSUME NEW T \in SUBSET Nat, T # {}
  PROVE  \E x \in T : \A y \in T : x <= y
<1>1. PICK x \in T : \A y \in T : ~ (<<y, x>> \in OpToRel(<, Nat))
  BY NatLessThanWellFounded, WFMin
<1>2. ASSUME NEW y \in T PROVE x <= y
  <2>1. x \in Nat /\ y \in Nat /\ ~ (y < x)
    BY <1>1 DEF OpToRel
  <2> QED BY <2>1
<1> QED BY <1>2

\* Floor division: the multiple below, and only that.
LEMMA Division ==
  ASSUME NEW d \in Nat \ {0}, NEW x \in Int
  PROVE  /\ x \div d \in Int
         /\ (x \div d) * d <= x /\ x < (x \div d) * d + d
         /\ x % d = x - (x \div d) * d
         /\ \A k \in Int : k * d <= x /\ x < k * d + d => k = x \div d
<1> DEFINE q == x \div d
           r == x % d
<1>1. /\ q \in Int /\ r \in 0 .. d - 1
      /\ x = d * q + r
  OBVIOUS
<1> HIDE DEF q, r
<1>2. d * q = q * d /\ q * d \in Int
  BY <1>1
<1>3. q * d <= x /\ x < q * d + d /\ r = x - q * d
  BY <1>1, <1>2
<1>4. ASSUME NEW k \in Int, k * d <= x, x < k * d + d PROVE k = q
  <2>1. ASSUME k < q PROVE FALSE
    <3>1. (q - k - 1) * d >= 0
      <4>1. q - k - 1 \in Nat
        BY <1>1, <2>1
      <4> QED BY <4>1
    <3>2. (q - k - 1) * d = q * d - k * d - d
      BY <1>1
    <3>3. k * d \in Int
      OBVIOUS
    <3> QED BY <1>2, <1>3, <1>4, <3>1, <3>2, <3>3
  <2>2. ASSUME q < k PROVE FALSE
    <3>1. (k - q - 1) * d >= 0
      <4>1. k - q - 1 \in Nat
        BY <1>1, <2>2
      <4> QED BY <4>1
    <3>2. (k - q - 1) * d = k * d - q * d - d
      BY <1>1
    <3>3. k * d \in Int
      OBVIOUS
    <3> QED BY <1>2, <1>3, <1>4, <3>1, <3>2, <3>3
  <2> QED BY <1>1, <2>1, <2>2
<1> QED BY <1>1, <1>3, <1>4 DEF q, r

\* Division keeps the order.
LEMMA DivisionGrows ==
  ASSUME NEW d \in Nat \ {0}, NEW x \in Int, NEW y \in Int, x <= y
  PROVE  x \div d <= y \div d
<1> DEFINE q == x \div d
           p == y \div d
<1>1. /\ q \in Int /\ p \in Int /\ q * d \in Int /\ p * d \in Int
      /\ q * d <= x /\ y < p * d + d
  BY Division
<1> HIDE DEF q, p
<1>2. ASSUME p < q PROVE FALSE
  <2>1. q - p - 1 \in Nat
    BY <1>1, <1>2
  <2>2. (q - p - 1) * d >= 0
    BY <2>1
  <2>3. (q - p - 1) * d = q * d - p * d - d
    BY <1>1
  <2> QED BY <1>1, <2>2, <2>3
<1>3. q <= p
  BY <1>1, <1>2
<1> QED BY <1>3 DEF q, p

\* A multiple more is one more.
LEMMA DivisionOfNext ==
  ASSUME NEW d \in Nat \ {0}, NEW x \in Int
  PROVE  (x + d) \div d = x \div d + 1
<1> DEFINE q == x \div d
<1>1. q \in Int /\ q * d <= x /\ x < q * d + d
  BY Division
<1> HIDE DEF q
<1>2. (q + 1) * d = q * d + d /\ q * d \in Int
  BY <1>1
<1>3. q + 1 \in Int /\ (q + 1) * d <= x + d /\ x + d < (q + 1) * d + d /\ x + d \in Int
  BY <1>1, <1>2
<1>4. q + 1 = (x + d) \div d
  BY <1>3, Division
<1> QED BY <1>4 DEF q

-----------------------------------------------------------------------------
(* The inductive invariant of the volume.                                  *)

\* What memory and disk may hold.
VoxelValues == Values \cup {Generated, DefaultVoxel}
VoxelArrays == {NoVoxels} \cup [BlockCells -> VoxelValues]
BlockRecords == [resident : BOOLEAN, voxels : VoxelArrays, modified : BOOLEAN, needs : BOOLEAN]

\* Types of what the properties read: LOD 0 of the maps and of the disk.
DataTypeOK ==
  /\ settings \in [streaming : BOOLEAN, full : BOOLEAN, generator : BOOLEAN]
  /\ DOMAIN lodMaps = DataLods /\ lodMaps[0] \in [BlocksAt(0) -> BlockRecords]
  /\ DOMAIN disk = DataLods /\ disk[0] \in [BlocksAt(0) -> VoxelArrays]
  /\ edited \in [Bounds -> VoxelValues \cup {None}]

\* A block that is resident without voxels has no edits.
EmptyIsUnedited ==
  \A p \in Bounds : edited[p] # None /\ lodMaps[0][VoxelToBlock(p)].resident => HasVoxels(lodMaps[0][VoxelToBlock(p)])

\* EmptyIsUnedited is what makes the rest inductive: without it, giving voxels to a block of a
\* volume that streams could hide an edit.
DataInv == DataTypeOK /\ EditsAreKept /\ NoForgottenLodUpdate /\ EmptyIsUnedited

-----------------------------------------------------------------------------
(* Blocks.                                                                 *)

\* LOD 0 is a LOD, and every voxel in the bounds is in a cell of one of its blocks.
LEMMA BlockFacts ==
  ASSUME DataConstants
  PROVE  /\ 0 \in DataLods
         /\ \A p \in Bounds : /\ p \in Nat
                              /\ VoxelToBlock(p) \in BlocksAt(0) /\ ToLocal(p) \in BlockCells
                              /\ Touched(p, p + 1) = {VoxelToBlock(p)}
         /\ \A p, r \in Bounds : VoxelToBlock(p) = VoxelToBlock(r) /\ ToLocal(p) = ToLocal(r) => p = r
<1> DEFINE d == BlockSide
           n == (DataExtent + d - 1) \div d
<1>1. d \in Nat \ {0} /\ DataExtent \in Nat /\ 0 \in DataLods
  BY DEF DataConstants
<1>2. BlocksAt(0) = 0 .. n - 1
  <2>1. BlockSide * (2 ^ 0) = BlockSide
    BY <1>1
  <2> QED BY <2>1 DEF BlocksAt
<1>3. n \in Int /\ DataExtent + d - 1 < n * d + d
  <2>1. DataExtent + d - 1 \in Int
    BY <1>1
  <2> HIDE DEF d
  <2> QED BY <1>1, <2>1, Division
<1> HIDE DEF n
<1>4. ASSUME NEW p \in Bounds
      PROVE  /\ p \in Nat
             /\ VoxelToBlock(p) \in BlocksAt(0) /\ ToLocal(p) \in BlockCells
             /\ Touched(p, p + 1) = {VoxelToBlock(p)}
  <2> DEFINE q == p \div d
  <2>1. p \in Nat /\ p < DataExtent
    BY <1>1, <1>4 DEF Bounds
  <2>2. q \in Int /\ q * d <= p /\ p < q * d + d /\ p % d = p - q * d
    <3> HIDE DEF d
    <3> QED BY <1>1, <2>1, Division
  <2>3. (p + d) \div d = q + 1
    <3>1. p \in Int
      BY <2>1
    <3> HIDE DEF d
    <3>2. (p + d) \div d = p \div d + 1
      BY <1>1, <3>1, DivisionOfNext
    <3> QED BY <3>2
  <2>4. p + 1 + d - 1 = p + d
    BY <1>1, <2>1
  <2>5. q >= 0
    <3>1. 0 \div d = 0
      BY <1>1
    <3>2. 0 \div d <= p \div d
      <4> HIDE DEF d
      <4> QED BY <1>1, <2>1, DivisionGrows
    <3> QED BY <3>1, <3>2
  <2> HIDE DEF q, d
  <2>6. q <= n - 1
    <3>1. SUFFICES ASSUME q >= n PROVE FALSE
      BY <1>3, <2>2
    <3>2. q - n \in Nat /\ q * d \in Int /\ n * d \in Int
      BY <1>1, <1>3, <2>2, <3>1
    <3>3. (q - n) * d >= 0 /\ (q - n) * d = q * d - n * d
      BY <1>1, <1>3, <2>2, <3>2
    <3> QED BY <1>1, <1>3, <2>1, <2>2, <3>2, <3>3
  <2>7. q \in BlocksAt(0)
    BY <1>2, <1>3, <2>2, <2>5, <2>6
  <2>8. p % d \in 0 .. d - 1
    <3>1. q * d \in Int
      BY <1>1, <2>2
    <3> QED BY <1>1, <2>1, <2>2, <3>1
  <2>9. q .. (q + 1) - 1 = {q}
    BY <2>2
  <2> QED BY <2>1, <2>3, <2>4, <2>7, <2>8, <2>9 DEF VoxelToBlock, ToLocal, BlockCells, Touched, q, d
<1>5. ASSUME NEW p \in Bounds, NEW r \in Bounds,
             VoxelToBlock(p) = VoxelToBlock(r), ToLocal(p) = ToLocal(r)
      PROVE  p = r
  <2>1. p \in Nat /\ r \in Nat
    BY <1>4, <1>5
  <2>2. p % d = p - (p \div d) * d /\ r % d = r - (r \div d) * d /\ p \div d \in Int
    <3> HIDE DEF d
    <3> QED BY <1>1, <2>1, Division
  <2> DEFINE q == p \div d
  <2>3. r \div d = q /\ p % d = r % d
    BY <1>5 DEF VoxelToBlock, ToLocal
  <2>4. p - q * d = r - q * d /\ q \in Int
    BY <2>2, <2>3
  <2> HIDE DEF q, d
  <2>5. q * d \in Int
    BY <1>1, <2>4
  <2> QED BY <2>1, <2>4, <2>5
<1> QED BY <1>1, <1>4, <1>5

-----------------------------------------------------------------------------
(* The cascade into the coarser LODs.                                      *)

\* The LODs are 0 .. LastLod.
LEMMA LodFacts ==
  ASSUME DataConstants
  PROVE  LastLod \in Nat /\ DataLods = 0 .. LastLod
<1>1. PICK n \in Nat : DataLods = 0 .. n
  BY DEF DataConstants
<1>2. n \in DataLods /\ \A k \in DataLods : k <= n
  BY <1>1
<1>3. LastLod \in DataLods /\ \A k \in DataLods : k <= LastLod
  BY <1>2 DEF LastLod
<1>4. LastLod = n
  BY <1>1, <1>2, <1>3
<1> QED BY <1>1, <1>4

\* A pass over the parents leaves LOD 0 alone.
LEMMA ParentsFacts ==
  ASSUME NEW ms, DOMAIN ms = DataLods, NEW lod \in Nat, NEW work
  PROVE  LET r == UpdateParents(ms, lod, work)
         IN  DOMAIN r.maps = DataLods /\ r.maps[0] = ms[0]
<1> DEFINE r == UpdateParents(ms, lod, work)
<1>1. PICK f : r.maps = [ms EXCEPT ![lod + 1] = f]
  BY DEF UpdateParents
<1>2. lod + 1 # 0
  OBVIOUS
<1>3. DOMAIN r.maps = DataLods
  BY <1>1
<1>4. r.maps[0] = ms[0]
  BY <1>1, <1>2
<1> QED BY <1>3, <1>4

\* ... and so do all of them together: the recursion over the LODs has a solution, and each of its
\* values keeps LOD 0.
LEMMA LodPassFacts ==
  ASSUME DataConstants, NEW first, DOMAIN first.maps = DataLods
  PROVE  DOMAIN LodPass(first) = DataLods /\ LodPass(first)[0] = first.maps[0]
<1> DEFINE Body(g, l) == IF l = 0 THEN first
                         ELSE UpdateParents(g[l - 1].maps, l - 1, g[l - 1].work)
           IsPass(g, n) == g = [l \in 0 .. n |-> Body(g, l)]
           Unsolved == {n \in Nat : ~ \E g : IsPass(g, n)}
<1>0. LastLod \in Nat /\ DataLods = 0 .. LastLod
  BY LodFacts
<1>1. Unsolved = {}
  <2>1. SUFFICES ASSUME Unsolved # {} PROVE FALSE
    OBVIOUS
  <2>2. Unsolved \in SUBSET Nat
    OBVIOUS
  <2> HIDE DEF Unsolved
  <2>3. PICK n \in Unsolved : \A m \in Unsolved : n <= m
    BY <2>1, <2>2, LeastNatural
  <2>4. n \in Nat /\ ~ \E g : IsPass(g, n)
    BY DEF Unsolved
  <2>5. CASE n = 0
    <3> DEFINE g == [l \in 0 .. 0 |-> first]
    <3>1. g = [l \in 0 .. 0 |-> Body(g, l)]
      OBVIOUS
    <3> QED BY <2>4, <2>5, <3>1
  <2>6. CASE n > 0
    <3>1. n - 1 \in Nat /\ n - 1 \notin Unsolved
      BY <2>3, <2>4, <2>6
    <3>2. PICK g : IsPass(g, n - 1)
      BY <3>1 DEF Unsolved
    <3> DEFINE h == [l \in 0 .. n |-> IF l = n THEN Body(g, l) ELSE g[l]]
    <3>3. \A l \in 0 .. n - 1 : g[l] = Body(g, l)
      BY <3>2
    <3>4. \A l \in 0 .. n : h[l] = Body(g, l)
      BY <2>4, <3>3
    <3>5. \A l \in 0 .. n : l # 0 => h[l - 1] = g[l - 1]
      BY <2>4
    <3>6. \A l \in 0 .. n : h[l] = Body(h, l)
      BY <3>4, <3>5
    <3>7. h = [l \in 0 .. n |-> h[l]]
      OBVIOUS
    <3> HIDE DEF h
    <3>8. h = [l \in 0 .. n |-> Body(h, l)]
      BY <3>6, <3>7
    <3> QED BY <2>4, <3>8
  <2> QED BY <2>4, <2>5, <2>6
<1> DEFINE pass == CHOOSE g : g = [l \in DataLods |-> Body(g, l)]
<1>2. LodPass(first) = pass[LastLod].maps
  BY DEF LodPass
<1>3. pass = [l \in DataLods |-> Body(pass, l)]
  <2>1. \E g : g = [l \in DataLods |-> Body(g, l)]
    BY <1>0, <1>1
  <2> QED BY <2>1
<1> HIDE DEF pass
<1>4. \A l \in DataLods : pass[l] = Body(pass, l)
  BY <1>3
<1> DEFINE Right(l) == DOMAIN pass[l].maps = DataLods /\ pass[l].maps[0] = first.maps[0]
           Wrong == {l \in Nat : l <= LastLod /\ ~ Right(l)}
<1>5. Wrong = {}
  <2>1. SUFFICES ASSUME Wrong # {} PROVE FALSE
    OBVIOUS
  <2>2. Wrong \in SUBSET Nat
    OBVIOUS
  <2> HIDE DEF Wrong
  <2>3. PICK n \in Wrong : \A m \in Wrong : n <= m
    BY <2>1, <2>2, LeastNatural
  <2>4. n \in Nat /\ n <= LastLod /\ ~ Right(n)
    BY DEF Wrong
  <2>5. pass[n] = Body(pass, n)
    BY <1>0, <1>4, <2>4
  <2>6. CASE n = 0
    BY <2>4, <2>5, <2>6
  <2>7. CASE n > 0
    <3>1. n - 1 \in Nat /\ n - 1 <= LastLod /\ n - 1 \notin Wrong
      BY <1>0, <2>3, <2>4, <2>7
    <3>2. Right(n - 1)
      BY <3>1 DEF Wrong
    <3>3. pass[n] = UpdateParents(pass[n - 1].maps, n - 1, pass[n - 1].work)
      BY <2>5, <2>7
    <3> QED BY <2>4, <3>1, <3>2, <3>3, ParentsFacts
  <2> QED BY <2>4, <2>6, <2>7
<1>6. Right(LastLod)
  BY <1>0, <1>5
<1> QED BY <1>2, <1>6

-----------------------------------------------------------------------------
(* Steps.                                                                  *)

\* Filled and generated arrays hold values, and the constant NoVoxels is no array.
LEMMA ArrayFacts ==
  ASSUME DataConstants
  PROVE  /\ \A v \in VoxelValues : Filled(v) \in [BlockCells -> VoxelValues]
         /\ \A a \in [BlockCells -> VoxelValues] : a # NoVoxels
         /\ DataTypeOK => Generate \in [BlockCells -> VoxelValues]
         /\ NotInMap \in BlockRecords /\ ~ HasVoxels(NotInMap)
<1>1. 0 \in BlockCells
  BY DEF DataConstants, BlockCells
<1>2. DOMAIN NoVoxels = {}
  BY DEF NoVoxels
<1>3. \A v \in VoxelValues : Filled(v) \in [BlockCells -> VoxelValues]
  BY DEF Filled
<1>4. \A a \in [BlockCells -> VoxelValues] : a # NoVoxels
  BY <1>1, <1>2
<1>5. Generate \in [BlockCells -> VoxelValues]
  BY <1>3 DEF Generate, VoxelValues
<1>6. NotInMap \in BlockRecords /\ ~ HasVoxels(NotInMap)
  BY DEF NotInMap, BlockRecords, HasVoxels, VoxelArrays
<1> QED BY <1>3, <1>4, <1>5, <1>6

\* The volume begins with nothing edited and nothing marked.
LEMMA DataInitInv ==
  ASSUME DataConstants, DataInit
  PROVE  DataInv
<1>1. 0 \in DataLods
  BY BlockFacts
<1>2. /\ lodMaps[0] = [pos \in BlocksAt(0) |-> NotInMap] /\ disk[0] = [pos \in BlocksAt(0) |-> NoVoxels]
      /\ edited = [p \in Bounds |-> None]
  BY <1>1 DEF DataInit
<1>3. DataTypeOK
  <2>1. NotInMap \in BlockRecords /\ NoVoxels \in VoxelArrays
    BY ArrayFacts DEF VoxelArrays
  <2>2. lodMaps[0] \in [BlocksAt(0) -> BlockRecords] /\ disk[0] \in [BlocksAt(0) -> VoxelArrays]
    BY <1>2, <2>1
  <2>3. /\ settings \in [streaming : BOOLEAN, full : BOOLEAN, generator : BOOLEAN]
        /\ DOMAIN lodMaps = DataLods /\ DOMAIN disk = DataLods
    BY DEF DataInit
  <2>4. edited \in [Bounds -> VoxelValues \cup {None}]
    BY <1>2
  <2> QED BY <2>2, <2>3, <2>4 DEF DataTypeOK
<1>4. EditsAreKept /\ EmptyIsUnedited
  BY <1>2 DEF EditsAreKept, EmptyIsUnedited, DataInit
<1>5. NoForgottenLodUpdate
  BY <1>2 DEF NoForgottenLodUpdate, NotInMap
<1> QED BY <1>3, <1>4, <1>5 DEF DataInv

\* What a step must show of an edit that is there after it, and all it must show.
EditHolds(b, saved, i, value, isHidden) ==
  /\ ~ isHidden /\ HasVoxels(b) => b.voxels[i] = value
  /\ (~ isHidden /\ HasVoxels(b) /\ b.modified) \/ (saved # NoVoxels /\ saved[i] = value)
  /\ b.resident => HasVoxels(b)

\* What the invariant says of one edited voxel, in one formula.
LEMMA EditFacts ==
  DataInv => \A p \in Bounds : edited[p] # None =>
    EditHolds(lodMaps[0][VoxelToBlock(p)], disk[0][VoxelToBlock(p)], ToLocal(p), edited[p], p \in hidden)
<1> SUFFICES ASSUME DataInv, NEW p \in Bounds, edited[p] # None
             PROVE  EditHolds(lodMaps[0][VoxelToBlock(p)], disk[0][VoxelToBlock(p)], ToLocal(p), edited[p], p \in hidden)
  OBVIOUS
<1> DEFINE b == lodMaps[0][VoxelToBlock(p)]
           saved == disk[0][VoxelToBlock(p)]
<1>1. /\ p \notin hidden /\ HasVoxels(b) => b.voxels[ToLocal(p)] = edited[p]
      /\ \/ p \notin hidden /\ HasVoxels(b) /\ b.modified
         \/ saved # NoVoxels /\ saved[ToLocal(p)] = edited[p]
  BY DEF DataInv, EditsAreKept
<1>2. b.resident => HasVoxels(b)
  BY DEF DataInv, EmptyIsUnedited
<1> QED BY <1>1, <1>2 DEF EditHolds

\* The converse: the invariant of the next state, from what it says of each edited voxel.
LEMMA InvFromEdits ==
  ASSUME DataTypeOK', NoForgottenLodUpdate', settings'.streaming => hidden' = {},
         \A p \in Bounds : edited'[p] # None =>
           EditHolds(lodMaps'[0][VoxelToBlock(p)], disk'[0][VoxelToBlock(p)], ToLocal(p), edited'[p], p \in hidden')
  PROVE  DataInv'
BY DEF DataInv, EditsAreKept, EmptyIsUnedited, EditHolds

\* An edit: the block of the voxel is made if it may be, written to and marked; nobody else's is.
LEMMA EditInv ==
  ASSUME DataConstants, DataInv, NEW p \in EditPoints, NEW value \in Values, NEW lods \in BOOLEAN,
         TrySetVoxel(p, value, lods)
  PROVE  DataInv'
<1> DEFINE pos == VoxelToBlock(p)
           c == ToLocal(p)
           b == lodMaps[0][pos]
           filled == Materialized(b)
           e == WithVoxel(filled, c, value)
           set == [lodMaps EXCEPT ![0][pos] = e]
<1>1. /\ p \in Bounds /\ (BlockIn(lodMaps, 0, pos).resident \/ ~ LoadsBlocks)
      /\ lodMaps' = Marked(set, Touched(p, p + 1), lods)
      /\ pending' = pending \cup NewlyNeeding(set, Touched(p, p + 1), lods)
      /\ edited' = [edited EXCEPT ![p] = value]
      /\ hidden' = HiddenBy(IF HasVoxels(b) THEN {} ELSE {pos}) \ {p}
      /\ settings' = settings /\ disk' = disk
  BY DEF TrySetVoxel, CanSet
<1>2. DataTypeOK /\ 0 \in DataLods /\ pos \in BlocksAt(0) /\ c \in BlockCells /\ Touched(p, p + 1) = {pos}
  BY <1>1, BlockFacts DEF DataInv
<1>3. b \in BlockRecords /\ (b.resident \/ ~ LoadsBlocks)
  BY <1>1, <1>2 DEF DataTypeOK, BlockIn
<1>4. filled \in BlockRecords /\ filled.resident /\ filled.voxels \in [BlockCells -> VoxelValues]
      /\ filled.needs = b.needs
  <2>1. Filled(DefaultVoxel) \in [BlockCells -> VoxelValues]
    BY ArrayFacts DEF VoxelValues
  <2>2. CASE HasVoxels(b)
    BY <1>3, <2>2 DEF Materialized, HasVoxels, BlockRecords, VoxelArrays
  <2>3. CASE ~ HasVoxels(b)
    BY <1>3, <2>1, <2>3 DEF Materialized, BlockRecords, VoxelArrays
  <2> QED BY <2>2, <2>3
<1>5. HasVoxels(b) => filled = b
  BY DEF Materialized
<1> HIDE DEF filled
<1>6. /\ e \in BlockRecords /\ e.resident /\ e.voxels = [filled.voxels EXCEPT ![c] = value]
      /\ e.voxels \in [BlockCells -> VoxelValues] /\ e.needs = b.needs
  <2>1. value \in VoxelValues
    BY DEF VoxelValues
  <2>2. [filled.voxels EXCEPT ![c] = value] \in [BlockCells -> VoxelValues]
    BY <1>2, <1>4, <2>1
  <2> QED BY <1>4, <2>2 DEF WithVoxel, BlockRecords, VoxelArrays
<1> HIDE DEF e
<1>7. DOMAIN set = DataLods /\ set[0] \in [BlocksAt(0) -> BlockRecords] /\ set[0][pos] = e
      /\ \A q \in BlocksAt(0) \ {pos} : set[0][q] = lodMaps[0][q]
  <2>1. set[0] = [lodMaps[0] EXCEPT ![pos] = e] /\ DOMAIN set = DataLods
    BY <1>2 DEF DataTypeOK
  <2> HIDE DEF set
  <2> QED BY <1>2, <1>6, <2>1 DEF DataTypeOK
<1> HIDE DEF set
<1>8. HasVoxels(e) /\ Marks(set, {pos}) = {pos}
  <2>1. HasVoxels(e)
    BY <1>6, ArrayFacts DEF HasVoxels
  <2> QED BY <1>2, <1>7, <2>1 DEF Marks
<1> DEFINE m == [e EXCEPT !.modified = TRUE, !.needs = @ \/ lods]
<1>9. m \in BlockRecords /\ m.modified /\ m.voxels = e.voxels /\ HasVoxels(m) /\ m.needs = (e.needs \/ lods)
  BY <1>6, <1>8 DEF BlockRecords, HasVoxels
<1> HIDE DEF m
<1>10. DOMAIN lodMaps' = DataLods /\ lodMaps'[0] = [q \in BlocksAt(0) |-> IF q = pos THEN m ELSE lodMaps[0][q]]
  <2>1. lodMaps' = [set EXCEPT ![0] = [q \in BlocksAt(0) |->
                   IF q = pos THEN [set[0][q] EXCEPT !.modified = TRUE, !.needs = @ \/ lods] ELSE set[0][q]]]
    BY <1>1, <1>2, <1>8 DEF Marked
  <2>2. lodMaps'[0] = [q \in BlocksAt(0) |->
                      IF q = pos THEN [set[0][q] EXCEPT !.modified = TRUE, !.needs = @ \/ lods] ELSE set[0][q]]
        /\ DOMAIN lodMaps' = DataLods
    BY <1>2, <1>7, <2>1
  <2> QED BY <1>7, <2>2 DEF m
<1>11. DataTypeOK'
  <2>1. lodMaps'[0] \in [BlocksAt(0) -> BlockRecords]
    BY <1>2, <1>9, <1>10 DEF DataTypeOK
  <2>2. edited' \in [Bounds -> VoxelValues \cup {None}]
    BY <1>1, <1>2 DEF DataTypeOK, VoxelValues
  <2> QED BY <1>1, <1>2, <1>10, <2>1, <2>2 DEF DataTypeOK
<1>12. ASSUME NEW q \in Bounds, edited'[q] # None
       PROVE  EditHolds(lodMaps'[0][VoxelToBlock(q)], disk'[0][VoxelToBlock(q)], ToLocal(q), edited'[q], q \in hidden')
  <2>0. VoxelToBlock(q) \in BlocksAt(0) /\ ToLocal(q) \in BlockCells
    BY BlockFacts
  <2>1. CASE q = p
    <3>1. lodMaps'[0][pos] = m /\ q \notin hidden' /\ edited'[q] = value
      BY <1>1, <1>2, <1>10, <2>1 DEF DataTypeOK
    <3>2. m.voxels[c] = value
      BY <1>2, <1>4, <1>6, <1>9
    <3> QED BY <1>9, <2>1, <3>1, <3>2 DEF EditHolds
  <2>2. CASE q # p
    <3>1. edited'[q] = edited[q] /\ disk' = disk
      BY <1>1, <1>2, <2>2 DEF DataTypeOK
    <3>2. EditHolds(lodMaps[0][VoxelToBlock(q)], disk[0][VoxelToBlock(q)], ToLocal(q), edited[q], q \in hidden)
      BY <1>12, <3>1, EditFacts
    <3>3. CASE VoxelToBlock(q) # pos
      <4>1. lodMaps'[0][VoxelToBlock(q)] = lodMaps[0][VoxelToBlock(q)]
        BY <1>10, <2>0, <3>3
      <4>2. q \in hidden' <=> q \in hidden
        BY <1>1, <2>2, <3>3 DEF HiddenBy
      <4> QED BY <3>1, <3>2, <4>1, <4>2
    <3>4. CASE VoxelToBlock(q) = pos /\ HasVoxels(b)
      <4>1. lodMaps'[0][pos] = m /\ (q \in hidden' <=> q \in hidden)
        BY <1>1, <1>2, <1>10, <2>2, <3>4 DEF HiddenBy
      <4>2. ToLocal(q) # c
        BY <1>1, <2>2, <3>4, BlockFacts
      <4>3. m.voxels[ToLocal(q)] = b.voxels[ToLocal(q)]
        BY <1>4, <1>5, <1>6, <1>9, <2>0, <3>4, <4>2
      <4> QED BY <1>9, <3>1, <3>2, <3>4, <4>1, <4>3 DEF EditHolds
    <3>5. CASE VoxelToBlock(q) = pos /\ ~ HasVoxels(b)
      <4>1. lodMaps'[0][pos] = m /\ q \in hidden'
        BY <1>1, <1>2, <1>10, <1>12, <2>2, <3>1, <3>5 DEF HiddenBy
      <4> QED BY <1>9, <3>1, <3>2, <3>5, <4>1 DEF EditHolds
    <3> QED BY <3>3, <3>4, <3>5
  <2> QED BY <2>1, <2>2
<1>13. settings'.streaming => hidden' = {}
  <2>1. SUFFICES ASSUME settings.streaming PROVE HiddenBy(IF HasVoxels(b) THEN {} ELSE {pos}) = {}
    BY <1>1
  <2>2. hidden = {} /\ b.resident
    BY <1>3, <2>1 DEF DataInv, EditsAreKept, LoadsBlocks
  <2>3. \A q \in Bounds : VoxelToBlock(q) = pos /\ edited[q] # None => HasVoxels(b)
    BY <2>2 DEF DataInv, EmptyIsUnedited
  <2> QED BY <2>2, <2>3 DEF HiddenBy
<1>14. NoForgottenLodUpdate'
  <2>1. ASSUME NEW q \in BlocksAt(0), lodMaps'[0][q].needs PROVE q \in pending'
    <3>1. CASE q = pos
      <4>1. b.needs \/ lods
        BY <1>6, <1>9, <1>10, <2>1, <3>1
      <4>2. CASE b.needs
        BY <1>1, <1>2, <3>1, <4>2 DEF DataInv, NoForgottenLodUpdate
      <4>3. CASE lods /\ ~ b.needs
        BY <1>1, <1>2, <1>6, <1>7, <1>8, <3>1, <4>3 DEF NewlyNeeding
      <4> QED BY <4>1, <4>2, <4>3
    <3>2. CASE q # pos
      BY <1>1, <1>10, <2>1, <3>2 DEF DataInv, NoForgottenLodUpdate
    <3> QED BY <3>1, <3>2
  <2> QED BY <2>1 DEF NoForgottenLodUpdate
<1> QED BY <1>11, <1>12, <1>13, <1>14, InvFromEdits

\* Building the parents of marked blocks changes no voxel of LOD 0 and clears every mark it takes.
LEMMA UpdateLodsInv ==
  ASSUME DataConstants, DataInv, UpdateLods
  PROVE  DataInv'
<1> DEFINE first == [maps |-> ClearedFlags(pending), work |-> pending]
<1>1. /\ lodMaps' = LodPass(first) /\ pending' = {} /\ settings' = settings /\ disk' = disk /\ edited' = edited
      /\ hidden' = hidden
  BY DEF UpdateLods
<1>2. DataTypeOK /\ NoForgottenLodUpdate /\ 0 \in DataLods /\ \A p \in Bounds : VoxelToBlock(p) \in BlocksAt(0)
  BY BlockFacts DEF DataInv
<1>3. DOMAIN first.maps = DataLods
  BY <1>2 DEF ClearedFlags, DataTypeOK
<1>4. DOMAIN lodMaps' = DataLods /\ lodMaps'[0] = first.maps[0]
  <2> HIDE DEF first
  <2> QED BY <1>1, <1>3, LodPassFacts
<1>5. lodMaps'[0] = [pos \in BlocksAt(0) |->
                    IF pos \in pending THEN [lodMaps[0][pos] EXCEPT !.needs = FALSE] ELSE lodMaps[0][pos]]
  BY <1>2, <1>4 DEF ClearedFlags, DataTypeOK
<1>6. \A pos \in BlocksAt(0) : /\ lodMaps'[0][pos] \in BlockRecords /\ ~ lodMaps'[0][pos].needs
                               /\ lodMaps'[0][pos].resident = lodMaps[0][pos].resident
                               /\ lodMaps'[0][pos].voxels = lodMaps[0][pos].voxels
                               /\ lodMaps'[0][pos].modified = lodMaps[0][pos].modified
  <2>1. SUFFICES ASSUME NEW pos \in BlocksAt(0), NEW b \in BlockRecords, b = lodMaps[0][pos]
                 PROVE  /\ lodMaps'[0][pos] \in BlockRecords /\ ~ lodMaps'[0][pos].needs
                        /\ lodMaps'[0][pos].resident = b.resident /\ lodMaps'[0][pos].voxels = b.voxels
                        /\ lodMaps'[0][pos].modified = b.modified
    BY <1>2 DEF DataTypeOK
  <2>2. lodMaps'[0][pos] = IF pos \in pending THEN [b EXCEPT !.needs = FALSE] ELSE b
    BY <1>5, <2>1
  <2>3. pos \notin pending => ~ b.needs
    BY <1>2, <2>1 DEF NoForgottenLodUpdate
  <2> QED BY <2>2, <2>3 DEF BlockRecords
<1>7. DataTypeOK'
  BY <1>1, <1>2, <1>4, <1>5, <1>6 DEF DataTypeOK
<1>8. NoForgottenLodUpdate'
  BY <1>6 DEF NoForgottenLodUpdate
<1>9. ASSUME NEW p \in Bounds, edited'[p] # None
      PROVE  EditHolds(lodMaps'[0][VoxelToBlock(p)], disk'[0][VoxelToBlock(p)], ToLocal(p), edited'[p], p \in hidden')
  <2>1. EditHolds(lodMaps[0][VoxelToBlock(p)], disk[0][VoxelToBlock(p)], ToLocal(p), edited[p], p \in hidden)
    BY <1>1, <1>9, EditFacts
  <2> QED BY <1>1, <1>2, <1>6, <2>1 DEF EditHolds, HasVoxels
<1>10. settings'.streaming => hidden' = {}
  BY <1>1 DEF DataInv, EditsAreKept
<1> QED BY <1>7, <1>8, <1>9, <1>10, InvFromEdits

\* Generation keeps what it hides on the stream, and hides nothing in a volume that streams.
LEMMA PreGenerateInv ==
  ASSUME DataConstants, DataInv, NEW lo, NEW hi, PreGenerate(lo, hi)
  PROVE  DataInv'
<1> DEFINE made == Pregenerated(0, lo, hi)
<1>1. /\ settings' = settings /\ disk' = disk /\ edited' = edited /\ pending' = pending
      /\ hidden' = HiddenBy(made)
  BY DEF PreGenerate
<1>2. DataTypeOK /\ NoForgottenLodUpdate /\ 0 \in DataLods /\ \A p \in Bounds : VoxelToBlock(p) \in BlocksAt(0)
  BY BlockFacts DEF DataInv
<1>3. DOMAIN lodMaps' = DataLods
      /\ lodMaps'[0] = [pos \in BlocksAt(0) |-> IF pos \in made
                                               THEN [lodMaps[0][pos] EXCEPT !.resident = TRUE, !.voxels = Generate]
                                               ELSE lodMaps[0][pos]]
  BY <1>2 DEF PreGenerate
<1>4. \A pos \in made : pos \in BlocksAt(0) /\ ~ HasVoxels(lodMaps[0][pos])
                    /\ (settings.streaming => lodMaps[0][pos].resident)
  BY DEF Pregenerated, HasVoxels
<1> HIDE DEF made
<1>5. Generate \in VoxelArrays
  BY <1>2, ArrayFacts DEF VoxelArrays
<1>6. \A pos \in BlocksAt(0) : /\ lodMaps'[0][pos] \in BlockRecords /\ lodMaps'[0][pos].needs = lodMaps[0][pos].needs
                               /\ pos \notin made => lodMaps'[0][pos] = lodMaps[0][pos]
  <2>1. SUFFICES ASSUME NEW pos \in BlocksAt(0), NEW b \in BlockRecords, b = lodMaps[0][pos]
                 PROVE  /\ lodMaps'[0][pos] \in BlockRecords /\ lodMaps'[0][pos].needs = b.needs
                        /\ pos \notin made => lodMaps'[0][pos] = b
    BY <1>2 DEF DataTypeOK
  <2>2. lodMaps'[0][pos] = IF pos \in made THEN [b EXCEPT !.resident = TRUE, !.voxels = Generate] ELSE b
    BY <1>3, <2>1
  <2> QED BY <1>5, <2>2 DEF BlockRecords
<1>7. DataTypeOK'
  BY <1>1, <1>2, <1>3, <1>6 DEF DataTypeOK
<1>8. NoForgottenLodUpdate'
  BY <1>1, <1>2, <1>6 DEF NoForgottenLodUpdate
<1>9. ASSUME NEW p \in Bounds, edited'[p] # None
      PROVE  EditHolds(lodMaps'[0][VoxelToBlock(p)], disk'[0][VoxelToBlock(p)], ToLocal(p), edited'[p], p \in hidden')
  <2>1. EditHolds(lodMaps[0][VoxelToBlock(p)], disk[0][VoxelToBlock(p)], ToLocal(p), edited[p], p \in hidden)
    BY <1>1, <1>9, EditFacts
  <2>2. CASE VoxelToBlock(p) \notin made
    <3>1. lodMaps'[0][VoxelToBlock(p)] = lodMaps[0][VoxelToBlock(p)] /\ (p \in hidden' <=> p \in hidden)
      BY <1>1, <1>2, <1>6, <2>2 DEF HiddenBy
    <3> QED BY <1>1, <2>1, <3>1
  <2>3. CASE VoxelToBlock(p) \in made
    <3>1. ~ HasVoxels(lodMaps[0][VoxelToBlock(p)]) /\ p \in hidden'
      BY <1>1, <1>4, <1>9, <2>3 DEF HiddenBy
    <3>2. HasVoxels(lodMaps'[0][VoxelToBlock(p)])
      <4>1. lodMaps'[0][VoxelToBlock(p)] = [lodMaps[0][VoxelToBlock(p)] EXCEPT !.resident = TRUE, !.voxels = Generate]
        BY <1>2, <1>3, <2>3
      <4>2. Generate # NoVoxels
        BY <1>2, ArrayFacts
      <4>3. ASSUME NEW b \in BlockRecords PROVE HasVoxels([b EXCEPT !.resident = TRUE, !.voxels = Generate])
        <5>1. /\ [b EXCEPT !.resident = TRUE, !.voxels = Generate].resident
              /\ [b EXCEPT !.resident = TRUE, !.voxels = Generate].voxels = Generate
          BY DEF BlockRecords
        <5> QED BY <4>2, <5>1 DEF HasVoxels
      <4>4. lodMaps[0][VoxelToBlock(p)] \in BlockRecords
        BY <1>2 DEF DataTypeOK
      <4> QED BY <4>1, <4>3, <4>4
    <3> QED BY <1>1, <2>1, <3>1, <3>2 DEF EditHolds
  <2> QED BY <2>2, <2>3
<1>10. settings'.streaming => hidden' = {}
  <2>1. SUFFICES ASSUME settings.streaming PROVE HiddenBy(made) = {}
    BY <1>1
  <2>2. \A p \in Bounds : edited[p] # None => VoxelToBlock(p) \notin made
    BY <1>4, <2>1 DEF DataInv, EmptyIsUnedited
  <2> QED BY <2>1, <2>2 DEF HiddenBy, DataInv, EditsAreKept
<1> QED BY <1>7, <1>8, <1>9, <1>10, InvFromEdits

\* A block that loads is what was handed over, and fills only a place where none is.
LEMMA TrySetBlockInv ==
  ASSUME DataConstants, DataInv, NEW lod \in DataLods, NEW pos \in BlocksAt(lod), TrySetBlock(lod, pos)
  PROVE  DataInv'
<1>1. PICK b \in Loaded(lod, pos) :
        /\ lodMaps' = IF lodMaps[lod][pos].resident THEN lodMaps ELSE [lodMaps EXCEPT ![lod][pos] = b]
        /\ settings' = settings /\ disk' = disk /\ edited' = edited /\ pending' = pending
        /\ hidden' = hidden
  BY DEF TrySetBlock
<1>2. DataTypeOK /\ NoForgottenLodUpdate /\ 0 \in DataLods /\ \A p \in Bounds : VoxelToBlock(p) \in BlocksAt(0)
  BY BlockFacts DEF DataInv
<1>3. DOMAIN lodMaps' = DataLods
  BY <1>1, <1>2 DEF DataTypeOK
<1>4. settings'.streaming => hidden' = {}
  BY <1>1 DEF DataInv, EditsAreKept
<1>5. CASE lodMaps'[0] = lodMaps[0]
  <2>1. DataTypeOK' /\ NoForgottenLodUpdate'
    BY <1>1, <1>2, <1>3, <1>5 DEF DataTypeOK, NoForgottenLodUpdate
  <2> QED BY <1>1, <1>4, <1>5, <2>1, EditFacts, InvFromEdits
<1>6. CASE lod = 0 /\ ~ lodMaps[0][pos].resident /\ lodMaps'[0] = [lodMaps[0] EXCEPT ![pos] = b]
  <2>1. \/ disk[0][pos] # NoVoxels /\ b = WithVoxels(disk[0][pos])
        \/ disk[0][pos] = NoVoxels /\ b \in {EmptyBlock, WithVoxels(Generate)}
    BY <1>1, <1>6 DEF Loaded
  <2>2. b \in BlockRecords /\ ~ b.needs
    <3>1. Generate \in VoxelArrays /\ disk[0][pos] \in VoxelArrays /\ NoVoxels \in VoxelArrays
      BY <1>2, <1>6, ArrayFacts DEF VoxelArrays, DataTypeOK
    <3>2. \A v \in VoxelArrays : WithVoxels(v) \in BlockRecords /\ ~ WithVoxels(v).needs
      BY DEF WithVoxels, BlockRecords
    <3> QED BY <2>1, <3>1, <3>2 DEF EmptyBlock
  <2>3. \A q \in BlocksAt(0) : lodMaps'[0][q] = IF q = pos THEN b ELSE lodMaps[0][q]
    BY <1>2, <1>6 DEF DataTypeOK
  <2>4. DataTypeOK' /\ NoForgottenLodUpdate'
    BY <1>1, <1>2, <1>3, <1>6, <2>2, <2>3 DEF DataTypeOK, NoForgottenLodUpdate
  <2>5. ASSUME NEW p \in Bounds, edited'[p] # None
        PROVE  EditHolds(lodMaps'[0][VoxelToBlock(p)], disk'[0][VoxelToBlock(p)], ToLocal(p), edited'[p], p \in hidden')
    <3>1. EditHolds(lodMaps[0][VoxelToBlock(p)], disk[0][VoxelToBlock(p)], ToLocal(p), edited[p], p \in hidden)
      BY <1>1, <2>5, EditFacts
    <3>2. CASE VoxelToBlock(p) = pos
      <4>1. disk[0][pos] # NoVoxels /\ disk[0][pos][ToLocal(p)] = edited[p] /\ b = WithVoxels(disk[0][pos])
        BY <1>6, <2>1, <3>1, <3>2 DEF EditHolds, HasVoxels
      <4>2. b.voxels = disk[0][pos] /\ b.resident
        BY <4>1 DEF WithVoxels
      <4> QED BY <1>1, <1>2, <2>3, <3>2, <4>1, <4>2 DEF EditHolds, HasVoxels
    <3>3. CASE VoxelToBlock(p) # pos
      BY <1>1, <1>2, <2>3, <3>1, <3>3
    <3> QED BY <3>2, <3>3
  <2> QED BY <1>4, <2>4, <2>5, InvFromEdits
<1>7. lodMaps'[0] = lodMaps[0] \/ (lod = 0 /\ ~ lodMaps[0][pos].resident /\ lodMaps'[0] = [lodMaps[0] EXCEPT ![pos] = b])
  BY <1>1, <1>2 DEF DataTypeOK
<1> QED BY <1>5, <1>6, <1>7

\* What is handed over is the block when it is modified, and otherwise what was handed over before.
LEMMA HandedFacts ==
  ASSUME DataConstants, DataTypeOK, NEW blocks
  PROVE  /\ HandedOver(0, blocks) \in [BlocksAt(0) -> VoxelArrays]
         /\ \A pos \in BlocksAt(0) :
              HandedOver(0, blocks)[pos] = IF pos \in blocks /\ lodMaps[0][pos].modified /\ HasVoxels(lodMaps[0][pos])
                                             THEN lodMaps[0][pos].voxels ELSE disk[0][pos]
<1>1. \A pos \in BlocksAt(0) : lodMaps[0][pos].voxels \in VoxelArrays /\ disk[0][pos] \in VoxelArrays
  BY DEF DataTypeOK, BlockRecords
<1> QED BY <1>1 DEF HandedOver

\* The edits that are left once blocks were handed over: none that a modified one of them hid.
LEMMA RememberedFacts ==
  ASSUME DataConstants, DataTypeOK, NEW blocks
  PROVE  LET left == Remembered(Overwritten(0, blocks)) IN
           /\ left \in [Bounds -> VoxelValues \cup {None}]
           /\ \A p \in Bounds : left[p] # None =>
                /\ left[p] = edited[p] /\ p \notin Overwritten(0, blocks)
                /\ p \in hidden /\ VoxelToBlock(p) \in blocks =>
                     ~ (lodMaps[0][VoxelToBlock(p)].modified /\ HasVoxels(lodMaps[0][VoxelToBlock(p)]))
<1> DEFINE lost == Overwritten(0, blocks)
           left == Remembered(lost)
<1>1. \A p \in Bounds : p \in hidden /\ VoxelToBlock(p) \in blocks /\ p \notin lost =>
        ~ (lodMaps[0][VoxelToBlock(p)].modified /\ HasVoxels(lodMaps[0][VoxelToBlock(p)]))
  BY DEF Overwritten
<1> HIDE DEF lost
<1>2. left = [p \in Bounds |-> IF p \in lost THEN None ELSE edited[p]]
  BY DEF Remembered
<1> HIDE DEF left
<1>3. \A p \in Bounds : left[p] # None => left[p] = edited[p] /\ p \notin lost
  BY <1>2
<1>4. left \in [Bounds -> VoxelValues \cup {None}]
  <2>1. \A p \in Bounds : left[p] \in VoxelValues \cup {None}
    BY <1>2 DEF DataTypeOK
  <2> HIDE DEF None
  <2> QED BY <1>2, <2>1
<1> QED BY <1>1, <1>3, <1>4 DEF left, lost

\* A block that is handed over keeps its voxels and loses its flag, as consume_* does.
LEMMA ConsumeInv ==
  ASSUME DataConstants, DataInv, NEW blocks,
         settings' = settings, pending' = pending,
         edited' = Remembered(Overwritten(0, blocks)), hidden' = hidden \ Overwritten(0, blocks),
         DOMAIN lodMaps' = DataLods, DOMAIN disk' = DataLods, disk'[0] = HandedOver(0, blocks),
         lodMaps'[0] = [pos \in BlocksAt(0) |-> IF pos \in blocks THEN [lodMaps[0][pos] EXCEPT !.modified = FALSE]
                                                               ELSE lodMaps[0][pos]]
  PROVE  DataInv'
<1>2. DataTypeOK /\ NoForgottenLodUpdate /\ 0 \in DataLods /\ \A p \in Bounds : VoxelToBlock(p) \in BlocksAt(0)
  BY BlockFacts DEF DataInv
<1>4. settings'.streaming => hidden' = {}
  BY DEF DataInv, EditsAreKept
<1>5. \A pos \in BlocksAt(0) : /\ lodMaps'[0][pos] \in BlockRecords /\ lodMaps'[0][pos].needs = lodMaps[0][pos].needs
                               /\ lodMaps'[0][pos].resident = lodMaps[0][pos].resident
                               /\ lodMaps'[0][pos].voxels = lodMaps[0][pos].voxels
                               /\ pos \notin blocks => lodMaps'[0][pos].modified = lodMaps[0][pos].modified
  <2>1. SUFFICES ASSUME NEW pos \in BlocksAt(0), NEW b \in BlockRecords, b = lodMaps[0][pos]
                 PROVE  /\ lodMaps'[0][pos] \in BlockRecords /\ lodMaps'[0][pos].needs = b.needs
                        /\ lodMaps'[0][pos].resident = b.resident /\ lodMaps'[0][pos].voxels = b.voxels
                        /\ pos \notin blocks => lodMaps'[0][pos].modified = b.modified
    <3>1. \A pos \in BlocksAt(0) : lodMaps[0][pos] \in BlockRecords
      BY <1>2 DEF DataTypeOK
    <3> QED BY <3>1
  <2> DEFINE x == [b EXCEPT !.modified = FALSE]
  <2>2. lodMaps'[0][pos] = IF pos \in blocks THEN x ELSE b
    BY <2>1
  <2>3. x \in BlockRecords /\ x.needs = b.needs /\ x.resident = b.resident /\ x.voxels = b.voxels
    BY DEF BlockRecords
  <2> HIDE DEF x
  <2> QED BY <2>2, <2>3
<1>6. DataTypeOK'
  <2>1. lodMaps'[0] \in [BlocksAt(0) -> BlockRecords]
    <3>1. lodMaps'[0] = [pos \in BlocksAt(0) |-> lodMaps'[0][pos]] /\ \A pos \in BlocksAt(0) : lodMaps'[0][pos] \in BlockRecords
      BY <1>5
    <3> QED BY <3>1
  <2>2. disk'[0] \in [BlocksAt(0) -> VoxelArrays]
    BY <1>2, HandedFacts
  <2>3. edited' \in [Bounds -> VoxelValues \cup {None}]
    BY <1>2, RememberedFacts
  <2> QED BY <1>2, <2>1, <2>2, <2>3 DEF DataTypeOK
<1>7. NoForgottenLodUpdate'
  BY <1>2, <1>5 DEF NoForgottenLodUpdate
<1>8. ASSUME NEW p \in Bounds, edited'[p] # None
      PROVE  EditHolds(lodMaps'[0][VoxelToBlock(p)], disk'[0][VoxelToBlock(p)], ToLocal(p), edited'[p], p \in hidden')
  <2> DEFINE pos == VoxelToBlock(p)
  <2>1. /\ edited'[p] = edited[p] /\ (p \in hidden' <=> p \in hidden)
        /\ p \in hidden /\ pos \in blocks => ~ (lodMaps[0][pos].modified /\ HasVoxels(lodMaps[0][pos]))
    BY <1>2, <1>8, RememberedFacts
  <2>2. EditHolds(lodMaps[0][pos], disk[0][pos], ToLocal(p), edited[p], p \in hidden)
    BY <1>8, <2>1, EditFacts
  <2>3. disk'[0][pos] = IF pos \in blocks /\ lodMaps[0][pos].modified /\ HasVoxels(lodMaps[0][pos])
                          THEN lodMaps[0][pos].voxels ELSE disk[0][pos]
    BY <1>2, HandedFacts
  <2>4. pos \in BlocksAt(0)
    BY <1>2
  <2> HIDE DEF pos
  <2> DEFINE b == lodMaps[0][pos]
             x == lodMaps'[0][pos]
             i == ToLocal(p)
  <2>5. /\ x.resident = b.resident /\ x.voxels = b.voxels /\ (pos \notin blocks => x.modified = b.modified)
        /\ HasVoxels(x) = HasVoxels(b)
    BY <1>5, <2>4 DEF HasVoxels
  <2>6. EditHolds(b, disk[0][pos], i, edited'[p], p \in hidden')
    BY <2>1, <2>2
  <2>7. \/ HasVoxels(b) /\ b.modified /\ pos \in blocks /\ disk'[0][pos] = b.voxels /\ p \notin hidden'
        \/ ~ (HasVoxels(b) /\ b.modified) /\ disk'[0][pos] = disk[0][pos]
        \/ pos \notin blocks /\ disk'[0][pos] = disk[0][pos]
    BY <2>1, <2>3
  <2> HIDE DEF b, x, i
  <2>8. EditHolds(x, disk'[0][pos], i, edited'[p], p \in hidden')
    <3>1. HasVoxels(b) => b.voxels # NoVoxels
      BY DEF HasVoxels
    <3>2. x.voxels[i] = b.voxels[i]
      BY <2>5
    <3>3. p \notin hidden' /\ HasVoxels(x) => x.voxels[i] = edited'[p]
      BY <2>5, <2>6, <3>2 DEF EditHolds
    <3>4. x.resident => HasVoxels(x)
      BY <2>5, <2>6 DEF EditHolds
    <3>5. (p \notin hidden' /\ HasVoxels(x) /\ x.modified) \/ (disk'[0][pos] # NoVoxels /\ disk'[0][pos][i] = edited'[p])
      BY <2>5, <2>6, <2>7, <3>1 DEF EditHolds
    <3> QED BY <3>3, <3>4, <3>5 DEF EditHolds
  <2> QED BY <2>8 DEF pos, x, i
<1> QED BY <1>4, <1>6, <1>7, <1>8, InvFromEdits

\* A block that leaves the map with edits goes to the disk.
LEMMA ConsumeStepsInv ==
  ASSUME DataConstants, DataInv, ConsumeAll \/ \E pos \in BlocksAt(0) : ConsumeOne(pos)
  PROVE  DataInv'
<1>1. DataTypeOK /\ 0 \in DataLods
  BY BlockFacts DEF DataInv
<1>2. CASE ConsumeAll
  <2>1. /\ settings' = settings /\ pending' = pending
        /\ edited' = Remembered(Overwritten(0, BlocksAt(0))) /\ hidden' = hidden \ Overwritten(0, BlocksAt(0))
        /\ DOMAIN lodMaps' = DataLods /\ DOMAIN disk' = DataLods /\ disk'[0] = HandedOver(0, BlocksAt(0))
        /\ lodMaps'[0] = [pos \in BlocksAt(0) |-> [lodMaps[0][pos] EXCEPT !.modified = FALSE]]
    BY <1>1, <1>2 DEF ConsumeAll
  <2>2. lodMaps'[0] = [pos \in BlocksAt(0) |-> IF pos \in BlocksAt(0) THEN [lodMaps[0][pos] EXCEPT !.modified = FALSE]
                                                                   ELSE lodMaps[0][pos]]
    BY <2>1
  <2> QED BY <2>1, <2>2, ConsumeInv
<1>3. CASE \E pos \in BlocksAt(0) : ConsumeOne(pos)
  <2>1. PICK pos \in BlocksAt(0) : ConsumeOne(pos)
    BY <1>3
  <2>2. /\ settings' = settings /\ pending' = pending
        /\ edited' = Remembered(Overwritten(0, {pos})) /\ hidden' = hidden \ Overwritten(0, {pos})
        /\ DOMAIN lodMaps' = DataLods /\ DOMAIN disk' = DataLods /\ disk'[0] = HandedOver(0, {pos})
        /\ lodMaps'[0] = [lodMaps[0] EXCEPT ![pos] = [lodMaps[0][pos] EXCEPT !.modified = FALSE]]
    BY <1>1, <2>1 DEF ConsumeOne, DataTypeOK
  <2>3. lodMaps'[0] = [q \in BlocksAt(0) |-> IF q \in {pos} THEN [lodMaps[0][q] EXCEPT !.modified = FALSE]
                                                         ELSE lodMaps[0][q]]
    BY <1>1, <2>2 DEF DataTypeOK
  <2> QED BY <2>2, <2>3, ConsumeInv
<1> QED BY <1>2, <1>3

\* Unloading: what is not collected takes the edits with it that were not handed over before.
LEMMA UnloadInv ==
  ASSUME DataConstants, DataInv, NEW lod \in DataLods, NEW collect \in BOOLEAN, NEW blocks,
         Unload(lod, blocks, collect)
  PROVE  DataInv'
<1>1. DataTypeOK /\ NoForgottenLodUpdate /\ 0 \in DataLods
      /\ \A p \in Bounds : VoxelToBlock(p) \in BlocksAt(0) /\ ToLocal(p) \in BlockCells
  BY BlockFacts DEF DataInv
<1>2. /\ settings' = settings /\ pending' = pending
      /\ lodMaps' = [lodMaps EXCEPT ![lod] = Without(lod, blocks)]
      /\ disk' = IF collect THEN [disk EXCEPT ![lod] = HandedOver(lod, blocks)] ELSE disk
      /\ edited' = IF collect THEN Remembered(Overwritten(lod, blocks))
                    ELSE [p \in Bounds |-> IF lod = 0 /\ VoxelToBlock(p) \in blocks /\ edited[p] # None
                                             THEN KeptOn(disk[0])[p] ELSE edited[p]]
      /\ hidden' = {p \in hidden : lod = 0 => VoxelToBlock(p) \notin blocks}
  BY DEF Unload
<1>3. settings'.streaming => hidden' = {}
  BY <1>2 DEF DataInv, EditsAreKept
<1>4. DOMAIN lodMaps' = DataLods /\ DOMAIN disk' = DataLods
  BY <1>1, <1>2 DEF DataTypeOK
<1>5. CASE lod # 0
  <2>0. Remembered(Overwritten(lod, blocks)) = [p \in Bounds |-> edited[p]]
    BY <1>5 DEF Overwritten, Remembered
  <2>1. lodMaps'[0] = lodMaps[0] /\ disk'[0] = disk[0] /\ hidden' = hidden
    BY <1>1, <1>2, <1>5 DEF DataTypeOK
  <2>3. edited' = edited
    <3>1. edited = [p \in Bounds |-> edited[p]]
      BY <1>1 DEF DataTypeOK
    <3>2. CASE collect
      BY <1>2, <2>0, <3>1, <3>2
    <3>3. CASE ~ collect
      <4>1. edited' = [p \in Bounds |-> edited[p]]
        BY <1>2, <1>5, <3>3
      <4> QED BY <3>1, <4>1
    <3> QED BY <3>2, <3>3
  <2>2. DataTypeOK' /\ NoForgottenLodUpdate'
    BY <1>1, <1>2, <1>4, <2>1, <2>3 DEF DataTypeOK, NoForgottenLodUpdate
  <2> QED BY <1>3, <2>1, <2>2, <2>3, EditFacts, InvFromEdits
<1>6. CASE lod = 0
  <2>1. lodMaps'[0] = [pos \in BlocksAt(0) |-> IF pos \in blocks THEN NotInMap ELSE lodMaps[0][pos]]
    BY <1>1, <1>2, <1>6 DEF Without, DataTypeOK
  <2>2. \A pos \in BlocksAt(0) : lodMaps'[0][pos] \in BlockRecords /\ (lodMaps'[0][pos].needs => lodMaps[0][pos].needs)
    BY <1>1, <2>1, ArrayFacts DEF DataTypeOK, NotInMap
  <2>3. disk'[0] = IF collect THEN HandedOver(0, blocks) ELSE disk[0]
    BY <1>1, <1>2, <1>6 DEF DataTypeOK
  <2>4. ASSUME ~ collect, NEW p \in Bounds, VoxelToBlock(p) \in blocks, edited[p] # None
        PROVE  /\ edited'[p] \in VoxelValues \cup {None}
               /\ edited'[p] # None => /\ disk[0][VoxelToBlock(p)] # NoVoxels
                                        /\ disk[0][VoxelToBlock(p)][ToLocal(p)] = edited'[p]
    <3>1. edited'[p] = IF disk[0][VoxelToBlock(p)] # NoVoxels THEN disk[0][VoxelToBlock(p)][ToLocal(p)] ELSE None
      BY <1>2, <1>6, <2>4 DEF KeptOn
    <3>2. disk[0][VoxelToBlock(p)] \in VoxelArrays
      BY <1>1 DEF DataTypeOK
    <3> QED BY <1>1, <3>1, <3>2 DEF VoxelArrays
  <2>5. \A p \in Bounds : VoxelToBlock(p) \notin blocks => edited'[p] = edited[p] /\ (p \in hidden' <=> p \in hidden)
    <3>1. \A p \in Bounds : VoxelToBlock(p) \notin blocks => p \notin Overwritten(0, blocks)
      BY DEF Overwritten
    <3>2. CASE collect
      BY <1>2, <1>6, <3>1, <3>2 DEF Remembered
    <3>3. CASE ~ collect
      BY <1>2, <1>6, <3>3
    <3> QED BY <3>2, <3>3
  <2>6. edited' \in [Bounds -> VoxelValues \cup {None}]
    <3>1. CASE collect
      BY <1>1, <1>2, <1>6, <3>1, RememberedFacts
    <3>2. CASE ~ collect
      <4>1. \A p \in Bounds : edited'[p] \in VoxelValues \cup {None}
        <5>1. SUFFICES ASSUME NEW p \in Bounds PROVE edited'[p] \in VoxelValues \cup {None}
          OBVIOUS
        <5>2. VoxelToBlock(p) \in blocks /\ edited[p] = None => edited'[p] = edited[p]
          BY <1>2, <1>6, <3>2
        <5>3. edited[p] \in VoxelValues \cup {None}
          BY <1>1 DEF DataTypeOK
        <5> QED BY <2>4, <2>5, <3>2, <5>2, <5>3
      <4>2. edited' = [p \in Bounds |-> edited'[p]]
        BY <1>1, <1>2, <3>2 DEF DataTypeOK
      <4> HIDE DEF None
      <4> QED BY <4>1, <4>2
    <3> QED BY <3>1, <3>2
  <2>7. DataTypeOK'
    BY <1>1, <1>2, <1>4, <2>1, <2>2, <2>3, <2>6, HandedFacts DEF DataTypeOK
  <2>8. NoForgottenLodUpdate'
    BY <1>1, <1>2, <2>2 DEF NoForgottenLodUpdate
  <2>9. ASSUME NEW p \in Bounds, edited'[p] # None
        PROVE  EditHolds(lodMaps'[0][VoxelToBlock(p)], disk'[0][VoxelToBlock(p)], ToLocal(p), edited'[p], p \in hidden')
    <3> DEFINE pos == VoxelToBlock(p)
    <3>1. pos \in BlocksAt(0)
      BY <1>1
    <3>2. edited[p] # None => EditHolds(lodMaps[0][pos], disk[0][pos], ToLocal(p), edited[p], p \in hidden)
      BY EditFacts
    <3>3. HandedOver(0, blocks)[pos] = IF pos \in blocks /\ lodMaps[0][pos].modified /\ HasVoxels(lodMaps[0][pos])
                                         THEN lodMaps[0][pos].voxels ELSE disk[0][pos]
      BY <1>1, <3>1, HandedFacts
    <3>4. lodMaps'[0][pos] = IF pos \in blocks THEN NotInMap ELSE lodMaps[0][pos]
      BY <2>1, <3>1
    <3>5. ~ HasVoxels(NotInMap) /\ ~ NotInMap.resident
      BY DEF NotInMap, HasVoxels
    <3>6. CASE pos \notin blocks
      <4>1. edited'[p] = edited[p] /\ (p \in hidden' <=> p \in hidden)
        BY <2>5, <3>6
      <4> QED BY <2>3, <2>9, <3>2, <3>3, <3>4, <3>6, <4>1
    <3>7. CASE pos \in blocks /\ collect
      <4>1. /\ edited'[p] = edited[p]
            /\ p \in hidden => ~ (lodMaps[0][pos].modified /\ HasVoxels(lodMaps[0][pos]))
        BY <1>1, <1>2, <1>6, <2>9, <3>7, RememberedFacts
      <4> QED BY <2>3, <2>9, <3>2, <3>3, <3>4, <3>5, <3>7, <4>1 DEF EditHolds, HasVoxels
    <3>8. CASE pos \in blocks /\ ~ collect
      <4>1. edited[p] # None
        BY <1>2, <1>6, <2>9, <3>8
      <4>2. disk[0][pos] # NoVoxels /\ disk[0][pos][ToLocal(p)] = edited'[p]
        BY <2>4, <2>9, <3>8, <4>1
      <4> QED BY <2>3, <3>4, <3>5, <3>8, <4>2 DEF EditHolds
    <3> QED BY <3>6, <3>7, <3>8
  <2> QED BY <1>3, <2>7, <2>8, <2>9, InvFromEdits
<1> QED BY <1>5, <1>6

\* reset_maps forgets every edit, in memory and on disk.
LEMMA ResetMapsInv ==
  ASSUME DataConstants, DataInv, ResetMaps
  PROVE  DataInv'
<1>1. DataTypeOK /\ NoForgottenLodUpdate /\ 0 \in DataLods
  BY BlockFacts DEF DataInv
<1>2. /\ DOMAIN lodMaps' = DataLods /\ lodMaps'[0] = Without(0, BlocksAt(0))
      /\ DOMAIN disk' = DataLods /\ disk'[0] = [pos \in BlocksAt(0) |-> NoVoxels]
      /\ edited' = [p \in Bounds |-> None] /\ hidden' = {} /\ settings' = settings /\ pending' = pending
  BY <1>1 DEF ResetMaps
<1>3. lodMaps'[0] = [pos \in BlocksAt(0) |-> NotInMap]
  BY <1>2 DEF Without
<1>4. DataTypeOK'
  BY <1>1, <1>2, <1>3, ArrayFacts DEF DataTypeOK, VoxelArrays
<1>5. NoForgottenLodUpdate'
  BY <1>3 DEF NoForgottenLodUpdate, NotInMap
<1>6. \A p \in Bounds : edited'[p] = None
  BY <1>2
<1> QED BY <1>2, <1>4, <1>5, <1>6, InvFromEdits

\* Every operation of the volume preserves the invariant.
LEMMA DataStepInv ==
  ASSUME DataConstants, DataInv, [DataNext]_dataVars
  PROVE  DataInv'
<1>1. ASSUME NEW p \in EditPoints, NEW value \in Values, NEW lods \in BOOLEAN, TrySetVoxel(p, value, lods) PROVE DataInv'
  BY <1>1, EditInv
<1>2. ASSUME NEW lo \in EditPoints, NEW hi \in EditPoints, PreGenerate(lo, hi) PROVE DataInv'
  BY <1>2, PreGenerateInv
<1>3. ASSUME NEW lod \in DataLods, NEW pos \in BlocksAt(lod), TrySetBlock(lod, pos) PROVE DataInv'
  BY <1>3, TrySetBlockInv
<1>4. ASSUME NEW lod \in DataLods, NEW collect \in BOOLEAN, NEW pos \in BlocksAt(lod), Unload(lod, {pos}, collect)
      PROVE  DataInv'
  BY <1>4, UnloadInv
<1>5. CASE UNCHANGED dataVars
  BY <1>5 DEF dataVars, DataInv, DataTypeOK, EditsAreKept, NoForgottenLodUpdate, EmptyIsUnedited
<1> QED BY <1>1, <1>2, <1>3, <1>4, <1>5, UpdateLodsInv, ConsumeStepsInv, ResetMapsInv DEF DataNext

-----------------------------------------------------------------------------
(* Reads.                                                                  *)

\* The voxels beside the bounds are in no block, and in none that a copy generates, when the
\* bounds are a whole number of blocks.
LEMMA BesideTheBounds ==
  ASSUME DataConstants, DataExtent % BlockSide = 0, NEW p \in {-1, DataExtent}
  PROVE  VoxelToBlock(p) \notin BlocksAt(0) /\ VoxelToBlock(p) * BlockSide \notin Bounds
<1> DEFINE d == BlockSide
           n == DataExtent \div d
           m == (DataExtent + d - 1) \div d
<1>1. d \in Nat \ {0} /\ DataExtent \in Nat
  BY DEF DataConstants
<1>2. BlocksAt(0) = 0 .. m - 1
  <2>1. BlockSide * (2 ^ 0) = BlockSide
    BY <1>1
  <2> QED BY <2>1 DEF BlocksAt
<1>3. n \in Int /\ n * d = DataExtent /\ n * d \in Int
  <2>1. n \in Int /\ n * d <= DataExtent /\ DataExtent < n * d + d /\ DataExtent % d = DataExtent - n * d
    <3> HIDE DEF d
    <3>1. DataExtent \in Int
      BY <1>1
    <3> QED BY <1>1, <3>1, Division
  <2>2. n * d \in Int
    BY <1>1, <2>1
  <2> QED BY <1>1, <2>1, <2>2
<1>4. m = n
  <2> HIDE DEF d, n
  <2>1. DataExtent + d - 1 \in Int /\ n * d <= DataExtent + d - 1 /\ DataExtent + d - 1 < n * d + d
    BY <1>1, <1>3
  <2>2. n = (DataExtent + d - 1) \div d
    BY <1>1, <1>3, <2>1, Division
  <2> QED BY <2>2
<1>5. CASE p = DataExtent
  <2>1. VoxelToBlock(p) = n
    BY <1>5 DEF VoxelToBlock
  <2> HIDE DEF n, m, d
  <2>2. n \notin 0 .. m - 1
    BY <1>3, <1>4
  <2>3. DataExtent \notin Bounds
    BY <1>1 DEF Bounds
  <2> QED BY <1>2, <1>3, <2>1, <2>2, <2>3 DEF d
<1>6. CASE p = -1
  <2>1. -1 = (-1) \div d
    <3> DEFINE k == -1
    <3>1. k \in Int /\ k * d <= k /\ k < k * d + d
      BY <1>1
    <3> HIDE DEF d, k
    <3>2. k = k \div d
      BY <1>1, <3>1, Division
    <3> QED BY <3>2 DEF k
  <2>2. VoxelToBlock(p) = -1
    BY <1>6, <2>1 DEF VoxelToBlock
  <2>3. -1 \notin 0 .. m - 1
    BY <1>3, <1>4
  <2>4. (-1) * BlockSide \notin Bounds
    BY <1>1 DEF Bounds
  <2> QED BY <1>2, <2>2, <2>3, <2>4
<1> QED BY <1>5, <1>6

\* get_voxel and copy agree, in every state.
LEMMA ReadsFacts ==
  ASSUME DataConstants, DataExtent % BlockSide = 0, settings.full, ~ settings.streaming, NEW p \in -1 .. DataExtent
  PROVE  GetVoxel(p, DefaultVoxel) = CopiedVoxel(p, TRUE)
<1>1. BlockSide \in Nat \ {0} /\ DataExtent \in Nat /\ 0 \in DataLods
  BY BlockFacts DEF DataConstants
<1> DEFINE b == BlockIn(lodMaps, 0, VoxelToBlock(p))
<1>2. CASE p \notin Bounds
  <2>1. p \in {-1, DataExtent}
    BY <1>1, <1>2 DEF Bounds
  <2>2. VoxelToBlock(p) \notin BlocksAt(0) /\ VoxelToBlock(p) * BlockSide \notin Bounds
    BY <2>1, BesideTheBounds
  <2>3. ~ HasVoxels(b)
    BY <2>2 DEF BlockIn, HasVoxels, NotInMap
  <2>4. GetVoxel(p, DefaultVoxel) = DefaultVoxel
    BY <1>2 DEF GetVoxel
  <2>5. CopiedVoxel(p, TRUE) = DefaultVoxel
    <3> HIDE DEF b
    <3>1. CopiedVoxel(p, TRUE) =
            CASE HasVoxels(b) -> b.voxels[ToLocal(p)]
              [] ~ HasVoxels(b) /\ TRUE /\ settings.generator /\ VoxelToBlock(p) * BlockSide \in Bounds -> Generated
              [] OTHER -> DefaultVoxel
      BY DEF CopiedVoxel, b
    <3> QED BY <2>2, <2>3, <3>1
  <2> QED BY <2>4, <2>5
<1>3. CASE p \in Bounds
  <2>1. p \in Nat /\ p < DataExtent
    BY <1>1, <1>3 DEF Bounds
  <2>2. VoxelToBlock(p) * BlockSide \in Bounds
    <3> DEFINE d == BlockSide
               q == p \div d
    <3>0. d \in Nat \ {0}
      BY <1>1
    <3>1. q \in Int /\ q * d <= p
      <4> HIDE DEF d
      <4> QED BY <2>1, <3>0, Division
    <3>2. 0 <= q
      <4>1. 0 \div d = 0
        BY <1>1
      <4>2. 0 \div d <= p \div d
        <5> HIDE DEF d
        <5> QED BY <2>1, <3>0, DivisionGrows
      <4> QED BY <4>1, <4>2
    <3> HIDE DEF q
    <3>3. q \in Nat /\ q * d \in Nat
      BY <1>1, <3>1, <3>2
    <3>4. q * d \in 0 .. DataExtent - 1
      BY <1>1, <2>1, <3>1, <3>3
    <3> QED BY <3>4 DEF q, VoxelToBlock, Bounds
  <2> DEFINE at(lod) == BlockIn(lodMaps, lod, VoxelToBlock(p) \div (2 ^ lod))
             found == {l \in DataLods : HasVoxels(at(l))}
             generated == IF settings.generator THEN Generated ELSE DefaultVoxel
  <2>3. at(0) = b
    <3>1. VoxelToBlock(p) \in Int
      BY <1>3, <2>1, BlockFacts DEF BlocksAt
    <3>2. 2 ^ 0 = 1
      OBVIOUS
    <3>3. VoxelToBlock(p) \div (2 ^ 0) = VoxelToBlock(p)
      BY <3>1, <3>2
    <3> QED BY <3>3
  <2>4. GetVoxel(p, DefaultVoxel) = IF 0 \in found THEN at(0).voxels[ToLocal(p)] ELSE generated
    BY <1>3 DEF GetVoxel
  <2>5. 0 \in found <=> HasVoxels(b)
    BY <1>1, <2>3
  <2> HIDE DEF b, found, at
  <2>6. GetVoxel(p, DefaultVoxel) = IF HasVoxels(b) THEN b.voxels[ToLocal(p)] ELSE generated
    BY <2>3, <2>4, <2>5
  <2>7. CopiedVoxel(p, TRUE) =
          CASE HasVoxels(b) -> b.voxels[ToLocal(p)]
            [] ~ HasVoxels(b) /\ TRUE /\ settings.generator /\ VoxelToBlock(p) * BlockSide \in Bounds -> Generated
            [] OTHER -> DefaultVoxel
    BY DEF CopiedVoxel, b
  <2> QED BY <2>2, <2>6, <2>7
<1> QED BY <1>2, <1>3

\* An area that is_area_loaded accepts can be edited, in every state and whatever the bounds.
LEMMA LoadedFacts ==
  ASSUME DataConstants, NEW lo \in Bounds, NEW hi \in 1 .. DataExtent, lo < hi, IsAreaLoaded(lo, hi),
         NEW p \in lo .. hi - 1
  PROVE  CanSet(p)
<1> DEFINE d == BlockSide
           q == p \div d
           first == lo \div d
           last == (hi + d - 1) \div d
<1>1. d \in Nat \ {0} /\ DataExtent \in Nat /\ lo \in Int /\ hi \in Int /\ p \in Int /\ p <= hi - 1 /\ lo <= p /\ p \in Bounds
  BY DEF DataConstants, Bounds
<1> HIDE DEF d
<1>2. q \in Int /\ first \in Int /\ first <= q
  BY <1>1, Division, DivisionGrows
<1>3. (p + d) \div d = q + 1
  BY <1>1, DivisionOfNext
<1>4. (p + d) \div d <= last /\ last \in Int
  <2>1. p + d \in Int /\ hi + d - 1 \in Int /\ p + d <= hi + d - 1
    BY <1>1
  <2> QED BY <1>1, <2>1, DivisionGrows, Division
<1> HIDE DEF q, first, last
<1>5. q \in first .. last - 1
  BY <1>2, <1>3, <1>4
<1>6. VoxelToBlock(p) \in Touched(lo, hi)
  BY <1>5 DEF q, first, last, d, VoxelToBlock, Touched
<1>7. BlockIn(lodMaps, 0, VoxelToBlock(p)).resident
  BY <1>6 DEF IsAreaLoaded
<1> QED BY <1>1, <1>7 DEF CanSet

-----------------------------------------------------------------------------
(* The theorems.                                                           *)

\* Whatever blocks were loaded, generated, handed over and unloaded, in whatever order, the block
\* of an edit shows it or the stream has it, and in a volume that streams no block that was made
\* hides it; and no flag for the coarser LODs is out of its list.
\* The bounds may have any length (voxel_data.rs: try_set_voxel, mark_area_modified, update_lods,
\* pre_generate_box, try_set_block, consume_*, unload_blocks, reset_maps).
THEOREM EditsSurvive ==
  ASSUME DataConstants
  PROVE  DataSpec => [](EditsAreKept /\ NoForgottenLodUpdate)
<1>1. DataInit => DataInv
  BY DataInitInv
<1>2. DataInv /\ [DataNext]_dataVars => DataInv'
  BY DataStepInv
<1>3. DataInv => EditsAreKept /\ NoForgottenLodUpdate
  BY DEF DataInv
<1> QED BY <1>1, <1>2, <1>3, PTL DEF DataSpec

\* With bounds of whole blocks, get_voxel and copy also agree on every voxel, in the bounds and
\* beside them, and every area that is_area_loaded accepts can be edited.
THEOREM VolumeIsExact ==
  ASSUME DataConstants, DataExtent % BlockSide = 0
  PROVE  DataSpec => []VolumeExact
<1>1. DataInit => DataInv
  BY DataInitInv
<1>2. DataInv /\ [DataNext]_dataVars => DataInv'
  BY DataStepInv
<1>3. ReadsAgree
  <2>1. ASSUME NEW lo \in Bounds, NEW hi \in lo + 1 .. DataExtent PROVE lo < hi /\ hi \in 1 .. DataExtent
    BY <2>1 DEF Bounds, DataConstants
  <2>2. ASSUME NEW lo \in Bounds, NEW hi \in lo + 1 .. DataExtent, IsAreaLoaded(lo, hi), NEW p \in lo .. hi - 1
        PROVE  CanSet(p)
    BY <2>1, <2>2, LoadedFacts
  <2> QED BY <2>2, ReadsFacts DEF ReadsAgree
<1>4. DataInv /\ ReadsAgree => VolumeExact
  BY DEF DataInv, VolumeExact
<1>5. DataInv => VolumeExact
  BY <1>3, <1>4
<1> QED BY <1>1, <1>2, <1>5, PTL DEF DataSpec

-----------------------------------------------------------------------------
(* Sums over finite sets.                                                  *)

\* FoldSet is a recursion over the subsets of its set, which picks an element at a time.
Pick(S) == CHOOSE x \in S : TRUE
Total(f, S) == FoldSet(LAMBDA b, n : n + f[b], 0, S)
Adds(f, g, s) == IF s = {} THEN 0 ELSE g[s \ {Pick(s)}] + f[Pick(s)]

\* The sum is a solution of the recursion, if there is one.
LEMMA TotalIs ==
  ASSUME NEW f, NEW S
  PROVE Total(f, S) = (CHOOSE g : g = [s \in SUBSET S |-> Adds(f, g, s)])[S]
BY DEF Total, FoldSet, MapThenFoldSet, Adds, Pick

\* A solution of the recursion over the sets of at most n elements.
Small(S, n) == {s \in SUBSET S : Cardinality(s) <= n}
Solves(f, g, D) == g = [s \in D |-> Adds(f, g, s)]
Sums(f, g, S) == g = [s \in SUBSET S |-> Adds(f, g, s)]

\* One element less: a smaller set.
LEMMA PickFacts ==
  ASSUME NEW S, IsFiniteSet(S), S # {}
  PROVE  /\ Pick(S) \in S /\ IsFiniteSet(S \ {Pick(S)})
         /\ Cardinality(S) \in Nat /\ Cardinality(S) > 0
         /\ Cardinality(S \ {Pick(S)}) = Cardinality(S) - 1
<1>1. Pick(S) \in S
  BY DEF Pick
<1>2. Cardinality(S) \in Nat /\ Cardinality(S) # 0
  BY FS_CardinalityType, FS_EmptySet
<1>3. IsFiniteSet(S \ {Pick(S)}) /\ Cardinality(S \ {Pick(S)}) = Cardinality(S) - 1
  BY <1>1, FS_RemoveElement
<1> QED BY <1>1, <1>2, <1>3

\* There is a solution: the least size of sets without one would have one, from the sizes below.
LEMMA Solvable ==
  ASSUME NEW f, NEW S, IsFiniteSet(S)
  PROVE  \E g : Sums(f, g, S)
<1> DEFINE Unsolved == {n \in Nat : ~ \E g : Solves(f, g, Small(S, n))}
<1>1. \A s \in SUBSET S : IsFiniteSet(s) /\ Cardinality(s) \in Nat
  BY FS_Subset, FS_CardinalityType
<1>2. Unsolved = {}
  <2>1. SUFFICES ASSUME Unsolved # {} PROVE FALSE
    OBVIOUS
  <2>2. Unsolved \in SUBSET Nat
    OBVIOUS
  <2> HIDE DEF Unsolved
  <2>3. PICK n \in Unsolved : \A m \in Unsolved : n <= m
    BY <2>1, <2>2, LeastNatural
  <2>4. n \in Nat /\ ~ \E g : Solves(f, g, Small(S, n))
    BY DEF Unsolved
  <2>5. CASE n = 0
    <3> DEFINE g == [s \in Small(S, n) |-> 0]
    <3>1. \A s \in Small(S, n) : s = {}
      <4>1. SUFFICES ASSUME NEW s \in Small(S, n), s # {} PROVE FALSE
        OBVIOUS
      <4>2. s \in SUBSET S /\ Cardinality(s) <= 0
        BY <2>5, <4>1 DEF Small
      <4>3. Cardinality(s) > 0 /\ Cardinality(s) \in Nat
        BY <1>1, <4>1, <4>2, PickFacts
      <4> QED BY <4>2, <4>3
    <3>2. \A s \in Small(S, n) : g[s] = Adds(f, g, s)
      BY <3>1 DEF Adds
    <3>3. g = [s \in Small(S, n) |-> g[s]]
      OBVIOUS
    <3> HIDE DEF g
    <3>4. g = [s \in Small(S, n) |-> Adds(f, g, s)]
      BY <3>2, <3>3
    <3> QED BY <2>4, <3>4 DEF Solves
  <2>6. CASE n > 0
    <3>1. n - 1 \in Nat /\ n - 1 \notin Unsolved
      BY <2>3, <2>4, <2>6
    <3>2. PICK g : Solves(f, g, Small(S, n - 1))
      BY <3>1 DEF Unsolved
    <3> DEFINE h == [s \in Small(S, n) |-> Adds(f, g, s)]
    <3>3. \A s \in Small(S, n - 1) : s \in Small(S, n) /\ h[s] = g[s]
      <4>1. \A s \in Small(S, n - 1) : s \in Small(S, n)
        BY <1>1, <2>4 DEF Small
      <4>2. \A s \in Small(S, n - 1) : g[s] = Adds(f, g, s)
        BY <3>2 DEF Solves
      <4> QED BY <4>1, <4>2
    <3>4. ASSUME NEW s \in Small(S, n), s # {} PROVE s \ {Pick(s)} \in Small(S, n - 1)
      <4>1. s \in SUBSET S /\ Cardinality(s) <= n
        BY DEF Small
      <4>2. Cardinality(s \ {Pick(s)}) = Cardinality(s) - 1 /\ Cardinality(s) \in Nat
        BY <1>1, <3>4, <4>1, PickFacts
      <4> QED BY <2>4, <4>1, <4>2 DEF Small
    <3>5. ASSUME NEW s \in Small(S, n) PROVE h[s] = Adds(f, h, s)
      <4>1. CASE s = {}
        BY <4>1 DEF Adds
      <4>2. CASE s # {}
        <5>1. h[s] = Adds(f, g, s)
          OBVIOUS
        <5>2. h[s \ {Pick(s)}] = g[s \ {Pick(s)}]
          BY <3>3, <3>4, <4>2
        <5> HIDE DEF h
        <5> QED BY <5>1, <5>2 DEF Adds
      <4> QED BY <4>1, <4>2
    <3>6. h = [s \in Small(S, n) |-> h[s]]
      OBVIOUS
    <3> HIDE DEF h
    <3>7. h = [s \in Small(S, n) |-> Adds(f, h, s)]
      BY <3>5, <3>6
    <3> QED BY <2>4, <3>7 DEF Solves
  <2> QED BY <2>4, <2>5, <2>6
<1>3. Cardinality(S) \in Nat
  BY FS_CardinalityType
<1>4. PICK g : Solves(f, g, Small(S, Cardinality(S)))
  BY <1>2, <1>3
<1>5. Small(S, Cardinality(S)) = SUBSET S
  <2>1. \A s \in SUBSET S : Cardinality(s) <= Cardinality(S)
    BY FS_Subset
  <2> QED BY <2>1 DEF Small
<1> QED BY <1>4, <1>5 DEF Solves, Sums

\* Two solutions agree where both are defined.
LEMMA SolutionsAgree ==
  ASSUME NEW f, NEW S, IsFiniteSet(S)
  PROVE  \A R \in SUBSET S : \A g, h : Sums(f, g, S) /\ Sums(f, h, R) => \A s \in SUBSET R : g[s] = h[s]
<1> SUFFICES ASSUME NEW R \in SUBSET S, NEW g, NEW h, Sums(f, g, S), Sums(f, h, R)
             PROVE  \A s \in SUBSET R : g[s] = h[s]
  OBVIOUS
<1> DEFINE Wrong == {n \in Nat : \E s \in SUBSET R : Cardinality(s) = n /\ g[s] # h[s]}
<1>0. \A s \in SUBSET R : IsFiniteSet(s) /\ Cardinality(s) \in Nat
  BY FS_Subset, FS_CardinalityType
<1>1. SUFFICES ASSUME Wrong # {} PROVE FALSE
  BY <1>0
<1>2. Wrong \in SUBSET Nat
  OBVIOUS
<1> HIDE DEF Wrong
<1>3. PICK n \in Wrong : \A m \in Wrong : n <= m
  BY <1>1, <1>2, LeastNatural
<1>4. PICK s \in SUBSET R : Cardinality(s) = n /\ g[s] # h[s]
  BY <1>3 DEF Wrong
<1>5. g[s] = Adds(f, g, s) /\ h[s] = Adds(f, h, s)
  BY DEF Sums
<1>6. CASE s = {}
  BY <1>4, <1>5, <1>6 DEF Adds
<1>7. CASE s # {}
  <2>1. Cardinality(s \ {Pick(s)}) = n - 1 /\ n > 0 /\ n \in Nat /\ s \ {Pick(s)} \in SUBSET R
    BY <1>0, <1>4, <1>7, PickFacts
  <2>2. n - 1 \in Nat /\ n - 1 \notin Wrong
    BY <1>3, <2>1
  <2>3. g[s \ {Pick(s)}] = h[s \ {Pick(s)}]
    BY <2>1, <2>2 DEF Wrong
  <2> QED BY <1>4, <1>5, <1>7, <2>3 DEF Adds
<1> QED BY <1>6, <1>7

\* The sum one element at a time, as the fold computes it.
LEMMA TotalUnfolds ==
  ASSUME NEW f, NEW S, IsFiniteSet(S)
  PROVE  /\ Total(f, {}) = 0
         /\ S # {} => Total(f, S) = Total(f, S \ {Pick(S)}) + f[Pick(S)]
<1> DEFINE Sol(T) == CHOOSE g : Sums(f, g, T)
<1>1. \A T : IsFiniteSet(T) => Sums(f, Sol(T), T)
  BY Solvable
<1>2. \A T : Total(f, T) = Sol(T)[T]
  BY TotalIs DEF Sums
<1> HIDE DEF Sol
<1>3. Total(f, {}) = 0
  <2>1. Sums(f, Sol({}), {}) 
    BY <1>1, FS_EmptySet
  <2>2. Sol({})[{}] = Adds(f, Sol({}), {})
    BY <2>1 DEF Sums
  <2> QED BY <1>2, <2>2 DEF Adds
<1>4. ASSUME S # {} PROVE Total(f, S) = Total(f, S \ {Pick(S)}) + f[Pick(S)]
  <2> DEFINE R == S \ {Pick(S)}
  <2>1. IsFiniteSet(R) /\ R \subseteq S
    BY <1>4, PickFacts
  <2>2. Sums(f, Sol(S), S) /\ Sums(f, Sol(R), R)
    BY <1>1, <2>1
  <2>3. R \in SUBSET S /\ R \in SUBSET R
    BY <2>1
  <2> HIDE DEF R
  <2>4. ASSUME NEW a, NEW b, Sums(f, a, S), Sums(f, b, R) PROVE a[R] = b[R]
    <3>1. \A T : IsFiniteSet(T) => \A Q \in SUBSET T : \A g, h : Sums(f, g, T) /\ Sums(f, h, Q) => \A s \in SUBSET Q : g[s] = h[s]
      BY SolutionsAgree
    <3>2. \A Q \in SUBSET S : \A g, h : Sums(f, g, S) /\ Sums(f, h, Q) => \A s \in SUBSET Q : g[s] = h[s]
      BY <3>1
    <3> QED BY <2>3, <2>4, <3>2
  <2>5. Sol(S)[R] = Sol(R)[R]
    BY <2>2, <2>4
  <2>6. Sol(S)[S] = Adds(f, Sol(S), S)
    BY <2>2 DEF Sums
  <2> QED BY <1>2, <1>4, <2>5, <2>6 DEF Adds, R
<1> QED BY <1>3, <1>4

\* The sum does not depend on the order, and is an integer.
LEMMA TotalOf ==
  ASSUME NEW f, NEW S, IsFiniteSet(S), \A x \in S : f[x] \in Int
  PROVE  /\ Total(f, {}) = 0 /\ Total(f, S) \in Int
         /\ \A x \in S : Total(f, S \ {x}) \in Int /\ Total(f, S) = Total(f, S \ {x}) + f[x]
<1> DEFINE Right(T) == /\ Total(f, T) \in Int
                       /\ \A x \in T : Total(f, T \ {x}) \in Int /\ Total(f, T) = Total(f, T \ {x}) + f[x]
           Wrong == {n \in Nat : \E T \in SUBSET S : Cardinality(T) = n /\ ~ Right(T)}
<1>0. \A T \in SUBSET S : IsFiniteSet(T) /\ Cardinality(T) \in Nat
  BY FS_Subset, FS_CardinalityType
<1>1. Total(f, {}) = 0
  BY TotalUnfolds
<1>2. Wrong = {}
  <2>1. SUFFICES ASSUME Wrong # {} PROVE FALSE
    OBVIOUS
  <2>2. Wrong \in SUBSET Nat
    OBVIOUS
  <2> HIDE DEF Wrong
  <2>3. PICK n \in Wrong : \A m \in Wrong : n <= m
    BY <2>1, <2>2, LeastNatural
  <2>4. PICK T \in SUBSET S : Cardinality(T) = n /\ ~ Right(T)
    BY <2>3 DEF Wrong
  <2>5. CASE T = {}
    <3>1. Right(T)
      BY <1>1, <2>5
    <3> QED BY <2>4, <3>1
  <2>6. CASE T # {}
    <3> DEFINE p == Pick(T)
    <3>1. p \in T /\ Cardinality(T \ {p}) = n - 1 /\ n > 0 /\ n \in Nat /\ IsFiniteSet(T)
      BY <1>0, <2>4, <2>6, PickFacts
    <3>2. n - 1 \in Nat /\ n - 1 \notin Wrong
      BY <2>3, <3>1
    <3>3. \A R \in SUBSET S : Cardinality(R) = n - 1 => Right(R)
      BY <3>2 DEF Wrong
    <3>4. Total(f, T) = Total(f, T \ {p}) + f[p]
      BY <2>6, <3>1, TotalUnfolds
    <3> HIDE DEF p
    <3>5. Right(T \ {p})
      BY <3>1, <3>3
    <3>6. Total(f, T) \in Int
      BY <3>1, <3>4, <3>5
    <3>7. ASSUME NEW x \in T PROVE Total(f, T \ {x}) \in Int /\ Total(f, T) = Total(f, T \ {x}) + f[x]
      <4>1. CASE x = p
        BY <3>4, <3>5, <4>1
      <4>2. CASE x # p
        <5> DEFINE R == (T \ {p}) \ {x}
        <5>1. Cardinality(T \ {x}) = n - 1
          BY <2>4, <3>1, FS_RemoveElement
        <5>2. Right(T \ {x})
          BY <3>3, <5>1
        <5>3. x \in T \ {p} /\ p \in T \ {x} /\ (T \ {x}) \ {p} = R
          BY <3>1, <4>2
        <5>4. Total(f, R) \in Int /\ Total(f, T \ {p}) = Total(f, R) + f[x]
          BY <3>5, <5>3
        <5>5. Total(f, T \ {x}) \in Int /\ Total(f, T \ {x}) = Total(f, R) + f[p]
          BY <5>2, <5>3
        <5> HIDE DEF R
        <5>6. f[x] \in Int /\ f[p] \in Int
          BY <2>4, <3>1
        <5> QED BY <3>4, <5>4, <5>5, <5>6
      <4> QED BY <4>1, <4>2
    <3> QED BY <2>4, <3>6, <3>7
  <2> QED BY <2>5, <2>6
<1>3. Right(S)
  BY <1>0, <1>2
<1> QED BY <1>1, <1>3

\* One more element.
LEMMA TotalWith ==
  ASSUME NEW f, NEW S, IsFiniteSet(S), \A y \in S : f[y] \in Int, NEW x, x \notin S, f[x] \in Int
  PROVE  Total(f, S \cup {x}) = Total(f, S) + f[x]
<1> DEFINE T == S \cup {x}
<1>1. IsFiniteSet(T) /\ x \in T /\ T \ {x} = S /\ \A y \in T : f[y] \in Int
  BY FS_AddElement
<1> HIDE DEF T
<1>2. Total(f, T) = Total(f, T \ {x}) + f[x]
  BY <1>1, TotalOf
<1> QED BY <1>1, <1>2 DEF T

\* What a sum of lengths is: the same when the lengths are the same, additive, and bounded.
LEMMA TotalFacts ==
  ASSUME NEW f, NEW S, IsFiniteSet(S), \A x \in S : f[x] \in Int,
         NEW g, NEW R, IsFiniteSet(R), \A x \in R : f[x] \in Int, R \cap S = {}, NEW c \in Int
  PROVE  /\ (\A x \in S : g[x] = f[x]) => Total(g, S) = Total(f, S)
         /\ Total(f, R \cup S) = Total(f, R) + Total(f, S)
         /\ (\A x \in S : f[x] = c) => Total(f, S) = c * Cardinality(S)
         /\ (\A x \in S : 0 <= f[x] /\ f[x] <= c) => 0 <= Total(f, S) /\ Total(f, S) <= c * Cardinality(S)
<1> DEFINE Right(T) ==
             /\ (\A x \in S : g[x] = f[x]) => Total(g, T) = Total(f, T)
             /\ Total(f, R \cup T) = Total(f, R) + Total(f, T)
             /\ (\A x \in S : f[x] = c) => Total(f, T) = c * Cardinality(T)
             /\ (\A x \in S : 0 <= f[x] /\ f[x] <= c) => 0 <= Total(f, T) /\ Total(f, T) <= c * Cardinality(T)
           Wrong == {n \in Nat : \E T \in SUBSET S : Cardinality(T) = n /\ ~ Right(T)}
<1>0. \A T \in SUBSET S : IsFiniteSet(T) /\ Cardinality(T) \in Nat
  BY FS_Subset, FS_CardinalityType
<1>1. Total(f, R) \in Int
  BY TotalOf
<1>2. Wrong = {}
  <2>1. SUFFICES ASSUME Wrong # {} PROVE FALSE
    OBVIOUS
  <2>2. Wrong \in SUBSET Nat
    OBVIOUS
  <2> HIDE DEF Wrong
  <2>3. PICK n \in Wrong : \A m \in Wrong : n <= m
    BY <2>1, <2>2, LeastNatural
  <2>4. PICK T \in SUBSET S : Cardinality(T) = n /\ ~ Right(T)
    BY <2>3 DEF Wrong
  <2>5. CASE T = {}
    <3>1. Total(f, T) = 0 /\ Total(g, T) = 0 /\ Cardinality(T) = 0 /\ R \cup T = R
      BY <2>5, TotalUnfolds, FS_EmptySet
    <3>2. c * Cardinality(T) = 0
      BY <3>1
    <3>3. Total(f, R \cup T) = Total(f, R) + Total(f, T)
      BY <1>1, <3>1
    <3>4. Right(T)
      BY <3>1, <3>2, <3>3
    <3> QED BY <2>4, <3>4
  <2>6. CASE T # {}
    <3> DEFINE x == Pick(T)
               Q == T \ {x}
    <3>1. x \in T /\ Cardinality(Q) = n - 1 /\ n > 0 /\ n \in Nat /\ IsFiniteSet(T) /\ IsFiniteSet(Q)
      BY <1>0, <2>4, <2>6, PickFacts
    <3> HIDE DEF x
    <3>2. n - 1 \in Nat /\ n - 1 \notin Wrong /\ Q \in SUBSET S
      BY <2>3, <2>4, <3>1
    <3>3. Right(Q)
      <4> HIDE DEF Q
      <4> QED BY <3>1, <3>2 DEF Wrong
    <3>4. T = Q \cup {x} /\ x \notin Q /\ x \in S /\ f[x] \in Int /\ \A y \in Q : f[y] \in Int
      BY <2>4, <3>1
    <3> HIDE DEF Q
    <3>5. Total(f, T) = Total(f, Q) + f[x] /\ Total(f, Q) \in Int
      BY <3>1, <3>4, TotalWith, TotalOf
    <3>6. ASSUME \A y \in S : g[y] = f[y] PROVE Total(g, T) = Total(f, T)
      <4>1. g[x] = f[x] /\ \A y \in Q : g[y] \in Int
        BY <3>2, <3>4, <3>6
      <4>2. Total(g, T) = Total(g, Q) + g[x]
        BY <3>1, <3>4, <4>1, TotalWith
      <4> QED BY <3>3, <3>5, <3>6, <4>1, <4>2
    <3>7. Total(f, R \cup T) = Total(f, R) + Total(f, T)
      <4>1. IsFiniteSet(R \cup Q) /\ x \notin R \cup Q /\ R \cup T = (R \cup Q) \cup {x}
            /\ \A y \in R \cup Q : f[y] \in Int
        BY <3>1, <3>2, <3>4, FS_Union
      <4>2. Total(f, (R \cup Q) \cup {x}) = Total(f, R \cup Q) + f[x]
        BY <3>4, <4>1, TotalWith
      <4>3. Total(f, R \cup T) = Total(f, R \cup Q) + f[x]
        BY <4>1, <4>2
      <4>4. Total(f, R \cup Q) = Total(f, R) + Total(f, Q)
        BY <3>3
      <4> QED BY <1>1, <3>4, <3>5, <4>3, <4>4
    <3>8. c * n = c * (n - 1) + c /\ c * (n - 1) \in Int
      BY <3>1
    <3>9. (\A y \in S : f[y] = c) => Total(f, T) = c * Cardinality(T)
      BY <2>4, <3>1, <3>3, <3>4, <3>5, <3>8
    <3>10. ASSUME \A y \in S : 0 <= f[y] /\ f[y] <= c PROVE 0 <= Total(f, T) /\ Total(f, T) <= c * Cardinality(T)
      <4>1. 0 <= f[x] /\ f[x] <= c /\ 0 <= Total(f, Q) /\ Total(f, Q) <= c * (n - 1)
        BY <3>1, <3>3, <3>4, <3>10
      <4> QED BY <2>4, <3>4, <3>5, <3>8, <4>1
    <3> QED BY <2>4, <3>6, <3>7, <3>9, <3>10
  <2> QED BY <2>5, <2>6
<1>3. Right(S)
  BY <1>0, <1>2
<1> QED BY <1>3

\* The sum depends on the values in the set only.
LEMMA TotalSame ==
  ASSUME NEW f, NEW g, NEW S, IsFiniteSet(S), \A x \in S : f[x] \in Int /\ g[x] = f[x]
  PROVE  Total(g, S) = Total(f, S)
<1>1. IsFiniteSet({}) /\ {} \cap S = {} /\ 0 \in Int /\ \A x \in {} : f[x] \in Int
  BY FS_EmptySet
<1> QED BY <1>1, TotalFacts

-----------------------------------------------------------------------------
(* The memory pool: sizes and counters.                                    *)

\* The buckets hold blocks of 1, 2, 4, ... bytes.
LEMMA CapacityFacts ==
  ASSUME PoolConstants
  PROVE  /\ 0 \in Exponents /\ MaxExponent \in Exponents
         /\ \A i \in Exponents : Capacity[i] \in Nat \ {0} /\ Capacity[i] <= HighestSize
         /\ \A i, j \in Exponents : i < j => Capacity[i] < Capacity[j]
<1> DEFINE Body(g, i) == IF i = 0 THEN 1 ELSE 2 * g[i - 1]
           IsPowers(g, n) == g = [i \in 0 .. n |-> Body(g, i)]
           Unsolved == {n \in Nat : ~ \E g : IsPowers(g, n)}
<1>0. MaxExponent \in Nat /\ Exponents = 0 .. MaxExponent
  BY DEF PoolConstants, Exponents
<1>1. Unsolved = {}
  <2>1. SUFFICES ASSUME Unsolved # {} PROVE FALSE
    OBVIOUS
  <2>2. Unsolved \in SUBSET Nat
    OBVIOUS
  <2> HIDE DEF Unsolved
  <2>3. PICK n \in Unsolved : \A m \in Unsolved : n <= m
    BY <2>1, <2>2, LeastNatural
  <2>4. n \in Nat /\ ~ \E g : IsPowers(g, n)
    BY DEF Unsolved
  <2>5. CASE n = 0
    <3> DEFINE g == [i \in 0 .. 0 |-> 1]
    <3>1. g = [i \in 0 .. 0 |-> Body(g, i)]
      OBVIOUS
    <3> QED BY <2>4, <2>5, <3>1
  <2>6. CASE n > 0
    <3>1. n - 1 \in Nat /\ n - 1 \notin Unsolved
      BY <2>3, <2>4, <2>6
    <3>2. PICK g : IsPowers(g, n - 1)
      BY <3>1 DEF Unsolved
    <3> DEFINE h == [i \in 0 .. n |-> IF i = n THEN Body(g, i) ELSE g[i]]
    <3>3. \A i \in 0 .. n - 1 : g[i] = Body(g, i)
      BY <3>2
    <3>4. \A i \in 0 .. n : h[i] = Body(g, i)
      BY <2>4, <3>3
    <3>5. \A i \in 0 .. n : i # 0 => h[i - 1] = g[i - 1]
      BY <2>4
    <3>6. \A i \in 0 .. n : h[i] = Body(h, i)
      BY <3>4, <3>5
    <3>7. h = [i \in 0 .. n |-> h[i]]
      OBVIOUS
    <3> HIDE DEF h
    <3>8. h = [i \in 0 .. n |-> Body(h, i)]
      BY <3>6, <3>7
    <3> QED BY <2>4, <3>8
  <2> QED BY <2>4, <2>5, <2>6
<1>2. Capacity = [i \in Exponents |-> Body(Capacity, i)]
  <2>1. \E g : g = [i \in Exponents |-> Body(g, i)]
    BY <1>0, <1>1
  <2>2. Capacity = CHOOSE g : g = [i \in Exponents |-> Body(g, i)]
    BY DEF Capacity
  <2> QED BY <2>1, <2>2
<1>3. \A i \in Exponents : Capacity[i] = Body(Capacity, i)
  BY <1>2
<1> DEFINE Right(j) == /\ Capacity[j] \in Nat \ {0}
                       /\ \A i \in Exponents : i < j => Capacity[i] < Capacity[j]
           Wrong == {n \in Nat : n <= MaxExponent /\ ~ Right(n)}
<1>4. Wrong = {}
  <2>1. SUFFICES ASSUME Wrong # {} PROVE FALSE
    OBVIOUS
  <2>2. Wrong \in SUBSET Nat
    OBVIOUS
  <2> HIDE DEF Wrong
  <2>3. PICK n \in Wrong : \A m \in Wrong : n <= m
    BY <2>1, <2>2, LeastNatural
  <2>4. n \in Nat /\ n <= MaxExponent /\ ~ Right(n) /\ n \in Exponents
    BY <1>0 DEF Wrong
  <2>5. CASE n = 0
    <3>1. Right(n)
      BY <1>0, <1>3, <2>4, <2>5
    <3> QED BY <2>4, <3>1
  <2>6. CASE n > 0
    <3>1. n - 1 \in Nat /\ n - 1 <= MaxExponent /\ n - 1 \notin Wrong
      BY <1>0, <2>3, <2>4, <2>6
    <3>2. Right(n - 1)
      BY <3>1 DEF Wrong
    <3>3. Capacity[n] = 2 * Capacity[n - 1]
      BY <1>3, <2>4, <2>6
    <3>4. Capacity[n] \in Nat \ {0} /\ Capacity[n - 1] < Capacity[n] /\ Capacity[n - 1] \in Nat
      BY <3>2, <3>3
    <3>5. ASSUME NEW i \in Exponents, i < n PROVE Capacity[i] < Capacity[n]
      <4>1. i = n - 1 \/ i < n - 1
        BY <1>0, <2>4, <3>5
      <4>2. CASE i < n - 1
        <5>1. Capacity[i] < Capacity[n - 1]
          BY <3>2, <4>2
        <5>2. Capacity[i] \in Nat
          <6>1. i \in Nat /\ i <= MaxExponent /\ i \notin Wrong
            BY <1>0, <2>3, <2>4, <3>5
          <6> QED BY <6>1 DEF Wrong
        <5> QED BY <3>4, <5>1, <5>2
      <4> QED BY <3>4, <4>1, <4>2
    <3> QED BY <2>4, <3>4, <3>5
  <2> QED BY <2>4, <2>5, <2>6
<1>5. \A j \in Exponents : Right(j)
  BY <1>0, <1>4
<1>6. ASSUME NEW i \in Exponents PROVE Capacity[i] <= HighestSize
  <2>1. i = MaxExponent \/ i < MaxExponent
    BY <1>0
  <2>2. MaxExponent \in Exponents
    BY <1>0
  <2> QED BY <1>5, <2>1, <2>2 DEF HighestSize
<1>7. 0 \in Exponents /\ MaxExponent \in Exponents
  BY <1>0
<1> QED BY <1>5, <1>6, <1>7

\* A size that the pool serves has a bucket of at least that size, and the size of a bucket that one.
LEMMA PoolIndexFacts ==
  ASSUME PoolConstants
  PROVE  /\ \A size \in Nat \ {0} : size <= HighestSize =>
              PoolIndex(size) \in Exponents /\ size <= Capacity[PoolIndex(size)]
         /\ \A i \in Exponents : PoolIndex(Capacity[i]) = i
<1> DEFINE Fits(i, size) == Capacity[i] >= size /\ (i = 0 \/ Capacity[i - 1] < size)
<1>0. /\ MaxExponent \in Nat /\ Exponents = 0 .. MaxExponent
      /\ \A i \in Exponents : Capacity[i] \in Nat \ {0}
      /\ \A i, j \in Exponents : i < j => Capacity[i] < Capacity[j]
  BY CapacityFacts DEF PoolConstants, Exponents
<1>1. ASSUME NEW size \in Nat \ {0}, size <= HighestSize
      PROVE  \E i \in Exponents : Fits(i, size)
  <2> DEFINE Enough == {i \in Exponents : Capacity[i] >= size}
  <2>1. Enough \in SUBSET Nat
    BY <1>0
  <2>2. MaxExponent \in Enough
    BY <1>0, <1>1 DEF HighestSize
  <2> HIDE DEF Enough
  <2>3. PICK i \in Enough : \A j \in Enough : i <= j
    BY <2>1, <2>2, LeastNatural
  <2>4. i \in Exponents /\ Capacity[i] >= size
    BY DEF Enough
  <2>5. i = 0 \/ (i - 1 \in Exponents /\ i - 1 \notin Enough)
    BY <1>0, <2>3, <2>4
  <2>6. i = 0 \/ Capacity[i - 1] < size
    BY <1>0, <2>5 DEF Enough
  <2> QED BY <2>4, <2>6
<1>2. \A size \in Nat \ {0} : size <= HighestSize => PoolIndex(size) \in Exponents /\ Fits(PoolIndex(size), size)
  BY <1>1 DEF PoolIndex
<1>3. \A size \in Nat \ {0} : size <= HighestSize => size <= Capacity[PoolIndex(size)]
  BY <1>0, <1>2
<1>4. ASSUME NEW i \in Exponents PROVE PoolIndex(Capacity[i]) = i
  <2> DEFINE k == PoolIndex(Capacity[i])
  <2>1. Capacity[i] \in Nat \ {0} /\ Capacity[i] <= HighestSize
    BY CapacityFacts
  <2>2. k \in Exponents /\ Fits(k, Capacity[i])
    BY <1>2, <2>1
  <2> HIDE DEF k
  <2>3. ~ (k < i)
    BY <1>0, <2>2
  <2>4. ~ (i < k)
    <3>1. SUFFICES ASSUME i < k PROVE FALSE
      OBVIOUS
    <3>2. k - 1 \in Exponents /\ (k - 1 = i \/ i < k - 1) /\ Capacity[k - 1] < Capacity[i]
      BY <1>0, <2>2, <3>1
    <3> QED BY <1>0, <2>1, <3>2
  <2> QED BY <1>0, <2>2, <2>3, <2>4 DEF k
<1> QED BY <1>2, <1>3, <1>4

\* A counter that wraps counts modulo where it wraps.
LEMMA Wraps ==
  ASSUME NEW d \in Nat \ {0}, NEW x \in Int, NEW n \in Int
  PROVE  /\ ((x % d) + n) % d = (x + n) % d
         /\ 0 <= x /\ x < d => x % d = x
<1> DEFINE q == x \div d
           y == x - q * d + n
           k == y \div d
<1>1. q \in Int /\ x % d = x - q * d
  BY Division
<1>2. q * d \in Int
  BY <1>1
<1>3. y \in Int
  BY <1>1, <1>2
<1>4. k \in Int /\ k * d <= y /\ y < k * d + d /\ y % d = y - k * d
  <2> HIDE DEF y
  <2> QED BY <1>3, Division
<1>5. (x % d) + n = y
  BY <1>1
<1>6. x + n \in Int /\ q + k \in Int /\ (q + k) * d = q * d + k * d /\ k * d \in Int
  BY <1>1, <1>4
<1>7. (q + k) * d <= x + n /\ x + n < (q + k) * d + d
  <2> HIDE DEF q, k
  <2> QED BY <1>1, <1>2, <1>4, <1>6
<1> DEFINE m == q + k
<1>8. m \in Int /\ m * d <= x + n /\ x + n < m * d + d
  BY <1>6, <1>7
<1> HIDE DEF m
<1>9. m = (x + n) \div d /\ (x + n) % d = (x + n) - ((x + n) \div d) * d
  BY <1>6, <1>8, Division
<1>10. (x + n) % d = x + n - m * d /\ m * d = q * d + k * d
  BY <1>6, <1>9 DEF m
<1>11. y % d = (x + n) % d
  <2>1. y % d = x - q * d + n - k * d
    BY <1>4
  <2> HIDE DEF q, k, y
  <2> QED BY <1>2, <1>6, <1>10, <2>1
<1>12. ASSUME 0 <= x, x < d PROVE x % d = x
  <2>1. 0 = x \div d
    <3>1. 0 * d <= x /\ x < 0 * d + d
      BY <1>12
    <3> QED BY <3>1, Division
  <2> QED BY <1>1, <2>1
<1> QED BY <1>5, <1>11, <1>12

-----------------------------------------------------------------------------
(* The memory pool: where the blocks are.                                  *)

\* The steps of a call, and its state.
Steps == {"idle", "count", "countMemory", "uncount", "giveBack"}
Jobs == [pc : Steps, block : Int, size : Int]

\* Blocks are numbered in the order of their allocation, each of a bucket's size or too large for them.
PoolTypeOK ==
  /\ \E n \in Nat : n <= MaxAllocs /\ DOMAIN len = 1 .. n
  /\ \A b \in DOMAIN len : \/ len[b] \in AllocSizes /\ len[b] > HighestSize
                           \/ \E i \in Exponents : len[b] = Capacity[i]
  /\ buckets \in [Exponents -> SUBSET DOMAIN len]
  /\ out \subseteq DOMAIN len
  /\ counters \in [{"usedBlocks", "usedMemory", "total"} -> Int]
  /\ job \in [PoolThreads -> Jobs]
  /\ \A t \in PoolThreads : ~ At(t, "idle") => job[t].block \in DOMAIN len /\ job[t].size = len[job[t].block]

\* The blocks of the calls at one step.
HeldAt(pc) == {job[t].block : t \in {u \in PoolThreads : At(u, pc)}}

\* No block is in two places: with callers, idle in a bucket, or in the middle of a call.
HeldOnce == \A t, u \in PoolThreads : ~ At(t, "idle") /\ ~ At(u, "idle") /\ job[t].block = job[u].block => t = u

\* Idle blocks are in one bucket, that of their size.
PlacesApart ==
  /\ out \cap IdleBlocks = {} /\ Held \cap (out \cup IdleBlocks) = {}
  /\ HeldOnce
  /\ \A i, j \in Exponents : i # j => buckets[i] \cap buckets[j] = {}
  /\ \A i \in Exponents : \A b \in buckets[i] : len[b] = Capacity[i]

\* What each counter counts while calls are under way.
Counted == out \cup HeldAt("countMemory")
Weighed == out \cup HeldAt("uncount")
Live == out \cup IdleBlocks \cup Held
CountersFollow ==
  ~ cleared => /\ counters["usedBlocks"] = Cardinality(Counted) % CounterLimit
               /\ counters["usedMemory"] = Total(len, Weighed) % CounterLimit
               /\ counters["total"] = Total(len, Live) % CounterLimit

\* The sums need PlacesApart: a block counted twice would be uncounted twice.
PoolInv == PoolTypeOK /\ PlacesApart /\ CountersFollow

\* A new pool has no blocks.
LEMMA PoolInitInv ==
  ASSUME PoolConstants, PoolInit
  PROVE  PoolInv
<1>1. DOMAIN len = 1 .. 0
  BY DEF PoolInit
<1>2. 0 \in Nat /\ 0 <= MaxAllocs /\ 1 .. 0 = {}
  BY DEF PoolConstants
<1>3. \A t \in PoolThreads : At(t, "idle")
  BY DEF PoolInit, NoJob, At
<1>4. job \in [PoolThreads -> Jobs]
  BY DEF PoolInit, NoJob, Jobs, Steps
<1>5. PoolTypeOK
  BY <1>1, <1>2, <1>3, <1>4 DEF PoolInit, PoolTypeOK
<1>6. Held = {} /\ IdleBlocks = {} /\ out = {} /\ HeldAt("countMemory") = {} /\ HeldAt("uncount") = {}
  BY <1>3 DEF PoolInit, Held, IdleBlocks, HeldAt, At
<1>7. PlacesApart
  BY <1>3, <1>6 DEF PoolInit, PlacesApart, HeldOnce
<1>8. CountersFollow
  <2>1. Counted = {} /\ Weighed = {} /\ Live = {}
    BY <1>6 DEF Counted, Weighed, Live
  <2>2. Cardinality({}) = 0 /\ Total(len, {}) = 0
    BY FS_EmptySet, TotalUnfolds
  <2>3. 0 % CounterLimit = 0
    BY Wraps DEF PoolConstants
  <2>4. counters["usedBlocks"] = 0 /\ counters["usedMemory"] = 0 /\ counters["total"] = 0
    BY DEF PoolInit
  <2> QED BY <2>1, <2>2, <2>3, <2>4 DEF CountersFollow
<1> QED BY <1>5, <1>7, <1>8 DEF PoolInv

\* The block a call takes from a step and the one it brings to it.
Leaves(t, pc) == IF At(t, pc) THEN {job[t].block} ELSE {}
Comes(j, pc) == IF j.pc = pc THEN {j.block} ELSE {}

\* A thread that moves on takes its block from one step to another.
LEMMA JobMoves ==
  ASSUME PoolTypeOK, HeldOnce, NEW t \in PoolThreads, NEW j \in Jobs, job' = [job EXCEPT ![t] = j]
  PROVE  /\ job' \in [PoolThreads -> Jobs]
         /\ \A u \in PoolThreads : job'[u] = IF u = t THEN j ELSE job[u]
         /\ HeldAt("countMemory")' = (HeldAt("countMemory") \ Leaves(t, "countMemory")) \cup Comes(j, "countMemory")
         /\ HeldAt("uncount")' = (HeldAt("uncount") \ Leaves(t, "uncount")) \cup Comes(j, "uncount")
         /\ Held' = (Held \ (IF At(t, "idle") THEN {} ELSE {job[t].block}))
                      \cup (IF j.pc = "idle" THEN {} ELSE {j.block})
<1>1. job \in [PoolThreads -> Jobs]
  BY DEF PoolTypeOK
<1>2. job' \in [PoolThreads -> Jobs] /\ \A u \in PoolThreads : job'[u] = IF u = t THEN j ELSE job[u]
  BY <1>1
<1>3. ASSUME NEW pc \in Steps \ {"idle"}
      PROVE  HeldAt(pc)' = (HeldAt(pc) \ (IF At(t, pc) THEN {job[t].block} ELSE {}))
                             \cup (IF j.pc = pc THEN {j.block} ELSE {})
  <2>1. \A x : x \in HeldAt(pc) <=> \E u \in PoolThreads : job[u].pc = pc /\ job[u].block = x
    BY DEF HeldAt, At
  <2>2. \A x : x \in HeldAt(pc)' <=> \E u \in PoolThreads : job'[u].pc = pc /\ job'[u].block = x
    BY DEF HeldAt, At
  <2>3. \A u \in PoolThreads : job[u].pc = pc /\ At(t, pc) /\ job[u].block = job[t].block => u = t
    BY <1>3 DEF HeldOnce, At
  <2>4. At(t, pc) <=> job[t].pc = pc
    BY DEF At
  <2> QED BY <1>2, <2>1, <2>2, <2>3, <2>4
<1>4. Held' = (Held \ (IF At(t, "idle") THEN {} ELSE {job[t].block}))
                \cup (IF j.pc = "idle" THEN {} ELSE {j.block})
  <2>1. \A x : x \in Held <=> \E u \in PoolThreads : job[u].pc # "idle" /\ job[u].block = x
    BY DEF Held, At
  <2>2. \A x : x \in Held' <=> \E u \in PoolThreads : job'[u].pc # "idle" /\ job'[u].block = x
    BY DEF Held, At
  <2>3. \A u \in PoolThreads : job[u].pc # "idle" /\ ~ At(t, "idle") /\ job[u].block = job[t].block => u = t
    BY DEF HeldOnce, At
  <2>4. At(t, "idle") <=> job[t].pc = "idle"
    BY DEF At
  <2> QED BY <1>2, <2>1, <2>2, <2>3, <2>4
<1> QED BY <1>2, <1>3, <1>4 DEF Steps, Leaves, Comes

\* The blocks are finitely many, and have lengths.
LEMMA LiveFacts ==
  ASSUME PoolConstants, PoolTypeOK
  PROVE  /\ IsFiniteSet(DOMAIN len)
         /\ \A b \in DOMAIN len : len[b] \in Nat \ {0} /\ (len[b] > HighestSize \/ \E i \in Exponents : len[b] = Capacity[i])
         /\ Held \subseteq DOMAIN len /\ IdleBlocks \subseteq DOMAIN len /\ out \subseteq DOMAIN len
         /\ \A pc \in Steps \ {"idle"} : HeldAt(pc) \subseteq Held
         /\ Counted \subseteq DOMAIN len /\ Weighed \subseteq DOMAIN len /\ Live \subseteq DOMAIN len
         /\ \A S \in SUBSET DOMAIN len : IsFiniteSet(S) /\ Cardinality(S) \in Nat /\ Total(len, S) \in Int
<1>1. IsFiniteSet(DOMAIN len)
  <2>1. PICK n \in Nat : DOMAIN len = 1 .. n
    BY DEF PoolTypeOK
  <2> QED BY <2>1, FS_Interval
<1>2. \A b \in DOMAIN len : len[b] \in Nat \ {0} /\ (len[b] > HighestSize \/ \E i \in Exponents : len[b] = Capacity[i])
  BY CapacityFacts DEF PoolTypeOK, PoolConstants
<1>3. Held \subseteq DOMAIN len /\ IdleBlocks \subseteq DOMAIN len /\ out \subseteq DOMAIN len
  BY DEF Held, IdleBlocks, PoolTypeOK
<1>4. \A pc \in Steps \ {"idle"} : HeldAt(pc) \subseteq Held
  BY DEF HeldAt, Held, At
<1>5. Counted \subseteq DOMAIN len /\ Weighed \subseteq DOMAIN len /\ Live \subseteq DOMAIN len
  BY <1>3, <1>4 DEF Counted, Weighed, Live, Steps
<1>6. ASSUME NEW S \in SUBSET DOMAIN len
      PROVE  IsFiniteSet(S) /\ Cardinality(S) \in Nat /\ Total(len, S) \in Int
  <2>1. IsFiniteSet(S) /\ \A b \in S : len[b] \in Int
    BY <1>1, <1>2, <1>6, FS_Subset
  <2> QED BY <2>1, FS_CardinalityType, TotalOf
<1> QED BY <1>1, <1>2, <1>3, <1>4, <1>5, <1>6

\* A call keeps its block, lets go of it, or takes one that no other call holds.
LEMMA HeldOnceKept ==
  ASSUME PoolTypeOK, HeldOnce, NEW t \in PoolThreads, NEW j \in Jobs, job' = [job EXCEPT ![t] = j],
         j.pc = "idle" \/ (~ At(t, "idle") /\ j.block = job[t].block) \/ j.block \notin Held
  PROVE  HeldOnce'
<1>1. \A u \in PoolThreads : job'[u] = IF u = t THEN j ELSE job[u]
  BY JobMoves
<1>2. \A u \in PoolThreads : job[u].pc # "idle" => job[u].block \in Held
  BY DEF Held, At
<1>3. \A u, v \in PoolThreads : job[u].pc # "idle" /\ job[v].pc # "idle" /\ job[u].block = job[v].block => u = v
  BY DEF HeldOnce, At
<1>4. ASSUME NEW u \in PoolThreads, NEW v \in PoolThreads, job'[u].pc # "idle", job'[v].pc # "idle",
             job'[u].block = job'[v].block
      PROVE  u = v
  <2>1. CASE u # t /\ v # t
    BY <1>1, <1>3, <1>4, <2>1
  <2>2. CASE u = t /\ v # t
    BY <1>1, <1>2, <1>3, <1>4, <2>2 DEF At
  <2>3. CASE u # t /\ v = t
    BY <1>1, <1>2, <1>3, <1>4, <2>3 DEF At
  <2> QED BY <2>1, <2>2, <2>3
<1> QED BY <1>4 DEF HeldOnce, At

\* Types, for the steps that allocate nothing.
LEMMA PoolTypeKept ==
  ASSUME PoolTypeOK, NEW t \in PoolThreads, NEW j \in Jobs, job' = [job EXCEPT ![t] = j],
         len' = len, buckets' \in [Exponents -> SUBSET DOMAIN len], out' \subseteq DOMAIN len,
         counters' \in [{"usedBlocks", "usedMemory", "total"} -> Int],
         j.pc # "idle" => j.block \in DOMAIN len /\ j.size = len[j.block]
  PROVE  PoolTypeOK'
<1>1. job \in [PoolThreads -> Jobs]
  BY DEF PoolTypeOK
<1>2. job' \in [PoolThreads -> Jobs] /\ \A u \in PoolThreads : job'[u] = IF u = t THEN j ELSE job[u]
  BY <1>1
<1>3. \A u \in PoolThreads : job'[u].pc # "idle" => job'[u].block \in DOMAIN len /\ job'[u].size = len[job'[u].block]
  BY <1>2 DEF PoolTypeOK, At
<1> QED BY <1>2, <1>3 DEF PoolTypeOK, At

\* Counting goes to one counter, and is right modulo where it wraps.
LEMMA AddingFacts ==
  ASSUME PoolConstants, PoolTypeOK, NEW c \in {"usedBlocks", "usedMemory", "total"}, NEW n \in Int,
         counters' = Adding(c, n)
  PROVE  /\ counters' \in [{"usedBlocks", "usedMemory", "total"} -> Int]
         /\ \A d \in {"usedBlocks", "usedMemory", "total"} : d # c => counters'[d] = counters[d]
         /\ \A x \in Int : counters[c] = x % CounterLimit => counters'[c] = (x + n) % CounterLimit
<1>1. counters \in [{"usedBlocks", "usedMemory", "total"} -> Int] /\ CounterLimit \in Nat \ {0}
  BY DEF PoolTypeOK, PoolConstants
<1> DEFINE v == (counters[c] + n) % CounterLimit
<1>2. v \in Int /\ counters' = [counters EXCEPT ![c] = v]
  BY <1>1 DEF Adding
<1>3. ASSUME NEW x \in Int, counters[c] = x % CounterLimit PROVE v = (x + n) % CounterLimit
  <2>1. ((x % CounterLimit) + n) % CounterLimit = (x + n) % CounterLimit
    BY <1>1, Wraps
  <2> QED BY <1>3, <2>1
<1> HIDE DEF v
<1> QED BY <1>1, <1>2, <1>3

\* allocate takes an idle block.
LEMMA PopBlockInv ==
  ASSUME PoolConstants, PoolInv, NEW t \in PoolThreads, NEW size \in AllocSizes, PopBlock(t, size)
  PROVE  PoolInv'
<1> DEFINE i == PoolIndex(size)
<1>0. PoolTypeOK /\ PlacesApart /\ HeldOnce /\ CountersFollow
  BY DEF PoolInv, PlacesApart
<1>1. PICK b \in buckets[i] :
        /\ buckets' = [buckets EXCEPT ![i] = buckets[i] \ {b}]
        /\ Goto(t, "count", b, len[b])
        /\ size <= HighestSize /\ At(t, "idle")
        /\ len' = len /\ out' = out /\ counters' = counters /\ cleared' = cleared
  BY DEF PopBlock
<1>2. i \in Exponents
  BY <1>1, PoolIndexFacts DEF PoolConstants
<1> HIDE DEF i
<1>3. b \in DOMAIN len /\ b \in IdleBlocks /\ len[b] \in Int /\ b \in Int
  <2>1. b \in DOMAIN len /\ b \in IdleBlocks
    BY <1>0, <1>2 DEF PoolTypeOK, IdleBlocks
  <2> QED BY <1>0, <2>1, LiveFacts DEF PoolTypeOK
<1> DEFINE j == [pc |-> "count", block |-> b, size |-> len[b]]
<1>4. j \in Jobs /\ j.pc = "count" /\ j.block = b /\ j.size = len[b] /\ job' = [job EXCEPT ![t] = j]
  BY <1>1, <1>3 DEF Jobs, Steps, Goto
<1> HIDE DEF j
<1>5. buckets' \in [Exponents -> SUBSET DOMAIN len]
      /\ \A k \in Exponents : buckets'[k] = IF k = i THEN buckets[k] \ {b} ELSE buckets[k]
  BY <1>0, <1>1, <1>2 DEF PoolTypeOK
<1>6. PoolTypeOK'
  <2>1. out' \subseteq DOMAIN len /\ counters' \in [{"usedBlocks", "usedMemory", "total"} -> Int]
    BY <1>0, <1>1 DEF PoolTypeOK
  <2> QED BY <1>0, <1>1, <1>3, <1>4, <1>5, <2>1, PoolTypeKept
<1>7. IdleBlocks' = IdleBlocks \ {b}
  BY <1>0, <1>2, <1>5 DEF IdleBlocks, PlacesApart
<1>8. /\ Held' = Held \cup {b} /\ b \notin Held /\ b \notin out
      /\ HeldAt("countMemory")' = HeldAt("countMemory") /\ HeldAt("uncount")' = HeldAt("uncount")
  <2>1. b \notin Held /\ b \notin out
    BY <1>0, <1>3 DEF PlacesApart
  <2>2. ~ At(t, "countMemory") /\ ~ At(t, "uncount")
    BY <1>1 DEF At
  <2>3. /\ Held' = (Held \ (IF At(t, "idle") THEN {} ELSE {job[t].block})) \cup (IF j.pc = "idle" THEN {} ELSE {j.block})
        /\ HeldAt("countMemory")' = (HeldAt("countMemory") \ Leaves(t, "countMemory")) \cup Comes(j, "countMemory")
        /\ HeldAt("uncount")' = (HeldAt("uncount") \ Leaves(t, "uncount")) \cup Comes(j, "uncount")
    BY <1>0, <1>4, JobMoves
  <2> QED BY <1>1, <1>4, <2>1, <2>2, <2>3 DEF Leaves, Comes
<1>9. PlacesApart'
  <2>1. HeldOnce'
    BY <1>0, <1>4, <1>8, HeldOnceKept
  <2> QED BY <1>0, <1>1, <1>5, <1>7, <1>8, <2>1 DEF PlacesApart
<1>10. CountersFollow'
  <2>1. Counted' = Counted /\ Weighed' = Weighed /\ Live' = Live
    BY <1>1, <1>3, <1>7, <1>8 DEF Counted, Weighed, Live
  <2> QED BY <1>0, <1>1, <2>1 DEF CountersFollow
<1> QED BY <1>6, <1>9, <1>10 DEF PoolInv

\* allocate makes a block: it was not there, and the total counts it.
LEMMA FreshBlockInv ==
  ASSUME PoolConstants, PoolInv, NEW t \in PoolThreads, NEW size \in AllocSizes, FreshBlock(t, size)
  PROVE  PoolInv'
<1> DEFINE bytes == IF size > HighestSize THEN size ELSE Capacity[PoolIndex(size)]
           b == Cardinality(DOMAIN len) + 1
<1>0. PoolTypeOK /\ PlacesApart /\ HeldOnce /\ CountersFollow
  BY DEF PoolInv, PlacesApart
<1>1. /\ At(t, "idle") /\ b <= MaxAllocs
      /\ len' = [c \in DOMAIN len \cup {b} |-> IF c = b THEN bytes ELSE len[c]]
      /\ counters' = Adding("total", bytes)
      /\ Goto(t, "count", b, bytes)
      /\ buckets' = buckets /\ out' = out /\ cleared' = cleared
  BY DEF FreshBlock
<1>2. PICK n \in Nat : n <= MaxAllocs /\ DOMAIN len = 1 .. n
  BY <1>0 DEF PoolTypeOK
<1>3. b = n + 1 /\ b \notin DOMAIN len /\ DOMAIN len \cup {b} = 1 .. n + 1 /\ n + 1 \in Nat
  <2>1. Cardinality(1 .. n) = n
    BY FS_Interval
  <2> QED BY <1>2, <2>1
<1>4. /\ \/ bytes \in AllocSizes /\ bytes > HighestSize
         \/ \E i \in Exponents : bytes = Capacity[i]
      /\ bytes \in Nat \ {0}
  <2>1. size \in Nat \ {0}
    BY DEF PoolConstants
  <2>2. HighestSize \in Nat
    BY CapacityFacts DEF HighestSize
  <2>3. CASE size > HighestSize
    BY <2>1, <2>3
  <2>4. CASE ~ (size > HighestSize)
    BY <2>1, <2>2, <2>4, PoolIndexFacts, CapacityFacts
  <2> QED BY <2>3, <2>4
<1> HIDE DEF bytes, b
<1> DEFINE j == [pc |-> "count", block |-> b, size |-> bytes]
<1>5. j \in Jobs /\ j.pc = "count" /\ j.block = b /\ j.size = bytes /\ job' = [job EXCEPT ![t] = j]
  BY <1>1, <1>2, <1>3, <1>4 DEF Jobs, Steps, Goto
<1> HIDE DEF j
<1>6. DOMAIN len' = DOMAIN len \cup {b} /\ len'[b] = bytes /\ \A c \in DOMAIN len : len'[c] = len[c]
  BY <1>1, <1>3
<1>7. /\ counters' \in [{"usedBlocks", "usedMemory", "total"} -> Int]
      /\ \A d \in {"usedBlocks", "usedMemory", "total"} : d # "total" => counters'[d] = counters[d]
      /\ \A x \in Int : counters["total"] = x % CounterLimit => counters'["total"] = (x + bytes) % CounterLimit
  BY <1>0, <1>1, <1>4, AddingFacts
<1>8. job' \in [PoolThreads -> Jobs] /\ \A u \in PoolThreads : job'[u] = IF u = t THEN j ELSE job[u]
  BY <1>0, <1>5, JobMoves
<1>9. PoolTypeOK'
  <2>1. n + 1 <= MaxAllocs /\ DOMAIN len' = 1 .. n + 1
    BY <1>1, <1>3, <1>6
  <2>2. \A c \in DOMAIN len' : \/ len'[c] \in AllocSizes /\ len'[c] > HighestSize
                               \/ \E i \in Exponents : len'[c] = Capacity[i]
    BY <1>0, <1>4, <1>6 DEF PoolTypeOK
  <2>3. buckets' \in [Exponents -> SUBSET DOMAIN len'] /\ out' \subseteq DOMAIN len'
    BY <1>0, <1>1, <1>6 DEF PoolTypeOK
  <2>4. \A u \in PoolThreads : job'[u].pc # "idle" => job'[u].block \in DOMAIN len' /\ job'[u].size = len'[job'[u].block]
    <3>1. \A u \in PoolThreads : job[u].pc # "idle" => job[u].block \in DOMAIN len /\ job[u].size = len[job[u].block]
      BY <1>0 DEF PoolTypeOK, At
    <3> QED BY <1>5, <1>6, <1>8, <3>1
  <2> QED BY <1>3, <1>7, <1>8, <2>1, <2>2, <2>3, <2>4 DEF PoolTypeOK, At
<1>10. IdleBlocks' = IdleBlocks /\ b \notin IdleBlocks /\ b \notin out /\ b \notin Held /\ b \notin Live
  BY <1>0, <1>1, <1>3, LiveFacts DEF IdleBlocks, Live
<1>11. /\ Held' = Held \cup {b}
       /\ HeldAt("countMemory")' = HeldAt("countMemory") /\ HeldAt("uncount")' = HeldAt("uncount")
  <2>1. ~ At(t, "countMemory") /\ ~ At(t, "uncount")
    BY <1>1 DEF At
  <2>2. /\ Held' = (Held \ (IF At(t, "idle") THEN {} ELSE {job[t].block})) \cup (IF j.pc = "idle" THEN {} ELSE {j.block})
        /\ HeldAt("countMemory")' = (HeldAt("countMemory") \ Leaves(t, "countMemory")) \cup Comes(j, "countMemory")
        /\ HeldAt("uncount")' = (HeldAt("uncount") \ Leaves(t, "uncount")) \cup Comes(j, "uncount")
    BY <1>0, <1>5, JobMoves
  <2> QED BY <1>1, <1>5, <2>1, <2>2 DEF Leaves, Comes
<1>12. PlacesApart'
  <2>1. HeldOnce'
    BY <1>0, <1>5, <1>10, HeldOnceKept
  <2>2. \A i \in Exponents : \A c \in buckets'[i] : len'[c] = Capacity[i]
    BY <1>0, <1>1, <1>6 DEF PlacesApart, PoolTypeOK
  <2> QED BY <1>0, <1>1, <1>10, <1>11, <2>1, <2>2 DEF PlacesApart
<1>13. CountersFollow'
  <2>1. Counted' = Counted /\ Weighed' = Weighed /\ Live' = Live \cup {b}
    BY <1>1, <1>10, <1>11 DEF Counted, Weighed, Live
  <2>2. /\ Weighed \subseteq DOMAIN len /\ Live \subseteq DOMAIN len
        /\ IsFiniteSet(Weighed) /\ IsFiniteSet(Live) /\ Total(len, Live) \in Int
        /\ \A c \in DOMAIN len : len[c] \in Int
    BY <1>0, LiveFacts
  <2>3. ASSUME NEW S \in {Weighed, Live} PROVE Total(len', S) = Total(len, S)
    <3>1. IsFiniteSet(S) /\ \A c \in S : len[c] \in Int /\ len'[c] = len[c]
      BY <1>6, <2>2
    <3> QED BY <3>1, TotalSame
  <2>4. Total(len', Live \cup {b}) = Total(len, Live) + bytes
    <3>1. IsFiniteSet(Live) /\ b \notin Live /\ len'[b] \in Int /\ \A c \in Live : len'[c] \in Int
      BY <1>4, <1>6, <1>10, <2>2
    <3>2. Total(len', Live \cup {b}) = Total(len', Live) + len'[b]
      BY <3>1, TotalWith
    <3> QED BY <1>6, <2>3, <3>2
  <2>5. Total(len', Weighed') = Total(len, Weighed) /\ Total(len', Live') = Total(len, Live) + bytes
    BY <2>1, <2>3, <2>4
  <2> QED BY <1>0, <1>1, <1>7, <2>1, <2>2, <2>5 DEF CountersFollow
<1> QED BY <1>9, <1>12, <1>13 DEF PoolInv

\* The block of a call under way is nowhere else.
LEMMA BusyFacts ==
  ASSUME PoolConstants, PoolInv, NEW t \in PoolThreads, ~ At(t, "idle")
  PROVE  /\ PoolTypeOK /\ PlacesApart /\ HeldOnce /\ CountersFollow
         /\ job[t].block \in Held /\ job[t].block \notin out /\ job[t].block \notin IdleBlocks
         /\ job[t].block \in DOMAIN len /\ job[t].size = len[job[t].block] /\ job[t].block \in Int
         /\ len[job[t].block] \in Nat \ {0}
         /\ job[t].block \in HeldAt("countMemory") <=> At(t, "countMemory")
         /\ job[t].block \in HeldAt("uncount") <=> At(t, "uncount")
<1>1. PoolTypeOK /\ PlacesApart /\ HeldOnce /\ CountersFollow
  BY DEF PoolInv, PlacesApart
<1>2. job[t].block \in Held
  BY DEF Held
<1>3. job[t].block \notin out /\ job[t].block \notin IdleBlocks
  BY <1>1, <1>2 DEF PlacesApart
<1>4. job[t].block \in DOMAIN len /\ job[t].size = len[job[t].block] /\ job[t].block \in Int
  BY <1>1 DEF PoolTypeOK
<1>5. len[job[t].block] \in Nat \ {0}
  BY <1>1, <1>4, LiveFacts
<1>6. ASSUME NEW pc \in Steps \ {"idle"} PROVE job[t].block \in HeldAt(pc) <=> At(t, pc)
  <2>1. \A u \in PoolThreads : At(u, pc) => ~ At(u, "idle")
    BY <1>6 DEF At
  <2> QED BY <1>1, <2>1 DEF HeldAt, HeldOnce
<1> QED BY <1>1, <1>2, <1>3, <1>4, <1>5, <1>6 DEF Steps

\* The counters of allocate: the block is counted, and then its bytes, as the caller gets it.
LEMMA CountUsedBlockInv ==
  ASSUME PoolConstants, PoolInv, NEW t \in PoolThreads, CountUsedBlock(t)
  PROVE  PoolInv'
<1> DEFINE b == job[t].block
           j == [pc |-> "countMemory", block |-> b, size |-> job[t].size]
<1>1. /\ job[t].pc = "count" /\ ~ At(t, "idle") /\ ~ At(t, "countMemory") /\ ~ At(t, "uncount")
      /\ counters' = Adding("usedBlocks", 1) /\ job' = [job EXCEPT ![t] = j]
      /\ buckets' = buckets /\ len' = len /\ out' = out /\ cleared' = cleared
  BY DEF CountUsedBlock, At, Goto
<1>2. /\ PoolTypeOK /\ PlacesApart /\ HeldOnce /\ CountersFollow
      /\ b \in Held /\ b \notin out /\ b \notin IdleBlocks /\ b \in DOMAIN len /\ job[t].size = len[b] /\ b \in Int
      /\ len[b] \in Nat \ {0} /\ b \notin HeldAt("countMemory")
  BY <1>1, BusyFacts
<1>3. j \in Jobs /\ j.pc = "countMemory" /\ j.block = b /\ j.size = len[b]
  BY <1>2 DEF Jobs, Steps
<1> HIDE DEF j
<1>4. /\ Held' = (Held \ (IF At(t, "idle") THEN {} ELSE {job[t].block})) \cup (IF j.pc = "idle" THEN {} ELSE {j.block})
      /\ HeldAt("countMemory")' = (HeldAt("countMemory") \ Leaves(t, "countMemory")) \cup Comes(j, "countMemory")
      /\ HeldAt("uncount")' = (HeldAt("uncount") \ Leaves(t, "uncount")) \cup Comes(j, "uncount")
  BY <1>1, <1>2, <1>3, JobMoves
<1>5. HeldOnce'
  BY <1>1, <1>2, <1>3, HeldOnceKept
<1> HIDE DEF b
<1>6. Held' = Held /\ HeldAt("countMemory")' = HeldAt("countMemory") \cup {b} /\ HeldAt("uncount")' = HeldAt("uncount")
      /\ IdleBlocks' = IdleBlocks
  <2>1. IdleBlocks' = IdleBlocks
    BY <1>1 DEF IdleBlocks
  <2>2. Held' = Held
    BY <1>1, <1>2, <1>3, <1>4 DEF b
  <2>3. HeldAt("countMemory")' = HeldAt("countMemory") \cup {b}
    BY <1>1, <1>3, <1>4 DEF Leaves, Comes, b
  <2>4. HeldAt("uncount")' = HeldAt("uncount")
    BY <1>1, <1>3, <1>4 DEF Leaves, Comes, b
  <2> QED BY <2>1, <2>2, <2>3, <2>4
<1>7. /\ counters' \in [{"usedBlocks", "usedMemory", "total"} -> Int]
      /\ \A d \in {"usedBlocks", "usedMemory", "total"} : d # "usedBlocks" => counters'[d] = counters[d]
      /\ \A x \in Int : counters["usedBlocks"] = x % CounterLimit => counters'["usedBlocks"] = (x + 1) % CounterLimit
  BY <1>1, <1>2, AddingFacts
<1>8. PoolTypeOK'
  <2>1. buckets' \in [Exponents -> SUBSET DOMAIN len] /\ out' \subseteq DOMAIN len
    BY <1>1, <1>2 DEF PoolTypeOK
  <2> QED BY <1>1, <1>2, <1>3, <1>7, <2>1, PoolTypeKept
<1>9. PlacesApart'
  BY <1>1, <1>2, <1>5, <1>6 DEF PlacesApart
<1>10. CountersFollow'
  <2>1. Counted' = Counted \cup {b} /\ b \notin Counted /\ Weighed' = Weighed /\ Live' = Live
    BY <1>1, <1>2, <1>6 DEF Counted, Weighed, Live
  <2>2. Counted \subseteq DOMAIN len /\ IsFiniteSet(Counted) /\ Cardinality(Counted) \in Nat
    BY <1>2, LiveFacts
  <2>3. Cardinality(Counted') = Cardinality(Counted) + 1
    BY <2>1, <2>2, FS_AddElement
  <2> QED BY <1>1, <1>2, <1>7, <2>1, <2>2, <2>3 DEF CountersFollow
<1> QED BY <1>8, <1>9, <1>10 DEF PoolInv

\* allocate returns: the block's memory is counted as it goes to the caller.
LEMMA HandOutInv ==
  ASSUME PoolConstants, PoolInv, NEW t \in PoolThreads, HandOut(t)
  PROVE  PoolInv'
<1> DEFINE b == job[t].block
<1>1. /\ job[t].pc = "countMemory" /\ ~ At(t, "idle") /\ At(t, "countMemory") /\ ~ At(t, "uncount")
      /\ counters' = Adding("usedMemory", job[t].size) /\ job' = [job EXCEPT ![t] = NoJob]
      /\ buckets' = buckets /\ len' = len /\ out' = out \cup {b} /\ cleared' = cleared
  BY DEF HandOut, At
<1>2. /\ PoolTypeOK /\ PlacesApart /\ HeldOnce /\ CountersFollow
      /\ b \in Held /\ b \notin out /\ b \notin IdleBlocks /\ b \in DOMAIN len /\ job[t].size = len[b] /\ b \in Int
      /\ len[b] \in Nat \ {0} /\ b \in HeldAt("countMemory") /\ b \notin HeldAt("uncount")
  BY <1>1, BusyFacts
<1>3. NoJob \in Jobs /\ NoJob.pc = "idle"
  BY DEF Jobs, Steps, NoJob
<1>4. /\ Held' = (Held \ (IF At(t, "idle") THEN {} ELSE {job[t].block})) \cup (IF NoJob.pc = "idle" THEN {} ELSE {NoJob.block})
      /\ HeldAt("countMemory")' = (HeldAt("countMemory") \ Leaves(t, "countMemory")) \cup Comes(NoJob, "countMemory")
      /\ HeldAt("uncount")' = (HeldAt("uncount") \ Leaves(t, "uncount")) \cup Comes(NoJob, "uncount")
  BY <1>1, <1>2, <1>3, JobMoves
<1>5. HeldOnce'
  BY <1>1, <1>2, <1>3, HeldOnceKept
<1> HIDE DEF b
<1>6. Held' = Held \ {b} /\ HeldAt("countMemory")' = HeldAt("countMemory") \ {b} /\ HeldAt("uncount")' = HeldAt("uncount")
      /\ IdleBlocks' = IdleBlocks
  BY <1>1, <1>3, <1>4 DEF Leaves, Comes, IdleBlocks, b
<1>7. /\ counters' \in [{"usedBlocks", "usedMemory", "total"} -> Int]
      /\ \A d \in {"usedBlocks", "usedMemory", "total"} : d # "usedMemory" => counters'[d] = counters[d]
      /\ \A x \in Int : counters["usedMemory"] = x % CounterLimit => counters'["usedMemory"] = (x + len[b]) % CounterLimit
  BY <1>1, <1>2, AddingFacts
<1>8. PoolTypeOK'
  <2>1. buckets' \in [Exponents -> SUBSET DOMAIN len] /\ out' \subseteq DOMAIN len
    BY <1>1, <1>2 DEF PoolTypeOK
  <2> QED BY <1>1, <1>2, <1>3, <1>7, <2>1, PoolTypeKept
<1>9. PlacesApart'
  BY <1>1, <1>2, <1>5, <1>6 DEF PlacesApart
<1>10. CountersFollow'
  <2>1. Counted' = Counted /\ Weighed' = Weighed \cup {b} /\ b \notin Weighed /\ Live' = Live
    BY <1>1, <1>2, <1>6 DEF Counted, Weighed, Live
  <2>2. /\ Weighed \subseteq DOMAIN len /\ IsFiniteSet(Weighed) /\ Total(len, Weighed) \in Int
        /\ \A c \in Weighed : len[c] \in Int
    BY <1>2, LiveFacts
  <2>3. Total(len, Weighed \cup {b}) = Total(len, Weighed) + len[b]
    BY <1>2, <2>1, <2>2, TotalWith
  <2>4. Total(len, Weighed') = Total(len, Weighed) + len[b]
    BY <2>1, <2>3
  <2> QED BY <1>1, <1>2, <1>7, <2>1, <2>2, <2>4 DEF CountersFollow
<1> QED BY <1>8, <1>9, <1>10 DEF PoolInv

\* recycle: the block leaves its caller, and then its bytes are not in use any more.
LEMMA RecycleInv ==
  ASSUME PoolConstants, PoolInv, NEW t \in PoolThreads, NEW b \in out, Recycle(t, b)
  PROVE  PoolInv'
<1> DEFINE j == [pc |-> "uncount", block |-> b, size |-> len[b]]
<1>1. /\ At(t, "idle") /\ ~ At(t, "countMemory") /\ ~ At(t, "uncount")
      /\ counters' = Adding("usedBlocks", -1) /\ job' = [job EXCEPT ![t] = j]
      /\ buckets' = buckets /\ len' = len /\ out' = out \ {b} /\ cleared' = cleared
  BY DEF Recycle, At, Goto
<1>2. PoolTypeOK /\ PlacesApart /\ HeldOnce /\ CountersFollow
  BY DEF PoolInv, PlacesApart
<1>3. b \in DOMAIN len /\ b \notin Held /\ b \notin IdleBlocks /\ len[b] \in Nat \ {0} /\ b \in Int
      /\ b \notin HeldAt("countMemory")
  <2>1. b \in DOMAIN len /\ b \notin Held /\ b \notin IdleBlocks
    BY <1>2 DEF PoolTypeOK, PlacesApart
  <2>2. len[b] \in Nat \ {0} /\ HeldAt("countMemory") \subseteq Held
    BY <1>2, <2>1, LiveFacts DEF Steps
  <2> QED BY <1>2, <2>1, <2>2 DEF PoolTypeOK
<1>4. j \in Jobs /\ j.pc = "uncount" /\ j.block = b /\ j.size = len[b]
  BY <1>3 DEF Jobs, Steps
<1> HIDE DEF j
<1>5. /\ Held' = (Held \ (IF At(t, "idle") THEN {} ELSE {job[t].block})) \cup (IF j.pc = "idle" THEN {} ELSE {j.block})
      /\ HeldAt("countMemory")' = (HeldAt("countMemory") \ Leaves(t, "countMemory")) \cup Comes(j, "countMemory")
      /\ HeldAt("uncount")' = (HeldAt("uncount") \ Leaves(t, "uncount")) \cup Comes(j, "uncount")
  BY <1>1, <1>2, <1>4, JobMoves
<1>6. HeldOnce'
  BY <1>1, <1>2, <1>3, <1>4, HeldOnceKept
<1>7. Held' = Held \cup {b} /\ HeldAt("countMemory")' = HeldAt("countMemory")
      /\ HeldAt("uncount")' = HeldAt("uncount") \cup {b} /\ IdleBlocks' = IdleBlocks
  BY <1>1, <1>4, <1>5 DEF Leaves, Comes, IdleBlocks
<1>8. /\ counters' \in [{"usedBlocks", "usedMemory", "total"} -> Int]
      /\ \A d \in {"usedBlocks", "usedMemory", "total"} : d # "usedBlocks" => counters'[d] = counters[d]
      /\ \A x \in Int : counters["usedBlocks"] = x % CounterLimit => counters'["usedBlocks"] = (x + (-1)) % CounterLimit
  <2> DEFINE n == -1
  <2>1. n \in Int /\ counters' = Adding("usedBlocks", n)
    BY <1>1
  <2> HIDE DEF n
  <2>2. /\ counters' \in [{"usedBlocks", "usedMemory", "total"} -> Int]
        /\ \A d \in {"usedBlocks", "usedMemory", "total"} : d # "usedBlocks" => counters'[d] = counters[d]
        /\ \A x \in Int : counters["usedBlocks"] = x % CounterLimit => counters'["usedBlocks"] = (x + n) % CounterLimit
    BY <1>2, <2>1, AddingFacts
  <2> QED BY <2>2 DEF n
<1>9. PoolTypeOK'
  <2>1. buckets' \in [Exponents -> SUBSET DOMAIN len] /\ out' \subseteq DOMAIN len
    BY <1>1, <1>2 DEF PoolTypeOK
  <2> QED BY <1>1, <1>2, <1>3, <1>4, <1>8, <2>1, PoolTypeKept
<1>10. PlacesApart'
  BY <1>1, <1>2, <1>3, <1>6, <1>7 DEF PlacesApart
<1>11. CountersFollow'
  <2>1. b \in Counted /\ Counted' = Counted \ {b} /\ Weighed' = Weighed /\ Live' = Live
    BY <1>1, <1>3, <1>7 DEF Counted, Weighed, Live
  <2>2. Counted \subseteq DOMAIN len /\ IsFiniteSet(Counted) /\ Cardinality(Counted) \in Nat
    BY <1>2, LiveFacts
  <2>3. Cardinality(Counted') = Cardinality(Counted) - 1
    BY <2>1, <2>2, FS_RemoveElement
  <2>4. Cardinality(Counted') = Cardinality(Counted) + (-1)
    BY <2>2, <2>3
  <2> QED BY <1>1, <1>2, <1>8, <2>1, <2>2, <2>4 DEF CountersFollow
<1> QED BY <1>9, <1>10, <1>11 DEF PoolInv

\* recycle: a block that is still to be given back is weighed no more.
LEMMA UncountMemoryInv ==
  ASSUME PoolConstants, PoolInv, NEW t \in PoolThreads, UncountMemory(t)
  PROVE  PoolInv'
<1> DEFINE b == job[t].block
           n == - job[t].size
           j == [pc |-> "giveBack", block |-> b, size |-> job[t].size]
<1>1. /\ job[t].pc = "uncount" /\ ~ At(t, "idle") /\ ~ At(t, "countMemory") /\ At(t, "uncount")
      /\ counters' = Adding("usedMemory", n) /\ job' = [job EXCEPT ![t] = j]
      /\ buckets' = buckets /\ len' = len /\ out' = out /\ cleared' = cleared
  BY DEF UncountMemory, At, Goto
<1>2. /\ PoolTypeOK /\ PlacesApart /\ HeldOnce /\ CountersFollow
      /\ b \in Held /\ b \notin out /\ b \notin IdleBlocks /\ b \in DOMAIN len /\ job[t].size = len[b] /\ b \in Int
      /\ len[b] \in Nat \ {0} /\ b \in HeldAt("uncount") /\ b \notin HeldAt("countMemory")
  BY <1>1, BusyFacts
<1>3. j \in Jobs /\ j.pc = "giveBack" /\ j.block = b /\ j.size = len[b] /\ n = - len[b] /\ n \in Int
  BY <1>2 DEF Jobs, Steps
<1> HIDE DEF j, n
<1>4. /\ Held' = (Held \ (IF At(t, "idle") THEN {} ELSE {job[t].block})) \cup (IF j.pc = "idle" THEN {} ELSE {j.block})
      /\ HeldAt("countMemory")' = (HeldAt("countMemory") \ Leaves(t, "countMemory")) \cup Comes(j, "countMemory")
      /\ HeldAt("uncount")' = (HeldAt("uncount") \ Leaves(t, "uncount")) \cup Comes(j, "uncount")
  BY <1>1, <1>2, <1>3, JobMoves
<1>5. HeldOnce'
  BY <1>1, <1>2, <1>3, HeldOnceKept
<1> HIDE DEF b
<1>6. Held' = Held /\ HeldAt("countMemory")' = HeldAt("countMemory") /\ HeldAt("uncount")' = HeldAt("uncount") \ {b}
      /\ IdleBlocks' = IdleBlocks
  <2>1. IdleBlocks' = IdleBlocks
    BY <1>1 DEF IdleBlocks
  <2>2. Held' = Held
    BY <1>1, <1>2, <1>3, <1>4 DEF b
  <2>3. HeldAt("countMemory")' = HeldAt("countMemory")
    BY <1>1, <1>3, <1>4 DEF Leaves, Comes, b
  <2>4. HeldAt("uncount")' = HeldAt("uncount") \ {b}
    BY <1>1, <1>3, <1>4 DEF Leaves, Comes, b
  <2> QED BY <2>1, <2>2, <2>3, <2>4
<1>7. /\ counters' \in [{"usedBlocks", "usedMemory", "total"} -> Int]
      /\ \A d \in {"usedBlocks", "usedMemory", "total"} : d # "usedMemory" => counters'[d] = counters[d]
      /\ \A x \in Int : counters["usedMemory"] = x % CounterLimit => counters'["usedMemory"] = (x + n) % CounterLimit
  BY <1>1, <1>2, <1>3, AddingFacts
<1>8. PoolTypeOK'
  <2>1. buckets' \in [Exponents -> SUBSET DOMAIN len] /\ out' \subseteq DOMAIN len
    BY <1>1, <1>2 DEF PoolTypeOK
  <2> QED BY <1>1, <1>2, <1>3, <1>7, <2>1, PoolTypeKept
<1>9. PlacesApart'
  BY <1>1, <1>2, <1>5, <1>6 DEF PlacesApart
<1>10. CountersFollow'
  <2>1. Counted' = Counted /\ b \in Weighed /\ Weighed' = Weighed \ {b} /\ Live' = Live
    BY <1>1, <1>2, <1>6 DEF Counted, Weighed, Live
  <2>2. /\ Weighed \subseteq DOMAIN len /\ IsFiniteSet(Weighed) /\ Total(len, Weighed) \in Int
        /\ \A c \in Weighed : len[c] \in Int
    BY <1>2, LiveFacts
  <2>3. Total(len, Weighed \ {b}) \in Int /\ Total(len, Weighed) = Total(len, Weighed \ {b}) + len[b]
    BY <2>1, <2>2, TotalOf
  <2>4. Total(len, Weighed') = Total(len, Weighed) + n
    BY <1>2, <1>3, <2>1, <2>2, <2>3
  <2> QED BY <1>1, <1>2, <1>7, <2>1, <2>2, <2>4 DEF CountersFollow
<1> QED BY <1>8, <1>9, <1>10 DEF PoolInv

\* ... and the block goes to the bucket of its size, or it ends.
LEMMA GiveBackInv ==
  ASSUME PoolConstants, PoolInv, NEW t \in PoolThreads, GiveBack(t)
  PROVE  PoolInv'
<1> DEFINE b == job[t].block
           i == PoolIndex(job[t].size)
<1>1. /\ job[t].pc = "giveBack" /\ ~ At(t, "idle") /\ ~ At(t, "countMemory") /\ ~ At(t, "uncount")
      /\ job' = [job EXCEPT ![t] = NoJob]
      /\ \/ job[t].size > HighestSize /\ counters' = Adding("total", - job[t].size) /\ buckets' = buckets
         \/ /\ ~ (job[t].size > HighestSize) /\ counters' = counters
            /\ buckets' = [buckets EXCEPT ![i] = buckets[i] \cup {b}]
      /\ len' = len /\ out' = out /\ cleared' = cleared
  BY DEF GiveBack, At
<1>2. /\ PoolTypeOK /\ PlacesApart /\ HeldOnce /\ CountersFollow
      /\ b \in Held /\ b \notin out /\ b \notin IdleBlocks /\ b \in DOMAIN len /\ job[t].size = len[b] /\ b \in Int
      /\ len[b] \in Nat \ {0} /\ b \notin HeldAt("uncount") /\ b \notin HeldAt("countMemory")
  BY <1>1, BusyFacts
<1>3. NoJob \in Jobs /\ NoJob.pc = "idle"
  BY DEF Jobs, Steps, NoJob
<1>4. /\ Held' = (Held \ (IF At(t, "idle") THEN {} ELSE {job[t].block})) \cup (IF NoJob.pc = "idle" THEN {} ELSE {NoJob.block})
      /\ HeldAt("countMemory")' = (HeldAt("countMemory") \ Leaves(t, "countMemory")) \cup Comes(NoJob, "countMemory")
      /\ HeldAt("uncount")' = (HeldAt("uncount") \ Leaves(t, "uncount")) \cup Comes(NoJob, "uncount")
  BY <1>1, <1>2, <1>3, JobMoves
<1>5. HeldOnce'
  BY <1>1, <1>2, <1>3, HeldOnceKept
<1> HIDE DEF b, i
<1>6. Held' = Held \ {b} /\ HeldAt("countMemory")' = HeldAt("countMemory") /\ HeldAt("uncount")' = HeldAt("uncount")
  BY <1>1, <1>3, <1>4 DEF Leaves, Comes, b
<1>7. /\ b \in Live /\ Live \subseteq DOMAIN len /\ IsFiniteSet(Live) /\ Total(len, Live) \in Int
      /\ \A c \in Live : len[c] \in Int
  BY <1>2, LiveFacts DEF Live
<1>8. CASE job[t].size > HighestSize
  <2> DEFINE n == - job[t].size
  <2>1. counters' = Adding("total", n) /\ buckets' = buckets /\ n = - len[b] /\ n \in Int
    BY <1>1, <1>2, <1>8
  <2> HIDE DEF n
  <2>2. /\ counters' \in [{"usedBlocks", "usedMemory", "total"} -> Int]
        /\ \A d \in {"usedBlocks", "usedMemory", "total"} : d # "total" => counters'[d] = counters[d]
        /\ \A x \in Int : counters["total"] = x % CounterLimit => counters'["total"] = (x + n) % CounterLimit
    BY <1>2, <2>1, AddingFacts
  <2>3. IdleBlocks' = IdleBlocks
    BY <2>1 DEF IdleBlocks
  <2>4. PoolTypeOK'
    <3>1. buckets' \in [Exponents -> SUBSET DOMAIN len] /\ out' \subseteq DOMAIN len
      BY <1>1, <1>2, <2>1 DEF PoolTypeOK
    <3> QED BY <1>1, <1>2, <1>3, <2>2, <3>1, PoolTypeKept
  <2>5. PlacesApart'
    BY <1>1, <1>2, <1>5, <1>6, <2>1, <2>3 DEF PlacesApart
  <2>6. CountersFollow'
    <3>1. Counted' = Counted /\ Weighed' = Weighed /\ Live' = Live \ {b}
      BY <1>1, <1>2, <1>6, <2>3 DEF Counted, Weighed, Live
    <3>2. Total(len, Live \ {b}) \in Int /\ Total(len, Live) = Total(len, Live \ {b}) + len[b]
      BY <1>7, TotalOf
    <3>3. Total(len, Live') = Total(len, Live) + n
      BY <1>2, <1>7, <2>1, <3>1, <3>2
    <3> QED BY <1>1, <1>2, <1>7, <2>2, <3>1, <3>3 DEF CountersFollow
  <2> QED BY <2>4, <2>5, <2>6 DEF PoolInv
<1>9. CASE ~ (job[t].size > HighestSize)
  <2>1. counters' = counters /\ buckets' = [buckets EXCEPT ![i] = buckets[i] \cup {b}]
    BY <1>1, <1>9
  <2>2. i \in Exponents /\ len[b] = Capacity[i]
    <3>1. PICK k \in Exponents : len[b] = Capacity[k]
      BY <1>2, <1>9, LiveFacts
    <3>2. PoolIndex(Capacity[k]) = k
      BY <3>1, PoolIndexFacts
    <3> QED BY <1>2, <3>1, <3>2 DEF i
  <2>3. buckets' \in [Exponents -> SUBSET DOMAIN len]
        /\ \A k \in Exponents : buckets'[k] = IF k = i THEN buckets[k] \cup {b} ELSE buckets[k]
    BY <1>2, <2>1, <2>2 DEF PoolTypeOK
  <2>4. IdleBlocks' = IdleBlocks \cup {b}
    BY <1>2, <2>2, <2>3 DEF IdleBlocks
  <2>5. PoolTypeOK'
    <3>1. out' \subseteq DOMAIN len /\ counters' \in [{"usedBlocks", "usedMemory", "total"} -> Int]
      BY <1>1, <1>2, <2>1 DEF PoolTypeOK
    <3> QED BY <1>1, <1>2, <1>3, <2>3, <3>1, PoolTypeKept
  <2>6. PlacesApart'
    <3>1. \A k \in Exponents : b \notin buckets[k]
      BY <1>2 DEF IdleBlocks
    <3>2. \A k \in Exponents : \A c \in buckets'[k] : len'[c] = Capacity[k]
      BY <1>1, <1>2, <2>2, <2>3 DEF PlacesApart
    <3>3. \A k, l \in Exponents : k # l => buckets'[k] \cap buckets'[l] = {}
      BY <1>2, <2>3, <3>1 DEF PlacesApart
    <3>4. out' \cap IdleBlocks' = {} /\ Held' \cap (out' \cup IdleBlocks') = {}
      BY <1>1, <1>2, <1>6, <2>4 DEF PlacesApart
    <3> QED BY <1>5, <3>2, <3>3, <3>4 DEF PlacesApart
  <2>7. CountersFollow'
    <3>1. Counted' = Counted /\ Weighed' = Weighed /\ Live' = Live
      BY <1>1, <1>2, <1>6, <2>4 DEF Counted, Weighed, Live
    <3> QED BY <1>1, <1>2, <2>1, <3>1 DEF CountersFollow
  <2> QED BY <2>5, <2>6, <2>7 DEF PoolInv
<1> QED BY <1>8, <1>9

\* Idle blocks end, a bucket at a time.
LEMMA ClearUnusedInv ==
  ASSUME PoolConstants, PoolInv, NEW i \in Exponents, ClearUnused(i)
  PROVE  PoolInv'
<1> DEFINE n == - (Capacity[i] * Cardinality(buckets[i]))
           B == buckets[i]
<1>1. /\ counters' = Adding("total", n) /\ buckets' = [buckets EXCEPT ![i] = {}]
      /\ len' = len /\ out' = out /\ job' = job /\ cleared' = cleared
  BY DEF ClearUnused
<1>2. PoolTypeOK /\ PlacesApart /\ CountersFollow
  BY DEF PoolInv
<1>3. /\ B \subseteq DOMAIN len /\ B \subseteq IdleBlocks /\ IsFiniteSet(B) /\ Cardinality(B) \in Nat
      /\ \A c \in DOMAIN len : len[c] \in Int
      /\ \A c \in B : len[c] = Capacity[i]
      /\ Capacity[i] \in Int
  <2>1. B \subseteq DOMAIN len /\ B \subseteq IdleBlocks /\ \A c \in B : len[c] = Capacity[i]
    BY <1>2 DEF PoolTypeOK, PlacesApart, IdleBlocks
  <2>2. /\ IsFiniteSet(B) /\ Cardinality(B) \in Nat
        /\ \A c \in DOMAIN len : len[c] \in Int
    <3> HIDE DEF B
    <3> QED BY <1>2, <2>1, LiveFacts
  <2>3. Capacity[i] \in Int
    BY CapacityFacts
  <2> QED BY <2>1, <2>2, <2>3
<1>4. n = - (Capacity[i] * Cardinality(B)) /\ n \in Int
  BY <1>3
<1>5. buckets' \in [Exponents -> SUBSET DOMAIN len]
      /\ \A k \in Exponents : buckets'[k] = IF k = i THEN {} ELSE buckets[k]
  BY <1>1, <1>2 DEF PoolTypeOK
<1>6. IdleBlocks' = IdleBlocks \ B
  BY <1>2, <1>5 DEF IdleBlocks, PlacesApart
<1>7. Held' = Held /\ HeldAt("countMemory")' = HeldAt("countMemory") /\ HeldAt("uncount")' = HeldAt("uncount")
      /\ (HeldOnce => HeldOnce')
  BY <1>1 DEF Held, HeldAt, HeldOnce, At
<1>8. /\ counters' \in [{"usedBlocks", "usedMemory", "total"} -> Int]
      /\ \A d \in {"usedBlocks", "usedMemory", "total"} : d # "total" => counters'[d] = counters[d]
      /\ \A x \in Int : counters["total"] = x % CounterLimit => counters'["total"] = (x + n) % CounterLimit
  <2> HIDE DEF n
  <2> QED BY <1>1, <1>2, <1>4, AddingFacts
<1>9. PoolTypeOK'
  BY <1>1, <1>2, <1>5, <1>8 DEF PoolTypeOK, At
<1> HIDE DEF n, B
<1>10. PlacesApart'
  <2>1. \A k \in Exponents : \A c \in buckets'[k] : len'[c] = Capacity[k]
    BY <1>1, <1>2, <1>5 DEF PlacesApart
  <2>2. \A k, l \in Exponents : k # l => buckets'[k] \cap buckets'[l] = {}
    BY <1>2, <1>5 DEF PlacesApart
  <2> QED BY <1>1, <1>2, <1>6, <1>7, <2>1, <2>2 DEF PlacesApart
<1>11. CountersFollow'
  <2> DEFINE R == Live \ B
  <2>1. Counted' = Counted /\ Weighed' = Weighed /\ Live' = R
    BY <1>1, <1>2, <1>3, <1>6, <1>7 DEF Counted, Weighed, Live, PlacesApart
  <2>2. R \cup B = Live /\ R \cap B = {} /\ R \subseteq DOMAIN len /\ IsFiniteSet(R) /\ Total(len, R) \in Int
        /\ Total(len, Live) \in Int
    <3>1. R \cup B = Live /\ R \cap B = {}
      BY <1>3 DEF Live
    <3>2. R \subseteq DOMAIN len /\ Live \subseteq DOMAIN len
      BY <1>2, LiveFacts
    <3> HIDE DEF R
    <3> QED BY <1>2, <3>1, <3>2, LiveFacts
  <2> HIDE DEF R
  <2>3. Total(len, R \cup B) = Total(len, R) + Total(len, B)
        /\ Total(len, B) = Capacity[i] * Cardinality(B)
    <3>1. (\A c \in B : len[c] \in Int) /\ (\A c \in R : len[c] \in Int)
      BY <1>3, <2>2
    <3> QED BY <1>3, <2>2, <3>1, TotalFacts
  <2>4. Capacity[i] * Cardinality(B) \in Int
    BY <1>3
  <2> DEFINE p == Capacity[i] * Cardinality(B)
  <2>5. p \in Int /\ n = - p /\ Total(len, B) = p
    BY <1>4, <2>3, <2>4
  <2> HIDE DEF p
  <2>6. Total(len, Live) = Total(len, R) + p
    BY <2>2, <2>3, <2>5
  <2>7. Total(len, Live') = Total(len, Live) + n
    BY <2>1, <2>2, <2>5, <2>6
  <2> QED BY <1>1, <1>2, <1>8, <2>1, <2>2, <2>7 DEF CountersFollow
<1> QED BY <1>9, <1>10, <1>11 DEF PoolInv

\* clear, when nobody is in a call.
LEMMA ClearInv ==
  ASSUME PoolConstants, PoolInv, Clear
  PROVE  PoolInv'
<1>1. /\ \A t \in PoolThreads : At(t, "idle")
      /\ buckets' = [i \in Exponents |-> {}] /\ counters' = [c \in DOMAIN counters |-> 0]
      /\ cleared' = (cleared \/ out # {})
      /\ len' = len /\ out' = out /\ job' = job
  BY DEF Clear
<1>2. PoolTypeOK /\ PlacesApart
  BY DEF PoolInv
<1>3. PoolTypeOK'
  BY <1>1, <1>2 DEF PoolTypeOK, At
<1>4. Held' = {} /\ IdleBlocks' = {} /\ HeldAt("countMemory")' = {} /\ HeldAt("uncount")' = {}
  BY <1>1 DEF Held, IdleBlocks, HeldAt, At
<1>5. HeldOnce'
  BY <1>1 DEF HeldOnce, At
<1>6. PlacesApart'
  BY <1>1, <1>4, <1>5 DEF PlacesApart
<1>7. CountersFollow'
  <2>1. SUFFICES ASSUME ~ cleared' PROVE out' = {}
    <3>1. ASSUME out' = {} PROVE Counted' = {} /\ Weighed' = {} /\ Live' = {}
      BY <1>4, <3>1 DEF Counted, Weighed, Live
    <3>2. Cardinality({}) = 0 /\ Total(len, {}) = 0
      BY FS_EmptySet, TotalUnfolds
    <3>3. 0 % CounterLimit = 0
      BY Wraps DEF PoolConstants
    <3>4. counters'["usedBlocks"] = 0 /\ counters'["usedMemory"] = 0 /\ counters'["total"] = 0
      BY <1>1, <1>2 DEF PoolTypeOK
    <3> QED BY <1>1, <3>1, <3>2, <3>3, <3>4 DEF CountersFollow
  <2> QED BY <1>1, <2>1
<1> QED BY <1>3, <1>6, <1>7 DEF PoolInv

\* Every step of every call preserves the invariant.
LEMMA PoolStepInv ==
  ASSUME PoolConstants, PoolInv, [PoolNext]_poolVars
  PROVE  PoolInv'
<1>1. ASSUME NEW t \in PoolThreads, PoolStep(t) PROVE PoolInv'
  <2>1. ASSUME NEW size \in AllocSizes, PopBlock(t, size) \/ FreshBlock(t, size) PROVE PoolInv'
    BY <2>1, PopBlockInv, FreshBlockInv
  <2>2. ASSUME NEW b \in out, Recycle(t, b) PROVE PoolInv'
    BY <2>2, RecycleInv
  <2> QED BY <1>1, <2>1, <2>2, CountUsedBlockInv, HandOutInv, UncountMemoryInv, GiveBackInv DEF PoolStep
<1>2. ASSUME NEW i \in Exponents, ClearUnused(i) PROVE PoolInv'
  BY <1>2, ClearUnusedInv
<1>3. CASE UNCHANGED poolVars
  BY <1>3 DEF poolVars, PoolInv, PoolTypeOK, PlacesApart, HeldOnce, CountersFollow, Held, IdleBlocks, At, Counted, Weighed,
              Live, HeldAt
<1> QED BY <1>1, <1>2, <1>3, ClearInv DEF PoolNext

\* The invariant gives the property of the model.
LEMMA InOnePlace ==
  ASSUME PoolConstants, PoolInv
  PROVE  BlocksAreInOnePlace
<1> DEFINE Busy == {t \in PoolThreads : ~ At(t, "idle")}
           f == [t \in Busy |-> job[t].block]
<1>1. PlacesApart
  BY DEF PoolInv
<1>2. f \in Surjection(Busy, Held) /\ f \in Injection(Busy, Held)
  <2>1. f \in [Busy -> Held] /\ \A x \in Held : \E t \in Busy : f[t] = x
    BY DEF Held
  <2>2. \A t, u \in Busy : f[t] = f[u] => t = u
    BY <1>1 DEF PlacesApart, HeldOnce
  <2>3. DOMAIN f = Busy
    OBVIOUS
  <2> HIDE DEF f, Busy
  <2> QED BY <2>1, <2>2, <2>3 DEF Surjection, Injection, IsInjective
<1>3. IsFiniteSet(Busy)
  BY FS_Subset DEF PoolConstants
<1>4. Cardinality(Held) = Cardinality(Busy)
  <2> HIDE DEF f, Busy
  <2> QED BY <1>2, <1>3, FS_Surjection
<1> QED BY <1>1, <1>4 DEF BlocksAreInOnePlace, PlacesApart

\* Between calls, the sums of the invariant are those of the blocks out and idle.
LEMMA SettledCounters ==
  ASSUME PoolConstants, PoolInv, \A t \in PoolThreads : At(t, "idle"), ~ cleared
  PROVE  /\ counters["usedBlocks"] = Cardinality(out) % CounterLimit
         /\ counters["usedMemory"] = BytesOf(out) % CounterLimit
         /\ counters["total"] = (BytesOf(out) + BytesOf(IdleBlocks)) % CounterLimit
<1>1. PoolTypeOK /\ PlacesApart /\ CountersFollow
  BY DEF PoolInv
<1>2. Held = {} /\ HeldAt("countMemory") = {} /\ HeldAt("uncount") = {}
  BY DEF Held, HeldAt, At
<1>3. Counted = out /\ Weighed = out /\ Live = out \cup IdleBlocks
  BY <1>2 DEF Counted, Weighed, Live
<1>4. \A S : BytesOf(S) = Total(len, S)
  BY DEF BytesOf, Total
<1>5. Total(len, out \cup IdleBlocks) = Total(len, out) + Total(len, IdleBlocks)
  <2>1. /\ IsFiniteSet(out) /\ IsFiniteSet(IdleBlocks) /\ out \cap IdleBlocks = {}
        /\ (\A b \in out : len[b] \in Int) /\ (\A b \in IdleBlocks : len[b] \in Int)
    BY <1>1, LiveFacts DEF PlacesApart
  <2> HIDE DEF IdleBlocks
  <2> QED BY <2>1, TotalFacts
<1> QED BY <1>1, <1>3, <1>4, <1>5 DEF CountersFollow

\* No block of memory is at two places, with any number of callers, sizes and calls: concurrent
\* callers never get the same block, and an idle block is in the bucket of its size
\* (voxel_memory_pool.rs: allocate, recycle, clear_unused_blocks, clear).
THEOREM PoolBlocksApart ==
  ASSUME PoolConstants
  PROVE  PoolSpec => []BlocksAreInOnePlace
<1>1. PoolInit => PoolInv
  BY PoolInitInv
<1>2. PoolInv /\ [PoolNext]_poolVars => PoolInv'
  BY PoolStepInv
<1>3. PoolInv => BlocksAreInOnePlace
  BY InOnePlace
<1> QED BY <1>1, <1>2, <1>3, PTL DEF PoolSpec

\* Between calls the counters are exact, when they are wide enough for the blocks there can be.
THEOREM PoolIsExact ==
  ASSUME PoolConstants, NEW Largest \in Nat, \A size \in AllocSizes \cup {HighestSize} : size <= Largest,
         MaxAllocs * Largest < CounterLimit
  PROVE  PoolSpec => []PoolExact
<1>1. PoolInit => PoolInv
  BY PoolInitInv
<1>2. PoolInv /\ [PoolNext]_poolVars => PoolInv'
  BY PoolStepInv
<1>3. ASSUME PoolInv PROVE CountersSettle
  <2>0. PoolTypeOK /\ PlacesApart
    BY <1>3 DEF PoolInv
  <2>1. SUFFICES ASSUME \A t \in PoolThreads : At(t, "idle"), ~ cleared
                 PROVE  /\ counters["usedBlocks"] = Cardinality(out)
                        /\ counters["usedMemory"] = BytesOf(out)
                        /\ counters["total"] = BytesOf(out) + BytesOf(IdleBlocks)
    BY DEF CountersSettle
  <2>2. /\ counters["usedBlocks"] = Cardinality(out) % CounterLimit
        /\ counters["usedMemory"] = BytesOf(out) % CounterLimit
        /\ counters["total"] = (BytesOf(out) + BytesOf(IdleBlocks)) % CounterLimit
    BY <1>3, <2>1, SettledCounters
  <2>3. /\ IsFiniteSet(out) /\ IsFiniteSet(IdleBlocks) /\ IsFiniteSet(out \cup IdleBlocks) /\ out \cap IdleBlocks = {}
        /\ out \subseteq DOMAIN len /\ IdleBlocks \subseteq DOMAIN len
        /\ IsFiniteSet(DOMAIN len)
        /\ \A b \in DOMAIN len : len[b] \in Int
    <3>1. out \cup IdleBlocks \subseteq DOMAIN len
      BY <2>0, LiveFacts
    <3> HIDE DEF IdleBlocks
    <3> QED BY <2>0, <3>1, LiveFacts DEF PlacesApart
  <2>4. \A b \in DOMAIN len : 0 <= len[b] /\ len[b] <= Largest
    <3>1. \A i \in Exponents : Capacity[i] \in Nat /\ HighestSize \in Nat /\ Capacity[i] <= HighestSize
      BY CapacityFacts DEF HighestSize
    <3>2. \A size \in AllocSizes : size \in Nat /\ size <= Largest
      BY DEF PoolConstants
    <3>3. HighestSize <= Largest
      OBVIOUS
    <3>4. \A i \in Exponents : 0 <= Capacity[i] /\ Capacity[i] <= Largest
      BY <3>1, <3>3
    <3>5. \A b \in DOMAIN len : len[b] \in AllocSizes \/ \E i \in Exponents : len[b] = Capacity[i]
      BY <2>0 DEF PoolTypeOK
    <3>6. SUFFICES ASSUME NEW b \in DOMAIN len PROVE 0 <= len[b] /\ len[b] <= Largest
      OBVIOUS
    <3> QED BY <3>2, <3>4, <3>5
  <2>5. \A S \in SUBSET DOMAIN len : /\ BytesOf(S) = Total(len, S) /\ Cardinality(S) \in Nat
                                     /\ 0 <= Total(len, S) /\ Total(len, S) <= Largest * Cardinality(S)
                                     /\ Total(len, S) \in Int
    <3>1. SUFFICES ASSUME NEW S \in SUBSET DOMAIN len
                   PROVE  /\ BytesOf(S) = Total(len, S) /\ Cardinality(S) \in Nat
                          /\ 0 <= Total(len, S) /\ Total(len, S) <= Largest * Cardinality(S)
                          /\ Total(len, S) \in Int
      OBVIOUS
    <3>2. /\ IsFiniteSet(S) /\ Cardinality(S) \in Nat /\ Total(len, S) \in Int
          /\ \A b \in S : len[b] \in Int /\ 0 <= len[b] /\ len[b] <= Largest
      BY <2>0, <2>3, <2>4, LiveFacts
    <3>3. IsFiniteSet({}) /\ {} \cap S = {} /\ Largest \in Int
      BY FS_EmptySet
    <3>4. 0 <= Total(len, S) /\ Total(len, S) <= Largest * Cardinality(S)
      BY <3>2, <3>3, TotalFacts
    <3> QED BY <3>2, <3>4 DEF BytesOf, Total
  <2>6. \A S \in SUBSET DOMAIN len : Cardinality(S) <= MaxAllocs /\ Cardinality(S) \in Nat
    <3>1. PICK n \in Nat : n <= MaxAllocs /\ DOMAIN len = 1 .. n
      BY <2>0 DEF PoolTypeOK
    <3>2. Cardinality(DOMAIN len) = n
      BY <3>1, FS_Interval
    <3>3. \A S \in SUBSET DOMAIN len : Cardinality(S) <= n
      BY <2>3, <3>2, FS_Subset
    <3> QED BY <2>5, <3>1, <3>3 DEF PoolConstants
  <2>7. \A S \in SUBSET DOMAIN len : Total(len, S) < CounterLimit /\ Cardinality(S) < CounterLimit
    <3>1. SUFFICES ASSUME NEW S \in SUBSET DOMAIN len
                   PROVE  Total(len, S) < CounterLimit /\ Cardinality(S) < CounterLimit
      OBVIOUS
    <3> DEFINE c == Cardinality(S)
    <3>2. c \in Nat /\ c <= MaxAllocs /\ MaxAllocs \in Nat /\ Total(len, S) <= Largest * c /\ Total(len, S) \in Int
          /\ CounterLimit \in Nat
      BY <2>5, <2>6 DEF PoolConstants
    <3>3. Largest \in Nat /\ Largest >= 1
      BY CapacityFacts DEF HighestSize
    <3> HIDE DEF c
    <3>4. Largest * c <= MaxAllocs * Largest /\ c <= MaxAllocs * Largest
      <4>1. (MaxAllocs - c) * Largest >= 0 /\ (MaxAllocs - c) * Largest = MaxAllocs * Largest - Largest * c
        <5>1. MaxAllocs - c \in Nat
          BY <3>2
        <5> QED BY <3>2, <3>3, <5>1
      <4>2. (Largest - 1) * c >= 0 /\ (Largest - 1) * c = Largest * c - c
        <5>1. Largest - 1 \in Nat
          BY <3>3
        <5> QED BY <3>2, <3>3, <5>1
      <4>3. MaxAllocs * Largest \in Int /\ Largest * c \in Int
        BY <3>2, <3>3
      <4> QED BY <3>2, <4>1, <4>2, <4>3
    <3>5. MaxAllocs * Largest \in Int /\ Largest * c \in Int
      BY <3>2, <3>3
    <3> QED BY <3>2, <3>4, <3>5 DEF c
  <2>8. Total(len, out \cup IdleBlocks) = Total(len, out) + Total(len, IdleBlocks)
    <3>1. (\A b \in out : len[b] \in Int) /\ (\A b \in IdleBlocks : len[b] \in Int)
      BY <2>3
    <3> HIDE DEF IdleBlocks
    <3> QED BY <2>3, <3>1, TotalFacts
  <2>9. \A x \in Int : 0 <= x /\ x < CounterLimit => x % CounterLimit = x
    BY Wraps DEF PoolConstants
  <2>10. Cardinality(out) % CounterLimit = Cardinality(out) /\ BytesOf(out) % CounterLimit = BytesOf(out)
    BY <2>3, <2>5, <2>7, <2>9
  <2>11. (BytesOf(out) + BytesOf(IdleBlocks)) % CounterLimit = BytesOf(out) + BytesOf(IdleBlocks)
    <3>1. out \cup IdleBlocks \in SUBSET DOMAIN len
      BY <2>3
    <3>2. BytesOf(out) + BytesOf(IdleBlocks) = Total(len, out \cup IdleBlocks)
      BY <2>3, <2>5, <2>8
    <3> HIDE DEF IdleBlocks
    <3> QED BY <2>5, <2>7, <2>9, <3>1, <3>2
  <2> QED BY <2>2, <2>10, <2>11
<1>4. PoolInv => PoolExact
  BY <1>3, InOnePlace DEF PoolExact
<1> QED BY <1>1, <1>2, <1>4, PTL DEF PoolSpec

-----------------------------------------------------------------------------
(* Voxel buffers: flat indices.                                            *)

\* The recursion of volumes and flat indices, unfolded.
LEMMA HornerUnfolds ==
  ASSUME Dims \in Nat, NEW first, NEW plus, NEW times
  PROVE  \A d \in 0 .. Dims :
           Horner(first, plus, times)[d] =
             IF d = 0 THEN first ELSE plus[d] + times[d] * Horner(first, plus, times)[d - 1]
<1> DEFINE Body(g, d) == IF d = 0 THEN first ELSE plus[d] + times[d] * g[d - 1]
           Solution(g, n) == g = [d \in 0 .. n |-> Body(g, d)]
           Unsolved == {n \in Nat : ~ \E g : Solution(g, n)}
<1>1. Unsolved = {}
  <2>1. SUFFICES ASSUME Unsolved # {} PROVE FALSE
    OBVIOUS
  <2>2. Unsolved \in SUBSET Nat
    OBVIOUS
  <2> HIDE DEF Unsolved
  <2>3. PICK n \in Unsolved : \A m \in Unsolved : n <= m
    BY <2>1, <2>2, LeastNatural
  <2>4. n \in Nat /\ ~ \E g : Solution(g, n)
    BY DEF Unsolved
  <2>5. CASE n = 0
    <3> DEFINE g == [d \in 0 .. 0 |-> first]
    <3>1. g = [d \in 0 .. 0 |-> Body(g, d)]
      OBVIOUS
    <3> QED BY <2>4, <2>5, <3>1
  <2>6. CASE n > 0
    <3>1. n - 1 \in Nat /\ n - 1 \notin Unsolved
      BY <2>3, <2>4, <2>6
    <3>2. PICK g : Solution(g, n - 1)
      BY <3>1 DEF Unsolved
    <3> DEFINE h == [d \in 0 .. n |-> IF d = n THEN Body(g, d) ELSE g[d]]
    <3>3. \A d \in 0 .. n - 1 : g[d] = Body(g, d)
      BY <3>2
    <3>4. \A d \in 0 .. n : h[d] = Body(g, d)
      BY <2>4, <3>3
    <3>5. \A d \in 0 .. n : d # 0 => h[d - 1] = g[d - 1]
      BY <2>4
    <3>6. \A d \in 0 .. n : h[d] = Body(h, d)
      BY <3>4, <3>5
    <3>7. h = [d \in 0 .. n |-> h[d]]
      OBVIOUS
    <3> HIDE DEF h
    <3>8. h = [d \in 0 .. n |-> Body(h, d)]
      BY <3>6, <3>7
    <3> QED BY <2>4, <3>8
  <2> QED BY <2>4, <2>5, <2>6
<1> DEFINE f == Horner(first, plus, times)
<1>2. f = [d \in 0 .. Dims |-> Body(f, d)]
  <2>1. \E g : g = [d \in 0 .. Dims |-> Body(g, d)]
    BY <1>1
  <2>2. f = CHOOSE g : g = [d \in 0 .. Dims |-> Body(g, d)]
    BY DEF Horner
  <2> QED BY <2>1, <2>2
<1> HIDE DEF f
<1>3. \A d \in 0 .. Dims : f[d] = Body(f, d)
  BY <1>2
<1> QED BY <1>3 DEF f

\* The voxels of a buffer and of an area in it are those between the corners.
LEMMA VoxelsAre ==
  ASSUME BufferConstants, NEW size \in BufferSizes
  PROVE  /\ VoxelsOf(size) = {p \in [RegionAxes -> Int] : \A d \in RegionAxes : 0 <= p[d] /\ p[d] < size[d]}
         /\ \A lo, hi \in [RegionAxes -> Int] :
              (\A d \in RegionAxes : 0 <= lo[d] /\ hi[d] <= size[d]) =>
                CellsFrom(lo, hi, Sides(size)) =
                  {p \in [RegionAxes -> Int] : \A d \in RegionAxes : lo[d] <= p[d] /\ p[d] < hi[d]}
<1>1. size \in [RegionAxes -> Nat \ {0}]
  BY DEF BufferConstants
<1>2. ASSUME NEW lo \in [RegionAxes -> Int], NEW hi \in [RegionAxes -> Int],
             \A d \in RegionAxes : 0 <= lo[d] /\ hi[d] <= size[d]
      PROVE  CellsFrom(lo, hi, Sides(size)) =
               {p \in [RegionAxes -> Int] : \A d \in RegionAxes : lo[d] <= p[d] /\ p[d] < hi[d]}
  <2>1. ASSUME NEW p \in [RegionAxes -> Int], \A d \in RegionAxes : lo[d] <= p[d] /\ p[d] < hi[d]
        PROVE  p \in [RegionAxes -> Sides(size)]
    <3>1. ASSUME NEW d \in RegionAxes PROVE p[d] \in Sides(size)
      <4>1. p[d] \in 0 .. size[d] - 1
        BY <1>1, <1>2, <2>1
      <4> QED BY <4>1 DEF Sides
    <3> QED BY <3>1
  <2>2. [RegionAxes -> Sides(size)] \subseteq [RegionAxes -> Int]
    <3>1. Sides(size) \subseteq Int
      BY DEF Sides
    <3> QED BY <3>1
  <2> QED BY <2>1, <2>2 DEF CellsFrom
<1>3. /\ Point(0) \in [RegionAxes -> Int] /\ size \in [RegionAxes -> Int]
      /\ \A d \in RegionAxes : 0 <= Point(0)[d] /\ size[d] <= size[d] /\ Point(0)[d] = 0
  BY <1>1 DEF Point
<1>4. VoxelsOf(size) = {p \in [RegionAxes -> Int] : \A d \in RegionAxes : Point(0)[d] <= p[d] /\ p[d] < size[d]}
  BY <1>2, <1>3 DEF VoxelsOf
<1>5. VoxelsOf(size) = {p \in [RegionAxes -> Int] : \A d \in RegionAxes : 0 <= p[d] /\ p[d] < size[d]}
  BY <1>3, <1>4
<1> QED BY <1>2, <1>5

\* One step of a flat index: it stays in its range, and the digits can be told from it.
LEMMA Digits ==
  ASSUME NEW s \in Nat \ {0}, NEW v \in Nat \ {0}, NEW x \in 0 .. s - 1, NEW f \in 0 .. v - 1
  PROVE  /\ s * v \in Nat \ {0} /\ x + s * f \in 0 .. s * v - 1
         /\ \A y \in 0 .. s - 1, g \in 0 .. v - 1 : x + s * f = y + s * g => x = y /\ f = g
<1>1. s * v \in Nat /\ s * f \in Nat /\ s * v >= 1
  <2>1. s * v = (s - 1) * (v - 1) + s + v - 1
    OBVIOUS
  <2>2. (s - 1) * (v - 1) \in Nat
    OBVIOUS
  <2> QED BY <2>1, <2>2
<1>2. s * (v - 1 - f) \in Nat
  OBVIOUS
<1>3. s * (v - 1 - f) = s * v - s - s * f
  OBVIOUS
<1>4. ASSUME NEW y \in 0 .. s - 1, NEW g \in 0 .. v - 1, x + s * f = y + s * g PROVE x = y /\ f = g
  <2>1. s * g \in Nat
    OBVIOUS
  <2>2. ASSUME f < g PROVE FALSE
    <3>1. s * (g - f - 1) \in Nat
      BY <2>2
    <3>2. s * (g - f - 1) = s * g - s * f - s
      OBVIOUS
    <3> QED BY <1>1, <1>4, <2>1, <3>1, <3>2
  <2>3. ASSUME g < f PROVE FALSE
    <3>1. s * (f - g - 1) \in Nat
      BY <2>3
    <3>2. s * (f - g - 1) = s * f - s * g - s
      OBVIOUS
    <3> QED BY <1>1, <1>4, <2>1, <3>1, <3>2
  <2>4. f = g
    BY <2>2, <2>3
  <2> QED BY <1>1, <1>4, <2>1, <2>4
<1> QED BY <1>1, <1>2, <1>3, <1>4

\* The flat index of a voxel is in the array, and no other voxel has it.
LEMMA IndexFacts ==
  ASSUME BufferConstants, NEW size \in BufferSizes
  PROVE  /\ Volume(size) \in Nat \ {0}
         /\ \A p \in VoxelsOf(size) : RegionIndex(size, p) \in 0 .. Volume(size) - 1
         /\ \A p, q \in VoxelsOf(size) : RegionIndex(size, p) = RegionIndex(size, q) => p = q
<1> DEFINE S == Backwards(size)
           V == Horner(1, Point(0), S)
           F(p) == Horner(0, Backwards(p), S)
           Right(n) == /\ V[n] \in Nat \ {0}
                       /\ \A p \in VoxelsOf(size) : F(p)[n] \in 0 .. V[n] - 1
                       /\ \A p, q \in VoxelsOf(size) : F(p)[n] = F(q)[n] =>
                            \A d \in 1 .. n : Backwards(p)[d] = Backwards(q)[d]
           Wrong == {n \in Nat : n <= Dims /\ ~ Right(n)}
<1>0. Dims \in Nat \ {0} /\ size \in [RegionAxes -> Nat \ {0}] /\ RegionAxes = 1 .. Dims
  BY DEF BufferConstants, RegionAxes
<1>1. \A d \in 1 .. Dims : S[d] \in Nat \ {0}
  <2>1. ASSUME NEW d \in 1 .. Dims PROVE S[d] \in Nat \ {0}
    <3>1. Dims + 1 - d \in RegionAxes /\ d \in RegionAxes
      BY <1>0
    <3> QED BY <1>0, <3>1 DEF Backwards
  <2> QED BY <2>1
<1>2. \A p \in VoxelsOf(size) : \A d \in 1 .. Dims : Backwards(p)[d] \in 0 .. S[d] - 1
  <2>1. ASSUME NEW p \in VoxelsOf(size), NEW d \in 1 .. Dims PROVE Backwards(p)[d] \in 0 .. S[d] - 1
    <3>1. Dims + 1 - d \in RegionAxes /\ d \in RegionAxes
      BY <1>0
    <3>2. p \in [RegionAxes -> Int] /\ 0 <= p[Dims + 1 - d] /\ p[Dims + 1 - d] < size[Dims + 1 - d]
      BY <3>1, VoxelsAre
    <3>3. S[d] = size[Dims + 1 - d] /\ Backwards(p)[d] = p[Dims + 1 - d]
      BY <3>1 DEF Backwards
    <3>4. p[Dims + 1 - d] \in Int /\ size[Dims + 1 - d] \in Int
      BY <1>0, <3>1, <3>2
    <3> QED BY <3>2, <3>3, <3>4
  <2> QED BY <2>1
<1>3. /\ V[0] = 1
      /\ \A d \in 1 .. Dims : V[d] = 0 + S[d] * V[d - 1]
      /\ \A p : F(p)[0] = 0
      /\ \A p : \A d \in 1 .. Dims : F(p)[d] = Backwards(p)[d] + S[d] * F(p)[d - 1]
  <2>1. \A d \in 1 .. Dims : d \in 0 .. Dims /\ d # 0 /\ Point(0)[d] = 0
    BY <1>0 DEF Point
  <2>2. 0 \in 0 .. Dims
    BY <1>0
  <2>3. V[0] = 1 /\ \A d \in 1 .. Dims : V[d] = 0 + S[d] * V[d - 1]
    <3>1. \A d \in 0 .. Dims : V[d] = IF d = 0 THEN 1 ELSE Point(0)[d] + S[d] * V[d - 1]
      BY <1>0, HornerUnfolds
    <3> HIDE DEF V, S
    <3> QED BY <2>1, <2>2, <3>1
  <2>4. ASSUME NEW p PROVE F(p)[0] = 0 /\ \A d \in 1 .. Dims : F(p)[d] = Backwards(p)[d] + S[d] * F(p)[d - 1]
    <3> DEFINE f == F(p)
               b == Backwards(p)
    <3>1. \A d \in 0 .. Dims : f[d] = IF d = 0 THEN 0 ELSE b[d] + S[d] * f[d - 1]
      BY <1>0, HornerUnfolds
    <3> HIDE DEF f, b, S
    <3>2. f[0] = 0 /\ \A d \in 1 .. Dims : f[d] = b[d] + S[d] * f[d - 1]
      BY <2>1, <2>2, <3>1
    <3> QED BY <3>2 DEF f, b
  <2> QED BY <2>3, <2>4
<1> HIDE DEF S, V, F
<1>4. Right(0)
  <2>1. V[0] = 1 /\ \A p : F(p)[0] = 0
    BY <1>3
  <2> QED BY <2>1
<1>5. ASSUME NEW n \in 1 .. Dims, Right(n - 1) PROVE Right(n)
  <2>1. /\ S[n] \in Nat \ {0} /\ V[n - 1] \in Nat \ {0} /\ V[n] = S[n] * V[n - 1]
    <3>1. V[n - 1] \in Nat \ {0}
      BY <1>5
    <3>2. S[n] \in Nat \ {0} /\ V[n] = 0 + S[n] * V[n - 1]
      BY <1>1, <1>3
    <3>3. S[n] * V[n - 1] \in Int
      BY <3>1, <3>2
    <3> QED BY <3>1, <3>2, <3>3
  <2>2. \A p \in VoxelsOf(size) :
          /\ Backwards(p)[n] \in 0 .. S[n] - 1 /\ F(p)[n - 1] \in 0 .. V[n - 1] - 1
          /\ F(p)[n] = Backwards(p)[n] + S[n] * F(p)[n - 1]
    BY <1>2, <1>3, <1>5
  <2>3. V[n] \in Nat \ {0}
    <3>1. 0 \in 0 .. S[n] - 1 /\ 0 \in 0 .. V[n - 1] - 1
      BY <2>1
    <3>2. S[n] * V[n - 1] \in Nat \ {0}
      BY <2>1, <3>1, Digits
    <3> QED BY <2>1, <3>2
  <2>4. ASSUME NEW p \in VoxelsOf(size) PROVE F(p)[n] \in 0 .. V[n] - 1
    BY <2>1, <2>2, Digits
  <2>5. ASSUME NEW p \in VoxelsOf(size), NEW q \in VoxelsOf(size), F(p)[n] = F(q)[n],
               NEW d \in 1 .. n
        PROVE  Backwards(p)[d] = Backwards(q)[d]
    <3>1. Backwards(p)[n] = Backwards(q)[n] /\ F(p)[n - 1] = F(q)[n - 1]
      <4>1. Backwards(p)[n] + S[n] * F(p)[n - 1] = Backwards(q)[n] + S[n] * F(q)[n - 1]
        BY <2>2, <2>5
      <4>2. /\ Backwards(p)[n] \in 0 .. S[n] - 1 /\ F(p)[n - 1] \in 0 .. V[n - 1] - 1
            /\ Backwards(q)[n] \in 0 .. S[n] - 1 /\ F(q)[n - 1] \in 0 .. V[n - 1] - 1
        BY <2>2
      <4>3. \A s, v \in Nat \ {0} : \A x, y \in 0 .. s - 1, f, g \in 0 .. v - 1 :
              x + s * f = y + s * g => x = y /\ f = g
        BY Digits
      <4> DEFINE s == S[n]
                 v == V[n - 1]
                 x == Backwards(p)[n]
                 y == Backwards(q)[n]
                 f == F(p)[n - 1]
                 g == F(q)[n - 1]
      <4>4. /\ s \in Nat \ {0} /\ v \in Nat \ {0} /\ x \in 0 .. s - 1 /\ y \in 0 .. s - 1
            /\ f \in 0 .. v - 1 /\ g \in 0 .. v - 1 /\ x + s * f = y + s * g
        BY <2>1, <4>1, <4>2
      <4>5. x = y /\ f = g
        <5> HIDE DEF s, v, x, y, f, g
        <5> QED BY <4>3, <4>4
      <4> QED BY <4>5
    <3>2. CASE d = n
      BY <3>1, <3>2
    <3>3. CASE d # n
      <4>1. d \in 1 .. n - 1
        BY <3>3
      <4> QED BY <1>5, <3>1, <4>1
    <3> QED BY <3>2, <3>3
  <2> QED BY <2>3, <2>4, <2>5
<1>6. Wrong = {}
  <2>1. SUFFICES ASSUME Wrong # {} PROVE FALSE
    OBVIOUS
  <2>2. Wrong \in SUBSET Nat
    OBVIOUS
  <2> HIDE DEF Wrong
  <2>3. PICK n \in Wrong : \A m \in Wrong : n <= m
    BY <2>1, <2>2, LeastNatural
  <2>4. n \in Nat /\ n <= Dims /\ ~ Right(n)
    BY DEF Wrong
  <2> HIDE DEF Right
  <2>5. n # 0
    BY <1>4, <2>4
  <2>6. n - 1 \in Nat /\ n - 1 <= Dims /\ n - 1 \notin Wrong /\ n \in 1 .. Dims
    BY <1>0, <2>3, <2>4, <2>5
  <2>7. Right(n - 1)
    BY <2>6 DEF Wrong
  <2> QED BY <1>5, <2>4, <2>6, <2>7
<1>7. Right(Dims)
  <2> HIDE DEF Right
  <2> QED BY <1>0, <1>6
<1>8. Volume(size) = V[Dims] /\ \A p : RegionIndex(size, p) = F(p)[Dims]
  BY DEF Volume, RegionIndex, V, F, S
<1>9. ASSUME NEW p \in VoxelsOf(size), NEW q \in VoxelsOf(size), F(p)[Dims] = F(q)[Dims] PROVE p = q
  <2>1. \A d \in 1 .. Dims : Backwards(p)[d] = Backwards(q)[d]
    BY <1>7, <1>9
  <2>2. p \in [RegionAxes -> Int] /\ q \in [RegionAxes -> Int]
    BY VoxelsAre
  <2>3. ASSUME NEW d \in RegionAxes PROVE p[d] = q[d]
    <3>1. Dims + 1 - d \in 1 .. Dims /\ Dims + 1 - (Dims + 1 - d) = d
      BY <1>0
    <3>2. Backwards(p)[Dims + 1 - d] = p[d] /\ Backwards(q)[Dims + 1 - d] = q[d]
      BY <1>0, <3>1 DEF Backwards
    <3> QED BY <2>1, <3>1, <3>2
  <2> QED BY <2>2, <2>3
<1> QED BY <1>7, <1>8, <1>9

-----------------------------------------------------------------------------
(* Voxel buffers: the inductive invariant.                                 *)

\* A channel is a default, or an array as long as the volume of the buffer; its values fit the depth.
ChannelOK(c) ==
  /\ c = [size |-> c.size, depth |-> c.depth, uniform |-> c.uniform, defval |-> c.defval, data |-> c.data]
  /\ c.size \in BufferSizes /\ c.depth \in Depths /\ c.uniform \in BOOLEAN
  /\ c.defval \in RawValues(c.depth)
  /\ ~ c.uniform => c.data \in [0 .. Volume(c.size) - 1 -> RawValues(c.depth)]

\* The channel reads as the grid of voxels g.
Shows(c, g) ==
  /\ ChannelOK(c) /\ g \in [VoxelsOf(c.size) -> RawValues(c.depth)]
  /\ \A p \in VoxelsOf(c.size) : ReadVoxel(c, p) = g[p]

BuffersInv ==
  /\ buf = [b \in Buffers |-> buf[b]] /\ plain = [b \in Buffers |-> plain[b]]
  /\ \A b \in Buffers : Shows(buf[b], plain[b])

\* What is read of a channel fits its depth; a default shows one value everywhere.
LEMMA ReadFacts ==
  ASSUME BufferConstants
  PROVE  /\ \A c : ChannelOK(c) => \A p \in VoxelsOf(c.size) : ReadVoxel(c, p) \in RawValues(c.depth)
         /\ \A size \in BufferSizes, depth \in Depths : \A v \in RawValues(depth) :
              /\ UniformChannel(size, depth, v).size = size
              /\ Shows(UniformChannel(size, depth, v), Everywhere(size, v))
         /\ \A depth \in Depths : DefaultRaw(depth) \in RawValues(depth)
         /\ \A depth \in Depths : \A v \in RawValues(depth) : Truncated(v, depth) = v
<1>1. ASSUME NEW c, ChannelOK(c), NEW p \in VoxelsOf(c.size) PROVE ReadVoxel(c, p) \in RawValues(c.depth)
  <2>1. c.size \in BufferSizes
    BY <1>1 DEF ChannelOK
  <2>2. RegionIndex(c.size, p) \in 0 .. Volume(c.size) - 1
    BY <1>1, <2>1, IndexFacts
  <2> QED BY <1>1, <2>2 DEF ChannelOK, ReadVoxel
<1>2. ASSUME NEW size \in BufferSizes, NEW depth \in Depths, NEW v \in RawValues(depth)
      PROVE  /\ UniformChannel(size, depth, v).size = size
             /\ Shows(UniformChannel(size, depth, v), Everywhere(size, v))
  BY <1>2 DEF UniformChannel, Shows, ChannelOK, Everywhere, ReadVoxel
<1>3. ASSUME NEW depth \in Depths
      PROVE  DefaultRaw(depth) \in RawValues(depth) /\ \A v \in RawValues(depth) : Truncated(v, depth) = v
  <2>1. depth \in Nat \ {0}
    BY DEF BufferConstants
  <2>2. ASSUME NEW v \in RawValues(depth) PROVE v % depth = v
    <3>1. v \in 0 .. depth - 1
      BY DEF RawValues
    <3> QED BY <2>1, <3>1
  <2> QED BY <2>1, <2>2 DEF DefaultRaw, RawValues, Truncated
<1> QED BY <1>1, <1>2, <1>3

\* An array of the default reads as the default.
LEMMA DecompressedFacts ==
  ASSUME BufferConstants, NEW c, NEW g, Shows(c, g)
  PROVE  LET d == Decompressed(c) IN
           /\ Shows(d, g) /\ d.size = c.size /\ d.depth = c.depth /\ d.uniform = FALSE /\ d.defval = c.defval
<1> DEFINE d == Decompressed(c)
<1> SUFFICES Shows(d, g) /\ d.size = c.size /\ d.depth = c.depth /\ d.uniform = FALSE /\ d.defval = c.defval
  OBVIOUS
<1>1. ChannelOK(c) /\ g \in [VoxelsOf(c.size) -> RawValues(c.depth)] /\ \A p \in VoxelsOf(c.size) : ReadVoxel(c, p) = g[p]
  BY DEF Shows
<1>2. CASE ~ c.uniform
  <2>1. d = c
    BY <1>2 DEF Decompressed
  <2>2. c.uniform = FALSE
    BY <1>1, <1>2 DEF ChannelOK
  <2>3. Shows(c, g)
    OBVIOUS
  <2> HIDE DEF d
  <2> QED BY <2>1, <2>2, <2>3
<1>3. CASE c.uniform
  <2> DEFINE data == [i \in 0 .. Volume(c.size) - 1 |-> Truncated(c.defval, c.depth)]
  <2>1. Truncated(c.defval, c.depth) = c.defval
    BY <1>1, ReadFacts DEF ChannelOK
  <2>2. data \in [0 .. Volume(c.size) - 1 -> RawValues(c.depth)]
    BY <1>1, <2>1 DEF ChannelOK
  <2>3. \A i \in 0 .. Volume(c.size) - 1 : data[i] = c.defval
    BY <2>1
  <2> HIDE DEF data
  <2>4. d = [size |-> c.size, depth |-> c.depth, uniform |-> FALSE, defval |-> c.defval, data |-> data]
    <3>1. d = [c EXCEPT !.uniform = FALSE, !.data = data]
      BY <1>3 DEF Decompressed, data
    <3>2. c = [size |-> c.size, depth |-> c.depth, uniform |-> c.uniform, defval |-> c.defval, data |-> c.data]
      BY <1>1 DEF ChannelOK
    <3> HIDE DEF d
    <3> QED BY <3>1, <3>2
  <2> HIDE DEF d
  <2>5. ChannelOK(d)
    BY <1>1, <2>2, <2>4 DEF ChannelOK
  <2>6. ASSUME NEW p \in VoxelsOf(c.size) PROVE ReadVoxel(d, p) = g[p]
    <3>1. RegionIndex(c.size, p) \in 0 .. Volume(c.size) - 1
      BY <1>1, IndexFacts DEF ChannelOK
    <3>2. g[p] = c.defval
      BY <1>1, <1>3 DEF ReadVoxel
    <3> QED BY <2>3, <2>4, <3>1, <3>2 DEF ReadVoxel
  <2> QED BY <1>1, <2>4, <2>5, <2>6 DEF Shows
<1>4. c.uniform \in BOOLEAN
  BY <1>1 DEF ChannelOK
<1> HIDE DEF d
<1> QED BY <1>2, <1>3, <1>4

\* Writing a value into each of some voxels changes those and no others, whatever the channel was.
LEMMA WrittenFacts ==
  ASSUME BufferConstants, NEW c, NEW g, Shows(c, g), NEW cells \in SUBSET VoxelsOf(c.size),
         NEW value, \A p \in cells : value[p] \in RawValues(c.depth)
  PROVE  LET w == Written(c, cells, value) IN
           /\ w.size = c.size /\ w.depth = c.depth
           /\ Shows(w, [p \in VoxelsOf(c.size) |-> IF p \in cells THEN value[p] ELSE g[p]])
<1> DEFINE d == Decompressed(c)
           w == Written(c, cells, value)
           h == [p \in VoxelsOf(c.size) |-> IF p \in cells THEN value[p] ELSE g[p]]
           CellOf(i) == CHOOSE p \in cells : RegionIndex(c.size, p) = i
           data == [i \in DOMAIN d.data |-> IF \E p \in cells : RegionIndex(c.size, p) = i
                                             THEN Truncated(value[CellOf(i)], c.depth) ELSE d.data[i]]
<1>1. /\ ChannelOK(c) /\ c.size \in BufferSizes /\ c.depth \in Depths
      /\ g \in [VoxelsOf(c.size) -> RawValues(c.depth)]
  BY DEF Shows, ChannelOK
<1>2. /\ Shows(d, g) /\ ChannelOK(d) /\ d.size = c.size /\ d.depth = c.depth /\ d.uniform = FALSE
      /\ d.data \in [0 .. Volume(c.size) - 1 -> RawValues(c.depth)]
  <2>1. Shows(d, g) /\ d.size = c.size /\ d.depth = c.depth /\ d.uniform = FALSE
    BY DecompressedFacts
  <2> HIDE DEF d
  <2>2. ChannelOK(d)
    BY <2>1 DEF Shows
  <2> QED BY <2>1, <2>2 DEF ChannelOK
<1>3. ASSUME NEW p \in cells PROVE CellOf(RegionIndex(c.size, p)) = p
  <2> DEFINE q == CellOf(RegionIndex(c.size, p))
  <2>1. q \in cells /\ RegionIndex(c.size, q) = RegionIndex(c.size, p)
    OBVIOUS
  <2> HIDE DEF q
  <2>2. p \in VoxelsOf(c.size) /\ q \in VoxelsOf(c.size)
    BY <2>1
  <2>3. q = p
    BY <1>1, <2>1, <2>2, IndexFacts
  <2> QED BY <2>3 DEF q
<1>4. w = [d EXCEPT !.data = data]
  BY DEF Written
<1> HIDE DEF d, CellOf
<1>5. data \in [0 .. Volume(c.size) - 1 -> RawValues(c.depth)]
  <2>1. DOMAIN d.data = 0 .. Volume(c.size) - 1
    BY <1>2
  <2>2. ASSUME NEW i \in 0 .. Volume(c.size) - 1 PROVE data[i] \in RawValues(c.depth)
    <3>1. CASE \E p \in cells : RegionIndex(c.size, p) = i
      <4>1. PICK p \in cells : RegionIndex(c.size, p) = i
        BY <3>1
      <4>2. data[i] = Truncated(value[p], c.depth)
        BY <1>3, <2>1, <4>1
      <4>3. value[p] \in RawValues(c.depth) /\ Truncated(value[p], c.depth) = value[p]
        BY <1>1, ReadFacts
      <4> HIDE DEF data
      <4> QED BY <4>2, <4>3
    <3>2. CASE ~ \E p \in cells : RegionIndex(c.size, p) = i
      BY <1>2, <2>1, <3>2
    <3> QED BY <3>1, <3>2
  <2> QED BY <2>1, <2>2
<1>6. ASSUME NEW p \in VoxelsOf(c.size) PROVE data[RegionIndex(c.size, p)] = h[p]
  <2> DEFINE i == RegionIndex(c.size, p)
  <2>1. i \in 0 .. Volume(c.size) - 1 /\ i \in DOMAIN d.data
    BY <1>1, <1>2, IndexFacts
  <2>2. CASE p \in cells
    <3>1. data[i] = Truncated(value[p], c.depth)
      BY <1>3, <2>1, <2>2
    <3>2. Truncated(value[p], c.depth) = value[p]
      BY <1>1, <2>2, ReadFacts
    <3> QED BY <2>2, <3>1, <3>2
  <2>3. CASE p \notin cells
    <3>1. ~ \E q \in cells : RegionIndex(c.size, q) = i
      <4>1. ASSUME NEW q \in cells, RegionIndex(c.size, q) = i PROVE FALSE
        <5>1. q = p
          BY <1>1, <4>1, IndexFacts
        <5> QED BY <2>3, <5>1
      <4> QED BY <4>1
    <3>2. data[i] = d.data[i]
      BY <2>1, <3>1
    <3>3. ReadVoxel(d, p) = g[p] /\ ReadVoxel(d, p) = d.data[i]
      BY <1>2 DEF Shows, ReadVoxel
    <3> QED BY <2>3, <3>2, <3>3
  <2> QED BY <2>2, <2>3
<1>7. ASSUME NEW p \in VoxelsOf(c.size) PROVE h[p] \in RawValues(c.depth)
  BY <1>1
<1> HIDE DEF data, w, h
<1>8. /\ w = [size |-> w.size, depth |-> w.depth, uniform |-> w.uniform, defval |-> w.defval, data |-> w.data]
      /\ w.size = c.size /\ w.depth = c.depth /\ w.uniform = FALSE /\ w.defval = d.defval /\ w.data = data
  <2>1. d = [size |-> d.size, depth |-> d.depth, uniform |-> d.uniform, defval |-> d.defval, data |-> d.data]
    BY <1>2 DEF ChannelOK
  <2> QED BY <1>2, <1>4, <2>1
<1>9. ChannelOK(w)
  BY <1>1, <1>2, <1>5, <1>8 DEF ChannelOK
<1>10. h \in [VoxelsOf(c.size) -> RawValues(c.depth)]
  BY <1>7 DEF h
<1>11. Shows(w, h)
  BY <1>6, <1>8, <1>9, <1>10 DEF Shows, ReadVoxel
<1> QED BY <1>8, <1>11 DEF w, h

\* A copied channel is the source's, an array of equal voxels reads as their default.
LEMMA CopiedIsSource ==
  ASSUME NEW c, NEW src, ChannelOK(src)
  PROVE  ChannelCopied(WithDepth(Created(c, src.size), src.depth), src) = src
<1> DEFINE d == WithDepth(Created(c, src.size), src.depth)
<1>1. \E w, u, n : d = [size |-> src.size, depth |-> src.depth, uniform |-> w, defval |-> u, data |-> n]
  BY DEF WithDepth, Created, UniformChannel
<1> HIDE DEF d
<1>2. PICK w, u, n : d = [size |-> src.size, depth |-> src.depth, uniform |-> w, defval |-> u, data |-> n]
  BY <1>1
<1>3. d.size = src.size /\ d.depth = src.depth
  BY <1>2
<1>4. ChannelCopied(d, src) = [src EXCEPT !.size = src.size, !.depth = src.depth]
  BY <1>3 DEF ChannelCopied
<1>5. src = [size |-> src.size, depth |-> src.depth, uniform |-> src.uniform, defval |-> src.defval, data |-> src.data]
  BY DEF ChannelOK
<1>6. [src EXCEPT !.size = src.size, !.depth = src.depth] = src
  BY <1>5
<1> QED BY <1>4, <1>6 DEF d

LEMMA CompressedFacts ==
  ASSUME BufferConstants, NEW c, NEW g, Shows(c, g)
  PROVE  Shows(Compressed(c), g) /\ Compressed(c).size = c.size
<1>1. ChannelOK(c) /\ g \in [VoxelsOf(c.size) -> RawValues(c.depth)] /\ \A p \in VoxelsOf(c.size) : ReadVoxel(c, p) = g[p]
  BY DEF Shows
<1>2. CASE ~ c.uniform /\ \A i \in DOMAIN c.data : c.data[i] = c.data[0]
  <2> DEFINE v == c.data[0]
  <2>1. /\ c.size \in BufferSizes /\ c.depth \in Depths /\ Volume(c.size) \in Nat \ {0}
        /\ c.data \in [0 .. Volume(c.size) - 1 -> RawValues(c.depth)]
    BY <1>1, <1>2, IndexFacts DEF ChannelOK
  <2>2. 0 \in 0 .. Volume(c.size) - 1
    BY <2>1
  <2>3. v \in RawValues(c.depth)
    BY <2>1, <2>2
  <2>4. ASSUME NEW p \in VoxelsOf(c.size) PROVE g[p] = v
    <3>1. RegionIndex(c.size, p) \in DOMAIN c.data
      BY <2>1, IndexFacts
    <3>2. ReadVoxel(c, p) = c.data[RegionIndex(c.size, p)]
      BY <1>2 DEF ReadVoxel
    <3> QED BY <1>1, <1>2, <3>1, <3>2
  <2> HIDE DEF v
  <2>5. g = Everywhere(c.size, v)
    BY <1>1, <2>4 DEF Everywhere
  <2>6. Compressed(c) = UniformChannel(c.size, c.depth, v)
    BY <1>2 DEF Compressed, v
  <2> QED BY <2>1, <2>3, <2>5, <2>6, ReadFacts
<1>3. CASE ~ (~ c.uniform /\ \A i \in DOMAIN c.data : c.data[i] = c.data[0])
  BY <1>3 DEF Compressed
<1> QED BY <1>2, <1>3

\* The cells of a clipped area are the voxels between its corners.
LEMMA AreaIs ==
  ASSUME BufferConstants, NEW size \in BufferSizes,
         NEW x \in [RegionAxes -> Int], NEW y \in [RegionAxes -> Int]
  PROVE  LET area == ClippedArea(size, x, y) IN
           CellsFrom(area.lo, area.hi, Sides(size)) = {p \in VoxelsOf(size) : Between(p, x, y)}
<1> DEFINE area == ClippedArea(size, x, y)
<1>1. size \in [RegionAxes -> Nat \ {0}]
  BY DEF BufferConstants
<1>2. ASSUME NEW d \in RegionAxes
      PROVE  /\ area.lo[d] \in Int /\ area.hi[d] \in Int /\ 0 <= area.lo[d] /\ area.hi[d] <= size[d]
             /\ \A q \in Int : area.lo[d] <= q /\ q < area.hi[d] <=>
                  /\ 0 <= q /\ q < size[d]
                  /\ LesserOf(x[d], y[d]) <= q /\ q < GreaterOf(x[d], y[d])
  <2>1. x[d] \in Int /\ y[d] \in Int /\ size[d] \in Nat \ {0}
    BY <1>1
  <2>2. /\ area.lo[d] = Clamped(LesserOf(x[d], y[d]), 0, size[d])
        /\ area.hi[d] = Clamped(GreaterOf(x[d], y[d]), 0, size[d])
    BY DEF ClippedArea, SortedMin, SortedMax
  <2> HIDE DEF area
  <2> QED BY <2>1, <2>2 DEF Clamped, LesserOf, GreaterOf
<1>3. area.lo \in [RegionAxes -> Int] /\ area.hi \in [RegionAxes -> Int]
  <2>1. /\ area.lo = [d \in RegionAxes |-> area.lo[d]]
        /\ area.hi = [d \in RegionAxes |-> area.hi[d]]
    BY DEF ClippedArea
  <2> HIDE DEF area
  <2> QED BY <1>2, <2>1
<1> HIDE DEF area
<1>4. CellsFrom(area.lo, area.hi, Sides(size)) =
        {p \in [RegionAxes -> Int] : \A d \in RegionAxes : area.lo[d] <= p[d] /\ p[d] < area.hi[d]}
  <2>1. \A d \in RegionAxes : 0 <= area.lo[d] /\ area.hi[d] <= size[d]
    BY <1>2
  <2> QED BY <1>3, <2>1, VoxelsAre
<1>5. VoxelsOf(size) = {p \in [RegionAxes -> Int] : \A d \in RegionAxes : 0 <= p[d] /\ p[d] < size[d]}
  BY VoxelsAre
<1>6. ASSUME NEW p \in [RegionAxes -> Int]
      PROVE  (\A d \in RegionAxes : area.lo[d] <= p[d] /\ p[d] < area.hi[d]) <=>
               (\A d \in RegionAxes : 0 <= p[d] /\ p[d] < size[d]) /\ Between(p, x, y)
  BY <1>2 DEF Between
<1>7. CellsFrom(area.lo, area.hi, Sides(size)) = {p \in VoxelsOf(size) : Between(p, x, y)}
  BY <1>4, <1>5, <1>6
<1> QED BY <1>7 DEF area

\* fill_area gives every voxel of the area the value and no other voxel anything.
LEMMA FilledFacts ==
  ASSUME BufferConstants, NEW c, NEW g, Shows(c, g), NEW v \in RawValues(c.depth),
         NEW x \in [RegionAxes -> Int], NEW y \in [RegionAxes -> Int]
  PROVE  /\ AreaFilled(c, v, x, y).size = c.size
         /\ Shows(AreaFilled(c, v, x, y), [p \in VoxelsOf(c.size) |-> IF Between(p, x, y) THEN v ELSE g[p]])
<1> DEFINE cells == {p \in VoxelsOf(c.size) : Between(p, x, y)}
           value == [p \in cells |-> v]
           h == [p \in VoxelsOf(c.size) |-> IF Between(p, x, y) THEN v ELSE g[p]]
<1>1. /\ ChannelOK(c) /\ c.size \in BufferSizes /\ g \in [VoxelsOf(c.size) -> RawValues(c.depth)]
      /\ \A p \in VoxelsOf(c.size) : ReadVoxel(c, p) = g[p]
  BY DEF Shows, ChannelOK
<1>2. AreaFilled(c, v, x, y) = IF cells = {} \/ (c.uniform /\ c.defval = v) THEN c ELSE Written(c, cells, value)
  BY <1>1, AreaIs DEF AreaFilled
<1>3. CASE cells = {} \/ (c.uniform /\ c.defval = v)
  <2>1. ASSUME NEW p \in VoxelsOf(c.size) PROVE h[p] = g[p]
    BY <1>1, <1>3 DEF ReadVoxel
  <2>2. h = g
    BY <1>1, <2>1
  <2> QED BY <1>2, <1>3, <2>2
<1>4. CASE ~ (cells = {} \/ (c.uniform /\ c.defval = v))
  <2>1. cells \in SUBSET VoxelsOf(c.size) /\ \A p \in cells : value[p] \in RawValues(c.depth)
    OBVIOUS
  <2>2. h = [p \in VoxelsOf(c.size) |-> IF p \in cells THEN value[p] ELSE g[p]]
    OBVIOUS
  <2> HIDE DEF cells, value, h
  <2>3. Written(c, cells, value).size = c.size /\ Shows(Written(c, cells, value), h)
    BY <2>1, <2>2, WrittenFacts
  <2>4. AreaFilled(c, v, x, y) = Written(c, cells, value)
    BY <1>2, <1>4
  <2>5. AreaFilled(c, v, x, y).size = c.size /\ Shows(AreaFilled(c, v, x, y), h)
    BY <2>3, <2>4
  <2> QED BY <2>5 DEF h
<1> QED BY <1>3, <1>4

\* One axis of a copied region: it stays in both buffers, a voxel of the destination is in it exactly
\* when its source is asked for and exists, and it lies as far from its source as it was asked to.
LEMMA CoordFacts ==
  ASSUME NEW smin \in Int, NEW smax \in Int, NEW ssize \in Nat, NEW dmin \in Int, NEW dsize \in Nat
  PROVE  LET r == ClippedCoord(smin, smax, ssize, dmin, dsize) IN
           /\ r.srcMin \in Int /\ r.srcMax \in Int /\ r.dstMin \in Int
           /\ 0 <= r.dstMin /\ r.dstMin + (r.srcMax - r.srcMin) <= dsize
           /\ r.dstMin - r.srcMin = dmin - smin
           /\ \A q \in 0 .. dsize - 1 :
                r.dstMin <= q /\ q < r.dstMin + (r.srcMax - r.srcMin) <=>
                  /\ smin <= q - dmin + smin /\ q - dmin + smin < smax
                  /\ 0 <= q - dmin + smin /\ q - dmin + smin < ssize
<1> DEFINE d1 == IF smin < 0 THEN dmin - smin ELSE dmin
           s1 == GreaterOf(smin, 0)
           m1 == LesserOf(smax, ssize)
           s2 == IF d1 < 0 THEN s1 - d1 ELSE s1
           d2 == GreaterOf(d1, 0)
           over == d2 + (m1 - s2) - dsize
           m2 == IF over > 0 THEN m1 - over ELSE m1
           r == ClippedCoord(smin, smax, ssize, dmin, dsize)
<1>1. r.srcMin = s2 /\ r.srcMax = m2 /\ r.dstMin = d2
  BY DEF ClippedCoord
<1>2. d1 \in Int /\ s1 \in Int /\ m1 \in Int /\ d1 - s1 = dmin - smin /\ 0 <= s1
  BY DEF GreaterOf, LesserOf
<1>3. s2 \in Int /\ d2 \in Int /\ 0 <= d2 /\ d2 - s2 = dmin - smin /\ 0 <= s2
  BY <1>2 DEF GreaterOf
<1>4. m2 \in Int /\ d2 + (m2 - s2) <= dsize
  BY <1>2, <1>3
<1>5. ASSUME NEW q \in 0 .. dsize - 1
      PROVE  d2 <= q /\ q < d2 + (m2 - s2) <=>
               /\ smin <= q - dmin + smin /\ q - dmin + smin < smax
               /\ 0 <= q - dmin + smin /\ q - dmin + smin < ssize
  <2>1. d2 <= q <=> smin <= q - dmin + smin /\ 0 <= q - dmin + smin
    BY DEF GreaterOf
  <2>2. q < d2 + (m2 - s2) <=> q < d2 + (m1 - s2)
    BY <1>2, <1>3
  <2>3. q < d2 + (m1 - s2) <=> q - dmin + smin < m1
    BY <1>2, <1>3
  <2>4. q - dmin + smin < m1 <=> q - dmin + smin < smax /\ q - dmin + smin < ssize
    BY DEF LesserOf
  <2> HIDE DEF d2, s2, m1, m2
  <2> QED BY <2>1, <2>2, <2>3, <2>4
<1> HIDE DEF r, s2, d2, m2
<1>6. /\ r.srcMin \in Int /\ r.srcMax \in Int /\ r.dstMin \in Int
      /\ 0 <= r.dstMin /\ r.dstMin + (r.srcMax - r.srcMin) <= dsize
      /\ r.dstMin - r.srcMin = dmin - smin
      /\ \A q \in 0 .. dsize - 1 :
           r.dstMin <= q /\ q < r.dstMin + (r.srcMax - r.srcMin) <=>
             /\ smin <= q - dmin + smin /\ q - dmin + smin < smax
             /\ 0 <= q - dmin + smin /\ q - dmin + smin < ssize
  BY <1>1, <1>3, <1>4, <1>5
<1> QED BY <1>6 DEF r

\* copy_channel_from_area gives every voxel whose source is asked for and exists the value of its
\* source, and no other voxel anything.
LEMMA AreaCopiedFacts ==
  ASSUME BufferConstants, NEW c, NEW g, Shows(c, g), NEW src, NEW h, Shows(src, h), src.depth = c.depth,
         NEW x \in [RegionAxes -> Int], NEW y \in [RegionAxes -> Int], NEW at \in [RegionAxes -> Int]
  PROVE  LET from(p) == Plus(Minus(p, at), SortedMin(x, y)) IN
           /\ AreaCopied(c, src, x, y, at).size = c.size
           /\ Shows(AreaCopied(c, src, x, y, at),
                    [p \in VoxelsOf(c.size) |->
                       IF Between(from(p), x, y) /\ from(p) \in VoxelsOf(src.size) THEN h[from(p)] ELSE g[p]])
<1> DEFINE From(p) == Plus(Minus(p, at), SortedMin(x, y))
           asked == {p \in VoxelsOf(c.size) : Between(From(p), x, y) /\ From(p) \in VoxelsOf(src.size)}
           r == ClippedRegion(SortedMin(x, y), SortedMax(x, y), src.size, at, c.size)
           size == Minus(r.srcMax, r.srcMin)
           hi == Plus(r.dstMin, size)
           cells == CellsFrom(r.dstMin, hi, Sides(c.size))
           value == [p \in cells |-> ReadVoxel(src, Plus(Minus(p, r.dstMin), r.srcMin))]
           k == [p \in VoxelsOf(c.size) |->
                   IF Between(From(p), x, y) /\ From(p) \in VoxelsOf(src.size) THEN h[From(p)] ELSE g[p]]
           new == AreaCopied(c, src, x, y, at)
<1> SUFFICES new.size = c.size /\ Shows(new, k)
  OBVIOUS
<1>1. /\ ChannelOK(c) /\ c.size \in BufferSizes /\ c.depth \in Depths
      /\ ChannelOK(src) /\ src.size \in BufferSizes
      /\ c.size \in [RegionAxes -> Nat \ {0}] /\ src.size \in [RegionAxes -> Nat \ {0}]
      /\ g \in [VoxelsOf(c.size) -> RawValues(c.depth)] /\ h \in [VoxelsOf(src.size) -> RawValues(c.depth)]
      /\ \A p \in VoxelsOf(c.size) : ReadVoxel(c, p) = g[p]
      /\ \A p \in VoxelsOf(src.size) : ReadVoxel(src, p) = h[p]
  BY DEF Shows, ChannelOK, BufferConstants
<1>2. ASSUME NEW d \in RegionAxes
      PROVE  /\ r.srcMin[d] \in Int /\ r.srcMax[d] \in Int /\ r.dstMin[d] \in Int
             /\ hi[d] = r.dstMin[d] + (r.srcMax[d] - r.srcMin[d])
             /\ 0 <= r.dstMin[d] /\ hi[d] <= c.size[d]
             /\ r.dstMin[d] - r.srcMin[d] = at[d] - SortedMin(x, y)[d]
             /\ SortedMin(x, y)[d] = LesserOf(x[d], y[d]) /\ SortedMin(x, y)[d] \in Int
             /\ \A q \in 0 .. c.size[d] - 1 :
                  r.dstMin[d] <= q /\ q < hi[d] <=>
                    LET f == q - at[d] + SortedMin(x, y)[d] IN
                      /\ LesserOf(x[d], y[d]) <= f /\ f < GreaterOf(x[d], y[d])
                      /\ 0 <= f /\ f < src.size[d]
  <2> DEFINE smin == LesserOf(x[d], y[d])
             smax == GreaterOf(x[d], y[d])
             e == ClippedCoord(smin, smax, src.size[d], at[d], c.size[d])
  <2>1. SortedMin(x, y)[d] = smin /\ SortedMax(x, y)[d] = smax
    BY DEF SortedMin, SortedMax
  <2>2. r.srcMin[d] = e.srcMin /\ r.srcMax[d] = e.srcMax /\ r.dstMin[d] = e.dstMin
    BY <2>1 DEF ClippedRegion
  <2>3. hi[d] = r.dstMin[d] + (r.srcMax[d] - r.srcMin[d])
    BY DEF Plus, Minus
  <2>4. smin \in Int /\ smax \in Int /\ src.size[d] \in Nat /\ at[d] \in Int /\ c.size[d] \in Nat
    BY <1>1 DEF LesserOf, GreaterOf
  <2> HIDE DEF smin, smax, r, hi
  <2>5. /\ e.srcMin \in Int /\ e.srcMax \in Int /\ e.dstMin \in Int
        /\ 0 <= e.dstMin /\ e.dstMin + (e.srcMax - e.srcMin) <= c.size[d]
        /\ e.dstMin - e.srcMin = at[d] - smin
        /\ \A q \in 0 .. c.size[d] - 1 :
             e.dstMin <= q /\ q < e.dstMin + (e.srcMax - e.srcMin) <=>
               /\ smin <= q - at[d] + smin /\ q - at[d] + smin < smax
               /\ 0 <= q - at[d] + smin /\ q - at[d] + smin < src.size[d]
    <3> DEFINE ssize == src.size[d]
               dsize == c.size[d]
               place == at[d]
    <3>1. ssize \in Nat /\ dsize \in Nat /\ place \in Int /\ smin \in Int /\ smax \in Int
      BY <2>4
    <3> HIDE DEF ssize, dsize, place
    <3> DEFINE o == ClippedCoord(smin, smax, ssize, place, dsize)
    <3>2. /\ o.srcMin \in Int /\ o.srcMax \in Int /\ o.dstMin \in Int
          /\ 0 <= o.dstMin /\ o.dstMin + (o.srcMax - o.srcMin) <= dsize
          /\ o.dstMin - o.srcMin = place - smin
          /\ \A q \in 0 .. dsize - 1 :
               o.dstMin <= q /\ q < o.dstMin + (o.srcMax - o.srcMin) <=>
                 /\ smin <= q - place + smin /\ q - place + smin < smax
                 /\ 0 <= q - place + smin /\ q - place + smin < ssize
      BY <3>1, CoordFacts
    <3>3. o = e
      BY DEF ssize, dsize, place
    <3> HIDE DEF o, e
    <3> QED BY <3>2, <3>3 DEF ssize, dsize, place
  <2> HIDE DEF e
  <2> QED BY <2>1, <2>2, <2>3, <2>4, <2>5 DEF smin, smax
<1>3. /\ r.dstMin \in [RegionAxes -> Int] /\ hi \in [RegionAxes -> Int]
      /\ \A d \in RegionAxes : 0 <= r.dstMin[d] /\ hi[d] <= c.size[d]
  <2>1. r.dstMin = [d \in RegionAxes |-> r.dstMin[d]]
    BY DEF ClippedRegion
  <2>2. hi = [d \in RegionAxes |-> hi[d]]
    BY DEF Plus
  <2> HIDE DEF r, hi
  <2>3. \A d \in RegionAxes : r.dstMin[d] \in Int /\ hi[d] \in Int
    BY <1>2
  <2> QED BY <1>2, <2>1, <2>2, <2>3
<1>4. cells = {p \in [RegionAxes -> Int] : \A d \in RegionAxes : r.dstMin[d] <= p[d] /\ p[d] < hi[d]}
  <2>1. \A lo, up \in [RegionAxes -> Int] :
          (\A d \in RegionAxes : 0 <= lo[d] /\ up[d] <= c.size[d]) =>
            CellsFrom(lo, up, Sides(c.size)) =
              {p \in [RegionAxes -> Int] : \A d \in RegionAxes : lo[d] <= p[d] /\ p[d] < up[d]}
    BY <1>1, VoxelsAre
  <2> HIDE DEF r, hi
  <2> QED BY <1>3, <2>1
<1>5. /\ VoxelsOf(c.size) = {p \in [RegionAxes -> Int] : \A d \in RegionAxes : 0 <= p[d] /\ p[d] < c.size[d]}
      /\ VoxelsOf(src.size) = {p \in [RegionAxes -> Int] : \A d \in RegionAxes : 0 <= p[d] /\ p[d] < src.size[d]}
  BY <1>1, VoxelsAre
<1>6. ASSUME NEW p \in VoxelsOf(c.size)
      PROVE  /\ From(p) \in [RegionAxes -> Int]
             /\ \A d \in RegionAxes : From(p)[d] = p[d] - at[d] + SortedMin(x, y)[d]
             /\ Plus(Minus(p, r.dstMin), r.srcMin) = From(p)
             /\ p \in cells <=> p \in asked
  <2>1. p \in [RegionAxes -> Int]
    BY <1>5
  <2>2. ASSUME NEW d \in RegionAxes
        PROVE  /\ From(p)[d] = p[d] - at[d] + SortedMin(x, y)[d] /\ From(p)[d] \in Int
               /\ Plus(Minus(p, r.dstMin), r.srcMin)[d] = From(p)[d]
    <3>1. /\ From(p)[d] = p[d] - at[d] + SortedMin(x, y)[d]
          /\ Plus(Minus(p, r.dstMin), r.srcMin)[d] = p[d] - r.dstMin[d] + r.srcMin[d]
      BY DEF Plus, Minus
    <3>2. /\ r.srcMin[d] \in Int /\ r.dstMin[d] \in Int /\ SortedMin(x, y)[d] \in Int
          /\ r.dstMin[d] - r.srcMin[d] = at[d] - SortedMin(x, y)[d]
      BY <1>2
    <3>3. p[d] \in Int /\ at[d] \in Int
      BY <2>1
    <3> HIDE DEF r, From
    <3> QED BY <3>1, <3>2, <3>3
  <2>3. /\ From(p) = [d \in RegionAxes |-> From(p)[d]]
        /\ Plus(Minus(p, r.dstMin), r.srcMin) = [d \in RegionAxes |-> Plus(Minus(p, r.dstMin), r.srcMin)[d]]
    BY DEF Plus
  <2> HIDE DEF r, hi, From, cells
  <2>4. From(p) \in [RegionAxes -> Int]
    BY <2>2, <2>3
  <2>5. Plus(Minus(p, r.dstMin), r.srcMin) = From(p)
    BY <2>2, <2>3
  <2>6. p \in cells <=> \A d \in RegionAxes : r.dstMin[d] <= p[d] /\ p[d] < hi[d]
    BY <1>4, <2>1
  <2>7. ASSUME NEW d \in RegionAxes
        PROVE  r.dstMin[d] <= p[d] /\ p[d] < hi[d] <=>
                 /\ LesserOf(x[d], y[d]) <= From(p)[d] /\ From(p)[d] < GreaterOf(x[d], y[d])
                 /\ 0 <= From(p)[d] /\ From(p)[d] < src.size[d]
    <3>1. p[d] \in 0 .. c.size[d] - 1
      BY <1>1, <1>5
    <3> QED BY <1>2, <2>2, <3>1
  <2>8. p \in asked <=> \A d \in RegionAxes :
                          /\ LesserOf(x[d], y[d]) <= From(p)[d] /\ From(p)[d] < GreaterOf(x[d], y[d])
                          /\ 0 <= From(p)[d] /\ From(p)[d] < src.size[d]
    BY <1>5, <2>4 DEF Between
  <2> QED BY <2>2, <2>4, <2>5, <2>6, <2>7, <2>8
<1>7. cells \subseteq VoxelsOf(c.size)
  <2> HIDE DEF r, hi, cells
  <2>1. ASSUME NEW p \in cells PROVE p \in VoxelsOf(c.size)
    <3>1. p \in [RegionAxes -> Int] /\ \A d \in RegionAxes : r.dstMin[d] <= p[d] /\ p[d] < hi[d]
      BY <1>4
    <3>2. ASSUME NEW d \in RegionAxes PROVE 0 <= p[d] /\ p[d] < c.size[d]
      <4>1. p[d] \in Int /\ r.dstMin[d] \in Int /\ hi[d] \in Int /\ c.size[d] \in Int
        BY <1>1, <1>3, <3>1
      <4> QED BY <1>3, <3>1, <4>1
    <3> QED BY <1>5, <3>1, <3>2
  <2> QED BY <2>1
<1>8. k = [p \in VoxelsOf(c.size) |-> IF p \in cells THEN h[From(p)] ELSE g[p]]
  <2> HIDE DEF r, hi, cells, From
  <2>1. \A p \in VoxelsOf(c.size) : p \in cells <=> Between(From(p), x, y) /\ From(p) \in VoxelsOf(src.size)
    BY <1>6
  <2> QED BY <2>1
<1>9. \A p \in cells : /\ From(p) \in VoxelsOf(src.size)
                       /\ ReadVoxel(src, Plus(Minus(p, r.dstMin), r.srcMin)) = h[From(p)]
                       /\ h[From(p)] \in RawValues(c.depth)
  BY <1>1, <1>6, <1>7
<1>10. new =
         CASE cells = {} -> c
           [] cells # {} /\ ~ src.uniform -> Written(c, cells, value)
           [] OTHER -> AreaFilled(c, src.defval, r.dstMin, hi)
  BY DEF AreaCopied
<1> HIDE DEF r, hi, cells, From, k, new
<1>11. CASE cells = {}
  <2>1. k = g
    BY <1>1, <1>8, <1>11
  <2>2. new = c
    BY <1>10, <1>11
  <2> QED BY <2>1, <2>2
<1>12. CASE cells # {} /\ ~ src.uniform
  <2>1. \A p \in cells : value[p] = h[From(p)] /\ value[p] \in RawValues(c.depth)
    BY <1>9
  <2>2. k = [p \in VoxelsOf(c.size) |-> IF p \in cells THEN value[p] ELSE g[p]]
    BY <1>8, <2>1
  <2> HIDE DEF value
  <2>3. Written(c, cells, value).size = c.size /\ Shows(Written(c, cells, value), k)
    BY <1>7, <2>1, <2>2, WrittenFacts
  <2>4. new = Written(c, cells, value)
    BY <1>10, <1>12
  <2> QED BY <2>3, <2>4
<1>13. CASE cells # {} /\ src.uniform
  <2>1. new = AreaFilled(c, src.defval, r.dstMin, hi)
    BY <1>10, <1>13
  <2>2. src.defval \in RawValues(c.depth)
    BY <1>1 DEF ChannelOK
  <2>3. ASSUME NEW p \in VoxelsOf(c.size) PROVE Between(p, r.dstMin, hi) <=> p \in cells
    <3>1. PICK o \in cells : TRUE
      BY <1>13
    <3>2. ASSUME NEW d \in RegionAxes PROVE LesserOf(r.dstMin[d], hi[d]) = r.dstMin[d] /\ GreaterOf(r.dstMin[d], hi[d]) = hi[d]
      <4>1. o[d] \in Int /\ r.dstMin[d] \in Int /\ hi[d] \in Int /\ r.dstMin[d] <= o[d] /\ o[d] < hi[d]
        BY <1>3, <1>4
      <4> QED BY <4>1 DEF LesserOf, GreaterOf
    <3>3. p \in [RegionAxes -> Int]
      BY <1>5
    <3> QED BY <1>4, <3>2, <3>3 DEF Between
  <2>4. \A p \in cells : h[From(p)] = src.defval
    BY <1>1, <1>9, <1>13 DEF ReadVoxel
  <2>5. k = [p \in VoxelsOf(c.size) |-> IF Between(p, r.dstMin, hi) THEN src.defval ELSE g[p]]
    BY <1>8, <2>3, <2>4
  <2> DEFINE v == src.defval
             area == [p \in VoxelsOf(c.size) |-> IF Between(p, r.dstMin, hi) THEN v ELSE g[p]]
             f == AreaFilled(c, v, r.dstMin, hi)
  <2>6. f.size = c.size /\ Shows(f, area)
    <3> DEFINE lo == r.dstMin
    <3>1. lo \in [RegionAxes -> Int] /\ hi \in [RegionAxes -> Int] /\ v \in RawValues(c.depth)
      BY <1>3, <2>2
    <3> HIDE DEF v, lo
    <3>2. /\ AreaFilled(c, v, lo, hi).size = c.size
          /\ Shows(AreaFilled(c, v, lo, hi), [p \in VoxelsOf(c.size) |-> IF Between(p, lo, hi) THEN v ELSE g[p]])
      BY <3>1, FilledFacts
    <3> QED BY <3>2 DEF lo
  <2>7. k = area /\ new = f
    BY <2>1, <2>5
  <2> HIDE DEF area, f
  <2> QED BY <2>6, <2>7
<1>14. src.uniform \in BOOLEAN
  BY <1>1 DEF ChannelOK
<1> QED BY <1>11, <1>12, <1>13, <1>14

\* downscale_to gives every voxel of the halved region the value of one of its eight sources, and no
\* other voxel anything.
LEMMA DownscaledFacts ==
  ASSUME BufferConstants, NEW c, NEW g, Shows(c, g), NEW src, NEW h, Shows(src, h), src.depth = c.depth,
         NEW at \in [RegionAxes -> Int], NEW half, half = [d \in RegionAxes |-> src.size[d] \div 2],
         \A d \in RegionAxes : 0 <= at[d] /\ at[d] + half[d] <= c.size[d] /\ at[d] < c.size[d]
  PROVE  LET from(p) == [d \in RegionAxes |-> 2 * (p[d] - at[d])] IN
           /\ DownscaledInto(c, src, Point(0), src.size, at).size = c.size
           /\ Shows(DownscaledInto(c, src, Point(0), src.size, at),
                    [p \in VoxelsOf(c.size) |-> IF Between(p, at, Plus(at, half)) THEN h[from(p)] ELSE g[p]])
<1> DEFINE From(p) == [d \in RegionAxes |-> 2 * (p[d] - at[d])]
           sMin == [d \in RegionAxes |-> Clamped(Point(0)[d], 0, src.size[d] - 1)]
           sMax == [d \in RegionAxes |-> Clamped(src.size[d], 0, src.size[d])]
           dMin == [d \in RegionAxes |-> Clamped(at[d], 0, c.size[d] - 1)]
           dMax == [d \in RegionAxes |-> Clamped(at[d] + (sMax[d] - sMin[d]) \div 2, 0, c.size[d])]
           cells == {p \in VoxelsOf(c.size) : Between(p, at, Plus(at, half))}
           value == [p \in cells |-> ReadVoxel(src, From(p))]
           new == DownscaledInto(c, src, Point(0), src.size, at)
           k == [p \in VoxelsOf(c.size) |-> IF Between(p, at, Plus(at, half)) THEN h[From(p)] ELSE g[p]]
<1> SUFFICES new.size = c.size /\ Shows(new, k)
  OBVIOUS
<1>1. /\ ChannelOK(c) /\ c.size \in BufferSizes /\ c.depth \in Depths
      /\ ChannelOK(src) /\ src.size \in BufferSizes
      /\ c.size \in [RegionAxes -> Nat \ {0}] /\ src.size \in [RegionAxes -> Nat \ {0}]
      /\ g \in [VoxelsOf(c.size) -> RawValues(c.depth)] /\ h \in [VoxelsOf(src.size) -> RawValues(c.depth)]
      /\ \A p \in VoxelsOf(c.size) : ReadVoxel(c, p) = g[p]
      /\ \A p \in VoxelsOf(src.size) : ReadVoxel(src, p) = h[p]
  BY DEF Shows, ChannelOK, BufferConstants
<1>2. ASSUME NEW d \in RegionAxes
      PROVE  /\ half[d] \in Nat /\ 2 * half[d] <= src.size[d] /\ half[d] = src.size[d] \div 2
  <2>1. \A n \in Nat : n \div 2 \in Nat /\ 2 * (n \div 2) <= n
    OBVIOUS
  <2>2. src.size[d] \in Nat /\ half[d] = src.size[d] \div 2
    BY <1>1
  <2> QED BY <2>1, <2>2
<1>3. half \in [RegionAxes -> Nat] /\ Plus(at, half) \in [RegionAxes -> Int]
      /\ \A d \in RegionAxes : Plus(at, half)[d] = at[d] + half[d]
  BY <1>2 DEF Plus
<1>4. sMin = Point(0)
  <2>1. ASSUME NEW d \in RegionAxes PROVE sMin[d] = 0 /\ Point(0)[d] = 0
    <3>1. src.size[d] \in Nat \ {0} /\ Point(0)[d] = 0
      BY <1>1 DEF Point
    <3> QED BY <3>1 DEF Clamped, GreaterOf, LesserOf
  <2> QED BY <2>1 DEF Point
<1>5. sMax = src.size
  <2>1. ASSUME NEW d \in RegionAxes PROVE sMax[d] = src.size[d]
    <3>1. src.size[d] \in Nat \ {0}
      BY <1>1
    <3> QED BY <3>1 DEF Clamped, GreaterOf, LesserOf
  <2> QED BY <1>1, <2>1
<1>6. dMin = at
  <2>1. ASSUME NEW d \in RegionAxes PROVE dMin[d] = at[d]
    <3>1. c.size[d] \in Nat \ {0} /\ at[d] \in Int /\ 0 <= at[d] /\ at[d] < c.size[d]
      BY <1>1
    <3> QED BY <3>1 DEF Clamped, GreaterOf, LesserOf
  <2> QED BY <2>1
<1>7. dMax = Plus(at, half)
  <2>1. ASSUME NEW d \in RegionAxes PROVE dMax[d] = at[d] + half[d]
    <3>1. sMax[d] = src.size[d] /\ sMin[d] = 0
      BY <1>4, <1>5 DEF Point
    <3>2. dMax[d] = Clamped(at[d] + (sMax[d] - sMin[d]) \div 2, 0, c.size[d])
      OBVIOUS
    <3>3. src.size[d] - 0 = src.size[d]
      BY <1>1
    <3>4. dMax[d] = Clamped(at[d] + half[d], 0, c.size[d])
      <4> HIDE DEF sMin, sMax, dMax
      <4> QED BY <1>2, <3>1, <3>2, <3>3
    <3>5. c.size[d] \in Nat \ {0} /\ at[d] \in Int /\ half[d] \in Nat /\ 0 <= at[d] /\ at[d] + half[d] <= c.size[d]
      BY <1>1, <1>2
    <3> HIDE DEF dMax
    <3> QED BY <3>4, <3>5 DEF Clamped, GreaterOf, LesserOf
  <2> QED BY <1>3, <2>1 DEF Plus
<1>8. new = IF src.uniform /\ c.uniform /\ src.defval = c.defval THEN c
            ELSE AreaActed(c, dMin, dMax, LAMBDA p, v : ReadVoxel(src, [d \in RegionAxes |-> sMin[d] + 2 * (p[d] - dMin[d])]))
  BY DEF DownscaledInto
<1>9. CellsFrom(ClippedArea(c.size, at, Plus(at, half)).lo, ClippedArea(c.size, at, Plus(at, half)).hi,
                Sides(c.size)) = cells
  BY <1>1, <1>3, AreaIs
<1>10. AreaActed(c, dMin, dMax, LAMBDA p, v : ReadVoxel(src, [d \in RegionAxes |-> sMin[d] + 2 * (p[d] - dMin[d])])) =
         IF cells = {} THEN c
         ELSE Written(c, cells, [p \in cells |-> ReadVoxel(src, [d \in RegionAxes |-> sMin[d] + 2 * (p[d] - dMin[d])])])
  <2> HIDE DEF dMin, dMax, sMin, cells
  <2> QED BY <1>6, <1>7, <1>9 DEF AreaActed
<1>11. ASSUME NEW p \in cells
       PROVE  /\ [d \in RegionAxes |-> sMin[d] + 2 * (p[d] - dMin[d])] = From(p)
              /\ From(p) \in VoxelsOf(src.size)
  <2>1. p \in [RegionAxes -> Int] /\ Between(p, at, Plus(at, half))
    BY <1>1, VoxelsAre
  <2>2. ASSUME NEW d \in RegionAxes
        PROVE  /\ sMin[d] + 2 * (p[d] - dMin[d]) = From(p)[d]
               /\ From(p)[d] \in Int /\ 0 <= From(p)[d] /\ From(p)[d] < src.size[d]
    <3>1. /\ p[d] \in Int /\ at[d] \in Int /\ half[d] \in Nat /\ 2 * half[d] <= src.size[d] /\ src.size[d] \in Nat
          /\ sMin[d] = 0 /\ dMin[d] = at[d] /\ From(p)[d] = 2 * (p[d] - at[d]) /\ Plus(at, half)[d] = at[d] + half[d]
      <4>1. sMin[d] = 0 /\ dMin[d] = at[d]
        BY <1>4, <1>6 DEF Point
      <4> HIDE DEF sMin, dMin
      <4> QED BY <1>1, <1>2, <1>3, <2>1, <4>1
    <3>2. LesserOf(at[d], Plus(at, half)[d]) <= p[d] /\ p[d] < GreaterOf(at[d], Plus(at, half)[d])
      BY <2>1 DEF Between
    <3> HIDE DEF From, sMin, dMin
    <3>3. at[d] <= p[d] /\ p[d] < at[d] + half[d]
      BY <3>1, <3>2 DEF LesserOf, GreaterOf
    <3> QED BY <3>1, <3>3
  <2>3. [d \in RegionAxes |-> sMin[d] + 2 * (p[d] - dMin[d])] = From(p)
    <3> HIDE DEF sMin, dMin
    <3> QED BY <2>2
  <2>4. From(p) \in [RegionAxes -> Int]
    BY <2>1
  <2> HIDE DEF From
  <2> QED BY <1>1, <2>2, <2>3, <2>4, VoxelsAre
<1>12. new = IF (src.uniform /\ c.uniform /\ src.defval = c.defval) \/ cells = {} THEN c ELSE Written(c, cells, value)
  <2>1. [p \in cells |-> ReadVoxel(src, [d \in RegionAxes |-> sMin[d] + 2 * (p[d] - dMin[d])])] = value
    <3> HIDE DEF sMin, dMin, cells, From
    <3> QED BY <1>11
  <2> HIDE DEF new, value, cells, sMin, sMax, dMin, dMax
  <2> QED BY <1>8, <1>10, <2>1
<1>13. \A p \in cells : value[p] = h[From(p)] /\ value[p] \in RawValues(c.depth)
  <2> HIDE DEF From, cells
  <2> QED BY <1>1, <1>11
<1>14. k = [p \in VoxelsOf(c.size) |-> IF p \in cells THEN value[p] ELSE g[p]]
  <2>1. k = [p \in VoxelsOf(c.size) |-> IF p \in cells THEN h[From(p)] ELSE g[p]]
    <3> HIDE DEF From
    <3> QED OBVIOUS
  <2> HIDE DEF value, From, cells, k
  <2> QED BY <1>13, <2>1
<1> HIDE DEF new, value, From, sMin, sMax, dMin, dMax, k
<1>15. CASE (src.uniform /\ c.uniform /\ src.defval = c.defval) \/ cells = {}
  <2>1. ASSUME NEW p \in cells PROVE value[p] = g[p]
    <3>1. value[p] = ReadVoxel(src, From(p)) /\ p \in VoxelsOf(c.size)
      BY DEF value
    <3> HIDE DEF cells
    <3> QED BY <1>1, <1>15, <3>1 DEF ReadVoxel
  <2>2. k = g
    <3> HIDE DEF cells
    <3> QED BY <1>1, <1>14, <2>1
  <2> HIDE DEF cells
  <2> QED BY <1>12, <1>15, <2>2
<1>16. CASE ~ ((src.uniform /\ c.uniform /\ src.defval = c.defval) \/ cells = {})
  <2>1. cells \in SUBSET VoxelsOf(c.size)
    OBVIOUS
  <2> HIDE DEF cells
  <2> DEFINE grid == [p \in VoxelsOf(c.size) |-> IF p \in cells THEN value[p] ELSE g[p]]
             w == Written(c, cells, value)
  <2>4. \A p \in cells : value[p] \in RawValues(c.depth)
    BY <1>13
  <2>5. w.size = c.size /\ Shows(w, grid)
    BY <2>1, <2>4, WrittenFacts
  <2>6. k = grid
    BY <1>14
  <2> HIDE DEF grid
  <2>2. w.size = c.size /\ Shows(w, k)
    BY <2>5, <2>6
  <2>3. new = Written(c, cells, value)
    BY <1>12, <1>16
  <2> QED BY <2>2, <2>3
<1> QED BY <1>15, <1>16

\* An operation on one buffer leaves the others as they are.
LEMMA BufferStep ==
  ASSUME BuffersInv, NEW b \in Buffers, NEW c, NEW g, Shows(c, g), Step(b, c, g)
  PROVE  BuffersInv'
<1>1. buf' = [buf EXCEPT ![b] = c] /\ plain' = [plain EXCEPT ![b] = g]
  BY DEF Step
<1>2. buf' = [a \in Buffers |-> IF a = b THEN c ELSE buf[a]] /\ plain' = [a \in Buffers |-> IF a = b THEN g ELSE plain[a]]
  BY <1>1 DEF BuffersInv
<1>3. ASSUME NEW a \in Buffers PROVE Shows(buf'[a], plain'[a])
  BY <1>2 DEF BuffersInv
<1> QED BY <1>2, <1>3 DEF BuffersInv

LEMMA BuffersInitInv == ASSUME BufferConstants, BuffersInit PROVE BuffersInv
<1>1. PICK depth \in Depths, size \in BufferSizes :
        /\ buf = [b \in Buffers |-> UniformChannel(size, depth, DefaultRaw(depth))]
        /\ plain = [b \in Buffers |-> [p \in VoxelsOf(size) |-> DefaultRaw(depth)]]
  BY DEF BuffersInit
<1>2. Shows(UniformChannel(size, depth, DefaultRaw(depth)), Everywhere(size, DefaultRaw(depth)))
  BY ReadFacts
<1>3. ASSUME NEW b \in Buffers PROVE Shows(buf[b], plain[b])
  BY <1>1, <1>2 DEF Everywhere
<1>4. buf = [b \in Buffers |-> buf[b]] /\ plain = [b \in Buffers |-> plain[b]]
  BY <1>1
<1> QED BY <1>3, <1>4 DEF BuffersInv

\* One case per operation: what it makes of the channel shows what it makes of the grid.
LEMMA BuffersNextInv == ASSUME BufferConstants, BuffersInv, BuffersNext PROVE BuffersInv'
<1>1. PICK b \in Buffers :
        \/ \E size \in BufferSizes : Create(b, size)
        \/ \E depth \in Depths : SetChannelDepth(b, depth)
        \/ \E v \in RawValues(buf[b].depth) :
             \/ Fill(b, v)
             \/ \E p \in VoxelsOf(buf[b].size) : SetVoxel(b, p, v)
             \/ \E x, y \in AreaCorners : FillArea(b, v, x, y)
        \/ Compress(b) \/ Decompress(b)
        \/ \E a \in Buffers :
             \/ CopyTo(b, a)
             \/ \E x, y, at \in AreaCorners : CopyArea(b, a, x, y, at)
             \/ \E at \in AreaCorners : Downscale(b, a, at)
  BY DEF BuffersNext
<1> DEFINE c == buf[b]
           g == plain[b]
<1>2. /\ Shows(c, g) /\ ChannelOK(c) /\ c.size \in BufferSizes /\ c.depth \in Depths
      /\ DOMAIN g = VoxelsOf(c.size) /\ g \in [VoxelsOf(c.size) -> RawValues(c.depth)]
  BY DEF BuffersInv, Shows, ChannelOK
<1>3. \A a \in Buffers : /\ Shows(buf[a], plain[a]) /\ ChannelOK(buf[a]) /\ buf[a].size \in BufferSizes
                         /\ buf[a].depth \in Depths /\ DOMAIN plain[a] = VoxelsOf(buf[a].size)
  BY DEF BuffersInv, Shows, ChannelOK
<1>4. AreaCorners \subseteq [RegionAxes -> Int]
  BY DEF BufferConstants
<1> HIDE DEF c, g
<1>5. ASSUME NEW size \in BufferSizes, Create(b, size) PROVE BuffersInv'
  <2>1. Shows(Created(c, size), Everywhere(size, DefaultRaw(c.depth)))
    BY <1>2, ReadFacts DEF Created
  <2>2. Step(b, Created(c, size), Everywhere(size, DefaultRaw(c.depth)))
    BY <1>5 DEF Create, c
  <2> QED BY <2>1, <2>2, BufferStep
<1>6. ASSUME NEW depth \in Depths, SetChannelDepth(b, depth) PROVE BuffersInv'
  <2> DEFINE h == IF depth = c.depth THEN g ELSE Everywhere(c.size, DefaultRaw(depth))
  <2>1. Shows(WithDepth(c, depth), h)
    BY <1>2, ReadFacts DEF WithDepth
  <2>2. Step(b, WithDepth(c, depth), h)
    BY <1>6 DEF SetChannelDepth, c, g
  <2> QED BY <2>1, <2>2, BufferStep
<1>7. ASSUME NEW v \in RawValues(c.depth), Fill(b, v) PROVE BuffersInv'
  <2>1. Shows(Cleared(c, v), Everywhere(c.size, v))
    BY <1>2, ReadFacts DEF Cleared
  <2>2. Step(b, Cleared(c, v), Everywhere(c.size, v))
    BY <1>7 DEF Fill, c
  <2> QED BY <2>1, <2>2, BufferStep
<1>8. ASSUME NEW v \in RawValues(c.depth), NEW p \in VoxelsOf(c.size), SetVoxel(b, p, v) PROVE BuffersInv'
  <2> DEFINE cells == {p}
             value == [q \in {p} |-> v]
             h == [q \in VoxelsOf(c.size) |-> IF q \in cells THEN value[q] ELSE g[q]]
  <2>1. Step(b, Written(c, cells, value), [g EXCEPT ![p] = v])
    BY <1>8 DEF SetVoxel, c, g
  <2>2. [g EXCEPT ![p] = v] = h
    BY <1>2
  <2>3. cells \in SUBSET VoxelsOf(c.size) /\ \A q \in cells : value[q] \in RawValues(c.depth)
    OBVIOUS
  <2> HIDE DEF cells, value
  <2>4. Shows(Written(c, cells, value), h)
    BY <1>2, <2>3, WrittenFacts
  <2> HIDE DEF h
  <2> QED BY <2>1, <2>2, <2>4, BufferStep
<1>9. ASSUME NEW v \in RawValues(c.depth), NEW x \in AreaCorners, NEW y \in AreaCorners, FillArea(b, v, x, y)
      PROVE  BuffersInv'
  <2> DEFINE h == [p \in VoxelsOf(c.size) |-> IF Between(p, x, y) THEN v ELSE g[p]]
  <2>1. Step(b, AreaFilled(c, v, x, y), h)
    BY <1>2, <1>9 DEF FillArea, c, g
  <2>2. Shows(AreaFilled(c, v, x, y), h)
    BY <1>2, <1>4, FilledFacts
  <2> HIDE DEF h
  <2> QED BY <2>1, <2>2, BufferStep
<1>10. ASSUME Compress(b) PROVE BuffersInv'
  <2>1. Step(b, Compressed(c), g)
    BY <1>10 DEF Compress, c, g
  <2> QED BY <1>2, <2>1, CompressedFacts, BufferStep
<1>11. ASSUME Decompress(b) PROVE BuffersInv'
  <2>1. Step(b, Decompressed(c), g)
    BY <1>11 DEF Decompress, c, g
  <2>2. Shows(Decompressed(c), g)
    BY <1>2, DecompressedFacts
  <2> QED BY <2>1, <2>2, BufferStep
<1>12. ASSUME NEW a \in Buffers, CopyTo(b, a) PROVE BuffersInv'
  <2>1. Step(b, buf[a], plain[a])
    BY <1>3, <1>12, CopiedIsSource DEF CopyTo
  <2> QED BY <1>3, <2>1, BufferStep
<1>13. ASSUME NEW a \in Buffers, NEW x \in AreaCorners, NEW y \in AreaCorners, NEW at \in AreaCorners, CopyArea(b, a, x, y, at)
       PROVE  BuffersInv'
  <2> DEFINE From(p) == Plus(Minus(p, at), SortedMin(x, y))
             h == [p \in VoxelsOf(c.size) |->
                     IF Between(From(p), x, y) /\ From(p) \in VoxelsOf(buf[a].size) THEN plain[a][From(p)] ELSE g[p]]
  <2>1. buf[a].depth = c.depth /\ Step(b, AreaCopied(c, buf[a], x, y, at), h)
    BY <1>2, <1>3, <1>13 DEF CopyArea, c, g
  <2>2. Shows(AreaCopied(c, buf[a], x, y, at), h)
    BY <1>2, <1>3, <1>4, <2>1, AreaCopiedFacts
  <2> HIDE DEF h
  <2> QED BY <2>1, <2>2, BufferStep
<1>14. ASSUME NEW a \in Buffers, NEW at \in AreaCorners, Downscale(b, a, at) PROVE BuffersInv'
  <2> DEFINE From(p) == [d \in RegionAxes |-> 2 * (p[d] - at[d])]
             half == [d \in RegionAxes |-> buf[a].size[d] \div 2]
             h == [p \in VoxelsOf(c.size) |-> IF Between(p, at, Plus(at, half)) THEN plain[a][From(p)] ELSE g[p]]
             new == DownscaledInto(c, buf[a], Point(0), buf[a].size, at)
  <2>1. /\ buf[a].depth = c.depth
        /\ \A d \in RegionAxes : 0 <= at[d] /\ at[d] + half[d] <= c.size[d] /\ at[d] < c.size[d]
        /\ Step(b, new, h)
    BY <1>2, <1>14 DEF Downscale, c, g
  <2>2. half = [d \in RegionAxes |-> buf[a].size[d] \div 2]
    OBVIOUS
  <2>3. at \in [RegionAxes -> Int] /\ Shows(buf[a], plain[a])
    BY <1>3, <1>4
  <2> HIDE DEF half
  <2>4. Shows(new, h)
    BY <1>2, <2>1, <2>2, <2>3, DownscaledFacts
  <2> HIDE DEF h, new
  <2> QED BY <2>1, <2>4, BufferStep
<1> QED BY <1>1, <1>5, <1>6, <1>7, <1>8, <1>9, <1>10, <1>11, <1>12, <1>13, <1>14 DEF c

\* Whatever operations are made on the buffers, of any size and at any depth, every voxel reads as a
\* plain grid of voxels would, uniform channel or array, wherever the corners of an area lie; and an
\* array has the length of the volume (VoxelBuffer, storage/voxel_buffer.rs).
THEOREM BuffersReadBack == ASSUME BufferConstants PROVE BuffersSpec => []BuffersReadAsWritten
<1>1. BuffersInit => BuffersInv
  BY BuffersInitInv
<1>2. BuffersInv /\ [BuffersNext]_bufferVars => BuffersInv'
  <2>1. ASSUME BuffersInv, UNCHANGED bufferVars PROVE BuffersInv'
    BY <2>1 DEF bufferVars, BuffersInv
  <2> QED BY <2>1, BuffersNextInv
<1>3. BuffersInv => BuffersReadAsWritten
  BY DEF BuffersInv, BuffersReadAsWritten, Shows, ChannelOK
<1> QED BY <1>1, <1>2, <1>3, PTL DEF BuffersSpec
=============================================================================
