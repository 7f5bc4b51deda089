------------------------------ MODULE VoxelData ------------------------------
(***************************************************************************)
(* The voxels of a volume, storage/voxel_data.rs over one                  *)
(* storage/voxel_data_map.rs per LOD: edits and their flags, the cascade   *)
(* of edits into coarser LODs, generation, reads that fall back from LOD   *)
(* to LOD, and the ways a block is handed over to be saved.  Space has one *)
(* axis, a voxel one channel; the stream behind the volume is what was     *)
(* handed over to it.                                                      *)
(***************************************************************************)
EXTENDS Integers, FiniteSets

CONSTANTS BlockSide, DataLods, DataExtent, \* the bounds are 0 .. DataExtent - 1, in voxels, of any length
          EditPoints, Values,          \* where edits go and areas end, and the values edits write
          Generated, DefaultVoxel,     \* what the generator makes, and the default of the format
          MaxDataOps               \* bound: operations of a behaviour

VARIABLES settings, \* streaming, full (full_load_completed), generator
          lodMaps,  \* lodMaps[lod][pos]: the block, or NotInMap
          pending,  \* blocks mark_area_modified returned and update_lods has not been given
          disk,     \* disk[lod][pos]: the voxels handed over last, or NoVoxels
          edited,   \* edited[p]: the value of the last edit there that was neither discarded nor overwritten
          hidden,   \* history: edits on the stream that a block made without asking the stream hides
          opsDone   \* operations so far

dataVars == <<settings, lodMaps, pending, disk, edited, hidden, opsDone>>

NoVoxels == << >>
None == -1
NotInMap == [resident |-> FALSE, voxels |-> NoVoxels, modified |-> FALSE, needs |-> FALSE]
WithVoxels(v) == [resident |-> TRUE, voxels |-> v, modified |-> FALSE, needs |-> FALSE]
EmptyBlock == WithVoxels(NoVoxels)

\* What the constants may be.
DataConstants ==
  /\ BlockSide \in Nat \ {0} /\ DataExtent \in Nat
  /\ \E n \in DataLods \cap Nat : DataLods = 0 .. n
  /\ EditPoints \subseteq Int /\ None \notin Values

LastLod == CHOOSE l \in DataLods : \A k \in DataLods : k <= l
BlockCells == 0 .. BlockSide - 1
Bounds == 0 .. DataExtent - 1
BlocksAt(lod) == 0 .. ((DataExtent + BlockSide * (2 ^ lod) - 1) \div (BlockSide * (2 ^ lod))) - 1
Filled(v) == [i \in BlockCells |-> v]

\* a lookup in a map; what lies outside the bounds is never resident
BlockIn(ms, lod, pos) == IF pos \in BlocksAt(lod) THEN ms[lod][pos] ELSE NotInMap
HasVoxels(b) == b.resident /\ b.voxels # NoVoxels

\* voxel_to_block and to_local: a shift and a mask
VoxelToBlock(p) == p \div BlockSide
ToLocal(p) == p % BlockSide

\* the voxel of a LOD that stands for p
VoxelIn(ms, lod, p) == ms[lod][VoxelToBlock(p \div (2 ^ lod))].voxels[ToLocal(p \div (2 ^ lod))]

\* downscaled: the blocks that a box of voxels touches
Touched(lo, hi) == (lo \div BlockSide) .. ((hi + BlockSide - 1) \div BlockSide) - 1

\* a fresh buffer in the format, filled by the generator if there is one
Generate == Filled(IF settings.generator THEN Generated ELSE DefaultVoxel)

LoadsBlocks == settings.streaming \/ ~ settings.full

-----------------------------------------------------------------------------
\* Reads

GetVoxel(p, default) ==
  LET generated == IF settings.generator THEN Generated ELSE default
      at(lod) == BlockIn(lodMaps, lod, VoxelToBlock(p) \div (2 ^ lod))
      found == {l \in DataLods : HasVoxels(at(l))}
      finest == CHOOSE l \in found : \A k \in found : l <= k IN
    CASE p \notin Bounds \/ (~ settings.streaming /\ ~ settings.full) -> default
      [] p \in Bounds /\ ~ settings.streaming /\ settings.full ->
           IF 0 \in found THEN at(0).voxels[ToLocal(p)] ELSE generated
      [] OTHER ->
           IF found # {} THEN at(finest).voxels[ToLocal(p \div (2 ^ finest))] ELSE generated

\* copy, one voxel of it: the generator makes a block whose origin is in the bounds
CopiedVoxel(p, generateMissing) ==
  LET b == BlockIn(lodMaps, 0, VoxelToBlock(p)) IN
    CASE HasVoxels(b) -> b.voxels[ToLocal(p)]
      [] ~ HasVoxels(b) /\ generateMissing /\ settings.generator
           /\ VoxelToBlock(p) * BlockSide \in Bounds -> Generated
      [] OTHER -> DefaultVoxel

IsAreaLoaded(lo, hi) ==
  /\ settings.streaming => lo .. hi - 1 \subseteq Bounds
  /\ \A pos \in Touched(lo, hi) : BlockIn(lodMaps, 0, pos).resident

-----------------------------------------------------------------------------
\* Edits

\* try_set_voxel makes a default buffer where the map may be edited without a block
CanSet(p) == p \in Bounds /\ (BlockIn(lodMaps, 0, VoxelToBlock(p)).resident \/ ~ LoadsBlocks)
Materialized(b) == IF HasVoxels(b) THEN b ELSE [b EXCEPT !.resident = TRUE, !.voxels = Filled(DefaultVoxel)]
WithVoxel(b, i, value) == [b EXCEPT !.voxels = [b.voxels EXCEPT ![i] = value]]

\* mark_area_modified: blocks with voxels only; the flag and the returned list go together
Marks(ms, blocks) == {pos \in blocks \cap BlocksAt(0) : HasVoxels(ms[0][pos])}

\* Mutant: a block is marked modified with its LODs only.
MarkedForLodsOnly(ms, blocks, requireLods) ==
  [ms EXCEPT ![0] = [pos \in BlocksAt(0) |->
     IF pos \in Marks(ms, blocks) /\ requireLods
       THEN [ms[0][pos] EXCEPT !.modified = TRUE, !.needs = TRUE] ELSE ms[0][pos]]]

Marked(ms, blocks, requireLods) ==
  [ms EXCEPT ![0] = [pos \in BlocksAt(0) |->
     IF pos \in Marks(ms, blocks)
       THEN [ms[0][pos] EXCEPT !.modified = TRUE, !.needs = @ \/ requireLods]
       ELSE ms[0][pos]]]

NewlyNeeding(ms, blocks, requireLods) ==
  {pos \in Marks(ms, blocks) : requireLods /\ ~ ms[0][pos].needs}

Op == opsDone < MaxDataOps /\ opsDone' = opsDone + 1

\* What becomes hidden as blocks of LOD 0 are made in place: the edits that went to the stream.
HiddenBy(blocks) == hidden \cup {p \in Bounds : VoxelToBlock(p) \in blocks /\ edited[p] # None}

\* try_set_voxel and then mark_area_modified over the voxel
TrySetVoxel(p, value, requireLods) ==
  LET pos == VoxelToBlock(p)
      set == [lodMaps EXCEPT ![0][pos] = WithVoxel(Materialized(lodMaps[0][pos]), ToLocal(p), value)] IN
    /\ Op /\ CanSet(p)
    /\ lodMaps' = Marked(set, Touched(p, p + 1), requireLods)
    /\ pending' = pending \cup NewlyNeeding(set, Touched(p, p + 1), requireLods)
    /\ edited' = [edited EXCEPT ![p] = value]
    /\ hidden' = HiddenBy(IF HasVoxels(lodMaps[0][pos]) THEN {} ELSE {pos}) \ {p}
    /\ UNCHANGED <<settings, disk>>

-----------------------------------------------------------------------------
\* Levels of detail

\* Mutant: of each two voxels the second is taken.
DownscaledToSecond(dst, d, srcs, blocks) ==
  [i \in BlockCells |->
     LET s == 2 * d + ((2 * i) \div BlockSide) IN
       IF s \in srcs THEN blocks[s].voxels[(2 * i + 1) % BlockSide] ELSE dst.voxels[i]]

\* downscale_to: the half of the destination that a source block stands for, every other voxel
Downscaled(dst, d, srcs, blocks) ==
  [i \in BlockCells |->
     LET s == 2 * d + ((2 * i) \div BlockSide) IN
       IF s \in srcs THEN blocks[s].voxels[(2 * i) % BlockSide] ELSE dst.voxels[i]]

\* one pass of update_lods, from the blocks of a LOD to their parents
UpdateParents(ms, lod, work) ==
  LET srcs == {s \in work : HasVoxels(ms[lod][s])}
      parents == {s \div 2 : s \in srcs}
      dsts == {d \in parents : ms[lod + 1][d].resident \/ ~ settings.streaming}
      old(d) == IF HasVoxels(ms[lod + 1][d]) THEN ms[lod + 1][d]
                ELSE [ms[lod + 1][d] EXCEPT !.resident = TRUE, !.voxels = Generate]
      new(d) == [old(d) EXCEPT !.voxels = Downscaled(old(d), d, srcs, ms[lod]),
                               !.modified = TRUE, !.needs = @ \/ lod + 1 # LastLod] IN
    [maps |-> [ms EXCEPT ![lod + 1] = [d \in BlocksAt(lod + 1) |-> IF d \in dsts THEN new(d) ELSE @[d]]],
     \* a parent that has its flag already is not queued, and nothing but the first pass clears flags
     work |-> {d \in dsts : lod + 1 # LastLod /\ ~ ms[lod + 1][d].needs}]

LodPass(first) ==
  LET pass[l \in DataLods] ==
        IF l = 0 THEN first ELSE UpdateParents(pass[l - 1].maps, l - 1, pass[l - 1].work)
  IN pass[LastLod].maps

ClearedFlags(blocks) ==
  [lodMaps EXCEPT ![0] = [pos \in BlocksAt(0) |->
     IF pos \in blocks THEN [lodMaps[0][pos] EXCEPT !.needs = FALSE] ELSE lodMaps[0][pos]]]

UpdateLods ==
  /\ Op /\ pending # {}
  /\ lodMaps' = LodPass([maps |-> ClearedFlags(pending), work |-> pending])
  /\ pending' = {}
  /\ UNCHANGED <<settings, disk, edited, hidden>>

\* pre_generate_box: every LOD, blocks without voxels
Pregenerated(lod, lo, hi) ==
  {pos \in BlocksAt(lod) :
     /\ pos * BlockSide * (2 ^ lod) < hi /\ lo < (pos + 1) * BlockSide * (2 ^ lod)
     /\ IF lodMaps[lod][pos].resident THEN ~ HasVoxels(lodMaps[lod][pos]) ELSE ~ settings.streaming}
PreGenerate(lo, hi) ==
  /\ Op
  /\ lodMaps' = [l \in DataLods |-> [pos \in BlocksAt(l) |->
                IF pos \in Pregenerated(l, lo, hi)
                  THEN [lodMaps[l][pos] EXCEPT !.resident = TRUE, !.voxels = Generate]
                  ELSE lodMaps[l][pos]]]
  /\ hidden' = HiddenBy(Pregenerated(0, lo, hi))
  /\ UNCHANGED <<settings, pending, disk, edited>>

-----------------------------------------------------------------------------
\* Blocks come and go

\* try_set_block: a block that is there stays.  What loads is what the stream has
Loaded(lod, pos) == IF disk[lod][pos] # NoVoxels THEN {WithVoxels(disk[lod][pos])}
                    ELSE {EmptyBlock, WithVoxels(Generate)}
TrySetBlock(lod, pos) ==
  \E b \in Loaded(lod, pos) :
    /\ Op
    /\ lodMaps' = IF lodMaps[lod][pos].resident THEN lodMaps ELSE [lodMaps EXCEPT ![lod][pos] = b]
    /\ UNCHANGED <<settings, pending, disk, edited, hidden>>

\* a BlockToSave without voxels has nothing to write
HandedOver(lod, blocks) ==
  [pos \in BlocksAt(lod) |->
     IF pos \in blocks /\ lodMaps[lod][pos].modified /\ HasVoxels(lodMaps[lod][pos])
       THEN lodMaps[lod][pos].voxels ELSE disk[lod][pos]]

\* the edits that are lost as these blocks are handed over: those a modified block hid
Overwritten(lod, blocks) ==
  {p \in hidden : /\ lod = 0 /\ VoxelToBlock(p) \in blocks
                  /\ lodMaps[0][VoxelToBlock(p)].modified /\ HasVoxels(lodMaps[0][VoxelToBlock(p)])}
Remembered(lost) == [p \in Bounds |-> IF p \in lost THEN None ELSE edited[p]]

\* consume_all_modifications: a copy, and the flag goes
ConsumeAll ==
  /\ Op
  /\ disk' = [l \in DataLods |-> HandedOver(l, BlocksAt(l))]
  /\ lodMaps' = [l \in DataLods |-> [pos \in BlocksAt(l) |-> [lodMaps[l][pos] EXCEPT !.modified = FALSE]]]
  /\ edited' = Remembered(Overwritten(0, BlocksAt(0)))
  /\ hidden' = hidden \ Overwritten(0, BlocksAt(0))
  /\ UNCHANGED <<settings, pending>>

\* consume_block_modifications: LOD 0
ConsumeOne(pos) ==
  /\ Op
  /\ disk' = [disk EXCEPT ![0] = HandedOver(0, {pos})]
  /\ lodMaps' = [lodMaps EXCEPT ![0][pos] = [lodMaps[0][pos] EXCEPT !.modified = FALSE]]
  /\ edited' = Remembered(Overwritten(0, {pos}))
  /\ hidden' = hidden \ Overwritten(0, {pos})
  /\ UNCHANGED <<settings, pending>>

\* what remains of the edits when the blocks that are gone were not handed over
KeptOn(d) == [p \in Bounds |->
                IF d[VoxelToBlock(p)] # NoVoxels THEN d[VoxelToBlock(p)][ToLocal(p)] ELSE None]

Without(lod, blocks) == [pos \in BlocksAt(lod) |-> IF pos \in blocks THEN NotInMap ELSE lodMaps[lod][pos]]

\* unload_blocks: the modified blocks are collected, or they are discarded
Unload(lod, blocks, collect) ==
  /\ Op
  /\ lodMaps' = [lodMaps EXCEPT ![lod] = Without(lod, blocks)]
  /\ disk' = IF collect THEN [disk EXCEPT ![lod] = HandedOver(lod, blocks)] ELSE disk
  /\ edited' = IF collect THEN Remembered(Overwritten(lod, blocks))
                ELSE [p \in Bounds |-> IF lod = 0 /\ VoxelToBlock(p) \in blocks /\ edited[p] # None
                                         THEN KeptOn(disk[0])[p] ELSE edited[p]]
  /\ hidden' = {p \in hidden : lod = 0 => VoxelToBlock(p) \notin blocks}
  /\ UNCHANGED <<settings, pending>>

\* reset_maps, as set_format and set_lod_count call it: all is forgotten, and what was handed
\* over, in the format of before, does not come back
ResetMaps ==
  /\ Op
  /\ lodMaps' = [l \in DataLods |-> Without(l, BlocksAt(l))]
  /\ edited' = [p \in Bounds |-> None] /\ hidden' = {}
  /\ disk' = [l \in DataLods |-> [pos \in BlocksAt(l) |-> NoVoxels]]
  /\ UNCHANGED <<settings, pending>>

-----------------------------------------------------------------------------
DataInit ==
  /\ settings \in [streaming : BOOLEAN, full : BOOLEAN, generator : BOOLEAN]
  /\ lodMaps = [l \in DataLods |-> [pos \in BlocksAt(l) |-> NotInMap]]
  /\ pending = {}
  /\ disk = [l \in DataLods |-> [pos \in BlocksAt(l) |-> NoVoxels]]
  /\ edited = [p \in Bounds |-> None] /\ hidden = {}
  /\ opsDone = 0

DataNext ==
  \/ \E p \in EditPoints, value \in Values, lods \in BOOLEAN : TrySetVoxel(p, value, lods)
  \/ UpdateLods
  \/ \E lo, hi \in EditPoints : lo < hi /\ PreGenerate(lo, hi)
  \/ \E lod \in DataLods : \E pos \in BlocksAt(lod) : TrySetBlock(lod, pos)
  \/ ConsumeAll
  \/ \E pos \in BlocksAt(0) : ConsumeOne(pos)
  \/ \E lod \in DataLods, collect \in BOOLEAN : \E pos \in BlocksAt(lod) : Unload(lod, {pos}, collect)
  \/ ResetMaps

DataSpec == DataInit /\ [][DataNext]_dataVars

-----------------------------------------------------------------------------
\* EditsAreKept: whatever blocks came and went since, an edit that was marked is read where
\* its block is resident, and is on the stream unless the block there is marked modified.
\* Where a block was made without asking the stream (`hidden`) only the stream keeps it; and in
\* a volume that streams no block is made that way.
EditsAreKept ==
  /\ \A p \in Bounds : edited[p] # None =>
       LET b == lodMaps[0][VoxelToBlock(p)]
           saved == disk[0][VoxelToBlock(p)] IN
         /\ p \notin hidden /\ HasVoxels(b) => b.voxels[ToLocal(p)] = edited[p]
         /\ \/ p \notin hidden /\ HasVoxels(b) /\ b.modified
            \/ saved # NoVoxels /\ saved[ToLocal(p)] = edited[p]
  /\ settings.streaming => hidden = {}

\* ReadsAgree: get_voxel and copy, which look a voxel up on different ways, give the same
\* voxel in a volume that is loaded whole; and an area that is_area_loaded accepts can be edited.
ReadsAgree ==
  /\ settings.full /\ ~ settings.streaming =>
       \A p \in -1 .. DataExtent : GetVoxel(p, DefaultVoxel) = CopiedVoxel(p, TRUE)
  /\ \A lo \in Bounds : BlockIn(lodMaps, 0, VoxelToBlock(lo)).resident =>
       \A hi \in lo + 1 .. DataExtent : IsAreaLoaded(lo, hi) => \A p \in lo .. hi - 1 : CanSet(p)

\* NoForgottenLodUpdate: a block of LOD 0 that is flagged needs_lodding is in the list that
\* some caller holds: mark_area_modified returns a flagged block only once, so a flag outside
\* the list would keep the edits of that block out of the coarser LODs for good.
NoForgottenLodUpdate == \A pos \in BlocksAt(0) : lodMaps[0][pos].needs => pos \in pending

\* LodsFollow: a step of update_lods takes the voxels of every block it is given to the coarser
\* LODs, as far up as parents can be had and none on the way was flagged already (such a parent is
\* not queued, and nothing clears its flag); and no other voxel of a coarser LOD changes.
LodsFollow ==
  [][pending # {} /\ pending' = {} =>
       /\ \A pos \in pending, l \in DataLods \ {0} :
            LET up(k) == lodMaps[k][pos \div (2 ^ k)] IN
              /\ HasVoxels(lodMaps[0][pos])
              /\ \A k \in 1 .. l : up(k).resident \/ ~ settings.streaming
              /\ \A k \in 1 .. l - 1 : ~ up(k).needs
              => \A p \in Bounds : VoxelToBlock(p) = pos /\ p % (2 ^ l) = 0 =>
                   VoxelIn(lodMaps', l, p) = VoxelIn(lodMaps', 0, p)
       /\ \A l \in DataLods \ {0}, p \in Bounds :
            p % (2 ^ l) = 0 /\ HasVoxels(lodMaps[l][VoxelToBlock(p \div (2 ^ l))]) =>
              \/ VoxelIn(lodMaps', l, p) = VoxelIn(lodMaps, l, p)
              \/ VoxelIn(lodMaps', l, p) = VoxelIn(lodMaps', l - 1, p)]_dataVars

VolumeExact == EditsAreKept /\ NoForgottenLodUpdate /\ ReadsAgree
=============================================================================
