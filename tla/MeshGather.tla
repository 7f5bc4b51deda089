----------------------------- MODULE MeshGather -----------------------------
(***************************************************************************)
(* Where the voxels of a mesh come from: the gather functions of           *)
(* meshers/mesh_block_task.rs, which fill a padded buffer from the 3^Dims  *)
(* data blocks around a mesh block and generate what is not resident.      *)
(* A cell of the buffer holds the name of its source: the resident block   *)
(* and the cell in it, the generator and the voxel it was asked for, or    *)
(* the default of the format.                                              *)
(***************************************************************************)
EXTENDS Integers, Sequences, SequencesExt, FiniteSets

CONSTANTS Dims, DataBlockSize, MinPadding, MaxPadding,
          MeshBlocks, \* positions of mesh blocks, and the LODs, that are tried
          GatherLods

Space == INSTANCE Boxes

MeshBlockSize == DataBlockSize
PaddedSize == MeshBlockSize + MinPadding + MaxPadding
Whole == Space!Box(Space!Splat(0), Space!Splat(PaddedSize))
Neighbours == [Space!Axes -> -1 .. 1]
\* the nested loops over the neighbours; their order is of no matter
Loop == [i \in 1 .. 3 ^ Dims |-> [d \in Space!Axes |-> (((i - 1) \div (3 ^ (d - 1))) % 3) - 1]]
InLoop(ns) == SelectSeq(Loop, LAMBDA n : n \in ns)

Plus(p, q) == [d \in Space!Axes |-> p[d] + q[d]]
Minus(p, q) == [d \in Space!Axes |-> p[d] - q[d]]
Scale(p, n) == [d \in Space!Axes |-> p[d] * n]

\* where a neighbour lies in the buffer, and where in the world it is generated from
DstOffset(n) == Plus(Scale(n, DataBlockSize), Space!Splat(MinPadding))

NeighbourOrigin(block, lod, n) == Scale(Plus(block, n), DataBlockSize * 2 ^ lod)

Default == [from |-> "default", at |-> Space!Splat(0)]
Blank == [c \in Space!Cells(Whole) |-> Default]

\* copy_channel_from_area clips at the buffer; the source is a whole block
CopyBlock(dst, offset, source(_)) ==
  [c \in DOMAIN dst |->
     IF Space!ContainsPoint(Space!Box(offset, Space!Splat(DataBlockSize)), c)
       THEN source(Minus(c, offset)) ELSE dst[c]]

\* a resident block holds the voxels of its own part of the world
CopyResident(dst, block, lod, n) ==
  CopyBlock(dst, DstOffset(n),
            LAMBDA c : [from |-> "resident", at |-> Plus(NeighbourOrigin(block, lod, n), Scale(c, 2 ^ lod))])
CopyResidents(block, lod, resident) ==
  FoldLeft(LAMBDA dst, n : CopyResident(dst, block, lod, n), Blank, InLoop(resident))

\* generate_missing_voxel_regions: one scratch buffer of the size of a block per region
Generate(dst, lod, regions) ==
  FoldLeft(LAMBDA buffer, r :
             CopyBlock(buffer, r.offset,
                       LAMBDA c : [from |-> "generated", at |-> Plus(r.origin, Scale(c, 2 ^ lod))]),
           dst, regions)

MissingBlocks(block, lod, resident) ==
  LET missing == InLoop(Neighbours \ resident) IN
    [i \in DOMAIN missing |->
       [offset |-> DstOffset(missing[i]), origin |-> NeighbourOrigin(block, lod, missing[i])]]

\* gather_voxels_cpu, from a VoxelData of one thread
Gathered(block, lod, resident, hasGenerator) ==
  Generate(CopyResidents(block, lod, resident), lod,
           IF hasGenerator THEN MissingBlocks(block, lod, resident) ELSE << >>)

-----------------------------------------------------------------------------
\* gather_voxels_cpu_shared_snapshot, the one of the terrain, cuts what is missing into
\* boxes: of a box that begins behind the padding and ends at the end of the buffer, what
\* no resident block covers
PaddedBox == Space!Box(Space!Splat(MinPadding), Space!Splat(MeshBlockSize + MaxPadding))
ResidentBox(n) == Space!Clipped(Space!Box(DstOffset(n), Space!Splat(DataBlockSize)), PaddedBox)

Without(boxes, box) ==
  IF Space!IsEmpty(box) THEN boxes
  ELSE FoldLeft(LAMBDA out, b : out \o Space!Difference(b, box), << >>, boxes)
BoxesToGenerate(resident) ==
  FoldLeft(LAMBDA boxes, n : Without(boxes, ResidentBox(n)), <<PaddedBox>>, InLoop(resident))

RegionOf(block, lod, box) ==
  [offset |-> box.pos,
   origin |-> Plus(Scale(block, MeshBlockSize * 2 ^ lod),
                   Scale(Minus(box.pos, Space!Splat(MinPadding)), 2 ^ lod))]

SharedMissing(block, lod, resident) ==
  IF resident = {} \/ resident = Neighbours
    THEN MissingBlocks(block, lod, resident)
    ELSE LET boxes == SelectSeq(BoxesToGenerate(resident), LAMBDA b : ~ Space!IsEmpty(b)) IN
           [i \in DOMAIN boxes |-> RegionOf(block, lod, boxes[i])]

SharedGathered(block, lod, resident, hasGenerator) ==
  Generate(CopyResidents(block, lod, resident), lod,
           IF hasGenerator THEN SharedMissing(block, lod, resident) ELSE << >>)

-----------------------------------------------------------------------------
\* what each cell of the buffer should hold
NeighbourAt(c) ==
  CHOOSE n \in Neighbours : Space!ContainsPoint(Space!Box(DstOffset(n), Space!Splat(DataBlockSize)), c)
VoxelAt(block, lod, c) ==
  Scale(Plus(Scale(block, MeshBlockSize), Minus(c, Space!Splat(MinPadding))), 2 ^ lod)
Wanted(block, lod, resident, hasGenerator) ==
  [c \in Space!Cells(Whole) |->
     CASE NeighbourAt(c) \in resident -> [from |-> "resident", at |-> VoxelAt(block, lod, c)]
       [] NeighbourAt(c) \notin resident /\ hasGenerator -> [from |-> "generated", at |-> VoxelAt(block, lod, c)]
       [] OTHER -> Default]

GatherInputs == [block : MeshBlocks, lod : GatherLods, resident : SUBSET Neighbours, hasGenerator : BOOLEAN]

\* PaddedBufferIsRight: whatever blocks are resident, each cell of the buffer of
\* gather_voxels_cpu holds the voxel of its place in the world, from its resident block or
\* from the generator; so does each cell of the gather of the terrain unless some, but not
\* all, of the blocks are missing and are to be generated.
IsPartial(in) == in.resident # {} /\ in.resident # Neighbours /\ in.hasGenerator
PaddedBufferIsRight(in) ==
  LET wanted == Wanted(in.block, in.lod, in.resident, in.hasGenerator) IN
    /\ Gathered(in.block, in.lod, in.resident, in.hasGenerator) = wanted
    /\ IsPartial(in) \/ SharedGathered(in.block, in.lod, in.resident, in.hasGenerator) = wanted
=============================================================================
