---------------------------- MODULE RegionStream ----------------------------
(***************************************************************************)
(* The stream of region files that a Godot terrain is given:               *)
(* rust/voxel-gdext/src/streams.rs over streams/region/format.rs.  Which   *)
(* file and which slot a block goes to, what a region file accepts, and    *)
(* what a load answers.  What happens inside one file is RegionFile; each  *)
(* call opens, uses and closes the file, which is one step here.           *)
(* Positions have one axis.                                                *)
(***************************************************************************)
EXTENDS Integers, FiniteSets

CONSTANTS RegionSize,   \* REGION_SIZE of the stream
          SlotsPerAxis, \* region_size of RegionFormat::default()
          RegionDepths, \* channel_depths of RegionFormat::default()
          BlockDepths,  \* channel depths of the blocks that are saved
          StreamBlocks, StreamLods, \* positions and LODs of these blocks
          MaxStreamSaves \* bound: saves in a behaviour

VARIABLES regions, \* the region files there are, and the voxels in each slot
          given,   \* the voxels given to save_voxel_block last, per position and LOD
          answers, \* what the saves answered
          found    \* what the last load asked for and was answered

streamVars == <<regions, given, answers, found>>

RegionPos(p) == p \div RegionSize
LocalPos(p) == p % RegionSize

NoVoxels == 0
Slots == 0 .. SlotsPerAxis - 1
EmptyRegion == [s \in Slots |-> NoVoxels]
Opened(r) == IF r \in DOMAIN regions THEN regions[r] ELSE EmptyRegion
Stored(r, slots) == [q \in DOMAIN regions \cup {r} |-> IF q = r THEN slots ELSE regions[q]]

\* verify_block: every channel has the depth of the region
VerifyBlock(depths) == \A ch \in DOMAIN RegionDepths : depths[ch] = RegionDepths[ch]

\* save_block answers before it writes anything; the LOD takes no part in it
SaveAnswer(p, depths) ==
  CASE ~ VerifyBlock(depths) -> "BlockFormatMismatch"
    [] VerifyBlock(depths) /\ LocalPos(p) \notin Slots -> "InvalidBlockPosition"
    [] OTHER -> "ok"

\* the file is made before the block is looked at
SaveVoxelBlock(p, lod) ==
  LET r == RegionPos(p)
      voxels == Cardinality(answers) + 1
      answer == SaveAnswer(p, BlockDepths) IN
    /\ Cardinality(answers) < MaxStreamSaves
    /\ given' = [given EXCEPT ![p, lod] = voxels]
    /\ answers' = answers \cup {[save |-> voxels, pos |-> p, lod |-> lod, answer |-> answer]}
    /\ regions' = Stored(r, IF answer = "ok" THEN [Opened(r) EXCEPT ![LocalPos(p)] = voxels]
                                             ELSE Opened(r))
    /\ UNCHANGED found

LoadAnswer(p) ==
  CASE RegionPos(p) \notin DOMAIN regions -> NoVoxels
    [] RegionPos(p) \in DOMAIN regions /\ LocalPos(p) \notin Slots -> -1 \* an I/O error
    [] OTHER -> regions[RegionPos(p)][LocalPos(p)]

LoadVoxelBlock(p, lod) ==
  /\ found' = [pos |-> p, lod |-> lod, voxels |-> LoadAnswer(p)]
  /\ UNCHANGED <<regions, given, answers>>

Init ==
  /\ regions = << >>
  /\ given = [k \in StreamBlocks \X StreamLods |-> NoVoxels]
  /\ answers = {}
  /\ found = [pos |-> 0, lod |-> 0, voxels |-> NoVoxels]

Next == \E p \in StreamBlocks, lod \in StreamLods : SaveVoxelBlock(p, lod) \/ LoadVoxelBlock(p, lod)

Spec == Init /\ [][Next]_streamVars

-----------------------------------------------------------------------------
(* The formats that meet.                                                  *)

Channels == {"Type", "Sdf", "Color", "Indices", "Weights", "Data5", "Data6", "Data7"}

\* RegionFormat::default()
DefaultRegionDepths == [ch \in Channels |-> 8]

\* the format of a VoxelTerrain: VoxelFormat::new() with an SDF of 32 bits
TerrainDepths == [ch \in Channels |->
  CASE ch = "Sdf" -> 32 [] ch \in {"Type", "Indices", "Weights"} -> 16 [] OTHER -> 8]

\* blocks of both files around the origin, in slots that a file has and has not
MCStreamBlocks == {-1, 0, 3}

-----------------------------------------------------------------------------
\* SavesAreAccepted: the stream takes the blocks of the terrain it was assigned to, and the
\* one that was saved last at a position and LOD is in the slot a load looks at.
SavesAreAccepted ==
  /\ \A a \in answers : a.answer = "ok"
  /\ \A k \in DOMAIN given : given[k] # NoVoxels => LoadAnswer(k[1]) = given[k]
=============================================================================
