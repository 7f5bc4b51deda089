------------------------------ MODULE VoxelMaps ------------------------------
(***************************************************************************)
(* Buffers pasted into, and copied out of, the blocks of one LOD:          *)
(* storage/voxel_data_map.rs, copy, paste and the masked pastes.  Space    *)
(* has one axis; a voxel is a pair of channels, as is every buffer.  The   *)
(* functions of an input are computed in one step.                         *)
(***************************************************************************)
EXTENDS Integers, Sequences

CONSTANTS BlockSize, BlockRange, \* voxels per block, and the positions of blocks looked at
          DefaultVoxel           \* the pair of defaults of the format

Regions == INSTANCE BufferRegions WITH Dims <- 1

Absent == << >>
Hollow == <<DefaultVoxel>> \* a block without voxels (one with voxels has BlockSize of them)
Channels == 1 .. 2

VoxelToBlock(p) == p \div BlockSize
Local == 0 .. BlockSize - 1
Filled(b) == b \notin {Absent, Hollow}

\* the blocks that a buffer of that size touches, between its first and its last voxel
TouchedBlocks(min, size) == VoxelToBlock(min) .. VoxelToBlock(min + size - 1)

\* create_default_block, when new blocks are asked for
Target(b, create) == IF b = Absent /\ create THEN [i \in Local |-> DefaultVoxel] ELSE b

\* the clipped copy of a buffer into a block (copy_channel_from_area), channel by channel
CopyInto(block, src, min, origin, channels) ==
  LET r == Regions!ClippedCoord(0, Len(src), Len(src), min - origin, BlockSize)
      hit(i) == r.dstMin <= i /\ i < r.dstMin + r.srcMax - r.srcMin IN
    [i \in Local |-> [c \in Channels |->
       IF c \in channels /\ hit(i) THEN src[i - r.dstMin + r.srcMin + 1][c] ELSE block[i][c]]]

\* the part of a block that a masked paste goes over
Overlap(base, size) == {i \in Local : Regions!GreaterOf(base, 0) <= i /\ i < Regions!LesserOf(base + size, BlockSize)}

\* paste_masked, one channel of one block: what has the value of the mask in the source stays
MaskedChannel(block, in, base, c) ==
  [i \in Local |->
     IF i \in Overlap(base, Len(in.src)) /\ in.src[i - base + 1][in.srcMask] # in.srcMaskValue
       THEN [block[i] EXCEPT ![c] = in.src[i - base + 1][c]] ELSE block[i]]

\* ..._with_destination_mask: and so does what is not writable in the destination
WritableChannel(block, in, base, c) ==
  [i \in Local |->
     IF /\ i \in Overlap(base, Len(in.src)) /\ in.src[i - base + 1][in.srcMask] # in.srcMaskValue
        /\ block[i][in.dstMask] \in in.writable
       THEN [block[i] EXCEPT ![c] = in.src[i - base + 1][c]] ELSE block[i]]

\* Mutant: the channels in their order, also the one of the mask.
ChannelsAsListed(in) == SelectSeq(<<1, 2>>, LAMBDA c : c \in in.channels)

\* the destination mask is read by all channels, so it is written last
ChannelOrder(in) ==
  LET inOrder(S) == SelectSeq(<<1, 2>>, LAMBDA c : c \in S) IN
    IF in.op = "writable" THEN inOrder(in.channels \ {in.dstMask}) \o inOrder(in.channels \cap {in.dstMask})
                          ELSE inOrder(in.channels)

PastedBlock(block, in, origin) ==
  LET base == in.min - origin
      one(b, c) == IF in.op = "masked" THEN MaskedChannel(b, in, base, c) ELSE WritableChannel(b, in, base, c)
      f[n \in 0 .. Len(ChannelOrder(in))] == IF n = 0 THEN block ELSE one(f[n - 1], ChannelOrder(in)[n])
  IN IF in.op = "paste" THEN CopyInto(block, in.src, in.min, origin, in.channels)
                        ELSE f[Len(ChannelOrder(in))]

Refused(in) == Len(in.src) = 0 \/ (in.op = "writable" /\ in.writable = {})

\* every touched block in turn: made if need be, skipped where it is absent or has no voxels
Paste(blocks, in) ==
  IF Refused(in) THEN blocks
  ELSE [pos \in BlockRange |->
          LET b == Target(blocks[pos], in.create) IN
            CASE pos \notin TouchedBlocks(in.min, Len(in.src)) -> blocks[pos]
              [] pos \in TouchedBlocks(in.min, Len(in.src)) /\ Filled(b) -> PastedBlock(b, in, pos * BlockSize)
              [] OTHER -> b]

\* copy: blocks in turn, from a place in the block that may be negative; the default elsewhere
CopyOut(blocks, min, size) ==
  LET from(pos) == Regions!ClippedCoord(min - pos * BlockSize, BlockSize, BlockSize, 0, size)
      filled(pos, i) == LET at == pos * BlockSize - min IN
                          Regions!Clamped(at, 0, size) <= i /\ i < Regions!Clamped(at + BlockSize, 0, size)
      hit(pos, i) == IF Filled(blocks[pos])
                       THEN from(pos).dstMin <= i /\ i < from(pos).dstMin + from(pos).srcMax - from(pos).srcMin
                       ELSE filled(pos, i)
      read(pos, i) == IF Filled(blocks[pos]) THEN blocks[pos][i - from(pos).dstMin + from(pos).srcMin]
                                             ELSE DefaultVoxel
      writers(i) == {pos \in TouchedBlocks(min, size) : hit(pos, i)} IN
    [i \in 0 .. size - 1 |->
       IF writers(i) = {} THEN << >>
       ELSE read(CHOOSE pos \in writers(i) : \A other \in writers(i) : other <= pos, i)]

-----------------------------------------------------------------------------
\* get_voxel: the default where there is no voxel
VoxelAt(blocks, p) ==
  IF VoxelToBlock(p) \in BlockRange /\ Filled(blocks[VoxelToBlock(p)])
    THEN blocks[VoxelToBlock(p)][p % BlockSize] ELSE DefaultVoxel

Space == {pos * BlockSize + i : pos \in BlockRange, i \in Local}

\* whether a paste should write a channel of the voxel at p, seen from the world
Writes(blocks, in, p) ==
  /\ ~ Refused(in) /\ in.min <= p /\ p < in.min + Len(in.src)
  /\ Filled(Target(blocks[VoxelToBlock(p)], in.create))
  /\ in.op # "paste" => in.src[p - in.min + 1][in.srcMask] # in.srcMaskValue
  /\ in.op = "writable" => VoxelAt(blocks, p)[in.dstMask] \in in.writable

\* PasteIsExact: over the borders of blocks, with any of the channels and any mask, a paste
\* changes the voxels of its box that the masks let through, judged by what the destination
\* held before, and no other; it makes the blocks it touches, if it may, and no other; and what
\* copy reads is what get_voxel reads, voxel by voxel.
PasteIsExact(in) ==
  LET blocks == in.blocks
      after == Paste(blocks, in) IN
    /\ \A p \in Space : \A c \in Channels :
         VoxelAt(after, p)[c] = IF Writes(blocks, in, p) /\ c \in in.channels
                                  THEN in.src[p - in.min + 1][c] ELSE VoxelAt(blocks, p)[c]
    /\ \A pos \in BlockRange : (after[pos] = Absent) <=>
         /\ blocks[pos] = Absent
         /\ in.create /\ ~ Refused(in) => pos \notin TouchedBlocks(in.min, Len(in.src))
    /\ Len(in.src) > 0 =>
         \A i \in 0 .. Len(in.src) - 1 :
           CopyOut(after, in.min, Len(in.src))[i] = VoxelAt(after, in.min + i)
=============================================================================
