---------------------------- MODULE VoxelBuffers ----------------------------
(***************************************************************************)
(* Voxel buffers, storage/voxel_buffer.rs: one channel of each buffer,     *)
(* either uniform (a default, no array) or a flat array of the width of    *)
(* its depth, under every operation that reads or writes it.  The channels *)
(* of a buffer do not touch each other.  A depth is the number of its raw  *)
(* values, 256 for eight bits.                                             *)
(***************************************************************************)
EXTENDS BufferRegions, FiniteSets

CONSTANTS Buffers, Depths, BufferSizes, AreaCorners, MaxWrites

BufferConstants ==
  /\ Dims \in Nat \ {0} /\ Depths \subseteq Nat \ {0}
  /\ BufferSizes \subseteq [RegionAxes -> Nat \ {0}] /\ AreaCorners \subseteq [RegionAxes -> Int]

VARIABLES buf,   \* buf[b]: size, depth, uniform, defval and data (by flat index)
          plain, \* plain[b]: what each voxel of the buffer should read as
          writes \* bound: operations so far

bufferVars == <<buf, plain, writes>>

Truncated(v, depth) == v % depth
RawValues(depth) == 0 .. depth - 1
NoData == << >>
\* the default of a channel depends on its depth, as that of the distances does
DefaultRaw(depth) == depth - 1

Sides(size) == UNION {0 .. size[d] - 1 : d \in RegionAxes}
VoxelsOf(size) == CellsFrom(Point(0), size, Sides(size))

UniformChannel(size, depth, v) ==
  [size |-> size, depth |-> depth, uniform |-> TRUE, defval |-> v, data |-> NoData]

\* decompress_channel: an array of the default, cut to the width of the depth
Decompressed(c) ==
  IF c.uniform
    THEN [c EXCEPT !.uniform = FALSE,
                   !.data = [i \in 0 .. Volume(c.size) - 1 |-> Truncated(c.defval, c.depth)]]
    ELSE c

ReadVoxel(c, p) == IF c.uniform THEN c.defval ELSE c.data[RegionIndex(c.size, p)]

\* writes value[p] into every voxel p of the cells, through flat indices
Written(c, cells, value) ==
  LET d == Decompressed(c) IN
    [d EXCEPT !.data = [i \in DOMAIN d.data |->
       IF \E p \in cells : RegionIndex(c.size, p) = i
         THEN Truncated(value[CHOOSE p \in cells : RegionIndex(c.size, p) = i], c.depth)
         ELSE d.data[i]]]

\* create: uniform, at the default of the depth it has
Created(c, size) == UniformChannel(size, c.depth, DefaultRaw(c.depth))
\* set_channel_depth
WithDepth(c, depth) == IF c.depth = depth THEN c ELSE UniformChannel(c.size, depth, DefaultRaw(depth))
\* clear_channel, and fill when it changes something
Cleared(c, v) == UniformChannel(c.size, c.depth, v)

\* fill_area
AreaFilled(c, v, min, max) ==
  LET area == ClippedArea(c.size, min, max)
      cells == CellsFrom(area.lo, area.hi, Sides(c.size)) IN
    IF cells = {} \/ (c.uniform /\ c.defval = v) THEN c ELSE Written(c, cells, [p \in cells |-> v])

\* read_write_area, with an action that swaps the values around
AreaActed(c, min, max, action(_, _)) ==
  LET area == ClippedArea(c.size, min, max)
      cells == CellsFrom(area.lo, area.hi, Sides(c.size)) IN
    IF cells = {} THEN c ELSE Written(c, cells, [p \in cells |-> action(p, ReadVoxel(c, p))])

\* copy_channel_from: sizes and depths are equal
ChannelCopied(c, src) == [src EXCEPT !.size = c.size, !.depth = c.depth]

\* Mutant: a uniform source is skipped.
AreaCopiedUnfilled(c, src, srcMin, srcMax, dstMin) ==
  LET r == ClippedRegion(SortedMin(srcMin, srcMax), SortedMax(srcMin, srcMax), src.size, dstMin, c.size)
      cells == CellsFrom(r.dstMin, Plus(r.dstMin, Minus(r.srcMax, r.srcMin)), Sides(c.size)) IN
    IF cells = {} \/ src.uniform THEN c
    ELSE Written(c, cells, [p \in cells |-> ReadVoxel(src, Plus(Minus(p, r.dstMin), r.srcMin))])

\* copy_channel_from_area: a uniform source fills, and where it changes nothing is skipped
AreaCopied(c, src, srcMin, srcMax, dstMin) ==
  LET r == ClippedRegion(SortedMin(srcMin, srcMax), SortedMax(srcMin, srcMax), src.size, dstMin, c.size)
      size == Minus(r.srcMax, r.srcMin)
      cells == CellsFrom(r.dstMin, Plus(r.dstMin, size), Sides(c.size)) IN
    CASE cells = {} -> c
      [] cells # {} /\ ~ src.uniform ->
           Written(c, cells, [p \in cells |-> ReadVoxel(src, Plus(Minus(p, r.dstMin), r.srcMin))])
      [] OTHER -> AreaFilled(c, src.defval, r.dstMin, Plus(r.dstMin, size))

\* downscale_to: every other voxel; both regions are clamped into their buffers first
DownscaledInto(c, src, srcMin, srcMax, dstMin) ==
  LET sMin == [d \in RegionAxes |-> Clamped(srcMin[d], 0, src.size[d] - 1)]
      sMax == [d \in RegionAxes |-> Clamped(srcMax[d], 0, src.size[d])]
      dMin == [d \in RegionAxes |-> Clamped(dstMin[d], 0, c.size[d] - 1)]
      dMax == [d \in RegionAxes |-> Clamped(dstMin[d] + (sMax[d] - sMin[d]) \div 2, 0, c.size[d])] IN
    IF src.uniform /\ c.uniform /\ src.defval = c.defval THEN c
    ELSE AreaActed(c, dMin, dMax,
                   LAMBDA p, v : ReadVoxel(src, [d \in RegionAxes |-> sMin[d] + 2 * (p[d] - dMin[d])]))

\* compress_uniform_channels: an array of equal voxels becomes a default
Compressed(c) ==
  IF ~ c.uniform /\ \A i \in DOMAIN c.data : c.data[i] = c.data[0]
    THEN UniformChannel(c.size, c.depth, c.data[0]) ELSE c

-----------------------------------------------------------------------------
Step(b, c, p) ==
  /\ writes < MaxWrites /\ writes' = writes + 1
  /\ buf' = [buf EXCEPT ![b] = c]
  /\ plain' = [plain EXCEPT ![b] = p]

Everywhere(size, v) == [p \in VoxelsOf(size) |-> v]

Create(b, size) == Step(b, Created(buf[b], size), Everywhere(size, DefaultRaw(buf[b].depth)))
SetChannelDepth(b, depth) ==
  Step(b, WithDepth(buf[b], depth),
       IF depth = buf[b].depth THEN plain[b] ELSE Everywhere(buf[b].size, DefaultRaw(depth)))
Fill(b, v) == Step(b, Cleared(buf[b], v), Everywhere(buf[b].size, v))
SetVoxel(b, p, v) == Step(b, Written(buf[b], {p}, [q \in {p} |-> v]), [plain[b] EXCEPT ![p] = v])
Compress(b) == Step(b, Compressed(buf[b]), plain[b])
Decompress(b) == Step(b, Decompressed(buf[b]), plain[b])

\* p is between the corners, whichever of them is the greater one
Between(p, x, y) == \A d \in RegionAxes : LesserOf(x[d], y[d]) <= p[d] /\ p[d] < GreaterOf(x[d], y[d])

FillArea(b, v, x, y) ==
  Step(b, AreaFilled(buf[b], v, x, y),
       [p \in DOMAIN plain[b] |-> IF Between(p, x, y) THEN v ELSE plain[b][p]])

\* copy_to: the size, the depth and the voxels
CopyTo(b, a) ==
  /\ a # b
  /\ Step(b, ChannelCopied(WithDepth(Created(buf[b], buf[a].size), buf[a].depth), buf[a]), plain[a])

CopyArea(b, a, x, y, at) ==
  LET from(p) == Plus(Minus(p, at), SortedMin(x, y)) IN
    /\ a # b /\ buf[a].depth = buf[b].depth
    /\ Step(b, AreaCopied(buf[b], buf[a], x, y, at),
            [p \in DOMAIN plain[b] |->
               IF Between(from(p), x, y) /\ from(p) \in DOMAIN plain[a] THEN plain[a][from(p)] ELSE plain[b][p]])

\* the whole of the source, into a place of the destination where half of it fits
Downscale(b, a, at) ==
  LET from(p) == [d \in RegionAxes |-> 2 * (p[d] - at[d])]
      half == [d \in RegionAxes |-> buf[a].size[d] \div 2] IN
    /\ a # b /\ buf[a].depth = buf[b].depth
    /\ \A d \in RegionAxes : 0 <= at[d] /\ at[d] + half[d] <= buf[b].size[d] /\ at[d] < buf[b].size[d]
    /\ Step(b, DownscaledInto(buf[b], buf[a], Point(0), buf[a].size, at),
            [p \in DOMAIN plain[b] |->
               IF Between(p, at, Plus(at, half)) THEN plain[a][from(p)] ELSE plain[b][p]])

BuffersInit ==
  /\ \E depth \in Depths, size \in BufferSizes :
       /\ buf = [b \in Buffers |-> UniformChannel(size, depth, DefaultRaw(depth))]
       /\ plain = [b \in Buffers |-> [p \in VoxelsOf(size) |-> DefaultRaw(depth)]]
  /\ writes = 0

BuffersNext ==
  \E b \in Buffers :
    \/ \E size \in BufferSizes : Create(b, size)
    \/ \E depth \in Depths : SetChannelDepth(b, depth)
    \/ \E v \in RawValues(buf[b].depth) :
         \/ Fill(b, v)
         \/ \E p \in VoxelsOf(buf[b].size) : SetVoxel(b, p, v)
         \/ \E x, y \in AreaCorners : FillArea(b, v, x, y)
    \/ Compress(b) \/ Decompress(b)
    \/ \E a \in Buffers :
         \/ CopyTo(b, a)
         \/ \E x, y, at \in AreaCorners : CopyArea(b, a, x, y, at)
         \/ \E at \in AreaCorners : Downscale(b, a, at)

BuffersSpec == BuffersInit /\ [][BuffersNext]_bufferVars

-----------------------------------------------------------------------------
\* BuffersReadAsWritten: after any series of operations every voxel reads as a plain grid of
\* voxels would, whether its channel is uniform or not, wherever the corners of an area lie and
\* in whatever order they are given; and an array has the length of the volume.
BuffersReadAsWritten ==
  \A b \in Buffers :
    /\ DOMAIN plain[b] = VoxelsOf(buf[b].size)
    /\ \A p \in DOMAIN plain[b] : ReadVoxel(buf[b], p) = plain[b][p]
    /\ ~ buf[b].uniform => DOMAIN buf[b].data = 0 .. Volume(buf[b].size) - 1
=============================================================================
