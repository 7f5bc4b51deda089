---------------------------- MODULE BufferRegions ----------------------------
(***************************************************************************)
(* Regions of voxel buffers: how a region to copy is clipped to its source *)
(* and its destination (storage/funcs.rs), and how an area to fill is      *)
(* (storage/voxel_buffer.rs, clipped_area).  Points are functions from the *)
(* Dims axes.                                                              *)
(***************************************************************************)
EXTENDS Integers

CONSTANT Dims

RegionAxes == 1 .. Dims
LesserOf(a, b) == IF a < b THEN a ELSE b
GreaterOf(a, b) == IF a < b THEN b ELSE a
Clamped(v, lo, hi) == GreaterOf(lo, LesserOf(v, hi))
Point(n) == [d \in RegionAxes |-> n]
Plus(p, q) == [d \in RegionAxes |-> p[d] + q[d]]
Minus(p, q) == [d \in RegionAxes |-> p[d] - q[d]]

\* the cells from lo up to, without, hi; no axis is longer than the spaces given as `within`
CellsFrom(lo, hi, within) == {p \in [RegionAxes -> within] : \A d \in RegionAxes : lo[d] <= p[d] /\ p[d] < hi[d]}

\* sort_min_max
SortedMin(p, q) == [d \in RegionAxes |-> LesserOf(p[d], q[d])]
SortedMax(p, q) == [d \in RegionAxes |-> GreaterOf(p[d], q[d])]

\* clip_copy_region_coord: the source is clamped first, then the destination, each moving the other
ClippedCoord(srcMin, srcMax, srcSize, dstMin, dstSize) ==
  LET d1 == IF srcMin < 0 THEN dstMin - srcMin ELSE dstMin
      s1 == GreaterOf(srcMin, 0)
      m1 == LesserOf(srcMax, srcSize)
      s2 == IF d1 < 0 THEN s1 - d1 ELSE s1
      d2 == GreaterOf(d1, 0)
      over == d2 + (m1 - s2) - dstSize IN
    [srcMin |-> s2, srcMax |-> IF over > 0 THEN m1 - over ELSE m1, dstMin |-> d2]

ClippedRegion(srcMin, srcMax, srcSize, dstMin, dstSize) ==
  LET c == [d \in RegionAxes |-> ClippedCoord(srcMin[d], srcMax[d], srcSize[d], dstMin[d], dstSize[d])] IN
    [srcMin |-> [d \in RegionAxes |-> c[d].srcMin],
     srcMax |-> [d \in RegionAxes |-> c[d].srcMax],
     dstMin |-> [d \in RegionAxes |-> c[d].dstMin]]

\* clipped_area; an area without cells is refused by the callers
ClippedArea(size, min, max) ==
  [lo |-> [d \in RegionAxes |-> Clamped(SortedMin(min, max)[d], 0, size[d])],
   hi |-> [d \in RegionAxes |-> Clamped(SortedMax(min, max)[d], 0, size[d])]]

\* first, then at every step plus[d] + times[d] * what was there
Horner(first, plus, times) ==
  LET f[d \in 0 .. Dims] == IF d = 0 THEN first ELSE plus[d] + times[d] * f[d - 1] IN f
Backwards(p) == [d \in RegionAxes |-> p[Dims + 1 - d]]

\* voxel_index: the first axis is innermost
RegionIndex(size, p) == Horner(0, Backwards(p), Backwards(size))[Dims]
\* volume_u64
Volume(size) == Horner(1, Point(0), Backwards(size))[Dims]
=============================================================================
