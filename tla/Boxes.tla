------------------------------- MODULE Boxes -------------------------------
(***************************************************************************)
(* Integer boxes and the integer helpers they rest on: math/box3i.rs,      *)
(* math/box2i.rs (the same operations with one axis less),                 *)
(* math/box_bounds.rs and math/funcs.rs.  A box is a position and a size,  *)
(* its maximum is exclusive; a box has Dims axes.                          *)
(***************************************************************************)
EXTENDS Integers, Sequences, SequencesExt, FiniteSets, Bitwise

CONSTANT Dims

Axes == 1 .. Dims
Lesser(a, b) == IF a < b THEN a ELSE b
Greater(a, b) == IF a > b THEN a ELSE b

Splat(n) == [d \in Axes |-> n]
Box(pos, size) == [pos |-> pos, size |-> size]
FromMinMax(lo, hi) == Box(lo, [d \in Axes |-> hi[d] - lo[d]])
End(box) == [d \in Axes |-> box.pos[d] + box.size[d]]

-----------------------------------------------------------------------------
\* Integers: division of the machine rounds towards zero
Quotient(x, d) == IF x < 0 THEN - ((- x) \div d) ELSE x \div d
Remainder(x, d) == x - d * Quotient(x, d)

FloorDiv(x, d) == IF x < 0 THEN Quotient(x - d + 1, d) ELSE Quotient(x, d)
CeilDiv(x, d) == IF x > 0 THEN Quotient(x + d - 1, d) ELSE Quotient(x, d)
Wrap(x, d) == Remainder(Remainder(x, d) + d, d)
Clamp(x, lo, hi) == Lesser(Greater(x, lo), hi)

\* every bit below the highest is set, by shifts of 1, 2, 4, 8 and 16
Smeared(x) == FoldLeft(LAMBDA y, s : y | shiftR(y, s), x, <<1, 2, 4, 8, 16>>)
NextPowerOfTwo(x) == IF x = 0 THEN 0 ELSE Smeared(x - 1) + 1
PreviousPowerOfTwo(x) == Smeared(x) - shiftR(Smeared(x), 1)
IsPowerOfTwo(x) == x # 0 /\ (x & (x - 1)) = 0
ShiftOf(pot) == CHOOSE i \in 0 .. 31 : pot = 2 ^ i
\* (a + align - 1) & !(align - 1), for a power of two
AlignUp(a, align) == (a + align - 1) - ((a + align - 1) & (align - 1))

-----------------------------------------------------------------------------
\* Boxes
IsEmpty(box) == \E d \in Axes : box.size[d] <= 0
ContainsPoint(box, p) == \A d \in Axes : p[d] >= box.pos[d] /\ p[d] < End(box)[d]
ContainsBox(a, b) == \A d \in Axes : b.pos[d] >= a.pos[d] /\ End(b)[d] <= End(a)[d]
Intersects(a, b) == \A d \in Axes : ~ (a.pos[d] >= End(b)[d]) /\ ~ (b.pos[d] >= End(a)[d])
BoundingBox(a, b) ==
  FromMinMax([d \in Axes |-> Lesser(a.pos[d], b.pos[d])], [d \in Axes |-> Greater(End(a)[d], End(b)[d])])
Padded(box, m) == Box([d \in Axes |-> box.pos[d] - m], [d \in Axes |-> box.size[d] + 2 * m])

\* the blocks of step cells that a box touches, those it contains, and the former in cells
Downscaled(box, step) ==
  LET lo == [d \in Axes |-> FloorDiv(box.pos[d], step)]
      last == [d \in Axes |-> FloorDiv(End(box)[d] - 1, step)] IN
    Box(lo, [d \in Axes |-> last[d] - lo[d] + 1])
DownscaledInner(box, step) ==
  FromMinMax([d \in Axes |-> CeilDiv(box.pos[d], step)], [d \in Axes |-> FloorDiv(End(box)[d], step)])
Snapped(box, step) ==
  LET r == Downscaled(box, step) IN
    Box([d \in Axes |-> r.pos[d] * step], [d \in Axes |-> r.size[d] * step])

\* clip_range per axis
Clipped(box, lim) ==
  LET lo(d) == Clamp(box.pos[d], lim.pos[d], End(lim)[d])
      hi(d) == Clamp(End(box)[d], lim.pos[d], End(lim)[d]) IN
    Box([d \in Axes |-> lo(d)], [d \in Axes |-> Greater(hi(d) - lo(d), 0)])

\* difference: what lies before b on each axis is cut off, then what lies behind it
CutBefore(cut, b, d) ==
  LET a == cut.rest IN
    IF a.pos[d] >= b.pos[d] THEN cut
    ELSE [out |-> Append(cut.out, [a EXCEPT !.size[d] = b.pos[d] - a.pos[d]]),
          rest |-> FromMinMax([a.pos EXCEPT ![d] = b.pos[d]], End(a))]
\* Mutant: what is cut off stays in the rest.
CutBehindAll(cut, b, d) ==
  LET a == cut.rest IN
    IF End(a)[d] <= End(b)[d] THEN cut
    ELSE [cut EXCEPT !.out = Append(@, [a EXCEPT !.pos[d] = End(b)[d], !.size[d] = End(a)[d] - End(b)[d]])]

CutBehind(cut, b, d) ==
  LET a == cut.rest IN
    IF End(a)[d] <= End(b)[d] THEN cut
    ELSE [out |-> Append(cut.out, [a EXCEPT !.pos[d] = End(b)[d], !.size[d] = End(a)[d] - End(b)[d]]),
          rest |-> [a EXCEPT !.size[d] = End(b)[d] - a.pos[d]]]

Difference(a, b) ==
  LET axes == [d \in Axes |-> d]
      before == FoldLeft(LAMBDA cut, d : CutBefore(cut, b, d), [out |-> << >>, rest |-> a], axes)
      behind == FoldLeft(LAMBDA cut, d : CutBehind(cut, b, d), before, axes) IN
    IF Intersects(a, b) THEN behind.out ELSE <<a>>

\* iter_cells, as a set: the order of the axes only matters to the caller
Cells(box) ==
  {c \in [Axes -> UNION {box.pos[d] .. End(box)[d] - 1 : d \in Axes}] : ContainsPoint(box, c)}

\* for_inner_outline: two faces per axis, without the cells of the axes done before;
\* the callback is called for both faces also where they are one
OutlineFaces(box, done, d) ==
  {c \in Cells(box) :
     /\ c[d] \in {box.pos[d], End(box)[d] - 1}
     /\ \A e \in done : c[e] > box.pos[e] /\ c[e] < End(box)[e] - 1}
InnerOutline(box) == UNION {OutlineFaces(box, 1 .. d - 1, d) : d \in Axes}

\* BoxBounds: the maximum is exclusive, yet boxes that only touch intersect
BoundsIntersect(a, b) == \A d \in Axes : ~ (End(a)[d] < b.pos[d] \/ a.pos[d] > End(b)[d])

-----------------------------------------------------------------------------
\* BoxesAreSetsOfCells: the arithmetic of boxes is that of their sets of cells, on negative
\* coordinates, empty and touching boxes as well: clipping is intersection; the pieces of a
\* difference are disjoint and together what is left; two boxes intersect when they share a
\* cell (if neither is empty), and spatial regions (BoxBounds) at least then.
BoxesAreSetsOfCells(a, b) ==
  /\ Cells(Clipped(a, b)) = Cells(a) \cap Cells(b)
  /\ LET pieces == Difference(a, b) IN
       /\ UNION {Cells(pieces[i]) : i \in DOMAIN pieces} = Cells(a) \ Cells(b)
       /\ \A i, j \in DOMAIN pieces : i # j => Cells(pieces[i]) \cap Cells(pieces[j]) = {}
  /\ ~ IsEmpty(a) /\ ~ IsEmpty(b) =>
       /\ Intersects(a, b) <=> Cells(a) \cap Cells(b) # {}
       /\ Intersects(a, b) => BoundsIntersect(a, b)
       /\ ContainsBox(a, b) <=> Cells(b) \subseteq Cells(a)
       /\ Cells(a) \cup Cells(b) \subseteq Cells(BoundingBox(a, b))
       /\ \A d \in Axes : \E c \in Cells(a) \cup Cells(b) : c[d] = BoundingBox(a, b).pos[d]
  /\ InnerOutline(a) = Cells(a) \ Cells(Padded(a, -1))

\* BlocksCoverTheBox: the blocks of a downscaled box are those its cells fall in, those of
\* the inner one are those it holds entirely, and snapping covers the box, also left of zero.
BlocksCoverTheBox(a, step) ==
  LET block(c) == [d \in Axes |-> c[d] \div step]
      cellsOf(k) == Cells(Box([d \in Axes |-> k[d] * step], Splat(step))) IN
    ~ IsEmpty(a) =>
      /\ Cells(Downscaled(a, step)) = {block(c) : c \in Cells(a)}
      /\ Cells(DownscaledInner(a, step))
           = {k \in {block(c) : c \in Cells(a)} : cellsOf(k) \subseteq Cells(a)}
      /\ Cells(Snapped(a, step)) = UNION {cellsOf(k) : k \in {block(c) : c \in Cells(a)}}

\* PowersOfTwoAreNearest: the bit tricks find the nearest power of two, and an aligned size is
\* the least multiple that is not smaller; wrapping is the remainder of floor division.
PowersOfTwoAreNearest(n) ==
  /\ n > 0 =>
       /\ IsPowerOfTwo(NextPowerOfTwo(n)) /\ NextPowerOfTwo(n) \in n .. 2 * n - 1 \cup {n}
       /\ IsPowerOfTwo(PreviousPowerOfTwo(n)) /\ PreviousPowerOfTwo(n) <= n
       /\ 2 * PreviousPowerOfTwo(n) > n
       /\ ShiftOf(NextPowerOfTwo(n)) >= ShiftOf(PreviousPowerOfTwo(n))
  /\ n >= 0 => \A s \in 0 .. 4 :
       /\ AlignUp(n, 2 ^ s) % 2 ^ s = 0 /\ AlignUp(n, 2 ^ s) - n \in 0 .. 2 ^ s - 1
  /\ \A d \in 1 .. 5 : /\ Wrap(n, d) = n % d /\ FloorDiv(n, d) = n \div d
                       /\ CeilDiv(n, d) = - ((- n) \div d)
=============================================================================
