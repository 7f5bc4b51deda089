----------------------------- MODULE CubesMesher -----------------------------
(***************************************************************************)
(* The cube mesher, face by face (meshers/cubes/simple.rs) and with the    *)
(* faces of a slice merged into rectangles (greedy.rs), as CubesMesher in  *)
(* meshers/builtin.rs calls them: colours from raw values of the channel's *)
(* depth or from a palette (palette.rs).                                   *)
(*                                                                         *)
(* A block is [size, voxels, depth, palette]: voxels over all positions,   *)
(* the padding of one voxel on every side included; palette is a sequence  *)
(* of the alphas of the colours, << >> in the mode Raw.  Of a colour only  *)
(* the alpha is told: nothing else decides which faces there are.          *)
(***************************************************************************)
EXTENDS Integers, Sequences, FiniteSets, SequencesExt

Padding == 1

\* the alpha of a voxel, from 0 to 255
Alpha(block, raw) ==
  IF block.palette # <<>> THEN block.palette[(raw % 256) + 1]
  ELSE CASE block.depth = 8 -> (raw % 4) * 85
         [] block.depth = 16 -> (raw % 16) * 17
         [] OTHER -> raw % 256

\* 0 for transparent, 1 for partial, 2 for opaque
AlphaIndex(a) == IF a = 255 THEN 2 ELSE IF a > 0 THEN 1 ELSE 0

Material(a) == IF a = 255 THEN "opaque" ELSE "transparent"

-----------------------------------------------------------------------------
(* The slices: the axis across, the axes along, and its depth.             *)

AxesOfFace == <<<<2, 3>>, <<1, 3>>, <<1, 2>>>>
Slices(block) == UNION {{za} \X (0 .. block.size[za] - Padding - 1) : za \in 1 .. 3}

At(za, d, x, y) ==
  [axis \in 1 .. 3 |-> IF axis = za THEN d ELSE IF axis = AxesOfFace[za][1] THEN x + Padding ELSE y + Padding]
Behind(p, za) == [p EXCEPT ![za] = @ + 1]

Width(block, za) == block.size[AxesOfFace[za][1]] - 2 * Padding
Height(block, za) == block.size[AxesOfFace[za][2]] - 2 * Padding
Cells(block, za) == (0 .. Width(block, za) - 1) \X (0 .. Height(block, za) - 1)

NoFace == [raw |-> 0, side |-> "none"]

\* the face between a voxel of the slice and the one behind it: of the one less transparent
FaceAt(block, za, d, x, y) ==
  LET raw0 == block.voxels[At(za, d, x, y)]
      raw1 == block.voxels[Behind(At(za, d, x, y), za)]
      ai0 == AlphaIndex(Alpha(block, raw0))
      ai1 == AlphaIndex(Alpha(block, raw1))
  IN  IF ai0 = ai1 THEN NoFace
      ELSE IF ai0 > ai1 THEN [raw |-> raw0, side |-> "back"] ELSE [raw |-> raw1, side |-> "front"]

\* A quad: the slice, the rectangle, what it shows and the surface it is in.
Quad(block, za, d, x0, y0, x1, y1, face) ==
  [za |-> za, d |-> d, from |-> <<x0, y0>>, to |-> <<x1, y1>>, raw |-> face.raw, side |-> face.side,
   material |-> Material(Alpha(block, face.raw))]

SimpleSlice(block, za, d) ==
  {Quad(block, za, d, c[1], c[2], c[1] + 1, c[2] + 1, FaceAt(block, za, d, c[1], c[2])) :
     c \in {e \in Cells(block, za) : FaceAt(block, za, d, e[1], e[2]) # NoFace}}

-----------------------------------------------------------------------------
(* Merging: first along x, then along y, and what is merged is consumed.   *)

Consumed(quads, x, y) == \E q \in quads : x \in q.from[1] .. q.to[1] - 1 /\ y \in q.from[2] .. q.to[2] - 1

\* the mask of a slice once quads are made
Mask(block, za, d, quads, x, y) == IF Consumed(quads, x, y) THEN NoFace ELSE FaceAt(block, za, d, x, y)

Greatest(S) == CHOOSE n \in S : \A m \in S : m <= n

\* the rectangle that is made of the cell <<x, y>>
Merge(block, za, d, quads, x, y) ==
  LET face == Mask(block, za, d, quads, x, y)
      same(i, j) == Mask(block, za, d, quads, i, j) = face
      rx == Greatest({r \in x + 1 .. Width(block, za) : \A i \in x .. r - 1 : same(i, y)})
      ry == Greatest({r \in y + 1 .. Height(block, za) : \A i \in x .. rx - 1, j \in y .. r - 1 : same(i, j)})
  IN  IF face = NoFace THEN {} ELSE {Quad(block, za, d, x, y, rx, ry, face)}

\* the cells of a slice in the order they are looked at
InOrder(block, za) ==
  LET w == Width(block, za)
  IN  [n \in 1 .. w * Height(block, za) |-> <<(n - 1) % w, (n - 1) \div w>>]

GreedySlice(block, za, d) ==
  FoldLeft(LAMBDA quads, c : quads \cup Merge(block, za, d, quads, c[1], c[2]), {}, InOrder(block, za))

-----------------------------------------------------------------------------
(* Triangles: corners 0 to 3 of a quad are its corners by y and x.         *)

QuadIndices ==
  [za \in 1 .. 3 |->
     LET one == <<0, 3, 2, 0, 1, 3>> other == <<0, 2, 3, 0, 3, 1>>
     IN  IF za = 2 THEN [front |-> other, back |-> one] ELSE [front |-> one, back |-> other]]

CornerOf(q, i) ==
  LET x == IF i % 2 = 0 THEN q.from[1] ELSE q.to[1]
      y == IF i < 2 THEN q.from[2] ELSE q.to[2]
  IN  [axis \in 1 .. 3 |-> IF axis = q.za THEN q.d ELSE IF axis = AxesOfFace[q.za][1] THEN x ELSE y]

Normal(q) == [axis \in 1 .. 3 |-> IF axis # q.za THEN 0 ELSE IF q.side = "front" THEN -1 ELSE 1]

-----------------------------------------------------------------------------
(* Properties.                                                             *)

\* the cells a quad covers
Covered(q) == {<<q.za, q.d, x, y>> : x \in q.from[1] .. q.to[1] - 1, y \in q.from[2] .. q.to[2] - 1}
AsUnits(block, q) == {Quad(block, c[1], c[2], c[3], c[4], c[3] + 1, c[4] + 1, q) : c \in Covered(q)}

\* "The same face-culling logic as greedy but without rectangle merging ... Useful
\* as a correctness reference" (simple.rs:4-7): the rectangles of a slice do not
\* overlap and are exactly the faces the simple mesher shows there.
GreedyIsSimple(block) ==
  \A slice \in Slices(block) :
    LET quads == GreedySlice(block, slice[1], slice[2])
    IN  /\ \A p, q \in quads : p # q => Covered(p) \cap Covered(q) = {}
        /\ UNION {AsUnits(block, q) : q \in quads} = SimpleSlice(block, slice[1], slice[2])

\* "merges coplanar same-color faces into larger quads" (greedy.rs:1): no two
\* rectangles that show the same make a rectangle together.
GreedyIsMaximal(block) ==
  \A slice \in Slices(block) : \A p, q \in GreedySlice(block, slice[1], slice[2]) :
    p.raw = q.raw /\ p.side = q.side =>
      /\ ~ (p.to[1] = q.from[1] /\ p.from[2] = q.from[2] /\ p.to[2] = q.to[2])
      /\ ~ (p.to[2] = q.from[2] /\ p.from[1] = q.from[1] /\ p.to[1] = q.to[1])

\* Each side of a voxel towards a more transparent one is shown, once, and towards it.
FacesLookOutwards(block) ==
  \A slice \in Slices(block) : \A q \in SimpleSlice(block, slice[1], slice[2]) :
    LET near == At(q.za, q.d, q.from[1], q.from[2])
        far == Behind(near, q.za)
        solid == IF q.side = "back" THEN near ELSE far
        open == IF q.side = "back" THEN far ELSE near
    IN  /\ block.voxels[solid] = q.raw
        /\ AlphaIndex(Alpha(block, block.voxels[open])) < AlphaIndex(Alpha(block, q.raw))
        /\ open[q.za] - solid[q.za] = Normal(q)[q.za]

\* Both triangles of a quad wind clockwise as seen against its normal, and they are its halves.
Cross(u, v) == <<u[2] * v[3] - u[3] * v[2], u[3] * v[1] - u[1] * v[3], u[1] * v[2] - u[2] * v[1]>>
Minus(p, q) == [axis \in 1 .. 3 |-> p[axis] - q[axis]]
WindingAgrees(q) ==
  LET lut == QuadIndices[q.za][q.side]
      area(k) == Cross(Minus(CornerOf(q, lut[k + 1]), CornerOf(q, lut[k])),
                       Minus(CornerOf(q, lut[k + 2]), CornerOf(q, lut[k])))
      size == (q.to[1] - q.from[1]) * (q.to[2] - q.from[2])
  IN  \A k \in {1, 4} : area(k) = [axis \in 1 .. 3 |-> -size * Normal(q)[axis]]

CubesAreExact(block) ==
  /\ GreedyIsSimple(block)
  /\ GreedyIsMaximal(block)
  /\ FacesLookOutwards(block)
  /\ \A s \in Slices(block) : \A q \in GreedySlice(block, s[1], s[2]) : WindingAgrees(q)

=============================================================================
