----------------------------- MODULE BlockyMesher -----------------------------
(***************************************************************************)
(* The mesher of voxels that are models: the bake of a library             *)
(* (meshers/blocky/bake.rs), the mesh of a padded block of ids             *)
(* (mesher.rs), the occluders of its shadow (shadow_occluders.rs) and the  *)
(* skirts between levels of detail (lod_skirts.rs).                        *)
(*                                                                         *)
(* A model is [empty, transparency, culls, cutouts, fluid, skirts,         *)
(* surfaces]; a surface [material, collision, sides, inside], with a       *)
(* geometry [positions, indices] per side and one inside.  Lengths are in  *)
(* cells of the raster, Raster to the edge of a voxel; texture             *)
(* coordinates, tangents and colours but the shade are left out.           *)
(***************************************************************************)
EXTENDS Integers, Sequences, FiniteSets
Seqs == INSTANCE SequencesExt

CONSTANTS Raster, MaxSurfaces

AirId == 0
Pad == 1
Nothing == [positions |-> <<>>, indices |-> <<>>]

-----------------------------------------------------------------------------
(* The tables of a cube: constants/cube_tables.rs.  Sides, edges and       *)
(* corners are numbered from 0; the corners are those of the unit cube.    *)

FromZero(s) == [i \in 0 .. Len(s) - 1 |-> s[i + 1]]

Left == 0
Right == 1
Bottom == 2
Top == 3
Back == 4
Front == 5
Sides == 0 .. 5
Edges == 0 .. 11
Corners == 0 .. 7

CornerPosition ==
  FromZero(<< <<1, 0, 0>>, <<0, 0, 0>>, <<0, 0, 1>>, <<1, 0, 1>>, <<1, 1, 0>>, <<0, 1, 0>>, <<0, 1, 1>>, <<1, 1, 1>> >>)

SideQuadTriangles == FromZero([s \in 1 .. 6 |-> <<0, 2, 1, 0, 3, 2>>])

SideNormals == FromZero(<< <<1, 0, 0>>, <<-1, 0, 0>>, <<0, -1, 0>>, <<0, 1, 0>>, <<0, 0, -1>>, <<0, 0, 1>> >>)
SideTangents == FromZero(<< <<0, 0, -1>>, <<0, 0, 1>>, <<1, 0, 0>>, <<-1, 0, 0>>, <<-1, 0, 0>>, <<1, 0, 0>> >>)

SideCorners == FromZero(<< <<3, 0, 4, 7>>, <<1, 2, 6, 5>>, <<1, 0, 3, 2>>, <<4, 5, 6, 7>>, <<0, 1, 5, 4>>, <<2, 3, 7, 6>> >>)
SideEdges ==
  FromZero(<< <<3, 7, 11, 4>>, <<1, 6, 9, 5>>, <<0, 1, 2, 3>>, <<8, 9, 10, 11>>, <<0, 5, 8, 4>>, <<2, 6, 10, 7>> >>)

CornerINormals ==
  FromZero(<< <<1, -1, -1>>, <<-1, -1, -1>>, <<-1, -1, 1>>, <<1, -1, 1>>,
             <<1, 1, -1>>, <<-1, 1, -1>>, <<-1, 1, 1>>, <<1, 1, 1>> >>)
EdgeINormals ==
  FromZero(<< <<0, -1, -1>>, <<-1, -1, 0>>, <<0, -1, 1>>, <<1, -1, 0>>, <<1, 0, -1>>, <<-1, 0, -1>>,
             <<-1, 0, 1>>, <<1, 0, 1>>, <<0, 1, -1>>, <<-1, 1, 0>>, <<0, 1, 1>>, <<1, 1, 0>> >>)
EdgeCorners ==
  FromZero(<< <<0, 1>>, <<1, 2>>, <<2, 3>>, <<3, 0>>, <<0, 4>>, <<1, 5>>, <<2, 6>>, <<3, 7>>,
             <<4, 5>>, <<5, 6>>, <<6, 7>>, <<7, 4>> >>)

OppositeSide == FromZero(<<Right, Left, Top, Bottom, Front, Back>>)

\* The neighbours of a cell: by y, z, x without the centre, and by z, y, x with it
MooreNeighboring3D ==
  FromZero(<< <<-1, -1, -1>>, <<0, -1, -1>>, <<1, -1, -1>>, <<-1, -1, 0>>, <<0, -1, 0>>, <<1, -1, 0>>,
             <<-1, -1, 1>>, <<0, -1, 1>>, <<1, -1, 1>>, <<-1, 0, -1>>, <<0, 0, -1>>, <<1, 0, -1>>,
             <<-1, 0, 0>>, <<1, 0, 0>>, <<-1, 0, 1>>, <<0, 0, 1>>, <<1, 0, 1>>, <<-1, 1, -1>>, <<0, 1, -1>>,
             <<1, 1, -1>>, <<-1, 1, 0>>, <<0, 1, 0>>, <<1, 1, 0>>, <<-1, 1, 1>>, <<0, 1, 1>>, <<1, 1, 1>> >>)
OrderedMooreArea3D ==
  FromZero(<< <<-1, -1, -1>>, <<0, -1, -1>>, <<1, -1, -1>>, <<-1, 0, -1>>, <<0, 0, -1>>, <<1, 0, -1>>,
             <<-1, 1, -1>>, <<0, 1, -1>>, <<1, 1, -1>>, <<-1, -1, 0>>, <<0, -1, 0>>, <<1, -1, 0>>,
             <<-1, 0, 0>>, <<0, 0, 0>>, <<1, 0, 0>>, <<-1, 1, 0>>, <<0, 1, 0>>, <<1, 1, 0>>, <<-1, -1, 1>>,
             <<0, -1, 1>>, <<1, -1, 1>>, <<-1, 0, 1>>, <<0, 0, 1>>, <<1, 0, 1>>, <<-1, 1, 1>>, <<0, 1, 1>>, <<1, 1, 1>> >>)
MooreArea3DCentralIndex == 13

\* dir_to_side: Front for every vector that is no normal
DirToSide(d) ==
  IF \E s \in Sides : SideNormals[s] = d THEN CHOOSE s \in Sides : SideNormals[s] = d ELSE Front

-----------------------------------------------------------------------------
(* Properties.                                                             *)

Axis == 1 .. 3
Plus(p, q) == [a \in Axis |-> p[a] + q[a]]
Minus(p, q) == [a \in Axis |-> p[a] - q[a]]
Dot(p, q) == p[1] * q[1] + p[2] * q[2] + p[3] * q[3]
Cross(u, v) == <<u[2] * v[3] - u[3] * v[2], u[3] * v[1] - u[1] * v[3], u[1] * v[2] - u[2] * v[1]>>
Entries(s) == {s[i] : i \in DOMAIN s}

\* corner c lies on side s, edge e does
CornerOnSide(c, s) == Dot(CornerINormals[c], SideNormals[s]) = 1
EdgeOnSide(e, s) == \A c \in Entries(EdgeCorners[e]) : CornerOnSide(c, s)

\* The tables describe one cube: corners, edges and sides of each other, normals that point
\* away from it, quads that wind clockwise as seen from outside, neighbours each once.
TablesAreOneCube ==
  /\ \A c \in Corners : CornerINormals[c] = [a \in Axis |-> 2 * CornerPosition[c][a] - 1]
  /\ Cardinality(Entries(CornerPosition)) = 8
  /\ \A e \in Edges : LET c == EdgeCorners[e][1] d == EdgeCorners[e][2] IN
       /\ Cardinality({a \in Axis : CornerPosition[c][a] # CornerPosition[d][a]}) = 1
       /\ EdgeINormals[e] = [a \in Axis |-> (CornerINormals[c][a] + CornerINormals[d][a]) \div 2]
  /\ Cardinality({Entries(EdgeCorners[e]) : e \in Edges}) = 12
  /\ \A s \in Sides :
       /\ Entries(SideCorners[s]) = {c \in Corners : CornerOnSide(c, s)}
       /\ Entries(SideEdges[s]) = {e \in Edges : EdgeOnSide(e, s)}
       /\ \A k \in 1 .. 4 : \E e \in Entries(SideEdges[s]) :
            Entries(EdgeCorners[e]) = {SideCorners[s][k], SideCorners[s][(k % 4) + 1]}
       /\ SideNormals[OppositeSide[s]] = Minus(<<0, 0, 0>>, SideNormals[s])
       /\ Dot(SideTangents[s], SideNormals[s]) = 0
       /\ DirToSide(SideNormals[s]) = s
       /\ \A k \in {1, 4} : LET p(i) == CornerPosition[SideCorners[s][SideQuadTriangles[s][k + i] + 1]] IN
            Cross(Minus(p(1), p(0)), Minus(p(2), p(0))) = Minus(<<0, 0, 0>>, SideNormals[s])
  /\ LET cells == [Axis -> -1 .. 1] IN
       /\ Entries(MooreNeighboring3D) = cells \ {<<0, 0, 0>>}
       /\ \A i \in 0 .. 26 :
            OrderedMooreArea3D[i] = <<(i % 3) - 1, ((i \div 3) % 3) - 1, (i \div 9) - 1>>
       /\ OrderedMooreArea3D[MooreArea3DCentralIndex] = <<0, 0, 0>>

-----------------------------------------------------------------------------
(* The bitmap of a side, as the set of its cells.                          *)

Grid == (0 .. Raster - 1) \X (0 .. Raster - 1)

\* the axes a bitmap is made of, and those a cut is made of
RasterAxes(side) == IF side \in {Left, Right} THEN <<2, 3>> ELSE IF side \in {Bottom, Top} THEN <<1, 3>> ELSE <<1, 2>>
CutAxes(side) == IF side \in {Left, Right} THEN <<3, 2>> ELSE IF side \in {Bottom, Top} THEN <<1, 3>> ELSE <<1, 2>>
Projected(p, axes) == <<p[axes[1]], p[axes[2]]>>

Cross2(p, q) == p[1] * q[2] - p[2] * q[1]
Less2(p, q) == <<p[1] - q[1], p[2] - q[2]>>

IsPointInTriangle(s, a, b, c) ==
  LET an == Less2(a, s) bn == Less2(b, s) cn == Less2(c, s)
      orientation == Cross2(an, bn) > 0
  IN  (Cross2(bn, cn) > 0) = orientation /\ (Cross2(cn, an) > 0) = orientation

\* Corners are in units of 1/6000 cell, to be a thousandth further from the middle.
Grown(a, b, c) == [i \in 1 .. 2 |-> 6006 * a[i] - 2 * (a[i] + b[i] + c[i])]
RasterizeTriangle(a, b, c) ==
  {cell \in Grid : IsPointInTriangle(<<6000 * cell[1] + 3000, 6000 * cell[2] + 3000>>,
                                     Grown(a, b, c), Grown(b, c, a), Grown(c, a, b))}

Triangles(geometry) ==
  [t \in 1 .. Len(geometry.indices) \div 3 |->
     [k \in 1 .. 3 |-> geometry.positions[geometry.indices[3 * (t - 1) + k] + 1]]]

RasterizeSide(geometry, side) ==
  LET flat(p) == Projected(p, RasterAxes(side))
  IN  UNION {RasterizeTriangle(flat(t[1]), flat(t[2]), flat(t[3])) : t \in Entries(Triangles(geometry))}

BitmapOf(model, side) ==
  IF model.fluid THEN Grid ELSE UNION {RasterizeSide(s.sides[side], side) : s \in Entries(model.surfaces)}

-----------------------------------------------------------------------------
(* Patterns and which occludes which.  A baked library is                  *)
(* [models, bitmaps, patterns, culling, cutouts].                          *)

HasModel(lib, id) == id \in DOMAIN lib.models

\* the sides of all models in the order they are baked in: the bitmaps are a sequence of theirs
InOrderOfBake(models) == [n \in 1 .. 6 * Cardinality(DOMAIN models) |-> <<(n - 1) \div 6, (n - 1) % 6>>]
Bitmaps(models) ==
  Seqs!FlattenSeq([n \in DOMAIN InOrderOfBake(models) |->
                     <<BitmapOf(models[InOrderOfBake(models)[n][1]], InOrderOfBake(models)[n][2])>>])
BitmapAt(lib, id, side) == lib.bitmaps[6 * id + side + 1]

\* each pattern once
Distinct(s) == Seqs!FoldLeft(LAMBDA seen, e : IF e \in Entries(seen) THEN seen ELSE Append(seen, e), <<>>, s)

SidePatternIndex(lib, id, side) ==
  (CHOOSE i \in DOMAIN lib.patterns : lib.patterns[i] = BitmapAt(lib, id, side)) - 1
EmptySidesMask(lib, id) == {side \in Sides : BitmapAt(lib, id, side) = {}}
FullSidesMask(lib, id) == {side \in Sides : BitmapAt(lib, id, side) = Grid}
ContributesToAo(lib, id) ==
  HasModel(lib, id) => ~ lib.models[id].fluid /\ FullSidesMask(lib, id) = Sides

\* bit a + b * n says that the pattern a occludes the pattern b
Bit(a, b, n) == a + b * n

\* Mutant: patterns that have a cell in common occlude each other.
OverlapCulling(patterns) ==
  LET n == Len(patterns)
  IN  {Bit(p[1], p[2], n) :
         p \in {q \in (0 .. n - 1) \X (0 .. n - 1) : patterns[q[1] + 1] \cap patterns[q[2] + 1] # {}}}

SidePatternCulling(patterns) ==
  LET n == Len(patterns)
      common(a, b) == patterns[a + 1] \cap patterns[b + 1]
      pairs == {p \in (0 .. n - 1) \X (0 .. n - 1) : p[1] < p[2] /\ common(p[1], p[2]) # {}}
  IN  {Bit(a, a, n) : a \in {i \in 0 .. n - 1 : patterns[i + 1] # {}}}
      \cup {Bit(p[1], p[2], n) : p \in {q \in pairs : common(q[1], q[2]) = patterns[q[2] + 1]}}
      \cup {Bit(p[2], p[1], n) : p \in {q \in pairs : /\ common(q[1], q[2]) # patterns[q[2] + 1]
                                                      /\ common(q[1], q[2]) = patterns[q[1] + 1]}}

GetSidePatternOcclusion(lib, a, b) == Bit(a, b, Len(lib.patterns)) \in lib.culling

IsFaceVisibleRegardlessOfShape(model, other) ==
  other.empty \/ other.transparency > model.transparency \/ ~ other.culls

IsFaceVisibleAccordingToShape(lib, id, other, side) ==
  LET a == SidePatternIndex(lib, id, side)
      b == SidePatternIndex(lib, other, OppositeSide[side])
  IN  a # b /\ ~ GetSidePatternOcclusion(lib, b, a)

IsFaceVisible(lib, id, other, side) ==
  HasModel(lib, other) =>
    \/ IsFaceVisibleRegardlessOfShape(lib.models[id], lib.models[other])
    \/ IsFaceVisibleAccordingToShape(lib, id, other, side)

-----------------------------------------------------------------------------
(* Cutouts: a side that is one quad without the quad of a neighbour.       *)
(* A quad of the plane is <<min, max>>.                                    *)

Extreme(values, greatest) ==
  CHOOSE v \in values : \A w \in values : IF greatest THEN w <= v ELSE v <= w
Extent(points) ==
  LET at(greatest) == [i \in 1 .. 2 |-> Extreme({p[i] : p \in points}, greatest)]
  IN  <<at(FALSE), at(TRUE)>>

Flat(geometry, side) == [i \in DOMAIN geometry.positions |-> Projected(geometry.positions[i], CutAxes(side))]

\* detect_single_quad
IsSingleQuad(points, indices) ==
  /\ Len(points) = 4 /\ Len(indices) = 6
  /\ Cardinality(Entries(points)) = 4
  /\ \A p \in Entries(points), i \in 1 .. 2 : p[i] \in {Extent(Entries(points))[1][i], Extent(Entries(points))[2][i]}

GetSideGeometry2dAllSurfaces(model, side) ==
  [points |-> Seqs!FlattenSeq([k \in DOMAIN model.surfaces |-> Flat(model.surfaces[k].sides[side], side)]),
   indices |-> Seqs!FlattenSeq([k \in DOMAIN model.surfaces |-> model.surfaces[k].sides[side].indices])]

\* Box2f::difference
Intersects(a, b) == \A i \in 1 .. 2 : a[1][i] < b[2][i] /\ b[1][i] < a[2][i]
Difference(a, b) ==
  LET x0 == IF a[1][1] < b[1][1] THEN b[1][1] ELSE a[1][1]
      y0 == IF a[1][2] < b[1][2] THEN b[1][2] ELSE a[1][2]
      x1 == IF a[2][1] > b[2][1] THEN b[2][1] ELSE a[2][1]
      piece(cond, lo, hi) == IF cond THEN << <<lo, hi>> >> ELSE <<>>
  IN  IF ~ Intersects(a, b) THEN <<a>>
      ELSE piece(a[1][1] < b[1][1], a[1], <<b[1][1], a[2][2]>>)
           \o piece(a[1][2] < b[1][2], <<x0, a[1][2]>>, <<a[2][1], b[1][2]>>)
           \o piece(a[2][1] > b[2][1], <<b[2][1], y0>>, a[2])
           \o piece(a[2][2] > b[2][2], <<x0, b[2][2]>>, <<x1, a[2][2]>>)

QuadToTriangles(q) ==
  LET p1 == <<q[2][1], q[1][2]>> p3 == <<q[1][1], q[2][2]>>
  IN  <<q[1], p1, q[2], q[1], q[2], p3>>

\* index_triangles: points that are equal are one
IndexIn(seen, p) == (CHOOSE i \in DOMAIN seen : seen[i] = p) - 1

FlipWinding(indices) ==
  [i \in DOMAIN indices |-> IF i % 3 = 1 THEN indices[i] ELSE IF i % 3 = 2 THEN indices[i + 1] ELSE indices[i - 1]]

\* to_3d: the sides Left, Bottom and Back are put at 0
To3dSide(p, side) ==
  LET far == IF side \in {Right, Top, Front} THEN Raster ELSE 0
  IN  [axis \in Axis |-> IF axis = CutAxes(side)[1] THEN p[1] ELSE IF axis = CutAxes(side)[2] THEN p[2] ELSE far]

GenerateCutoutSideSurface(geometry, side, otherQuad) ==
  LET points == Flat(geometry, side)
      quads == Difference(Extent(Entries(points)), otherQuad)
      corners == Seqs!FlattenSeq([i \in DOMAIN quads |-> QuadToTriangles(quads[i])])
      seen == Distinct(corners)
      indices == [i \in DOMAIN corners |-> IndexIn(seen, corners[i])]
  IN  IF ~ IsSingleQuad(points, geometry.indices) THEN Nothing
      ELSE [positions |-> [i \in DOMAIN seen |-> To3dSide(seen[i], side)],
            indices |-> IF side \in {Left, Bottom, Front} THEN FlipWinding(indices) ELSE indices]

\* what one neighbour adds to the cutouts of a model: the surfaces that something is left of
CutoutsTowards(lib, id, other, side) ==
  LET model == lib.models[id]
      otherSide == GetSideGeometry2dAllSurfaces(lib.models[other], OppositeSide[side])
      cut(k) == GenerateCutoutSideSurface(model.surfaces[k].sides[side], side, Extent(Entries(otherSide.points)))
  IN  IF \/ other = id
         \/ ~ lib.models[other].culls
         \/ ~ IsFaceVisible(lib, id, other, side)
         \/ IsFaceVisibleRegardlessOfShape(model, lib.models[other])
         \/ ~ IsSingleQuad(otherSide.points, otherSide.indices)
      THEN <<>>
      ELSE SelectSeq([k \in DOMAIN model.surfaces |->
                          [side |-> side, shape |-> SidePatternIndex(lib, other, OppositeSide[side]), geometry |-> cut(k)]],
                       LAMBDA entry : entry.geometry.indices # <<>>)

GenerateModelCutoutSides(lib, id) ==
  Seqs!FlattenSeq([n \in 1 .. 6 * Cardinality(DOMAIN lib.models) |->
                  CutoutsTowards(lib, id, InOrderOfBake(lib.models)[n][1], InOrderOfBake(lib.models)[n][2])])

GenerateSideCullingMatrix(models) ==
  LET bitmaps == Bitmaps(models)
      patterns == Distinct(bitmaps)
  IN  [models |-> models, bitmaps |-> bitmaps, patterns |-> patterns, culling |-> SidePatternCulling(patterns)]

BakeLibrary(models) ==
  LET lib == GenerateSideCullingMatrix(models)
  IN  [models |-> models, bitmaps |-> lib.bitmaps, patterns |-> lib.patterns, culling |-> lib.culling,
       cutouts |-> [id \in DOMAIN models |-> IF models[id].cutouts THEN GenerateModelCutoutSides(lib, id) ELSE <<>>]]

-----------------------------------------------------------------------------
(* The mesh.  A block is [size, buffer, occlusion]: buffer the ids of all  *)
(* voxels, the padding included, by z, x and y.                            *)

Index(size, p) == p[2] + size[2] * (p[1] + size[1] * p[3])
Read(block, i) == block.buffer[i + 1]

\* the offsets of the neighbours in the buffer
SideNeighborLut(size) ==
  LET row == size[2] deck == size[1] * size[2]
  IN  FromZero(<<row, -row, -1, 1, -deck, deck>>)
SidesOfEdge ==
  FromZero(<<{Bottom, Back}, {Bottom, Right}, {Bottom, Front}, {Bottom, Left}, {Back, Left}, {Back, Right},
             {Front, Right}, {Front, Left}, {Top, Back}, {Top, Right}, {Top, Front}, {Top, Left}>>)
SidesOfCorner ==
  FromZero(<<{Bottom, Back, Left}, {Bottom, Back, Right}, {Bottom, Front, Right}, {Bottom, Front, Left},
             {Top, Back, Left}, {Top, Back, Right}, {Top, Front, Right}, {Top, Front, Left}>>)
NeighborLut(size, sides) ==
  LET offset(s) == IF s \in sides THEN SideNeighborLut(size)[s] ELSE 0
  IN  offset(0) + offset(1) + offset(2) + offset(3) + offset(4) + offset(5)

\* how many neighbours shade each corner of a side, 3 at most
ShadedCorner(lib, block, i, side) ==
  LET at(sides) == ContributesToAo(lib, Read(block, i + NeighborLut(block.size, sides)))
      edges(c) == Cardinality({e \in Entries(SideEdges[side]) : c \in Entries(EdgeCorners[e]) /\ at(SidesOfEdge[e])})
      shade(c) == IF edges(c) = 2 THEN 3 ELSE edges(c) + IF at(SidesOfCorner[c]) THEN 1 ELSE 0
  IN  [c \in Entries(SideCorners[side]) |-> shade(c)]

\* the shade of a vertex: of the corner whose shade reaches it most, by its distance,
\* in thirds of the darkness over the square of Raster
VertexShade(shaded, p) ==
  LET distance(c) == Minus([a \in Axis |-> Raster * CornerPosition[c][a]], p)
      reach(c) == Raster * Raster - Dot(distance(c), distance(c))
  IN  Extreme({0} \cup {shaded[c] * (IF reach(c) < 0 THEN 0 ELSE reach(c)) : c \in DOMAIN shaded}, TRUE)

VisibleSides(lib, block, i) ==
  LET id == Read(block, i)
  IN  {side \in Sides \ EmptySidesMask(lib, id) :
         IsFaceVisible(lib, id, Read(block, i + SideNeighborLut(block.size)[side]), side)}

\* the surfaces of a visible side: whole, or as they were cut for this neighbour
CutEntries(lib, id, side, neighbor) ==
  IF ~ lib.models[id].cutouts \/ ~ HasModel(lib, neighbor) THEN <<>>
  ELSE SelectSeq(lib.cutouts[id],
                 LAMBDA e : e.side = side /\ e.shape = SidePatternIndex(lib, neighbor, OppositeSide[side]))
SideSurfaces(lib, block, i, side) ==
  LET id == Read(block, i)
      cut == CutEntries(lib, id, side, Read(block, i + SideNeighborLut(block.size)[side]))
  IN  [k \in 1 .. MaxSurfaces |->
         IF cut # <<>> THEN IF k \in DOMAIN cut THEN cut[k].geometry ELSE Nothing
         ELSE IF k \in DOMAIN lib.models[id].surfaces THEN lib.models[id].surfaces[k].sides[side] ELSE Nothing]

\* A piece of a mesh: what one surface of one voxel adds to the arrays of its material.
Piece(surface, geometry, from, p, what, shades) ==
  [material |-> surface.material, collision |-> surface.collision, at |-> p, what |-> what, shades |-> shades,
   positions |-> [i \in DOMAIN geometry.positions |-> Plus(geometry.positions[i], from)], indices |-> geometry.indices]
CellOrigin(p) == [a \in Axis |-> Raster * (p[a] - Pad)]
Inside == 6

SidePieces(lib, block, p, side) ==
  LET i == Index(block.size, p)
      surfaces == lib.models[Read(block, i)].surfaces
      geometries == SideSurfaces(lib, block, i, side)
      shaded == IF block.occlusion THEN ShadedCorner(lib, block, i, side) ELSE [c \in Corners |-> 0]
      shades(g) == [v \in DOMAIN g.positions |-> VertexShade(shaded, g.positions[v])]
  IN  IF side \notin VisibleSides(lib, block, i) THEN <<>>
      ELSE [k \in DOMAIN surfaces |->
              Piece(surfaces[k], geometries[k], CellOrigin(p), p, side, shades(geometries[k]))]

InsidePieces(lib, block, p) ==
  LET surfaces == SelectSeq(lib.models[Read(block, Index(block.size, p))].surfaces,
                            LAMBDA s : s.inside.positions # <<>>)
  IN  [k \in DOMAIN surfaces |->
         Piece(surfaces[k], surfaces[k].inside, CellOrigin(p), p, Inside, [v \in DOMAIN surfaces[k].inside.positions |-> 0])]

VoxelPieces(lib, block, p) ==
  LET id == Read(block, Index(block.size, p))
  IN  IF id = AirId \/ ~ HasModel(lib, id) \/ lib.models[id].fluid THEN <<>>
      ELSE Seqs!FlattenSeq([s \in 1 .. 6 |-> SidePieces(lib, block, p, s - 1)]) \o InsidePieces(lib, block, p)

\* the voxels inside the padding, by z, x and y
InnerVoxels(size) ==
  LET n == [a \in Axis |-> size[a] - 2 * Pad]
  IN  [k \in 1 .. n[1] * n[2] * n[3] |->
         <<(((k - 1) \div n[2]) % n[1]) + Pad, ((k - 1) % n[2]) + Pad, ((k - 1) \div (n[1] * n[2])) + Pad>>]

Pieces(lib, block) ==
  LET voxels == InnerVoxels(block.size)
  IN  Seqs!FlattenSeq([k \in DOMAIN voxels |-> VoxelPieces(lib, block, voxels[k])])

\* the arrays of the pieces: indices are moved by the vertices that are there
EmptyArrays == [positions |-> <<>>, normals |-> <<>>, shades |-> <<>>, indices |-> <<>>]
AppendPiece(arrays, piece) ==
  [positions |-> arrays.positions \o piece.positions,
   normals |-> arrays.normals \o [v \in DOMAIN piece.positions |-> piece.what],
   shades |-> arrays.shades \o piece.shades,
   indices |-> arrays.indices \o [j \in DOMAIN piece.indices |-> Len(arrays.positions) + piece.indices[j]]]
ArraysOf(pieces) == Seqs!FoldLeft(AppendPiece, EmptyArrays, pieces)

\* the mesh of a material, and what bodies collide with
GenerateMesh(pieces, material) == ArraysOf(SelectSeq(pieces, LAMBDA piece : piece.material = material))
CollisionMesh(pieces, materials) ==
  ArraysOf(SelectSeq(pieces, LAMBDA piece : piece.collision /\ piece.material < materials))

-----------------------------------------------------------------------------
(* Shadow occluders: a side of the block behind whose voxels everything is *)
(* hidden.                                                                 *)

AxisOf(side) == (side \div 2) + 1
SignOf(side) == IF side \in {Left, Top, Front} THEN 1 ELSE -1

\* the voxels at a side of the block, inside the padding
AtSide(size, side) ==
  {p \in Entries(InnerVoxels(size)) :
     p[AxisOf(side)] = IF SignOf(side) > 0 THEN size[AxisOf(side)] - Pad - 1 ELSE Pad}

IsFullyOccluded(lib, v0, v1, side) ==
  /\ HasModel(lib, v0) /\ HasModel(lib, v1)
  /\ ~ lib.models[v0].empty /\ ~ lib.models[v1].empty
  /\ lib.models[v0].transparency = 0 /\ lib.models[v1].transparency = 0
  /\ side \in FullSidesMask(lib, v0) /\ OppositeSide[side] \in FullSidesMask(lib, v1)

IsChunkSideOccluded(lib, block, side) ==
  \A p \in AtSide(block.size, side) :
    IsFullyOccluded(lib, Read(block, Index(block.size, p)),
                    Read(block, Index(block.size, Plus(p, SideNormals[side]))), side)

\* the bits of the mask of sides, in which -x comes before +x
EnabledBit == FromZero(<<1, 0, 2, 3, 4, 5>>)
ClassifyChunkOcclusion(lib, block, enabled) ==
  SelectSeq(<<Left, Top, Front, Right, Bottom, Back>>,
            LAMBDA side : EnabledBit[side] \in enabled /\ IsChunkSideOccluded(lib, block, side))

OccluderCorners ==
  FromZero(<< << <<1, 0, 0>>, <<1, 0, 1>>, <<1, 1, 1>>, <<1, 1, 0>> >>, << <<0, 0, 0>>, <<0, 0, 1>>, <<0, 1, 1>>, <<0, 1, 0>> >>,
             << <<0, 0, 0>>, <<1, 0, 0>>, <<1, 0, 1>>, <<0, 0, 1>> >>, << <<0, 1, 0>>, <<1, 1, 0>>, <<1, 1, 1>>, <<0, 1, 1>> >>,
             << <<0, 0, 0>>, <<1, 0, 0>>, <<1, 1, 0>>, <<0, 1, 0>> >>, << <<0, 0, 1>>, <<1, 0, 1>>, <<1, 1, 1>>, <<0, 1, 1>> >> >>)
OccluderIndices(side) == IF side \in {Left, Top, Back} THEN <<0, 1, 2, 0, 2, 3>> ELSE <<0, 2, 1, 0, 3, 2>>

GenerateShadowOccluders(lib, block, enabled) ==
  LET sides == ClassifyChunkOcclusion(lib, block, enabled)
      extent(c) == [a \in Axis |-> c[a] * (block.size[a] - 2 * Pad)]
  IN  [vertices |-> Seqs!FlattenSeq([k \in DOMAIN sides |-> [v \in 1 .. 4 |-> extent(OccluderCorners[sides[k]][v])]]),
       indices |-> Seqs!FlattenSeq([k \in DOMAIN sides |-> [v \in 1 .. 6 |-> 4 * (k - 1) + OccluderIndices(sides[k])[v]]])]

-----------------------------------------------------------------------------
(* Skirts: sides of border voxels behind a padding voxel that is itself at *)
(* the edge of what is solid in the plane of the padding.                  *)

Xyz(v) == v
Zyx(v) == <<v[3], v[2], v[1]>>
Zxy(v) == <<v[3], v[1], v[2]>>
Yzx(v) == <<v[2], v[3], v[1]>>

\* block axes as the side sees them, and back
SideAxes(v, side) == IF side \in {Left, Right} THEN Zyx(v) ELSE IF side \in {Bottom, Top} THEN Zxy(v) ELSE Xyz(v)
SideToBlockCoordinates(v, side) ==
  IF side \in {Left, Right} THEN Zyx(v) ELSE IF side \in {Bottom, Top} THEN Yzx(v) ELSE Xyz(v)

AppendSideSkirts(lib, block, side, depth) ==
  LET size == SideAxes(block.size, side)
      jump == SideAxes(<<block.size[2], 1, block.size[1] * block.size[2]>>, side)
      z == IF SignOf(side) > 0 THEN size[3] - 1 ELSE 0
      width == size[1] - 2 * Pad
      height == size[2] - 2 * Pad
      cells == [k \in 1 .. width * height |-> <<((k - 1) \div height) + Pad, ((k - 1) % height) + Pad>>]
      at(c) == c[1] * jump[1] + c[2] * jump[2] + z * jump[3]
      around(c) == {Read(block, at(c) + o) : o \in {-jump[1], jump[1], -jump[2], jump[2]}}
      inner(c) == Read(block, at(c) - SignOf(side) * jump[3])
      exposed(c) == /\ Read(block, at(c)) # AirId /\ AirId \in around(c) /\ inner(c) # AirId
                    /\ HasModel(lib, inner(c)) /\ lib.models[inner(c)].skirts
      local(c) == <<c[1] - Pad, c[2] - Pad, z - (SignOf(side) + 1)>>
      from(c) == [a \in Axis |-> Raster * SideToBlockCoordinates(local(c), side)[a] + depth * SideNormals[side][a]]
      voxel(c) == Plus(SideToBlockCoordinates(local(c), side), <<Pad, Pad, Pad>>)
      pieces(c) ==
        LET surfaces == lib.models[inner(c)].surfaces
        IN  [k \in DOMAIN surfaces |->
               Piece(surfaces[k], surfaces[k].sides[side], from(c), voxel(c), side,
                     [v \in DOMAIN surfaces[k].sides[side].positions |-> 0])]
  IN  Seqs!FlattenSeq([k \in DOMAIN cells |-> IF exposed(cells[k]) THEN pieces(cells[k]) ELSE <<>>])

AppendSkirts(lib, block, depth) ==
  Seqs!FlattenSeq([k \in 1 .. 6 |-> AppendSideSkirts(lib, block, <<Back, Front, Right, Left, Bottom, Top>>[k], depth)])

-----------------------------------------------------------------------------
(* Properties.                                                             *)

Covers(bitmap, other) == other \subseteq bitmap

\* every triangle winds clockwise as seen from where the side looks to, and lies in one plane
WindsOutwards(geometry, side) ==
  \A t \in Entries(Triangles(geometry)) :
    LET area == Cross(Minus(t[2], t[1]), Minus(t[3], t[1]))
    IN  Dot(area, SideNormals[side]) < 0 /\ Dot(area, area) = Dot(area, SideNormals[side]) * Dot(area, SideNormals[side])

\* a side of a model of one surface that can be cut by a side of another
CanBeCut(lib, id, other, side) ==
  LET flat == GetSideGeometry2dAllSurfaces(lib.models[id], side)
      otherFlat == GetSideGeometry2dAllSurfaces(lib.models[other], OppositeSide[side])
  IN  /\ lib.models[id].cutouts /\ Len(lib.models[id].surfaces) = 1 /\ id # other
      /\ ~ IsFaceVisibleRegardlessOfShape(lib.models[id], lib.models[other])
      /\ IsSingleQuad(flat.points, flat.indices) /\ IsSingleQuad(otherFlat.points, otherFlat.indices)

\* what is cut out of a side along x is put where the opposite side is, turned inside out
IsTurned(side) == side \in {Left, Right}

\* BakeIsExact: of the sides of any two models the one hides the other by shape when its
\* bitmap covers the other's ("side-culling hints", bake.rs), whatever the order of the
\* library, and a side that is cut is what the other leaves of it, wound as it was.
BakeIsExact(models) ==
  \A lib \in {BakeLibrary(models)} : \A id, other \in DOMAIN models, side \in Sides :
    \A bitmap \in {BitmapAt(lib, id, side)}, against \in {BitmapAt(lib, other, OppositeSide[side])} :
      \A cut \in {CutEntries(lib, id, side, other)} :
            bitmap # {} =>
              /\ IsFaceVisibleAccordingToShape(lib, id, other, side) <=> ~ Covers(against, bitmap)
              /\ CanBeCut(lib, id, other, side) /\ ~ Covers(against, bitmap) =>
                   RasterizeSide(cut[1].geometry, side) = bitmap \ against
              /\ \A k \in DOMAIN cut : WindsOutwards(cut[k].geometry, side) <=> ~ IsTurned(side)

VoxelAt(block, p) == Read(block, Index(block.size, p))
IsRight(lib, block, piece) ==
  piece.what \in Sides /\ (IsTurned(piece.what) => ~ lib.models[VoxelAt(block, piece.at)].cutouts)
PiecesOf(pieces, p, what) == {piece \in Entries(pieces) : piece.at = p /\ piece.what = what}
Geometry(piece) ==
  [positions |-> [v \in DOMAIN piece.positions |-> Minus(piece.positions[v], CellOrigin(piece.at))], indices |-> piece.indices]

\* the sides that a neighbour leaves visible are meshed, those it hides are not
SidesAreMeshed(lib, block, pieces) ==
  \A p \in Entries(InnerVoxels(block.size)), side \in Sides :
    LET id == VoxelAt(block, p)
        other == VoxelAt(block, Plus(p, SideNormals[side]))
        meshed == UNION {RasterizeSide(Geometry(piece), side) : piece \in PiecesOf(pieces, p, side)}
        hides == HasModel(lib, other) /\ ~ IsFaceVisibleRegardlessOfShape(lib.models[id], lib.models[other])
        against == IF HasModel(lib, other) THEN BitmapAt(lib, other, OppositeSide[side]) ELSE {}
    IN  IF id = AirId \/ ~ HasModel(lib, id) THEN PiecesOf(pieces, p, side) = {}
        ELSE IF lib.models[id].fluid THEN meshed = {}
        ELSE /\ meshed \subseteq BitmapAt(lib, id, side)
             /\ BitmapAt(lib, id, side) \ against \subseteq meshed
             /\ hides /\ Covers(against, BitmapAt(lib, id, side)) => meshed = {}
             /\ ~ hides /\ ~ lib.models[id].cutouts => meshed = BitmapAt(lib, id, side)

\* the corner of a face is as dark as the three voxels in front of it that touch it say, all
\* the way if the two beside it are solid
ShadesAreOfTheCorner(lib, block, pieces) ==
  \A piece \in Entries(pieces) : IsRight(lib, block, piece) /\ block.occlusion =>
    \A v \in DOMAIN piece.positions :
      LET n == SideNormals[piece.what]
          away == [a \in Axis |-> IF n[a] # 0 THEN 0
                                  ELSE IF Geometry(piece).positions[v][a] = 0 THEN -1 ELSE 1]
          first == CHOOSE a \in Axis : away[a] # 0
          beside(a) == Plus(n, [x \in Axis |-> IF x = a THEN away[x] ELSE 0])
          second == CHOOSE a \in Axis : away[a] # 0 /\ a # first
          solid(offset) == IF ContributesToAo(lib, VoxelAt(block, Plus(piece.at, offset))) THEN 1 ELSE 0
          dark == IF solid(beside(first)) + solid(beside(second)) = 2 THEN 3
                  ELSE solid(beside(first)) + solid(beside(second)) + solid(Plus(n, away))
      IN  (\A a \in Axis : Geometry(piece).positions[v][a] \in {0, Raster}) =>
             piece.shades[v] = dark * Raster * Raster

\* the arrays hold the triangles of their pieces
ArraysAreOfPieces(arrays, pieces) ==
  /\ Entries(Triangles(arrays)) = UNION {Entries(Triangles(piece)) : piece \in pieces}
  /\ Len(arrays.positions) = Len(arrays.normals) /\ Len(arrays.positions) = Len(arrays.shades)

MeshIsExact(lib, block, pieces, materials) ==
  /\ SidesAreMeshed(lib, block, pieces)
  /\ ShadesAreOfTheCorner(lib, block, pieces)
  /\ \A piece \in Entries(pieces) : IsRight(lib, block, piece) => WindsOutwards(piece, piece.what)
  /\ \A m \in 0 .. materials - 1 :
       ArraysAreOfPieces(GenerateMesh(pieces, m), {piece \in Entries(pieces) : piece.material = m})
  /\ ArraysAreOfPieces(CollisionMesh(pieces, materials),
                       {piece \in Entries(pieces) : piece.collision /\ piece.material < materials})

\* A quad of the occluders stands for each side where no light comes through ("every voxel
\* pair straddling that face fully occludes each other", shadow_occluders.rs:7-8); where it
\* stands the mesh has no face, if all models cull.
OccludersAreExact(lib, block, pieces, enabled) ==
  LET occluders == GenerateShadowOccluders(lib, block, enabled)
      sides == ClassifyChunkOcclusion(lib, block, enabled)
      opaque(p, side) == LET id == VoxelAt(block, p) IN
                           /\ HasModel(lib, id) /\ ~ lib.models[id].empty
                           /\ lib.models[id].transparency = 0 /\ BitmapAt(lib, id, side) = Grid
      beyond(p, side) == Plus(p, SideNormals[side])
  IN  /\ Entries(sides) = {side \in Sides :
           /\ EnabledBit[side] \in enabled
           /\ \A p \in AtSide(block.size, side) : opaque(p, side) /\ opaque(beyond(p, side), OppositeSide[side])}
      /\ \A k \in DOMAIN sides :
           LET quad == [positions |-> occluders.vertices,
                        indices |-> SubSeq(occluders.indices, 6 * k - 5, 6 * k)]
               plane == IF SignOf(sides[k]) > 0 THEN block.size[AxisOf(sides[k])] - 2 * Pad ELSE 0
           IN  /\ WindsOutwards(quad, sides[k])
               /\ \A t \in Entries(Triangles(quad)), i \in 1 .. 3 : t[i][AxisOf(sides[k])] = plane
      /\ \A piece \in Entries(pieces) :
           piece.what \in Entries(sides) /\ piece.at \in AtSide(block.size, piece.what) =>
             \E id \in DOMAIN lib.models : ~ lib.models[id].culls

\* A skirt is a side of a voxel at the border of the block, towards the border, behind a
\* voxel of the padding with air beside it; it shows no face that the mesh shows, but
\* where that voxel hides nothing.
SkirtsAreExact(lib, block, pieces, depth) ==
  \A skirt \in Entries(AppendSkirts(lib, block, depth)) :
    LET outer == Plus(skirt.at, SideNormals[skirt.what])
        inPlane == {s \in Sides : s \notin {skirt.what, OppositeSide[skirt.what]}}
    IN  /\ skirt.at \in AtSide(block.size, skirt.what)
        /\ VoxelAt(block, skirt.at) # AirId /\ VoxelAt(block, outer) # AirId
        /\ \E s \in inPlane : VoxelAt(block, Plus(outer, SideNormals[s])) = AirId
        /\ \A v \in DOMAIN skirt.positions :
             skirt.positions[v][AxisOf(skirt.what)]
               = depth * SignOf(skirt.what)
                 + Raster * (skirt.at[AxisOf(skirt.what)] - Pad + IF SignOf(skirt.what) > 0 THEN 1 ELSE 0)
        /\ IsFullyOccluded(lib, VoxelAt(block, skirt.at), VoxelAt(block, outer), skirt.what)
           /\ lib.models[VoxelAt(block, outer)].culls =>
             PiecesOf(pieces, skirt.at, skirt.what) = {}

BlockIsExact(lib, block, materials, enabled, depth) ==
  \A pieces \in {Pieces(lib, block)} :
      /\ MeshIsExact(lib, block, pieces, materials)
      /\ OccludersAreExact(lib, block, pieces, enabled)
      /\ SkirtsAreExact(lib, block, pieces, depth)
=============================================================================
