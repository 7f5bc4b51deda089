----------------------------- MODULE MCFunctions -----------------------------
(***************************************************************************)
(* Bounded inputs of the functions of the library: an input is chosen at   *)
(* the beginning, `on` says for which function, and each property relates  *)
(* the function to a reference definition.                                 *)
(***************************************************************************)
EXTENDS Integers, Sequences, FiniteSets, TLC

VARIABLES on, input

Space == INSTANCE Boxes WITH Dims <- 2
Seen == INSTANCE ViewerBoxes WITH Dims <- 2, BlockSize <- 3, MaxViewDistance <- 5, VerticalAxis <- 2
Room == INSTANCE ViewerBoxes WITH Dims <- 3, BlockSize <- 3, MaxViewDistance <- 5, VerticalAxis <- 2
Task == INSTANCE Priorities
Line == INSTANCE MeshGather WITH
          Dims <- 1, DataBlockSize <- 3, MinPadding <- 1, MaxPadding <- 2,
          MeshBlocks <- [1 .. 1 -> {-1, 2}], GatherLods <- {0, 1}
Plane == INSTANCE MeshGather WITH
           Dims <- 2, DataBlockSize <- 2, MinPadding <- 1, MaxPadding <- 1,
           MeshBlocks <- {<<-1, -1>>}, GatherLods <- {1}
Turn == INSTANCE Rotations
Cubes == INSTANCE CubesMesher
Blocky == INSTANCE BlockyMesher WITH Raster <- 4, MaxSurfaces <- 2
Graph == INSTANCE GraphRuntime
Ground == INSTANCE Generators
Ranges == INSTANCE Intervals
Edit == INSTANCE Edition
Expression == INSTANCE ExpressionParser
Codec == INSTANCE ByteFormats WITH
           ByteBase <- 14, Nibble <- 3, MaxChannels <- 2, Magic <- <<13, 0, 11, 9>>, MaxDecompressed <- 80,
           MaxBytes <- 64, MaxBlockVoxels <- 5
Vox == INSTANCE VoxFormat WITH
         MaxModelSize <- 3, MaxItems <- 3, MaxChildren <- 3, MaxModelId <- 5, MaxModels <- 3, MaxTotalVoxels <- 20,
         MaxNodes <- 4
Smooth == INSTANCE Transvoxel
Map == INSTANCE VoxelMaps WITH BlockSize <- 2, BlockRange <- 1 .. 2, DefaultVoxel <- <<0, 7>>

-----------------------------------------------------------------------------
\* the inputs of the functions

Axes == 1 .. 2
BoxInputs ==
  {<<"sets", Space!Box(p, s), Space!Box(q, r)>> :
     p \in [Axes -> {-2, 1}], s \in [Axes -> {0, 1, 2, 4}], q \in [Axes -> {-1, 1}], r \in [Axes -> 0 .. 2]}
  \cup {<<"blocks", Space!Box(p, s), n>> : p \in [Axes -> -4 .. 0], s \in [Axes -> 1 .. 5], n \in 1 .. 3}
  \cup {<<"numbers", n>> : n \in -9 .. 40}

\* Two viewers in three frames; boxes of one to three cells to the edge in space.
ViewerStates ==
  {[pos |-> p, horizontal |-> h, vertical |-> 4, meshes |-> m] : p \in {<<0, -4>>, <<5, -4>>, <<-7, 2>>}, h \in {2, 9}, m \in BOOLEAN}
ViewerInputs ==
  {<<"frames", <<[id |-> 1, state |-> x], [id |-> 2, state |-> y]>>, g, n>> :
     x \in ViewerStates, y \in {t \in ViewerStates : t.pos[1] = 5}, n \in {1, 2},
     g \in {<<>>} \cup {<<[id |-> 1, state |-> z], [id |-> 1, state |-> [z EXCEPT !.meshes = TRUE]]>> :
                          z \in {t \in ViewerStates : t.horizontal = 2 /\ ~ t.meshes}}}
  \cup {<<"slabs", Room!Box(<<0, 0, 0>>, s), Room!Box(p, r)>> :
           s \in {0, 1, 3} \X {1, 3} \X {1, 3}, p \in {-1, 0, 1, 3} \X (-1 .. 1) \X {1}, r \in {0, 2} \X {1, 4} \X {1, 5}}

Tasks == [position : {20, 700}, lod : {0, 1, 23}, band2 : {8, 10}]
PriorityInputs == [viewers : {{}, {0}, {-50, 400}}, s : Tasks, t : Tasks, drop : {24, 100000}]

RotationInputs == [i : 0 .. 23, j : 0 .. 5, turns : -5 .. 5, size : {<<1, 2, 3>>, <<2, 2, 1>>}]

BlocksOf(k) == {Map!Absent, Map!Hollow}
               \cup {[i \in 0 .. 1 |-> IF i = 0 THEN <<20 + k, n>> ELSE <<21 + k, 1>>] : n \in 0 .. 1}
Sources == {<< >>} \cup {<<<<10, n>>>> : n \in 0 .. 1}
           \cup {<<<<10, n>>, <<11, 0>>, <<12, k>>>> : n, k \in 0 .. 1}
PasteInputs ==
  {in \in [op : {"paste", "masked", "writable"}, blocks : {<<x, y>> : x \in BlocksOf(0), y \in BlocksOf(2)},
           min : {2, 3}, src : Sources, channels : {{1}, {1, 2}}, create : BOOLEAN, srcMask : {2},
           srcMaskValue : {0}, dstMask : {1, 2}, writable : {{0}, {1, 20}}] :
     /\ in.min + Len(in.src) <= 6
     /\ in.op # "writable" => in.dstMask = 1 /\ in.writable = {0}}

\* The samples of a block: 1 but for the points in solid and those of zero.
SamplePoints(cells) == {<<x, y, z>> : x \in 0 .. cells[1], y \in 0 .. cells[2], z \in 0 .. cells[3]}
Samples(in) == [p \in SamplePoints(in.cells) |-> IF p \in in.solid THEN -1 ELSE IF p \in in.zero THEN 0 ELSE 1]
Centre == <<1, 1, 1>>
SurfaceInputs ==
  {[cells |-> <<1, 1, 2>>, solid |-> S, zero |-> {}] : S \in SUBSET SamplePoints(<<1, 1, 2>>)}
  \cup {[cells |-> <<2, 2, 3>>, solid |-> {p, q}, zero |-> Z] :
           p, q \in SamplePoints(<<2, 2, 3>>), Z \in {{}, {Centre, <<1, 1, 2>>}}}

\* A face of n by 2 cells of full resolution, in all cases for n = 2; for n = 4 with
\* samples of zero.
Thin(dir, n) == [i \in 1 .. 3 |-> IF i = dir \div 2 + 1 THEN 1 ELSE IF i = Smooth!FaceAxes(dir)[1] THEN n ELSE 2]
OnThin(dir, n) == {p \in SamplePoints(Thin(dir, n)) : Smooth!OnFace(<<p, p>>, Thin(dir, n), dir)}
SeamInputs ==
  UNION {{[cells |-> Thin(d, 2), solid |-> S, zero |-> {}, dir |-> d] : S \in SUBSET OnThin(d, 2)} : d \in 0 .. 5}
  \cup UNION {{[cells |-> Thin(d, 4), solid |-> {p, q}, zero |-> {r}, dir |-> d] :
                  p, q, r \in OnThin(d, 4)} : d \in {3}}

\* 3 by 2 by 1 voxels and their padding, each with 0 or one of two others
CubePositions == (0 .. 4) \X (0 .. 3) \X (0 .. 2)
CubesInputs ==
  {[size |-> <<5, 4, 3>>, depth |-> m[1], palette |-> m[2],
    voxels |-> [p \in CubePositions |-> IF p[1] \in 1 .. 3 /\ p[2] \in 1 .. 2 /\ p[3] = 1
                                        THEN v[3 * p[2] + p[1] - 3] ELSE pad]] :
     m \in {<<8, <<>>>>, <<8, <<0, 255, 255, 255, 0>>>>}, pad \in {0, 3}, v \in {[f EXCEPT ![6] = 2] : f \in [1 .. 6 -> {0, 2, 3}]}}

\* Graphs of five nodes: two that read nothing, two operations whose ports are 1 to 4 (so
\* that there are cycles) and a sink in one of two places, or a port that dangles.
Node(kind, ports, params) == [kind |-> kind, ports |-> ports, params |-> params]
Operations ==
  {<<k, 1, <<>>>> : k \in {"Abs", "Sqrt", "Sin"}}
  \cup {<<"Remap", 1, <<0, 2, 1, 3>>>>}
  \cup {<<k, 2, <<>>>> : k \in {"Add", "Subtract", "Multiply", "Divide", "Min", "SdfSubtract", "Hard"}}
  \cup {<<k, 3, <<>>>> : k \in {"Mix", "Clamp", "Normalize3D"}}
  \cup {<<k, 4, <<>>>> : k \in {"Distance2D", "SdfSphere"}}
Reading(operation, ids) ==
  Node(operation[1], [i \in 1 .. operation[2] |-> IF ids[i] = 0 THEN <<>> ELSE <<ids[i], 0>>], operation[3])
GraphOf(in) ==
  LET n == <<Node(in.first, <<>>, <<>>),
             IF in.second = 9 THEN Node("InputY", <<>>, <<>>) ELSE Node("Constant", <<>>, <<in.second>>),
             Reading(in.third, in.ports[1]), Reading(in.fourth, in.ports[2]),
             Node("OutputSdf", <<<<in.ports[3], 0>>>>, <<>>)>>
  IN  n
GraphInputs ==
  [first : {"InputX"}, second : {0, 2, 9}, third : Operations, fourth : Operations,
   ports : {<<<<1, 2, 2, 2>>, <<3, 2, 1, 0>>, 4>>, <<<<1, 4, 0, 1>>, <<3, 2, 2, 1>>, 4>>, <<<<1, 1, 2, 2>>, <<2, 3, 0, 2>>, 3>>,
            <<<<4, 1, 2, 2>>, <<1, 2, 2, 0>>, 3>>, <<<<1, 2, 2, 2>>, <<1, 1, 2, 2>>, 6>>}]
GraphBlock == [origin |-> [x |-> -1, y |-> 1, z |-> 0], size |-> 2, stride |-> 2]

\* Grounds of all kinds around the height of 0, and blocks through it.
Heightmap(kind) ==
  [kind |-> kind, channel |-> "Sdf", matter |-> 5, isoScale |-> 1, start |-> -6, range |-> 8, offset |-> <<1, -1>>]
Noises == <<-4, 3, 0, 4>>
Wave == [Heightmap("Waves") EXCEPT !.range = 16] @@ [patternSize |-> <<1, 2>>, patternOffset |-> <<0, 1>>]
Hill(curve) == Heightmap("HeightmapNoise") @@ [noise |-> Noises, curve |-> curve]
Picture(wrap) ==
  Ground!SetImage(Heightmap("Image") @@ [wrap |-> wrap, values |-> <<>>, size |-> <<0, 0>>], <<0, 4, 7, -1, 2, 3>>, 3, 2)
Grounds ==
  LET smooth == {Wave, Picture("Clamp"), Picture("Repeat"), [Picture("Clamp") EXCEPT !.values = <<>>]}
                \cup {Hill(c) : c \in {<<>>, <<0, 4>>, <<4, 0, 3>>}}
                \cup {[kind |-> "Flat", channel |-> "Sdf", matter |-> 5, isoScale |-> 2, height |-> h] : h \in {-3, 4}}
                \cup {[kind |-> "Noise", channel |-> "Sdf", start |-> s, range |-> 9, period |-> 3, noise |-> Noises] : s \in {-5, 0}}
  IN  smooth \cup {[g EXCEPT !.channel = "Type"] : g \in smooth}
GroundInputs ==
  {<<g, [origin |-> <<x, y, 1>>, size |-> s, lod |-> l]>> :
     g \in Grounds, x \in {-3, 0}, y \in -9 .. 8, s \in {<<2, 1, 1>>, <<1, 2, 2>>, <<2, 3, 1>>}, l \in 0 .. 2}

\* Ranges on all sides of 0, and those of two coordinates.
SomeRanges == {<<a, a + n>> : a \in -5 .. 3, n \in {0, 1, 2, 4, 7}}
IntervalInputs ==
  {<<"ranges", r, s, k>> : r \in SomeRanges, s \in {<<a, a + n>> : a \in -3 .. 3, n \in 0 .. 2}, k \in {-3, 0, 2}}
  \cup {<<"angles", y, x>> : y, x \in SomeRanges}

\* Rays from corners, sides and the middle of voxels; spheres and boxes that reach over a
\* buffer of 4 by 3 by 3; ticks in boxes that do; stacks of two modifiers.
EditedCells == (0 .. 3) \X (0 .. 2) \X (0 .. 2)
Buffer(smooth) ==
  [size |-> <<4, 3, 3>>, smooth |-> smooth,
   voxels |-> [p \in EditedCells |-> IF smooth THEN 2 * (p[2] - p[1]) ELSE (p[1] * p[1] + p[2] + p[3]) % 3]]
EditShapes ==
  {[center |-> c, radius |-> r] : c \in {<<0, 1, 3>>, <<3, 4, 2>>, <<8, 3, 3>>}, r \in {1, 3, 4}}
  \cup {[min |-> <<x, y, -1>>, max |-> <<x + n, y + 2, 2>>] : x \in {-2, 0, 3}, y \in {-1, 1}, n \in {0, 2, 3}}
Edits == [shape : EditShapes, mode : {"Add", "Remove", "Set"}]
Modifiers ==
  [center : {<<1, 1, 1>>, <<41, 1, 1>>}, radius : {20, 60}, operation : {"Add", "Subtract"}, smoothness : {0, 4}]
EditInputs ==
  {<<"ray", [origin |-> o, direction |-> d], s>> :
     o \in {<<0, 0, 0>>, <<1, 2, 3>>, <<2, 0, 2>>, <<4, 4, 2>>, <<0, 1, 1>>}, d \in [1 .. 3 -> {-2, 0, 3}],
     s \in {{<<1, 0, 0>>, <<0, -1, 1>>, <<-1, 1, 1>>}, {<<2, 2, 2>>, <<1, 1, 1>>, <<-2, 0, 0>>}}}
  \cup {<<"shapes", sm, f, g>> : sm \in BOOLEAN, f \in Edits, g \in [shape : {[center |-> <<3, 4, 2>>, radius |-> 3],
                                                                      [min |-> <<0, 1, -1>>, max |-> <<2, 3, 2>>]},
                                                             mode : {"Add", "Remove"}]}
  \cup {<<"shapes", sm, f, [f EXCEPT !.mode = "Remove"]>> : sm \in BOOLEAN, f \in Edits}
  \cup {<<"ticks", lo, hi, n>> : lo \in {<<0, 0, 0>>, <<-1, 1, 1>>, <<2, 2, 0>>}, hi \in {<<2, 2, 2>>, <<5, 3, 4>>}, n \in 0 .. 7}
  \cup {<<"modifiers", <<m, n>>, d>> : m, n \in Modifiers, d \in {-50, -3, 0, 3, 50}}

\* Expressions with up to three operators or calls, over two numbers and two variables.
Operands == {Expression!Number(3), Expression!Number(2), Expression!Variable("x"), Expression!Variable("y")}
Shallow == {Expression!Operation(o, l, r) : o \in {"+", "*", "^"}, l, r \in Operands}
           \cup {Expression!Call("abs", <<a>>) : a \in Operands}
           \cup {Expression!Call("min", <<a, b>>) : a, b \in Operands}
ExpressionInputs ==
  {Expression!Operation(o, l, r) : o \in {"-", "/"}, l, r \in Operands \cup Shallow}
  \cup {Expression!Call("min", <<a, b>>) : a \in Operands, b \in Shallow}

\* Blocks of 0 to 5 voxels and one that is too long; what is left of their bytes when one is
\* lost, another, or a section of metadata comes; instances; headers; entries of tables.
ChannelsOf(n) ==
  {[compression |-> Codec!Uniform, depth |-> d, voxels |-> <<v>>] : d \in {0, 1, 3}, v \in {1, 20}}
  \cup {[compression |-> Codec!NotCompressed, depth |-> d, voxels |-> [i \in 1 .. n |-> IF i = 2 THEN v ELSE 3]] :
          d \in {0, 1, 3}, v \in {3, 13}}
BlocksOfSize(size, cs) == {[size |-> size, channels |-> <<c, d>>] : c, d \in cs}
SmallBlocks == BlocksOfSize(<<2, 1, 1>>, {c \in ChannelsOf(2) : c.depth < 3})
Replaced(s, i, v) == [s EXCEPT ![i] = v]
WithMetadata(s, declared, bytes) ==
  SubSeq(s, 1, Len(s) - 4) \o Codec!Store(declared, 4, "little") \o bytes \o SubSeq(s, Len(s) - 3, Len(s))
Tampered(raw) ==
  {Replaced(raw, i, v) : i \in 1 .. Len(raw), v \in {0, 1, 13}}
  \cup {SubSeq(raw, 1, i - 1) \o SubSeq(raw, i + 1, Len(raw)) : i \in 1 .. Len(raw)}
  \cup {WithMetadata(raw, n, bytes) : n \in 0 .. 2, bytes \in {<<>>, <<7>>, <<7, 7>>}}
Scaled(n) == [position |-> <<0, n, n \div 2>>, scale |-> 3, rotation |-> <<1, 2, 3, 4>>]
InstanceLayers ==
  {[id |-> 15, min |-> 1, max |-> m, instances |-> is] : m \in {0, 1, 3, 9}, is \in {<<>>, <<Scaled(5)>>, <<Scaled(3), Scaled(5)>>}}
Headers ==
  [po2 : 0 .. 2, region : {<<1, 2, 3>>, <<2, 1, 1>>, <<13, 1, 1>>, <<0, 1, 1>>}, depths : {<<0, 1>>, <<3, 3>>},
   sector : {0, 1, 40, 197}, palette : {<<>>, [i \in 1 .. 56 |-> i % 14]}]
ByteInputs ==
  {<<"block", b, m>> : b \in BlocksOfSize(<<1, 1, 1>>, ChannelsOf(1)) \cup BlocksOfSize(<<2, 1, 2>>, ChannelsOf(4))
                            \cup BlocksOfSize(<<5, 1, 1>>, ChannelsOf(5))
                            \cup BlocksOfSize(<<0, 2, 2>>, ChannelsOf(1)) \cup BlocksOfSize(<<196, 1, 1>>, ChannelsOf(1)),
                       m \in 0 .. 3}
  \cup {<<"bytes", t>> : t \in UNION {Tampered(Codec!Serialize(b).value) : b \in SmallBlocks}}
  \cup {<<"cut", b, n>> : b \in SmallBlocks, n \in 4 .. 24}
  \cup {<<"instances", [range |-> r, layers |-> ls]>> :
           r \in {-1, 0, 5}, ls \in {<<>>} \cup {<<x, y>> : x, y \in InstanceLayers}
                                  \cup {[i \in 1 .. n |-> [id |-> i, min |-> 0, max |-> 1, instances |-> <<>>]] : n \in {13, 14, 15}}}
  \cup {<<"header", f, [i \in 1 .. Codec!BlockCount(f) |-> 15 * i]>> : f \in Headers}
  \cup {<<"entry", i, c, o>> : i, c, o \in {0, 13, 14, 2743, 2744}}

\* Scenes of up to four nodes, the root first, up to three models and what else a file has;
\* files with a word replaced or an end missing, all graphs of three nodes.
VoxNode(tag, id, payload, children) == [tag |-> tag, id |-> id, payload |-> payload, children |-> children]
Transform(id, child, layer, frame) ==
  VoxNode("transform", id, <<2, 1, 30, 2, 1, child, -1, layer, 1>> \o frame, {child})
Group(id, ids) == VoxNode("group", id, <<1, 1, 30, Len(ids)>> \o ids, {ids[i] : i \in DOMAIN ids})
Shape(id, model) == VoxNode("shape", id, <<1, 9, 9, 1, model, 1, 8, 8>>, {})
Trees ==
  {<<>>, <<Shape(7, 0)>>, <<Transform(0, 5, -1, <<2, 4, 17, 3, 27>>), Group(5, <<1, 2>>), Shape(1, 0), Shape(2, 0)>>,
   <<Transform(0, 1, 6, <<1, 3, 20>>), Shape(1, 0)>>, <<Group(4, <<3, 2, 3>>), Shape(2, 0), Transform(3, 2, 6, <<0>>)>>}
VoxModels ==
  {[size |-> <<1, 2, 3>>, voxels |-> v] : v \in [{<<0, 1, 2>>, <<0, 0, 1>>} -> 1 .. 2]}
  \cup {[size |-> <<3, 1, 2>>, voxels |-> [p \in {<<2, 0, 1>>} |-> 3]], [size |-> <<0, 3, 1>>, voxels |-> <<>>],
          [size |-> <<2, 1, 1>>, voxels |-> [p \in {<<1, 1, 0>>} |-> 1]]}
Scene(nodes, models, palette) ==
  [nodes |-> nodes, models |-> models, palette |-> palette, layers |-> <<<<2, 0, -1>>, <<6, 2, 1, 30, 2, 0, -1>>>>,
   materials |-> <<<<3, 2, 5, 4, 6, 7>>, <<256, 0>>>>]
Scenes ==
  {Scene(t, <<m, n>>, <<>>) : t \in Trees, m \in VoxModels, n \in {k \in VoxModels : k.size[1] # 1}}
  \cup {Scene(t, <<m>>, <<[i \in 1 .. 256 |-> (37 * i) % 256]>>) : t \in Trees, m \in VoxModels}
AFewScenes ==
  {Scene(t, <<[size |-> <<1, 2, 3>>, voxels |-> [q \in {<<0, 1, 2>>} |-> 1]]>>, <<>>) : t \in Trees}
VoxFiles == {Vox!FileOf(sc, 1) : sc \in AFewScenes}
\* a model whose voxel is in the next chunk
Overlap == <<700, 200, 701, 3, 0, 1, 2, 3, 702, 1, 0, 1, 128, 1, 0, 5>>
NodesOf(i) ==
  {Transform(i, c, -1, <<0>>) : c \in 1 .. 3} \cup {Shape(i, m) : m \in {0, 1}}
  \cup {Group(i, ids) : ids \in {<<>>, <<1>>, <<2>>, <<3>>, <<1, 2>>, <<2, 3>>, <<1, 3>>}}
VoxInputs ==
  {<<"scene", sc, n>> : sc \in Scenes, n \in {0, 2}}
  \cup UNION {{<<"words", Replaced(f, i, w)>> : i \in DOMAIN f, w \in {-1, 2, 702}} : f \in VoxFiles}
  \cup {<<"words", Vox!FileOf([sc EXCEPT !.nodes = <<x, y, z>>], 0)>> :
           sc \in {Scene(<<>>, <<[size |-> <<0, 3, 1>>, voxels |-> <<>>]>>, <<>>)}, x \in NodesOf(1), y \in NodesOf(2), z \in NodesOf(3)}
  \cup UNION {{<<"cut", f, n>> : n \in 0 .. Len(f)} : f \in VoxFiles \cup {Overlap}}
  \cup {<<"rotation", n>> : n \in 0 .. 127}

\* Models of boxes, of 4 cells to the edge, and a ramp: their sides are where they touch the
\* voxel's, what is left of them is inside.
BoxFace(lo, hi, side) ==
  [positions |-> [k \in 1 .. 4 |-> [a \in 1 .. 3 |->
                    IF Blocky!CornerPosition[Blocky!SideCorners[side][k]][a] = 0 THEN lo[a] ELSE hi[a]]],
   indices |-> Blocky!SideQuadTriangles[side]]
Touches(lo, hi, side) == IF Blocky!SignOf(side) > 0 THEN hi[Blocky!AxisOf(side)] = 4 ELSE lo[Blocky!AxisOf(side)] = 0
BoxSurface(lo, hi, material) ==
  LET loose == {s \in Blocky!Sides : ~ Touches(lo, hi, s)}
  IN  [material |-> material, collision |-> material # 1,
       sides |-> [s \in Blocky!Sides |-> IF s \in loose THEN Blocky!Nothing ELSE BoxFace(lo, hi, s)],
       inside |-> IF loose = {} THEN Blocky!Nothing ELSE BoxFace(lo, hi, CHOOSE s \in loose : TRUE)]
ModelOf(surfaces) ==
  [empty |-> surfaces = <<>>, transparency |-> 0, culls |-> TRUE, cutouts |-> FALSE, fluid |-> FALSE,
   skirts |-> TRUE, surfaces |-> surfaces]
Whole(material) == BoxSurface(<<0, 0, 0>>, <<4, 4, 4>>, material)
Slab(material) == BoxSurface(<<0, 0, 0>>, <<4, 2, 4>>, material)
Ramp ==
  [Whole(0) EXCEPT !.sides[Blocky!Front] = Blocky!Nothing, !.sides[Blocky!Top] = Blocky!Nothing,
                   !.sides[Blocky!Left].indices = <<0, 2, 1>>, !.sides[Blocky!Right].indices = <<0, 3, 1>>]
Models ==
  [air |-> ModelOf(<<>>), cube |-> ModelOf(<<Whole(0)>>), slab |-> ModelOf(<<Slab(0)>>), ramp |-> ModelOf(<<Ramp>>),
   glass |-> [ModelOf(<<Slab(1)>>) EXCEPT !.transparency = 1, !.skirts = FALSE],
   water |-> [ModelOf(<<>>) EXCEPT !.empty = FALSE, !.transparency = 1, !.fluid = TRUE],
   leaves |-> [ModelOf(<<Whole(1)>>) EXCEPT !.culls = FALSE],
   cut |-> [ModelOf(<<Whole(0)>>) EXCEPT !.cutouts = TRUE],
   post |-> ModelOf(<<BoxSurface(<<1, 0, 0>>, <<3, 4, 1>>, 2)>>),
   cutPost |-> [ModelOf(<<BoxSurface(<<0, 0, 1>>, <<4, 4, 4>>, 0)>>) EXCEPT !.cutouts = TRUE],
   two |-> ModelOf(<<Slab(1), BoxSurface(<<0, 2, 0>>, <<4, 4, 4>>, 0)>>)]
LibraryOf(names) == [id \in 0 .. Len(names) |-> IF id = 0 THEN Models.air ELSE Models[names[id]]]
BakedLibrary == Blocky!BakeLibrary(LibraryOf(<<"cube", "slab", "ramp", "glass", "water", "leaves", "cut", "post", "two">>))
BakedNames == {"cube", "slab", "ramp", "water", "leaves", "cut", "post", "cutPost", "two"}
BlockOf(in) ==
  LET at(k) == LET sy == in.size[2] sx == in.size[1]
               IN  <<((k \div sy) % sx), k % sy, k \div (sx * sy)>>
      inner(p) == \A a \in 1 .. 3 : p[a] \in 1 .. in.size[a] - 2
      id(p) == IF inner(p) THEN IF \A a \in 1 .. 3 : p[a] = 1 THEN in.inner[1] ELSE in.inner[2]
               ELSE in.pads[((p[1] + 2 * p[2] + 3 * p[3]) % Len(in.pads)) + 1]
  IN  [size |-> in.size, occlusion |-> TRUE,
       buffer |-> [k \in 1 .. in.size[1] * in.size[2] * in.size[3] |-> id(at(k - 1))]]
BlockyInputs ==
  {<<"bake", <<x, y, z>>>> : x \in BakedNames, y \in {"cube", "ramp", "post", "two"}, z \in {"cube", "slab", "cutPost"}}
  \cup {<<"mesh", [size |-> s, inner |-> i, pads |-> p]>> :
          s \in {<<4, 3, 3>>, <<3, 4, 3>>, <<3, 3, 4>>}, i \in {<<1, 0>>, <<2, 7>>, <<9, 1>>, <<3, 9>>, <<4, 7>>, <<8, 5>>},
          p \in {<<a>> : a \in {0, 2, 6, 10}} \cup {<<0, a, 7>> : a \in {1, 2, 7}} \cup {<<2, 1, 4, 0, 8>>}}

-----------------------------------------------------------------------------
\* an input for one of the functions
FunctionNames == {"boxes", "viewers", "priorities", "line", "plane", "rotations", "maps", "surface", "seam", "cubes", "graphs",
                  "grounds", "ranges", "edits", "expressions", "bytes", "vox", "blocky"}
Choose ==
  /\ on' = input
  /\ \/ input = "boxes" /\ input' \in BoxInputs
     \/ input = "viewers" /\ input' \in ViewerInputs
     \/ input = "priorities" /\ input' \in PriorityInputs
     \/ input = "line" /\ input' \in Line!GatherInputs
     \/ input = "plane" /\ input' \in Plane!GatherInputs
     \/ input = "rotations" /\ input' \in RotationInputs
     \/ input = "maps" /\ input' \in PasteInputs
     \/ input = "surface" /\ input' \in SurfaceInputs
     \/ input = "seam" /\ input' \in SeamInputs
     \/ input = "cubes" /\ input' \in CubesInputs
     \/ input = "graphs" /\ input' \in GraphInputs
     \/ input = "grounds" /\ input' \in GroundInputs
     \/ input = "ranges" /\ input' \in IntervalInputs
     \/ input = "edits" /\ input' \in EditInputs
     \/ input = "expressions" /\ input' \in ExpressionInputs
     \/ input = "bytes" /\ input' \in ByteInputs
     \/ input = "vox" /\ input' \in VoxInputs
     \/ input = "blocky" /\ input' \in BlockyInputs

-----------------------------------------------------------------------------
\* CopiesAreExact: pastes with masks change what they should over the borders of blocks, each
\* cell of a buffer gathered for a mesher holds the voxel of its place, shapes and modifiers
\* change what they hold, and a ray finds the first voxel on its way.
CopiesAreExact ==
  /\ on = "maps" => Map!PasteIsExact(input)
  /\ on = "line" => Line!PaddedBufferIsRight(input)
  /\ on = "plane" => Plane!PaddedBufferIsRight(input)
  /\ on = "edits" =>
       CASE input[1] = "ray" -> Edit!RayIsExact(input[2], 30, (-2 .. 3) \X (-2 .. 3) \X (-2 .. 3), input[3])
         [] input[1] = "shapes" -> Edit!EditsAreExact(Buffer(input[2]), input[3], input[4], 7)
         [] input[1] = "ticks" -> Edit!TicksAreExact(Buffer(FALSE), input[2], input[3], 2, input[4])
         [] input[1] = "modifiers" -> Edit!ModifiersAreInOrder(input[2], input[3], <<0, 0, 0>>)

\* GeometryExact: boxes are sets of cells, the blocks that viewers enter and leave are counted
\* exactly through slabs of boxes, the table of bases is the group of rotations, turned
\* arrays keep their cells, and packed priorities order tasks by kind, LOD and nearness.
GeometryExact ==
  /\ on = "boxes" =>
       CASE input[1] = "sets" -> Space!BoxesAreSetsOfCells(input[2], input[3])
         [] input[1] = "blocks" -> Space!BlocksCoverTheBox(input[2], input[3])
         [] input[1] = "numbers" -> Space!PowersOfTwoAreNearest(input[2])
  /\ on = "viewers" =>
       CASE input[1] = "frames" ->
              Seen!FramesCountViewers(<<input[2], input[3], <<>>, input[2]>>, input[4], (-6 .. 3) \X (-5 .. 2))
         [] input[1] = "slabs" -> Room!SlabsAreTheDifference(input[2], input[3])
  /\ on = "rotations" =>
       /\ Turn!BasesAreRotations(input.i, input.j, input.turns)
       /\ Turn!ArraysKeepTheirCells(input.i, input.size)
  /\ on = "priorities" => Task!PrioritiesAreOrdered(input.viewers, input.s, input.t, input.drop)

\* SurfacesAreClosed: the smooth meshes of all cells together have no holes but at the border
\* of their block, nor has the seam towards a neighbour of half the resolution.
SurfacesAreClosed ==
  /\ on = "surface" => Smooth!RegularMeshIsExact([cells |-> input.cells, sample |-> Samples(input)])
  /\ on = "seam" => Smooth!SeamIsClosed([cells |-> input.cells, sample |-> Samples(input), dir |-> input.dir])
  /\ on = "cubes" => Cubes!CubesAreExact(input)

\* ModelsAreMeshed: of two models side by side what one hides of the other is left out of the
\* mesh and nothing else is, shades, occluders and skirts are where their voxels say.
ModelsAreMeshed ==
  on = "blocky" =>
    CASE input[1] = "bake" -> Blocky!BakeIsExact(LibraryOf(input[2])) /\ Blocky!TablesAreOneCube
      [] input[1] = "mesh" ->
             \A lib \in {BakedLibrary}, block \in {BlockOf(input[2])} : Blocky!BlockIsExact(lib, block, 2, {0, 1, 2, 5}, 3)

\* GraphsAreExact: the compiled graph writes what the interpreter writes, and the other
\* generators write the same ground whatever block of it they are asked for; the range of an
\* expression has all its values; an expression is parsed from its text as it was written,
\* unbalanced ones are refused, and folding its constants changes none of its values.
GraphsAreExact ==
  /\ on = "graphs" => Graph!GraphIsExact(GraphOf(input), GraphBlock)
  /\ on = "grounds" => Ground!GeneratorIsExact(input[1], input[2])
  /\ on = "ranges" => Ranges!IntervalsAreExact(input)
  /\ on = "expressions" => Expression!ExpressionIsExact(input)

\* What is written to a scene, a region or a list of instances is read back as it was.
PartsReadBack ==
  /\ on = "bytes" => CASE input[1] = "instances" -> Codec!InstancesReadBack(input[2])
                      [] input[1] = "header" -> Codec!HeaderReadsBack(input[2], input[3])
                      [] input[1] = "entry" -> Codec!EntriesKeepTheirParts(input[2], input[3], input[4])
                      [] OTHER -> TRUE
  /\ on = "vox" => CASE input[1] = "scene" -> Vox!SceneReadsBack(input[2], input[3])
                    [] input[1] = "words" -> Vox!WhatIsReadIsSound(input[2])
                    [] input[1] = "cut" -> Vox!CutIsNoticed(input[2], input[3])
                    [] input[1] = "rotation" -> Vox!RotationIsKept(input[2])

\* The bytes of a block read back as the block, and no others are taken for one.
BlocksReadBack ==
  on = "bytes" => CASE input[1] = "block" -> Codec!BlockReadsBack(input[2], input[3])
                    [] input[1] = "bytes" -> Codec!AcceptedIsCanonical(input[2])
                    [] input[1] = "cut" -> Codec!CutIsRefused(input[2], input[3])
                    [] OTHER -> TRUE

\* FormatsReadBack: whatever the library writes it reads back as it was, and it takes no other
\* bytes for a block or a scene.
FormatsReadBack == PartsReadBack /\ BlocksReadBack
=============================================================================
