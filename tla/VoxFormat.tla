------------------------------ MODULE VoxFormat ------------------------------
(***************************************************************************)
(* MagicaVoxel files (format/vox/parser.rs, data.rs): a stream of chunks   *)
(* with models, a palette, materials, layers and the nodes of a scene.     *)
(*                                                                         *)
(* A file is a sequence of words, of four bytes in the code; a byte has    *)
(* four values here.  A string of text is one word, negative when it is    *)
(* too long or not UTF-8.  Positions are those of MagicaVoxel (z up) until *)
(* they are turned into the engine's (y up).                               *)
(***************************************************************************)
EXTENDS Integers, Sequences, FiniteSets
LOCAL Seqs == INSTANCE SequencesExt

CONSTANTS
  MaxModelSize,                          \* 256 in the code
  MaxItems, MaxChildren, MaxModelId,     \* 256, 65536 and 65536
  MaxModels, MaxTotalVoxels, MaxNodes    \* DecodeLimits

PaletteSize == 256
Words == 8192
Unsigned(w) == w % Words
Byte(w, i) == (Unsigned(w) \div 4 ^ i) % 4
Quad(w) == [i \in 1 .. 4 |-> Byte(w, i - 1)]

\* tags and keys, which are words like all else
Magic == 700
Tag == [size |-> 701, xyzi |-> 702, rgba |-> 703, transform |-> 704, group |-> 705, shape |-> 706, layer |-> 707, material |-> 708]
Key == [name |-> 1, hidden |-> 2, t |-> 3, r |-> 4, type |-> 5, weight |-> 6, rough |-> 7]

\* A read past the end gives 0, but ends behind the end of its chunk.
Word(file, p) == IF p \in DOMAIN file THEN file[p] ELSE 0

MagicaToOpengl(v) == <<v[2], v[3], v[1]>>
Volume(size) == size[1] * size[2] * size[3]
\* Mutant: x and y are swapped.
ZyxIndex(pos, size) == pos[1] + size[1] * (pos[2] + size[2] * pos[3])
ZxyIndex(pos, size) == pos[2] + size[2] * (pos[1] + size[1] * pos[3])

-----------------------------------------------------------------------------
(* Rotations: the columns of the entries of the rows x and y, in two bits  *)
(* each, and the signs of the rows.                                        *)

Sign(data, row) == IF (data \div 2 ^ (3 + row)) % 2 = 0 THEN 1 ELSE -1
IsRotation(data) == LET x == data % 4 y == (data \div 4) % 4 IN x < 3 /\ y < 3 /\ x # y
Rows(data) ==
  LET x == data % 4
      y == (data \div 4) % 4
      column == <<x, y, CHOOSE z \in 0 .. 2 : z \notin {x, y}>>
  IN  [i \in 1 .. 3 |-> [j \in 1 .. 3 |-> IF column[i] = j - 1 THEN Sign(data, i) ELSE 0]]
Transpose(rows) == [i \in 1 .. 3 |-> [j \in 1 .. 3 |-> rows[j][i]]]

\* the axes of the basis
ParseBasis(data) ==
  IF ~ IsRotation(data) THEN <<<<1, 0, 0>>, <<0, 1, 0>>, <<0, 0, 1>>>>
  ELSE LET columns == Transpose(Rows(data))
       IN  <<MagicaToOpengl(columns[2]), MagicaToOpengl(columns[3]), MagicaToOpengl(columns[1])>>

-----------------------------------------------------------------------------
(* Chunks.  A reader of the words from p on gives ok, the words it used    *)
(* and what it makes of them.                                              *)

\* entries by key, the last of a key counts
Dictionary(file, p) ==
  LET count == Word(file, p)
      ok == count \in 0 .. MaxItems /\ \A i \in 1 .. 2 * count : Word(file, p + i) >= 0
      keys == {Word(file, p + 2 * i - 1) : i \in 1 .. count}
      last(key) == CHOOSE i \in 1 .. count : Word(file, p + 2 * i - 1) = key
                                             /\ \A k \in i + 1 .. count : Word(file, p + 2 * k - 1) # key
  IN  [ok |-> ok, used |-> 1 + 2 * count,
       items |-> IF ok THEN [key \in keys |-> Word(file, p + 2 * last(key))] ELSE [key \in {} |-> 0]]
Get(items, key, default) == IF key \in DOMAIN items THEN items[key] ELSE default
Without(items, keys) == [key \in DOMAIN items \ keys |-> items[key]]

Rejected == [ok |-> FALSE, used |-> 0]
Read(ok, used, data) == IF ok THEN [ok |-> TRUE, used |-> used, data |-> data] ELSE Rejected

ReadSize(file, p, data) ==
  LET size == <<Word(file, p), Word(file, p + 1), Word(file, p + 2)>>
  IN  Read(\A i \in 1 .. 3 : size[i] \in 0 .. MaxModelSize, 3, [data EXCEPT !.lastSize = MagicaToOpengl(size)])

\* the voxels of a model: those of the last size
ReadModel(file, p, data) ==
  LET size == data.lastSize
      count == Unsigned(Word(file, p))
      at(k) == MagicaToOpengl(Quad(Word(file, p + k)))
      written(n) == {k \in 1 .. count : ZxyIndex(at(k), size) = n}
      color(n) == IF written(n) = {} THEN 0
                  ELSE Quad(Word(file, p + CHOOSE k \in written(n) : \A j \in written(n) : j <= k))[4]
  IN  Read(/\ Len(data.models) + 1 <= MaxModels
           /\ count <= Volume(size) /\ data.total + Volume(size) <= MaxTotalVoxels
           /\ \A k \in 1 .. count : \A i \in 1 .. 3 : at(k)[i] < size[i],
           1 + count,
           [data EXCEPT !.total = @ + Volume(size),
                        !.models = Append(@, [size |-> size, colors |-> [n \in 1 .. Volume(size) |-> color(n - 1)]])])

Transparent == <<0, 0, 0, 0>>
ReadPalette(file, p, data) ==
  Read(TRUE, PaletteSize,
       [data EXCEPT !.palette = [i \in 0 .. PaletteSize - 1 |-> IF i = 0 THEN Transparent ELSE Quad(Word(file, p + i - 1))]])

\* Nodes: an id that is new, attributes, and what each kind has.
Added(data, id, node) == [data EXCEPT !.nodes = [i \in DOMAIN @ \cup {id} |-> IF i = id THEN node ELSE @[i]]]
IsNew(file, p, data) == Word(file, p) \notin DOMAIN data.nodes /\ Cardinality(DOMAIN data.nodes) + 1 <= MaxNodes

\* three coordinates in a text, or fewer
HasCoordinates(text) == text < 64
ReadTransform(file, p, data) ==
  LET attributes == Dictionary(file, p + 1)
      q == p + 1 + attributes.used
      frame == Dictionary(file, q + 4)
      r == Get(frame.items, Key.r, -1)
      node == [kind |-> "Transform", name |-> Get(attributes.items, Key.name, 0), hidden |-> Get(attributes.items, Key.hidden, 0) = 1,
               attributes |-> Without(attributes.items, {Key.name, Key.hidden}),
               child |-> Word(file, q), layer |-> Word(file, q + 2),
               position |-> IF Key.t \in DOMAIN frame.items THEN MagicaToOpengl(Quad(frame.items[Key.t])) ELSE <<0, 0, 0>>,
               rotation |-> IF r = -1 THEN <<<<1, 0, 0>>, <<0, 1, 0>>, <<0, 0, 1>>>> ELSE ParseBasis(r % 256)]
  IN  Read(/\ IsNew(file, p, data) /\ attributes.ok
           /\ Word(file, q + 1) = -1 /\ Word(file, q + 3) = 1
           /\ frame.ok /\ (Key.t \in DOMAIN frame.items => HasCoordinates(frame.items[Key.t])),
           5 + attributes.used + frame.used, Added(data, Word(file, p), node))

ReadGroup(file, p, data) ==
  LET attributes == Dictionary(file, p + 1)
      q == p + 1 + attributes.used
      count == Unsigned(Word(file, q))
      node == [kind |-> "Group", attributes |-> attributes.items, children |-> [i \in 1 .. count |-> Word(file, q + i)]]
  IN  Read(IsNew(file, p, data) /\ attributes.ok /\ count <= MaxChildren,
           2 + attributes.used + count, Added(data, Word(file, p), node))

\* The attributes of a shape are dropped, those of its model kept.
ReadShape(file, p, data) ==
  LET attributes == Dictionary(file, p + 1)
      q == p + 1 + attributes.used
      ofModel == Dictionary(file, q + 2)
      node == [kind |-> "Shape", attributes |-> [key \in {} |-> 0], model |-> Word(file, q + 1), modelAttributes |-> ofModel.items]
  IN  Read(IsNew(file, p, data) /\ attributes.ok /\ Word(file, q) = 1 /\ Word(file, q + 1) \in 0 .. MaxModelId /\ ofModel.ok,
           3 + attributes.used + ofModel.used, Added(data, Word(file, p), node))

ReadLayer(file, p, data) ==
  LET id == Word(file, p)
      attributes == Dictionary(file, p + 1)
      layer == [id |-> id, name |-> Get(attributes.items, Key.name, 0), hidden |-> Get(attributes.items, Key.hidden, 0) = 1,
                attributes |-> Without(attributes.items, {Key.name, Key.hidden})]
  IN  Read(/\ \A i \in DOMAIN data.layers : data.layers[i].id # id
           /\ attributes.ok /\ Word(file, p + 1 + attributes.used) = -1,
           2 + attributes.used, [data EXCEPT !.layers = Append(@, layer)])

\* A type or a number that is none counts as the default.
IsNumber(text) == text % 2 = 0
MaterialTypes == {2, 4, 6, 8}
ReadMaterial(file, p, data) ==
  LET id == Word(file, p)
      attributes == Dictionary(file, p + 1)
      type == Get(attributes.items, Key.type, 2)
      number(key, default) == LET text == Get(attributes.items, key, 1) IN IF IsNumber(text) THEN text ELSE default
      material == [type |-> IF type \in MaterialTypes THEN type ELSE 2, weight |-> number(Key.weight, 0), rough |-> number(Key.rough, 2)]
  IN  Read(id \in 0 .. PaletteSize /\ id \notin DOMAIN data.materials /\ attributes.ok,
           1 + attributes.used,
           [data EXCEPT !.materials = [i \in DOMAIN @ \cup {id} |-> IF i = id THEN material ELSE @[i]]])

ReadChunk(tag, file, p, data) ==
  CASE tag = Tag.size -> ReadSize(file, p, data)
    [] tag = Tag.xyzi -> ReadModel(file, p, data)
    [] tag = Tag.rgba -> ReadPalette(file, p, data)
    [] tag = Tag.transform -> ReadTransform(file, p, data)
    [] tag = Tag.group -> ReadGroup(file, p, data)
    [] tag = Tag.shape -> ReadShape(file, p, data)
    [] tag = Tag.layer -> ReadLayer(file, p, data)
    [] tag = Tag.material -> ReadMaterial(file, p, data)
    [] OTHER -> Read(TRUE, 0, data)

\* The colour at an index, of bytes of 256 values: five steps of each of three bytes, the
\* first of them next to the top, then ramps of each alone and of the three together.
Ramp == <<238, 221, 187, 170, 136, 119, 85, 68, 34, 17>>
DefaultPalette ==
  [i \in 0 .. PaletteSize - 1 |->
     IF i = 0 THEN Transparent
     ELSE IF i <= 215 THEN <<255, 255 - 51 * ((i - 1) % 6), 255 - 51 * (((i - 1) \div 6) % 6), 255 - 51 * ((i - 1) \div 36)>>
     ELSE LET ramp == (i - 216) \div 10
              value(byte) == IF ramp = 3 \/ ramp = 4 - byte THEN Ramp[((i - 216) % 10) + 1] ELSE 0
          IN  <<255, value(2), value(3), value(4)>>]

EmptyData ==
  [models |-> <<>>, layers |-> <<>>, nodes |-> [i \in {} |-> 0], materials |-> [i \in {} |-> 0], palette |-> DefaultPalette,
   lastSize |-> <<0, 0, 0>>, total |-> 0]

-----------------------------------------------------------------------------
(* The scene.                                                              *)

Children(node) ==
  CASE node.kind = "Transform" -> {node.child}
    [] node.kind = "Group" -> {node.children[i] : i \in DOMAIN node.children}
    [] node.kind = "Shape" -> {}
Referenced(nodes) == UNION {Children(nodes[i]) : i \in DOMAIN nodes}
Roots(nodes) == DOMAIN nodes \ Referenced(nodes)

ReferencesExist(data) ==
  \A i \in DOMAIN data.nodes : LET node == data.nodes[i] IN
    /\ Children(node) \subseteq DOMAIN data.nodes
    /\ node.kind = "Transform" => node.layer \in {-1} \cup {data.layers[k].id : k \in DOMAIN data.layers}
    /\ node.kind = "Shape" => node.model \in 0 .. Len(data.models) - 1

\* The ids are visited in any order; -1, which says that no root was found yet, is not told
\* from a root of that id: it is a second root when it comes last, else it is overlooked.
RootNodeId(data) ==
  IF Roots(data.nodes) \subseteq {-1} THEN -1 ELSE CHOOSE i \in Roots(data.nodes) : i # -1
ValidateSceneGraph(data, inOrder) ==
  /\ ReferencesExist(data)
  /\ \/ DOMAIN data.nodes = {}
     \/ Cardinality(Roots(data.nodes) \ {-1}) = 1 /\ (-1 \in Roots(data.nodes) => inOrder)

\* A chunk has a tag, its size and that of its children, and ends where its size says.
NextChunk(file, state) ==
  LET start == state.pos + 3
      end == start + Unsigned(Word(file, state.pos + 1))
      data == {read.data : read \in {r \in {ReadChunk(Word(file, state.pos), file, start, state.data)} : r.ok /\ start + r.used <= end}}
  IN  IF state.failed \/ state.pos > Len(file) THEN state
      ELSE IF end > Len(file) + 1 \/ data = {} THEN [state EXCEPT !.failed = TRUE]
      ELSE [state EXCEPT !.pos = end, !.data = CHOOSE read \in data : TRUE]

ReadChunks(file) ==
  LET chunks == [k \in 1 .. Len(file) \div 3 + 1 |-> k]
  IN  Seqs!FoldLeft(LAMBDA s, k : NextChunk(file, s), [pos |-> 3, data |-> EmptyData, failed |-> FALSE], chunks)

\* the results it may have, for the two orders of the ids
Parse(file) ==
  {IF /\ Word(file, 1) = Magic /\ Word(file, 2) \in {150, 200}
      /\ ~ read.failed /\ ValidateSceneGraph(read.data, inOrder)
   THEN [ok |-> TRUE, data |-> read.data, root |-> RootNodeId(read.data)] ELSE [ok |-> FALSE]
   : read \in {ReadChunks(file)}, inOrder \in BOOLEAN}

MaterialIdForPaletteIndex(data, index) == IF index \in DOMAIN data.materials THEN index ELSE -1

-----------------------------------------------------------------------------
(* Properties.  A scene is [models, palette, nodes, layers, materials]:    *)
(* models have a size and the colours of some positions, all of            *)
(* MagicaVoxel; nodes, layers and materials are payloads of chunks.        *)

Chunk(tag, payload, slack) == <<tag, Len(payload) + slack, 0>> \o payload \o [i \in 1 .. slack |-> 9]
Packed(pos, color) == pos[1] + 4 * pos[2] + 16 * pos[3] + 64 * color
VoxelWords(model) ==
  LET positions == Seqs!SetToSeq(DOMAIN model.voxels)
  IN  [k \in DOMAIN positions |-> Packed(positions[k], model.voxels[positions[k]])]
ModelChunks(model, slack) ==
  Chunk(Tag.size, model.size, slack) \o Chunk(Tag.xyzi, <<Cardinality(DOMAIN model.voxels)>> \o VoxelWords(model), slack)
FileOf(scene, slack) ==
  LET all(tag, payloads) == Seqs!FlattenSeq([i \in DOMAIN payloads |-> Chunk(tag, payloads[i], slack)])
      node(n) == Chunk(Tag[n.tag], <<n.id>> \o n.payload, slack)
  IN  <<Magic, 200>> \o Chunk(799, <<5>>, slack)
      \o Seqs!FlattenSeq([i \in DOMAIN scene.nodes |-> node(scene.nodes[i])])
      \o Seqs!FlattenSeq([i \in DOMAIN scene.models |-> ModelChunks(scene.models[i], slack)])
      \o all(Tag.layer, scene.layers) \o all(Tag.rgba, scene.palette) \o all(Tag.material, scene.materials)

\* SceneReadsBack: a file that holds a scene in the words its chunks have, with unknown
\* chunks among them and chunks that are longer than what is read of them, is read as that
\* scene: each voxel at its place in the engine's order of axes, nodes by id; it is not read
\* when a voxel is outside of its model.
SceneReadsBack(scene, slack) ==
  LET cells(size) == (0 .. size[1] - 1) \X (0 .. size[2] - 1) \X (0 .. size[3] - 1)
      color(model, p) == IF p \in DOMAIN model.voxels THEN model.voxels[p] ELSE 0
      fits == \A i \in DOMAIN scene.models : DOMAIN scene.models[i].voxels \subseteq cells(scene.models[i].size)
      \* how many cells come before one by z, x and y of the engine
      place(size, p) ==
        Cardinality({q \in cells(size) : (q[1] < p[1]) \/ (q[1] = p[1] /\ ((q[2] < p[2]) \/ (q[2] = p[2] /\ q[3] < p[3])))})
  IN  \A file \in {FileOf(scene, slack)} : \A result \in Parse(file) :
      /\ (result.ok <=> fits)
      /\ result.ok =>
           /\ result.root = (IF scene.nodes = <<>> THEN -1 ELSE scene.nodes[1].id)
           /\ DOMAIN result.data.nodes = {scene.nodes[i].id : i \in DOMAIN scene.nodes}
           /\ \A i \in DOMAIN scene.nodes : scene.nodes[i].children = Children(result.data.nodes[scene.nodes[i].id])
           /\ [i \in DOMAIN scene.layers |-> scene.layers[i][1]] = [i \in DOMAIN result.data.layers |-> result.data.layers[i].id]
           /\ \A i \in DOMAIN scene.materials : MaterialIdForPaletteIndex(result.data, scene.materials[i][1]) = scene.materials[i][1]
           /\ Len(result.data.models) = Len(scene.models)
           /\ \A i \in DOMAIN scene.models :
                LET model == result.data.models[i] IN
                /\ model.size = MagicaToOpengl(scene.models[i].size) /\ Len(model.colors) = Volume(model.size)
                /\ \A p \in cells(scene.models[i].size) :
                     model.colors[place(scene.models[i].size, p) + 1] = color(scene.models[i], p)
           /\ IF scene.palette = <<>> THEN Cardinality({result.data.palette[i] : i \in 0 .. PaletteSize - 1}) = PaletteSize
              ELSE result.data.palette[0] = Transparent
                   /\ \A i \in 1 .. PaletteSize - 1 : result.data.palette[i] = Quad(scene.palette[1][i])

\* the nodes that are reached from some
Reached(nodes, from) ==
  Seqs!FoldLeft(LAMBDA S, k : S \cup UNION {Children(nodes[i]) : i \in S}, from, [k \in 1 .. Cardinality(DOMAIN nodes) |-> k])

\* WhatIsReadIsSound: of any words a scene is read only when all it refers to is there, when
\* it has one root ("exactly one node must be unreferenced", parser.rs:571-572), which reaches
\* every node but those below a cycle or a node -1, and when the voxels of its models fill them.
WhatIsReadIsSound(file) ==
  \A result \in {r \in Parse(file) : r.ok} :
    \A nodes \in {result.data.nodes} :
      LET circular == {i \in DOMAIN nodes : i \in Reached(nodes, Children(nodes[i]))}
      IN
        /\ \A i \in DOMAIN nodes : Children(nodes[i]) \subseteq DOMAIN nodes
        /\ \A i \in DOMAIN nodes : nodes[i].kind = "Shape" => nodes[i].model + 1 \in DOMAIN result.data.models
        /\ DOMAIN nodes = IF result.root = -1 THEN {} ELSE Reached(nodes, {result.root} \cup circular \cup (DOMAIN nodes \cap {-1}))
        /\ result.root # -1 => \A i \in DOMAIN nodes : result.root \notin Children(nodes[i])
        /\ \A i \in DOMAIN result.data.models :
             LET model == result.data.models[i] IN
             Len(model.colors) = Volume(model.size) /\ \A k \in 1 .. 3 : model.size[k] <= MaxModelSize

\* CutIsNoticed: what is left of a file is read only when it ends with a chunk, and then the
\* models it still has are as they were.
CutIsNoticed(file, n) ==
  \A cut \in {SubSeq(file, 1, n)} : \A whole \in Parse(file), rest \in Parse(cut) :
      whole.ok /\ rest.ok =>
        /\ rest.data.models = SubSeq(whole.data.models, 1, Len(rest.data.models))
        /\ \A i \in DOMAIN rest.data.nodes : rest.data.nodes[i] = whole.data.nodes[i]

\* RotationIsKept: a rotation does to the engine's axes what it does to MagicaVoxel's, and no
\* two of the 48 are taken for the same.
RotationIsKept(data) ==
  LET axes == ParseBasis(data)
      turned(v) == [i \in 1 .. 3 |-> axes[1][i] * v[1] + axes[2][i] * v[2] + axes[3][i] * v[3]]
      rows == Rows(data)
      rotated(v) == [i \in 1 .. 3 |-> rows[i][1] * v[1] + rows[i][2] * v[2] + rows[i][3] * v[3]]
  IN  IF IsRotation(data)
      THEN /\ \A v \in [1 .. 3 -> {0, 1}] : turned(MagicaToOpengl(v)) = MagicaToOpengl(rotated(v))
           /\ \A other \in 0 .. 127 : IsRotation(other) /\ ParseBasis(other) = axes => other = data
      ELSE \A v \in [1 .. 3 -> {0, 1}] : turned(v) = v
=============================================================================
