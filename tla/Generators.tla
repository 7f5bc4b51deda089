------------------------------ MODULE Generators ------------------------------
(***************************************************************************)
(* The generators of terrain: heightmaps of waves, noise and images, flat  *)
(* ground and noise in a slab (generators/base.rs, simple.rs).             *)
(*                                                                         *)
(* A generator is a record with a kind, the channel it writes and its      *)
(* parameters.  Lengths are in half voxels, what a height function returns *)
(* and noise are in quarters; signed distances are 32 bits wide.           *)
(***************************************************************************)
EXTENDS Integers, Sequences, FiniteSets

HalfVoxels == 2
Quarters == 4
FarOutside == 100 * HalfVoxels
FarInside == -100 * HalfVoxels

\* toward zero, as a cast to i32 does
Truncated(n, d) == IF n < 0 THEN -((-n) \div d) ELSE n \div d
Wrapped(x, d) == x % d
Clamped(x, lo, hi) == IF x < lo THEN lo ELSE IF x > hi THEN hi ELSE x

-----------------------------------------------------------------------------
(* Height functions, from 0 to 1.                                          *)

\* cosine of pi * x / size for a size of 1 or 2 voxels, and sine
Cosine(x, size) ==
  LET phase == (x * (2 \div size)) % 4
  IN  IF phase = 0 THEN 1 ELSE IF phase = 2 THEN -1 ELSE 0
Sine(x, size) == IF (x * (2 \div size)) % 4 = 1 THEN 1 ELSE IF (x * (2 \div size)) % 4 = 3 THEN -1 ELSE 0

WavesHeight(gen, x, z) ==
  2 + Cosine(x + gen.patternOffset[1], gen.patternSize[1]) + Sine(z + gen.patternOffset[2], gen.patternSize[2])

\* a curve of points over 0 .. 1
CurveSample(points, t) ==
  LET f == Clamped(t, 0, Quarters) * (Len(points) - 1)
      i == f \div Quarters
      frac == f % Quarters
  IN  IF i >= Len(points) - 1 THEN points[Len(points)]
      ELSE (points[i + 1] * (Quarters - frac) + points[i + 2] * frac) \div Quarters

\* noise repeats itself every four voxels here
Noise2(gen, x, z) == gen.noise[((x + 2 * z) % 4) + 1]
Noise3(gen, x, y, z) == gen.noise[((x + y + 2 * z) % 4) + 1]
NoiseHeight(gen, x, z) ==
  LET t == (Quarters + Noise2(gen, x, z)) \div 2
  IN  IF gen.curve = <<>> THEN t ELSE CurveSample(gen.curve, t)

ImageHeight(gen, x, z) ==
  LET w == gen.size[1] h == gen.size[2]
      at(i, n) == IF gen.wrap = "Repeat" THEN Wrapped(i, n) ELSE Clamped(i, 0, n - 1)
  IN  IF gen.values = <<>> THEN 0 ELSE gen.values[at(x, w) + at(z, h) * w + 1]

\* set_image: nothing changes when the number of values is wrong
SetImage(gen, values, w, h) ==
  IF w <= 0 \/ h <= 0 \/ Len(values) # w * h THEN gen
  ELSE [gen EXCEPT !.values = [i \in DOMAIN values |-> Clamped(values[i], 0, Quarters)], !.size = <<w, h>>]

HeightFn(gen, x, z) ==
  CASE gen.kind = "Waves" -> WavesHeight(gen, x, z)
    [] gen.kind = "HeightmapNoise" -> NoiseHeight(gen, x, z)
    [] gen.kind = "Image" -> ImageHeight(gen, x, z)

-----------------------------------------------------------------------------
(* Blocks.  A block is [origin, size, lod]; generating it gives its voxels *)
(* and whether all its levels of detail are the same.                      *)

Cells(size) == (0 .. size[1] - 1) \X (0 .. size[2] - 1) \X (0 .. size[3] - 1)
Untouched(gen) == IF gen.channel = "Sdf" THEN FarOutside ELSE 0
Filled(size, value) == [p \in Cells(size) |-> value]
Uniform(block, value) == [voxels |-> Filled(block.size, value), hint |-> TRUE]
Voxels(voxels) == [voxels |-> voxels, hint |-> FALSE]

BlockTop(block) == block.origin[2] + block.size[2] * 2 ^ block.lod
WorldOf(block, p) == [a \in 1 .. 3 |-> block.origin[a] + p[a] * 2 ^ block.lod]

\* how many of the voxels of a column, from the bottom, are below h
Column(h, block) == LET n == Truncated(h, HalfVoxels) \div 2 ^ block.lod IN IF n > block.size[2] THEN block.size[2] ELSE n
Below(p, h, block, value) == IF p[2] < Column(h - HalfVoxels * block.origin[2], block) THEN value ELSE 0

GenerateHeightmap(gen, block) ==
  LET b == [block EXCEPT !.origin = <<block.origin[1] - gen.offset[1], block.origin[2], block.origin[3] - gen.offset[2]>>]
      height(p) == (HeightFn(gen, WorldOf(b, p)[1], WorldOf(b, p)[3]) * gen.range) \div Quarters + gen.start
  IN  IF HalfVoxels * b.origin[2] > gen.start + gen.range THEN Uniform(b, Untouched(gen))
      ELSE IF HalfVoxels * BlockTop(b) < gen.start THEN Uniform(b, IF gen.channel = "Sdf" THEN 0 ELSE gen.matter)
      ELSE Voxels([p \in Cells(b.size) |->
             IF gen.channel = "Sdf" THEN gen.isoScale * (HalfVoxels * WorldOf(b, p)[2] - height(p))
             ELSE Below(p, height(p), b, gen.matter)])

GenerateFlat(gen, block) ==
  LET margin == 2 ^ block.lod
  IN  IF HalfVoxels * block.origin[2] > gen.height + HalfVoxels * margin THEN Uniform(block, Untouched(gen))
      ELSE IF HalfVoxels * BlockTop(block) < gen.height - HalfVoxels * margin
      THEN Uniform(block, IF gen.channel = "Sdf" THEN FarInside ELSE gen.matter)
      ELSE Voxels([p \in Cells(block.size) |->
             IF gen.channel = "Sdf" THEN gen.isoScale * (HalfVoxels * WorldOf(block, p)[2] - gen.height)
             ELSE Below(p, gen.height, block, gen.matter)])

\* The ground of noise is in a slab, in which a bias grows from -1 to 1.
GenerateNoise(gen, block) ==
  LET lower == gen.start \div HalfVoxels
      upper == -((-(gen.start + gen.range)) \div HalfVoxels)
      value(solid) == IF gen.channel = "Sdf" THEN IF solid THEN FarInside ELSE FarOutside ELSE IF solid THEN 1 ELSE 0
      \* times the range, which keeps its sign
      d(q) == gen.period * (gen.range * Noise3(gen, q[1], q[2], q[3])
                            + Quarters * (2 * (HalfVoxels * q[2] - gen.start) - gen.range))
      voxel(q) == IF q[2] < lower THEN value(TRUE)
                  ELSE IF q[2] >= upper THEN value(FALSE)
                  ELSE IF gen.channel = "Sdf" THEN d(q) ELSE IF d(q) < 0 THEN 1 ELSE 0
  IN  IF block.origin[2] >= upper THEN Uniform(block, value(FALSE))
      ELSE IF BlockTop(block) <= lower THEN Uniform(block, value(TRUE))
      ELSE Voxels([p \in Cells(block.size) |-> voxel(WorldOf(block, p))])

GenerateBlock(gen, block) ==
  IF gen.kind = "Flat" THEN GenerateFlat(gen, block)
  ELSE IF gen.kind = "Noise" THEN GenerateNoise(gen, block)
  ELSE GenerateHeightmap(gen, block)

\* one voxel of the full resolution
GenerateSingle(gen, q) == GenerateBlock(gen, [origin |-> q, size |-> <<1, 1, 1>>, lod |-> 0]).voxels[<<0, 0, 0>>]

-----------------------------------------------------------------------------
(* Properties.                                                             *)

Solid(gen, value) == IF gen.channel = "Sdf" THEN value < 0 ELSE value # 0

\* Deep below a heightmap distances are 0, which is not inside.
IsDeep(gen, y) == gen.channel = "Sdf" /\ gen.kind \notin {"Flat", "Noise"} /\ HalfVoxels * (y + 1) < gen.start

\* The voxels that stand for the height of one: where its distance is taken, or all of it.
Stretch(gen, block, p) ==
  LET q == WorldOf(block, p)
      n == IF gen.channel = "Sdf" \/ gen.kind = "Noise" THEN 0 ELSE 2 ^ block.lod - 1
  IN  {<<q[1], y, q[3]>> : y \in q[2] .. q[2] + n}

\* GeneratorIsExact: a voxel is solid whichever block it is asked for with and however much of
\* its space it stands for, and where a generator says that there is nothing finer
\* ("considers the block already final", base.rs:51-52) all voxels of the block's space agree.
GeneratorIsExact(gen, block) ==
  LET result == GenerateBlock(gen, block)
      single(q) == Solid(gen, GenerateSingle(gen, q))
      space == {[a \in 1 .. 3 |-> block.origin[a] + o[a]] : o \in Cells([a \in 1 .. 3 |-> block.size[a] * 2 ^ block.lod])}
  IN  /\ \A p \in Cells(block.size) :
           (\A q \in Stretch(gen, block, p) : ~ IsDeep(gen, q[2])) =>
             (Solid(gen, result.voxels[p]) <=> \A q \in Stretch(gen, block, p) : single(q))
      /\ result.hint => Cardinality({single(q) : q \in space}) = 1
=============================================================================
