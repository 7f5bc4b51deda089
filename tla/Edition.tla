-------------------------------- MODULE Edition --------------------------------
(***************************************************************************)
(* Editing by hand: the ray that looks for a voxel (edition/raycast.rs),   *)
(* the shapes that change a buffer (edition/ops.rs) and the stack of       *)
(* modifiers (modifiers/stack.rs).                                         *)
(***************************************************************************)
EXTENDS Integers, Sequences, FiniteSets
LOCAL Seqs == INSTANCE SequencesExt

Axis3 == 1 .. 3
Least(S) == CHOOSE n \in S : \A k \in S : n <= k
Greatest(S) == CHOOSE n \in S : \A k \in S : k <= n
Triple(f(_)) == <<f(1), f(2), f(3)>>

-----------------------------------------------------------------------------
(* The ray.  A ray is [origin, direction]: the origin in quarters of a     *)
(* voxel, the direction a vector of which each component divides 6.  After *)
(* T it is at origin + direction * T / 6.                                  *)

Quarter == 4
TimeUnit == 6
Large == 100000

Step(ray, a) == IF ray.direction[a] > 0 THEN 1 ELSE IF ray.direction[a] < 0 THEN -1 ELSE 0
Speed(ray, a) == IF ray.direction[a] < 0 THEN -ray.direction[a] ELSE ray.direction[a]
TDelta(ray, a) == IF Step(ray, a) = 0 THEN Large ELSE (Quarter * TimeUnit) \div Speed(ray, a)

\* how long it takes to the next voxel: 0 on the border of the one behind
ToNext(ray, a) ==
  LET within == ray.origin[a] % Quarter
  IN  IF Step(ray, a) > 0 THEN ((Quarter - within) * TimeUnit) \div Speed(ray, a)
      ELSE IF Step(ray, a) < 0 THEN (within * TimeUnit) \div Speed(ray, a)
      ELSE Large

Start(ray) ==
  LET cross(a) == IF ToNext(ray, a) = 0 THEN TDelta(ray, a) ELSE ToNext(ray, a)
      first(a) == ray.origin[a] \div Quarter - IF ToNext(ray, a) = 0 /\ Step(ray, a) < 0 THEN 1 ELSE 0
  IN  [position |-> Triple(first), previous |-> Triple(first), distance |-> 0, tcross |-> Triple(cross), normal |-> <<0, 0, 0>>]

NextAxis(tcross) ==
  IF tcross[1] < tcross[2] THEN IF tcross[1] < tcross[3] THEN 1 ELSE 3
  ELSE IF tcross[2] < tcross[3] THEN 2 ELSE 3

Advance(ray, state) ==
  LET axis == NextAxis(state.tcross)
      moved(a) == state.position[a] + IF a = axis THEN Step(ray, a) ELSE 0
      cross(a) == state.tcross[a] + IF a = axis THEN TDelta(ray, a) ELSE 0
      back(a) == IF a = axis THEN -Step(ray, a) ELSE 0
  IN  [position |-> Triple(moved), previous |-> state.position, distance |-> state.tcross[axis],
       tcross |-> Triple(cross), normal |-> Triple(back)]

\* the voxels on the way, each as the predicate is asked about it
Traversed(ray, maxDistance) ==
  LET more(state) == state.tcross[NextAxis(state.tcross)] <= maxDistance
      extended(states, n) == LET last == states[Len(states)] IN
                               IF more(last) THEN Append(states, Advance(ray, last)) ELSE states
      most(a) == maxDistance \div TDelta(ray, a) + 1
      states == Seqs!FoldLeft(extended, <<Start(ray)>>, [n \in 1 .. most(1) + most(2) + most(3) |-> n])
  IN  Tail(states)

VoxelRaycast(ray, maxDistance, solid) ==
  LET hits == SelectSeq(Traversed(ray, maxDistance), LAMBDA state : state.position \in solid)
  IN  IF hits = <<>> THEN <<>> ELSE <<Head(hits)>>

-----------------------------------------------------------------------------
(* Shapes.  A buffer is [size, smooth, voxels]: smooth says that voxels    *)
(* are signed distances in half voxels.  A shape is a sphere [center,      *)
(* radius] in half voxels or a box [min, max] in voxels.                   *)

CellsOf(lo, hi) == (lo[1] .. hi[1] - 1) \X (lo[2] .. hi[2] - 1) \X (lo[3] .. hi[3] - 1)
Squared(p, center) ==
  LET d(a) == (2 * p[a] + 1 - center[a]) * (2 * p[a] + 1 - center[a]) IN d(1) + d(2) + d(3)
SquareRoot(n) == Greatest({k \in 0 .. n : k * k <= n})

Blend(existing, shape, mode) ==
  CASE mode = "Add" -> Least({existing, shape})
    [] mode = "Remove" -> Greatest({existing, -shape})
    [] mode = "Set" -> shape
Written(existing, value, mode) ==
  CASE mode = "Add" -> IF existing = 0 THEN value ELSE existing
    [] mode = "Remove" -> 0
    [] mode = "Set" -> value

MaxElement(p, q) == [a \in Axis3 |-> Greatest({p[a], q[a]})]
MinElement(p, q) == [a \in Axis3 |-> Least({p[a], q[a]})]

\* what an edit does to the cells it reaches, distance saying how far they are from the shape
Applied(buffer, reached, distance(_), mode, value) ==
  [buffer EXCEPT !.voxels = [p \in DOMAIN buffer.voxels |->
     IF p \notin reached THEN buffer.voxels[p]
     ELSE IF buffer.smooth THEN Blend(buffer.voxels[p], distance(p), mode)
     ELSE Written(buffer.voxels[p], value, mode)]]

SphereCells(buffer, shape) ==
  LET lo == MaxElement([a \in Axis3 |-> (shape.center[a] - shape.radius) \div 2], <<0, 0, 0>>)
      hi == MinElement([a \in Axis3 |-> -((-(shape.center[a] + shape.radius)) \div 2)], buffer.size)
  IN  {p \in CellsOf(lo, hi) : Squared(p, shape.center) <= shape.radius * shape.radius}
DoSphere(buffer, shape, mode, value) ==
  LET distance(p) == SquareRoot(Squared(p, shape.center)) - shape.radius
  IN  Applied(buffer, SphereCells(buffer, shape), distance, mode, value)

\* the distance to a box, in half voxels, is that of its nearest side
SdfBox(p, lo, hi) ==
  LET off(a) == 2 * p[a] + 1 - (lo[a] + hi[a])
      d(a) == (IF off(a) < 0 THEN -off(a) ELSE off(a)) - (hi[a] - lo[a])
  IN  Greatest({d(a) : a \in Axis3})
DoBox(buffer, shape, mode, value) ==
  LET lo == MaxElement(shape.min, <<0, 0, 0>>)
      hi == MinElement(shape.max, buffer.size)
      distance(p) == SdfBox(p, lo, hi)
  IN  Applied(buffer, CellsOf(lo, hi), distance, mode, value)

DoShape(buffer, edit, value) ==
  IF "radius" \in DOMAIN edit.shape THEN DoSphere(buffer, edit.shape, edit.mode, value)
  ELSE DoBox(buffer, edit.shape, edit.mode, value)

\* means over cubes, for the voxels whose corner is in a sphere
BoxBlur(buffer, radius, center, sphereRadius) ==
  LET around(p) == CellsOf(MaxElement([a \in Axis3 |-> p[a] - radius], <<0, 0, 0>>),
                           MinElement([a \in Axis3 |-> p[a] + radius + 1], buffer.size))
      total(S) == Seqs!MapThenSumSet(LAMBDA p : buffer.voxels[p], S)
      near(p) == Squared(p, [a \in Axis3 |-> center[a] + 1]) <= sphereRadius * sphereRadius
  IN  [buffer EXCEPT !.voxels = [p \in DOMAIN buffer.voxels |->
         IF near(p) THEN total(around(p)) \div Cardinality(around(p)) ELSE buffer.voxels[p]]]

\* the voxels that tick, by z, x and y
RunBlockyRandomTick(buffer, lo, hi, tickable, batchCount) ==
  LET n == [a \in Axis3 |-> Greatest({hi[a] - lo[a], 0})]
      cells == [k \in 1 .. n[1] * n[2] * n[3] |->
                  <<lo[1] + (((k - 1) \div n[2]) % n[1]), lo[2] + ((k - 1) % n[2]), lo[3] + ((k - 1) \div (n[1] * n[2]))>>]
      candidates == SelectSeq(cells, LAMBDA p : p \in DOMAIN buffer.voxels /\ buffer.voxels[p] = tickable)
      step == Greatest({Len(candidates) \div Greatest({batchCount, 1}), 1})
      picked == SelectSeq([i \in DOMAIN candidates |-> i], LAMBDA i : (i - 1) % step = 0)
  IN  [k \in 1 .. Least({Len(picked), batchCount}) |-> candidates[picked[k]]]

-----------------------------------------------------------------------------
(* Modifiers: spheres [center, radius, operation, smoothness] that are     *)
(* blended into a distance one after the other.                            *)

Difference(a, b) == IF a < b THEN b - a ELSE a - b
\* distances are in units small enough for the half and the quotient to be whole
SmoothReach(a, b, s) == Least({s, Greatest({0, s - Difference(a, b) \div 2})})
SdfSmoothUnion(a, b, s) == LET h == SmoothReach(a, b, s) IN b - h + (h * h) \div s
SdfSmoothSubtract(a, b, s) == LET h == SmoothReach(a, -b, s) IN -b + h + (h * h) \div s
SdfBlend(existing, shape, operation, smoothness) ==
  IF smoothness = 0
  THEN IF operation = "Add" THEN Least({existing, shape}) ELSE Greatest({existing, -shape})
  ELSE IF operation = "Add" THEN SdfSmoothUnion(existing, shape, smoothness)
       ELSE SdfSmoothSubtract(existing, shape, smoothness)

ModifierDistance(modifier, p) == SquareRoot(Squared(p, modifier.center)) - modifier.radius
ModifierStackApply(modifiers, sdf, p) ==
  Seqs!FoldLeft(LAMBDA d, m : SdfBlend(d, ModifierDistance(m, p), m.operation, m.smoothness), sdf, modifiers)

-----------------------------------------------------------------------------
(* Properties.                                                             *)

\* when the ray enters and leaves a voxel
EntersAt(ray, v, a) ==
  LET near == IF Step(ray, a) > 0 THEN Quarter * v[a] - ray.origin[a] ELSE ray.origin[a] - Quarter * (v[a] + 1)
  IN  IF Step(ray, a) # 0 THEN (near * TimeUnit) \div Speed(ray, a)
      ELSE IF ray.origin[a] \div Quarter = v[a] THEN -Large ELSE Large
LeavesAt(ray, v, a) ==
  IF Step(ray, a) # 0 THEN EntersAt(ray, v, a) + TDelta(ray, a) ELSE -EntersAt(ray, v, a)
Enters(ray, v) == Greatest({EntersAt(ray, v, a) : a \in Axis3})
Leaves(ray, v) == Least({LeavesAt(ray, v, a) : a \in Axis3})

\* RayIsExact: the ray is stopped by the first solid voxel it goes through after its own,
\* where it enters it, by no voxel that it does not touch, and it looks at the voxels in the
\* order of its way ("Traverses voxels from `origin` along `direction`", raycast.rs:39-42).
RayIsExact(ray, maxDistance, world, solid) ==
  LET way == Traversed(ray, maxDistance)
      hit == VoxelRaycast(ray, maxDistance, solid)
      crossed == {v \in world : 0 < Enters(ray, v) /\ Enters(ray, v) < Leaves(ray, v) /\ Enters(ray, v) <= maxDistance}
  IN  /\ \A k \in DOMAIN way :
           LET at == way[k] IN
           /\ at.distance = Enters(ray, at.position) /\ at.distance <= Leaves(ray, at.position)
           /\ at.normal = Triple(LAMBDA a : at.previous[a] - at.position[a])
           /\ at.distance > 0 /\ (k > 1 => way[k - 1].distance <= at.distance /\ way[k - 1].position = at.previous)
      /\ crossed \subseteq {way[k].position : k \in DOMAIN way}
      /\ IF hit = <<>> THEN crossed \cap solid = {}
         ELSE \A v \in crossed \cap solid : hit[1].distance <= Enters(ray, v)

IsSolid(buffer, p) == IF buffer.smooth THEN buffer.voxels[p] < 0 ELSE buffer.voxels[p] # 0
Shaped(edit, p) ==
  IF "radius" \in DOMAIN edit.shape THEN Squared(p, edit.shape.center) <= edit.shape.radius * edit.shape.radius
  ELSE \A a \in Axis3 : edit.shape.min[a] <= p[a] /\ p[a] < edit.shape.max[a]
\* a voxel whose centre is where a sphere ends has the distance 0
Edge(edit, p) ==
  "radius" \in DOMAIN edit.shape /\ SquareRoot(Squared(p, edit.shape.center)) = edit.shape.radius

\* EditsAreExact: shapes change all the voxels they hold and no other, whether they reach over
\* the buffer or not; what is added is solid, what is removed is not; two shapes that are both
\* added, or both removed, may be so in either order.
EditsAreExact(buffer, first, second, value) ==
  LET once == DoShape(buffer, first, value)
      twice == DoShape(once, second, value)
      swapped == DoShape(DoShape(buffer, second, value), first, value)
  IN  /\ \A p \in DOMAIN buffer.voxels :
           /\ ~ Shaped(first, p) => once.voxels[p] = buffer.voxels[p]
           /\ Shaped(first, p) =>
                IF first.mode = "Remove" THEN ~ IsSolid(once, p)
                ELSE ~ (buffer.smooth /\ Edge(first, p)) => IsSolid(once, p)
      /\ first.mode = second.mode /\ first.mode # "Set" => twice = swapped
      /\ second = [first EXCEPT !.mode = "Remove"] =>
           \A p \in DOMAIN buffer.voxels : IsSolid(twice, p) => ~ Shaped(first, p) /\ IsSolid(buffer, p)

\* TicksAreExact: as many voxels tick as may, all of them tickable and none twice, and what is
\* blurred is between the values that were around it.
TicksAreExact(buffer, lo, hi, tickable, batchCount) ==
  LET ticks == RunBlockyRandomTick(buffer, lo, hi, tickable, batchCount)
      may == {p \in CellsOf(lo, hi) \cap DOMAIN buffer.voxels : buffer.voxels[p] = tickable}
      blurred == BoxBlur(buffer, 1, lo, 2)
  IN  /\ {ticks[k] : k \in DOMAIN ticks} \subseteq may
      /\ Len(ticks) = Least({batchCount, Cardinality(may)})
      /\ Cardinality({ticks[k] : k \in DOMAIN ticks}) = Len(ticks)
      /\ \A p \in DOMAIN buffer.voxels :
           LET around == {buffer.voxels[q] : q \in {r \in DOMAIN buffer.voxels : \A a \in Axis3 : Difference(r[a], p[a]) <= 1}}
           IN  Least(around) <= blurred.voxels[p] /\ blurred.voxels[p] <= Greatest(around)

\* ModifiersAreInOrder: the last of the modifiers that reach a point says whether it is solid;
\* where the shape alone decides a smooth one goes at least as far.
ModifiersAreInOrder(modifiers, sdf, p) ==
  LET d(k) == ModifierDistance(modifiers[k], p)
      reaching == {k \in DOMAIN modifiers : IF modifiers[k].operation = "Add" THEN d(k) < 0 ELSE d(k) <= 0}
  IN  /\ (\A k \in DOMAIN modifiers : modifiers[k].smoothness = 0) =>
           (ModifierStackApply(modifiers, sdf, p) < 0
              <=> IF reaching = {} THEN sdf < 0 ELSE modifiers[Greatest(reaching)].operation = "Add")
      /\ \A k \in DOMAIN modifiers : LET m == modifiers[k] IN
           /\ m.operation = "Add" /\ d(k) <= sdf => SdfBlend(sdf, d(k), m.operation, m.smoothness) <= d(k)
           /\ m.operation # "Add" /\ -d(k) >= sdf => SdfBlend(sdf, d(k), m.operation, m.smoothness) >= -d(k)
=============================================================================
