----------------------------- MODULE ViewerBoxes -----------------------------
(***************************************************************************)
(* Which blocks a frame of VoxelTerrainCore::process unviews and views:    *)
(* the pairing of viewers, the boxes of blocks around them for each LOD,   *)
(* and the slabs in which two boxes differ (terrain/voxel_terrain_core.rs).*)
(* TerrainPaging and MeshScheduling take the result as sets of blocks; it  *)
(* is this module that shows that boxes and slabs come to that.            *)
(***************************************************************************)
EXTENDS Boxes

CONSTANTS BlockSize,       \* voxels per block of LOD 0, of data and of meshes
          MaxViewDistance, \* max_view_distance_voxels
          VerticalAxis     \* the axis whose view distance is the vertical one

DefaultBox == Box(Splat(0), Splat(0))
FromCenterExtents(center, extents) ==
  Box([d \in Axes |-> center[d] - extents[d]], [d \in Axes |-> 2 * extents[d]])

-----------------------------------------------------------------------------
\* BoxDiff::difference: slabs before and behind on each axis, as wide as the box on the axes
\* to come and as the common part on those that are done

Slab(a, clip, d, lo, hi) ==
  Box([e \in Axes |-> IF e < d THEN clip.pos[e] ELSE IF e = d THEN lo ELSE a.pos[e]],
      [e \in Axes |-> IF e < d THEN clip.size[e] ELSE IF e = d THEN hi - lo ELSE a.size[e]])
SlabsOf(a, clip, d) ==
  (IF clip.pos[d] > a.pos[d] THEN <<Slab(a, clip, d, a.pos[d], clip.pos[d])>> ELSE <<>>)
  \o (IF End(a)[d] > End(clip)[d] THEN <<Slab(a, clip, d, End(clip)[d], End(a)[d])>> ELSE <<>>)

BoxDiff(a, b) ==
  LET clip == Clipped(a, b)
  IN  IF IsEmpty(a) \/ (Intersects(a, b) /\ clip.size = a.size) THEN <<>>
      ELSE IF ~ Intersects(a, b) THEN <<a>>
      ELSE FlattenSeq([d \in Axes |-> SlabsOf(a, clip, d)])

-----------------------------------------------------------------------------
\* Viewers: [pos, horizontal, vertical, meshes], and their boxes, one for each LOD

CeilDivided(a, b) == Quotient(a + b - 1, b)
\* the blocks of a size around a position, up to the view distances and some more
Around(state, size, more) ==
  FromCenterExtents([d \in Axes |-> state.pos[d] \div size],
                    [d \in Axes |-> CeilDivided(IF d = VerticalAxis THEN state.vertical ELSE state.horizontal, size) + more])

NoBoxes == [data |-> <<>>, mesh |-> <<>>]
ComputeViewerBoxes(state, lods) ==
  IF ~ state.meshes THEN [data |-> <<Around(state, BlockSize, 0)>>, mesh |-> <<DefaultBox>>]
  ELSE [data |-> [n \in 1 .. lods |-> Around(state, BlockSize * 2 ^ (n - 1), 1)],
        mesh |-> [n \in 1 .. lods |-> Around(state, BlockSize * 2 ^ (n - 1), 0)]]

\* get(lod).unwrap_or_default()
BoxAt(boxes, n) == IF n \in DOMAIN boxes THEN boxes[n] ELSE DefaultBox

WithinLimits(update) ==
  [update EXCEPT !.horizontal = Lesser(@, MaxViewDistance), !.vertical = Lesser(@, MaxViewDistance)]

\* The viewers after an update, in the order they came: a new one had no boxes before.
Paired(viewers, update) ==
  LET state == WithinLimits(update.state)
      found == {i \in DOMAIN viewers : viewers[i].id = update.id}
  IN  IF found = {} THEN Append(viewers, [id |-> update.id, state |-> state, prev |-> NoBoxes, boxes |-> NoBoxes])
      ELSE LET i == CHOOSE k \in found : \A j \in found : k <= j
           IN  [viewers EXCEPT ![i].state = state, ![i].prev = viewers[i].boxes]

\* Those that no update names lose their boxes.
Boxed(viewer, seen, lods) ==
  IF viewer.id \in seen THEN [viewer EXCEPT !.boxes = ComputeViewerBoxes(viewer.state, lods)]
  ELSE [viewer EXCEPT !.prev = viewer.boxes, !.boxes = NoBoxes]

PairViewers(viewers, updates, lods) ==
  LET seen == {updates[i].id : i \in DOMAIN updates}
      paired == FoldLeft(Paired, viewers, updates)
  IN  [i \in DOMAIN paired |-> Boxed(paired[i], seen, lods)]

\* What the viewers leave and enter of a LOD.
Left(viewers, boxes, n) ==
  FlattenSeq([i \in DOMAIN viewers |-> BoxDiff(BoxAt(viewers[i].prev[boxes], n), BoxAt(viewers[i].boxes[boxes], n))])
Entered(viewers, boxes, n) ==
  FlattenSeq([i \in DOMAIN viewers |-> BoxDiff(BoxAt(viewers[i].boxes[boxes], n), BoxAt(viewers[i].prev[boxes], n))])

\* How often each block is in one of the slabs: one by one its count goes down or up.
Times(slabs, c) == Cardinality({i \in DOMAIN slabs : ContainsPoint(slabs[i], c)})
Released(n, k) == IF k > n THEN 0 ELSE n - k
Counted(counts, viewers, boxes, n) ==
  LET left == Left(viewers, boxes, n)
      entered == Entered(viewers, boxes, n)
  IN  [c \in DOMAIN counts |-> Released(counts[c], Times(left, c)) + Times(entered, c)]

\* process_viewers: core is [viewers, data, mesh], counts of viewers by LOD and block
ProcessViewers(core, updates, lods) ==
  LET viewers == PairViewers(core.viewers, updates, lods)
      seen == {updates[i].id : i \in DOMAIN updates}
  IN  [viewers |-> SelectSeq(viewers, LAMBDA v : v.id \in seen),
       data |-> [n \in 1 .. lods |-> Counted(core.data[n], viewers, "data", n)],
       mesh |-> [n \in 1 .. lods |-> Counted(core.mesh[n], viewers, "mesh", n)]]

-----------------------------------------------------------------------------
\* Properties

\* The slabs of a difference are disjoint and are what the other box has not.
SlabsAreTheDifference(a, b) ==
  LET slabs == BoxDiff(a, b)
  IN  /\ UNION {Cells(slabs[i]) : i \in DOMAIN slabs} = Cells(a) \ Cells(b)
      /\ \A i, j \in DOMAIN slabs : i # j => Cells(slabs[i]) \cap Cells(slabs[j]) = {}

\* Every mesh in reach has the blocks around it, and what is nearer to a viewer than its view
\* distance less one block is in its boxes, which reach one block less forward than back; one
\* that needs no meshes has data of LOD 0 only.
BoxesReach(state, lods) ==
  LET boxes == ComputeViewerBoxes(state, lods)
      size(n) == BlockSize * 2 ^ (n - 1)
      distance(d) == IF d = VerticalAxis THEN state.vertical ELSE state.horizontal
      near(n) == [d \in Axes |-> (state.pos[d] - distance(d)) .. (state.pos[d] + distance(d) - size(n))]
  IN  /\ state.meshes => \A n \in 1 .. lods :
           /\ ~ IsEmpty(boxes.mesh[n]) => ContainsBox(boxes.data[n], Padded(boxes.mesh[n], 1))
           /\ \A d \in Axes : \A x \in near(n)[d] :
                x \div size(n) \in boxes.mesh[n].pos[d] .. End(boxes.mesh[n])[d] - 1
      /\ ~ state.meshes => \A n \in 1 .. lods :
           IsEmpty(BoxAt(boxes.mesh, n)) /\ (n > 1 => IsEmpty(BoxAt(boxes.data, n)))
      /\ \A d \in Axes : \A x \in near(1)[d] :
           x \div BlockSize \in boxes.data[1].pos[d] .. End(boxes.data[1])[d] - 1

\* After each frame the viewers of a block are those that have it in their boxes, however they
\* came, went, moved, changed what they want and named the same block in one frame.
CountsAreViewers(core, lods) ==
  \A n \in 1 .. lods, boxes \in {"data", "mesh"} : \A c \in DOMAIN core[boxes][n] :
    core[boxes][n][c] = Cardinality({i \in DOMAIN core.viewers : ContainsPoint(BoxAt(core.viewers[i].boxes[boxes], n), c)})

NoCounts(lods, cells) == [n \in 1 .. lods |-> [c \in cells |-> 0]]
FramesCountViewers(frames, lods, cells) ==
  LET start == [viewers |-> <<>>, data |-> NoCounts(lods, cells), mesh |-> NoCounts(lods, cells)]
      after == FoldLeft(LAMBDA cores, f : Append(cores, ProcessViewers(Last(cores), f, lods)), <<start>>, frames)
  IN  /\ \A i \in DOMAIN after : CountsAreViewers(after[i], lods)
      /\ \A i \in DOMAIN frames : \A k \in DOMAIN frames[i] : BoxesReach(WithinLimits(frames[i][k].state), lods)
=============================================================================
