--------------------------- MODULE MeshScheduling ---------------------------
(***************************************************************************)
(* How VoxelTerrainCore (terrain/voxel_terrain_core.rs) gets the blocks    *)
(* that viewers want meshed: the mesh entries, the list of blocks to       *)
(* update, the mesh tasks and their results, over the same frame as        *)
(* TerrainPaging and for one LOD at a time.                                *)
(*                                                                         *)
(* Of the data blocks only the residence is kept, as TerrainPaging         *)
(* promises it: a block gets resident by a load while a viewer wants it    *)
(* and goes with the last of them.  The three axes behave alike: positions *)
(* are those of a line.  Meshes are abstract, except that there are some.  *)
(***************************************************************************)
EXTENDS Integers, FiniteSets, BagsExt, Bags

CONSTANTS
  Blocks,        \* positions of the data blocks inside the bounds
  Viewers,       \* viewer ids
  MeshRanges,    \* the mesh boxes a viewer may have, {} for an absent viewer
  LodStride,     \* 1 << lod
  MayInvalidate, \* whether the host invalidates the meshing dependency
  MayPanic,      \* blocks whose mesher may panic; bound: once each
  MaxMeshTasks   \* bound: mesh tasks of a block that wait or run

ASSUME MeshAssumption ==
  /\ Blocks \subseteq Int /\ MeshRanges \subseteq SUBSET Int /\ {} \in MeshRanges
  /\ LodStride \in Nat \ {0} /\ MayInvalidate \in BOOLEAN /\ MayPanic \subseteq Int
  /\ MaxMeshTasks \in Nat \ {0} /\ IsFiniteSet(Viewers)

VARIABLES
  resident,   \* the data blocks in the map of the LOD
  leaving,    \* those this frame still has to unload
  meshes,     \* mesh_maps[lod]; NoEntry without entry
  update,     \* blocks_pending_update[lod]: how often each position is in it
  tasks,      \* mesh tasks in the pool that have not gathered their voxels
  gathered,   \* mesh tasks that mesh what they gathered: a bag of positions
  completed,  \* outputs of mesh tasks, in the pool: a bag
  inbox,      \* outputs drain_completed_tasks has still to apply: a bag
  ranges,     \* ranges[v]: the mesh box of viewer v
  unviews,    \* the pairs of viewer and mesh block this frame has to unview
  views,      \* and to view
  step,       \* where process() is
  valid,      \* the meshing dependency is valid
  panicked    \* history: blocks a mesh task of which has panicked

poolVars == <<tasks, gathered, completed>>
dataVars == <<resident, leaving>>
viewVars == <<ranges, unviews, views>>
hostVars == <<valid, panicked>>
vars == <<dataVars, meshes, update, poolVars, inbox, viewVars, step, hostVars>>

MeshBlocks == UNION MeshRanges

\* The positions a mesh block needs data of: its box padded by one.
Around(p) == p - 1 .. p + 1

\* The data box of a viewer with mesh box r: the mesh box padded by one.
DataBox(r) == UNION {Around(p) : p \in r}

\* Blocks outside the bounds are never loaded.
Wanted(rs) == {b \in Blocks : \E v \in Viewers : b \in DataBox(rs[v])}

NoEntry == [viewers |-> -1, listed |-> FALSE, loaded |-> FALSE]
NewEntry == [viewers |-> 0, listed |-> FALSE, loaded |-> FALSE]

HasEntry(p) == meshes[p] # NoEntry

Nowhere == [p \in MeshBlocks |-> 0]

Init ==
  /\ resident = {} /\ leaving = {}
  /\ meshes = [p \in MeshBlocks |-> NoEntry]
  /\ update = Nowhere /\ tasks = Nowhere
  /\ gathered = EmptyBag /\ completed = EmptyBag /\ inbox = EmptyBag
  /\ ranges = [v \in Viewers |-> {}] /\ unviews = {} /\ views = {}
  /\ step = "idle"
  /\ valid = TRUE /\ panicked = {}

-----------------------------------------------------------------------------
(* The mesh entries m and the update list.                                 *)

\* Mutant: one viewer is not enough.
SchedulableByTwo(m, p, data) ==
  m[p] # NoEntry /\ ~m[p].listed /\ m[p].viewers > 1 /\ Around(p) \subseteq data

\* try_schedule_mesh_update lists p only once, for viewers that are there and
\* with all the data around it.
Schedulable(m, p, data) ==
  m[p] # NoEntry /\ ~m[p].listed /\ m[p].viewers # 0 /\ Around(p) \subseteq data

\* Entries m and the update list, once those of the blocks ps are scheduled.
Schedule(m, ps, data) ==
  LET now == {p \in ps \cap MeshBlocks : Schedulable(m, p, data)}
  IN  /\ meshes' = [p \in MeshBlocks |-> IF p \in now THEN [m[p] EXCEPT !.listed = TRUE] ELSE m[p]]
      /\ update' = [p \in MeshBlocks |-> IF p \in now THEN update[p] + 1 ELSE update[p]]

\* Mutant: the entry of a block has one viewer, however many view it.
ViewedOnce(e) == [e EXCEPT !.viewers = 1]

Viewed(e) == [e EXCEPT !.viewers = @ + 1]

\* view_mesh_block, for a block of a box a viewer entered, after all unviews.
ViewMeshBlock(v, p) ==
  /\ step = "paging" /\ leaving = {} /\ unviews = {} /\ <<v, p>> \in views
  /\ views' = views \ {<<v, p>>}
  /\ LET e == IF HasEntry(p) THEN meshes[p] ELSE NewEntry
     IN  Schedule([meshes EXCEPT ![p] = Viewed(e)], {p}, resident)
  /\ UNCHANGED <<dataVars, poolVars, inbox, ranges, unviews, step, hostVars>>

LosesLastViewer(e) == e.viewers <= 1

\* Mutant: a removed entry leaves its position in the update list.
StillListed(p) == update

Unlisted(p) == [update EXCEPT ![p] = 0]

\* unview_mesh_block: the last viewer takes the entry along, listed or not.
UnviewMeshBlock(v, p) ==
  /\ step = "paging" /\ leaving = {} /\ <<v, p>> \in unviews
  /\ unviews' = unviews \ {<<v, p>>}
  /\ IF ~HasEntry(p) THEN UNCHANGED <<meshes, update>>
     ELSE IF LosesLastViewer(meshes[p])
     THEN meshes' = [meshes EXCEPT ![p] = NoEntry] /\ update' = Unlisted(p)
     ELSE meshes' = [meshes EXCEPT ![p].viewers = @ - 1] /\ UNCHANGED update
  /\ UNCHANGED <<dataVars, poolVars, inbox, ranges, views, step, hostVars>>

-----------------------------------------------------------------------------
(* The frame: drain; page data, then meshes; drain; mesh; drain.           *)

Drain ==
  /\ inbox = EmptyBag
  /\ \/ step = "idle" /\ step' = "started"
     \/ step = "paging" /\ leaving = {} /\ unviews = {} /\ views = {} /\ step' = "loaded"
     \/ step = "meshing" /\ step' = "idle"
  /\ inbox' = completed /\ completed' = EmptyBag
  /\ UNCHANGED <<dataVars, meshes, update, tasks, gathered, viewVars, hostVars>>

\* The blocks each viewer enters when the boxes change.
Entered(from, to) == {e \in Viewers \X MeshBlocks : e[2] \in to[e[1]] \ from[e[1]]}

\* process_viewers pairs the viewers and compares their boxes.
PairViewers(r) ==
  /\ step = "started" /\ inbox = EmptyBag
  /\ step' = "paging"
  /\ ranges' = r
  /\ leaving' = resident \cap (Wanted(ranges) \ Wanted(r))
  /\ unviews' = Entered(r, ranges)
  /\ views' = Entered(ranges, r)
  /\ UNCHANGED <<resident, meshes, update, poolVars, inbox, hostVars>>

\* apply_data_unview, for a block that loses its last viewer.
UnloadData(p) ==
  /\ step = "paging" /\ p \in leaving
  /\ leaving' = leaving \ {p}
  /\ resident' = resident \ {p}
  /\ UNCHANGED <<meshes, update, poolVars, inbox, viewVars, step, hostVars>>

\* Mutant: only the mesh block of the data block itself.
MeshesAt(p) == {p * LodStride}

\* try_schedule_mesh_update_from_data looks for mesh blocks around the voxels
\* of the data block p, in voxels of LOD 0 but blocks of the LOD.
MeshesAround(p) == p * LodStride - 1 .. p * LodStride + 1

\* apply_data_block_response inserts the block p, in one of the drains.
LoadData(p) ==
  /\ step \in {"started", "loaded", "idle"}
  /\ p \in Wanted(ranges) \ resident
  /\ resident' = resident \cup {p}
  /\ Schedule(meshes, MeshesAround(p), resident')
  /\ UNCHANGED <<leaving, poolVars, inbox, viewVars, step, hostVars>>

Meshing(p) == IF BagIn(p, gathered) THEN gathered[p] ELSE 0

\* process_meshing, all of the update list.
ProcessMeshing ==
  /\ step = "loaded" /\ inbox = EmptyBag
  \* Bound: the frame waits until there is room in the pool.
  /\ \A p \in MeshBlocks : update[p] + tasks[p] + Meshing(p) <= MaxMeshTasks
  /\ step' = "meshing"
  /\ tasks' = [p \in MeshBlocks |-> tasks[p] + update[p]]
  /\ meshes' = [p \in MeshBlocks |-> IF HasEntry(p) /\ update[p] > 0
                                     THEN [meshes[p] EXCEPT !.listed = FALSE] ELSE meshes[p]]
  /\ update' = Nowhere
  /\ UNCHANGED <<dataVars, gathered, completed, inbox, viewVars, hostVars>>

Take(o) ==
  /\ BagIn(o, inbox)
  /\ inbox' = BagRemove(inbox, o)
  /\ UNCHANGED <<dataVars, poolVars, viewVars, step, hostVars>>

\* A dropped mesh is asked for again, whatever data there is.
ApplyDropped(o) ==
  /\ Take(o) /\ o.dropped
  /\ IF HasEntry(o.pos) /\ meshes[o.pos].viewers > 0 /\ ~meshes[o.pos].listed
     THEN /\ meshes' = [meshes EXCEPT ![o.pos].listed = TRUE]
          /\ update' = [update EXCEPT ![o.pos] = @ + 1]
     ELSE UNCHANGED <<meshes, update>>

\* A mesh nobody views any more is thrown away.
ApplyMesh(o) ==
  /\ Take(o) /\ ~o.dropped
  /\ meshes' = IF HasEntry(o.pos) THEN [meshes EXCEPT ![o.pos].loaded = TRUE] ELSE meshes
  /\ UNCHANGED update

ApplyMeshUpdate == \E o \in BagToSet(inbox) : ApplyDropped(o) \/ ApplyMesh(o)

-----------------------------------------------------------------------------
(* The pool and MeshBlockTask.                                             *)

\* A task of an invalid dependency is cancelled: it leaves without output.
CancelMeshTask(p) ==
  /\ tasks[p] > 0 /\ ~valid
  /\ tasks' = [tasks EXCEPT ![p] = @ - 1]
  /\ UNCHANGED <<dataVars, meshes, update, gathered, completed, inbox, viewVars, step, hostVars>>

\* The voxels around p are gathered under one lock of the map.
GatherVoxels(p) ==
  /\ tasks[p] > 0 /\ valid
  /\ tasks' = [tasks EXCEPT ![p] = @ - 1]
  /\ gathered' = BagAdd(gathered, p)
  /\ UNCHANGED <<dataVars, meshes, update, completed, inbox, viewVars, step, hostVars>>

\* The mesher is done; was the dependency invalidated, the result is dropped.
FinishMesh(p) ==
  /\ BagIn(p, gathered)
  /\ gathered' = BagRemove(gathered, p)
  /\ completed' = BagAdd(completed, [pos |-> p, dropped |-> ~valid])
  /\ UNCHANGED <<dataVars, meshes, update, tasks, inbox, viewVars, step, hostVars>>

\* The pool catches the panic of a mesher and drops the task.
MesherPanics(p) ==
  /\ BagIn(p, gathered) /\ p \in MayPanic \ panicked
  /\ gathered' = BagRemove(gathered, p)
  /\ panicked' = panicked \cup {p}
  /\ UNCHANGED <<dataVars, meshes, update, tasks, completed, inbox, viewVars, step, valid>>

\* The host replaces mesher or generator: MeshingDependency::invalidate.
Invalidate ==
  /\ MayInvalidate /\ valid
  /\ valid' = FALSE
  /\ UNCHANGED <<dataVars, meshes, update, poolVars, inbox, viewVars, step, panicked>>

-----------------------------------------------------------------------------

Next ==
  \/ Drain
  \/ \E r \in [Viewers -> MeshRanges] : PairViewers(r)
  \/ \E p \in Blocks : UnloadData(p) \/ LoadData(p)
  \/ \E v \in Viewers, p \in MeshBlocks : UnviewMeshBlock(v, p) \/ ViewMeshBlock(v, p)
  \/ ProcessMeshing
  \/ ApplyMeshUpdate
  \/ \E p \in MeshBlocks :
       CancelMeshTask(p) \/ GatherVoxels(p) \/ FinishMesh(p) \/ MesherPanics(p)
  \/ Invalidate

Spec == Init /\ [][Next]_vars

-----------------------------------------------------------------------------
(* Properties.                                                             *)

Entries == {NoEntry} \cup [viewers : Nat \ {0}, listed : BOOLEAN, loaded : BOOLEAN]

\* Types: an entry has a viewer, or is not there.
TypeOK ==
  /\ leaving \subseteq resident /\ resident \subseteq Blocks
  /\ meshes \in [MeshBlocks -> Entries]
  /\ update \in [MeshBlocks -> Nat] /\ tasks \in [MeshBlocks -> Nat]
  /\ BagToSet(gathered) \subseteq MeshBlocks
  /\ BagToSet(completed) \cup BagToSet(inbox) \subseteq [pos : MeshBlocks, dropped : BOOLEAN]
  /\ ranges \in [Viewers -> MeshRanges]
  /\ unviews \subseteq Viewers \X MeshBlocks /\ views \subseteq Viewers \X MeshBlocks
  /\ step \in {"idle", "started", "paging", "loaded", "meshing"}
  /\ valid \in BOOLEAN /\ panicked \subseteq MayPanic

\* The viewers that have p in range, the work of the frame considered.
Viewing(p) == {v \in Viewers : \/ p \in ranges[v] /\ <<v, p>> \notin views
                               \/ <<v, p>> \in unviews}

\* The viewers of an entry are those that view it; without any there is no entry.
MeshViewersExact ==
  \A p \in MeshBlocks :
    IF Viewing(p) = {} THEN ~HasEntry(p)
    ELSE HasEntry(p) /\ meshes[p].viewers = Cardinality(Viewing(p))

\* "true while the block is queued in blocks_pending_update" (line 74), and it
\* is there once: no two tasks for one request, no request of a removed entry.
UpdateListExact ==
  \A p \in MeshBlocks : update[p] = IF HasEntry(p) /\ meshes[p].listed THEN 1 ELSE 0

\* Viewers, entries and the list stay in step.
MeshEntriesExact == MeshViewersExact /\ UpdateListExact

\* What is listed still has all its data when the tasks are made, although
\* the data may be paged in between: the data box follows the mesh box.
TasksHaveTheirData ==
  valid /\ step = "loaded" => \A p \in MeshBlocks : update[p] > 0 => Around(p) \subseteq resident

\* The terrain "requests mesh updates for blocks whose neighbour data is
\* resident" (lines 7-8): such a block, once viewed, is listed, has a task or
\* an output under way, or a mesh, whatever came first, viewer or data.
NoForgottenMesh ==
  \A p \in MeshBlocks :
    HasEntry(p) /\ Around(p) \subseteq resident /\ valid /\ p \notin panicked =>
      \/ meshes[p].listed \/ meshes[p].loaded
      \/ tasks[p] > 0 \/ BagIn(p, gathered)
      \/ \E o \in BagToSet(completed) \cup BagToSet(inbox) : o.pos = p

-----------------------------------------------------------------------------
(* Liveness.  Frames and workers go on; a block that stays wanted is       *)
(* loaded (TerrainPaging!InRangeGetsResident).                             *)

Fairness ==
  /\ WF_vars(Drain)
  /\ WF_vars(\E r \in [Viewers -> MeshRanges] : PairViewers(r))
  /\ WF_vars(\E p \in Blocks : UnloadData(p))
  /\ WF_vars(\E v \in Viewers, p \in MeshBlocks : UnviewMeshBlock(v, p) \/ ViewMeshBlock(v, p))
  /\ WF_vars(ProcessMeshing)
  /\ WF_vars(ApplyMeshUpdate)
  /\ \A p \in Blocks : SF_vars(LoadData(p))
  /\ \A p \in MeshBlocks :
       /\ WF_vars(CancelMeshTask(p) \/ GatherVoxels(p))
       /\ WF_vars(FinishMesh(p))

FairSpec == Spec /\ Fairness

\* A block inside the bounds that stays in range gets a mesh.
ViewedGetsMeshed ==
  \A v \in Viewers : \A p \in {q \in MeshBlocks : Around(q) \subseteq Blocks} :
    p \in ranges[v] ~>
      \/ HasEntry(p) /\ meshes[p].loaded
      \/ p \notin ranges[v] \/ ~valid \/ p \in panicked

=============================================================================
