----------------------------- MODULE TerrainNode -----------------------------
(***************************************************************************)
(* The Godot node VoxelTerrain, rust/voxel-gdext/src/terrain.rs: scripts   *)
(* edit voxels, each _process runs the paging frame of the core and turns  *)
(* the meshes it has into MeshInstance3D nodes.                            *)
(*                                                                         *)
(* The core is what MeshScheduling promises of it: a block that enters the *)
(* range of a viewer is scheduled in that frame, a result is for the entry *)
(* that is there when it is applied.  The data around the blocks is        *)
(* resident.  A mesh is known by the number of edits its voxels contained. *)
(***************************************************************************)
EXTENDS Integers, FiniteSets, Bags, BagsExt, FiniteSetsExt

CONSTANTS Blocks, NodeLods, \* block positions, and the indices of the LODs
          MaxEdits,         \* bound: edits of a block
          MaxMeshTasks      \* bound: mesh tasks under way when a frame adds more

VARIABLES inRange,    \* the places in the boxes of the viewers among the node's children
          voxelEdits, \* edits of the voxels of each block so far
          dirty,      \* dirty_blocks
          meshMap,    \* mesh_maps[lod]: the entry of each block
          tasks,      \* mesh tasks that have not gathered their voxels: a bag of places
          gathered,   \* mesh tasks that have: a bag of results
          results,    \* outputs of mesh tasks, in the pool: a bag
          instances   \* mesh_instances, by position alone

nodeVars == <<inRange, voxelEdits, dirty, meshMap, tasks, gathered, results, instances>>

Places == NodeLods \X Blocks
NoResult == [place |-> <<>>, surfaces |-> FALSE, edits |-> 0]
NoEntry == [viewed |-> FALSE, output |-> <<>>]
NewEntry == [viewed |-> TRUE, output |-> <<>>]
NoInstance == [lod |-> -1, edits |-> -1]

-----------------------------------------------------------------------------
\* VoxelTerrainCore::process

\* apply_mesh_update for the outputs in the pool, in any order: the last one of a place stays
LastResults(place) == {r \in BagToSet(results) : r.place = place}
Applied(m, last) ==
  [p \in Places |-> IF m[p].viewed /\ LastResults(p) # {}
                    THEN [m[p] EXCEPT !.output = <<last[p]>>] ELSE m[p]]
\* boxes of viewers move: entries go with their meshes, those that come are empty
Paged(m, viewed) ==
  [p \in Places |-> IF p \notin viewed THEN NoEntry ELSE IF m[p].viewed THEN m[p] ELSE NewEntry]

-----------------------------------------------------------------------------
\* INode3D::process

\* what is loaded is uploaded where the position has no instance yet, or is dirty; a mesh
\* without surfaces never is
Uploadable(m, p) ==
  {l \in NodeLods : /\ m[<<l, p>>].output # <<>> /\ m[<<l, p>>].output[1].surfaces
                    /\ p \in dirty \/ instances[p] = NoInstance}
\* LOD after LOD, each replacing the instance before
Uploaded(m) ==
  [p \in Blocks |->
     IF Uploadable(m, p) = {} THEN instances[p]
     ELSE LET l == Max(Uploadable(m, p)) IN [lod |-> l, edits |-> m[<<l, p>>].output[1].edits]]

Entering == {p \in inRange : ~ meshMap[p].viewed}

Process ==
  \E last \in [Places -> BagToSet(results) \cup {NoResult}] :
    /\ \A p \in Places : last[p] \in IF LastResults(p) = {} THEN {NoResult} ELSE LastResults(p)
    /\ Entering = {} \/ BagCardinality(tasks) + BagCardinality(gathered (+) results) < MaxMeshTasks
    /\ meshMap' = Paged(Applied(meshMap, last), inRange)
    /\ tasks' = tasks (+) SetToBag(Entering)
    /\ results' = EmptyBag
    /\ dirty' = {}
    /\ instances' = Uploaded(meshMap')
    /\ UNCHANGED <<inRange, voxelEdits, gathered>>

\* set_voxel_sdf: try_edit_voxel of the core is that of the data, so no mesh is scheduled
SetVoxelSdf(p) ==
  /\ voxelEdits[p] < MaxEdits
  /\ voxelEdits' = [voxelEdits EXCEPT ![p] = @ + 1]
  /\ dirty' = dirty \cup {p}
  /\ UNCHANGED <<inRange, meshMap, tasks, gathered, results, instances>>

\* a worker gathers the voxels of a mesh, of which coarser LODs have their own, and meshes
\* them: a surface or nothing
GatherVoxels(place) ==
  /\ BagIn(place, tasks)
  /\ tasks' = BagRemove(tasks, place)
  /\ \E surfaces \in BOOLEAN :
       gathered' = BagAdd(gathered, [place |-> place, surfaces |-> surfaces,
                                     edits |-> IF place[1] = 0 THEN voxelEdits[place[2]] ELSE 0])
  /\ UNCHANGED <<inRange, voxelEdits, dirty, meshMap, results, instances>>

FinishMesh(r) ==
  /\ BagIn(r, gathered)
  /\ gathered' = BagRemove(gathered, r)
  /\ results' = BagAdd(results, r)
  /\ UNCHANGED <<inRange, voxelEdits, dirty, meshMap, tasks, instances>>

\* viewers are moved, or more blocks come into their distance
MoveViewers(places) ==
  /\ inRange' = places
  /\ UNCHANGED <<voxelEdits, dirty, meshMap, tasks, gathered, results, instances>>

-----------------------------------------------------------------------------
Init ==
  /\ inRange = {} /\ voxelEdits = [p \in Blocks |-> 0] /\ dirty = {}
  /\ meshMap = [p \in Places |-> NoEntry]
  /\ tasks = EmptyBag /\ gathered = EmptyBag /\ results = EmptyBag
  /\ instances = [p \in Blocks |-> NoInstance]

Work == (\E p \in Places : GatherVoxels(p)) \/ (\E r \in BagToSet(gathered) : FinishMesh(r))

Next ==
  \/ Process
  \/ \E places \in SUBSET Places : MoveViewers(places)
  \/ \E p \in Blocks : SetVoxelSdf(p)
  \/ Work

\* Godot calls _process each frame, and the workers go on.
Spec == Init /\ [][Next]_nodeVars
             /\ WF_nodeVars(Process) /\ WF_nodeVars(Work)

-----------------------------------------------------------------------------
\* EditIsMeshed: set_voxel_sdf "triggers a re-mesh of the affected block on the next process
\* tick": a viewed block whose voxels were edited gets a mesh of the voxels as they are now,
\* unless it leaves the range before that.
EditIsMeshed ==
  \A p \in Blocks, n \in 1 .. MaxEdits :
    voxelEdits[p] = n /\ meshMap[<<0, p>>].viewed ~>
      \/ <<0, p>> \notin inRange
      \/ meshMap[<<0, p>>].output # <<>> /\ meshMap[<<0, p>>].output[1].edits >= n
=============================================================================
