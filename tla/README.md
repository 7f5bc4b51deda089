# Verification of godot_voxel

TLA+ modules, TLC configurations and TLAPS proofs for the Rust port of the
Godot voxel terrain module in `src/`. Paths are relative to
`src/rust/voxel-core/src/` unless they begin with `src/`.

`tlc -config X.cfg M` checks a run, `tlapm M.tla` a proof. `PROJECT.json` lists
the components, the runs, the mutants that show that each property can fail,
the source lines behind the definitions (a small helper without a row of its own
is within the lines of the definition that uses it), the hazards and the theorems.

Contents: 1 the system · 2 modules and plan · 3 the thread pool · 4 the save
journal · 5 terrain paging · 6 mesh scheduling and the node · 7 region files and
their stream · 8 the library run: machines · 9 the library run: functions · 10
what is proved · 11 findings · 12 observations · 13 what is only checked, and
what is not modelled.

## 1. The system

Two crates. `voxel-core` is the engine without Godot: storage, generation,
meshing, streaming and the terrain that drives them. `voxel-gdext`
(`src/rust/voxel-gdext/src`) exposes it as Godot classes. The terrain is owned
by one thread, which calls `VoxelTerrainCore::process` once per frame; it talks
to a pool of threads by tasks and their outputs and to everybody else by the
`SharedVoxelData` it has in common with its tasks, with the host and with
whoever edits.

```
 viewers -> process() --load, mesh, save tasks--> TaskRunner threads
              |   ^                                  |      |
              |   +--------- outputs (drain) --------+      v
              v                                         VoxelStream
        SharedVoxelData <---- gather / edit ---------       |
                                                       region files
```

### 1.1 Components with a protocol

| component | state | operations | what is hard | what makes it correct |
|---|---|---|---|---|
| Task runner `tasks/threaded_task_runner.rs` | staging list, queue, FIFO of postponed tasks, completed tasks, running count, serial gate, stop flag, permits, thread handles | enqueue, drain (with follow-ups), wait for all, resize, shutdown, drop; the worker loop | two locks and a semaphore; permits that do not match tasks; cancelled, postponed and panicking tasks; stop against work | no task lost or held twice, serial tasks exclude one another, no lost wake-up, waits and stops end |
| Save journal `terrain/voxel_terrain_core.rs` (save half), `streams/save_block_data_task.rs` | an entry per unsaved block: generation, queued, in flight, voxels | file an unload, dispatch, apply an output, shut down and flush | late outputs, failures that bring old voxels back, retries inside drains, panics | saves of a block never overtake; the newest voxels are held until stored; Ok from the flush means stored |
| Terrain paging `terrain/voxel_terrain_core.rs`, block map of `storage/voxel_data.rs` | paired viewers and boxes, loading refcounts, pending loads, blocks with viewers | pair viewers, view, unview, send loads, apply load outputs, edit | viewers, loads and edits in any order; failed and panicking loads; unload before the load ends | references are exact; viewed blocks get resident and stay, others leave; edits survive |
| Mesh scheduling `terrain/voxel_terrain_core.rs`, `meshers/mesh_block_task.rs`, `engine/meshing_dependency.rs` | mesh entries with viewers, update list, dependency flag | view, unview, schedule, make tasks, gather, mesh, apply, invalidate | last viewer or last of 27 data blocks first; entries removed while listed or meshed; LOD arithmetic | a viewed block with its data gets meshed, once per request |
| Terrain node `src/rust/voxel-gdext/src/terrain.rs` | dirty blocks, mesh instances | process, set a voxel | edits, results and frames in any order | what is seen follows the voxels |
| Region files `streams/region/` | header table, sectors, bytes on disk | open, create, save (in place, append, move), load, close | blocks that grow, shrink, move; failure or crash in the middle; header not sector-aligned | table, map and file are one layout; what was saved reads back |
| Region file stream `src/rust/voxel-gdext/src/streams.rs` | region files by region | load, save | region and slot arithmetic, formats that must fit | what was saved is found again |
| Shared voxel data `storage/voxel_data.rs`, spatial lock of `thread/mod.rs` | per-LOD maps, list of locked boxes | edit, view and unview areas, gather, insert | a block looked up, released, used; no order among waiters | intersecting writers exclude, nobody sleeps on a free box, edits are atomic |
| Voxel data `storage/voxel_data.rs`, `voxel_data_map.rs` | a map of blocks per LOD, their flags | edit, make coarser LODs, pregenerate, insert, save, unload, reset, paste, copy | flags that edits, saves and LODs share | an edit is in memory or handed over, coarser LODs follow as far as the flags let them |
| Voxel buffers `storage/voxel_buffer.rs` | channels, uniform or arrays | create, fill, set, copy, downscale, compress | uniform and array channels, clipping | reads as a plain grid |
| Stream tasks `streams/load_block_data_task.rs`, `save_block_data_task.rs`, `tasks/async_dependency_tracker.rs`, `engine/streaming_dependency.rs` | count, aborted flag, next tasks | complete, abort, take the follow-ups, invalidate | last completion, abort and failure race | follow-ups run once, after all, never after an abort |
| Locks `thread/mod.rs`, `io/file_locker.rs` | owner and depth; readers and writer of a path | lock, unlock | who is woken | exclusion, nobody sleeps on a free lock |
| Engine registry `engine/voxel_engine.rs` | generational slots, free list | add, remove, get, update | slot reuse, wrapping generation | a stale handle names nothing |
| LOD octree `terrain/lod_octree.rs` | tree of packs of nodes, free list | update by distance, subdivide, merge | recycled packs | no pack in use twice, what is shown is the leaves |
| Memory pool `storage/voxel_memory_pool.rs` | blocks per size class, counters | allocate, recycle, clear | accounting over threads | one owner per block, counters settle |

### 1.2 Components that are functions

| component | what it computes | what makes it correct |
|---|---|---|
| Mesh gathering `meshers/mesh_block_task.rs` | the padded buffer of a mesh from 27 blocks | each cell holds the voxel of its place |
| Smooth meshers `meshers/transvoxel/` | cells of eight samples, seams between LODs | no holes |
| Cubes mesher `meshers/cubes/` | faces, one by one or merged | a face exactly between air and solid |
| Blocky mesher `meshers/blocky/`, `constants/cube_tables.rs` | libraries of models, meshes of ids | what is hidden is left out, nothing else |
| Generators `generators/` | ground of heights, noise, images | the same voxel from every block |
| Graph generator `generators/graph/` | graphs interpreted, compiled, skipped by range | all ways agree |
| Interval arithmetic `math/interval.rs` | ranges of functions | has all values |
| Edition and modifiers `edition/`, `modifiers/` | rays, shapes, stacks of shapes | the first voxel hit, the voxels inside |
| Block serialization `streams/block_serializer.rs`, `compressed_data.rs`, `instance_data.rs`, `io/serialization.rs`, headers of `streams/region/` | bytes | read back as written, damage noticed |
| Vox format `format/vox/` | scenes from chunks | read back as written, references lead somewhere |
| Expression parser `string/expression_parser.rs` | trees from text | precedence, printing and folding keep values |
| Integer geometry `math/box3i.rs`, `ortho_basis.rs`, `vector3.rs`, ... | boxes, rotations, indices | boxes are sets of cells |
| Task priorities `tasks/task_priority.rs`, `engine/priority_dependency.rs` | packed priorities | bands and distance order tasks |

### 1.3 Assumptions about what is outside

The operating system gives a thread that can go on a turn; mutexes, condition
variables and semaphores do what their documentation says. Files behave as a
sequence of bytes; an operation is done wholly or not at all. Streams,
generators and meshers are host code: they return, fail or panic.

## 2. Modules and plan

| module | models | extends or instantiates |
|---|---|---|
| `TaskPool` | what the pool promises | |
| `TaskRunner` | the pool; implements `TaskPool` | `TaskPool` |
| `TaskRunnerProofs` | theorems about `TaskRunner` | `TaskRunner` |
| `WriteBack` | what saving on unload promises | |
| `SaveJournal` | journal, save tasks, shutdown; implements `WriteBack` | `WriteBack` |
| `SaveJournalProofs` | theorems about `SaveJournal` | `SaveJournal` |
| `TerrainPaging` | data paging, loads, edits, composed with the journal | `SaveJournal` |
| `TerrainPagingProofs` | theorems about paging | `MCPagingViews` |
| `ViewerBoxes` | the boxes of viewers and the slabs in which they differ | `Boxes` |
| `MeshScheduling` | mesh entries, tasks and outputs over resident data | |
| `MeshSchedulingProofs` | theorems about `MeshScheduling` | `MeshScheduling` |
| `TerrainNode` | the frame of the Godot node, its edits and instances | |
| `RegionFile` | one region file, with crashes | |
| `RegionFileProofs` | theorems about `RegionFile` | `RegionFile` |
| `RegionStream` | regions and slots, what files accept | |
| `SharedVoxels` | block maps under spatial locks, several LODs | |
| `SharedVoxelsProofs` | theorems about `SharedVoxels` | `SharedVoxels` |
| `StreamTasks` | load and save tasks, tracker, stream dependency | |
| `Locks`, `EngineRegistry`, `LodOctree`, `MemoryPool` | as their names say | |
| `EngineProofs` | theorems about locks, stream tasks, registry | `Locks`, `StreamTasks`, `EngineRegistry` |
| `VoxelData`, `VoxelMaps` | the volume and its LODs; pastes and copies over blocks | |
| `StorageProofs` | theorems about volume, pool and buffers | `VoxelData`, `MemoryPool`, `VoxelBuffers` |
| `VoxelBuffers`, `BufferRegions` | buffers; clipping and regions | |
| `MeshGather` | padded buffers | `Boxes` |
| `Transvoxel` | smooth meshes, with the tables of the code | |
| `CubesMesher`, `BlockyMesher` | the other meshers; tables of the cube | |
| `GraphRuntime`, `Generators`, `Intervals` | what generates, and ranges | |
| `Edition`, `ExpressionParser`, `ByteFormats`, `VoxFormat` | as their names say | |
| `Boxes`, `Rotations`, `Priorities` | geometry and priorities | |
| `MCTaskRunner` | constants and symmetry of its runs | `TaskRunner` |
| `MCPagingViews` | two instances of paging in one run | `TerrainPaging` |
| `MCFunctions` | inputs of the functions | the modules of section 9 |
| `MCLibrary` | machines side by side | `RegionFile`, `Locks`, `StreamTasks`, `EngineRegistry`, `SharedVoxels`, `VoxelData`, `MemoryPool`, `VoxelBuffers` and, as an instance, `LodOctree` |

How the modules meet: the paging module shares its variables with the journal
(`J == INSTANCE SaveJournal`): an unload is `J!EnqueueDataSave`, the save tasks
are `J!SaveStep`, and one drain of the frame takes the outputs of both.
`SaveJournal` takes from the pool only that serial tasks run one at a time
(`GateExact`, proved) and that tasks settle (`EveryTaskSettles`, checked).
`MeshScheduling` takes from `TerrainPaging` that a block is resident from a load
on while somebody wants it, and that wanted blocks get resident
(`ViewedGetsResident`, checked). Both take what a frame views and unviews as sets
of blocks; `ViewerBoxes` shows that boxes, LODs and slabs of the code come to
that. `TerrainPaging` takes each look at a block map as one step; `SharedVoxels`
has the locks and the steps between a look and a write. `TerrainNode` takes from
`MeshScheduling` that what enters the range gets a task and that results are
applied in any order.

Plan. All components with a protocol are modelled, and the functions whose
values are integers or can be told apart by them. Each protocol that meets others
(pool, journal, paging, meshing) has its safety properties proved, and so have the
machines of section 8 except the octree and the buffers. Modules that are proved
about declare no RECURSIVE operator.

## 3. The thread pool: `TaskRunner`

State. `staged` is the staging list with its lock, `tasks`, `spinning`,
`completed`, `runningCount`, `serialRunning`, `preferPostponed` and `stopping`
are `RunnerState`, `permits` is the work semaphore. Each worker has a program
counter `wpc` and the task `wtask` it holds, each client (`cpc`, `cbatch`) the
half of its call that is still to come, the owner `opc`. `fresh`, `drained`,
`gone` and `ran` are history: where tasks come from and go to.

Actions. One per critical section: `Enqueue` and `PostBatch` are the two halves
of `enqueue`/`enqueue_many`; `Drain`, `PushFollowUps`, `PostBatch` the steps of
`drain_completed_tasks_and_enqueue_followups`; `BeginWait` and `RecheckWait` the
looks of `wait_for_all_tasks`. A worker does `TakePermit`, then either
`ExitStopping` or, in one section, moves the staged tasks, may refresh (which
takes out cancelled tasks and notifies) and picks: `PickPrioritized`,
`PickPostponed`, `PickNothing`; `PanicInRefresh` kills the thread. Then
`SkipCancelled` or `StartRun`, one of the three outcomes, and `PostWork`. The
owner's actions are `set_thread_count`, `shutdown` (a resize to none) and `drop`.
Owner operations need the runner exclusively, so they never overlap a client.

Abstractions. The queue is a set, since a refresh asks every task for its
priority again and any order can come out: whatever holds here holds for every
priority function. The 32 ms between refreshes is a choice.

Runs.
* `pool_safety` (236 276 states): two workers, two clients, a serial task, a plain
  task that may panic in the refresh, a serial follow-up of the plain one, two
  cancellable tasks, every thread count, drop. Two workers and two serial tasks
  are what it takes to race for the gate, two clients to overlap a post with a
  wait and a drain; the follow-up enters the pool through a drain. Symmetric in
  workers and clients. It checks the gate and the count (`GateExact`: the flag is up
  exactly while one serial task is held, `running_count` is the number of tasks
  held), that a task is in one place (`Conservation`), that every task that may run
  has a wake-up on its way and that a resize or a shutdown stops its threads over an
  empty pool only (`NoLostWakeUp`), that nobody sleeps in a wait over an
  idle pool (`NoForgottenWaiter`), and that each step is a step of `TaskPool`
  (`ImplementsPool`).
* `pool_live` (54 576 states, one client, no panics in the refresh): liveness,
  without symmetry. `n1` may postpone itself for ever.

Fairness. Weak for every thread that can go on (the OS) and for the permit
(one of those waiting gets it); strong for the completion of tasks that are not
spinners: `run()` may postpone a task now and then but not for ever. Nobody is
obliged to enqueue, cancel, drain or wait. Deadlock is not checked: a pool at
rest, or dropped, may stop.

What the properties leave out: `EveryTaskSettles` excepts spinners, and the
runs have no serial spinner; with a serial and a plain one the alternation can
meet a shut gate every time and a serial task in the queue waits for ever. A
runner without threads never finishes a wait over a pending task, which may be
called misuse. A panic of `priority()` or `is_cancelled()` in the refresh (line
315) kills the worker with the task still in the queue: safety holds
(`pool_safety` has it), waits may stall.

## 4. The save journal: `SaveJournal`

State. `journal[k]` is the `SaveJournalEntry` of block `k` (`NoEntry` without);
voxels are named by the generation under which they were filed. `queue`,
`running`, `completed` are the save tasks in the pool, `inbox` the outputs that
one call of `drain_completed_tasks` still has to apply, `stored` the stream.
`phase`, `attempt`, `result`, `unsaved` are the locals of `shutdown_and_flush`.
`newest` and `lost` are history; `errors` counts towards a bound.

Actions. `EnqueueDataSave` files an unload and dispatches at once when nothing
is in flight. `StartSave`; then `SaveSucceeds`, `SaveFails` (a failing write may
have been done: `ErrorsMayStore`) or `SavePanics`. `DrainCompletedTasks` and
`ApplySaveResponse` are the frame. `BeginShutdown`, `DispatchQueuedSaves` (the
loop before the wait), `DrainAfterWait`, the applies, `NextAttempt`, `Flush`,
`ReportUnsaved` and `StopPool` are `shutdown_and_flush`, whose retry bound is a
parameter.

Run `journal` (19 988 states): two blocks, three unloads, two errors, a panic, two
attempts of shutdown instead of 8. Three generations let a block be filed again
while its save is in flight and again while it fails; two errors exhaust the
two attempts. `OneSavePerBlock` says that no two saves of a block are under way,
`NewestIsHeld` that the last voxels are in the entry, with the task or in the
stream, `NothingIsStranded` that voxels waiting in an entry wait for an output
that will dispatch them; `ImplementsWriteBack` is the refinement,
`EveryUnloadIsSaved` and `ShutdownReturns` liveness. Fairness: weak on the frame,
on the tasks (from the pool) and on shutdown; the bound on errors says that the
stream recovers. Deadlock is not checked: a closed terrain stops.

The dispatch loop of `shutdown_and_flush` (lines 323-326) turns out never to have
anything to do: every save that may be dispatched has been, when it was filed or
when an output was applied. The proof has this as `AllDispatched`.

A save that panics keeps its entry in flight for ever: later unloads of the
block wait in the entry and shutdown reports the block. `FlushIsComplete` and
`UnsavedIsJournaled` (proved) hold with it, `EveryUnloadIsSaved` excepts it. The
other direction of the report does not hold: the last drain may dispatch a retry
that succeeds during `runner.shutdown()`, after `UnsavedBlocks` was counted (341).

## 5. Terrain paging: `TerrainPaging`

State. `blocks[p]` is the block in the map of the LOD with its viewers, the
edits its voxels contain and the modified flag; `loading`, `pending` are
`loading_blocks` and `blocks_pending_load`; `requests`, `results`, `loaded`,
`loadInbox` follow load tasks from the pool to the apply; `ranges`, `unviews`,
`views`, `step` are the frame. `stranded` is history: the entries of `loading` whose last
load has panicked. The journal is that of section 4, without
shutdown and panics.

Actions. `Drain` (three per frame), `PairViewers`, `Unview` and `View` per
viewer and block in the order of the code (all unviews first),
`SendDataLoadRequests`, `ApplyLoaded`, `ApplyDropped`, `ApplyNotFound`,
`ApplySaveResponse`, the reads of a load task (found, generated, not found,
failed) and its completion as two steps, `LoadPanics`, `SaveStep`, and `TryEditVoxel` by any
thread at any time. The window inside `try_edit_voxel` between look-up and write
is not split here: `SharedVoxels` does.

Runs.
* `paging_views` (202 111 states): two instances on the same variables, chosen by the
  first state. In `views` two blocks, two viewers whose boxes nest, two load tasks
  of a block at a time, so that a block that leaves and comes back has two loads
  under way, of which one may panic: references are exact (`ViewersExact`), a referenced
  block stays (`ViewedStays`), blocks in range get resident (`ViewedGetsResident`) and blocks
  out of range leave (`UnviewedIsUnloaded`). In `edits` one block, no generator,
  streaming off, two edits and two unloads, one failing load: edits make blocks
  under loads. In both, `EditsAreKept` says that no load overwrites an edit and
  `LoadUnderWay` that a waiting viewer has a load.

  A load whose stream or generator panics has no output: the pool takes the task
  out, and the entry it should answer stays. While another load of the block is
  under way, that one answers; if it was the last, later viewers are only added to
  the count (551-554) and nobody asks again, until all of them have left.
  `LoadUnderWay` and `ViewedGetsResident` except exactly these entries (`stranded`), by
  the panic that ends the last load and not by the wait that comes of it: every other
  wait without a load is a violation.
* `paging_retry` and `paging_stale`: findings, section 11.

`RetryWeight` and `RetryCap` have the values of the code, 100 and 1000.
`MaxLoadTasks` makes the frame wait while too many loads are in the pool, which
the code does not do; the orders that matter show up with two. Fairness: weak
on the steps of the frame and on tasks, strong on the successful read of a
load, with which a failing one competes: the stream recovers (`MaxLoadErrors`).

`ViewerBoxes` is the part of the frame before views and unviews: pairing by id,
limits on distances, the boxes of each LOD, `difference` into six slabs. It is a
function and part of section 9 (`GeometryExact`).

## 6. Mesh scheduling and the node: `MeshScheduling`, `TerrainNode`

State of `MeshScheduling`. `meshes[p]` is the `MeshBlockEntry` (viewers,
`is_in_update_list`, `is_loaded`), `update` the list of blocks to update as a
count per position, `tasks`, `gathered`, `completed`, `inbox` follow mesh tasks,
`valid` is the dependency. Of the data only residence is kept.

One axis instead of three: a mesh block needs the data blocks at distance at
most one (three here, 27 in the code), data boxes are mesh boxes padded by one
and the arithmetic of each axis is the same. One LOD at a time, with
`LodStride` = 2^lod; `LoadData` computes the mesh blocks to schedule with the
units of the code (`MeshesAround`).

Actions. The frame as in section 5, `ViewMeshBlock`, `UnviewMeshBlock`,
`UnloadData`, `LoadData` in any of the drains, `ProcessMeshing` (the whole list
becomes tasks), `ApplyDropped` and `ApplyMesh`; in the pool `CancelMeshTask`
(the pool drops a task whose dependency is invalid, without output),
`GatherVoxels` (under one lock of the map), `FinishMesh` (dropped if the
dependency was invalidated meanwhile), `MesherPanics`; and `Invalidate` by the
host.

Run `mesh_views` (106 236 states): two viewers with boxes {}, {1}, {0, 1}, one of
which touches the border, up to two tasks of a block, an invalidation, a panic.
Two viewers are needed for an entry that one leaves while it is listed, the
border block for one that never gets its data. `MeshEntriesExact` relates
viewers, entries and list, `TasksHaveTheirData` says that what is listed still
has its data when its task is made, `NoForgottenMesh` that whichever of viewer
and data comes last schedules the mesh, `ViewedGetsMeshed` that it is made.
`MaxMeshTasks` delays the frame as `MaxLoadTasks` does. Fairness: weak on frame
and tasks, strong on loads. A mesher that panics gives no output, so its block
stays unmeshed until another viewer comes: `NoForgottenMesh` exempts it.
`mesh_lod` is a finding.

`TerrainNode` is `VoxelTerrain` in `src/rust/voxel-gdext/src/terrain.rs`: `Process`
is its frame (the core applies results and pages, then what is loaded is
uploaded where the position has no instance or is dirty), `SetVoxelSdf` the edit,
`MoveViewers` the scene. A mesh is known by the number of edits its voxels had
when they were gathered. Its run `node_edits` is a finding. Fairness: weak on the
frame, which Godot calls, and on the workers.

## 7. Region files and their stream: `RegionFile`, `RegionStream`

State. `file` is the bytes behind the last whole sector of the header, `diskLut`
the table on disk, `lut` and `sectors` the table and reverse map of the handle,
`pc` and `op` the save under way. A byte of a block is a triple of block, save
and index, so that a byte of another block or save is told apart.

Actions. Each file operation of `save_block` is a step: `ShiftTail` (the blocks
behind), `CutFile`, `WritePrefix`, `WritePayload`, `PadAndRegister`,
`WriteHeader`; `RegisterFails` is a save of more than `MaxSectorCount` sectors,
which fails after the move, as in the code. `Crash` between any two steps keeps
the file and loses the handle; `Open` rebuilds the map or refuses the file;
`Close`.

In the run `library` (`FileReadsBack`): three blocks, sectors of three bytes behind a
header that ends one byte into a sector (`HeaderTail = 1`), blocks of 2, 4 and 7 bytes in
one, two and three sectors of which three are too many, four saves, a crash. Three
blocks are what it takes to move two behind a third; four saves grow and shrink one
between others. The values of the code are 512 and, for the default format, 16404 = 20
modulo 512: like here the header ends inside a sector. `pad_to_sector_size` counts sectors
from the beginning of the file, so that between saves the file may be short of the end of
the last sector by the header's tail. A block that leaves that many bytes of its last
sector free (`LeavesRoom`; 20 of 512 for the default format) loses nothing by it, and the
property is about these; one that fills them is what `region_tail` loses. After a failed
save only the blocks in front of the failed one are required to read back (`AtRisk`,
`Forgotten`), after a crash only that table and map are one layout: a crash while blocks
are moved leaves a table that does not describe the file (section 12). Both statements are
proved for any header (`RegionFileProofs`, section 10).

`RegionStream` is the stream over such files: which file and slot a block goes
to, what `verify_block` accepts, what a load answers. Its run `region_stream` is a
finding.

## 8. The library run: machines

Nine parts of the library keep to themselves. One run, `library` (509 776 states),
checks them all: the first state of a behaviour chooses one machine (`on`), whose
variables then move while those of the others stay in one initial state, so that
the states of the machines add up and do not multiply. A property of a machine
that has its own specification (`LocksSpec`, `SharedSpec`, ...) is checked as the
definition that the theorems of section 10 are about. Deadlock is not checked:
each machine is bounded and may stop.

| property | machine and instance | what it says |
|---|---|---|
| `FileReadsBack` | `RegionFile`, section 7 | blocks written long ago read back; while one is appended or written in place, the table on disk finds all others; table, map and file are one layout |
| `SharedVoxelsExact` | `SharedVoxels`: one editor, one gatherer, the terrain; two LODs, two positions, three operations | regions that intersect exclude each other and the lock has exactly the entries of the threads inside (`RegionsExclude`); who sleeps is kept out by an entry (`NoForgottenLocker`); an edit finds what it saw before it generated (`EditFindsWhatItSaw`) and is in the block or handed over (`AckedEditIsKept`) |
| `BatchSettles` | `StreamTasks`: two savers, a load, a stream that may panic, a client that sets, aborts, cancels and replaces | follow-ups run at most once and after all (`FollowUpsRunOnce`), a flush covers the batch, no save ends in silence unless its stream panicked |
| `HandlesNameTheirEntry` | `EngineRegistry`: two slots, two generations, five entries | a handle names its own entry until the generation wraps; free indices are the empty slots, each once |
| `OctreeExact` | `LodOctree`: two axes, two levels below the root, three places of a viewer | the client shows the leaves; packs are in use once; a query by box finds its leaves |
| `BlockingLocksExact` | `Locks`: three threads, a file, guards two deep | guards and lock states agree; nobody sleeps on a lock he could have |
| `PoolExact` | `MemoryPool`: two threads, blocks of 1, 2 and (oversized) 3 bytes, counters that wrap at 16 | no two callers have one block, an idle block is in the bucket of its size, counters settle between calls |
| `VolumeExact` | `VoxelData`: three LODs of two-voxel blocks, eight voxels, four operations | an edit is read where its block is resident and saved unless marked; a block that needs its LODs updated is listed; reads of voxels and areas agree |
| `LodsFollow` | the same | a pass of `update_lods` takes the voxels of each block it is given to LOD 1 and 2, unless a parent on the way cannot be had or was flagged before, and the coarser LODs change in nothing else |
| `BuffersReadAsWritten` | `VoxelBuffers`: two buffers of two by one or two voxels, three writes | a buffer reads as a plain grid whatever is uniform, allocated or compressed |

In a volume that does not stream, blocks are made without asking the stream: by
`pre_generate_box` while a full load is under way, and by `try_set_voxel` after
`unload_blocks`. A block so made hides what the stream has of it, and handing it over
overwrites that. `hidden` is history: the edits this happened to. `VolumeExact` asks of them
that the stream still has them, and nothing after the overwriting; of a streaming volume
that there are none. Section 12 has both ways.

The smallest instances that meet the cases: two threads that ask for
intersecting regions and a third that waits for both; two savers for a last
completion that races an abort; two slots and five entries for a slot that is
used again after its generation wrapped; three threads for a waiter that is
overtaken after it was woken.

## 9. The library run: functions

A function has no steps: the first state chooses one, the next an input from
`MCFunctions` and nothing follows. The reference definition is stated over sets
of cells, of edges or of values, next to the function in its module.

| property | functions | reference |
|---|---|---|
| `CopiesAreExact` | pastes and copies with masks (`VoxelMaps`), padded buffers of meshes (`MeshGather`), rays, shapes, random ticks, modifier stacks (`Edition`) | what each cell holds, cell by cell; the nearest solid voxel among all on the ray |
| `GeometryExact` | boxes (`Boxes`), viewer boxes, LODs and slabs (`ViewerBoxes`), rotations (`Rotations`), packed priorities (`Priorities`) | sets of cells; the count of every block over frames; the group of rotations; order by kind, LOD and distance, and dropping by distance |
| `SurfacesAreClosed` | smooth meshes and seams (`Transvoxel`), faces (`CubesMesher`) | each edge inside the block belongs to two triangles, once in each direction; a face exactly between air and solid |
| `ModelsAreMeshed` | baking and meshing of models (`BlockyMesher`) | what of a side stays visible, on a raster of cells |
| `GraphsAreExact` | interpreted, compiled and skipped graphs (`GraphRuntime`), generators (`Generators`), ranges (`Intervals`), parser, printer and folding of expressions (`ExpressionParser`) | the value of the graph; the ground voxel by voxel; all values of a range; the expression and its value |
| `FormatsReadBack` | blocks, instances, region headers and entries (`ByteFormats`), scenes (`VoxFormat`) | what was written; references lead somewhere; what is cut is noticed |

Numbers with a fraction are integers at a fixed scale where the code's are real;
square roots, angles and noise are tables. Bytes have 14 values instead of 256
(`ByteBase`), so that lengths of two and three bytes occur. Inputs the code gets
wrong, section 12, are left out by name: `Tame` and `RangesAreOrdered` for graphs,
`IsTurned` for models that are not turned to one side, `IsDeep` for blocks far below
a heightmap.

## 10. What is proved

All proofs are for arbitrary values of the constants, under the named
assumptions of the modules (`TasksAssumption`, `JournalAssumption`, `PagingAssumption`,
`MeshAssumption`, `LocksAssumption`, `StreamTasksAssumption`, `RegistryAssumption`,
`SharedAssumption`, `RegionAssumption`, and for `StorageProofs` `DataConstants`,
`PoolConstants` and `BufferConstants`, of which `StorageAssumption` says that the instances have them), which the
runs evaluate. Each theorem is `Spec => []P`, an action property or a
refinement; an invariant that is not inductive is proved from one that is and
that TLC checked first.

`TaskRunnerProofs`.
* `TypeCorrect`: types, in particular that permits and `running_count` are never
  negative. `TypeOK` is not inductive: a report may put the task a worker holds
  anywhere, so that it must be a task. `TypeInv` adds `WorkersAccounted`: a busy
  worker holds a task, and only handles have threads.
* `GateIsExact`: the gate. `GateInv == TypeInv /\ GateExact`, whose two parts need each
  other: the pick shuts the gate and counts, the report opens it and counts
  back; every other step leaves the set of busy workers alone. The count moves
  by one with the cardinality of that set, by the facts on finite sets.

* `TasksAreConserved`: `PlaceInv == GateInv /\ InOnePlace /\ CallsExact /\ OwnerAlone`.
  `InOnePlace` is what `Conservation` says of staging, queues, workers and ends.
  It is not kept alone: a drain hands over the follow-ups of the tasks it took,
  so that those must still be fresh (`CallsExact`: a batch in a client's hands is
  nowhere else), and a drop discards the queue, so that no client may be in a
  call (`OwnerAlone`).
* `WaitersAreTold`: `NoForgottenWaiter`. A wait is notified by the section that
  makes the pool idle; the steps that could make it idle without notifying are
  those in which a worker is still busy, so that its report comes.
* `WakeUpsSuffice`: `NoLostWakeUp` for any number of threads and tasks.
  `WakeInv == PlaceInv /\ StopsWhenDone /\ Enough`. `Enough` counts wake-ups (permits,
  posts still to come and workers that will look again) against queued tasks twice:
  once for plain tasks, and once, while the gate is open, with the serial ones,
  staged or queued, because a worker that opens the gate over empty queues posts
  nothing for those still staged, whose client has a post to come. `StopsWhenDone` is
  needed because threads that exit on `stopping` consume permits: they do so only
  when nothing is left to do, which is also the second half of `NoLostWakeUp`.
* `PoolIsImplemented`: every run of the runner is one of `TaskPool`. The mapping sends a
  task to its phase (`PhasesTell`); every step moves tasks on through the phases of one
  handover, pick, report or drain (the `Onward` lemmas) or leaves all where they are,
  and waits end in states that are idle for `TaskPool` too (`IdleIsQuiescent`).

`SaveJournalProofs`. One inductive invariant, `JournalInv`: entries carry the
last generation (`EntriesAreNewest`), tasks and outputs are those in flight
(`TasksAreInFlight`, `OutputsAreInFlight`), no block has two saves
(`Exclusive`), the newest voxels are held somewhere, queued voxels wait for a
save (`WaitsForItsSave`), everything that may be dispatched is
(`AllDispatched`), and a finished shutdown has no entries left
(`ShutdownIsFinal`). The guard of `apply_save_response` on the generation is never
the one that saves the day: `Exclusive` shows that an output is always that of
the save in flight. From `JournalInv` follow
* `JournalTypeCorrect`, `SavesDoNotOvertake`, `NothingUnsavedIsForgotten`,
  `NothingWaitsForEver`, `NewestVoxelsAreHeld`, `FlushSavesEverything`,
* `StreamOnlyAdvances`, an action property: only a task stores, and its
  generation is not older than what is stored,
* `JournalImplementsWriteBack`: the refinement of `WriteBack`. An unload maps to
  `Unload`, a store to `Persist`, the end of shutdown to one of the two closes,
  everything else to a stutter.

`TerrainPagingProofs`.
* `TypeCorrect`: types of paging composed with the journal, in particular that no
  refcount goes below zero.
* `AcknowledgedEditsAreKept`: `EditsAreKept`, with or without generator and streaming.
  `KeptInv == TypeOK /\ FiledAreNew /\ UnmodifiedIsFiled /\ AckedIsKept`: a load replaces no
  resident block, an unload files its voxels under a generation that nothing was
  filed under (`FiledAreNew`), and a block that is not marked has no edits that are
  not filed (`UnmodifiedIsFiled`).
* The references, under `HasGenerator` and `StreamingEnabled`:
  `PagingInv == TypeOK /\ FrameExact /\ OutputsExact /\ CountsExact`. `FrameExact` says, as in
  meshing, that what the frame has still to view or unview is counted nowhere or
  everywhere; `CountsExact` that what a count has beyond the viewers referencing its block
  is a multiple of the weight of a retry, nothing while no load failed, and that a
  resident block is not counted as loading; `OutputsExact` that loads are dropped only
  after errors. A load that panics changes no count. From it `ReferencesAreExact`, `ReferencedStays` (an action property),
  `WaitedLoadsAreUnderWay` (with `GivenUp`: a missing block that is waited for and not under
  way has retries for at least the cap, unless its last load panicked; under `WeightsFit`,
  section 12) and the two that
  name the properties of the run, `ViewersAreExact` and `ViewedBlocksStay`. Without a
  generator or with streaming off the counts are not exact, by the observation on refused
  loads in section 12: these theorems have no weaker hypothesis to be proved under.

`MeshSchedulingProofs`. `MeshInv == TypeOK /\ FrameExact /\ MeshEntriesExact /\
DroppedForAReason /\ ListedHaveData`: what a frame still has to view or unview is in or
out of the boxes (`FrameExact`), so that a view adds a viewer that was not counted
and an unview removes one that was; a dropped output means the dependency is
invalid (`DroppedForAReason`), so that as long as it is valid only blocks with all
their data are listed, or such whose data this frame unloads
(`ListedHaveData`), which the frame unviews before it makes tasks: the data box
pads the mesh box. From it
* `EntriesAreExact`, `TasksFindTheirData`, for any viewers, boxes and LOD,
* `NoMeshIsForgotten` under `LodStride = 1`, a hypothesis that `mesh_lod` shows to be
  necessary.

`EngineProofs`.
* `LocksAreExact`: `BlockingLocksExact` for any threads and paths. `LocksInv` relates guards and
  locks (`MutexExact`, `FileExact`: the count of readers is the number of threads that have a
  guard), needs that a thread that asks for a file has no guard of it (`OneFileGuard`: the
  locks of files are not recursive) and that sleepers are in the middle of a call
  (`SleepersAsk`), so that `NoLockIsSleptThrough` survives every unlock whichever sleeper it wakes:
  of a mutex one at most goes in, of a file all are woken.
* `BatchesSettle`: `BatchSettles` for any savers and loads, in every order of completions,
  failures and abort. `BatchInv`: whoever flushes or holds follow-ups knows that the batch is
  over (`SaveExact`, `FlushedIsOver`), one save took them (`OneTaker`), and after an abort
  there are none (`AbortedHasNone`).
* `HandlesAreExact`: `HandlesNameTheirEntry` for any number of slots and of generations (2^32 in
  the code, 2 in the run). The generation of a slot is one more than its removals, modulo
  `Generations` (`Wrapped`); two handles of a slot with one generation are then a
  multiple of `Generations` removals apart (`SameGenerationIsFar`).

`SharedVoxelsProofs`.
* `SharedVoxelsAreExact`: `SharedVoxelsExact` for any editors, workers, LODs, positions and block
  size. `LockInv`: entries that intersect both read (`EntriesExclude`), and each entry is there as
  often as threads are inside with it (`EntriesAreHeld`). The count is what makes `unlock` right:
  it removes the first entry that is equal, which may be another thread's, and fills the gap with
  the last (`SwapRemoveIs`, `SwapRemoveCounts`). `SharedInv` adds the maps: an editor between its look
  and its write has a region for writing, the region of a view, an unview, a load or another edit
  that would add or take its block intersects it (`BoxesMeet`, by the products of block positions
  and block size), so that nobody is inside (`EditUndisturbed`); a block that is not there has no edits
  that a load could overwrite (`AbsentIsClean`).

`RegionFileProofs`. The table and the bytes have an invariant each.
* `LayoutIsExact`: `LayoutExact`, and `RegionTypeCorrect`, for any blocks, sizes, sector size and
  header. `LayoutInv`: the reverse map gives each sector to the block whose run it is in
  (`Layout`); the plan of the save under way fits what the table has (`OpExact`); the table on disk
  is the table of some map (`Contiguous`), which is what `rebuild_sectors` needs after a crash to find
  the map again by rank (`RebuiltIsExact`); and a block that memory has and the header does not is
  the one being saved, while the others keep the order they have on disk (`Derived`). The cut
  (`CutRuns`, `CutLayout`) moves the runs behind it by as many sectors as it takes out of the map.
* `BlocksReadBack`: `FileReadsBack`, byte for byte, for any header and so for the default format
  too, of the blocks that leave room for the header's tail in their last sector. `BytesInv` says for
  every step of a save what the file holds of every such block (`BytesKept`): between the shift and
  the cut the bytes are already where the table will say only after the cut (`CutTable`), and from then
  on all blocks but the one being saved are in place. `OnDisk` says which entries the header already
  has, which is what a reader of the disk sees and what a failed save leaves: all but those of
  `AtRisk`. `Written` carries the bytes of the save under way to the header. `LongEnough` is about the
  length of the file, which where the header ends inside a sector is not that of its sectors: between
  saves it is short of them by the tail at most, and ends between a multiple of the sector size and
  the end of a sector (`Whole`). So a cut takes the sectors that moved and at most the tail of the last
  one left, which the blocks concerned leave free, and a save in place is within the file. Without
  the room the statement is false: `region_tail` loses a saved block that fills its last sector. Of
  such blocks `LayoutIsExact` still holds.

`StorageProofs`.
* `VolumeIsExact`: `VolumeExact` for any LODs, block size, points and values, under
  `DataExtent % BlockSide = 0`. `DataInv == DataTypeOK /\ EditsAreKept /\ NoForgottenLodUpdate /\
  EmptyIsUnedited`. Types are needed of LOD 0 only; of the cascade it is enough that
  `update_lods` leaves the voxels of LOD 0 alone and clears exactly the flags it was given
  (`LodPassFacts`). `EmptyIsUnedited` says that a block that is resident without voxels has no
  edits, so that giving it voxels hides none; in a volume that streams only such blocks are given
  any, hence its `hidden` is empty. In one that does not, `hidden` grows by what a new block
  conceals, and that is still in the stream. The agreement of `get_voxel` and `copy` is
  not an invariant of its own: both are shown to be the same function of the maps
  (`ReadsFacts`), and that an area `is_area_loaded` accepts can be edited follows from what floor
  division does at its ends (`LoadedFacts`). The hypothesis is about the
  reads; without it the last block reaches over the bounds, `copy` reads its voxels there and
  `get_voxel` gives the default. `EditsSurvive` is the rest, for any extent. Of the
  LODs above 0 nothing is proved but the flags; `LodsFollow` is checked.
* `PoolIsExact`: `PoolExact` for any threads, bucket sizes, requests and number of blocks.
  `PoolInv == PoolTypeOK /\ PlacesApart /\ CountersFollow`. Between the steps of a call the counters
  lag: `CountersFollow` says which blocks each of them counts at any time (`Counted`, `Weighed`,
  `Live`), as sums modulo `CounterLimit`, where they wrap. When all calls have returned these are
  the blocks that are out, and all; that the counters then are the sums and not only congruent to
  them takes `MaxAllocs * Largest < CounterLimit`: the bytes of all blocks fit a counter (64
  bits in the code). `PoolBlocksApart` is the half about places, without it.
* The counters are sums over sets, `FoldSet`, a recursion over the subsets of a set, and the
  buckets are powers of two, a recursive function. The induction rules of the library cannot be
  used, but that every set of naturals that is not empty has a least element (`LeastNatural`, from
  `NatLessThanWellFounded`) can: a solution of the recursion exists and two of them agree, since
  there is no least size without (`Solvable`, `SolutionsAgree`), hence the sum unfolds
  (`TotalUnfolds`) and does what sums do (`TotalWith`, `TotalFacts`).
* `BuffersReadBack`: `BuffersReadAsWritten` for any buffers, sizes, depths, corners and number of
  axes. `BuffersInv` says that every channel shows its grid (`Shows`): that its record is well formed, its
  values fit the depth, its array is as long as the volume, and each voxel reads as the grid's. Each
  operation has a lemma of what the new channel shows. They rest on two facts. One is that no two
  voxels have one flat index and none lies outside the array (`IndexFacts`): the index is a number whose
  digits are the coordinates, each in its own range, so that one step of it can be undone (`Digits`);
  over the axes this is a recursion, unfolded by `LeastNatural` as the sums are (`HornerUnfolds`). The
  other is what clipping does on one axis (`CoordFacts`, `AreaIs`): the region stays in both
  buffers, keeps its distance to its source, and holds exactly the voxels whose source is asked for
  and exists. The sizes are positive (`BufferConstants`): `create` takes a side of 0 too, but there
  are no voxels to read then, and `compress_uniform_channels` takes its default from the first.

## 11. Findings

Each is a run that violates one property taken from a comment or a document.

* `paging_retry` (`OutOfRangeIsUnloaded`): a failed load adds 100 to a refcount that later becomes the
  block's viewers; the block is never unloaded (797, 808-815).
* `paging_stale` (`NoEditIsLost`): loads do not wait for saves and do not look at the journal: a
  block that comes back before its save ran has lost its last edits.
* `mesh_lod` (`NoForgottenMesh`): the box scheduled by a load is in voxels of LOD 0 and divided by the
  block size alone: away from the origin blocks of LOD 1 and up whose data comes
  last are not meshed (826-831).
* `region_tail` (`SavedBlocksReadBack`): the file is padded to a multiple of the sector size although
  sectors begin at 20 modulo 512: growing the last block can cut bytes off the
  block before it.
* `region_stream` (`SavesAreAccepted`): the stream maps blocks to regions of 32 per axis and opens files
  with 16 blocks per axis and a format no block of the terrain fits.
* `node_edits` (`EditIsMeshed`): an edit marks its block dirty for the next frame, which uploads the
  mesh of before the edit; nothing asks for another.

## 12. Observations

Met while modelling; no run of their own, and where a property would fail on
them its inputs leave them out.

Paging and meshing.
* A load whose stream or generator panics leaves its viewers waiting: nothing takes
  the entry of `loading_blocks` out, and later viewers only add to it (551-554), until
  all have left. `paging_views` and the theorems except it by name (`stranded`).
* With streaming off, an edit may make a block whose load is under way. The
  loaded block is then refused (`try_set_block`), and the viewers counted in
  `loading_blocks` are dropped with it (808-822): the first viewer that leaves
  unloads the block under the others. Such a refused load also schedules no
  mesh. The Godot node turns streaming on only when it has an explicit stream.
* A block whose loads gave up keeps a count of 1000 or more and is never asked
  for again (796). With 100 viewers or more an unview after that brings the
  count below the cap with no load under way: `LoadUnderWay` holds for fewer.
* `MeshBlockEntered` (line 99) is not sent when the first output was empty and
  never again for this entry; `MeshBlockExited` is then sent without it.
* A mesh task that was gathered earlier may be applied later than a newer one,
  also across an unview and view of its block. A mesh task cancelled before it
  runs leaves without output, so the requeue of line 881 applies only to tasks
  that were already running.
* Mesh boxes are not clipped to the bounds as data boxes are: blocks at the border
  lack data and are never meshed (690). Boxes from `from_center_extents` reach one block less
  forward than back; coarse mesh boxes do not always cover the finer ones; a
  viewer without meshes keeps data of LOD 0 only.
* With some neighbours resident, some missing and a generator, the lower padding
  of the missing ones keeps its default, and pieces smaller than a block
  overwrite resident voxels (`meshers/mesh_block_task.rs:455`).
* The Godot node keys its mesh instances by position without LOD, keeps those of
  blocks that left, keeps the old one when a mesh becomes empty, and marks no
  neighbour dirty when a border voxel is edited.
* `src/doc/source/editing.md:15-16` and the comment on `set_voxel_sdf`
  (`src/rust/voxel-gdext/src/terrain.rs:374`) promise a remesh that `node_edits` misses.

Streams and files.
* A region save that is too large fails after blocks have moved (675), and
  `header_dirty` is never set, so that nothing writes the moved table. A crash
  after blocks have moved leaves a table that does not describe the file
  (684-685 says otherwise); one before the padding leaves a short last sector
  under a valid table.
* Each load and save of the region stream opens a handle of its own without a lock
  (`src/rust/voxel-gdext/src/streams.rs:182`).
* A `save_voxel_block` or a flush that panics in `run_save` posts or hands over nothing: the batch of its
  tracker never ends, or its follow-ups are gone (`StreamTasks!SavePanics`).
* A block whose last channel reaches into the trailing magic is accepted: up to four
  lost bytes go unnoticed. The default `max_block_voxels` never binds; a sector
  size is stored in 16 bits; counts of layers and instances wrap.
* `BlockCache` does not copy depths, and `copy_channel_from` then panics for others
  than the default (`storage/voxel_buffer.rs:806-816`).
* In `.vox` files the default palette is decoded in the wrong byte order; a chunk
  may be read past its declared end; a cycle beside a valid root is not noticed, and a node
  with the id -1 is taken for no root found yet.

Volume and buffers.
* `update_lods` never clears the flag of intermediate LODs (`storage/voxel_data.rs:1340-1344`) and
  goes on from a parent only when it sets its flag: with three LODs the second edit of a block does
  not reach LOD 2, although the comment (1205-1212) has it walk up the chain from every source block.
  `LodsFollow` excepts what is above a flagged parent.
* In a volume that does not stream, `pre_generate_box` (1388-1431) makes blocks during a full load
  that `try_set_block` then does not replace, and `unload_blocks` (1473-1496) works after one, so that the
  next `try_set_voxel` starts from an empty block: either hides edits that the stream has, and saving
  the new block overwrites them. `VoxelData` has both; `VolumeExact` follows them as `hidden`.
* `fill` and `clear_channel` keep a uniform value that is not truncated to the depth.
* Where the bounds are not a whole number of blocks, the last block reaches over them: `copy` reads
  its voxels there, `get_voxel` gives the default (`storage/voxel_data.rs:1041`, 831).
* The regions locked for LOD 1 and above do not cover their blocks; each step
  there is under the lock of the map, and nothing edits above LOD 0.
  "Disjoint boxes can proceed concurrently" excepts boxes that touch.

Meshers, generators, parser, edition.
* Reuse of transition vertices never happens; faces on block borders are emitted
  by both blocks of the cubes mesher.
* Blocky: cut sides of Left and Right are baked at each other's x and wound
  inside out (`IsTurned`); filtered empty surfaces shift the indices of models with two;
  fluid sides cull neighbours of equal transparency although fluids are not meshed.
* A heightmap block that is wholly in the ground is cleared to a distance of 0 (`IsDeep`).
  Ranges of a graph are too narrow for inverted clamps, degenerate remaps, Mix
  outside 0..1 and several outputs (`Tame`); `polynomial_second_degree` returns inverted ends
  when a < 0 and the range ends at the vertex. Compiled and interpreted graphs
  differ in an unconnected SdfSphere radius, Fract of negative numbers and SdfBox.
* `x * (y + 1)` is refused as a call of `x`; `(1) 2` drops an operand; `sin((x)` is accepted;
  functions without arguments cannot be called.
* Smooth modifiers go wrong where the ground is nearer than the shape
  (`modifiers/stack.rs` against `math/sdf.rs:67-79`); a ray never tests the voxel it
  starts in; 8-bit distances are edited as raw values.

## 13. What is only checked, and what is not modelled

Only checked by TLC:
* liveness and everything under fairness (`WaitReturns`, `StopCompletes`, `EveryTaskSettles`,
  `EveryUnloadIsSaved`, `ShutdownReturns`, `ViewedGetsResident`, `UnviewedIsUnloaded`, `ViewedGetsMeshed`):
  out of the prover's reach;
* the functions of section 9: what a recursive definition computes for every
  input needs induction over data. The induction rules of the library take an operator,
  which no installed prover can instantiate; `StorageProofs` goes around them one set of
  naturals at a time, which is as much work as the rest of a proof. Several of these modules
  declare RECURSIVE operators, which rules out proofs in them and in the run's module;
* of the safety properties of machines: `LodsFollow`, and `OctreeExact`, as `update` and `subdivide` walk a tree
  and are RECURSIVE here too;
* `ViewersExact` with load errors, where it does not hold (`paging_retry`), and the references of a
  terrain without generator or streaming, which only the small `edits` instance has.

Bounds: every counter that grows without limit in the code (generations, edits,
saves, errors, crashes, tasks of a block) stops at a constant named `Max...`;
the properties relate states a few steps apart, of at most two tasks of a block,
and the mutants show that the bounds reach the cases they are about: for each
property of each run there is a change of one mapped definition that a bug
could make and that the run refutes.

Not modelled, with reasons in `PROJECT.json`: the stream cache and the memory stream
(maps under one lock), instancing (a list and random transforms), real-valued
math (rounding), containers, strings, hashing and memory helpers (no state), the
Godot classes other than the node (properties and forwarded calls). Within the
modelled parts, events and statistics, the full-load mode's progress, the real-valued
part of meshes and noise, and the upload of arrays are left out.
