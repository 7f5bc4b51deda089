----------------------------- MODULE MCLibrary -----------------------------
(***************************************************************************)
(* Small instances of the parts of the library that have no part in        *)
(* another's protocol, side by side: each behaviour is one of `on`, the    *)
(* others stay as they are.  A machine is its specification; a function is *)
(* an input chosen at the beginning (MCFunctions).                         *)
(***************************************************************************)
EXTENDS RegionFile, Locks, StreamTasks, EngineRegistry, SharedVoxels, VoxelData,
        MemoryPool, VoxelBuffers, MCFunctions

CONSTANTS b1, b2, b3,    \* blocks of the region file
          t1, t2, t3     \* threads and tasks

VARIABLES tree, shown   \* LodOctree

Octree == INSTANCE LodOctree WITH
            Dims <- 2, MaxDepth <- 2, Views <- {0, 2, 3}, LodDistances <- {1, 2}

MCBufferSizes == {<<2, 1>>, <<2, 2>>}
MCCorners == {<<-1, 1>>, <<1, 0>>, <<3, 2>>}

\* The instances are of the kind the theorems of StorageProofs are about.
ASSUME StorageAssumption == DataConstants /\ PoolConstants /\ BufferConstants

-----------------------------------------------------------------------------
octreeVars == <<tree, shown>>

Inactive == 0

LibraryInit ==
  /\ on \in {"file", "shared", "stream", "registry", "octree", "locks", "pool", "data", "buffers",
             "inputs"}
  /\ input \in IF on = "inputs" THEN FunctionNames ELSE {Inactive}
  /\ Init
  /\ SharedInit /\ (on # "shared" => streaming = FALSE)
  /\ StreamTasksInit /\ (on # "stream" => ~ tracker.countSet /\ \A s \in Savers : save[s].voxels)
  /\ RegistryInit /\ LocksInit
  /\ IF on = "octree" THEN Octree!OctreeInit ELSE tree = Inactive /\ shown = Inactive
  /\ PoolInit
  /\ DataInit /\ (on # "data" => settings = [streaming |-> TRUE, full |-> TRUE, generator |-> FALSE])
  /\ IF on = "buffers" THEN BuffersInit
     ELSE /\ buf = [b \in Buffers |-> UniformChannel(<<1, 1>>, 1, Inactive)]
          /\ plain = [b \in Buffers |-> Everywhere(<<1, 1>>, Inactive)] /\ writes = 0

Others(machine) ==
  /\ IF machine = "inputs" THEN TRUE ELSE UNCHANGED <<on, input>>
  /\ IF machine = "file" THEN TRUE ELSE UNCHANGED vars
  /\ IF machine = "shared" THEN TRUE ELSE UNCHANGED sharedVars
  /\ IF machine = "stream" THEN TRUE ELSE UNCHANGED streamTaskVars
  /\ IF machine = "registry" THEN TRUE ELSE UNCHANGED registryVars
  /\ IF machine = "octree" THEN TRUE ELSE UNCHANGED octreeVars
  /\ IF machine = "locks" THEN TRUE ELSE UNCHANGED lockVars
  /\ IF machine = "pool" THEN TRUE ELSE UNCHANGED poolVars
  /\ IF machine = "data" THEN TRUE ELSE UNCHANGED dataVars
  /\ IF machine = "buffers" THEN TRUE ELSE UNCHANGED bufferVars

LibraryNext ==
  \/ on = "inputs" /\ Choose /\ Others("inputs")
  \/ on = "file" /\ Next /\ Others("file")
  \/ on = "shared" /\ SharedNext /\ Others("shared")
  \/ on = "stream" /\ StreamTasksNext /\ Others("stream")
  \/ on = "registry" /\ RegistryNext /\ Others("registry")
  \/ on = "octree" /\ Octree!OctreeNext /\ Others("octree")
  \/ on = "locks" /\ LocksNext /\ Others("locks")
  \/ on = "pool" /\ PoolNext /\ Others("pool")
  \/ on = "data" /\ DataNext /\ Others("data")
  \/ on = "buffers" /\ BuffersNext /\ Others("buffers")

-----------------------------------------------------------------------------
\* OctreeExact: after any splits and joins the client shows the leaves, no pack of children is
\* in use twice, and queries find the leaves of their box.
OctreeExact == on = "octree" => Octree!OctreeExact
=============================================================================
