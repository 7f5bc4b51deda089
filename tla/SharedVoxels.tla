---------------------------- MODULE SharedVoxels ----------------------------
(***************************************************************************)
(* The voxel blocks that the terrain, the editors and the mesh workers     *)
(* share: storage/voxel_data.rs (SharedVoxelData), the spatial locks of    *)
(* thread/mod.rs, and the sections of terrain/voxel_terrain_core.rs and    *)
(* meshers/mesh_block_task.rs that hold them.                              *)
(*                                                                         *)
(* Every access to the blocks of a LOD runs under the read-write lock of   *)
(* its map, so it is one step; what lies between two accesses of one       *)
(* operation is protected by the spatial lock alone.  Space has one axis.  *)
(* The voxels of a block are the set of edits they contain: the bytes a    *)
(* load or a generator delivers make no difference to the properties.      *)
(***************************************************************************)
EXTENDS Integers, Sequences, FiniteSets

CONSTANTS Editors,   \* threads that call try_edit_voxel
          Gatherers, \* workers that run mesh tasks
          Main,      \* the thread of the terrain
          Lods, Positions, \* LOD indices and block positions of the bounds
          BlockSize, \* voxels per block along the axis
          MaxOps     \* bound: operations started in a behaviour

ASSUME SharedAssumption ==
  /\ IsFiniteSet(Editors) /\ IsFiniteSet(Gatherers)
  /\ Lods \subseteq Nat /\ 0 \in Lods /\ Positions \subseteq Int /\ BlockSize \in Nat

VARIABLES streaming, \* settings.streaming_enabled || !settings.full_load_completed
          maps,      \* maps[lod][pos]: the resident block, or NoBlock
          loading,   \* loading_blocks[lod][pos] of the terrain
          viewed,    \* the blocks of each LOD the viewer of the terrain covers
          entries,   \* the entries of the spatial locks, those of all LODs in one sequence
          thr,       \* thr[t]: the operation under way in thread t
          asleep,    \* threads that wait on the condition variable of a lock
          ops,       \* operations started, which also number the edits
          acked,     \* edits whose try_edit_voxel answered true
          handedOver      \* edits in the voxels handed over to be saved

sharedVars == <<streaming, maps, loading, viewed, entries, thr, asleep, ops, acked, handedOver>>

Threads == Editors \cup Gatherers \cup {Main}

NoBlock == [resident |-> FALSE, edits |-> {}, modified |-> FALSE, viewers |-> 0]

\* half-open intervals of voxels and of block positions
Interval(lo, size) == [lo |-> lo, hi |-> lo + size]
Cells(box) == {p \in Positions : box.lo <= p /\ p < box.hi}
BlockBoxes == {b \in [lo : Positions, hi : {p + 1 : p \in Positions}] : b.lo < b.hi}

Idle == [pc |-> "idle", op |-> "none", lod |-> 0, box |-> Interval(0, 0),
         bounds |-> Interval(0, 0), mode |-> "Read", edit |-> 0, viewers |-> 0, missing |-> FALSE]

EntryOf(t) == [lod |-> thr[t].lod, bounds |-> thr[t].bounds, mode |-> thr[t].mode]

-----------------------------------------------------------------------------
\* The spatial lock

\* the maximum is exclusive, yet boxes that only touch count as intersecting
Intersects(a, b) == ~ (a.hi < b.lo \/ a.lo > b.hi)

CanAcquire(e) ==
  \A i \in DOMAIN entries :
    \/ entries[i].lod # e.lod
    \/ ~ Intersects(entries[i].bounds, e.bounds)
    \/ entries[i].mode = "Read" /\ e.mode = "Read"

\* lock_read, lock_write: the test and the entry, or the wait, under one mutex
Acquire(t) ==
  /\ thr[t].pc = "lock" /\ t \notin asleep
  /\ IF CanAcquire(EntryOf(t))
       THEN /\ entries' = Append(entries, EntryOf(t))
            /\ thr' = [thr EXCEPT ![t].pc = "held"]
            /\ UNCHANGED asleep
       ELSE /\ asleep' = asleep \cup {t}
            /\ UNCHANGED <<entries, thr>>
  /\ UNCHANGED <<streaming, maps, loading, viewed, ops, acked, handedOver>>

\* the entry that unlock finds: the first with the same box and mode
FirstEntry(e) == CHOOSE i \in DOMAIN entries :
                   entries[i] = e /\ \A j \in 1 .. i - 1 : entries[j] # e

\* swap_remove(i)
SwapRemove(s, i) ==
  [j \in 1 .. Len(s) - 1 |-> IF j = i THEN s[Len(s)] ELSE s[j]]

\* Mutant: notify_one instead of notify_all.
WokenFirst(lod) ==
  LET waiting == {t \in asleep : thr[t].lod = lod} IN
    IF waiting = {} THEN {} ELSE {CHOOSE t \in waiting : TRUE}

\* notify_all: every thread that waits at the lock of this LOD tries again
Woken(lod) == {t \in asleep : thr[t].lod = lod}

\* unlock, when the guard of the region is dropped
Release(t) ==
  /\ thr[t].pc = "unlock"
  /\ entries' = SwapRemove(entries, FirstEntry(EntryOf(t)))
  /\ asleep' = asleep \ Woken(thr[t].lod)
  /\ thr' = [thr EXCEPT ![t] = Idle]
  /\ UNCHANGED <<streaming, maps, loading, viewed, ops, acked, handedOver>>

-----------------------------------------------------------------------------
\* Operations begin by asking for a region

Begin(t, op, lod, box, bounds, mode, viewers) ==
  /\ thr[t].pc = "idle" /\ ops < MaxOps
  /\ ops' = ops + 1
  /\ thr' = [thr EXCEPT ![t] =
               [pc |-> "lock", op |-> op, lod |-> lod, box |-> box, bounds |-> bounds,
                mode |-> mode, edit |-> IF op = "edit" THEN ops + 1 ELSE 0, viewers |-> viewers, missing |-> FALSE]]

\* block_box_to_voxel_box: no factor for the LOD
VoxelBox(box) == Interval(box.lo * BlockSize, (box.hi - box.lo) * BlockSize)

\* the region of an insertion: the factor in the position only
InsertBox(pos, lod) == Interval(pos * BlockSize * (2 ^ lod), BlockSize)

\* the region of a gather: the factor in both
GatherBox(pos, lod) == Interval((pos - 1) * BlockSize * (2 ^ lod), 3 * BlockSize * (2 ^ lod))

BeginEdit(e) ==
  \E pos \in Positions :
    /\ Begin(e, "edit", 0, Interval(pos, 1), VoxelBox(Interval(pos, 1)), "Write", 0)
    /\ UNCHANGED <<streaming, maps, loading, viewed, entries, asleep, acked, handedOver>>

BeginGather(g) ==
  \E lod \in Lods, pos \in Positions :
    /\ Begin(g, "gather", lod, Interval(pos - 1, 3), GatherBox(pos, lod), "Read", 0)
    /\ UNCHANGED <<streaming, maps, loading, viewed, entries, asleep, acked, handedOver>>

\* the boxes a viewer enters or leaves are disjoint from, or part of, what it covers
BeginView ==
  \E lod \in Lods, box \in BlockBoxes :
    /\ Cells(box) \cap viewed[lod] = {}
    /\ Begin(Main, "view", lod, box, VoxelBox(box), "Write", 0)
    /\ UNCHANGED <<streaming, maps, loading, viewed, entries, asleep, acked, handedOver>>

BeginUnview ==
  \E lod \in Lods, box \in BlockBoxes :
    /\ Cells(box) \subseteq viewed[lod]
    /\ Begin(Main, "unview", lod, box, VoxelBox(box), "Write", 0)
    /\ UNCHANGED <<streaming, maps, loading, viewed, entries, asleep, acked, handedOver>>

\* apply_data_block_response with voxels: it takes the count of the block that loads
BeginInsert ==
  \E lod \in Lods, pos \in Positions :
    /\ loading[lod][pos] > 0
    /\ Begin(Main, "insert", lod, Interval(pos, 1), InsertBox(pos, lod), "Write", loading[lod][pos])
    /\ loading' = [loading EXCEPT ![lod][pos] = 0]
    /\ UNCHANGED <<streaming, maps, viewed, entries, asleep, acked, handedOver>>

\* try_schedule_mesh_update: has_all_blocks_in_area under a read region
BeginCheck ==
  \E lod \in Lods, pos \in Positions :
    LET box == Interval(pos - 1, 3) IN
      /\ Begin(Main, "check", lod, box, VoxelBox(box), "Read", 0)
      /\ UNCHANGED <<streaming, maps, loading, viewed, entries, asleep, acked, handedOver>>

-----------------------------------------------------------------------------
\* What each operation does while it holds its region

EditPos(t) == thr[t].box.lo

\* try_edit_voxel reads under the read lock of the map whether it has to generate
EditLooks(e) ==
  /\ thr[e].pc = "held" /\ thr[e].op = "edit"
  /\ LET missing == ~ maps[0][EditPos(e)].resident IN
       thr' = [thr EXCEPT ![e].missing = missing,
                          ![e].pc = IF missing /\ streaming THEN "unlock" ELSE "write"]
  /\ UNCHANGED <<streaming, maps, loading, viewed, entries, asleep, ops, acked, handedOver>>

\* ... and writes under its write lock: a block made now has no viewer
EditedBlock(b, edit) ==
  [resident |-> TRUE, edits |-> b.edits \cup {edit}, modified |-> TRUE, viewers |-> b.viewers]

EditWrites(e) ==
  /\ thr[e].pc = "write"
  /\ maps' = [maps EXCEPT ![0][EditPos(e)] = EditedBlock(@, thr[e].edit)]
  /\ acked' = acked \cup {thr[e].edit}
  /\ thr' = [thr EXCEPT ![e].pc = "unlock"]
  /\ UNCHANGED <<streaming, loading, viewed, entries, asleep, ops, handedOver>>

\* viewers.add(), viewers.remove()
WithViewers(b, n) == [b EXCEPT !.viewers = n]

\* apply_data_view: view_area, and one more count for each block that is missing.
\* loading_blocks belongs to the main thread, which counts after the region is given back
View ==
  LET t == thr[Main]
      cells == Cells(t.box) IN
    /\ t.pc = "held" /\ t.op = "view"
    /\ maps' = [maps EXCEPT ![t.lod] = [p \in Positions |->
                  IF p \in cells /\ @[p].resident THEN WithViewers(@[p], @[p].viewers + 1) ELSE @[p]]]
    /\ loading' = [loading EXCEPT ![t.lod] = [p \in Positions |->
                  IF p \in cells /\ ~ maps[t.lod][p].resident THEN @[p] + 1 ELSE @[p]]]
    /\ viewed' = [viewed EXCEPT ![t.lod] = @ \cup cells]
    /\ thr' = [thr EXCEPT ![Main].pc = "unlock"]
    /\ UNCHANGED <<streaming, entries, asleep, ops, acked, handedOver>>

\* removal saturates at zero, where the block goes; modified ones are saved
Leaves(b) == b.resident /\ b.viewers <= 1
SavedVoxels(b) == IF b.modified THEN b.edits ELSE {}

Unview ==
  LET t == thr[Main]
      cells == Cells(t.box)
      blocks == maps[t.lod]
      removed == {p \in cells : Leaves(blocks[p])} IN
    /\ t.pc = "held" /\ t.op = "unview"
    /\ maps' = [maps EXCEPT ![t.lod] = [p \in Positions |->
                  CASE p \in removed -> NoBlock
                    [] p \in cells \ removed /\ @[p].resident -> WithViewers(@[p], @[p].viewers - 1)
                    [] OTHER -> @[p]]]
    /\ handedOver' = handedOver \cup UNION {SavedVoxels(blocks[p]) : p \in removed}
    /\ loading' = [loading EXCEPT ![t.lod] = [p \in Positions |->
                  CASE p \in removed -> 0
                    [] p \in cells /\ ~ blocks[p].resident /\ @[p] > 0 -> @[p] - 1
                    [] OTHER -> @[p]]]
    /\ viewed' = [viewed EXCEPT ![t.lod] = @ \ cells]
    /\ thr' = [thr EXCEPT ![Main].pc = "unlock"]
    /\ UNCHANGED <<streaming, entries, asleep, ops, acked>>

\* try_set_block: a block that is there already stays
LoadedOver(b, viewers) ==
  IF b.resident THEN b
                ELSE [resident |-> TRUE, edits |-> {}, modified |-> FALSE, viewers |-> viewers]

Insert ==
  LET t == thr[Main] IN
    /\ t.pc = "held" /\ t.op = "insert"
    /\ maps' = [maps EXCEPT ![t.lod][t.box.lo] = LoadedOver(@, t.viewers)]
    /\ thr' = [thr EXCEPT ![Main].pc = "unlock"]
    /\ UNCHANGED <<streaming, loading, viewed, entries, asleep, ops, acked, handedOver>>

\* has_all_blocks_in_area and gather_voxels_cpu_shared_snapshot only read
Look(t) ==
  /\ thr[t].pc = "held" /\ thr[t].op \in {"check", "gather"}
  /\ thr' = [thr EXCEPT ![t].pc = "unlock"]
  /\ UNCHANGED <<streaming, maps, loading, viewed, entries, asleep, ops, acked, handedOver>>

-----------------------------------------------------------------------------
SharedInit ==
  /\ streaming \in BOOLEAN
  /\ maps = [l \in Lods |-> [p \in Positions |-> NoBlock]]
  /\ loading = [l \in Lods |-> [p \in Positions |-> 0]]
  /\ viewed = [l \in Lods |-> {}]
  /\ entries = << >>
  /\ thr = [t \in Threads |-> Idle]
  /\ asleep = {}
  /\ ops = 0
  /\ acked = {} /\ handedOver = {}

MainBegins == BeginView \/ BeginUnview \/ BeginInsert \/ BeginCheck

Starts == MainBegins \/ (\E e \in Editors : BeginEdit(e)) \/ (\E g \in Gatherers : BeginGather(g))

\* what a thread that has begun an operation does next
Continue(t) ==
  \/ Acquire(t) \/ Release(t) \/ Look(t)
  \/ t \in Editors /\ (EditLooks(t) \/ EditWrites(t))
  \/ t = Main /\ (View \/ Unview \/ Insert)

SharedNext == Starts \/ \E t \in Threads : Continue(t)

SharedSpec == SharedInit /\ [][SharedNext]_sharedVars

-----------------------------------------------------------------------------
Holds(t) == thr[t].pc \in {"held", "write", "unlock"}

\* RegionsExclude: of two regions of one LOD held at once that intersect, none is held
\* for writing, and the lock has exactly the entries of the threads inside
\* (SpatialLock3D: an entry of another thread with the same box may be the one removed).
RegionsExclude ==
  /\ \A i, j \in DOMAIN entries :
       i # j /\ entries[i].lod = entries[j].lod /\ Intersects(entries[i].bounds, entries[j].bounds)
         => entries[i].mode = "Read" /\ entries[j].mode = "Read"
  /\ \A e \in {entries[i] : i \in DOMAIN entries} \cup {EntryOf(t) : t \in {u \in Threads : Holds(u)}} :
       Cardinality({i \in DOMAIN entries : entries[i] = e})
         = Cardinality({t \in Threads : Holds(t) /\ EntryOf(t) = e})

\* EditFindsWhatItSaw: between the look of try_edit_voxel and its write the block neither
\* comes nor goes, though the map is unlocked while it generates: a block that went would
\* make .expect("materialization was prepared") panic, one that came would be overwritten.
EditFindsWhatItSaw ==
  \A e \in Editors : thr[e].pc = "write" => (thr[e].missing <=> ~ maps[0][EditPos(e)].resident)

\* AckedEditIsKept: an edit that was answered true is in a resident block that is marked
\* modified, or in voxels that were handed over to be saved.
AckedEditIsKept ==
  acked \subseteq handedOver \cup UNION {SavedVoxels(maps[0][p]) : p \in Positions}

\* NoForgottenLocker: a thread that waits for a region is kept out by an entry that is
\* there: unlock wakes all that wait at its lock, whichever of them it lets in.
NoForgottenLocker == \A t \in asleep : thr[t].pc = "lock" /\ ~ CanAcquire(EntryOf(t))

RegionLocksExact == RegionsExclude /\ NoForgottenLocker
EditsAreAtomic == EditFindsWhatItSaw /\ AckedEditIsKept

\* SharedVoxelsExact: intersecting regions of SpatialLock3D exclude each other, nobody sleeps
\* on a region that is free, and an edit finds what it saw before it generated and stays in
\* the block or in the voxels that were handed over.
SharedVoxelsExact == RegionLocksExact /\ EditsAreAtomic
=============================================================================
