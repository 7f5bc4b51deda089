--------------------------- MODULE TerrainPaging ---------------------------
(***************************************************************************)
(* How VoxelTerrainCore::process keeps the data blocks around the viewers  *)
(* resident (terrain/voxel_terrain_core.rs, one LOD), with the block map   *)
(* of SharedVoxelData (storage/voxel_data.rs), the load tasks and edits.   *)
(* What becomes of modified blocks that are unloaded is SaveJournal's part *)
(* of this state: its save tasks and the load tasks share the pool, the    *)
(* stream and the drains of the frame.                                     *)
(*                                                                         *)
(* The owner's thread runs process() frame after frame; step says where it *)
(* is.  Pool workers run the tasks in between, and any thread that has the *)
(* SharedVoxelData may edit.  The voxels of a block are represented by the *)
(* set of edits they contain; the generator's voxels contain none.         *)
(***************************************************************************)
EXTENDS Integers, FiniteSets, BagsExt, Bags

CONSTANTS
  Blocks,            \* positions of data blocks inside the bounds
  Viewers,           \* viewer ids
  Ranges,            \* the data boxes a viewer may have, {} for an absent viewer
  HasGenerator,      \* whether the terrain has a generator
  StreamingEnabled,  \* streaming_enabled; if not, the full load has completed
  RetryWeight,       \* what a failed load adds to the refcount: 100 in the code
  RetryCap,          \* the refcount at which loads give up: 1000 in the code
  MaxEdits,          \* bound: edits
  MaxLoadTasks,      \* bound: load tasks of a block under way in the pool
  MaxLoadErrors,     \* bound: loads that fail
  MaxLoadPanics,     \* bound: loads whose stream or generator panics
  MaxGeneration,     \* bound: unloads of modified blocks, as many as edits
  MaxErrors          \* bound: saves that fail

ASSUME PagingAssumption ==
  /\ Ranges \subseteq SUBSET Blocks /\ {} \in Ranges
  /\ HasGenerator \in BOOLEAN /\ StreamingEnabled \in BOOLEAN
  /\ RetryWeight \in Nat \ {0} /\ RetryCap \in Nat \ {0}
  /\ MaxEdits \in Nat /\ MaxGeneration \in Nat /\ MaxEdits <= MaxGeneration
  /\ MaxLoadErrors \in Nat /\ MaxLoadTasks \in Nat /\ MaxLoadErrors < MaxLoadTasks
  /\ MaxLoadPanics \in Nat
  /\ IsFiniteSet(Viewers)

VARIABLES
  journal, nextGeneration, queue, running, completed, inbox, stored, newest, errors,
  blocks,      \* the map of LOD 0; a position without block has NoBlock
  loading,     \* loading_blocks: refcounts, 0 without entry
  pending,     \* blocks_pending_load: how often each position is in it
  stranded,    \* history: the entries of loading whose last load has panicked
  requests,    \* load tasks in the pool that have not read the stream yet
  results,     \* outputs of load tasks that have read it: a bag
  loaded,      \* outputs of completed load tasks, in the pool: a bag
  loadInbox,   \* those drain_completed_tasks has still to apply: a bag
  ranges,      \* ranges[v]: the data box of viewer v
  unviews,     \* the pairs of viewer and block this frame still has to unview
  views,       \* and to view
  step,        \* where process() is
  filed,       \* filed[g]: the edits in the voxels journaled as generation g
  acked,       \* acked[p]: the edits of p that returned true
  loadErrors,  \* bound: loads that failed so far
  loadPanics   \* bound: loads that panicked so far

journalVars == <<journal, nextGeneration, queue, running, completed, inbox, stored, newest, errors>>
waitVars == <<loading, pending, stranded>>
taskVars == <<requests, results, loaded, loadInbox, loadErrors, loadPanics>>
frameVars == <<ranges, unviews, views, step>>
vars == <<journalVars, blocks, waitVars, taskVars, frameVars, filed, acked>>

\* The terrain is not shut down here, and save tasks do not panic.
J == INSTANCE SaveJournal WITH
       Keys <- Blocks, MaxShutdownSaveAttempts <- 1, MaxPanics <- 0, ErrorsMayStore <- TRUE,
       phase <- "open", attempt <- 0, result <- "none", unsaved <- 0, lost <- {}

NoBlock == [viewers |-> -1, edits |-> {}, modified |-> FALSE]

Resident(p) == blocks[p] # NoBlock

Nowhere == [p \in Blocks |-> 0]

\* The edits in the voxels the stream or the generator has.
EditsIn(g) == IF g = 0 THEN {} ELSE filed[g]

Init ==
  /\ J!Init
  /\ blocks = [p \in Blocks |-> NoBlock]
  /\ loading = Nowhere /\ pending = Nowhere /\ requests = Nowhere
  /\ results = EmptyBag /\ loaded = EmptyBag /\ loadInbox = EmptyBag
  /\ ranges = [v \in Viewers |-> {}]
  /\ unviews = {} /\ views = {}
  /\ step = "idle"
  /\ filed = [g \in 1 .. MaxGeneration |-> {}]
  /\ acked = [p \in Blocks |-> {}]
  /\ stranded = {}
  /\ loadErrors = 0 /\ loadPanics = 0

-----------------------------------------------------------------------------
(* The frame: drain; pair the viewers, unview, view; send the requests;    *)
(* drain; (meshing;) drain.  The outputs of a drain are applied before the *)
(* frame goes on.                                                          *)

Applied == inbox = {} /\ loadInbox = EmptyBag

Drain ==
  /\ step \in {"idle", "sent", "meshing"} /\ Applied
  /\ step' = CASE step = "idle" -> "started" [] step = "sent" -> "meshing"
               [] step = "meshing" -> "idle"
  /\ inbox' = completed /\ completed' = {}
  /\ loadInbox' = loaded /\ loaded' = EmptyBag
  /\ UNCHANGED <<journal, nextGeneration, queue, running, stored, newest, errors,
                 blocks, waitVars, requests, results, loadErrors, loadPanics,
                 ranges, unviews, views, filed, acked>>

\* The blocks each viewer enters when the boxes change.
Entered(from, to) == {e \in Viewers \X Blocks : e[2] \in to[e[1]] \ from[e[1]]}

\* process_viewers pairs the viewers and compares their boxes.
PairViewers(r) ==
  /\ step = "started" /\ Applied
  /\ step' = "paging"
  /\ ranges' = r
  /\ unviews' = Entered(r, ranges)
  /\ views' = Entered(ranges, r)
  /\ UNCHANGED <<journalVars, blocks, waitVars, taskVars, filed, acked>>

\* An entry that goes takes its history with it.
StrandedWaits == stranded' = {p \in stranded : loading'[p] > 0}

Released(n) == IF n = 0 THEN 0 ELSE n - 1

\* The last reference to a block that is not resident.
LosesLastViewer(p) == loading[p] = 1

UnviewMissing(p) ==
  /\ loading' = [loading EXCEPT ![p] = Released(@)]
  /\ pending' = IF LosesLastViewer(p) THEN [pending EXCEPT ![p] = 0] ELSE pending
  /\ StrandedWaits
  /\ UNCHANGED <<journalVars, blocks, filed>>

\* The voxels of an unloaded block go to the journal if it is modified.
SaveUnloaded(p) ==
  IF blocks[p].modified
  THEN /\ J!EnqueueDataSave(p)
       /\ filed' = [filed EXCEPT ![nextGeneration] = blocks[p].edits]
  ELSE UNCHANGED <<journalVars, filed>>

\* Mutant: the count is looked at before it is decremented.
KeptByAny(p) == blocks[p].viewers > 0

KeepsViewers(p) == blocks[p].viewers > 1

UnviewResident(p) ==
  IF KeepsViewers(p)
  THEN /\ blocks' = [blocks EXCEPT ![p].viewers = Released(@)]
       /\ UNCHANGED <<journalVars, waitVars, filed>>
  ELSE /\ SaveUnloaded(p)
       /\ blocks' = [blocks EXCEPT ![p] = NoBlock]
       /\ loading' = [loading EXCEPT ![p] = 0]
       /\ pending' = [pending EXCEPT ![p] = 0]
       /\ StrandedWaits

\* apply_data_unview for one block of a box a viewer left.
Unview(v, p) ==
  /\ step = "paging" /\ <<v, p>> \in unviews
  /\ unviews' = unviews \ {<<v, p>>}
  /\ IF Resident(p) THEN UnviewResident(p) ELSE UnviewMissing(p)
  /\ UNCHANGED <<taskVars, ranges, views, step, acked>>

\* Mutant: a second viewer does not count as long as the load is under way.
LoadsOnce(p) == IF loading[p] = 0 THEN 1 ELSE loading[p]

OneMoreViewer(p) == loading[p] + 1

ViewMissing(p) ==
  /\ loading' = [loading EXCEPT ![p] = OneMoreViewer(p)]
  /\ pending' = IF loading[p] = 0 THEN [pending EXCEPT ![p] = @ + 1] ELSE pending
  /\ UNCHANGED <<blocks, stranded>>

\* apply_data_view for one block of a box a viewer entered, after all unviews.
View(v, p) ==
  /\ step = "paging" /\ unviews = {} /\ <<v, p>> \in views
  /\ views' = views \ {<<v, p>>}
  /\ IF Resident(p)
     THEN /\ blocks' = [blocks EXCEPT ![p].viewers = @ + 1]
          /\ UNCHANGED waitVars
     ELSE ViewMissing(p)
  /\ UNCHANGED <<journalVars, taskVars, ranges, unviews, step, filed, acked>>

\* Bound: the frame waits until there is room in the pool.
BoundedLoadTasks ==
  \A p \in Blocks : requests[p] + pending[p] + BagCardinality(results) <= MaxLoadTasks

SendDataLoadRequests ==
  /\ step = "paging" /\ unviews = {} /\ views = {}
  /\ BoundedLoadTasks
  /\ step' = "sent"
  /\ requests' = [p \in Blocks |-> requests[p] + pending[p]]
  /\ pending' = Nowhere
  /\ UNCHANGED <<journalVars, blocks, loading, stranded, results, loaded, loadInbox, loadErrors,
                 loadPanics, ranges, unviews, views, filed, acked>>

-----------------------------------------------------------------------------
(* apply_data_block_response.                                              *)

TakeOutput(o) ==
  /\ BagIn(o, loadInbox)
  /\ loadInbox' = BagRemove(loadInbox, o)
  /\ UNCHANGED <<journalVars, requests, results, loaded, loadErrors, loadPanics, frameVars,
                 filed, acked>>

\* Mutant: the loaded block replaces a resident one.
MayInsertOver(p) == TRUE

\* try_set_block
MayInsert(p) == ~Resident(p)

\* Mutant: a loaded block has one viewer, however many wanted it.
OneViewer(p) == 1

ViewersOnLoad(p) == loading[p]

\* A block that nobody wants any more is not inserted.
ApplyLoaded(o) ==
  /\ o.kind = "loaded"
  /\ TakeOutput(o)
  /\ loading' = [loading EXCEPT ![o.pos] = 0]
  /\ blocks' = IF loading[o.pos] > 0 /\ MayInsert(o.pos)
               THEN [blocks EXCEPT ![o.pos] = [viewers |-> ViewersOnLoad(o.pos),
                                               edits |-> EditsIn(o.voxels),
                                               modified |-> FALSE]]
               ELSE blocks
  /\ StrandedWaits
  /\ UNCHANGED pending

\* Mutant: a load that fails is not asked for again.
NoRetry(p) == FALSE

MayRetry(p) == loading[p] \in 1 .. RetryCap - 1

\* A failed load is requested again; the refcount counts the retries too.
ApplyDropped(o) ==
  /\ o.kind = "dropped"
  /\ TakeOutput(o)
  /\ IF MayRetry(o.pos)
     THEN /\ loading' = [loading EXCEPT ![o.pos] = @ + RetryWeight]
          /\ pending' = [pending EXCEPT ![o.pos] = @ + 1]
     ELSE UNCHANGED <<loading, pending>>
  /\ UNCHANGED <<blocks, stranded>>

ApplyNotFound(o) ==
  /\ o.kind = "notFound"
  /\ TakeOutput(o)
  /\ loading' = [loading EXCEPT ![o.pos] = 0]
  /\ StrandedWaits
  /\ UNCHANGED <<blocks, pending>>

ApplyDataBlockResponse ==
  \E o \in BagToSet(loadInbox) : ApplyLoaded(o) \/ ApplyDropped(o) \/ ApplyNotFound(o)

ApplySaveResponse ==
  /\ \E o \in inbox : J!ApplySaveResponse(o)
  /\ UNCHANGED <<blocks, waitVars, taskVars, frameVars, filed, acked>>

-----------------------------------------------------------------------------
(* The pool: LoadBlockForTerrainTask and the save tasks.                   *)

\* A load task has read the stream, with this output.
Read(p, kind, voxels) ==
  /\ requests[p] > 0
  /\ requests' = [requests EXCEPT ![p] = @ - 1]
  /\ results' = BagAdd(results, [pos |-> p, kind |-> kind, voxels |-> voxels])
  /\ UNCHANGED <<journalVars, blocks, waitVars, loaded, loadInbox, loadPanics, frameVars,
                 filed, acked>>

LoadFound(p) == stored[p] # 0 /\ Read(p, "loaded", stored[p]) /\ UNCHANGED loadErrors

LoadGenerated(p) ==
  stored[p] = 0 /\ HasGenerator /\ Read(p, "loaded", 0) /\ UNCHANGED loadErrors

LoadNotFound(p) ==
  stored[p] = 0 /\ ~HasGenerator /\ Read(p, "notFound", 0) /\ UNCHANGED loadErrors

LoadFails(p) ==
  /\ loadErrors < MaxLoadErrors
  /\ Read(p, "dropped", 0)
  /\ loadErrors' = loadErrors + 1

\* Whether block p is asked for, or a load of it under way.
OnItsWay(p) ==
  \/ pending[p] > 0 \/ requests[p] > 0
  \/ \E o \in BagToSet(results) \cup BagToSet(loaded) \cup BagToSet(loadInbox) : o.pos = p

\* The stream or the generator panics.  The pool takes the task out and no output
\* comes: the entry waits on, without a load unless another one is under way.
LoadPanics(p) ==
  /\ requests[p] > 0 /\ loadPanics < MaxLoadPanics
  /\ requests' = [requests EXCEPT ![p] = @ - 1]
  /\ loadPanics' = loadPanics + 1
  /\ UNCHANGED <<journalVars, blocks, loading, pending, results, loaded, loadInbox, loadErrors,
                 frameVars, filed, acked>>
  /\ stranded' = IF loading[p] > 0 /\ ~OnItsWay(p)' THEN stranded \cup {p} ELSE stranded

CompleteLoad(o) ==
  /\ BagIn(o, results)
  /\ results' = BagRemove(results, o)
  /\ loaded' = BagAdd(loaded, o)
  /\ UNCHANGED <<journalVars, blocks, waitVars, requests, loadInbox, loadErrors, loadPanics,
                 frameVars, filed, acked>>

LoadSucceeds == \E p \in Blocks : LoadFound(p) \/ LoadGenerated(p) \/ LoadNotFound(p)

LoadEnds == \E o \in BagToSet(results) : CompleteLoad(o)

SaveStep ==
  /\ J!SaveStep
  /\ UNCHANGED <<blocks, waitVars, taskVars, frameVars, filed, acked>>

-----------------------------------------------------------------------------
(* SharedVoxelData::try_edit_voxel.                                        *)

\* A block that is not resident is made, unless it may be in the stream.
MayEdit(p) == Resident(p) \/ ~StreamingEnabled

Materialized(p) ==
  IF Resident(p) THEN blocks[p] ELSE [viewers |-> 0, edits |-> {}, modified |-> FALSE]

TryEditVoxel(p) ==
  LET edit == Cardinality(UNION {acked[q] : q \in Blocks}) + 1
      old == Materialized(p)
  IN  /\ edit <= MaxEdits
      /\ MayEdit(p)
      /\ blocks' = [blocks EXCEPT ![p] = [old EXCEPT !.edits = @ \cup {edit}, !.modified = TRUE]]
      /\ acked' = [acked EXCEPT ![p] = @ \cup {edit}]
      /\ UNCHANGED <<journalVars, waitVars, taskVars, frameVars, filed>>

-----------------------------------------------------------------------------

Next ==
  \/ Drain
  \/ \E r \in [Viewers -> Ranges] : PairViewers(r)
  \/ \E v \in Viewers, p \in Blocks : Unview(v, p) \/ View(v, p)
  \/ SendDataLoadRequests
  \/ ApplyDataBlockResponse \/ ApplySaveResponse
  \/ LoadSucceeds \/ (\E p \in Blocks : LoadFails(p)) \/ (\E p \in Blocks : LoadPanics(p)) \/ LoadEnds
  \/ SaveStep
  \/ \E p \in Blocks : TryEditVoxel(p)

Spec == Init /\ [][Next]_vars

-----------------------------------------------------------------------------
(* Properties.                                                             *)

Kinds == {"loaded", "dropped", "notFound"}
Results == [pos : Blocks, kind : Kinds, voxels : 0 .. MaxGeneration]
BlockStates == {NoBlock} \cup [viewers : Nat, edits : SUBSET (1 .. MaxEdits), modified : BOOLEAN]

\* Types; the refcounts of viewers and loads never go below zero, and view
\* and unview are over before the frame goes on.
TypeOK ==
  /\ J!TypeOK
  /\ blocks \in [Blocks -> BlockStates]
  /\ loading \in [Blocks -> Nat] /\ pending \in [Blocks -> Nat] /\ requests \in [Blocks -> Nat]
  /\ \A b \in {results, loaded, loadInbox} : IsABag(b) /\ BagToSet(b) \subseteq Results
  /\ ranges \in [Viewers -> Ranges]
  /\ unviews \subseteq Viewers \X Blocks /\ views \subseteq Viewers \X Blocks
  /\ step \in {"idle", "started", "paging", "sent", "meshing"}
  /\ step # "paging" => unviews = {} /\ views = {}
  /\ filed \in [1 .. MaxGeneration -> SUBSET (1 .. MaxEdits)]
  /\ acked \in [Blocks -> SUBSET (1 .. MaxEdits)]
  /\ stranded \subseteq Blocks
  /\ loadErrors \in 0 .. MaxLoadErrors /\ loadPanics \in 0 .. MaxLoadPanics

\* The viewers that reference p: those in range, the frame's work considered.
Referencing(p) ==
  {v \in Viewers : \/ p \in ranges[v] /\ <<v, p>> \notin views
                   \/ <<v, p>> \in unviews}

\* The references of a block are its viewers, before, during and after its
\* load: "high bits track retries, low bits track viewers" (lines 793-794) must not
\* change how many viewers a block gets.
RefcountsExact ==
  \A p \in Blocks :
    /\ Cardinality(Referencing(p)) = IF Resident(p) THEN blocks[p].viewers ELSE loading[p]
    /\ Resident(p) => loading[p] = 0

\* A block with an entry in loading_blocks is asked for or on its way, unless
\* its loads gave up or the last of them panicked: nothing else, no order of
\* viewers, retries, edits and late results, makes a viewer wait for a load
\* that nobody makes.
LoadUnderWay ==
  \A p \in DOMAIN loading :
    loading[p] \in 1 .. RetryCap - 1 /\ ~Resident(p) /\ p \notin stranded => OnItsWay(p)

\* A block with a viewer that references it is not unloaded.
StaysWhileReferenced ==
  [][\A p \in Blocks : Resident(p) /\ ~Resident(p)' => Referencing(p)' = {}]_vars

\* No edit that was acknowledged is overwritten in memory: it is in the block
\* or in voxels that were handed to the journal.
EditsAreKept ==
  \A p \in DOMAIN acked :
    acked[p] \subseteq blocks[p].edits \cup UNION {filed[g] : g \in DOMAIN filed}

\* "Streams persist voxel data" (doc/source/streams.md:3): the last voxels of
\* an unloaded block, which are or will be in the stream, have all its edits.
NoEditIsLost ==
  \A p \in Blocks : ~Resident(p) => acked[p] \subseteq EditsIn(newest[p])

-----------------------------------------------------------------------------
(* Liveness.  process() is called frame after frame, workers run the tasks *)
(* of the pool; the bound on errors says that the stream recovers.         *)

Fairness ==
  /\ WF_vars(Drain)
  /\ WF_vars(\E r \in [Viewers -> Ranges] : PairViewers(r))
  /\ WF_vars(\E v \in Viewers, p \in Blocks : Unview(v, p) \/ View(v, p))
  /\ WF_vars(SendDataLoadRequests)
  /\ WF_vars(ApplyDataBlockResponse)
  /\ WF_vars(ApplySaveResponse)
  /\ \A p \in Blocks : SF_vars(LoadFound(p) \/ LoadGenerated(p) \/ LoadNotFound(p))
  /\ \A p \in Blocks : WF_vars(\E o \in BagToSet(results) : o.pos = p /\ CompleteLoad(o))
  /\ WF_vars(SaveStep)

FairSpec == Spec /\ Fairness

\* A block that stays in range gets resident, also when it was unloaded with
\* its load still under way; unless the last load it waits for panics.
InRangeGetsResident ==
  \A v \in Viewers : \A p \in Blocks :
    p \in ranges[v] ~> (Resident(p) \/ p \notin ranges[v] \/ p \in stranded)

\* A block that stays out of every range is unloaded: "the paging orchestrator
\* ... unloads what left range" (doc/source/concepts/architecture.md:63).
OutOfRangeIsUnloaded ==
  \A p \in Blocks :
    (\A v \in Viewers : p \notin ranges[v])
      ~> (~Resident(p) \/ \E v \in Viewers : p \in ranges[v])

=============================================================================
