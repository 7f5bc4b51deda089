---------------------------- MODULE SaveJournal ----------------------------
(***************************************************************************)
(* The save journal of VoxelTerrainCore (terrain/voxel_terrain_core.rs):   *)
(* what becomes of the modified blocks that leave memory.                  *)
(*                                                                         *)
(* Every unload of a modified block gets a generation and is filed under   *)
(* its key.  A key has at most one save task under way; what is filed in   *)
(* the meantime waits in the entry.  Save tasks are serial tasks of the    *)
(* thread pool (see TaskRunner), so one runs at a time; a task that fails  *)
(* brings the voxels back.  Shutdown retries a fixed number of times.      *)
(*                                                                         *)
(* The voxels of a block are represented by the generation under which     *)
(* they were first filed; None is the absence of voxels.  The retry_count  *)
(* of an entry is written and never read: it is left out.                  *)
(***************************************************************************)
EXTENDS Integers, FiniteSets

CONSTANTS
  Keys,                      \* SaveKey: a position and a LOD
  MaxShutdownSaveAttempts,   \* MAX_SHUTDOWN_SAVE_ATTEMPTS (8 in the code)
  MaxGeneration,             \* bound: unloads of modified blocks
  MaxErrors,                 \* bound: stream errors
  MaxPanics,                 \* bound: save tasks that panic
  ErrorsMayStore             \* whether a write that fails may have been done

ASSUME JournalAssumption ==
  /\ IsFiniteSet(Keys)
  /\ MaxShutdownSaveAttempts \in Nat \ {0}
  /\ MaxGeneration \in Nat /\ MaxErrors \in Nat /\ MaxPanics \in Nat
  /\ ErrorsMayStore \in BOOLEAN

VARIABLES
  journal,         \* save_journal; an absent key has the entry NoEntry
  nextGeneration,  \* next_save_generation
  queue,           \* save tasks waiting in the pool
  running,         \* the save task that runs, if any: a set of at most one
  completed,       \* outputs of the tasks that ended, in the pool
  inbox,           \* outputs drain_completed_tasks has still to apply
  stored,          \* stored[k]: the voxels the stream holds for k
  phase,           \* where shutdown_and_flush is
  attempt,         \* its loop counter
  result,          \* what it returned or is about to return
  unsaved,         \* the count of its UnsavedBlocks error
  newest,          \* history: newest[k], the last voxels of k that were filed
  lost,            \* history: voxels that went with a panicked task
  errors           \* bound: stream errors so far

journalVars == <<journal, nextGeneration>>
poolVars == <<queue, running, completed>>
shutdownVars == <<phase, attempt, result, unsaved>>
historyVars == <<newest, lost, errors>>
vars == <<journalVars, poolVars, inbox, stored, shutdownVars, historyVars>>

None == 0   \* generations start at 1

NoEntry == [generation |-> None, queued |-> FALSE, inFlight |-> None, voxels |-> None]

Journaled == {k \in Keys : journal[k].generation # None}

Init ==
  /\ journal = [k \in Keys |-> NoEntry]
  /\ nextGeneration = 1
  /\ queue = {} /\ running = {} /\ completed = {} /\ inbox = {}
  /\ stored = [k \in Keys |-> None]
  /\ phase = "open" /\ attempt = 0 /\ result = "none" /\ unsaved = 0
  /\ newest = [k \in Keys |-> None]
  /\ lost = {}
  /\ errors = 0

-----------------------------------------------------------------------------
(* The owner's side: filing, dispatching and applying outputs.             *)

\* Mutant: a second task for a key whose save is still under way.
CanDispatchAgain(e) == e.queued /\ e.voxels # None

CanDispatch(e) == e.queued /\ e.inFlight = None /\ e.voxels # None

Dispatched(e) == [e EXCEPT !.queued = FALSE, !.inFlight = e.generation, !.voxels = None]

SaveTask(k, e) == [key |-> k, generation |-> e.generation, voxels |-> e.voxels]

\* dispatch_queued_save on the entry e, which becomes the one of k.
FileAndDispatch(k, e) ==
  IF CanDispatch(e)
  THEN /\ journal' = [journal EXCEPT ![k] = Dispatched(e)]
       /\ queue' = queue \cup {SaveTask(k, e)}
  ELSE /\ journal' = [journal EXCEPT ![k] = e]
       /\ UNCHANGED queue

\* Mutant: voxels that wait for the save under way are not replaced.
FiledOnce(e, g) ==
  [e EXCEPT !.generation = g, !.queued = TRUE,
            !.voxels = IF e.voxels = None THEN g ELSE e.voxels]

\* The entry after a new unload: what it had queued is superseded.
Filed(e, g) == [e EXCEPT !.generation = g, !.voxels = g, !.queued = TRUE]

\* enqueue_data_save, for the modified block of k that has lost its viewers.
EnqueueDataSave(k) ==
  /\ phase = "open" /\ inbox = {}
  /\ nextGeneration <= MaxGeneration
  /\ FileAndDispatch(k, Filed(journal[k], nextGeneration))
  /\ nextGeneration' = nextGeneration + 1
  /\ newest' = [newest EXCEPT ![k] = nextGeneration]
  /\ UNCHANGED <<running, completed, inbox, stored, shutdownVars, lost, errors>>

DrainCompletedTasks ==
  /\ phase = "open" /\ inbox = {} /\ completed # {}
  /\ inbox' = completed
  /\ completed' = {}
  /\ UNCHANGED <<journalVars, queue, running, stored, shutdownVars, historyVars>>

\* Mutant: a dropped save gives the voxels back and leaves it at that.
RestoredIdle(e, o) ==
  [e EXCEPT !.voxels = IF e.voxels = None THEN o.voxels ELSE e.voxels]

\* A dropped save gives the voxels back, unless newer ones wait already.
Restored(e, o) ==
  LET voxels == IF e.voxels = None THEN o.voxels ELSE e.voxels
  IN  [e EXCEPT !.voxels = voxels, !.queued = voxels # None]

\* Mutant: the completion of an older save ends the entry of a newer one.
AfterAnySave(e, o) ==
  CASE o.dropped /\ o.generation = e.generation -> Restored(e, o)
    [] o.dropped /\ o.generation # e.generation -> e
    [] ~o.dropped -> NoEntry

\* Mutant: a dropped save ends the entry as if it had succeeded.
AfterSaveForgetting(e, o) ==
  IF o.generation # e.generation \/ e.queued THEN e ELSE NoEntry

\* The entry e, no longer in flight, after the output o of its save.
AfterSave(e, o) ==
  CASE o.generation # e.generation -> e
    [] o.generation = e.generation /\ o.dropped -> Restored(e, o)
    [] o.generation = e.generation /\ ~o.dropped -> IF e.queued THEN e ELSE NoEntry

\* A response for another generation than the one in flight is ignored.
IsInFlight(o) ==
  /\ journal[o.key].generation # None
  /\ journal[o.key].inFlight = o.generation

ApplySaveResponse(o) ==
  /\ o \in inbox
  /\ inbox' = inbox \ {o}
  /\ IF IsInFlight(o)
     THEN FileAndDispatch(o.key, AfterSave([journal[o.key] EXCEPT !.inFlight = None], o))
     ELSE UNCHANGED <<journal, queue>>
  /\ UNCHANGED <<nextGeneration, running, completed, stored, shutdownVars, historyVars>>

-----------------------------------------------------------------------------
(* The pool's side: SaveBlockDataTask::run_save.                           *)

Output(t, dropped) ==
  [key |-> t.key, generation |-> t.generation, dropped |-> dropped,
   voxels |-> IF dropped THEN t.voxels ELSE None]

\* Save tasks are enqueued as serial tasks: one at a time.
StartSave(t) ==
  /\ t \in queue /\ running = {}
  /\ queue' = queue \ {t}
  /\ running' = running \cup {t}
  /\ UNCHANGED <<journalVars, completed, inbox, stored, shutdownVars, historyVars>>

\* The task t ends with the output o, or with none.
EndTask(t, outputs) ==
  /\ t \in running
  /\ running' = running \ {t}
  /\ completed' = completed \cup outputs
  /\ UNCHANGED <<journalVars, queue, inbox, shutdownVars, newest>>

SaveSucceeds(t) ==
  /\ EndTask(t, {Output(t, FALSE)})
  /\ stored' = [stored EXCEPT ![t.key] = t.voxels]
  /\ UNCHANGED <<lost, errors>>

\* What a failed write leaves behind: the old voxels or the new ones.
MaybeStored(t) ==
  \/ UNCHANGED stored
  \/ ErrorsMayStore /\ stored' = [stored EXCEPT ![t.key] = t.voxels]

SaveFails(t) ==
  /\ errors < MaxErrors
  /\ EndTask(t, {Output(t, TRUE)})
  /\ MaybeStored(t)
  /\ errors' = errors + 1
  /\ UNCHANGED lost

\* The pool catches the panic and drops the task: voxels gone, no output.
SavePanics(t) ==
  /\ Cardinality(lost) < MaxPanics
  /\ EndTask(t, {})
  /\ MaybeStored(t)
  /\ lost' = lost \cup {t.voxels}
  /\ UNCHANGED errors

SaveStep == \E t \in queue \cup running :
  StartSave(t) \/ SaveSucceeds(t) \/ SaveFails(t) \/ SavePanics(t)

-----------------------------------------------------------------------------
(* shutdown_and_flush: dispatch what is queued, wait for the pool, apply   *)
(* the outputs; again while entries remain, then once more without the     *)
(* dispatch; at last stop the pool, which runs what is left in it.         *)

\* Mutant: waiting for an output instead of for the end of the work.
PoolDelivered == queue = {} /\ running = {} /\ completed # {}

PoolIdle == queue = {} /\ running = {}

BeginShutdown ==
  /\ phase = "open" /\ inbox = {}
  /\ phase' = "dispatching"
  /\ attempt' = 1
  /\ UNCHANGED <<journalVars, poolVars, inbox, stored, result, unsaved, historyVars>>

\* The loop over the keys of the journal; then the wait begins.
DispatchQueuedSaves ==
  LET ready == {k \in Keys : CanDispatch(journal[k])}
  IN  /\ phase = "dispatching"
      /\ journal' = [k \in Keys |-> IF k \in ready THEN Dispatched(journal[k]) ELSE journal[k]]
      /\ queue' = queue \cup {SaveTask(k, journal[k]) : k \in ready}
      /\ phase' = "waiting"
      /\ UNCHANGED <<nextGeneration, running, completed, inbox, stored, attempt, result, unsaved,
                     historyVars>>

DrainAfterWait ==
  /\ phase = "waiting" /\ PoolIdle
  /\ inbox' = completed
  /\ completed' = {}
  /\ phase' = "applying"
  /\ UNCHANGED <<journalVars, queue, running, stored, attempt, result, unsaved, historyVars>>

MayRetry == attempt <= MaxShutdownSaveAttempts

\* The journal is not empty: another round, the last one without dispatch.
NextAttempt ==
  /\ phase = "applying" /\ inbox = {} /\ Journaled # {}
  /\ MayRetry
  /\ attempt' = attempt + 1
  /\ phase' = IF attempt < MaxShutdownSaveAttempts THEN "dispatching" ELSE "waiting"
  /\ UNCHANGED <<journalVars, poolVars, inbox, stored, result, unsaved, historyVars>>

\* Mutant: a journal whose entries are all in flight counts as empty.
NothingQueued == \A k \in Keys : ~journal[k].queued

NothingJournaled == Journaled = {}

Flush ==
  /\ phase = "applying" /\ inbox = {} /\ NothingJournaled
  /\ result' \in {"ok", "streamError"}
  /\ phase' = "stopping"
  /\ UNCHANGED <<journalVars, poolVars, inbox, stored, attempt, unsaved, historyVars>>

ReportUnsaved ==
  /\ phase = "applying" /\ inbox = {} /\ Journaled # {}
  /\ ~MayRetry
  /\ result' = "unsaved"
  /\ unsaved' = Cardinality(Journaled)
  /\ phase' = "stopping"
  /\ UNCHANGED <<journalVars, poolVars, inbox, stored, attempt, historyVars>>

StopPool ==
  /\ phase = "stopping" /\ PoolIdle
  /\ phase' = "closed"
  /\ UNCHANGED <<journalVars, poolVars, inbox, stored, attempt, result, unsaved, historyVars>>

ShutdownStep ==
  DispatchQueuedSaves \/ DrainAfterWait \/ NextAttempt \/ Flush \/ ReportUnsaved \/ StopPool

Next ==
  \/ \E k \in Keys : EnqueueDataSave(k)
  \/ DrainCompletedTasks
  \/ \E o \in inbox : ApplySaveResponse(o)
  \/ SaveStep
  \/ BeginShutdown \/ ShutdownStep

Spec == Init /\ [][Next]_vars

-----------------------------------------------------------------------------
(* Properties.                                                             *)

Generations == 0 .. MaxGeneration
Entries == [generation : Generations, queued : BOOLEAN, inFlight : Generations,
            voxels : Generations]
TasksOf == [key : Keys, generation : Generations, voxels : Generations]
OutputsOf == [key : Keys, generation : Generations, dropped : BOOLEAN, voxels : Generations]

\* Types, and the bound on the rounds of shutdown_and_flush.
TypeOK ==
  /\ journal \in [Keys -> Entries]
  /\ nextGeneration \in 1 .. MaxGeneration + 1
  /\ queue \subseteq TasksOf /\ running \subseteq TasksOf
  /\ completed \subseteq OutputsOf /\ inbox \subseteq OutputsOf
  /\ stored \in [Keys -> Generations] /\ newest \in [Keys -> Generations]
  /\ phase \in {"open", "dispatching", "waiting", "applying", "stopping", "closed"}
  /\ attempt \in 0 .. MaxShutdownSaveAttempts + 1
  /\ result \in {"none", "ok", "streamError", "unsaved"}
  /\ unsaved \in Nat /\ errors \in Nat
  /\ lost \subseteq Generations

\* A save of k under way: its task waits, runs, or has an output to apply.
UnderWay(k) ==
  {x \in queue \cup running \cup completed \cup inbox : x.key = k}

\* No two saves of a block are ever under way, so they cannot overtake each
\* other in the pool, and in_flight_generation names the one there is.
OneSavePerBlock ==
  /\ \A k \in Keys :
       /\ \A x, y \in UnderWay(k) : x = y
       /\ \A x \in UnderWay(k) : x.generation = journal[k].inFlight
  /\ queue \cap running = {} /\ completed \cap inbox = {}

\* A block whose last voxels are not in the stream still has a journal entry,
\* even if a task panicked: shutdown cannot overlook it.
UnsavedIsJournaled == \A k \in Keys : stored[k] # newest[k] => k \in Journaled

\* Voxels that wait in an entry always wait for a save under way, whose output
\* dispatches them: nothing else would, frame after frame.
NothingIsStranded ==
  \A k \in Keys : journal[k].voxels # None => UnderWay(k) # {} \/ journal[k].inFlight \in lost

\* The last voxels of a block are never dropped while older ones are kept:
\* they wait in the entry, travel with the task, or are in the stream.
NewestIsHeld ==
  \A k \in Keys :
    \/ newest[k] \in {stored[k], journal[k].voxels} \cup lost
    \/ \E x \in UnderWay(k) : x.voxels = newest[k]

\* shutdown_and_flush returns Ok (or only the error of the flush) only if the
\* stream has the last voxels of every block that was unloaded.
FlushIsComplete == result \in {"ok", "streamError"} => stored = newest

\* The stream never goes back to older voxels of a block.
StreamNeverRegresses == [][\A k \in Keys : stored'[k] >= stored[k]]_vars

\* Unloading, saving and closing a terrain is a write-back store.
Store == INSTANCE WriteBack WITH
           latest  <- newest,
           durable <- stored,
           status  <- CASE result = "none" -> "open"
                        [] result \in {"ok", "streamError"} -> "flushed"
                        [] result = "unsaved" -> "lossy"

ImplementsWriteBack == Store!Spec

-----------------------------------------------------------------------------
(* Liveness.  The terrain is processed every frame until it is shut down,  *)
(* the pool runs its tasks (TaskRunner!EveryTaskSettles) and each save     *)
(* ends; the bound on errors says that the stream recovers.                *)

Fairness ==
  /\ WF_vars(DrainCompletedTasks)
  /\ WF_vars(\E o \in inbox : ApplySaveResponse(o))
  /\ WF_vars(SaveStep)
  /\ WF_vars(ShutdownStep)

FairSpec == Spec /\ Fairness

\* Every block that was unloaded modified gets into the stream, itself or by
\* newer voxels, whatever errors the stream recovers from, unless a save task
\* of the block panicked: its entry stays in flight for ever.
EveryUnloadIsSaved ==
  \A k \in Keys : \A g \in 1 .. MaxGeneration :
    newest[k] = g ~> stored[k] >= g \/ journal[k].inFlight \in lost

\* shutdown_and_flush returns, whatever fails.
ShutdownReturns == phase = "dispatching" ~> phase = "closed"

=============================================================================
