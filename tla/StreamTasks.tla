---------------------------- MODULE StreamTasks ----------------------------
(***************************************************************************)
(* Tasks that load and save blocks through a stream, and the tracker that  *)
(* counts a batch of saves: streams/load_block_data_task.rs,               *)
(* streams/save_block_data_task.rs, tasks/async_dependency_tracker.rs,     *)
(* engine/streaming_dependency.rs, tasks/cancellation_token.rs.            *)
(*                                                                         *)
(* Every call of the tracker runs under its mutex: one step.  Savers of a  *)
(* batch run concurrently, and the client may set the count and the        *)
(* follow-ups, abort, cancel or replace the stream at any moment.          *)
(***************************************************************************)
EXTENDS Integers, Sequences, FiniteSets

CONSTANTS Savers, Loads,  \* tasks that were made; NextTasks: the follow-ups of the batch
          NextTasks

ASSUME StreamTasksAssumption == IsFiniteSet(Savers)

VARIABLES tracker,  \* count, aborted, started (tasks_have_started), countSet, next
          save,     \* save[s]: pc, voxels, error, trackerError, followUps, output
          load,     \* load[l]: pc, tooFar, output, followUps
          valid,    \* StreamingDependency.valid of the stream the tasks were made with
          cancelled,\* the cancellation token of the loads
          written,  \* saves whose voxels the stream has accepted or refused
          flushed   \* the writes that had returned when the stream was flushed, per flush

streamTaskVars == <<tracker, save, load, valid, cancelled, written, flushed>>

NoOutput == "none"

-----------------------------------------------------------------------------
\* AsyncDependencyTracker

SetCount(count) ==
  /\ ~ tracker.started /\ ~ tracker.aborted /\ ~ tracker.countSet
  /\ tracker' = [tracker EXCEPT !.countSet = TRUE, !.count = count]
  /\ UNCHANGED <<save, load, valid, cancelled, written, flushed>>

SetNextTasks ==
  /\ ~ tracker.started /\ ~ tracker.aborted /\ tracker.next = {}
  /\ tracker' = [tracker EXCEPT !.next = NextTasks]
  /\ UNCHANGED <<save, load, valid, cancelled, written, flushed>>

PostError == CASE tracker.aborted -> "PostCompleteAfterAbort"
               [] ~ tracker.aborted /\ tracker.count <= 0 -> "PostCompleteTooManyTimes"
               [] OTHER -> "none"
\* Mutant: every counted completion takes the follow-ups.
WasCounted == PostError = "none"

WasLast == PostError = "none" /\ tracker.count = 1

\* the tracker after post_complete; the last one takes the follow-ups
Posted ==
  IF PostError # "none"
    THEN [tracker EXCEPT !.started = TRUE]
    ELSE [tracker EXCEPT !.started = TRUE, !.count = @ - 1, !.next = IF WasLast THEN {} ELSE @]

Aborted == [tracker EXCEPT !.aborted = TRUE, !.started = TRUE, !.next = {}]

\* the client gives the batch up
Abort ==
  /\ ~ tracker.aborted
  /\ tracker' = Aborted
  /\ UNCHANGED <<save, load, valid, cancelled, written, flushed>>

-----------------------------------------------------------------------------
\* SaveBlockDataTask: run_save

\* without voxels the task aborts the batch and reports that nothing was saved
SaveNothing(s) ==
  /\ save[s].pc = "queued" /\ ~ save[s].voxels
  /\ tracker' = Aborted
  /\ save' = [save EXCEPT ![s].pc = "done", ![s].output = "dropped"]
  /\ UNCHANGED <<load, valid, cancelled, written, flushed>>

\* stream.save_voxel_block, with or without an error
SaveWrites(s) ==
  /\ save[s].pc = "queued" /\ save[s].voxels
  /\ \E error \in BOOLEAN : save' = [save EXCEPT ![s].pc = "written", ![s].error = error]
  /\ written' = written \cup {s}
  /\ UNCHANGED <<tracker, load, valid, cancelled, flushed>>

\* the completion is posted whether the write failed or not
SavePosts(s) ==
  /\ save[s].pc = "written"
  /\ save' = [save EXCEPT ![s].pc = IF WasLast THEN "flush" ELSE "answer",
                          ![s].trackerError = PostError,
                          ![s].followUps = IF WasLast THEN tracker.next ELSE {}]
  /\ tracker' = Posted
  /\ UNCHANGED <<load, valid, cancelled, written, flushed>>

\* flush_on_last_tracked_task: a flush that fails is an error of this save
SaveFlushes(s) ==
  /\ save[s].pc = "flush"
  /\ \E error \in BOOLEAN :
       save' = [save EXCEPT ![s].pc = "answer", ![s].error = @ \/ error]
  /\ flushed' = flushed \cup {written}
  /\ UNCHANGED <<tracker, load, valid, cancelled, written>>

\* after an error the voxels go back with the output, to be saved again
SaveAnswers(s) ==
  /\ save[s].pc = "answer"
  /\ save' = [save EXCEPT ![s].pc = "done",
                          ![s].output = IF save[s].error THEN "dropped_with_voxels" ELSE "saved"]
  /\ UNCHANGED <<tracker, load, valid, cancelled, written, flushed>>

\* The stream panics, in the write (which may have been done) or in the flush.  The pool takes
\* the task out: no output comes, the completion of a write that panics is never posted, and
\* the follow-ups taken before a flush that panics are gone.
SavePanics(s) ==
  /\ save[s].pc = "flush" \/ (save[s].pc = "queued" /\ save[s].voxels)
  /\ save' = [save EXCEPT ![s].pc = "panicked", ![s].followUps = {}]
  /\ written' \in {written, written \cup {s}}
  /\ UNCHANGED <<tracker, load, valid, cancelled, flushed>>

-----------------------------------------------------------------------------
\* LoadBlockDataTask

\* priority() compares the distance of the viewers with the drop distance
LoadPriority(l) ==
  /\ load[l].pc = "queued"
  /\ \E tooFar \in BOOLEAN : load' = [load EXCEPT ![l].tooFar = tooFar, ![l].pc = "picked"]
  /\ UNCHANGED <<tracker, save, valid, cancelled, written, flushed>>

IsCancelled(l) == ~ valid \/ cancelled \/ load[l].tooFar

LoadDropped(l) ==
  /\ load[l].pc = "picked" /\ IsCancelled(l)
  /\ load' = [load EXCEPT ![l].pc = "dropped"]
  /\ UNCHANGED <<tracker, save, valid, cancelled, written, flushed>>

LoadStarts(l) ==
  /\ load[l].pc = "picked" /\ ~ IsCancelled(l)
  /\ load' = [load EXCEPT ![l].pc = "running"]
  /\ UNCHANGED <<tracker, save, valid, cancelled, written, flushed>>

\* run_load: found; an error (delivered as Loaded without voxels); not found, and then
\* one of: an answer, a buffer to be generated by the caller, a generation task
LoadResults == {[output |-> "loaded", followUp |-> FALSE],
                [output |-> "loaded_dropped", followUp |-> FALSE],
                [output |-> "not_found", followUp |-> FALSE],
                [output |-> "needs_generation", followUp |-> FALSE],
                [output |-> NoOutput, followUp |-> TRUE]}

LoadRuns(l) ==
  /\ load[l].pc = "running"
  /\ \E r \in LoadResults :
       load' = [load EXCEPT ![l].pc = "done", ![l].output = r.output, ![l].followUp = r.followUp]
  /\ UNCHANGED <<tracker, save, valid, cancelled, written, flushed>>

\* the stream panics: no answer and no task that generates
LoadPanics(l) ==
  /\ load[l].pc = "running"
  /\ load' = [load EXCEPT ![l].pc = "panicked"]
  /\ UNCHANGED <<tracker, save, valid, cancelled, written, flushed>>

-----------------------------------------------------------------------------
\* StreamingDependency::reset, when the stream is replaced: invalidate() the old one
ReplaceStream ==
  /\ valid
  /\ valid' = FALSE
  /\ UNCHANGED <<tracker, save, load, cancelled, written, flushed>>

CancelToken ==
  /\ ~ cancelled
  /\ cancelled' = TRUE
  /\ UNCHANGED <<tracker, save, load, valid, written, flushed>>

StreamTasksInit ==
  /\ \E count \in 0 .. Cardinality(Savers), countSet \in BOOLEAN :
       /\ ~ countSet => count = 0
       /\ tracker = [count |-> count, aborted |-> FALSE, started |-> FALSE,
                     countSet |-> countSet, next |-> {}]
  /\ save \in [Savers -> [pc : {"queued"}, voxels : BOOLEAN, error : {FALSE},
                          trackerError : {"none"}, followUps : {{}}, output : {NoOutput}]]
  /\ load = [l \in Loads |-> [pc |-> "queued", tooFar |-> FALSE, output |-> NoOutput,
                              followUp |-> FALSE]]
  /\ valid = TRUE /\ cancelled = FALSE
  /\ written = {} /\ flushed = {}

Saving(s) == SaveNothing(s) \/ SaveWrites(s) \/ SavePosts(s) \/ SaveFlushes(s) \/ SaveAnswers(s)
             \/ SavePanics(s)
Loading(l) == LoadPriority(l) \/ LoadDropped(l) \/ LoadStarts(l) \/ LoadRuns(l) \/ LoadPanics(l)
Client == (\E n \in 0 .. Cardinality(Savers) : SetCount(n)) \/ SetNextTasks \/ Abort
          \/ ReplaceStream \/ CancelToken

StreamTasksNext == Client \/ (\E s \in Savers : Saving(s)) \/ (\E l \in Loads : Loading(l))

StreamTasksSpec == StreamTasksInit /\ [][StreamTasksNext]_streamTaskVars

-----------------------------------------------------------------------------
\* saves whose completion the tracker counted
Counted == {s \in Savers : save[s].pc \in {"flush", "answer", "done"} /\ save[s].voxels
                           /\ save[s].trackerError = "none"}
Takers == {s \in Savers : save[s].followUps # {}}

\* FollowUpsRunOnce: the follow-ups of a batch are in the tracker or with at most one task,
\* whatever the order in which the saves complete or panic; a task that has them saw the count of the
\* batch reach zero, and a batch that was given up before releases none.
FollowUpsRunOnce ==
  /\ Cardinality(Takers) <= 1
  /\ Takers # {} => tracker.next = {} /\ tracker.count = 0
  /\ tracker.aborted => tracker.next = {}
  /\ tracker.started /\ ~ tracker.aborted /\ tracker.count = 0 => tracker.next = {} \/ Counted = {}

\* FlushCoversTheBatch: a flush comes after the write of every save the tracker counted.
FlushCoversTheBatch == \A w \in flushed : Counted \subseteq w

\* NoSaveIsLostInSilence: a save is never cancelled, not even when the stream was replaced:
\* done (the stream returned) means written, or an output that says it was dropped, with its
\* voxels if it had any; and a load that ran answers once, with an output or a task that generates.
NoSaveIsLostInSilence ==
  /\ \A s \in Savers : save[s].pc = "done" =>
       CASE save[s].output = "saved" -> s \in written /\ ~ save[s].error
         [] save[s].output = "dropped_with_voxels" -> save[s].voxels /\ save[s].error
         [] OTHER -> ~ save[s].voxels /\ tracker.aborted
  /\ \A l \in Loads : load[l].pc = "done" => (load[l].output = NoOutput <=> load[l].followUp)

\* BatchSettles: in every order of completions, failures, panics and abort, the follow-ups of a
\* batch of saves run at most once and after all, a flush comes after all writes, and no save
\* whose stream returned ends in silence.
BatchSettles == FollowUpsRunOnce /\ FlushCoversTheBatch /\ NoSaveIsLostInSilence
=============================================================================
