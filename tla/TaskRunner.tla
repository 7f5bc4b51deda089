----------------------------- MODULE TaskRunner -----------------------------
(***************************************************************************)
(* The thread pool of voxel-core: tasks/threaded_task_runner.rs.           *)
(*                                                                         *)
(* Client threads hand tasks over through a staging list with a lock of    *)
(* its own and then post the work semaphore, one permit per task.  A       *)
(* worker takes a permit, and in one critical section of the state lock    *)
(* moves the staged tasks to the queue, may drop the cancelled ones and    *)
(* picks a task; it runs it without any lock and reports the outcome in a  *)
(* second critical section.  Serial tasks run one at a time; a task that   *)
(* postpones itself goes to a FIFO of spinning tasks, with which the       *)
(* prioritised queue alternates.                                           *)
(*                                                                         *)
(* Two abstractions.  The queue is a set: its order is the priorities the  *)
(* tasks themselves report at each refresh, so any eligible task can be    *)
(* the next.  The 32 ms refresh period is a choice: a refresh is due       *)
(* whenever it likes, and certain when tasks were just staged.             *)
(***************************************************************************)
EXTENDS Integers, Sequences, FiniteSets

CONSTANTS
  Tasks,        \* the tasks clients and follow-ups may hand to the pool
  Serial,       \* those enqueued with serial = true
  Cancellable,  \* those whose cancellation token somebody may fire
  Panicky,      \* those whose priority() or is_cancelled() may panic
  FollowUps,    \* FollowUps[t]: the tasks that t, once run, asks to enqueue
  Workers,      \* the threads set_thread_count may spawn
  ThreadSets,   \* the sets of threads the owner may ask for, {} for none
  Clients,      \* the threads that share the runner by reference
  NoTask        \* a worker that holds no task

ASSUME TasksAssumption ==
  /\ Serial \subseteq Tasks
  /\ Cancellable \subseteq Tasks
  /\ Panicky \subseteq Tasks
  /\ FollowUps \in [Tasks -> SUBSET Tasks]
  /\ \A t, u \in Tasks : t # u => FollowUps[t] \cap FollowUps[u] = {}
  /\ NoTask \notin Tasks
  /\ ThreadSets \subseteq SUBSET Workers
  /\ IsFiniteSet(Tasks)
  /\ IsFiniteSet(Workers)

VARIABLES
  fresh,            \* tasks nobody has handed over yet
  staged,           \* Shared.staged_tasks
  tasks,            \* RunnerState.tasks
  spinning,         \* RunnerState.spinning_tasks
  completed,        \* RunnerState.completed_tasks
  drained,          \* completed tasks a client has taken back
  gone,             \* tasks the pool let go of: TakenOut, or dropped by a panic
  ran,              \* tasks whose run() returned Complete
  cancelled,        \* tasks whose is_cancelled() answers true
  runningCount,     \* RunnerState.running_count
  serialRunning,    \* RunnerState.serial_running
  preferPostponed,  \* RunnerState.prefer_postponed_next
  stopping,         \* RunnerState.stopping
  permits,          \* the count of work_semaphore
  wpc, wtask,       \* per worker: where it is in worker_loop, the task it holds
  cpc, cbatch,      \* per client: where it is in its call, the tasks of the call
  opc, target,      \* the exclusive owner: where it is, the threads it will spawn
  handles           \* ThreadedTaskRunner.handles

taskVars   == <<fresh, staged, tasks, spinning, completed, drained, gone, ran>>
gateVars   == <<runningCount, serialRunning, preferPostponed>>
workerVars == <<wpc, wtask>>
clientVars == <<cpc, cbatch>>
ownerVars  == <<opc, target, handles, stopping>>

vars == <<taskVars, gateVars, workerVars, clientVars, ownerVars, cancelled, permits>>

-----------------------------------------------------------------------------

Spinning == {spinning[i] : i \in DOMAIN spinning}

\* Every follow-up reaches the pool through the task that asks for it.
IsFollowUp(t) == \E u \in Tasks : t \in FollowUps[u]

\* A worker is between its pick and the report of the outcome.
Busy(w) == wpc[w] \in {"picked", "running"}

HasQueuedTasks == tasks # {} \/ spinning # <<>>

\* Mutant: running tasks forgotten.
OnlyQueuedTasks == HasQueuedTasks

HasPendingOrRunningTasks == HasQueuedTasks \/ runningCount # 0

\* wait_for_all_tasks returns when this holds.
Quiescent == ~HasPendingOrRunningTasks /\ staged = {}

Eligible(t) == ~(t \in Serial /\ serialRunning)

Init ==
  /\ fresh = Tasks
  /\ staged = {} /\ tasks = {} /\ spinning = <<>>
  /\ completed = {} /\ drained = {} /\ gone = {} /\ ran = {} /\ cancelled = {}
  /\ runningCount = 0 /\ serialRunning = FALSE /\ preferPostponed = FALSE
  /\ stopping = FALSE /\ permits = 0
  /\ wpc = [w \in Workers |-> "none"]
  /\ wtask = [w \in Workers |-> NoTask]
  /\ cpc = [c \in Clients |-> "idle"]
  /\ cbatch = [c \in Clients |-> {}]
  /\ opc = "idle" /\ target = {} /\ handles = {}

\* cvar.notify_all: whoever sleeps in wait_for_all_tasks will look again.
NotifyAll ==
  /\ cpc' = [c \in Clients |-> IF cpc[c] = "blocked" THEN "woken" ELSE cpc[c]]
  /\ opc' = IF opc = "blocked" THEN "woken" ELSE opc

-----------------------------------------------------------------------------
(* Clients.  They hold the runner by shared reference, so none of these    *)
(* calls overlaps an operation of the owner, which needs it exclusively.   *)

\* enqueue (one task) and enqueue_many: the first half, under the staging lock.
Enqueue(c, S) ==
  /\ opc = "idle" /\ cpc[c] = "idle"
  /\ S # {} /\ S \subseteq {t \in fresh : ~IsFollowUp(t)}
  /\ fresh' = fresh \ S
  /\ staged' = staged \cup S
  /\ cpc' = [cpc EXCEPT ![c] = "posting"]
  /\ cbatch' = [cbatch EXCEPT ![c] = S]
  /\ UNCHANGED <<tasks, spinning, completed, drained, gone, ran, gateVars,
                 workerVars, ownerVars, cancelled, permits>>

\* The second half: one post per task, after the lock is released.
PostBatch(c) ==
  /\ cpc[c] = "posting"
  /\ permits' = permits + Cardinality(cbatch[c])
  /\ cpc' = [cpc EXCEPT ![c] = "idle"]
  /\ cbatch' = [cbatch EXCEPT ![c] = {}]
  /\ UNCHANGED <<taskVars, gateVars, workerVars, ownerVars, cancelled>>

FollowUpsOf(S) == UNION {FollowUps[t] : t \in S \cap ran}

\* drain_completed_tasks (followUps = {}: the caller does not look at them) and
\* drain_completed_tasks_and_enqueue_followups, which releases the state lock
\* before it collects the follow-ups and stages them.
Drain(c, followUps) ==
  /\ opc = "idle" /\ cpc[c] = "idle" /\ completed # {}
  /\ drained' = drained \cup completed
  /\ completed' = {}
  /\ cpc' = [cpc EXCEPT ![c] = IF followUps = {} THEN "idle" ELSE "pushing"]
  /\ cbatch' = [cbatch EXCEPT ![c] = followUps]
  /\ UNCHANGED <<fresh, staged, tasks, spinning, gone, ran, gateVars, workerVars,
                 ownerVars, cancelled, permits>>

PushFollowUps(c) ==
  /\ cpc[c] = "pushing"
  /\ fresh' = fresh \ cbatch[c]
  /\ staged' = staged \cup cbatch[c]
  /\ cpc' = [cpc EXCEPT ![c] = "posting"]
  /\ UNCHANGED <<tasks, spinning, completed, drained, gone, ran, gateVars, cbatch,
                 workerVars, ownerVars, cancelled, permits>>

\* wait_for_all_tasks: the first look.  A call that finds the pool idle
\* returns at once.
BeginWait(c) ==
  /\ opc = "idle" /\ cpc[c] = "idle" /\ ~Quiescent
  /\ cpc' = [cpc EXCEPT ![c] = "blocked"]
  /\ UNCHANGED <<taskVars, gateVars, workerVars, cbatch, ownerVars, cancelled, permits>>

\* ... and the look after each notification.
RecheckWait(c) ==
  /\ cpc[c] = "woken"
  /\ cpc' = [cpc EXCEPT ![c] = IF Quiescent THEN "idle" ELSE "blocked"]
  /\ UNCHANGED <<taskVars, gateVars, workerVars, cbatch, ownerVars, cancelled, permits>>

\* The environment fires the token of a task, wherever the task is.
Cancel(t) ==
  /\ t \in Cancellable \ cancelled
  /\ cancelled' = cancelled \cup {t}
  /\ UNCHANGED <<taskVars, gateVars, workerVars, clientVars, ownerVars, permits>>

-----------------------------------------------------------------------------
(* Workers.                                                                *)

CanTakePermit == permits > 0

\* work_semaphore.wait returns.
TakePermit(w) ==
  /\ wpc[w] = "waiting" /\ CanTakePermit
  /\ permits' = permits - 1
  /\ wpc' = [wpc EXCEPT ![w] = "awake"]
  /\ UNCHANGED <<taskVars, gateVars, wtask, clientVars, ownerVars, cancelled>>

ExitStopping(w) ==
  /\ wpc[w] = "awake" /\ stopping
  /\ wpc' = [wpc EXCEPT ![w] = "exited"]
  /\ UNCHANGED <<taskVars, gateVars, wtask, clientVars, ownerVars, cancelled, permits>>

\* Mutant: the staging list is cleared without being moved.
JoinedWithoutStaged == tasks

\* The queue once the staged tasks have joined it.
Joined == tasks \cup staged

\* The outcomes of the refresh: the cancelled tasks it moves to completed.
\* A refresh that is not due moves none; newly staged tasks force one.
Refreshed == {Joined \cap cancelled} \cup (IF staged = {} THEN {{}} ELSE {})

\* Mutant: cancelled tasks completed behind the back of the waiters.
RefreshSilently(dropped) ==
  /\ staged' = {}
  /\ completed' = completed \cup dropped
  /\ UNCHANGED <<cpc, opc>>

\* What drain_staged_tasks and refresh_priorities_and_complete_cancelled do
\* before a pick: `dropped' are the cancelled tasks, and waiters are notified
\* when there are any.
Refresh(dropped) ==
  /\ staged' = {}
  /\ completed' = completed \cup dropped
  /\ IF dropped # {} THEN NotifyAll ELSE UNCHANGED <<cpc, opc>>

\* Mutant: pop_front, the gate not looked at.
FirstUngated == {i \in DOMAIN spinning : i = 1}

\* The spinning tasks pick_postponed_task may return: the first eligible one.
FirstPostponed ==
  {i \in DOMAIN spinning :
     Eligible(spinning[i]) /\ \A j \in 1 .. i - 1 : ~Eligible(spinning[j])}

WithoutIndex(s, i) == SubSeq(s, 1, i - 1) \o SubSeq(s, i + 1, Len(s))

Taken(w, t, prefer) ==
  /\ preferPostponed' = prefer
  /\ serialRunning' = (serialRunning \/ t \in Serial)
  /\ runningCount' = runningCount + 1
  /\ wpc' = [wpc EXCEPT ![w] = "picked"]
  /\ wtask' = [wtask EXCEPT ![w] = t]

\* Mutant: postponed tasks first, always.
HoldPostponedFirst(w, t) == Taken(w, t, TRUE)

\* The common end of a successful pick_next_task: the preference alternates.
Hold(w, t) == Taken(w, t, ~preferPostponed)

PickPrioritized(w) ==
  /\ wpc[w] = "awake" /\ ~stopping
  /\ \E dropped \in Refreshed : \E t \in Joined \ dropped :
       /\ Eligible(t)
       /\ preferPostponed => FirstPostponed = {}
       /\ Refresh(dropped)
       /\ tasks' = (Joined \ dropped) \ {t}
       /\ Hold(w, t)
  /\ UNCHANGED <<fresh, spinning, drained, gone, ran, cbatch, target, handles,
                 stopping, cancelled, permits>>

PickPostponed(w) ==
  /\ wpc[w] = "awake" /\ ~stopping
  /\ \E dropped \in Refreshed : \E i \in FirstPostponed :
       /\ preferPostponed \/ \A t \in Joined \ dropped : ~Eligible(t)
       /\ Refresh(dropped)
       /\ tasks' = Joined \ dropped
       /\ spinning' = WithoutIndex(spinning, i)
       /\ Hold(w, spinning[i])
  /\ UNCHANGED <<fresh, drained, gone, ran, cbatch, target, handles, stopping,
                 cancelled, permits>>

\* Nothing to pick: the permit is spent and the worker waits again.
PickNothing(w) ==
  /\ wpc[w] = "awake" /\ ~stopping
  /\ FirstPostponed = {}
  /\ \E dropped \in Refreshed :
       /\ \A t \in Joined \ dropped : ~Eligible(t)
       /\ Refresh(dropped)
       /\ tasks' = Joined \ dropped
  /\ wpc' = [wpc EXCEPT ![w] = "waiting"]
  /\ UNCHANGED <<fresh, spinning, drained, gone, ran, gateVars, wtask, cbatch, target,
                 handles, stopping, cancelled, permits>>

\* priority() or is_cancelled() panics inside the refresh, which no
\* catch_unwind surrounds: the thread unwinds and ends.  The cancelled tasks
\* it had reached are completed, nobody is notified, the culprit stays queued.
PanicInRefresh(w) ==
  /\ wpc[w] = "awake" /\ ~stopping
  /\ Joined \cap Panicky # {}
  /\ \E reached \in SUBSET (Joined \cap cancelled) :
       /\ (Joined \ reached) \cap Panicky # {}
       /\ completed' = completed \cup reached
       /\ tasks' = Joined \ reached
  /\ staged' = {}
  /\ wpc' = [wpc EXCEPT ![w] = "dead"]
  /\ UNCHANGED <<fresh, spinning, drained, gone, ran, gateVars, wtask, clientVars,
                 ownerVars, cancelled, permits>>

\* The critical section at the end of run_task_item, common to its outcomes;
\* `post' says whether a post follows it.
Leave(w, post) ==
  /\ runningCount' = IF runningCount = 0 THEN 0 ELSE runningCount - 1
  /\ serialRunning' = (serialRunning /\ wtask[w] \notin Serial)
  /\ NotifyAll
  /\ wpc' = [wpc EXCEPT ![w] = IF post THEN "posting" ELSE "waiting"]
  /\ wtask' = [wtask EXCEPT ![w] = NoTask]
  /\ UNCHANGED <<fresh, staged, tasks, drained, preferPostponed, cbatch, target,
                 handles, stopping, cancelled, permits>>

\* Mutant: no post when a serial task opens the gate.
ReportWithoutSerialPost(w, queued, again) == Leave(w, again)

\* A post follows when the task itself waits again, and when a serial task
\* leaves the gate open to tasks that wait.
Report(w, queued, again) == Leave(w, again \/ (wtask[w] \in Serial /\ queued))

\* A task cancelled since the pick is completed without running it.
SkipCancelled(w) ==
  /\ wpc[w] = "picked" /\ wtask[w] \in cancelled
  /\ completed' = completed \cup {wtask[w]}
  /\ Report(w, HasQueuedTasks, FALSE)
  /\ UNCHANGED <<spinning, gone, ran>>

StartRun(w) ==
  /\ wpc[w] = "picked" /\ wtask[w] \notin cancelled
  /\ wpc' = [wpc EXCEPT ![w] = "running"]
  /\ UNCHANGED <<taskVars, gateVars, wtask, clientVars, ownerVars, cancelled, permits>>

FinishComplete(w) ==
  /\ wpc[w] = "running"
  /\ completed' = completed \cup {wtask[w]}
  /\ ran' = ran \cup {wtask[w]}
  /\ Report(w, HasQueuedTasks, FALSE)
  /\ UNCHANGED <<spinning, gone>>

FinishPostponed(w) ==
  /\ wpc[w] = "running"
  /\ spinning' = Append(spinning, wtask[w])
  /\ Report(w, TRUE, TRUE)
  /\ UNCHANGED <<completed, gone, ran>>

\* Mutant: the count stays bumped when the task does not come back.
FinishTakenOutBumped(w) ==
  /\ wpc[w] = "running"
  /\ gone' = gone \cup {wtask[w]}
  /\ serialRunning' = (serialRunning /\ wtask[w] \notin Serial)
  /\ wpc' = [wpc EXCEPT ![w] = "posting"]
  /\ wtask' = [wtask EXCEPT ![w] = NoTask]
  /\ UNCHANGED <<fresh, staged, tasks, spinning, completed, drained, ran, runningCount,
                 preferPostponed, clientVars, ownerVars, cancelled, permits>>

\* TakenOut: returned by the task, or standing for a panic that was caught,
\* in run() or in the is_cancelled() that precedes it.
FinishTakenOut(w) ==
  /\ wpc[w] = "running" \/ (wpc[w] = "picked" /\ wtask[w] \in Panicky)
  /\ gone' = gone \cup {wtask[w]}
  /\ Report(w, HasQueuedTasks, FALSE)
  /\ UNCHANGED <<spinning, completed, ran>>

\* The post that follows the critical section, after the lock is released.
PostWork(w) ==
  /\ wpc[w] = "posting"
  /\ permits' = permits + 1
  /\ wpc' = [wpc EXCEPT ![w] = "waiting"]
  /\ UNCHANGED <<taskVars, gateVars, wtask, clientVars, ownerVars, cancelled>>

-----------------------------------------------------------------------------
(* The owner: set_thread_count, shutdown and drop take the runner          *)
(* exclusively, so they start only when no client is inside a call.        *)

NoCallInProgress == \A c \in Clients : cpc[c] = "idle"

\* The threads of S start, each at work_semaphore.wait.
Spawn(S) == wpc' = [w \in Workers |-> IF w \in S THEN "waiting" ELSE "none"]

\* set_thread_count on a runner without threads.
SpawnThreads(S) ==
  /\ opc = "idle" /\ NoCallInProgress /\ handles = {} /\ S # {}
  /\ stopping' = FALSE
  /\ handles' = S
  /\ Spawn(S)
  /\ UNCHANGED <<taskVars, gateVars, wtask, clientVars, opc, target, cancelled, permits>>

\* set_thread_count (S is the new set of threads) or shutdown (S = {}) on a
\* runner that has threads: it first waits for all tasks.
BeginResize(S) ==
  /\ opc = "idle" /\ NoCallInProgress /\ handles # {}
  /\ opc' = "woken"
  /\ target' = S
  /\ UNCHANGED <<taskVars, gateVars, workerVars, clientVars, handles, stopping,
                 cancelled, permits>>

OwnerWait ==
  /\ opc = "woken"
  /\ opc' = IF Quiescent THEN "stopping" ELSE "blocked"
  /\ UNCHANGED <<taskVars, gateVars, workerVars, clientVars, target, handles,
                 stopping, cancelled, permits>>

\* Drop stops the threads without waiting for the tasks.
BeginDrop ==
  /\ opc = "idle" /\ NoCallInProgress
  /\ opc' = "dropping"
  /\ target' = {}
  /\ UNCHANGED <<taskVars, gateVars, workerVars, clientVars, handles, stopping,
                 cancelled, permits>>

\* stop_threads: the flag under the state lock, then one post per thread.
StopThreads ==
  /\ opc \in {"stopping", "dropping"}
  /\ stopping' = TRUE
  /\ opc' = IF opc = "stopping" THEN "posting" ELSE "dropPosting"
  /\ UNCHANGED <<taskVars, gateVars, workerVars, clientVars, target, handles,
                 cancelled, permits>>

\* Mutant: one post for all the threads.
OneStopPost == 1

StopPosts == Cardinality(handles)

PostStops ==
  /\ opc \in {"posting", "dropPosting"}
  /\ permits' = permits + StopPosts
  /\ opc' = IF opc = "posting" THEN "joining" ELSE "dropJoining"
  /\ UNCHANGED <<taskVars, gateVars, workerVars, clientVars, target, handles,
                 stopping, cancelled>>

\* ... and the joins; then set_thread_count spawns its new threads.
JoinThreads ==
  /\ opc \in {"joining", "dropJoining"}
  /\ \A w \in handles : wpc[w] = "exited"
  /\ handles' = target
  /\ target' = {}
  /\ stopping' \in BOOLEAN       \* cleared by set_thread_count, left set by the others
  /\ target # {} => ~stopping'
  /\ opc = "dropJoining" => stopping'
  /\ Spawn(target)
  /\ opc' = IF opc = "joining" THEN "idle" ELSE "dropped"
  /\ UNCHANGED <<taskVars, gateVars, wtask, clientVars, cancelled, permits>>

\* join().expect: a thread that died of a panic takes the owner with it.
JoinPanics ==
  /\ opc \in {"joining", "dropJoining"}
  /\ \E w \in handles : wpc[w] = "dead"
  /\ opc' = "panicked"
  /\ UNCHANGED <<taskVars, gateVars, workerVars, clientVars, target, handles,
                 stopping, cancelled, permits>>

-----------------------------------------------------------------------------

\* What a worker does once it holds a permit.
Proceed(w) ==
  \/ ExitStopping(w) \/ PickPrioritized(w) \/ PickPostponed(w) \/ PickNothing(w)
  \/ SkipCancelled(w) \/ StartRun(w)
  \/ FinishComplete(w) \/ FinishPostponed(w) \/ FinishTakenOut(w) \/ PostWork(w)

WorkerStep(w) ==
  TakePermit(w) \/ PanicInRefresh(w) \/ Proceed(w)

ClientStep(c) ==
  \/ \E S \in SUBSET fresh : Enqueue(c, S)
  \/ \E F \in {{}, FollowUpsOf(completed)} : Drain(c, F)
  \/ PostBatch(c) \/ PushFollowUps(c)
  \/ BeginWait(c) \/ RecheckWait(c)

OwnerStep ==
  \/ \E S \in ThreadSets : SpawnThreads(S) \/ BeginResize(S)
  \/ OwnerWait \/ BeginDrop \/ StopThreads \/ PostStops \/ JoinThreads \/ JoinPanics

Next ==
  \/ \E w \in Workers : WorkerStep(w)
  \/ \E c \in Clients : ClientStep(c)
  \/ \E t \in Tasks : Cancel(t)
  \/ OwnerStep

Spec == Init /\ [][Next]_vars

-----------------------------------------------------------------------------
(* Properties.                                                             *)

\* Types; the counts of permits and running tasks never go below zero.
TypeOK ==
  /\ fresh \subseteq Tasks /\ staged \subseteq Tasks /\ tasks \subseteq Tasks
  /\ spinning \in Seq(Tasks)
  /\ completed \subseteq Tasks /\ drained \subseteq Tasks /\ gone \subseteq Tasks
  /\ ran \subseteq Tasks /\ cancelled \subseteq Tasks
  /\ runningCount \in Nat /\ serialRunning \in BOOLEAN
  /\ preferPostponed \in BOOLEAN /\ stopping \in BOOLEAN
  /\ permits \in Nat
  /\ wpc \in [Workers -> {"none", "waiting", "awake", "picked", "running", "posting",
                          "exited", "dead"}]
  /\ wtask \in [Workers -> Tasks \cup {NoTask}]
  /\ cpc \in [Clients -> {"idle", "pushing", "posting", "blocked", "woken"}]
  /\ cbatch \in [Clients -> SUBSET Tasks]
  /\ opc \in {"idle", "woken", "blocked", "stopping", "posting", "joining", "dropping",
              "dropPosting", "dropJoining", "dropped", "panicked"}
  /\ target \subseteq Workers /\ handles \subseteq Workers

\* Serial tasks never overlap, and the gate is shut exactly while one is held:
\* the two debug_assert!s on serial_running, at the pick and at the report.
SerialExclusion ==
  /\ \A v, w \in Workers : Busy(v) /\ Busy(w) /\ wtask[v] \in Serial /\ wtask[w] \in Serial
                           => v = w
  /\ serialRunning <=> \E w \in Workers : Busy(w) /\ wtask[w] \in Serial

\* running_count counts the workers that hold a task, whatever the task did:
\* otherwise wait_for_all_tasks would return early or never.
RunningCountExact == runningCount = Cardinality({w \in Workers : Busy(w)})

\* What the workers hold, the gate and the count always agree.
GateExact == SerialExclusion /\ RunningCountExact

Held == {wtask[w] : w \in {v \in Workers : Busy(v)}}

\* A task handed over is in exactly one place until a client takes it back:
\* never lost between the two locks, never held by two workers.
Conservation ==
  /\ fresh \cup staged \cup tasks \cup Spinning \cup Held \cup completed \cup drained
       \cup gone = Tasks
  /\ \A places \in {<<fresh, staged, tasks, Spinning, Held, completed, drained, gone>>} :
       \A i, j \in 1 .. 8 : i # j => places[i] \cap places[j] = {}
  /\ \A v, w \in Workers : Busy(v) /\ Busy(w) /\ wtask[v] = wtask[w] => v = w
  /\ \A i, j \in DOMAIN spinning : spinning[i] = spinning[j] => i = j

Queued == staged \cup tasks \cup Spinning

\* Wake-ups under way: permits, posts still to come and workers that hold one.
WakeUps ==
  permits + Cardinality({w \in Workers : wpc[w] \in {"awake", "posting"}})
          + Cardinality(UNION {cbatch[c] : c \in {d \in Clients : cpc[d] = "posting"}})

\* No wake-up is lost although permits are spent on blocked serial tasks and
\* on tasks already taken: every queued task that is not serial has one, and
\* so has the serial queue as a whole once the gate is open.  A runner being
\* dropped, or with a thread that died, owes nothing any more.  And none goes
\* to a thread that is told to stop: a resize or a shutdown stops its threads
\* over an empty pool only, whatever clients, cancellations and follow-ups did
\* while it waited.
NoLostWakeUp ==
  /\ (\A w \in Workers : wpc[w] # "dead")
       /\ opc \notin {"dropPosting", "dropJoining", "dropped"} =>
       Cardinality(Queued \ Serial)
         + (IF Queued \cap Serial # {} /\ ~serialRunning THEN 1 ELSE 0) <= WakeUps
  /\ opc \in {"stopping", "posting", "joining"} => Quiescent

\* Whoever sleeps in wait_for_all_tasks sleeps for a reason: the pool cannot
\* become idle without a notification, be it by the last report or by a
\* refresh that drops the last cancelled tasks.
NoForgottenWaiter ==
  Quiescent => opc # "blocked" /\ \A c \in Clients : cpc[c] # "blocked"

-----------------------------------------------------------------------------
(* The pool implements TaskPool: where a task is gives its phase.          *)

PhaseOf(t) ==
  IF t \in fresh THEN "new"
  ELSE IF t \in Queued THEN "pending"
  ELSE IF t \in Held THEN "running"
  ELSE IF t \in gone THEN "lost"
  ELSE "done"

Pool == INSTANCE TaskPool WITH
          phase   <- [t \in Tasks |-> PhaseOf(t)],
          waiting <- {c \in Clients : cpc[c] \in {"blocked", "woken"}},
          Waiters <- Clients

\* Every step of threads, locks and permits is a step of the abstract pool.
ImplementsPool == Pool!Spec

-----------------------------------------------------------------------------
(* Liveness.  A thread of the pool or of a client that can go on goes on   *)
(* (the OS schedules it; a mutex, a semaphore or a condition variable with *)
(* a turn to give gives it to one of those waiting), run() returns, and    *)
(* tasks outside Spinners do not postpone themselves for ever.  Nobody is  *)
(* obliged to enqueue, cancel, drain, wait or resize.                      *)

Spinners == Cancellable

Fairness ==
  /\ WF_vars(\E w \in Workers : TakePermit(w))
  /\ \A w \in Workers : WF_vars(Proceed(w))
  /\ \A t \in Tasks \ Spinners :
       SF_vars(\E w \in Workers : wtask[w] = t /\ (FinishComplete(w) \/ FinishTakenOut(w)))
  /\ \A c \in Clients : WF_vars(PostBatch(c) \/ PushFollowUps(c) \/ RecheckWait(c))
  /\ WF_vars(OwnerWait \/ StopThreads \/ PostStops \/ JoinThreads \/ JoinPanics)

FairSpec == Spec /\ Fairness

Settled(t) == t \in completed \cup drained \cup gone

Dropping == opc \in {"dropping", "dropPosting", "dropJoining", "dropped"}

\* A submitted task leaves the pool in the end, if the pool has threads and is
\* not dropped: no permit, gate or alternation strands it, even while other
\* tasks postpone themselves for ever.  Serial tasks are exempt when a serial
\* spinner competes: the alternation may then always meet a shut gate.  A task
\* that would postpone itself for ever leaves once it is cancelled.
EveryTaskSettles ==
  \A t \in Tasks :
    (t \in Queued \/ t \in Held) /\ (t \in Spinners => t \in cancelled)
      ~> (Settled(t) \/ handles = {} \/ Dropping)

\* wait_for_all_tasks returns once the pool stays quiescent long enough: no
\* waiter sleeps through the end of the work.
WaitReturns ==
  \A c \in Clients :
    cpc[c] \in {"blocked", "woken"}
      ~> (cpc[c] = "idle" \/ handles = {} \/ \E t \in Spinners : t \notin cancelled)

\* set_thread_count, shutdown and drop come to their end: every thread that is
\* told to stop wakes up, sees the flag and exits.
StopCompletes ==
  opc \in {"posting", "joining", "dropping", "dropPosting", "dropJoining"}
    ~> opc \in {"idle", "dropped"}

=============================================================================
