-------------------------- MODULE TaskRunnerProofs --------------------------
(***************************************************************************)
(* Theorems about the thread pool, for any set of tasks, workers and       *)
(* clients: type correctness, the exclusion of serial tasks, the exactness *)
(* of running_count, and what becomes of the tasks it is given: none is    *)
(* lost or duplicated, none waits without a wake-up under way, nobody      *)
(* sleeps in wait_for_all_tasks while the pool is idle, and the whole      *)
(* implements TaskPool.                                                    *)
(***************************************************************************)
EXTENDS TaskRunner, FiniteSetTheorems, SequenceTheorems, TLAPS

\* A busy worker holds a task, and a worker that is not a handle of the runner
\* has no thread.  This is what the type invariant needs to be inductive: the
\* task a worker reports must be one.
WorkersAccounted ==
  \A w \in Workers : /\ Busy(w) => wtask[w] \in Tasks
                     /\ w \notin handles => wpc[w] = "none"

TypeInv == TypeOK /\ WorkersAccounted

\* Removing a task from the spinning ones leaves a sequence of tasks.
LEMMA WithoutIndexType ==
  ASSUME NEW s \in Seq(Tasks), NEW i \in DOMAIN s
  PROVE  WithoutIndex(s, i) \in Seq(Tasks)
<1>1. i \in 1 .. Len(s) /\ Len(s) \in Nat /\ \A j \in 1 .. Len(s) : s[j] \in Tasks
  BY LenProperties, ElementOfSeq
<1>2. SubSeq(s, 1, i - 1) \in Seq(Tasks)
  BY <1>1, SubSeqProperties
<1>3. SubSeq(s, i + 1, Len(s)) \in Seq(Tasks)
  BY <1>1, SubSeqProperties
<1>4. QED
  BY <1>2, <1>3, ConcatProperties DEF WithoutIndex

LEMMA TypeInit == Init => TypeInv
<1>1. <<>> \in Seq(Tasks)
  BY EmptySeq
<1> SUFFICES ASSUME Init PROVE TypeInv
  OBVIOUS
<1>2. /\ wpc \in [Workers -> {"none"}] /\ wtask \in [Workers -> {NoTask}]
      /\ cpc \in [Clients -> {"idle"}] /\ cbatch \in [Clients -> {{}}]
  BY DEF Init
<1>3. TypeOK
  BY <1>1, <1>2 DEF Init, TypeOK
<1>4. WorkersAccounted
  BY DEF Init, WorkersAccounted, Busy
<1> QED BY <1>3, <1>4 DEF TypeInv

\* The picks of a worker.
LEMMA TypePick ==
  ASSUME TypeInv, NEW w \in Workers,
         PickPrioritized(w) \/ PickPostponed(w) \/ PickNothing(w)
  PROVE  TypeInv'
<1> USE DEF TypeInv, TypeOK
<1>a. \A d \in Refreshed : d \subseteq Tasks /\ Joined \subseteq Tasks
  BY DEF Refreshed, Joined
<1>b. \A d \in Refreshed : Refresh(d) =>
         /\ staged' = {} /\ completed' \subseteq Tasks
         /\ cpc' \in [Clients -> {"idle", "pushing", "posting", "blocked", "woken"}]
         /\ opc' \in {opc, "woken"}
  BY <1>a DEF Refresh, NotifyAll
<1>1. CASE PickPrioritized(w)
  <2>0. PICK d \in Refreshed : \E t \in Joined \ d :
          Refresh(d) /\ tasks' = (Joined \ d) \ {t} /\ Hold(w, t)
    BY <1>1 DEF PickPrioritized
  <2>1. PICK t \in Joined \ d :
          Refresh(d) /\ tasks' = (Joined \ d) \ {t} /\ Hold(w, t)
    BY <2>0
  <2>2. t \in Tasks /\ tasks' \subseteq Tasks
    BY <2>1, <1>a
  <2>3. TypeOK'
    BY <1>1, <1>b, <2>1, <2>2 DEF PickPrioritized, Hold, Taken
  <2>4. WorkersAccounted'
    BY <1>1, <2>1, <2>2 DEF PickPrioritized, Hold, Taken, WorkersAccounted, Busy
  <2> QED BY <2>3, <2>4
<1>2. CASE PickPostponed(w)
  <2>1. PICK d \in Refreshed, i \in FirstPostponed :
          /\ Refresh(d) /\ tasks' = Joined \ d
          /\ spinning' = WithoutIndex(spinning, i) /\ Hold(w, spinning[i])
    BY <1>2 DEF PickPostponed
  <2>2. i \in DOMAIN spinning /\ spinning[i] \in Tasks
    BY LenProperties, ElementOfSeq DEF FirstPostponed
  <2>3. spinning' \in Seq(Tasks)
    BY <2>1, <2>2, WithoutIndexType
  <2>4. TypeOK'
    BY <1>2, <1>a, <1>b, <2>1, <2>2, <2>3 DEF PickPostponed, Hold, Taken
  <2>5. WorkersAccounted'
    BY <1>2, <2>1, <2>2 DEF PickPostponed, Hold, Taken, WorkersAccounted, Busy
  <2> QED BY <2>4, <2>5
<1>3. CASE PickNothing(w)
  <2>1. PICK d \in Refreshed : Refresh(d) /\ tasks' = Joined \ d
    BY <1>3 DEF PickNothing
  <2>2. TypeOK'
    BY <1>3, <1>a, <1>b, <2>1 DEF PickNothing, gateVars
  <2>3. WorkersAccounted'
    BY <1>3 DEF PickNothing, WorkersAccounted, Busy
  <2> QED BY <2>2, <2>3
<1> QED BY <1>1, <1>2, <1>3

\* The reports of a worker.
LEMMA TypeReport ==
  ASSUME TypeInv, NEW w \in Workers,
         \/ SkipCancelled(w) \/ FinishComplete(w) \/ FinishPostponed(w) \/ FinishTakenOut(w)
  PROVE  TypeInv'
<1> USE DEF TypeInv, TypeOK
<1>1. wtask[w] \in Tasks
  BY DEF WorkersAccounted, Busy, SkipCancelled, FinishComplete, FinishPostponed,
         FinishTakenOut
<1>2. Append(spinning, wtask[w]) \in Seq(Tasks)
  BY <1>1, AppendProperties
<1>3. PICK p \in BOOLEAN : Leave(w, p)
  <2>1. \A q, a \in BOOLEAN : Report(w, q, a) => \E p \in BOOLEAN : Leave(w, p)
    BY DEF Report
  <2> QED
    BY <2>1 DEF SkipCancelled, FinishComplete, FinishPostponed, FinishTakenOut,
                HasQueuedTasks
<1>4. /\ runningCount' \in Nat /\ serialRunning' \in BOOLEAN
      /\ wpc' = [wpc EXCEPT ![w] = IF p THEN "posting" ELSE "waiting"]
      /\ wtask' = [wtask EXCEPT ![w] = NoTask]
      /\ cpc' \in [Clients -> {"idle", "pushing", "posting", "blocked", "woken"}]
      /\ opc' \in {opc, "woken"}
      /\ UNCHANGED <<fresh, staged, tasks, drained, preferPostponed, cbatch, target,
                     handles, stopping, cancelled, permits>>
  BY <1>3 DEF Leave, NotifyAll
<1>5. /\ spinning' \in Seq(Tasks) /\ completed' \subseteq Tasks
      /\ gone' \subseteq Tasks /\ ran' \subseteq Tasks
  BY <1>1, <1>2 DEF SkipCancelled, FinishComplete, FinishPostponed, FinishTakenOut
<1>6. TypeOK'
  BY <1>4, <1>5
<1>7. w \in handles
  BY DEF WorkersAccounted, SkipCancelled, FinishComplete, FinishPostponed, FinishTakenOut
<1>8. WorkersAccounted'
  BY <1>4, <1>7 DEF WorkersAccounted, Busy
<1> QED BY <1>6, <1>8

LEMMA FiniteCounts ==
  /\ \A S \in SUBSET Tasks : IsFiniteSet(S) /\ Cardinality(S) \in Nat
  /\ \A S \in SUBSET Workers : IsFiniteSet(S) /\ Cardinality(S) \in Nat
  BY FS_Subset, FS_CardinalityType, TasksAssumption

\* The other steps of a worker.
LEMMA TypeWorker ==
  ASSUME TypeInv, NEW w \in Workers, WorkerStep(w)
  PROVE  TypeInv'
<1> USE DEF TypeInv, TypeOK
<1>1. CASE TakePermit(w)
  <2>1. permits' \in Nat
    BY <1>1 DEF TakePermit, CanTakePermit
  <2>2. TypeOK'
    BY <1>1, <2>1 DEF TakePermit, taskVars, gateVars, clientVars, ownerVars
  <2>3. WorkersAccounted'
    BY <1>1 DEF TakePermit, ownerVars, WorkersAccounted, Busy
  <2> QED BY <2>2, <2>3
<1>2. CASE ExitStopping(w)
  <2>1. TypeOK'
    BY <1>2 DEF ExitStopping, taskVars, gateVars, clientVars, ownerVars
  <2>2. WorkersAccounted'
    BY <1>2 DEF ExitStopping, ownerVars, WorkersAccounted, Busy
  <2> QED BY <2>1, <2>2
<1>3. CASE PanicInRefresh(w)
  <2>1. TypeOK'
    BY <1>3 DEF PanicInRefresh, gateVars, clientVars, ownerVars, Joined
  <2>2. WorkersAccounted'
    BY <1>3 DEF PanicInRefresh, ownerVars, WorkersAccounted, Busy
  <2> QED BY <2>1, <2>2
<1>4. CASE StartRun(w)
  <2>1. TypeOK'
    BY <1>4 DEF StartRun, taskVars, gateVars, clientVars, ownerVars
  <2>2. WorkersAccounted'
    BY <1>4 DEF StartRun, ownerVars, WorkersAccounted, Busy
  <2> QED BY <2>1, <2>2
<1>5. CASE PostWork(w)
  <2>1. TypeOK'
    BY <1>5 DEF PostWork, taskVars, gateVars, clientVars, ownerVars
  <2>2. WorkersAccounted'
    BY <1>5 DEF PostWork, ownerVars, WorkersAccounted, Busy
  <2> QED BY <2>1, <2>2
<1> QED
  BY <1>1, <1>2, <1>3, <1>4, <1>5, TypePick, TypeReport DEF WorkerStep, Proceed

LEMMA TypeClient ==
  ASSUME TypeInv, NEW c \in Clients, ClientStep(c)
  PROVE  TypeInv'
<1> USE DEF TypeInv, TypeOK
<1>1. UNCHANGED <<wpc, wtask, handles>>
  BY DEF ClientStep, Enqueue, Drain, PostBatch, PushFollowUps, BeginWait, RecheckWait,
         workerVars, ownerVars
<1>2. WorkersAccounted'
  BY <1>1 DEF WorkersAccounted, Busy
<1> SUFFICES TypeOK'
  BY <1>2
<1>3. ASSUME NEW S \in SUBSET fresh, Enqueue(c, S) PROVE TypeOK'
  BY <1>3 DEF Enqueue, gateVars, workerVars, ownerVars
<1>4. ASSUME NEW F \in {{}, FollowUpsOf(completed)}, Drain(c, F) PROVE TypeOK'
  <2>1. F \subseteq Tasks
    BY TasksAssumption DEF FollowUpsOf
  <2> QED
    BY <1>4, <2>1 DEF Drain, gateVars, workerVars, ownerVars
<1>5. CASE PostBatch(c)
  <2>1. permits' \in Nat
    BY <1>5, FiniteCounts DEF PostBatch
  <2> QED
    BY <1>5, <2>1 DEF PostBatch, taskVars, gateVars, workerVars, ownerVars
<1>6. CASE PushFollowUps(c)
  BY <1>6 DEF PushFollowUps, gateVars, workerVars, ownerVars
<1>7. CASE BeginWait(c)
  BY <1>7 DEF BeginWait, taskVars, gateVars, workerVars, ownerVars
<1>8. CASE RecheckWait(c)
  BY <1>8 DEF RecheckWait, taskVars, gateVars, workerVars, ownerVars
<1> QED
  BY <1>3, <1>4, <1>5, <1>6, <1>7, <1>8 DEF ClientStep

LEMMA TypeOwner ==
  ASSUME TypeInv, OwnerStep
  PROVE  TypeInv'
<1> USE DEF TypeInv, TypeOK
<1>1. ASSUME NEW S \in ThreadSets, SpawnThreads(S) PROVE TypeInv'
  <2>1. S \subseteq Workers
    BY TasksAssumption
  <2>2. TypeOK'
    BY <1>1, <2>1 DEF SpawnThreads, Spawn, taskVars, gateVars, clientVars
  <2>3. WorkersAccounted'
    BY <1>1 DEF SpawnThreads, Spawn, WorkersAccounted, Busy
  <2> QED BY <2>2, <2>3
<1>2. ASSUME NEW S \in ThreadSets, BeginResize(S) PROVE TypeInv'
  <2>1. S \subseteq Workers
    BY TasksAssumption
  <2>2. TypeOK'
    BY <1>2, <2>1 DEF BeginResize, taskVars, gateVars, workerVars, clientVars
  <2>3. WorkersAccounted'
    BY <1>2 DEF BeginResize, workerVars, WorkersAccounted, Busy
  <2> QED BY <2>2, <2>3
<1>3. CASE OwnerWait \/ BeginDrop \/ StopThreads \/ PostStops \/ JoinPanics
  <2>1. UNCHANGED <<wpc, wtask, handles>>
    BY <1>3 DEF OwnerWait, BeginDrop, StopThreads, PostStops, JoinPanics, workerVars
  <2>2. permits' \in Nat
    BY <1>3, FiniteCounts DEF OwnerWait, BeginDrop, StopThreads, PostStops, StopPosts,
                              JoinPanics
  <2>3. TypeOK'
    BY <1>3, <2>1, <2>2 DEF OwnerWait, BeginDrop, StopThreads, PostStops, JoinPanics,
                            taskVars, gateVars, clientVars
  <2>4. WorkersAccounted'
    BY <2>1 DEF WorkersAccounted, Busy
  <2> QED BY <2>3, <2>4
<1>4. CASE JoinThreads
  <2>1. TypeOK'
    BY <1>4 DEF JoinThreads, Spawn, taskVars, gateVars, clientVars
  <2>2. WorkersAccounted'
    BY <1>4 DEF JoinThreads, Spawn, WorkersAccounted, Busy
  <2> QED BY <2>1, <2>2
<1> QED
  BY <1>1, <1>2, <1>3, <1>4 DEF OwnerStep

\* Every step keeps every variable in its type and every busy worker with a
\* task of the runner.
LEMMA TypeStep == TypeInv /\ [Next]_vars => TypeInv'
<1> SUFFICES ASSUME TypeInv, [Next]_vars PROVE TypeInv'
  OBVIOUS
<1>1. ASSUME NEW t \in Tasks, Cancel(t) PROVE TypeInv'
  BY <1>1 DEF Cancel, TypeInv, TypeOK, WorkersAccounted, Busy, taskVars, gateVars,
              workerVars, clientVars, ownerVars
<1>2. CASE UNCHANGED vars
  BY <1>2 DEF vars, TypeInv, TypeOK, WorkersAccounted, Busy, taskVars, gateVars,
              workerVars, clientVars, ownerVars
<1> QED
  BY <1>1, <1>2, TypeWorker, TypeClient, TypeOwner DEF Next

\* Type correctness of the pool, whatever its tasks, workers and clients.
THEOREM TypeCorrect == Spec => []TypeOK
<1>1. TypeInv => TypeOK
  BY DEF TypeInv
<1> QED
  BY <1>1, TypeInit, TypeStep, PTL DEF Spec

THEOREM TypeInvariance == Spec => []TypeInv
  BY TypeInit, TypeStep, PTL DEF Spec

-----------------------------------------------------------------------------
(* The gate and the count.                                                 *)

GateInv == TypeInv /\ GateExact

LEMMA GateInit == Init => GateExact
<1> SUFFICES ASSUME Init PROVE GateExact
  OBVIOUS
<1>1. \A w \in Workers : ~Busy(w)
  BY DEF Init, Busy
<1>2. {w \in Workers : Busy(w)} = {}
  BY <1>1
<1>3. RunningCountExact
  BY <1>2, FS_EmptySet DEF Init, RunningCountExact
<1>4. SerialExclusion
  BY <1>1 DEF Init, SerialExclusion
<1> QED BY <1>3, <1>4 DEF GateExact

\* A step that neither lets a worker take a task nor give one back.
LEMMA GateStutter ==
  ASSUME GateExact, UNCHANGED <<wtask, serialRunning, runningCount>>,
         \A v \in Workers : Busy(v)' = Busy(v)
  PROVE  GateExact'
<1>1. {v \in Workers : Busy(v)'} = {v \in Workers : Busy(v)}
  OBVIOUS
<1>2. RunningCountExact'
  BY <1>1 DEF GateExact, RunningCountExact
<1>3. SerialExclusion'
  BY DEF GateExact, SerialExclusion
<1> QED BY <1>2, <1>3 DEF GateExact

\* A worker that takes an eligible task.
LEMMA GateHold ==
  ASSUME GateInv, NEW w \in Workers, NEW t \in Tasks,
         wpc[w] = "awake", Eligible(t), Hold(w, t)
  PROVE  GateExact'
<1> USE DEF GateInv, GateExact, TypeInv, TypeOK
<1>1. /\ ~Busy(w) /\ Busy(w)' /\ wtask'[w] = t
      /\ serialRunning' = (serialRunning \/ t \in Serial)
      /\ runningCount' = runningCount + 1
  BY DEF Hold, Taken, Busy
<1>2. \A v \in Workers \ {w} : Busy(v)' = Busy(v) /\ wtask'[v] = wtask[v]
  BY DEF Hold, Taken, Busy
<1>3. {v \in Workers : Busy(v)'} = {v \in Workers : Busy(v)} \cup {w}
  BY <1>1, <1>2
<1>4. RunningCountExact'
  <2>1. IsFiniteSet({v \in Workers : Busy(v)})
    BY FiniteCounts
  <2>2. Cardinality({v \in Workers : Busy(v)} \cup {w})
          = Cardinality({v \in Workers : Busy(v)}) + 1
    BY <1>1, <2>1, FS_AddElement
  <2> QED
    BY <1>1, <1>3, <2>2 DEF RunningCountExact
<1>5. SerialExclusion'
  BY <1>1, <1>2 DEF SerialExclusion, Eligible
<1> QED BY <1>4, <1>5

\* A worker that reports an outcome.
LEMMA GateLeave ==
  ASSUME GateInv, NEW w \in Workers, Busy(w), NEW p \in BOOLEAN, Leave(w, p)
  PROVE  GateExact'
<1> USE DEF GateInv, GateExact, TypeInv, TypeOK
<1>1. /\ ~Busy(w)' /\ wpc' = [wpc EXCEPT ![w] = IF p THEN "posting" ELSE "waiting"]
      /\ serialRunning' = (serialRunning /\ wtask[w] \notin Serial)
      /\ runningCount' = IF runningCount = 0 THEN 0 ELSE runningCount - 1
  BY DEF Leave, Busy
<1>2. \A v \in Workers \ {w} : Busy(v)' = Busy(v) /\ wtask'[v] = wtask[v]
  BY DEF Leave, Busy
<1>3. {v \in Workers : Busy(v)'} = {v \in Workers : Busy(v)} \ {w}
  BY <1>1, <1>2
<1>4. RunningCountExact'
  <2>1. IsFiniteSet({v \in Workers : Busy(v)})
    BY FiniteCounts
  <2>2. Cardinality({v \in Workers : Busy(v)} \ {w})
          = Cardinality({v \in Workers : Busy(v)}) - 1
    BY <2>1, FS_RemoveElement
  <2>3. runningCount # 0
    BY <2>1, FS_EmptySet DEF RunningCountExact
  <2> QED
    BY <1>1, <1>3, <2>2, <2>3 DEF RunningCountExact
<1>5. SerialExclusion'
  BY <1>1, <1>2 DEF SerialExclusion
<1> QED BY <1>4, <1>5

LEMMA GateWorker ==
  ASSUME GateInv, NEW w \in Workers, WorkerStep(w)
  PROVE  GateExact'
<1> USE DEF GateInv
<1>0. GateExact /\ wpc \in [Workers -> {"none", "waiting", "awake", "picked", "running",
                                   "posting", "exited", "dead"}]
  BY DEF TypeInv, TypeOK
<1>1. CASE TakePermit(w) \/ ExitStopping(w) \/ PanicInRefresh(w) \/ StartRun(w)
           \/ PostWork(w) \/ PickNothing(w)
  <2>1. UNCHANGED <<wtask, serialRunning, runningCount>>
    BY <1>1 DEF TakePermit, ExitStopping, PanicInRefresh, StartRun, PostWork, PickNothing,
                gateVars
  <2>2. \A v \in Workers : Busy(v)' = Busy(v)
    BY <1>0, <1>1 DEF TakePermit, ExitStopping, PanicInRefresh, StartRun, PostWork,
                      PickNothing, Busy
  <2> QED BY <1>0, <2>1, <2>2, GateStutter
<1>2. CASE PickPrioritized(w)
  <2>1. PICK t \in Tasks : Eligible(t) /\ Hold(w, t)
    BY <1>2 DEF PickPrioritized, Joined, TypeInv, TypeOK
  <2> QED BY <1>2, <2>1, GateHold DEF PickPrioritized
<1>3. CASE PickPostponed(w)
  <2>1. PICK i \in FirstPostponed : Hold(w, spinning[i])
    BY <1>3 DEF PickPostponed
  <2>2. spinning[i] \in Tasks /\ Eligible(spinning[i])
    BY LenProperties, ElementOfSeq DEF FirstPostponed, TypeInv, TypeOK
  <2> QED BY <1>3, <2>1, <2>2, GateHold DEF PickPostponed
<1>4. CASE SkipCancelled(w) \/ FinishComplete(w) \/ FinishPostponed(w) \/ FinishTakenOut(w)
  <2>1. Busy(w)
    BY <1>4 DEF SkipCancelled, FinishComplete, FinishPostponed, FinishTakenOut, Busy
  <2>2. \A q, a \in BOOLEAN : Report(w, q, a) => \E p \in BOOLEAN : Leave(w, p)
    BY DEF Report
  <2>3. PICK p \in BOOLEAN : Leave(w, p)
    BY <1>4, <2>2 DEF SkipCancelled, FinishComplete, FinishPostponed, FinishTakenOut,
                      HasQueuedTasks
  <2> QED BY <2>1, <2>3, GateLeave
<1> QED
  BY <1>1, <1>2, <1>3, <1>4 DEF WorkerStep, Proceed

\* Clients, the owner and cancellations leave the gate alone: the owner spawns
\* threads only when none of the previous ones can hold a task.
LEMMA GateOthers ==
  ASSUME GateInv,
         OwnerStep \/ (\E c \in Clients : ClientStep(c)) \/ (\E t \in Tasks : Cancel(t))
           \/ UNCHANGED vars
  PROVE  GateExact'
<1>1. UNCHANGED <<wtask, serialRunning, runningCount>>
  BY DEF OwnerStep, SpawnThreads, BeginResize, OwnerWait, BeginDrop, StopThreads, PostStops,
         JoinThreads, JoinPanics, ClientStep, Enqueue, Drain, PostBatch, PushFollowUps,
         BeginWait, RecheckWait, Cancel, vars, gateVars, workerVars
<1>2. \A v \in Workers : Busy(v)' = Busy(v)
  <2>1. CASE UNCHANGED wpc
    BY <2>1 DEF Busy
  <2>2. ASSUME NEW S \in ThreadSets, SpawnThreads(S)
        PROVE  \A v \in Workers : Busy(v)' = Busy(v)
    BY <2>2 DEF SpawnThreads, Spawn, Busy, GateInv, TypeInv, WorkersAccounted
  <2>3. CASE JoinThreads
    BY <2>3 DEF JoinThreads, Spawn, Busy, GateInv, TypeInv, WorkersAccounted
  <2> QED
    BY <2>1, <2>2, <2>3 DEF OwnerStep, BeginResize, OwnerWait, BeginDrop, StopThreads,
         PostStops, JoinPanics, ClientStep, Enqueue, Drain, PostBatch, PushFollowUps,
         BeginWait, RecheckWait, Cancel, vars, workerVars
<1> QED
  BY <1>1, <1>2, GateStutter DEF GateInv

LEMMA GateStep == GateInv /\ [Next]_vars => GateInv'
<1> SUFFICES ASSUME GateInv, [Next]_vars PROVE GateInv'
  OBVIOUS
<1>1. TypeInv'
  BY TypeStep DEF GateInv
<1>2. GateExact'
  BY GateWorker, GateOthers DEF Next
<1> QED BY <1>1, <1>2 DEF GateInv

LEMMA GateInvariance == Spec => []GateInv
<1>1. Init => GateInv
  BY TypeInit, GateInit DEF GateInv
<1> QED
  BY <1>1, GateStep, PTL DEF Spec

\* Serial tasks never overlap on any number of threads, the gate is shut exactly
\* while one of them is held and running_count is exact: the debug assertions of
\* the pick and of the report cannot fail, the saturating decrement never
\* saturates, and wait_for_all_tasks sees every running task.
THEOREM GateIsExact == Spec => []GateExact
<1>1. GateInv => GateExact
  BY DEF GateInv
<1> QED
  BY <1>1, GateInvariance, PTL

-----------------------------------------------------------------------------
(* Every task is in one place.                                             *)

\* The places of a task, each disjoint from those before it.
PlacesDisjoint ==
  /\ staged \cap fresh = {}
  /\ tasks \cap (fresh \cup staged) = {}
  /\ Spinning \cap (fresh \cup staged \cup tasks) = {}
  /\ Held \cap (fresh \cup Queued) = {}
  /\ completed \cap (fresh \cup Queued \cup Held) = {}
  /\ drained \cap (fresh \cup Queued \cup Held \cup completed) = {}
  /\ gone \cap (fresh \cup Queued \cup Held \cup completed \cup drained) = {}

EveryPlace == Tasks \subseteq fresh \cup Queued \cup Held \cup completed \cup drained \cup gone

HeldOnce == \A v, w \in Workers : Busy(v) /\ Busy(w) /\ wtask[v] = wtask[w] => v = w

SpinningOnce == \A i, j \in DOMAIN spinning : spinning[i] = spinning[j] => i = j

InOnePlace == PlacesDisjoint /\ EveryPlace /\ HeldOnce /\ SpinningOnce

\* A client has the tasks of its call for itself: those it is about to stage
\* are fresh and were asked for by tasks it has drained, those it still posts
\* for have been staged; and no follow-up leaves before the task that asks for it.
InCall(c) == cpc[c] \in {"pushing", "posting"}

CallsExact ==
  /\ \A c \in Clients : cpc[c] = "pushing" =>
       \A t \in cbatch[c] : t \in fresh /\ \E u \in drained : t \in FollowUps[u]
  /\ \A c \in Clients : cpc[c] = "posting" => cbatch[c] \cap fresh = {}
  /\ \A c, d \in Clients : InCall(c) /\ InCall(d) /\ c # d => cbatch[c] \cap cbatch[d] = {}
  /\ \A u \in Tasks \ drained : FollowUps[u] \subseteq fresh

\* The owner operates on a runner that no client is using.
OwnerAlone == opc # "idle" => NoCallInProgress

PlaceInv == GateInv /\ InOnePlace /\ CallsExact /\ OwnerAlone


LEMMA PlaceInit == Init => InOnePlace /\ CallsExact /\ OwnerAlone
<1> SUFFICES ASSUME Init PROVE InOnePlace /\ CallsExact /\ OwnerAlone
  OBVIOUS
<1>1. (\A w \in Workers : ~Busy(w)) /\ Held = {}
  BY DEF Init, Busy, Held
<1>2. DOMAIN spinning = {} /\ Spinning = {}
  BY DEF Init, Spinning
<1>3. InOnePlace
  BY <1>1, <1>2 DEF Init, InOnePlace, PlacesDisjoint, EveryPlace, HeldOnce, SpinningOnce, Queued
<1>4. CallsExact
  BY TasksAssumption DEF Init, CallsExact, InCall
<1>5. OwnerAlone
  BY DEF Init, OwnerAlone
<1> QED BY <1>3, <1>4, <1>5

\* What the workers hold, after a pick, a report and any other step.
LEMMA HeldAfterHold ==
  ASSUME TypeInv, HeldOnce, NEW w \in Workers, wpc[w] = "awake", NEW t \in Tasks, t \notin Held,
         Hold(w, t)
  PROVE  Held' = Held \cup {t} /\ HeldOnce'
<1> USE DEF TypeInv, TypeOK
<1>1. ~Busy(w) /\ Busy(w)' /\ wtask'[w] = t
  BY DEF Hold, Taken, Busy
<1>2. \A v \in Workers \ {w} : Busy(v)' = Busy(v) /\ wtask'[v] = wtask[v]
  BY DEF Hold, Taken, Busy
<1>3. Held' = Held \cup {t}
  BY <1>1, <1>2 DEF Held
<1>4. HeldOnce'
  BY <1>1, <1>2 DEF Held, HeldOnce
<1> QED BY <1>3, <1>4

LEMMA HeldAfterLeave ==
  ASSUME TypeInv, HeldOnce, NEW w \in Workers, Busy(w), NEW p \in BOOLEAN, Leave(w, p)
  PROVE  Held' = Held \ {wtask[w]} /\ HeldOnce' /\ wtask[w] \in Held
<1> USE DEF TypeInv, TypeOK
<1>1. ~Busy(w)'
  BY DEF Leave, Busy
<1>2. \A v \in Workers \ {w} : Busy(v)' = Busy(v) /\ wtask'[v] = wtask[v]
  BY DEF Leave, Busy
<1>3. Held' = Held \ {wtask[w]} /\ wtask[w] \in Held
  BY <1>1, <1>2 DEF Held, HeldOnce
<1>4. HeldOnce'
  BY <1>1, <1>2 DEF HeldOnce
<1> QED BY <1>3, <1>4

LEMMA HeldAfterOther ==
  ASSUME HeldOnce, UNCHANGED wtask, \A v \in Workers : Busy(v)' = Busy(v)
  PROVE  Held' = Held /\ HeldOnce'
BY DEF Held, HeldOnce

\* What spins, after a task has been taken from it or has joined it.
LEMMA SpinningAfterTake ==
  ASSUME TypeInv, SpinningOnce, NEW i \in DOMAIN spinning, spinning' = WithoutIndex(spinning, i)
  PROVE  Spinning' = Spinning \ {spinning[i]} /\ SpinningOnce'
<1> DEFINE n == Len(spinning)
           a == SubSeq(spinning, 1, i - 1)
           b == SubSeq(spinning, i + 1, n)
<1>1. /\ n \in Nat /\ DOMAIN spinning = 1 .. n /\ i \in 1 .. n
      /\ \A j \in 1 .. n : spinning[j] \in Tasks
  BY LenProperties, ElementOfSeq DEF TypeInv, TypeOK
<1>2. /\ a \in Seq(Tasks) /\ Len(a) = i - 1
      /\ \A j \in 1 .. i - 1 : a[j] = spinning[j]
  <2>1. \A j \in 1 .. i - 1 : spinning[j] \in Tasks
    BY <1>1
  <2> QED
    BY <1>1, <2>1, SubSeqProperties
<1>3. /\ b \in Seq(Tasks) /\ Len(b) = n - i
      /\ \A j \in 1 .. n - i : b[j] = spinning[i + j]
  <2>1. \A j \in i + 1 .. n : spinning[j] \in Tasks
    BY <1>1
  <2>2. /\ b \in Seq(Tasks) /\ Len(b) = IF i + 1 <= n THEN n - (i + 1) + 1 ELSE 0
        /\ \A j \in 1 .. n - (i + 1) + 1 : b[j] = spinning[(i + 1) + j - 1]
    BY <1>1, <2>1, SubSeqProperties
  <2> QED
    BY <1>1, <2>2
<1> HIDE DEF a, b
<1>4. spinning' = a \o b
  BY DEF WithoutIndex, a, b
<1>5. /\ spinning' \in Seq(Tasks) /\ Len(spinning') = n - 1
      /\ \A j \in 1 .. n - 1 : spinning'[j] = IF j < i THEN spinning[j] ELSE spinning[j + 1]
  <2>1. /\ a \o b \in Seq(Tasks) /\ Len(a \o b) = Len(a) + Len(b)
        /\ \A j \in 1 .. Len(a) + Len(b) : (a \o b)[j] = IF j <= Len(a) THEN a[j] ELSE b[j - Len(a)]
    BY <1>2, <1>3, ConcatProperties
  <2>2. Len(a \o b) = n - 1
    BY <1>1, <1>2, <1>3, <2>1
  <2>3. ASSUME NEW j \in 1 .. n - 1
        PROVE  (a \o b)[j] = IF j < i THEN spinning[j] ELSE spinning[j + 1]
    <3>1. (a \o b)[j] = IF j <= i - 1 THEN a[j] ELSE b[j - (i - 1)]
      BY <1>1, <1>2, <1>3, <2>1
    <3>2. CASE j < i
      <4>1. j \in 1 .. i - 1
        BY <1>1, <3>2
      <4> QED
        BY <1>1, <1>2, <3>1, <3>2, <4>1
    <3>3. CASE ~ (j < i)
      <4>1. j - (i - 1) \in 1 .. n - i /\ i + (j - (i - 1)) = j + 1 /\ ~ (j <= i - 1)
        BY <1>1, <3>3
      <4>2. b[j - (i - 1)] = spinning[j + 1]
        BY <1>3, <4>1
      <4> QED
        BY <3>1, <3>3, <4>1, <4>2
    <3> QED
      BY <3>2, <3>3
  <2> QED
    BY <1>4, <2>1, <2>2, <2>3
<1>6. DOMAIN spinning' = 1 .. n - 1
  BY <1>5, LenProperties
<1> HIDE DEF n
<1>7. SpinningOnce'
  BY <1>1, <1>5, <1>6 DEF SpinningOnce
<1>8. ASSUME NEW t PROVE t \in Spinning' <=> t \in Spinning \ {spinning[i]}
  <2>1. ASSUME t \in Spinning' PROVE t \in Spinning \ {spinning[i]}
    <3>1. PICK j \in 1 .. n - 1 : t = spinning'[j]
      BY <2>1, <1>6 DEF Spinning
    <3>2. PICK k \in 1 .. n : k # i /\ t = spinning[k]
      <4>1. CASE j < i
        BY <1>1, <1>5, <3>1, <4>1
      <4>2. CASE j >= i
        BY <1>1, <1>5, <3>1, <4>2
      <4> QED
        BY <1>1, <4>1, <4>2
    <3> QED
      BY <1>1, <3>2 DEF Spinning, SpinningOnce
  <2>2. ASSUME t \in Spinning \ {spinning[i]} PROVE t \in Spinning'
    <3>1. PICK j \in 1 .. n : t = spinning[j] /\ j # i
      BY <2>2, <1>1 DEF Spinning
    <3>2. CASE j < i
      <4>1. j \in 1 .. n - 1 /\ spinning'[j] = t
        BY <1>1, <1>5, <3>1, <3>2
      <4> QED
        BY <1>6, <4>1 DEF Spinning
    <3>3. CASE j > i
      <4>1. j - 1 \in 1 .. n - 1 /\ spinning'[j - 1] = t
        BY <1>1, <1>5, <3>1, <3>3
      <4> QED
        BY <1>6, <4>1 DEF Spinning
    <3> QED
      BY <1>1, <3>1, <3>2, <3>3
  <2> QED
    BY <2>1, <2>2
<1> QED
  BY <1>7, <1>8

LEMMA SpinningAfterAppend ==
  ASSUME TypeInv, SpinningOnce, NEW t \in Tasks, t \notin Spinning,
         spinning' = Append(spinning, t)
  PROVE  Spinning' = Spinning \cup {t} /\ SpinningOnce'
<1> DEFINE n == Len(spinning)
<1>1. n \in Nat /\ DOMAIN spinning = 1 .. n
  BY LenProperties DEF TypeInv, TypeOK
<1>2. /\ spinning' \in Seq(Tasks) /\ Len(spinning') = n + 1
      /\ \A j \in 1 .. n : spinning'[j] = spinning[j]
      /\ spinning'[n + 1] = t
  BY AppendProperties DEF TypeInv, TypeOK
<1>3. DOMAIN spinning' = 1 .. n + 1
  BY <1>2, LenProperties
<1> HIDE DEF n
<1>4. SpinningOnce'
  BY <1>1, <1>2, <1>3 DEF SpinningOnce, Spinning
<1>5. 1 .. n + 1 = (1 .. n) \cup {n + 1}
  BY <1>1
<1>6. Spinning' = Spinning \cup {t}
  BY <1>1, <1>2, <1>3, <1>5 DEF Spinning
<1> QED BY <1>4, <1>6

\* A step of a worker leaves the calls of clients and of the owner alone, a
\* notification included.
LEMMA CallsAfterNotify ==
  ASSUME TypeInv, CallsExact, OwnerAlone, UNCHANGED <<fresh, drained, cbatch>>,
         NotifyAll \/ UNCHANGED <<cpc, opc>>
  PROVE  CallsExact' /\ OwnerAlone'
<1>1. \A c \in Clients : /\ cpc'[c] = "pushing" <=> cpc[c] = "pushing"
                         /\ cpc'[c] = "posting" <=> cpc[c] = "posting"
                         /\ cpc[c] = "idle" => cpc'[c] = "idle"
  BY DEF NotifyAll
<1>2. CallsExact'
  BY <1>1 DEF CallsExact, InCall
<1>3. OwnerAlone'
  BY <1>1 DEF OwnerAlone, NoCallInProgress, NotifyAll
<1> QED BY <1>2, <1>3

LEMMA PlacePick ==
  ASSUME PlaceInv, NEW w \in Workers,
         PickPrioritized(w) \/ PickPostponed(w) \/ PickNothing(w)
  PROVE  InOnePlace' /\ CallsExact' /\ OwnerAlone'
<1> USE DEF PlaceInv, GateInv, InOnePlace
<1>a. TypeInv /\ Joined \subseteq Tasks
  BY DEF Joined, TypeInv, TypeOK
<1>b. \A d \in Refreshed : d \subseteq Joined
  BY DEF Refreshed, Joined
<1>1. CASE PickPrioritized(w)
  <2>0. PICK d \in Refreshed : \E t \in Joined \ d :
          Refresh(d) /\ tasks' = (Joined \ d) \ {t} /\ Hold(w, t)
    BY <1>1 DEF PickPrioritized
  <2>1. PICK t \in Joined \ d :
          Refresh(d) /\ tasks' = (Joined \ d) \ {t} /\ Hold(w, t)
    BY <2>0
  <2>2. /\ wpc[w] = "awake" /\ UNCHANGED <<fresh, spinning, drained, gone, cbatch>>
        /\ staged' = {} /\ completed' = completed \cup d
        /\ NotifyAll \/ UNCHANGED <<cpc, opc>>
    BY <1>1, <2>1 DEF PickPrioritized, Refresh
  <2>3. t \in Tasks /\ t \notin Held /\ d \subseteq Joined
    BY <1>a, <1>b, <2>1 DEF PlacesDisjoint, Joined, Queued
  <2>4. Held' = Held \cup {t} /\ HeldOnce'
    BY <1>a, <2>1, <2>2, <2>3, HeldAfterHold
  <2>5. Spinning' = Spinning /\ SpinningOnce'
    BY <2>2 DEF Spinning, SpinningOnce
  <2>6. PlacesDisjoint'
    BY <2>1, <2>2, <2>3, <2>4, <2>5 DEF PlacesDisjoint, Queued, Joined
  <2>7. EveryPlace'
    BY <2>1, <2>2, <2>3, <2>4, <2>5 DEF EveryPlace, Queued, Joined
  <2> QED BY <1>a, <2>2, <2>4, <2>5, <2>6, <2>7, CallsAfterNotify
<1>2. CASE PickPostponed(w)
  <2>1. PICK d \in Refreshed, i \in FirstPostponed :
          /\ Refresh(d) /\ tasks' = Joined \ d
          /\ spinning' = WithoutIndex(spinning, i) /\ Hold(w, spinning[i])
    BY <1>2 DEF PickPostponed
  <2>2. /\ wpc[w] = "awake" /\ UNCHANGED <<fresh, drained, gone, cbatch>>
        /\ staged' = {} /\ completed' = completed \cup d
        /\ NotifyAll \/ UNCHANGED <<cpc, opc>>
    BY <1>2, <2>1 DEF PickPostponed, Refresh
  <2>3. i \in DOMAIN spinning /\ d \subseteq Joined
    BY <1>b, <2>1 DEF FirstPostponed
  <2>4. spinning[i] \in Tasks /\ spinning[i] \in Spinning /\ spinning[i] \notin Held
    <3>1. spinning[i] \in Tasks
      BY <1>a, <2>3, LenProperties, ElementOfSeq DEF TypeInv, TypeOK
    <3>2. spinning[i] \in Spinning
      BY <2>3 DEF Spinning
    <3> QED
      BY <3>1, <3>2 DEF PlacesDisjoint, Queued
  <2>5. Held' = Held \cup {spinning[i]} /\ HeldOnce'
    BY <1>a, <2>1, <2>2, <2>4, HeldAfterHold
  <2>6. Spinning' = Spinning \ {spinning[i]} /\ SpinningOnce'
    BY <1>a, <2>1, <2>3, SpinningAfterTake
  <2>7. PlacesDisjoint'
    BY <2>1, <2>2, <2>3, <2>4, <2>5, <2>6 DEF PlacesDisjoint, Queued, Joined
  <2>8. EveryPlace'
    BY <2>1, <2>2, <2>3, <2>4, <2>5, <2>6 DEF EveryPlace, Queued, Joined
  <2> QED BY <1>a, <2>2, <2>5, <2>6, <2>7, <2>8, CallsAfterNotify
<1>3. CASE PickNothing(w)
  <2>1. PICK d \in Refreshed : Refresh(d) /\ tasks' = Joined \ d
    BY <1>3 DEF PickNothing
  <2>2. /\ UNCHANGED <<fresh, spinning, drained, gone, cbatch, wtask>>
        /\ staged' = {} /\ completed' = completed \cup d /\ d \subseteq Joined
        /\ NotifyAll \/ UNCHANGED <<cpc, opc>>
    BY <1>3, <1>b, <2>1 DEF PickNothing, Refresh
  <2>3. \A v \in Workers : Busy(v)' = Busy(v)
    BY <1>3, <1>a DEF PickNothing, Busy, TypeInv, TypeOK
  <2>4. Held' = Held /\ HeldOnce'
    BY <2>2, <2>3, HeldAfterOther
  <2>5. Spinning' = Spinning /\ SpinningOnce'
    BY <2>2 DEF Spinning, SpinningOnce
  <2>6. PlacesDisjoint'
    BY <2>1, <2>2, <2>4, <2>5 DEF PlacesDisjoint, Queued, Joined
  <2>7. EveryPlace'
    BY <2>1, <2>2, <2>4, <2>5 DEF EveryPlace, Queued, Joined
  <2> QED BY <1>a, <2>2, <2>4, <2>5, <2>6, <2>7, CallsAfterNotify
<1> QED BY <1>1, <1>2, <1>3

LEMMA PlaceReport ==
  ASSUME PlaceInv, NEW w \in Workers,
         \/ SkipCancelled(w) \/ FinishComplete(w) \/ FinishPostponed(w) \/ FinishTakenOut(w)
  PROVE  InOnePlace' /\ CallsExact' /\ OwnerAlone'
<1> USE DEF PlaceInv, GateInv, InOnePlace
<1>1. PICK p \in BOOLEAN : Leave(w, p)
  <2>1. \A q, a \in BOOLEAN : Report(w, q, a) => \E p \in BOOLEAN : Leave(w, p)
    BY DEF Report
  <2> QED
    BY <2>1 DEF SkipCancelled, FinishComplete, FinishPostponed, FinishTakenOut,
                HasQueuedTasks
<1>2. Busy(w) /\ TypeInv
  BY DEF SkipCancelled, FinishComplete, FinishPostponed, FinishTakenOut, Busy
<1>3. /\ Held' = Held \ {wtask[w]} /\ HeldOnce' /\ wtask[w] \in Held
      /\ wtask[w] \in Tasks
  BY <1>1, <1>2, HeldAfterLeave DEF TypeInv, WorkersAccounted
<1>4. UNCHANGED <<fresh, staged, tasks, drained, cbatch>> /\ NotifyAll
  BY <1>1 DEF Leave
<1>5. CallsExact' /\ OwnerAlone'
  BY <1>2, <1>4, CallsAfterNotify
<1>6. CASE FinishPostponed(w)
  <2>1. Spinning' = Spinning \cup {wtask[w]} /\ SpinningOnce'
    <3>1. wtask[w] \notin Spinning
      BY <1>3 DEF PlacesDisjoint, Queued
    <3> QED
      BY <1>2, <1>3, <1>6, <3>1, SpinningAfterAppend DEF FinishPostponed
  <2>2. UNCHANGED <<completed, gone>>
    BY <1>6 DEF FinishPostponed
  <2>3. PlacesDisjoint' /\ EveryPlace'
    BY <1>3, <1>4, <2>1, <2>2 DEF PlacesDisjoint, EveryPlace, Queued
  <2> QED BY <1>3, <1>5, <2>1, <2>3
<1>7. CASE SkipCancelled(w) \/ FinishComplete(w) \/ FinishTakenOut(w)
  <2>1. Spinning' = Spinning /\ SpinningOnce'
    BY <1>7 DEF SkipCancelled, FinishComplete, FinishTakenOut, Spinning, SpinningOnce
  <2>2. \/ completed' = completed \cup {wtask[w]} /\ gone' = gone
        \/ completed' = completed /\ gone' = gone \cup {wtask[w]}
    BY <1>7 DEF SkipCancelled, FinishComplete, FinishTakenOut
  <2>3. PlacesDisjoint' /\ EveryPlace'
    BY <1>3, <1>4, <2>1, <2>2 DEF PlacesDisjoint, EveryPlace, Queued
  <2> QED BY <1>3, <1>5, <2>1, <2>3
<1> QED BY <1>6, <1>7

LEMMA PlaceWorker ==
  ASSUME PlaceInv, NEW w \in Workers, WorkerStep(w)
  PROVE  InOnePlace' /\ CallsExact' /\ OwnerAlone'
<1> USE DEF PlaceInv, GateInv, InOnePlace
<1>a. TypeInv
  OBVIOUS
<1>1. CASE TakePermit(w) \/ ExitStopping(w) \/ StartRun(w) \/ PostWork(w)
  <2>1. UNCHANGED <<taskVars, wtask, cpc, cbatch, opc>>
    BY <1>1 DEF TakePermit, ExitStopping, StartRun, PostWork, clientVars, ownerVars
  <2>2. \A v \in Workers : Busy(v)' = Busy(v)
    BY <1>1, <1>a DEF TakePermit, ExitStopping, StartRun, PostWork, Busy, TypeInv, TypeOK
  <2>3. Held' = Held /\ HeldOnce'
    BY <2>1, <2>2, HeldAfterOther
  <2>4. InOnePlace'
    BY <2>1, <2>3 DEF taskVars, PlacesDisjoint, EveryPlace, Queued, Spinning, SpinningOnce
  <2>5. CallsExact' /\ OwnerAlone'
    BY <1>a, <2>1, CallsAfterNotify DEF taskVars
  <2> QED BY <2>4, <2>5
<1>2. CASE PanicInRefresh(w)
  <2>1. PICK reached \in SUBSET (Joined \cap cancelled) :
          completed' = completed \cup reached /\ tasks' = Joined \ reached
    BY <1>2 DEF PanicInRefresh
  <2>2. UNCHANGED <<fresh, spinning, drained, gone, wtask, cpc, cbatch, opc>> /\ staged' = {}
    BY <1>2 DEF PanicInRefresh, clientVars, ownerVars
  <2>3. \A v \in Workers : Busy(v)' = Busy(v)
    BY <1>2, <1>a DEF PanicInRefresh, Busy, TypeInv, TypeOK
  <2>4. Held' = Held /\ HeldOnce'
    BY <2>2, <2>3, HeldAfterOther
  <2>5. Spinning' = Spinning /\ SpinningOnce'
    BY <2>2 DEF Spinning, SpinningOnce
  <2>6. PlacesDisjoint' /\ EveryPlace'
    BY <2>1, <2>2, <2>4, <2>5 DEF PlacesDisjoint, EveryPlace, Queued, Joined
  <2>7. CallsExact' /\ OwnerAlone'
    BY <1>a, <2>2, CallsAfterNotify
  <2> QED BY <2>4, <2>5, <2>6, <2>7
<1> QED
  BY <1>1, <1>2, PlacePick, PlaceReport DEF WorkerStep, Proceed

LEMMA PlaceClient ==
  ASSUME PlaceInv, NEW c \in Clients, ClientStep(c)
  PROVE  InOnePlace' /\ CallsExact' /\ OwnerAlone'
<1> USE DEF PlaceInv, GateInv, InOnePlace
<1>a. /\ TypeInv /\ cpc[c] \in {"idle", "pushing", "posting", "blocked", "woken"}
      /\ cbatch \in [Clients -> SUBSET Tasks] /\ cpc \in [Clients -> {"idle", "pushing", "posting", "blocked", "woken"}]
      /\ FollowUps \in [Tasks -> SUBSET Tasks]
      /\ \A t, u \in Tasks : t # u => FollowUps[t] \cap FollowUps[u] = {}
      /\ completed \subseteq Tasks /\ fresh \subseteq Tasks /\ drained \subseteq Tasks
  BY TasksAssumption DEF TypeInv, TypeOK
<1>b. UNCHANGED <<tasks, spinning, gone, wpc, wtask, opc>>
  BY DEF ClientStep, Enqueue, Drain, PostBatch, PushFollowUps, BeginWait, RecheckWait,
         taskVars, workerVars, ownerVars
<1>c. Held' = Held /\ HeldOnce'
  <2>1. \A v \in Workers : Busy(v)' = Busy(v)
    BY <1>b DEF Busy
  <2> QED BY <1>b, <2>1, HeldAfterOther
<1>d. Spinning' = Spinning /\ SpinningOnce'
  BY <1>b DEF Spinning, SpinningOnce
<1>e. OwnerAlone'
  <2>1. opc # "idle" => cpc'[c] = "idle"
    BY <1>a DEF OwnerAlone, NoCallInProgress, ClientStep, Enqueue, Drain, PostBatch, PushFollowUps,
                BeginWait, RecheckWait
  <2>2. \A d \in Clients \ {c} : cpc'[d] = cpc[d]
    BY <1>a DEF ClientStep, Enqueue, Drain, PostBatch, PushFollowUps, BeginWait, RecheckWait
  <2> QED BY <1>b, <2>1, <2>2 DEF OwnerAlone, NoCallInProgress
<1> USE <1>a, <1>b, <1>c, <1>d, <1>e
<1>1. ASSUME NEW S \in SUBSET fresh, Enqueue(c, S) PROVE InOnePlace' /\ CallsExact'
  <2>1. /\ fresh' = fresh \ S /\ staged' = staged \cup S
        /\ UNCHANGED <<tasks, completed, drained, gone>>
        /\ cpc[c] = "idle" /\ \A t \in S : ~IsFollowUp(t)
        /\ cpc' = [cpc EXCEPT ![c] = "posting"] /\ cbatch' = [cbatch EXCEPT ![c] = S]
    BY <1>1 DEF Enqueue
  <2>2. PlacesDisjoint' /\ EveryPlace'
    BY <2>1 DEF PlacesDisjoint, EveryPlace, Queued
  <2>3. \A u \in Tasks : FollowUps[u] \cap S = {}
    BY <2>1 DEF IsFollowUp
  <2>4. \A d \in Clients \ {c} : /\ cpc'[d] = cpc[d] /\ cbatch'[d] = cbatch[d]
                                 /\ InCall(d) => cbatch[d] \cap S = {}
    BY <2>1, <2>3 DEF CallsExact, InCall
  <2>5. CallsExact'
    <3>1. \A d \in Clients : cpc'[d] = "pushing" =>
            \A t \in cbatch'[d] : t \in fresh' /\ \E u \in drained' : t \in FollowUps[u]
      BY <2>1, <2>4 DEF CallsExact, InCall
    <3>2. \A d \in Clients : cpc'[d] = "posting" => cbatch'[d] \cap fresh' = {}
      BY <2>1, <2>4 DEF CallsExact
    <3>3. \A d, e \in Clients : InCall(d)' /\ InCall(e)' /\ d # e => cbatch'[d] \cap cbatch'[e] = {}
      BY <2>1, <2>4 DEF CallsExact, InCall
    <3>4. \A u \in Tasks \ drained' : FollowUps[u] \subseteq fresh'
      BY <2>1, <2>3 DEF CallsExact
    <3> QED BY <3>1, <3>2, <3>3, <3>4 DEF CallsExact
  <2> QED BY <2>2, <2>5
<1>2. ASSUME NEW F \in {{}, FollowUpsOf(completed)}, Drain(c, F) PROVE InOnePlace' /\ CallsExact'
  <2>1. /\ UNCHANGED <<fresh, staged, tasks, gone>> /\ cpc[c] = "idle"
        /\ drained' = drained \cup completed /\ completed' = {}
        /\ cpc' = [cpc EXCEPT ![c] = IF F = {} THEN "idle" ELSE "pushing"]
        /\ cbatch' = [cbatch EXCEPT ![c] = F]
    BY <1>2 DEF Drain
  <2>2. PlacesDisjoint' /\ EveryPlace'
    BY <2>1 DEF PlacesDisjoint, EveryPlace, Queued
  <2>3. \A t \in F : t \in fresh /\ \E u \in completed : t \in FollowUps[u]
    BY DEF FollowUpsOf, CallsExact, PlacesDisjoint
  <2>4. \A d \in Clients \ {c} : /\ cpc'[d] = cpc[d] /\ cbatch'[d] = cbatch[d]
                                 /\ InCall(d) => cbatch[d] \cap F = {}
    <3>1. ASSUME NEW d \in Clients, cpc[d] = "pushing", NEW t \in cbatch[d], t \in F PROVE FALSE
      <4>1. PICK u \in drained : t \in FollowUps[u]
        BY <3>1 DEF CallsExact
      <4>2. PICK v \in completed : t \in FollowUps[v]
        BY <2>3, <3>1
      <4>3. u # v
        BY DEF PlacesDisjoint
      <4> QED BY <4>1, <4>2, <4>3
    <3>2. \A d \in Clients : cpc[d] = "posting" => cbatch[d] \cap F = {}
      BY <2>3 DEF CallsExact
    <3> QED BY <2>1, <3>1, <3>2 DEF InCall
  <2>5. CallsExact'
    <3>1. \A d \in Clients : cpc'[d] = "pushing" =>
            \A t \in cbatch'[d] : t \in fresh' /\ \E u \in drained' : t \in FollowUps[u]
      BY <2>1, <2>3, <2>4 DEF CallsExact
    <3>2. \A d \in Clients : cpc'[d] = "posting" => cbatch'[d] \cap fresh' = {}
      BY <2>1, <2>4 DEF CallsExact
    <3>3. \A d, e \in Clients : InCall(d)' /\ InCall(e)' /\ d # e => cbatch'[d] \cap cbatch'[e] = {}
      BY <2>1, <2>4 DEF CallsExact, InCall
    <3>4. \A u \in Tasks \ drained' : FollowUps[u] \subseteq fresh'
      BY <2>1 DEF CallsExact
    <3> QED BY <3>1, <3>2, <3>3, <3>4 DEF CallsExact
  <2> QED BY <2>2, <2>5
<1>3. CASE PushFollowUps(c)
  <2>1. /\ fresh' = fresh \ cbatch[c] /\ staged' = staged \cup cbatch[c]
        /\ UNCHANGED <<tasks, completed, drained, gone, cbatch>>
        /\ cpc[c] = "pushing" /\ cpc' = [cpc EXCEPT ![c] = "posting"]
    BY <1>3 DEF PushFollowUps
  <2>2. cbatch[c] \subseteq fresh
    BY <2>1 DEF CallsExact
  <2>3. PlacesDisjoint' /\ EveryPlace'
    BY <2>1, <2>2 DEF PlacesDisjoint, EveryPlace, Queued
  <2>4. \A d \in Clients \ {c} : cpc'[d] = cpc[d] /\ (InCall(d) => cbatch[d] \cap cbatch[c] = {})
    BY <2>1 DEF CallsExact, InCall
  <2>5. CallsExact'
    <3>1. \A d \in Clients : cpc'[d] = "pushing" =>
            \A t \in cbatch'[d] : t \in fresh' /\ \E u \in drained' : t \in FollowUps[u]
      BY <2>1, <2>4 DEF CallsExact, InCall
    <3>2. \A d \in Clients : cpc'[d] = "posting" => cbatch'[d] \cap fresh' = {}
      BY <2>1, <2>4 DEF CallsExact
    <3>3. \A d, e \in Clients : InCall(d)' /\ InCall(e)' /\ d # e => cbatch'[d] \cap cbatch'[e] = {}
      BY <2>1, <2>4 DEF CallsExact, InCall
    <3>4. ASSUME NEW u \in Tasks \ drained, NEW t \in FollowUps[u] PROVE t \in fresh'
      <4>1. t \in fresh
        BY DEF CallsExact
      <4>2. ASSUME t \in cbatch[c] PROVE FALSE
        <5>1. PICK v \in drained : t \in FollowUps[v]
          BY <2>1, <4>2 DEF CallsExact
        <5> QED BY <5>1
      <4> QED BY <2>1, <4>1, <4>2
    <3> QED BY <2>1, <3>1, <3>2, <3>3, <3>4 DEF CallsExact
  <2> QED BY <2>3, <2>5
<1>4. CASE PostBatch(c) \/ BeginWait(c) \/ RecheckWait(c)
  <2>1. /\ UNCHANGED taskVars /\ cpc'[c] \in {"idle", "blocked"}
        /\ \A d \in Clients \ {c} : cpc'[d] = cpc[d] /\ cbatch'[d] = cbatch[d]
    BY <1>4 DEF PostBatch, BeginWait, RecheckWait
  <2>2. PlacesDisjoint' /\ EveryPlace'
    BY <2>1 DEF taskVars, PlacesDisjoint, EveryPlace, Queued
  <2>3. CallsExact'
    BY <2>1 DEF taskVars, CallsExact, InCall
  <2> QED BY <2>2, <2>3
<1> QED
  BY <1>1, <1>2, <1>3, <1>4 DEF ClientStep

LEMMA PlaceOthers ==
  ASSUME PlaceInv, OwnerStep \/ (\E t \in Tasks : Cancel(t)) \/ UNCHANGED vars
  PROVE  InOnePlace' /\ CallsExact' /\ OwnerAlone'
<1>1. UNCHANGED <<taskVars, wtask, cpc, cbatch>>
  BY DEF OwnerStep, SpawnThreads, BeginResize, OwnerWait, BeginDrop, StopThreads, PostStops,
         JoinThreads, JoinPanics, Cancel, vars, workerVars, clientVars
<1>2. \A v \in Workers : Busy(v)' = Busy(v)
  <2>1. CASE UNCHANGED wpc
    BY <2>1 DEF Busy
  <2>2. ASSUME NEW S \in ThreadSets, SpawnThreads(S)
        PROVE  \A v \in Workers : Busy(v)' = Busy(v)
    BY <2>2 DEF SpawnThreads, Spawn, Busy, PlaceInv, GateInv, TypeInv, WorkersAccounted
  <2>3. CASE JoinThreads
    BY <2>3 DEF JoinThreads, Spawn, Busy, PlaceInv, GateInv, TypeInv, WorkersAccounted
  <2> QED
    BY <2>1, <2>2, <2>3 DEF OwnerStep, BeginResize, OwnerWait, BeginDrop, StopThreads,
         PostStops, JoinPanics, Cancel, vars, workerVars
<1>3. Held' = Held /\ HeldOnce'
  BY <1>1, <1>2, HeldAfterOther DEF PlaceInv, InOnePlace
<1>4. InOnePlace'
  BY <1>1, <1>3 DEF taskVars, PlaceInv, InOnePlace, PlacesDisjoint, EveryPlace, Queued, Spinning,
                    SpinningOnce
<1>5. CallsExact'
  BY <1>1 DEF taskVars, PlaceInv, CallsExact, InCall
<1>6. OwnerAlone'
  <2>1. opc = "idle" /\ opc' # "idle" => NoCallInProgress
    BY DEF OwnerStep, SpawnThreads, BeginResize, OwnerWait, BeginDrop, StopThreads, PostStops,
           JoinThreads, JoinPanics, Cancel, vars, ownerVars
  <2> QED BY <1>1, <2>1 DEF PlaceInv, OwnerAlone, NoCallInProgress
<1> QED BY <1>4, <1>5, <1>6

LEMMA PlaceStep == PlaceInv /\ [Next]_vars => PlaceInv'
<1> SUFFICES ASSUME PlaceInv, [Next]_vars PROVE PlaceInv'
  OBVIOUS
<1>1. GateInv'
  BY GateStep DEF PlaceInv
<1>2. InOnePlace' /\ CallsExact' /\ OwnerAlone'
  BY PlaceWorker, PlaceClient, PlaceOthers DEF Next
<1> QED BY <1>1, <1>2 DEF PlaceInv

LEMMA PlaceInvariance == Spec => []PlaceInv
<1>1. Init => PlaceInv
  BY TypeInit, GateInit, PlaceInit DEF PlaceInv, GateInv
<1> QED
  BY <1>1, PlaceStep, PTL DEF Spec

\* No task handed to the pool is lost between the staging list, the queues and
\* the workers, and none is in two of them: whatever threads come and go, a
\* task panics or is cancelled, it is in exactly one place, held by one worker.
THEOREM TasksAreConserved == Spec => []Conservation
<1>1. PlaceInv => Conservation
  <2> SUFFICES ASSUME PlaceInv PROVE Conservation
    OBVIOUS
  <2> USE DEF PlaceInv, GateInv, InOnePlace
  <2>1. fresh \cup staged \cup tasks \cup Spinning \cup Held \cup completed \cup drained
          \cup gone = Tasks
    <3>1. Spinning \subseteq Tasks
      BY LenProperties, ElementOfSeq DEF Spinning, TypeInv, TypeOK
    <3>2. Held \subseteq Tasks
      BY DEF Held, TypeInv, WorkersAccounted
    <3> QED
      BY <3>1, <3>2 DEF EveryPlace, Queued, TypeInv, TypeOK
  <2>2. ASSUME NEW i \in 1 .. 8, NEW j \in 1 .. 8, i < j
        PROVE  LET places == <<fresh, staged, tasks, Spinning, Held, completed, drained, gone>>
               IN  places[i] \cap places[j] = {}
    BY <2>2 DEF PlacesDisjoint, Queued
  <2>3. \A places \in {<<fresh, staged, tasks, Spinning, Held, completed, drained, gone>>} :
          \A i, j \in 1 .. 8 : i # j => places[i] \cap places[j] = {}
    BY <2>2
  <2> QED
    BY <2>1, <2>3 DEF Conservation, HeldOnce, SpinningOnce
<1> QED
  BY <1>1, PlaceInvariance, PTL

-----------------------------------------------------------------------------
(* Whoever waits for all tasks is told.                                    *)

\* A step after which the pool is idle either found it so or notifies, and
\* only a pool that is not idle lets anybody sleep.
LEMMA WaiterStep ==
  ASSUME TypeInv, NoForgottenWaiter, [Next]_vars
  PROVE  NoForgottenWaiter'
<1> USE DEF NoForgottenWaiter
<1>1. NotifyAll => NoForgottenWaiter'
  BY DEF NotifyAll
<1>2. ASSUME Quiescent' => Quiescent,
             opc' = "blocked" => opc = "blocked" \/ ~Quiescent',
             \A c \in Clients : cpc'[c] = "blocked" => cpc[c] = "blocked" \/ ~Quiescent'
      PROVE  NoForgottenWaiter'
  BY <1>2
<1>3. ASSUME UNCHANGED <<tasks, spinning, runningCount, staged>> PROVE Quiescent' = Quiescent
  BY <1>3 DEF Quiescent, HasPendingOrRunningTasks, HasQueuedTasks
<1>4. ASSUME NEW w \in Workers, WorkerStep(w) PROVE NoForgottenWaiter'
  <2>1. CASE TakePermit(w) \/ ExitStopping(w) \/ StartRun(w) \/ PostWork(w)
    BY <1>2, <1>3, <2>1 DEF TakePermit, ExitStopping, StartRun, PostWork, taskVars, gateVars,
                            clientVars, ownerVars
  <2>2. CASE PanicInRefresh(w)
    <3>1. tasks' # {}
      BY <2>2 DEF PanicInRefresh
    <3>2. ~Quiescent'
      BY <3>1 DEF Quiescent, HasPendingOrRunningTasks, HasQueuedTasks
    <3> QED BY <3>2
  <2>3. CASE PickPrioritized(w) \/ PickPostponed(w)
    <3>1. runningCount' = runningCount + 1
      BY <2>3 DEF PickPrioritized, PickPostponed, Hold, Taken
    <3>2. ~Quiescent'
      BY <3>1 DEF Quiescent, HasPendingOrRunningTasks, TypeInv, TypeOK
    <3> QED BY <3>2
  <2>4. CASE PickNothing(w)
    <3>1. PICK d \in Refreshed : Refresh(d) /\ tasks' = Joined \ d
      BY <2>4 DEF PickNothing
    <3>2. CASE d = {}
      <4>1. UNCHANGED <<cpc, opc, spinning, runningCount>> /\ (tasks' = {} => tasks = {} /\ staged = {})
        BY <2>4, <3>1, <3>2 DEF PickNothing, Refresh, gateVars, Joined
      <4> QED
        BY <1>2, <4>1 DEF Quiescent, HasPendingOrRunningTasks, HasQueuedTasks
    <3>3. CASE d # {}
      BY <1>1, <3>1, <3>3 DEF Refresh
    <3> QED BY <3>2, <3>3
  <2>5. CASE SkipCancelled(w) \/ FinishComplete(w) \/ FinishPostponed(w) \/ FinishTakenOut(w)
    BY <1>1, <2>5 DEF SkipCancelled, FinishComplete, FinishPostponed, FinishTakenOut, Report, Leave
  <2> QED
    BY <1>4, <2>1, <2>2, <2>3, <2>4, <2>5 DEF WorkerStep, Proceed
<1>5. ASSUME NEW c \in Clients, ClientStep(c) PROVE NoForgottenWaiter'
  <2>1. /\ UNCHANGED <<tasks, spinning, runningCount, opc>> /\ staged \subseteq staged'
        /\ \A d \in Clients : cpc'[d] = "blocked" => cpc[d] = "blocked" \/ (~Quiescent /\ staged' = staged)
    BY <1>5 DEF ClientStep, Enqueue, Drain, PostBatch, PushFollowUps, BeginWait, RecheckWait,
                taskVars, gateVars, ownerVars, TypeInv, TypeOK
  <2>2. Quiescent' => Quiescent
    BY <2>1 DEF Quiescent, HasPendingOrRunningTasks, HasQueuedTasks
  <2> QED
    BY <1>2, <2>1, <2>2
<1>6. CASE OwnerStep
  <2>1. /\ UNCHANGED <<tasks, spinning, runningCount, staged, cpc>>
        /\ opc' = "blocked" => opc = "blocked" \/ ~Quiescent
    BY <1>6 DEF OwnerStep, SpawnThreads, BeginResize, OwnerWait, BeginDrop, StopThreads, PostStops,
                JoinThreads, JoinPanics, taskVars, gateVars, clientVars
  <2> QED
    BY <1>2, <1>3, <2>1
<1>7. ASSUME NEW t \in Tasks, Cancel(t) PROVE NoForgottenWaiter'
  BY <1>2, <1>3, <1>7 DEF Cancel, taskVars, gateVars, clientVars, ownerVars
<1>8. CASE UNCHANGED vars
  BY <1>2, <1>3, <1>8 DEF vars, taskVars, gateVars, clientVars, ownerVars
<1> QED
  BY <1>4, <1>5, <1>6, <1>7, <1>8 DEF Next

\* Nobody sleeps in wait_for_all_tasks while the pool is idle: not a client, and
\* not the owner inside set_thread_count or shutdown.
THEOREM WaitersAreTold == Spec => []NoForgottenWaiter
<1>1. Init => NoForgottenWaiter
  BY DEF Init, NoForgottenWaiter
<1>2. TypeInv /\ NoForgottenWaiter /\ [Next]_vars => NoForgottenWaiter'
  BY WaiterStep
<1> QED
  BY <1>1, <1>2, TypeInvariance, PTL DEF Spec

-----------------------------------------------------------------------------
(* No wake-up is lost.                                                     *)

Plain == Queued \ Serial
StagedSerial == staged \cap Serial
SerialTurn == IF Queued \cap Serial # {} /\ ~serialRunning THEN 1 ELSE 0
Awake == {w \in Workers : wpc[w] \in {"awake", "posting"}}
Announced == UNION {cbatch[c] : c \in {d \in Clients : cpc[d] = "posting"}}

NoneDead == \A w \in Workers : wpc[w] # "dead"
Owing == NoneDead /\ opc \notin {"dropPosting", "dropJoining", "dropped"}

\* The wake-ups under way suffice for the tasks that are queued: those that are
\* not serial with one turn of the serial ones, and also those that are not
\* serial with all the serial ones still staged.  The second bound is what lets
\* a worker that opens the gate leave without a post when it sees empty queues:
\* serial tasks that are being staged meanwhile bring their own wake-ups.
Enough ==
  Owing => /\ Cardinality(Plain) + SerialTurn <= WakeUps
           /\ Cardinality(Plain) + Cardinality(StagedSerial) <= WakeUps

\* Threads are told to stop, other than by a drop, when there is nothing left
\* to do; and those told to stop are gone before anybody uses the runner again.
StopsWhenDone ==
  /\ opc \in {"stopping", "posting", "joining"} => Quiescent
  /\ stopping => handles = {} \/ opc \in {"posting", "joining", "dropPosting", "dropJoining",
                                          "dropped", "panicked"}
  /\ opc = "panicked" => ~NoneDead

WakeInv == PlaceInv /\ StopsWhenDone /\ Enough

LEMMA StopsInit == Init => StopsWhenDone
BY DEF Init, StopsWhenDone

LEMMA StopsStep ==
  ASSUME PlaceInv, StopsWhenDone, [Next]_vars
  PROVE  StopsWhenDone'
<1> USE DEF PlaceInv, GateInv
<1>a. TypeInv /\ WorkersAccounted /\ wpc \in [Workers -> {"none", "waiting", "awake", "picked",
         "running", "posting", "exited", "dead"}]
  BY DEF TypeInv, TypeOK
<1>1. ASSUME NEW w \in Workers, WorkerStep(w) PROVE StopsWhenDone'
  <2>1. /\ UNCHANGED <<stopping, handles>> /\ opc' \in {opc, "woken"} /\ (opc' # opc => opc = "blocked")
    BY <1>1 DEF WorkerStep, Proceed, TakePermit, ExitStopping, StartRun, PostWork, PanicInRefresh,
                PickPrioritized, PickPostponed, PickNothing, Refresh, NotifyAll, SkipCancelled,
                FinishComplete, FinishPostponed, FinishTakenOut, Report, Leave, ownerVars
  <2>2. wpc[w] # "dead" /\ \A v \in Workers \ {w} : wpc'[v] = wpc[v]
    BY <1>1, <1>a DEF WorkerStep, Proceed, TakePermit, ExitStopping, StartRun, PostWork, PanicInRefresh,
                PickPrioritized, PickPostponed, PickNothing, SkipCancelled, Hold, Taken,
                FinishComplete, FinishPostponed, FinishTakenOut, Report, Leave
  <2>3. NoneDead' => NoneDead
    BY <2>2 DEF NoneDead
  <2>4. Quiescent => Quiescent'
    <3> SUFFICES ASSUME Quiescent PROVE Quiescent'
      OBVIOUS
    <3>1. tasks = {} /\ staged = {} /\ spinning = <<>> /\ runningCount = 0
      BY DEF Quiescent, HasPendingOrRunningTasks, HasQueuedTasks
    <3>2. \A v \in Workers : ~Busy(v)
      <4>1. IsFiniteSet({v \in Workers : Busy(v)})
        BY FiniteCounts
      <4> QED
        BY <3>1, <4>1, FS_EmptySet DEF GateExact, RunningCountExact
    <3>3. Joined = {} /\ FirstPostponed = {}
      BY <3>1 DEF Joined, FirstPostponed
    <3>4. CASE TakePermit(w) \/ ExitStopping(w) \/ StartRun(w) \/ PostWork(w)
      BY <3>1, <3>4 DEF TakePermit, ExitStopping, StartRun, PostWork, taskVars, gateVars,
                        Quiescent, HasPendingOrRunningTasks, HasQueuedTasks
    <3>5. CASE PickNothing(w)
      BY <3>1, <3>3, <3>5 DEF PickNothing, Refresh, gateVars,
                        Quiescent, HasPendingOrRunningTasks, HasQueuedTasks
    <3>6. ~(PanicInRefresh(w) \/ PickPrioritized(w) \/ PickPostponed(w))
      BY <3>3 DEF PanicInRefresh, PickPrioritized, PickPostponed
    <3>7. ~(SkipCancelled(w) \/ FinishComplete(w) \/ FinishPostponed(w) \/ FinishTakenOut(w))
      BY <3>2 DEF SkipCancelled, FinishComplete, FinishPostponed, FinishTakenOut, Busy
    <3> QED
      BY <1>1, <3>4, <3>5, <3>6, <3>7 DEF WorkerStep, Proceed
  <2> QED
    BY <2>1, <2>3, <2>4 DEF StopsWhenDone
<1>2. ASSUME NEW c \in Clients, ClientStep(c) PROVE StopsWhenDone'
  <2>1. UNCHANGED <<stopping, handles, opc, wpc>>
    BY <1>2 DEF ClientStep, Enqueue, Drain, PostBatch, PushFollowUps, BeginWait, RecheckWait,
                workerVars, ownerVars
  <2>2. opc # "idle" => UNCHANGED <<tasks, staged, spinning, runningCount>>
    BY <1>2 DEF OwnerAlone, NoCallInProgress, ClientStep, Enqueue, Drain, PostBatch, PushFollowUps,
                BeginWait, RecheckWait, taskVars, gateVars
  <2> QED
    BY <2>1, <2>2 DEF StopsWhenDone, NoneDead, Quiescent, HasPendingOrRunningTasks, HasQueuedTasks
<1>3. CASE OwnerStep
  <2>1. UNCHANGED <<tasks, staged, spinning, runningCount>> /\ Quiescent' = Quiescent
    <3>1. UNCHANGED <<tasks, staged, spinning, runningCount>>
      BY <1>3 DEF OwnerStep, SpawnThreads, BeginResize, OwnerWait, BeginDrop, StopThreads, PostStops,
                  JoinThreads, JoinPanics, taskVars, gateVars
    <3> QED BY <3>1 DEF Quiescent, HasPendingOrRunningTasks, HasQueuedTasks
  <2>2. ASSUME NEW S \in ThreadSets, SpawnThreads(S) PROVE StopsWhenDone'
    BY <2>2 DEF StopsWhenDone, SpawnThreads
  <2>3. CASE JoinThreads
    BY <2>3 DEF StopsWhenDone, JoinThreads
  <2>4. CASE (\E S \in ThreadSets : BeginResize(S)) \/ OwnerWait \/ BeginDrop \/ StopThreads \/ PostStops
             \/ JoinPanics
    <3>1. UNCHANGED <<wpc, handles>>
      BY <2>4 DEF BeginResize, OwnerWait, BeginDrop, StopThreads, PostStops, JoinPanics, workerVars
    <3>2. opc' \in {"stopping", "posting", "joining"} =>
            Quiescent \/ opc \in {"stopping", "posting", "joining"}
      BY <2>4 DEF BeginResize, OwnerWait, BeginDrop, StopThreads, PostStops, JoinPanics
    <3>3. opc' = "panicked" => ~NoneDead
      <4>1. CASE JoinPanics
        <5>1. handles \subseteq Workers
          BY <1>a DEF TypeInv, TypeOK
        <5> QED BY <4>1, <5>1 DEF JoinPanics, NoneDead
      <4> QED
        BY <2>4, <4>1 DEF BeginResize, OwnerWait, BeginDrop, StopThreads, PostStops
    <3>4. stopping' => handles = {} \/ opc' \in {"posting", "joining", "dropPosting", "dropJoining",
                                          "dropped", "panicked"}
      BY <2>4 DEF StopsWhenDone, BeginResize, OwnerWait, BeginDrop, StopThreads, PostStops, JoinPanics
    <3> QED
      BY <2>1, <3>1, <3>2, <3>3, <3>4 DEF StopsWhenDone, NoneDead
  <2> QED
    BY <1>3, <2>2, <2>3, <2>4 DEF OwnerStep
<1>4. CASE UNCHANGED vars \/ \E t \in Tasks : Cancel(t)
  <2>1. UNCHANGED <<tasks, staged, spinning, runningCount, wpc, handles, opc, stopping>>
    BY <1>4 DEF vars, Cancel, taskVars, gateVars, workerVars, ownerVars
  <2> QED
    BY <2>1 DEF StopsWhenDone, NoneDead, Quiescent, HasPendingOrRunningTasks, HasQueuedTasks
<1> QED
  BY <1>1, <1>2, <1>3, <1>4 DEF Next

\* Counting: what is left of a finite set, and what joins it.
LEMMA CountPart ==
  ASSUME NEW S, IsFiniteSet(S), NEW T \in SUBSET S
  PROVE  /\ Cardinality(S) \in Nat /\ Cardinality(T) \in Nat /\ Cardinality(T) <= Cardinality(S)
         /\ T # S => Cardinality(T) + 1 <= Cardinality(S)
<1>1. IsFiniteSet(T) /\ Cardinality(T) <= Cardinality(S) /\ (Cardinality(S) = Cardinality(T) => S = T)
  BY FS_Subset
<1>2. Cardinality(S) \in Nat /\ Cardinality(T) \in Nat
  BY <1>1, FS_CardinalityType
<1> QED BY <1>1, <1>2

LEMMA CountUnion ==
  ASSUME NEW S, IsFiniteSet(S), NEW T, IsFiniteSet(T)
  PROVE  /\ Cardinality(S) \in Nat /\ Cardinality(T) \in Nat /\ Cardinality(S \cup T) \in Nat
         /\ Cardinality(S \cup T) <= Cardinality(S) + Cardinality(T)
         /\ S \cap T = {} => Cardinality(S \cup T) = Cardinality(S) + Cardinality(T)
<1>1. IsFiniteSet(S \cap T) /\ IsFiniteSet(S \cup T)
      /\ Cardinality(S \cup T) = Cardinality(S) + Cardinality(T) - Cardinality(S \cap T)
  BY FS_Union, FS_Intersection
<1>2. Cardinality(S) \in Nat /\ Cardinality(T) \in Nat /\ Cardinality(S \cap T) \in Nat
      /\ Cardinality(S \cup T) \in Nat
  BY <1>1, FS_CardinalityType
<1>3. S \cap T = {} => Cardinality(S \cap T) = 0
  BY FS_EmptySet
<1> QED BY <1>1, <1>2, <1>3

\* The counts are numbers, and WakeUps is their sum.
LEMMA WakeCounts ==
  ASSUME TypeInv
  PROVE  /\ Plain \subseteq Tasks /\ StagedSerial \subseteq Tasks /\ Announced \subseteq Tasks
         /\ Awake \subseteq Workers
         /\ IsFiniteSet(Plain) /\ IsFiniteSet(StagedSerial) /\ IsFiniteSet(Announced)
         /\ IsFiniteSet(Awake)
         /\ Cardinality(Plain) \in Nat /\ Cardinality(StagedSerial) \in Nat
         /\ Cardinality(Announced) \in Nat /\ Cardinality(Awake) \in Nat
         /\ SerialTurn \in {0, 1} /\ permits \in Nat
         /\ WakeUps = permits + Cardinality(Awake) + Cardinality(Announced)
<1>1. Spinning \subseteq Tasks
  BY LenProperties, ElementOfSeq DEF Spinning, TypeInv, TypeOK
<1>2. /\ Plain \subseteq Tasks /\ StagedSerial \subseteq Tasks /\ Announced \subseteq Tasks
      /\ Awake \subseteq Workers
  BY <1>1 DEF Plain, StagedSerial, Announced, Awake, Queued, TypeInv, TypeOK
<1>3. SerialTurn \in {0, 1} /\ permits \in Nat
  BY DEF SerialTurn, TypeInv, TypeOK
<1>4. WakeUps = permits + Cardinality(Awake) + Cardinality(Announced)
  BY DEF WakeUps, Awake, Announced
<1> QED BY <1>2, <1>3, <1>4, FiniteCounts

WakeUpsAreCounted ==
  /\ WakeUps = permits + Cardinality(Awake) + Cardinality(Announced)
  /\ WakeUps \in Nat /\ permits \in Nat /\ Cardinality(Awake) \in Nat /\ Cardinality(Announced) \in Nat

LEMMA WakeCountsNow == TypeInv => WakeUpsAreCounted
BY WakeCounts DEF WakeUpsAreCounted

LEMMA WakeCountsNext == TypeInv' => WakeUpsAreCounted'
BY WakeCountsNow, PTL

\* A step that takes as many wake-ups as it serves.
LEMMA EnoughAfterPick ==
  ASSUME WakeInv, TypeInv', NEW w \in Workers, PickPrioritized(w) \/ PickPostponed(w), Owing
  PROVE  /\ Cardinality(Plain') + SerialTurn' <= WakeUps'
         /\ Cardinality(Plain') + Cardinality(StagedSerial') <= WakeUps'
<1> USE DEF WakeInv, PlaceInv, GateInv, InOnePlace
<1>a. TypeInv /\ Enough
  OBVIOUS
<1>1. PICK t \in Tasks : Eligible(t) /\ t \in Queued /\ t \notin Queued' /\ Queued' \subseteq Queued
                         /\ Hold(w, t)
  <2>0. \A d \in Refreshed : d \subseteq Joined
    BY DEF Refreshed, Joined
  <2>1. CASE PickPrioritized(w)
    <3>1. PICK d \in Refreshed : \E t \in Joined \ d : Eligible(t) /\ Refresh(d)
                                   /\ tasks' = (Joined \ d) \ {t} /\ Hold(w, t)
      BY <2>1 DEF PickPrioritized
    <3>2. PICK t \in Joined \ d : Eligible(t) /\ Refresh(d)
                                   /\ tasks' = (Joined \ d) \ {t} /\ Hold(w, t)
      BY <3>1
    <3>3. spinning' = spinning /\ staged' = {} /\ Spinning' = Spinning
      BY <2>1, <3>2 DEF PickPrioritized, Refresh, Spinning
    <3> QED
      BY <3>2, <3>3 DEF Queued, Joined, PlacesDisjoint, TypeInv, TypeOK
  <2>2. CASE PickPostponed(w)
    <3>1. PICK d \in Refreshed, i \in FirstPostponed : /\ Refresh(d) /\ tasks' = Joined \ d
            /\ spinning' = WithoutIndex(spinning, i) /\ Hold(w, spinning[i])
      BY <2>2 DEF PickPostponed
    <3>2. i \in DOMAIN spinning /\ Eligible(spinning[i]) /\ spinning[i] \in Tasks
          /\ spinning[i] \in Spinning
      BY LenProperties, ElementOfSeq DEF FirstPostponed, TypeInv, TypeOK, Spinning
    <3>3. staged' = {} /\ Spinning' = Spinning \ {spinning[i]}
      BY <1>a, <3>1, <3>2, SpinningAfterTake DEF Refresh
    <3> QED
      BY <3>1, <3>2, <3>3 DEF Queued, Joined, PlacesDisjoint
  <2> QED BY <2>1, <2>2
<1>2. /\ wpc[w] = "awake" /\ wpc' = [wpc EXCEPT ![w] = "picked"]
      /\ UNCHANGED <<permits, cbatch>> /\ staged' = {}
      /\ serialRunning' = (serialRunning \/ t \in Serial)
      /\ \A c \in Clients : cpc'[c] = "posting" <=> cpc[c] = "posting"
  BY <1>1 DEF PickPrioritized, PickPostponed, Refresh, NotifyAll, Hold, Taken
<1>3. Announced' = Announced /\ StagedSerial' = {}
  BY <1>2 DEF Announced, StagedSerial
<1>4. Awake' = Awake \ {w} /\ w \in Awake
  BY <1>2 DEF Awake, TypeInv, TypeOK
<1>5. Cardinality(Awake') = Cardinality(Awake) - 1 /\ Cardinality(StagedSerial') = 0
  BY <1>3, <1>4, WakeCounts, FS_RemoveElement, FS_EmptySet
<1>6. /\ WakeUps' = WakeUps - 1 /\ WakeUps \in Nat /\ SerialTurn' \in {0, 1} /\ SerialTurn \in {0, 1}
      /\ Cardinality(Plain) \in Nat /\ Cardinality(Plain) + SerialTurn <= WakeUps
  <2>1. WakeUps' = permits' + Cardinality(Awake') + Cardinality(Announced')
    BY DEF WakeUps, Awake, Announced
  <2>2. Cardinality(Plain) + SerialTurn <= WakeUps
    BY <1>a DEF Enough
  <2>3. SerialTurn' \in {0, 1}
    BY DEF SerialTurn
  <2> QED
    BY <1>2, <1>3, <1>5, <2>1, <2>2, <2>3, WakeCounts
<1>7. Plain' \subseteq Plain
  BY <1>1 DEF Plain
<1>8. CASE t \notin Serial
  <2>1. t \in Plain /\ t \notin Plain'
    BY <1>1, <1>8 DEF Plain
  <2>2. Cardinality(Plain') + 1 <= Cardinality(Plain) /\ Cardinality(Plain') \in Nat
    BY <1>7, <2>1, CountPart, WakeCounts
  <2>3. SerialTurn' = 1 => SerialTurn = 1
    BY <1>1, <1>2, <1>8 DEF SerialTurn
  <2> QED
    BY <1>5, <1>6, <2>2, <2>3
<1>9. CASE t \in Serial
  <2>1. Cardinality(Plain') <= Cardinality(Plain) /\ Cardinality(Plain') \in Nat
    BY <1>7, CountPart, WakeCounts
  <2>2. SerialTurn' = 0 /\ SerialTurn = 1
    BY <1>1, <1>2, <1>9 DEF SerialTurn, Eligible
  <2> QED
    BY <1>5, <1>6, <2>1, <2>2
<1> QED BY <1>8, <1>9

\* A worker that gives a task back to the queue posts for it; one that opens
\* the gate posts when it sees queued tasks, and those it cannot see are staged.
LEMMA EnoughAfterReport ==
  ASSUME WakeInv, NEW w \in Workers, Owing,
         \/ SkipCancelled(w) \/ FinishComplete(w) \/ FinishPostponed(w) \/ FinishTakenOut(w)
  PROVE  /\ Cardinality(Plain') + SerialTurn' <= WakeUps'
         /\ Cardinality(Plain') + Cardinality(StagedSerial') <= WakeUps'
<1> USE DEF WakeInv, PlaceInv, GateInv, InOnePlace
<1>a. TypeInv /\ Enough /\ GateExact
  OBVIOUS
<1>b. Busy(w) /\ wtask[w] \in Tasks /\ wtask[w] \notin Queued
  <2>1. Busy(w)
    BY DEF SkipCancelled, FinishComplete, FinishPostponed, FinishTakenOut, Busy
  <2>2. wtask[w] \in Held
    BY <2>1 DEF Held
  <2> QED
    BY <2>1, <2>2 DEF PlacesDisjoint, TypeInv, WorkersAccounted
<1> DEFINE back == FinishPostponed(w)
           post == back \/ (wtask[w] \in Serial /\ HasQueuedTasks)
<1>1. Leave(w, post)
  <2>1. CASE FinishPostponed(w)
    <3>1. Leave(w, TRUE \/ (wtask[w] \in Serial /\ TRUE))
      BY <2>1 DEF FinishPostponed, Report
    <3> QED BY <2>1, <3>1 DEF Leave
  <2>2. CASE ~FinishPostponed(w)
    <3>1. Leave(w, FALSE \/ (wtask[w] \in Serial /\ HasQueuedTasks))
      BY <2>2 DEF SkipCancelled, FinishComplete, FinishTakenOut, Report
    <3> QED BY <2>2, <3>1 DEF Leave
  <2> QED BY <2>1, <2>2
<1>2. /\ wpc' = [wpc EXCEPT ![w] = IF post THEN "posting" ELSE "waiting"]
      /\ UNCHANGED <<permits, cbatch, staged, tasks>>
      /\ serialRunning' = (serialRunning /\ wtask[w] \notin Serial)
      /\ \A c \in Clients : cpc'[c] = "posting" <=> cpc[c] = "posting"
  BY <1>1 DEF Leave, NotifyAll
<1>3. Announced' = Announced /\ StagedSerial' = StagedSerial
  BY <1>2 DEF Announced, StagedSerial
<1>4. Awake' = (IF post THEN Awake \cup {w} ELSE Awake) /\ w \notin Awake
  BY <1>2, <1>b DEF Awake, Busy, TypeInv, TypeOK
<1>5. Cardinality(Awake') = Cardinality(Awake) + IF post THEN 1 ELSE 0
  <2>1. Cardinality(Awake \cup {w}) = Cardinality(Awake) + 1 /\ Cardinality(Awake) \in Nat
    BY <1>4, WakeCounts, FS_AddElement
  <2> HIDE DEF post
  <2> QED
    BY <1>4, <2>1
<1>6. /\ WakeUps' = WakeUps + (IF post THEN 1 ELSE 0) /\ WakeUps \in Nat
      /\ Cardinality(Plain) + SerialTurn <= WakeUps
      /\ Cardinality(Plain) + Cardinality(StagedSerial) <= WakeUps
  <2>1. WakeUps' = permits' + Cardinality(Awake') + Cardinality(Announced')
    BY DEF WakeUps, Awake, Announced
  <2> QED
    BY <1>a, <1>2, <1>3, <1>5, <2>1, WakeCounts DEF Enough
<1>7. SerialTurn' \in {0, 1} /\ SerialTurn \in {0, 1}
  BY DEF SerialTurn
<1>8. CASE back
  <2>1. Spinning' = Spinning \cup {wtask[w]}
    <3>1. wtask[w] \notin Spinning
      BY <1>b DEF Queued
    <3> QED
      BY <1>a, <1>b, <1>8, <3>1, SpinningAfterAppend DEF FinishPostponed
  <2>2. Queued' = Queued \cup {wtask[w]}
    BY <1>2, <2>1 DEF Queued
  <2>3. CASE wtask[w] \in Serial
    <3>1. Plain' = Plain
      BY <2>2, <2>3 DEF Plain
    <3> QED
      <4>1. serialRunning
        BY <1>a, <1>b, <2>3 DEF GateExact, SerialExclusion
      <4>2. SerialTurn = 0
        BY <4>1 DEF SerialTurn
      <4> QED
        BY <1>3, <1>6, <1>7, <1>8, <3>1, <4>2, WakeCounts
  <2>4. CASE wtask[w] \notin Serial
    <3>1. Plain' = Plain \cup {wtask[w]}
      BY <2>2, <2>4 DEF Plain
    <3>2. wtask[w] \notin Plain
      BY <1>b DEF Plain
    <3>3. Cardinality(Plain') = Cardinality(Plain) + 1
      BY <3>1, <3>2, WakeCounts, FS_AddElement
    <3>4. SerialTurn' = SerialTurn
      BY <1>2, <2>2, <2>4 DEF SerialTurn, TypeInv, TypeOK
    <3> QED
      BY <1>3, <1>6, <1>7, <1>8, <3>3, <3>4, WakeCounts
  <2> QED BY <2>3, <2>4
<1>9. CASE ~back
  <2>1. spinning' = spinning /\ Spinning' = Spinning /\ Queued' = Queued /\ Plain' = Plain
    BY <1>2, <1>9 DEF SkipCancelled, FinishComplete, FinishTakenOut, Queued, Spinning, Plain
  <2>2. CASE wtask[w] \in Serial /\ HasQueuedTasks
    <3>1. SerialTurn = 0
      BY <1>a, <1>b, <2>2 DEF GateExact, SerialExclusion, SerialTurn
    <3> QED
      BY <1>3, <1>6, <1>7, <2>1, <2>2, <3>1, WakeCounts
  <2>3. CASE ~HasQueuedTasks
    <3>1. Queued = staged
      BY <2>3 DEF HasQueuedTasks, Queued, Spinning
    <3>2. SerialTurn' = 1 => Cardinality(StagedSerial) >= 1
      <4>1. SerialTurn' = 1 => StagedSerial # {}
        BY <2>1, <3>1 DEF SerialTurn, StagedSerial
      <4> QED
        BY <4>1, WakeCounts, FS_EmptySet
    <3> QED
      BY <1>3, <1>6, <1>7, <2>1, <2>3, <1>9, <3>2, WakeCounts
  <2>4. CASE wtask[w] \notin Serial
    <3>1. SerialTurn' = SerialTurn
      BY <1>2, <2>1, <2>4 DEF SerialTurn, TypeInv, TypeOK
    <3> QED
      BY <1>3, <1>6, <1>7, <2>1, <2>4, <1>9, <3>1, WakeCounts
  <2> QED BY <2>2, <2>3, <2>4
<1> QED BY <1>8, <1>9

\* Tasks that are staged are announced: the client that stages them owes posts.
LEMMA EnoughAfterStaging ==
  ASSUME WakeInv, NEW c \in Clients, NEW S \in SUBSET Tasks, Owing,
         Announced \cap S = {}, Announced' = Announced \cup S,
         staged' = staged \cup S, UNCHANGED <<tasks, spinning, serialRunning, wpc, permits>>
  PROVE  /\ Cardinality(Plain') + SerialTurn' <= WakeUps'
         /\ Cardinality(Plain') + Cardinality(StagedSerial') <= WakeUps'
<1>a. TypeInv /\ Enough
  BY DEF WakeInv, PlaceInv, GateInv
<1> DEFINE plain == S \ Serial
           serial == S \cap Serial
<1>1. /\ Plain' = Plain \cup plain /\ StagedSerial' = StagedSerial \cup serial
      /\ Queued' = Queued \cup S /\ Awake' = Awake
  BY DEF Plain, StagedSerial, Queued, Spinning, Awake
<1>2. IsFiniteSet(S) /\ IsFiniteSet(plain) /\ IsFiniteSet(serial)
  BY FiniteCounts
<1>3. /\ Cardinality(S) = Cardinality(plain) + Cardinality(serial)
      /\ Cardinality(plain) \in Nat /\ Cardinality(serial) \in Nat
  <2>1. S = plain \cup serial /\ plain \cap serial = {}
    OBVIOUS
  <2> HIDE DEF plain, serial
  <2> QED
    BY <1>2, <2>1, CountUnion
<1>4. /\ Cardinality(Plain') <= Cardinality(Plain) + Cardinality(plain)
      /\ Cardinality(Plain') \in Nat
  BY <1>a, <1>1, <1>2, WakeCounts, CountUnion
<1>5. /\ Cardinality(StagedSerial') <= Cardinality(StagedSerial) + Cardinality(serial)
      /\ Cardinality(StagedSerial') \in Nat
  BY <1>a, <1>1, <1>2, WakeCounts, CountUnion
<1>6. SerialTurn' <= SerialTurn + Cardinality(serial) /\ SerialTurn' \in {0, 1}
  <2>1. SerialTurn' \in {0, 1} /\ SerialTurn \in {0, 1}
    BY DEF SerialTurn
  <2>2. serial = {} => SerialTurn' = SerialTurn
    BY <1>1 DEF SerialTurn
  <2>3. serial # {} => Cardinality(serial) >= 1
    BY <1>2, <1>3, FS_EmptySet
  <2> HIDE DEF serial
  <2> QED
    BY <1>3, <2>1, <2>2, <2>3
<1>7. WakeUps' = WakeUps + Cardinality(S)
  <2>1. Cardinality(Announced') = Cardinality(Announced) + Cardinality(S)
    BY <1>a, <1>2, WakeCounts, CountUnion
  <2>2. WakeUps' = permits' + Cardinality(Awake') + Cardinality(Announced')
    BY DEF WakeUps, Awake, Announced
  <2> QED
    BY <1>a, <1>1, <1>3, <2>1, <2>2, WakeCounts
<1> HIDE DEF plain, serial
<1> QED
  BY <1>a, <1>3, <1>4, <1>5, <1>6, <1>7, WakeCounts DEF Enough

\* A step that changes neither the tasks that wait nor the gate.
LEMMA EnoughAfterOther ==
  ASSUME Enough, Owing, UNCHANGED <<staged, tasks, spinning, serialRunning>>, WakeUps' >= WakeUps,
         TypeInv, WakeUps' \in Nat
  PROVE  /\ Cardinality(Plain') + SerialTurn' <= WakeUps'
         /\ Cardinality(Plain') + Cardinality(StagedSerial') <= WakeUps'
<1>1. Plain' = Plain /\ StagedSerial' = StagedSerial /\ SerialTurn' = SerialTurn
  BY DEF Plain, StagedSerial, SerialTurn, Queued, Spinning
<1> QED
  BY <1>1, WakeCounts DEF Enough

\* Nothing waits: nothing is owed.
LEMMA EnoughWhenServed ==
  ASSUME WakeUps' \in Nat, staged' = {}, Plain' = {}, Queued' \cap Serial = {} \/ serialRunning'
  PROVE  /\ Cardinality(Plain') + SerialTurn' <= WakeUps'
         /\ Cardinality(Plain') + Cardinality(StagedSerial') <= WakeUps'
<1>1. SerialTurn' = 0 /\ StagedSerial' = {}
  BY DEF SerialTurn, StagedSerial
<1> QED
  BY <1>1, FS_EmptySet

LEMMA EnoughWorker ==
  ASSUME WakeInv, TypeInv', NEW w \in Workers, WorkerStep(w), Owing, Owing'
  PROVE  /\ Cardinality(Plain') + SerialTurn' <= WakeUps'
         /\ Cardinality(Plain') + Cardinality(StagedSerial') <= WakeUps'
<1> USE DEF WakeInv, PlaceInv, GateInv
<1>a. /\ TypeInv /\ Enough /\ StopsWhenDone /\ WakeUps \in Nat
      /\ WakeUps = permits + Cardinality(Awake) + Cardinality(Announced)
      /\ Cardinality(Awake) \in Nat /\ Cardinality(Announced) \in Nat /\ permits \in Nat
  BY WakeCountsNow DEF WakeUpsAreCounted
<1>b. WakeUps' = permits' + Cardinality(Awake') + Cardinality(Announced') /\ WakeUps' \in Nat
  BY WakeCountsNext DEF WakeUpsAreCounted
<1>1. CASE PickPrioritized(w) \/ PickPostponed(w)
  BY <1>1, EnoughAfterPick
<1>2. CASE SkipCancelled(w) \/ FinishComplete(w) \/ FinishPostponed(w) \/ FinishTakenOut(w)
  BY <1>2, EnoughAfterReport
<1>3. CASE TakePermit(w) \/ PostWork(w) \/ StartRun(w)
  <2>1. UNCHANGED <<staged, tasks, spinning, serialRunning, cpc, cbatch>> /\ Announced' = Announced
    BY <1>3 DEF TakePermit, PostWork, StartRun, taskVars, gateVars, clientVars, Announced
  <2>2. permits' + Cardinality(Awake') = permits + Cardinality(Awake)
    <3>0. IsFiniteSet(Awake) /\ Cardinality(Awake) \in Nat
      BY <1>a, WakeCounts
    <3>1. CASE TakePermit(w)
      <4>1. permits' = permits - 1 /\ Awake' = Awake \cup {w} /\ w \notin Awake
        BY <3>1, <1>a DEF TakePermit, Awake, TypeInv, TypeOK
      <4>2. Cardinality(Awake \cup {w}) = Cardinality(Awake) + 1
        BY <3>0, <4>1, FS_AddElement
      <4> QED BY <1>a, <4>1, <4>2
    <3>2. CASE PostWork(w)
      <4>1. permits' = permits + 1 /\ Awake' = Awake \ {w} /\ w \in Awake
        BY <3>2, <1>a DEF PostWork, Awake, TypeInv, TypeOK
      <4>2. Cardinality(Awake \ {w}) = Cardinality(Awake) - 1
        BY <3>0, <4>1, FS_RemoveElement
      <4> QED BY <1>a, <4>1, <4>2
    <3>3. CASE StartRun(w)
      <4>1. /\ permits' = permits /\ wpc[w] \notin {"awake", "posting"}
            /\ \A v \in Workers : v # w => wpc'[v] = wpc[v]
            /\ wpc'[w] \notin {"awake", "posting"}
        BY <3>3, <1>a DEF StartRun, TypeInv, TypeOK
      <4>2. Awake' = Awake
        BY <4>1 DEF Awake
      <4> QED BY <4>1, <4>2
    <3> QED BY <1>3, <3>1, <3>2, <3>3
  <2> QED
    BY <1>a, <1>b, <2>1, <2>2, EnoughAfterOther
<1>4. CASE ExitStopping(w)
  <2>1. w \in handles /\ opc' = opc /\ opc \in {"posting", "joining"}
    BY <1>4, <1>a DEF ExitStopping, StopsWhenDone, Owing, TypeInv, WorkersAccounted, ownerVars
  <2>2. tasks' = {} /\ staged' = {} /\ spinning' = <<>>
    BY <1>4, <1>a, <2>1 DEF StopsWhenDone, Quiescent, HasPendingOrRunningTasks, HasQueuedTasks,
                       ExitStopping, taskVars
  <2>3. Queued' = {}
    BY <2>2 DEF Queued, Spinning
  <2> QED
    BY <1>b, <2>2, <2>3, EnoughWhenServed DEF Plain
<1>5. CASE PickNothing(w)
  <2>1. PICK d \in Refreshed : (\A t \in Joined \ d : ~Eligible(t)) /\ Refresh(d) /\ tasks' = Joined \ d
    BY <1>5 DEF PickNothing
  <2>2. /\ FirstPostponed = {} /\ UNCHANGED <<spinning, serialRunning>> /\ staged' = {}
    BY <1>5, <2>1 DEF PickNothing, Refresh, gateVars
  <2>3. \A t \in Spinning : ~Eligible(t)
    <3>1. CASE serialRunning
      <4> SUFFICES ASSUME NEW i \in DOMAIN spinning, Eligible(spinning[i]) PROVE FALSE
        BY DEF Spinning
      <4> DEFINE able == {j \in DOMAIN spinning : Eligible(spinning[j])}
      <4>1. DOMAIN spinning = 1 .. Len(spinning) /\ Len(spinning) \in Nat
        BY <1>a, LenProperties DEF TypeInv, TypeOK
      <4>2. able \in SUBSET Nat /\ able # {}
        BY <4>1
      <4>3. \A x, y \in Nat : <<x, y>> \in OpToRel(<, Nat) <=> x < y
        BY DEF OpToRel
      <4> DEFINE less == OpToRel(<, Nat)
      <4>4. IsWellFoundedOn(less, Nat)
        BY NatLessThanWellFounded
      <4>5. \A x, y \in Nat : <<x, y>> \in less <=> x < y
        BY <4>3
      <4> HIDE DEF less
      <4>6. PICK n \in able : \A m \in able : <<m, n>> \notin less
        BY <4>2, <4>4, WFMin
      <4>7. n \in Nat /\ \A m \in able : m \in Nat /\ ~ (m < n)
        BY <4>2, <4>5, <4>6
      <4>8. n \in DOMAIN spinning /\ Eligible(spinning[n])
        BY <4>6
      <4>9. \A j \in 1 .. n - 1 : ~Eligible(spinning[j])
        BY <4>1, <4>7, <4>8
      <4> QED BY <2>2, <4>8, <4>9 DEF FirstPostponed
    <3>2. CASE ~serialRunning
      <4>1. \A t : Eligible(t)
        BY <3>2 DEF Eligible
      <4>2. DOMAIN spinning = 1 .. Len(spinning) /\ Len(spinning) \in Nat
        BY <1>a, LenProperties DEF TypeInv, TypeOK
      <4>3. 1 \in DOMAIN spinning => 1 \in FirstPostponed
        BY <4>1, <4>2 DEF FirstPostponed
      <4>4. DOMAIN spinning = {}
        BY <2>2, <4>2, <4>3
      <4> QED BY <4>4 DEF Spinning
    <3> QED BY <3>1, <3>2
  <2>4. Spinning' = Spinning
    BY <2>2 DEF Spinning
  <2>5. \A t \in Queued' : t \in Serial /\ serialRunning
    BY <2>1, <2>2, <2>3, <2>4 DEF Queued, Eligible
  <2> QED
    BY <1>b, <2>2, <2>5, EnoughWhenServed DEF Plain
<1>6. CASE PanicInRefresh(w)
  BY <1>6, <1>a DEF PanicInRefresh, Owing, NoneDead, TypeInv, TypeOK
<1> QED
  BY <1>1, <1>2, <1>3, <1>4, <1>5, <1>6 DEF WorkerStep, Proceed

LEMMA EnoughClient ==
  ASSUME WakeInv, TypeInv', NEW c \in Clients, ClientStep(c), Owing
  PROVE  /\ Cardinality(Plain') + SerialTurn' <= WakeUps'
         /\ Cardinality(Plain') + Cardinality(StagedSerial') <= WakeUps'
<1> USE DEF WakeInv, PlaceInv, GateInv
<1>a. /\ TypeInv /\ Enough /\ CallsExact /\ WakeUps \in Nat
      /\ WakeUps = permits + Cardinality(Awake) + Cardinality(Announced)
      /\ Cardinality(Awake) \in Nat /\ Cardinality(Announced) \in Nat /\ permits \in Nat
  BY WakeCountsNow DEF WakeUpsAreCounted
<1>b. WakeUps' = permits' + Cardinality(Awake') + Cardinality(Announced') /\ WakeUps' \in Nat
  BY WakeCountsNext DEF WakeUpsAreCounted
<1>c. /\ UNCHANGED <<tasks, spinning, serialRunning, wpc>> /\ Awake' = Awake
      /\ cpc \in [Clients -> {"idle", "pushing", "posting", "blocked", "woken"}]
      /\ cbatch \in [Clients -> SUBSET Tasks] /\ fresh \subseteq Tasks
  BY <1>a DEF ClientStep, Enqueue, Drain, PostBatch, PushFollowUps, BeginWait, RecheckWait,
              taskVars, gateVars, workerVars, Awake, TypeInv, TypeOK
<1>1. ASSUME NEW S \in SUBSET fresh, Enqueue(c, S) PROVE Announced' = Announced \cup S /\ Announced \cap S = {}
  BY <1>1, <1>a, <1>c DEF Enqueue, Announced, CallsExact
<1>2. CASE \E S \in SUBSET fresh : Enqueue(c, S)
  <2>1. PICK S \in SUBSET fresh : Enqueue(c, S)
    BY <1>2
  <2> QED
    BY <1>c, <1>1, <2>1, EnoughAfterStaging DEF Enqueue
<1>3. CASE PushFollowUps(c)
  <2>1. /\ cpc[c] = "pushing" /\ cpc' = [cpc EXCEPT ![c] = "posting"] /\ cbatch' = cbatch
        /\ staged' = staged \cup cbatch[c] /\ permits' = permits
    BY <1>3 DEF PushFollowUps
  <2>2. Announced' = Announced \cup cbatch[c]
    BY <1>c, <2>1 DEF Announced
  <2>3. Announced \cap cbatch[c] = {}
    BY <1>a, <2>1 DEF Announced, CallsExact, InCall
  <2> QED
    BY <1>c, <2>1, <2>2, <2>3, EnoughAfterStaging
<1>4. CASE PostBatch(c)
  <2>1. /\ cpc[c] = "posting" /\ cpc' = [cpc EXCEPT ![c] = "idle"]
        /\ cbatch' = [cbatch EXCEPT ![c] = {}]
        /\ permits' = permits + Cardinality(cbatch[c]) /\ staged' = staged
    BY <1>4 DEF PostBatch, taskVars
  <2>2. Announced = Announced' \cup cbatch[c]
    BY <1>c, <2>1 DEF Announced
  <2>3. Announced' \cap cbatch[c] = {}
    BY <1>a, <1>c, <2>1 DEF Announced, CallsExact, InCall
  <2>4. IsFiniteSet(Announced') /\ IsFiniteSet(cbatch[c])
    <3>1. Announced' \subseteq Tasks /\ cbatch[c] \subseteq Tasks
      BY <1>a, <1>c, <2>2, WakeCounts
    <3> QED BY <3>1, FiniteCounts
  <2>5. Cardinality(Announced) = Cardinality(Announced') + Cardinality(cbatch[c])
        /\ Cardinality(Announced') \in Nat /\ Cardinality(cbatch[c]) \in Nat
    BY <2>2, <2>3, <2>4, CountUnion
  <2>6. WakeUps' = WakeUps
    BY <1>a, <1>b, <1>c, <2>1, <2>5
  <2> QED
    BY <1>a, <1>b, <1>c, <2>1, <2>6, EnoughAfterOther
<1>5. CASE (\E F \in {{}, FollowUpsOf(completed)} : Drain(c, F)) \/ BeginWait(c) \/ RecheckWait(c)
  <2>1. /\ UNCHANGED <<staged, permits>> /\ cpc[c] # "posting" /\ cpc'[c] # "posting"
        /\ \A d \in Clients \ {c} : cpc'[d] = cpc[d] /\ cbatch'[d] = cbatch[d]
    BY <1>c, <1>5 DEF Drain, BeginWait, RecheckWait, taskVars
  <2>2. Announced' = Announced
    BY <2>1 DEF Announced
  <2> QED
    BY <1>a, <1>b, <1>c, <2>1, <2>2, EnoughAfterOther
<1> QED
  BY <1>2, <1>3, <1>4, <1>5 DEF ClientStep

LEMMA EnoughOthers ==
  ASSUME WakeInv, TypeInv', Owing, Owing',
         OwnerStep \/ (\E t \in Tasks : Cancel(t)) \/ UNCHANGED vars
  PROVE  /\ Cardinality(Plain') + SerialTurn' <= WakeUps'
         /\ Cardinality(Plain') + Cardinality(StagedSerial') <= WakeUps'
<1> USE DEF WakeInv, PlaceInv, GateInv
<1>a. /\ TypeInv /\ Enough /\ StopsWhenDone /\ WakeUps \in Nat
      /\ WakeUps = permits + Cardinality(Awake) + Cardinality(Announced)
      /\ Cardinality(Awake) \in Nat /\ Cardinality(Announced) \in Nat /\ permits \in Nat
  BY WakeCountsNow DEF WakeUpsAreCounted
<1>b. WakeUps' = permits' + Cardinality(Awake') + Cardinality(Announced') /\ WakeUps' \in Nat
  BY WakeCountsNext DEF WakeUpsAreCounted
<1>c. UNCHANGED <<staged, tasks, spinning, serialRunning, cpc, cbatch>> /\ Announced' = Announced
  BY DEF OwnerStep, SpawnThreads, BeginResize, OwnerWait, BeginDrop, StopThreads, PostStops,
         JoinThreads, JoinPanics, Cancel, vars, taskVars, gateVars, clientVars, Announced
<1>1. CASE JoinThreads
  <2>1. tasks = {} /\ staged = {} /\ spinning = <<>>
    BY <1>1, <1>a DEF JoinThreads, Owing, StopsWhenDone, Quiescent, HasPendingOrRunningTasks,
                      HasQueuedTasks
  <2>2. Queued' = {}
    BY <1>c, <2>1 DEF Queued, Spinning
  <2> QED
    BY <1>b, <1>c, <2>1, <2>2, EnoughWhenServed DEF Plain
<1>2. ASSUME NEW S \in ThreadSets, SpawnThreads(S) PROVE Awake' = Awake /\ permits' = permits
  <2>1. \A w \in Workers : wpc[w] = "none"
    BY <1>2, <1>a DEF SpawnThreads, TypeInv, WorkersAccounted
  <2> QED
    BY <1>2, <2>1 DEF SpawnThreads, Spawn, Awake
<1>3. CASE \/ \E S \in ThreadSets : SpawnThreads(S) \/ BeginResize(S)
           \/ OwnerWait \/ BeginDrop \/ StopThreads \/ JoinPanics
           \/ (\E t \in Tasks : Cancel(t)) \/ UNCHANGED vars
  <2>1. Awake' = Awake /\ permits' = permits
    BY <1>2, <1>3 DEF BeginResize, OwnerWait, BeginDrop, StopThreads, JoinPanics, Cancel, vars,
                      workerVars, Awake
  <2> QED
    BY <1>a, <1>b, <1>c, <2>1, EnoughAfterOther
<1>4. CASE PostStops
  <2>1. handles \in SUBSET Workers
    BY <1>a DEF TypeInv, TypeOK
  <2>2. Cardinality(handles) \in Nat
    BY <2>1, FiniteCounts
  <2>3. Awake' = Awake /\ permits' = permits + Cardinality(handles)
    BY <1>4 DEF PostStops, StopPosts, workerVars, Awake
  <2> QED
    BY <1>a, <1>b, <1>c, <2>2, <2>3, EnoughAfterOther
<1> QED
  BY <1>1, <1>3, <1>4 DEF OwnerStep

\* A runner that owes nothing, because a thread died or it is being dropped,
\* never owes anything again.
LEMMA OwingStep ==
  ASSUME PlaceInv, [Next]_vars, Owing'
  PROVE  Owing
<1>a. /\ WorkersAccounted /\ wpc \in [Workers -> {"none", "waiting", "awake", "picked",
         "running", "posting", "exited", "dead"}]
  BY DEF PlaceInv, GateInv, TypeInv, TypeOK
<1>1. NoneDead
  <2> SUFFICES ASSUME NEW v \in Workers, wpc[v] = "dead" PROVE wpc'[v] = "dead"
    BY DEF Owing, NoneDead
  <2>1. ASSUME NEW w \in Workers, WorkerStep(w) PROVE wpc'[v] = "dead"
    BY <1>a, <2>1 DEF WorkerStep, Proceed, TakePermit, ExitStopping, StartRun, PostWork, PanicInRefresh,
                PickPrioritized, PickPostponed, PickNothing, SkipCancelled, Hold, Taken,
                FinishComplete, FinishPostponed, FinishTakenOut, Report, Leave
  <2>2. ASSUME NEW c \in Clients, ClientStep(c) PROVE wpc' = wpc
    BY <2>2 DEF ClientStep, Enqueue, Drain, PostBatch, PushFollowUps, BeginWait, RecheckWait, workerVars
  <2>3. CASE OwnerStep
    <3>1. v \in handles
      BY <1>a DEF WorkersAccounted
    <3> QED
      BY <2>3, <3>1 DEF OwnerStep, SpawnThreads, BeginResize, OwnerWait, BeginDrop, StopThreads,
         PostStops, JoinThreads, JoinPanics, workerVars
  <2>4. CASE UNCHANGED vars \/ \E t \in Tasks : Cancel(t)
    BY <2>4 DEF vars, Cancel, workerVars
  <2> QED
    BY <2>1, <2>2, <2>3, <2>4 DEF Next
<1>2. opc \notin {"dropPosting", "dropJoining", "dropped"}
  <2> SUFFICES ASSUME opc \in {"dropPosting", "dropJoining", "dropped"}, opc' # opc, opc' # "dropJoining",
                      opc' # "dropped"
               PROVE  FALSE
    BY DEF Owing
  <2>1. CASE OwnerStep
    <3>1. JoinPanics
      BY <2>1 DEF OwnerStep, SpawnThreads, BeginResize, OwnerWait, BeginDrop, StopThreads,
         PostStops, JoinThreads
    <3>2. handles \subseteq Workers
      BY DEF PlaceInv, GateInv, TypeInv, TypeOK
    <3> QED
      BY <3>1, <3>2, <1>1 DEF JoinPanics, NoneDead
  <2>2. CASE ~OwnerStep
    <3>1. opc' = opc
      BY <2>2 DEF Next, Cancel, vars, ownerVars,
           WorkerStep, Proceed, TakePermit, ExitStopping, StartRun, PostWork, PanicInRefresh,
           PickPrioritized, PickPostponed, PickNothing, Refresh, NotifyAll, SkipCancelled,
           FinishComplete, FinishPostponed, FinishTakenOut, Report, Leave,
           ClientStep, Enqueue, Drain, PostBatch, PushFollowUps, BeginWait, RecheckWait
    <3> QED BY <3>1
  <2> QED BY <2>1, <2>2
<1> QED BY <1>1, <1>2 DEF Owing

LEMMA WakeStep == WakeInv /\ [Next]_vars => WakeInv'
<1> SUFFICES ASSUME WakeInv, [Next]_vars PROVE WakeInv'
  OBVIOUS
<1>1. PlaceInv'
  BY PlaceStep DEF WakeInv
<1>2. StopsWhenDone'
  BY StopsStep DEF WakeInv
<1>3. Enough'
  <2> SUFFICES ASSUME Owing' PROVE /\ Cardinality(Plain') + SerialTurn' <= WakeUps'
                                   /\ Cardinality(Plain') + Cardinality(StagedSerial') <= WakeUps'
    BY DEF Enough
  <2>1. Owing /\ TypeInv'
    BY <1>1, OwingStep DEF WakeInv, PlaceInv, GateInv
  <2> QED
    BY <2>1, EnoughWorker, EnoughClient, EnoughOthers DEF Next
<1> QED BY <1>1, <1>2, <1>3 DEF WakeInv

LEMMA WakeInit == Init => WakeInv
<1> SUFFICES ASSUME Init PROVE WakeInv
  OBVIOUS
<1>1. PlaceInv
  BY TypeInit, GateInit, PlaceInit DEF PlaceInv, GateInv
<1>2. staged = {} /\ tasks = {} /\ spinning = <<>>
  BY DEF Init
<1>3. Plain = {} /\ StagedSerial = {} /\ SerialTurn = 0
  BY <1>2 DEF Plain, StagedSerial, SerialTurn, Queued, Spinning
<1>4. Enough
  BY <1>1, <1>3, WakeCountsNow, FS_EmptySet DEF Enough, WakeUpsAreCounted, PlaceInv, GateInv
<1> QED BY <1>1, <1>4, StopsInit DEF WakeInv

\* Permits are never spent in vain for good: as long as a runner is not dropped
\* and its threads live, each queued task that is not serial has a wake-up under
\* way, and so has the serial queue while the gate is open; and a resize or a
\* shutdown stops no thread over a task.
THEOREM WakeUpsSuffice == Spec => []NoLostWakeUp
<1>1. WakeInv => NoLostWakeUp
  BY DEF WakeInv, Enough, Owing, NoneDead, NoLostWakeUp, Plain, SerialTurn, StopsWhenDone
<1>2. Spec => []WakeInv
  BY WakeInit, WakeStep, PTL DEF Spec
<1> QED
  BY <1>1, <1>2, PTL

-----------------------------------------------------------------------------
(* The pool implements TaskPool.                                           *)

Waiting == {c \in Clients : cpc[c] \in {"blocked", "woken"}}

\* Where a task is tells its phase, and the other way round.
PhasesTell ==
  \A t \in Tasks :
    /\ PhaseOf(t) \in {"new", "pending", "running", "done", "lost"}
    /\ PhaseOf(t) = "new" <=> t \in fresh
    /\ PhaseOf(t) = "pending" <=> t \in Queued
    /\ PhaseOf(t) = "running" <=> t \in Held
    /\ PhaseOf(t) = "lost" <=> t \in gone
    /\ PhaseOf(t) = "done" <=> t \in completed \cup drained

LEMMA PhasesNow == PlaceInv => PhasesTell
<1> SUFFICES ASSUME PlaceInv, NEW t \in Tasks
             PROVE  /\ PhaseOf(t) \in {"new", "pending", "running", "done", "lost"}
                    /\ PhaseOf(t) = "new" <=> t \in fresh
                    /\ PhaseOf(t) = "pending" <=> t \in Queued
                    /\ PhaseOf(t) = "running" <=> t \in Held
                    /\ PhaseOf(t) = "lost" <=> t \in gone
                    /\ PhaseOf(t) = "done" <=> t \in completed \cup drained
  BY DEF PhasesTell
<1>1. /\ fresh \cap (Queued \cup Held \cup gone \cup completed \cup drained) = {}
      /\ Queued \cap (Held \cup gone \cup completed \cup drained) = {}
      /\ Held \cap (gone \cup completed \cup drained) = {}
      /\ gone \cap (completed \cup drained) = {}
  BY DEF PlaceInv, InOnePlace, PlacesDisjoint, Queued
<1>2. CASE t \in fresh
  BY <1>1, <1>2 DEF PhaseOf
<1>3. CASE t \in Queued
  BY <1>1, <1>3 DEF PhaseOf
<1>4. CASE t \in Held
  BY <1>1, <1>4 DEF PhaseOf
<1>5. CASE t \in gone
  BY <1>1, <1>5 DEF PhaseOf
<1>6. CASE t \in completed \cup drained
  BY <1>1, <1>6 DEF PhaseOf
<1> QED
  BY <1>2, <1>3, <1>4, <1>5, <1>6 DEF PlaceInv, InOnePlace, EveryPlace

LEMMA PhasesNext == PlaceInv' => PhasesTell'
BY PhasesNow, PTL

\* A step after which every task is where it was or one phase further.
Onward ==
  /\ UNCHANGED <<cancelled, Waiting>>
  /\ fresh \subseteq fresh' \cup Queued'
  /\ Queued \subseteq Queued' \cup Held' \cup (completed' \cap cancelled)
  /\ Held \subseteq Held' \cup Queued' \cup completed' \cup gone'
  /\ completed \cup drained \subseteq completed' \cup drained'
  /\ gone \subseteq gone'

LEMMA PoolAdvances ==
  ASSUME PlaceInv, PlaceInv', Onward
  PROVE  Pool!Advance
<1> DEFINE phase == [t \in Tasks |-> PhaseOf(t)]
<1>1. PhasesTell /\ PhasesTell'
  BY PhasesNow, PhasesNext
<1>2. phase' \in [Tasks -> Pool!Phases]
  BY <1>1 DEF PhasesTell, Pool!Phases
<1>3. ASSUME NEW t \in Tasks PROVE Pool!MayMove(t, phase[t], phase'[t])
  <2>1. phase[t] = PhaseOf(t) /\ phase'[t] = PhaseOf(t)'
    OBVIOUS
  <2>2. CASE t \in fresh
    BY <1>1, <2>1, <2>2 DEF Onward, PhasesTell, Pool!MayMove
  <2>3. CASE t \in Queued
    BY <1>1, <2>1, <2>3 DEF Onward, PhasesTell, Pool!MayMove
  <2>4. CASE t \in Held
    BY <1>1, <2>1, <2>4 DEF Onward, PhasesTell, Pool!MayMove
  <2>5. CASE t \in gone
    BY <1>1, <2>1, <2>5 DEF Onward, PhasesTell, Pool!MayMove
  <2>6. CASE t \in completed \cup drained
    BY <1>1, <2>1, <2>6 DEF Onward, PhasesTell, Pool!MayMove
  <2> QED
    BY <1>1, <2>2, <2>3, <2>4, <2>5, <2>6 DEF PhasesTell
<1>4. ASSUME NEW t \in Serial, NEW u \in Serial, phase'[t] = "running", phase'[u] = "running"
      PROVE  t = u
  <2>1. t \in Held' /\ u \in Held'
    BY <1>1, <1>4, TasksAssumption DEF PhasesTell
  <2> QED
    BY <2>1 DEF Held, PlaceInv, GateInv, GateExact, SerialExclusion
<1>5. UNCHANGED <<cancelled, {c \in Clients : cpc[c] \in {"blocked", "woken"}}>>
  BY DEF Onward, Waiting
<1> QED
  BY <1>2, <1>3, <1>4, <1>5 DEF Pool!Advance, Pool!OneSerial

LEMMA WaitingAfterNotify ==
  ASSUME TypeInv, NotifyAll \/ UNCHANGED cpc
  PROVE  UNCHANGED Waiting
BY DEF NotifyAll, Waiting, TypeInv, TypeOK

LEMMA OnwardPick ==
  ASSUME PlaceInv, NEW w \in Workers,
         PickPrioritized(w) \/ PickPostponed(w) \/ PickNothing(w) \/ PanicInRefresh(w)
  PROVE  Onward
<1>a. TypeInv /\ HeldOnce /\ Joined \subseteq Tasks /\ Joined \cap Held = {} /\ Spinning \cap Held = {}
  BY DEF PlaceInv, GateInv, InOnePlace, PlacesDisjoint, Joined, Queued, TypeInv, TypeOK
<1>b. \A d \in Refreshed : d \subseteq Joined /\ d \subseteq cancelled
  BY DEF Refreshed, Joined
<1>c. Queued = Joined \cup Spinning
  BY DEF Queued, Joined
<1>1. CASE PickPrioritized(w)
  <2>0. PICK d \in Refreshed : \E t \in Joined \ d :
          Refresh(d) /\ tasks' = (Joined \ d) \ {t} /\ Hold(w, t)
    BY <1>1 DEF PickPrioritized
  <2>1. PICK t \in Joined \ d :
          Refresh(d) /\ tasks' = (Joined \ d) \ {t} /\ Hold(w, t)
    BY <2>0
  <2>2. /\ wpc[w] = "awake" /\ UNCHANGED <<fresh, spinning, drained, gone, cancelled>>
        /\ completed' = completed \cup d /\ (NotifyAll \/ UNCHANGED cpc)
    BY <1>1, <2>1 DEF PickPrioritized, Refresh
  <2>3. Held' = Held \cup {t}
    BY <1>a, <2>1, <2>2, HeldAfterHold
  <2>4. Joined \subseteq Queued' \cup {t} \cup d /\ Spinning \subseteq Queued'
    BY <2>1, <2>2 DEF Queued, Spinning
  <2> QED
    BY <1>a, <1>b, <1>c, <2>1, <2>2, <2>3, <2>4, WaitingAfterNotify DEF Onward
<1>2. CASE PickPostponed(w)
  <2>0. PICK d \in Refreshed : \E i \in FirstPostponed :
          /\ Refresh(d) /\ tasks' = Joined \ d
          /\ spinning' = WithoutIndex(spinning, i) /\ Hold(w, spinning[i])
    BY <1>2 DEF PickPostponed
  <2>1. PICK i \in FirstPostponed :
          /\ Refresh(d) /\ tasks' = Joined \ d
          /\ spinning' = WithoutIndex(spinning, i) /\ Hold(w, spinning[i])
    BY <2>0
  <2>2. /\ wpc[w] = "awake" /\ UNCHANGED <<fresh, drained, gone, cancelled>>
        /\ completed' = completed \cup d /\ (NotifyAll \/ UNCHANGED cpc)
    BY <1>2, <2>1 DEF PickPostponed, Refresh
  <2>3. i \in DOMAIN spinning /\ spinning[i] \in Tasks /\ spinning[i] \in Spinning
    BY <1>a, <2>1, LenProperties, ElementOfSeq DEF FirstPostponed, Spinning, TypeInv, TypeOK
  <2>4. Held' = Held \cup {spinning[i]}
    BY <1>a, <2>1, <2>2, <2>3, HeldAfterHold
  <2>5. Spinning' = Spinning \ {spinning[i]}
    BY <1>a, <2>1, <2>3, SpinningAfterTake DEF PlaceInv, InOnePlace
  <2>6. Joined \subseteq Queued' \cup d /\ Spinning \subseteq Queued' \cup {spinning[i]}
    BY <2>1, <2>5 DEF Queued
  <2> QED
    BY <1>a, <1>b, <1>c, <2>1, <2>2, <2>4, <2>6, WaitingAfterNotify DEF Onward
<1>3. CASE PickNothing(w) \/ PanicInRefresh(w)
  <2>1. PICK d \in SUBSET (Joined \cap cancelled) : completed' = completed \cup d /\ tasks' = Joined \ d
    BY <1>3, <1>b DEF PickNothing, PanicInRefresh, Refresh
  <2>2. /\ UNCHANGED <<fresh, spinning, drained, gone, wtask, cancelled>>
        /\ NotifyAll \/ UNCHANGED cpc
    BY <1>3 DEF PickNothing, PanicInRefresh, Refresh, clientVars
  <2>3. \A v \in Workers : Busy(v)' = Busy(v)
    BY <1>3, <1>a DEF PickNothing, PanicInRefresh, Busy, TypeInv, TypeOK
  <2>4. Held' = Held
    BY <1>a, <2>2, <2>3, HeldAfterOther
  <2>5. Joined \subseteq Queued' \cup d /\ Spinning \subseteq Queued'
    BY <2>1, <2>2 DEF Queued, Spinning
  <2> QED
    BY <1>a, <1>c, <2>1, <2>2, <2>4, <2>5, WaitingAfterNotify DEF Onward
<1> QED BY <1>1, <1>2, <1>3

LEMMA OnwardReport ==
  ASSUME PlaceInv, NEW w \in Workers,
         SkipCancelled(w) \/ FinishComplete(w) \/ FinishPostponed(w) \/ FinishTakenOut(w)
  PROVE  Onward
<1>1. PICK p \in BOOLEAN : Leave(w, p)
  <2>1. \A q, a \in BOOLEAN : Report(w, q, a) => \E p \in BOOLEAN : Leave(w, p)
    BY DEF Report
  <2> QED
    BY <2>1 DEF SkipCancelled, FinishComplete, FinishPostponed, FinishTakenOut,
                HasQueuedTasks
<1>2. Busy(w) /\ TypeInv /\ HeldOnce /\ SpinningOnce
  BY DEF SkipCancelled, FinishComplete, FinishPostponed, FinishTakenOut, Busy, PlaceInv, GateInv,
         InOnePlace
<1>3. Held' = Held \ {wtask[w]} /\ wtask[w] \in Held /\ wtask[w] \in Tasks
  BY <1>1, <1>2, HeldAfterLeave DEF TypeInv, WorkersAccounted
<1>4. UNCHANGED <<fresh, staged, tasks, drained, cancelled>> /\ NotifyAll
  BY <1>1 DEF Leave
<1>5. /\ wtask[w] \in Queued' \cup completed' \cup gone'
      /\ Spinning \subseteq Spinning' /\ completed \subseteq completed' /\ gone \subseteq gone'
  <2>1. CASE FinishPostponed(w)
    <3>1. wtask[w] \notin Spinning
      BY <1>3 DEF PlaceInv, InOnePlace, PlacesDisjoint, Queued
    <3>2. Spinning' = Spinning \cup {wtask[w]}
      BY <1>2, <1>3, <2>1, <3>1, SpinningAfterAppend DEF FinishPostponed
    <3> QED BY <2>1, <3>2 DEF FinishPostponed, Queued
  <2>2. CASE SkipCancelled(w) \/ FinishComplete(w) \/ FinishTakenOut(w)
    BY <2>2 DEF SkipCancelled, FinishComplete, FinishTakenOut, Spinning
  <2> QED BY <2>1, <2>2
<1> QED
  BY <1>2, <1>3, <1>4, <1>5, WaitingAfterNotify DEF Onward, Queued

\* A step that leaves the tasks, what the workers hold and the waiters alone.
LEMMA OnwardStill ==
  ASSUME TypeInv, UNCHANGED <<taskVars, cancelled, wtask, Waiting>>,
         \A v \in Workers : Busy(v)' = Busy(v)
  PROVE  Onward
<1>1. Held' = Held /\ Queued' = Queued
  BY DEF Held, Queued, Spinning, taskVars
<1> QED
  BY <1>1 DEF Onward, taskVars

LEMMA OnwardClient ==
  ASSUME PlaceInv, NEW c \in Clients, ClientStep(c), ~BeginWait(c), ~RecheckWait(c)
  PROVE  Onward
<1>1. /\ UNCHANGED <<tasks, spinning, gone, wpc, wtask, cancelled>>
      /\ cpc[c] \in {"idle", "pushing", "posting"} /\ cpc'[c] \in {"idle", "pushing", "posting"}
      /\ \A d \in Clients \ {c} : cpc'[d] = cpc[d]
      /\ fresh \subseteq fresh' \cup staged' /\ staged \subseteq staged'
      /\ completed \cup drained \subseteq completed' \cup drained'
  BY DEF ClientStep, Enqueue, Drain, PostBatch, PushFollowUps, workerVars, taskVars,
         PlaceInv, GateInv, TypeInv, TypeOK
<1>2. Waiting' = Waiting
  BY <1>1 DEF Waiting
<1>3. Held' = Held
  BY <1>1 DEF Held, Busy
<1>4. Spinning' = Spinning
  BY <1>1 DEF Spinning
<1> QED BY <1>1, <1>2, <1>3, <1>4 DEF Onward, Queued

LEMMA OnwardOthers ==
  ASSUME PlaceInv, OwnerStep \/ UNCHANGED vars
  PROVE  Onward
<1>a. TypeInv
  BY DEF PlaceInv, GateInv
<1>1. UNCHANGED <<taskVars, cancelled, wtask, cpc>>
  BY DEF OwnerStep, SpawnThreads, BeginResize, OwnerWait, BeginDrop, StopThreads, PostStops,
         JoinThreads, JoinPanics, vars, workerVars, clientVars
<1>2. \A v \in Workers : Busy(v)' = Busy(v)
  <2>1. CASE UNCHANGED wpc
    BY <2>1 DEF Busy
  <2>2. ASSUME NEW S \in ThreadSets, SpawnThreads(S)
        PROVE  \A v \in Workers : Busy(v)' = Busy(v)
    BY <1>a, <2>2 DEF SpawnThreads, Spawn, Busy, TypeInv, WorkersAccounted
  <2>3. CASE JoinThreads
    BY <1>a, <2>3 DEF JoinThreads, Spawn, Busy, TypeInv, WorkersAccounted
  <2> QED
    BY <2>1, <2>2, <2>3 DEF OwnerStep, BeginResize, OwnerWait, BeginDrop, StopThreads,
         PostStops, JoinPanics, vars, workerVars
<1>3. Waiting' = Waiting
  BY <1>1 DEF Waiting
<1> QED BY <1>a, <1>1, <1>2, <1>3, OnwardStill

LEMMA OnwardWorker ==
  ASSUME PlaceInv, NEW w \in Workers, WorkerStep(w)
  PROVE  Onward
<1>1. CASE TakePermit(w) \/ ExitStopping(w) \/ StartRun(w) \/ PostWork(w)
  <2>a. TypeInv
    BY DEF PlaceInv, GateInv
  <2>1. UNCHANGED <<taskVars, cancelled, wtask, cpc>>
    BY <1>1 DEF TakePermit, ExitStopping, StartRun, PostWork, clientVars
  <2>2. \A v \in Workers : Busy(v)' = Busy(v)
    BY <1>1, <2>a DEF TakePermit, ExitStopping, StartRun, PostWork, Busy, TypeInv, TypeOK
  <2>3. Waiting' = Waiting
    BY <2>1 DEF Waiting
  <2> QED BY <2>a, <2>1, <2>2, <2>3, OnwardStill
<1> QED
  BY <1>1, OnwardPick, OnwardReport DEF WorkerStep, Proceed

\* The abstract pool is idle exactly when the waiters' look says so.
LEMMA IdleIsQuiescent ==
  ASSUME PlaceInv
  PROVE  Pool!Idle <=> Quiescent
<1> DEFINE phase == [t \in Tasks |-> PhaseOf(t)]
<1>1. Queued \subseteq Tasks /\ Held \subseteq Tasks
  <2>1. Queued \subseteq Tasks
    BY LenProperties, ElementOfSeq DEF PlaceInv, GateInv, TypeInv, TypeOK, Queued, Spinning
  <2>2. Held \subseteq Tasks
    BY DEF PlaceInv, GateInv, TypeInv, WorkersAccounted, Held
  <2> QED BY <2>1, <2>2
<1>2. Pool!In("pending") = Queued /\ Pool!In("running") = Held
  BY <1>1, PhasesNow DEF PhasesTell, Pool!In
<1>3. Pool!Idle <=> Queued = {} /\ Held = {}
  BY <1>2 DEF Pool!Idle
<1>4. Queued = {} <=> ~HasQueuedTasks /\ staged = {}
  <2>1. spinning \in Seq(Tasks) /\ DOMAIN spinning = 1 .. Len(spinning) /\ Len(spinning) \in Nat
    BY LenProperties DEF PlaceInv, GateInv, TypeInv, TypeOK
  <2>2. Spinning = {} <=> DOMAIN spinning = {}
    BY DEF Spinning
  <2>3. DOMAIN spinning = {} <=> Len(spinning) = 0
    <3>1. \A n \in Nat : n # 0 => 1 \in 1 .. n
      OBVIOUS
    <3>2. 1 .. 0 = {}
      OBVIOUS
    <3> QED BY <2>1, <3>1, <3>2
  <2>4. Len(spinning) = 0 <=> spinning = <<>>
    BY <2>1, EmptySeq
  <2> QED BY <2>2, <2>3, <2>4 DEF Queued, HasQueuedTasks
<1>5. Held = {} <=> runningCount = 0
  <2> DEFINE busy == {w \in Workers : Busy(w)}
  <2>1. IsFiniteSet(busy)
    BY TasksAssumption, FS_Subset
  <2>2. busy = {} <=> Cardinality(busy) = 0
    BY <2>1, FS_EmptySet
  <2>3. Held = {} <=> busy = {}
    BY DEF Held
  <2> QED
    BY <2>2, <2>3 DEF PlaceInv, GateInv, GateExact, RunningCountExact
<1> QED
  BY <1>3, <1>4, <1>5 DEF Quiescent, HasPendingOrRunningTasks

\* Where every task is does not depend on the waiters.
LEMMA PhasesStill ==
  ASSUME UNCHANGED <<taskVars, workerVars>>
  PROVE  \A t \in Tasks : PhaseOf(t)' = PhaseOf(t)
BY DEF taskVars, workerVars, PhaseOf, Queued, Spinning, Held, Busy

LEMMA PoolWaits ==
  ASSUME PlaceInv, NEW c \in Clients, BeginWait(c) \/ RecheckWait(c)
  PROVE  Pool!BeginWait \/ Pool!EndWait \/ UNCHANGED Pool!vars
<1> DEFINE phase == [t \in Tasks |-> PhaseOf(t)]
<1>1. UNCHANGED <<phase, cancelled>>
  <2>1. UNCHANGED <<taskVars, workerVars, cancelled>>
    BY DEF BeginWait, RecheckWait
  <2> QED BY <2>1, PhasesStill
<1>a. cpc \in [Clients -> {"idle", "pushing", "posting", "blocked", "woken"}]
  BY DEF PlaceInv, GateInv, TypeInv, TypeOK
<1>2. CASE BeginWait(c)
  <2>1. c \in Clients \ Waiting /\ Waiting' = Waiting \cup {c}
    BY <1>a, <1>2 DEF BeginWait, Waiting
  <2>2. ~Pool!Idle
    BY <1>2, IdleIsQuiescent DEF BeginWait
  <2> QED BY <1>1, <2>1, <2>2 DEF Pool!BeginWait, Waiting
<1>3. CASE RecheckWait(c) /\ Quiescent
  <2>1. c \in Waiting /\ Waiting' = Waiting \ {c}
    BY <1>a, <1>3 DEF RecheckWait, Waiting
  <2>2. Pool!Idle
    BY <1>3, IdleIsQuiescent
  <2> QED BY <1>1, <2>1, <2>2 DEF Pool!EndWait, Waiting
<1>4. CASE RecheckWait(c) /\ ~Quiescent
  <2>1. Waiting' = Waiting
    BY <1>a, <1>4 DEF RecheckWait, Waiting
  <2> QED BY <1>1, <2>1 DEF Pool!vars, Waiting
<1> QED BY <1>2, <1>3, <1>4

\* Every run of the pool, with its threads, locks, permits and wake-ups, is a run
\* of the abstract pool: tasks only move on through their phases, serial ones run
\* one at a time, and whoever waits is released only while nothing is queued or held.
THEOREM PoolIsImplemented == Spec => ImplementsPool
<1> DEFINE phase == [t \in Tasks |-> PhaseOf(t)]
<1>1. Init => Pool!Init
  <2> SUFFICES ASSUME Init PROVE Pool!Init
    OBVIOUS
  <2>1. phase = [t \in Tasks |-> "new"]
    BY DEF Init, PhaseOf
  <2>2. Waiting = {}
    BY DEF Init, Waiting
  <2> QED BY <2>1, <2>2 DEF Init, Pool!Init, Waiting
<1>2. PlaceInv /\ [Next]_vars => [Pool!Next]_(Pool!vars)
  <2> SUFFICES ASSUME PlaceInv, [Next]_vars PROVE [Pool!Next]_(Pool!vars)
    OBVIOUS
  <2>0. PlaceInv'
    BY PlaceStep
  <2>1. CASE Onward
    BY <2>0, <2>1, PoolAdvances DEF Pool!Next
  <2>2. ASSUME NEW c \in Clients, ClientStep(c) PROVE [Pool!Next]_(Pool!vars)
    <3>1. Onward \/ Pool!BeginWait \/ Pool!EndWait \/ UNCHANGED Pool!vars
      BY <2>2, OnwardClient, PoolWaits
    <3> QED BY <2>1, <3>1 DEF Pool!Next
  <2>3. ASSUME NEW t \in Tasks, Cancel(t) PROVE [Pool!Next]_(Pool!vars)
    <3>1. UNCHANGED <<taskVars, workerVars, clientVars>> /\ cancelled' = cancelled \cup {t}
      BY <2>3 DEF Cancel
    <3>2. UNCHANGED phase
      BY <3>1, PhasesStill
    <3>3. Waiting' = Waiting
      BY <3>1 DEF Waiting, clientVars
    <3>4. Pool!Cancel
      BY <3>1, <3>2, <3>3 DEF Pool!Cancel, Waiting
    <3> QED BY <3>4 DEF Pool!Next
  <2>4. CASE OwnerStep \/ UNCHANGED vars
    BY <2>1, <2>4, OnwardOthers
  <2>5. CASE \E w \in Workers : WorkerStep(w)
    BY <2>1, <2>5, OnwardWorker
  <2> QED BY <2>2, <2>3, <2>4, <2>5 DEF Next
<1> QED
  BY <1>1, <1>2, PlaceInvariance, PTL DEF Spec, Pool!Spec, ImplementsPool

=============================================================================
