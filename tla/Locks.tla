-------------------------------- MODULE Locks --------------------------------
(***************************************************************************)
(* The blocking locks: the recursive mutex of thread/mod.rs and the        *)
(* per-path read-write locks of io/file_locker.rs.  Each has a state under *)
(* a plain mutex and one condition variable; the test of the state and the *)
(* wait, or the change and the notification, are one step.                 *)
(***************************************************************************)
EXTENDS Integers, FiniteSets

CONSTANTS LockThreads,
          Paths,    \* logical file paths
          MaxDepth  \* bound: guards a thread holds of one lock

NoOwner == "none"

ASSUME LocksAssumption ==
  IsFiniteSet(LockThreads) /\ NoOwner \notin LockThreads /\ MaxDepth \in Nat

VARIABLES mutex,  \* owner and depth of the recursive mutex
          files,  \* files[p]: readers and writer; absent paths are as the default
          want,   \* want[t]: the lock thread t is in the middle of locking
          slept,  \* threads that wait on a condition variable
          guards  \* guards[t]: the guards thread t holds, with their number

lockVars == <<mutex, files, want, slept, guards>>

MutexLock == [kind |-> "mutex", path |-> "none"]
ReadLock(p) == [kind |-> "read", path |-> p]
WriteLock(p) == [kind |-> "write", path |-> p]
LockKinds == {MutexLock} \cup {ReadLock(p) : p \in Paths} \cup {WriteLock(p) : p \in Paths}
NoWant == [kind |-> "none", path |-> "none"]

Unowned == [owner |-> NoOwner, depth |-> 0]

\* the conditions of the loops around the waits
MutexFree(t) == mutex.owner \in {NoOwner, t}
ReadFree(p) == ~ files[p].writer
WriteFree(p) == ~ files[p].writer /\ files[p].readers = 0
Free(t, w) == CASE w.kind = "mutex" -> MutexFree(t)
                [] w.kind = "read" -> ReadFree(w.path)
                [] w.kind = "write" -> WriteFree(w.path)

\* a thread calls lock; of the file locks it takes one at a time
Call(t, w) ==
  /\ want[t] = NoWant
  /\ guards[t][w] < (IF w.kind = "mutex" THEN MaxDepth ELSE 1)
  /\ w.kind # "mutex" => \A g \in LockKinds \ {MutexLock} : guards[t][g] = 0
  /\ want' = [want EXCEPT ![t] = w]
  /\ UNCHANGED <<mutex, files, slept, guards>>

Granted(t) ==
  /\ guards' = [guards EXCEPT ![t][want[t]] = @ + 1]
  /\ want' = [want EXCEPT ![t] = NoWant]
  /\ UNCHANGED slept

\* Mutex::lock: the first guard takes the mutex, the others of its owner count
LockMutex(t) ==
  /\ want[t] = MutexLock /\ t \notin slept /\ MutexFree(t)
  /\ mutex' = [owner |-> t, depth |-> mutex.depth + 1]
  /\ Granted(t)
  /\ UNCHANGED files

\* PathLock::lock_read, lock_write
LockRead(t) ==
  /\ want[t].kind = "read" /\ t \notin slept /\ ReadFree(want[t].path)
  /\ files' = [files EXCEPT ![want[t].path].readers = @ + 1]
  /\ Granted(t)
  /\ UNCHANGED mutex
LockWrite(t) ==
  /\ want[t].kind = "write" /\ t \notin slept /\ WriteFree(want[t].path)
  /\ files' = [files EXCEPT ![want[t].path].writer = TRUE]
  /\ Granted(t)
  /\ UNCHANGED mutex

WaitForLock(t) ==
  /\ want[t] # NoWant /\ t \notin slept /\ ~ Free(t, want[t])
  /\ slept' = slept \cup {t}
  /\ UNCHANGED <<mutex, files, want, guards>>

\* Mutex::try_lock fails where lock would wait
TryLock(t) ==
  /\ want[t] = NoWant /\ guards[t][MutexLock] < MaxDepth /\ MutexFree(t)
  /\ mutex' = [owner |-> t, depth |-> mutex.depth + 1]
  /\ guards' = [guards EXCEPT ![t][MutexLock] = @ + 1]
  /\ UNCHANGED <<files, want, slept>>

Released(t, w) == guards' = [guards EXCEPT ![t][w] = @ - 1]
MutexSleepers == {t \in slept : want[t] = MutexLock}
FileSleepers(p) == {t \in slept : want[t] # MutexLock /\ want[t].path = p}

\* Mutant: the last guard notifies nobody.
WakeNobody == UNCHANGED slept

\* notify_one: some sleeper, if there is one
WakeOne == IF MutexSleepers = {} THEN UNCHANGED slept ELSE \E t \in MutexSleepers : slept' = slept \ {t}

UnlockMutex(t) ==
  /\ want[t] = NoWant /\ guards[t][MutexLock] > 0
  /\ IF mutex.depth = 1 THEN mutex' = Unowned /\ WakeOne
                        ELSE mutex' = [mutex EXCEPT !.depth = @ - 1] /\ UNCHANGED slept
  /\ Released(t, MutexLock)
  /\ UNCHANGED <<files, want>>

\* the last reader, and a writer, notify all
UnlockRead(t) ==
  \E p \in Paths :
    /\ want[t] = NoWant /\ guards[t][ReadLock(p)] > 0
    /\ files' = [files EXCEPT ![p].readers = @ - 1]
    /\ slept' = IF files[p].readers = 1 THEN slept \ FileSleepers(p) ELSE slept
    /\ Released(t, ReadLock(p))
    /\ UNCHANGED <<mutex, want>>

UnlockWrite(t) ==
  \E p \in Paths :
    /\ want[t] = NoWant /\ guards[t][WriteLock(p)] > 0
    /\ files' = [files EXCEPT ![p].writer = FALSE]
    /\ slept' = slept \ FileSleepers(p)
    /\ Released(t, WriteLock(p))
    /\ UNCHANGED <<mutex, want>>

LocksInit ==
  /\ mutex = Unowned
  /\ files = [p \in Paths |-> [readers |-> 0, writer |-> FALSE]]
  /\ want = [t \in LockThreads |-> NoWant]
  /\ slept = {}
  /\ guards = [t \in LockThreads |-> [w \in LockKinds |-> 0]]

Locking(t) == (\E w \in LockKinds : Call(t, w)) \/ LockMutex(t) \/ LockRead(t) \/ LockWrite(t)
              \/ WaitForLock(t) \/ TryLock(t)
Unlocking(t) == UnlockMutex(t) \/ UnlockRead(t) \/ UnlockWrite(t)

LocksNext == \E t \in LockThreads : Locking(t) \/ Unlocking(t)

LocksSpec == LocksInit /\ [][LocksNext]_lockVars

-----------------------------------------------------------------------------
\* LocksExclude: the guards that are out agree with the state of each lock: one thread has
\* guards of the mutex, a file has one writer or any readers.
LocksExclude ==
  /\ \A t \in LockThreads : guards[t][MutexLock] = IF mutex.owner = t THEN mutex.depth ELSE 0
  /\ \A p \in Paths :
       LET readers == {t \in LockThreads : guards[t][ReadLock(p)] > 0}
           writers == {t \in LockThreads : guards[t][WriteLock(p)] > 0} IN
         /\ Cardinality(writers) <= 1 /\ (writers # {} => readers = {})
         /\ files[p].readers = Cardinality(readers) /\ (files[p].writer <=> writers # {})

\* NoLockIsSleptThrough: no thread sleeps on a file lock it could have; when the mutex is free
\* and some sleep on it, one that was woken is about to look: notify_one is enough, also when
\* another thread takes the mutex first.
NoLockIsSleptThrough ==
  /\ \A t \in slept : want[t] # MutexLock => ~ Free(t, want[t])
  /\ mutex.owner = NoOwner /\ MutexSleepers # {} =>
       \E t \in LockThreads \ slept : want[t] = MutexLock

\* BlockingLocksExact: the recursive mutex and the file locks exclude as their guards say, and
\* nobody sleeps on a lock that is free.
BlockingLocksExact == LocksExclude /\ NoLockIsSleptThrough
=============================================================================
