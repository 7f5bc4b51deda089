---------------------------- MODULE EngineProofs ----------------------------
(***************************************************************************)
(* Theorems about the parts of the engine that have a protocol of their    *)
(* own, for any threads, tasks and entries: the blocking locks exclude and *)
(* nobody sleeps on a lock that is free (Locks), a batch of saves settles  *)
(* (StreamTasks), handles name the entry they were made for                *)
(* (EngineRegistry).                                                       *)
(***************************************************************************)
EXTENDS Locks, StreamTasks, EngineRegistry, FiniteSetTheorems, SequenceTheorems, TLAPS

-----------------------------------------------------------------------------
(* Locks.                                                                  *)

FileLocks == LockKinds \ {MutexLock}

LocksTypeOK ==
  /\ mutex \in [owner : LockThreads \cup {NoOwner}, depth : Nat]
  /\ files \in [Paths -> [readers : Nat, writer : BOOLEAN]]
  /\ want \in [LockThreads -> LockKinds \cup {NoWant}]
  /\ slept \subseteq LockThreads
  /\ guards \in [LockThreads -> [LockKinds -> Nat]]

\* The guards of the mutex are its owner's, as many as its depth.
MutexExact ==
  /\ mutex.owner = NoOwner <=> mutex.depth = 0
  /\ \A t \in LockThreads : guards[t][MutexLock] = IF mutex.owner = t THEN mutex.depth ELSE 0

\* Of a file lock a thread has one guard, and none while it asks for one.
OneFileGuard ==
  \A t \in LockThreads : \A w \in FileLocks :
    guards[t][w] <= 1 /\ (want[t] \in FileLocks => guards[t][w] = 0)

Readers(p) == {t \in LockThreads : guards[t][ReadLock(p)] > 0}
Writers(p) == {t \in LockThreads : guards[t][WriteLock(p)] > 0}

FileExact(p) ==
  /\ files[p].readers = Cardinality(Readers(p))
  /\ files[p].writer <=> Writers(p) # {}
  /\ Writers(p) # {} => Readers(p) = {}
  /\ \A t, u \in Writers(p) : t = u

\* Sleepers are in the middle of a call.
SleepersAsk == \A t \in slept : want[t] # NoWant

LocksInv == /\ LocksTypeOK /\ MutexExact /\ OneFileGuard /\ (\A p \in Paths : FileExact(p))
            /\ SleepersAsk /\ NoLockIsSleptThrough

\* The locks are distinct.
LEMMA LocksDiffer ==
  /\ MutexLock \in LockKinds /\ NoWant \notin LockKinds /\ MutexLock.kind = "mutex"
  /\ \A w \in LockKinds : w.kind = "mutex" => w = MutexLock
  /\ \A w \in LockKinds : w.kind = "read" => \E p \in Paths : w = ReadLock(p)
  /\ \A w \in LockKinds : w.kind = "write" => \E p \in Paths : w = WriteLock(p)
  /\ \A p \in Paths : /\ ReadLock(p) \in FileLocks /\ WriteLock(p) \in FileLocks
                      /\ ReadLock(p).kind = "read" /\ WriteLock(p).kind = "write"
                      /\ ReadLock(p).path = p /\ WriteLock(p).path = p
  /\ \A p, q \in Paths : /\ ReadLock(p) # WriteLock(q)
                         /\ ReadLock(p) = ReadLock(q) => p = q
                         /\ WriteLock(p) = WriteLock(q) => p = q
  /\ NoWant.kind = "none"
<1>1. MutexLock.kind = "mutex" /\ NoWant.kind = "none"
  BY DEF MutexLock, NoWant
<1>2. \A p : /\ ReadLock(p).kind = "read" /\ WriteLock(p).kind = "write"
             /\ ReadLock(p).path = p /\ WriteLock(p).path = p
  BY DEF ReadLock, WriteLock
<1>3. \A w \in LockKinds : \/ w = MutexLock
                           \/ \E p \in Paths : w = ReadLock(p)
                           \/ \E p \in Paths : w = WriteLock(p)
  BY DEF LockKinds
<1>4. MutexLock \in LockKinds /\ \A p \in Paths : ReadLock(p) \in LockKinds /\ WriteLock(p) \in LockKinds
  BY DEF LockKinds
<1>5. NoWant \notin LockKinds
  BY <1>1, <1>2, <1>3
<1>6. \A p, q \in Paths : /\ ReadLock(p) # WriteLock(q)
                          /\ ReadLock(p) = ReadLock(q) => p = q
                          /\ WriteLock(p) = WriteLock(q) => p = q
  BY <1>2
<1>7. \A p \in Paths : ReadLock(p) \in FileLocks /\ WriteLock(p) \in FileLocks
  BY <1>1, <1>2, <1>4 DEF FileLocks
<1>8. \A w \in LockKinds : w.kind = "mutex" => w = MutexLock
  BY <1>1, <1>2, <1>3
<1>9. \A w \in LockKinds : w.kind = "read" => \E p \in Paths : w = ReadLock(p)
  BY <1>1, <1>2, <1>3
<1>10. \A w \in LockKinds : w.kind = "write" => \E p \in Paths : w = WriteLock(p)
  BY <1>1, <1>2, <1>3
<1> QED
  BY <1>1, <1>2, <1>4, <1>5, <1>6, <1>7, <1>8, <1>9, <1>10

\* One count of guards changes.
LEMMA GuardsChange ==
  ASSUME LocksTypeOK, NEW t \in LockThreads, NEW w \in LockKinds, NEW n \in Nat,
         guards' = [guards EXCEPT ![t][w] = n]
  PROVE  /\ guards' \in [LockThreads -> [LockKinds -> Nat]]
         /\ \A u \in LockThreads, g \in LockKinds :
              guards'[u][g] = IF u = t /\ g = w THEN n ELSE guards[u][g]
  BY DEF LocksTypeOK

\* The same request changes.
LEMMA WantChange ==
  ASSUME LocksTypeOK, NEW t \in LockThreads, NEW w \in LockKinds \cup {NoWant},
         want' = [want EXCEPT ![t] = w]
  PROVE  /\ want' \in [LockThreads -> LockKinds \cup {NoWant}]
         /\ \A u \in LockThreads : want'[u] = IF u = t THEN w ELSE want[u]
  BY DEF LocksTypeOK

\* The guards of a file stay, and with them what its lock says.
LEMMA FileStays ==
  ASSUME NEW p \in Paths, FileExact(p), files'[p] = files[p],
         \A u \in LockThreads : /\ guards'[u][ReadLock(p)] = guards[u][ReadLock(p)]
                                /\ guards'[u][WriteLock(p)] = guards[u][WriteLock(p)]
  PROVE  FileExact(p)'
<1>1. Readers(p)' = Readers(p) /\ Writers(p)' = Writers(p)
  BY DEF Readers, Writers
<1> QED
  BY <1>1 DEF FileExact

LEMMA ReadersFinite == \A p : IsFiniteSet(Readers(p)) /\ Cardinality(Readers(p)) \in Nat
<1> TAKE p
<1>1. Readers(p) \in SUBSET LockThreads
  BY DEF Readers
<1>2. IsFiniteSet(Readers(p))
  BY <1>1, LocksAssumption, FS_Subset
<1> QED
  BY <1>2, FS_CardinalityType

LEMMA LocksStart == LocksInit => LocksInv
<1> SUFFICES ASSUME LocksInit PROVE LocksInv
  OBVIOUS
<1>1. LocksTypeOK
  BY DEF LocksInit, LocksTypeOK, Unowned
<1>2. \A t \in LockThreads : \A w \in LockKinds : guards[t][w] = 0
  BY DEF LocksInit
<1>3. MutexExact
  BY <1>2, LocksDiffer, LocksAssumption DEF LocksInit, MutexExact, Unowned
<1>4. OneFileGuard
  BY <1>2, LocksDiffer DEF OneFileGuard, FileLocks
<1>5. ASSUME NEW p \in Paths PROVE FileExact(p)
  <2>1. Readers(p) = {} /\ Writers(p) = {}
    BY <1>2, LocksDiffer DEF Readers, Writers, FileLocks
  <2>2. files[p].readers = 0 /\ files[p].writer = FALSE
    BY DEF LocksInit
  <2> QED
    BY <2>1, <2>2, FS_EmptySet DEF FileExact
<1>6. SleepersAsk /\ NoLockIsSleptThrough
  BY DEF LocksInit, SleepersAsk, NoLockIsSleptThrough, MutexSleepers
<1> QED
  BY <1>1, <1>3, <1>4, <1>5, <1>6 DEF LocksInv

\* A thread that sleeps on a file is kept out while those that keep it out stay.
LEMMA StaysBlocked ==
  ASSUME LocksInv, NEW u \in slept, want[u] # MutexLock, want'[u] = want[u],
         files' \in [Paths -> [readers : Nat, writer : BOOLEAN]],
         \A p \in Paths : files[p].writer => files'[p].writer,
         \A p \in Paths : files[p].readers # 0 => files'[p].readers # 0 \/ files'[p].writer
  PROVE  ~ Free(u, want[u])'
<1>1. ~ Free(u, want[u])
  BY DEF LocksInv, NoLockIsSleptThrough
<1>2. want[u] \in LockKinds
  BY DEF LocksInv, LocksTypeOK, SleepersAsk
<1>3. (\E p \in Paths : want[u] = ReadLock(p)) \/ (\E p \in Paths : want[u] = WriteLock(p))
  BY <1>2 DEF LockKinds
<1>4. ASSUME NEW p \in Paths, want[u] = ReadLock(p) PROVE ~ Free(u, want[u])'
  <2>1. want[u].kind = "read" /\ want[u].path = p
    BY <1>4, LocksDiffer
  <2>2. files[p].writer
    BY <1>1, <2>1 DEF Free, ReadFree
  <2>3. files'[p].writer
    BY <2>2
  <2>4. want'[u].kind = "read" /\ want'[u].path = p
    BY <2>1
  <2> QED
    BY <2>3, <2>4 DEF Free, ReadFree
<1>5. ASSUME NEW p \in Paths, want[u] = WriteLock(p) PROVE ~ Free(u, want[u])'
  <2>1. want[u].kind = "write" /\ want[u].path = p
    BY <1>5, LocksDiffer
  <2>2. files[p].writer \/ files[p].readers # 0
    BY <1>1, <2>1 DEF Free, WriteFree
  <2>3. files'[p].writer \/ files'[p].readers # 0
    BY <2>2
  <2>4. want'[u].kind = "write" /\ want'[u].path = p
    BY <2>1
  <2> QED
    BY <2>3, <2>4 DEF Free, WriteFree
<1> QED
  BY <1>3, <1>4, <1>5

\* ... or while its file stays as it is.
LEMMA StaysBlockedElsewhere ==
  ASSUME LocksInv, NEW u \in slept, want[u] # MutexLock, want'[u] = want[u],
         NEW p \in Paths, want[u] \notin {ReadLock(p), WriteLock(p)},
         \A q \in Paths \ {p} : files'[q] = files[q]
  PROVE  ~ Free(u, want[u])'
<1>1. ~ Free(u, want[u])
  BY DEF LocksInv, NoLockIsSleptThrough
<1>2. want[u] \in LockKinds
  BY DEF LocksInv, LocksTypeOK, SleepersAsk
<1>3. (\E q \in Paths : want[u] = ReadLock(q)) \/ (\E q \in Paths : want[u] = WriteLock(q))
  BY <1>2 DEF LockKinds
<1>4. PICK q \in Paths : want[u] \in {ReadLock(q), WriteLock(q)}
  BY <1>3
<1>5. files'[q] = files[q]
  BY <1>4
<1>6. want[u].path = q /\ want[u].kind \in {"read", "write"}
  BY <1>4, LocksDiffer
<1>7. ReadFree(q)' = ReadFree(q) /\ WriteFree(q)' = WriteFree(q)
  BY <1>5 DEF ReadFree, WriteFree
<1>8. CASE want[u].kind = "read"
  <2>1. ~ ReadFree(q)
    BY <1>1, <1>6, <1>8 DEF Free
  <2>2. want'[u].path = q /\ want'[u].kind = "read" /\ ~ ReadFree(q)'
    BY <1>6, <1>7, <1>8, <2>1
  <2> QED
    BY <2>2 DEF Free
<1>9. CASE want[u].kind = "write"
  <2>1. ~ WriteFree(q)
    BY <1>1, <1>6, <1>9 DEF Free
  <2>2. want'[u].path = q /\ want'[u].kind = "write" /\ ~ WriteFree(q)'
    BY <1>6, <1>7, <1>9, <2>1
  <2> QED
    BY <2>2 DEF Free
<1> QED
  BY <1>6, <1>8, <1>9

\* A thread calls, or goes to sleep: no lock and no guard changes.
LEMMA LocksCall ==
  ASSUME LocksInv, NEW t \in LockThreads, NEW w \in LockKinds, Call(t, w)
  PROVE  LocksInv'
<1> USE DEF LocksInv, Call
<1>1. /\ want' \in [LockThreads -> LockKinds \cup {NoWant}]
      /\ \A u \in LockThreads : want'[u] = IF u = t THEN w ELSE want[u]
  BY WantChange
<1>2. t \notin slept
  BY DEF SleepersAsk
<1>3. LocksTypeOK' /\ MutexExact'
  BY <1>1 DEF LocksTypeOK, MutexExact
<1>4. OneFileGuard'
  <2> SUFFICES ASSUME NEW u \in LockThreads, NEW g \in FileLocks
               PROVE  guards[u][g] <= 1 /\ (want'[u] \in FileLocks => guards[u][g] = 0)
    BY DEF OneFileGuard
  <2>1. w \in FileLocks => guards[t][g] = 0
    BY LocksDiffer DEF FileLocks
  <2> QED
    BY <1>1, <2>1 DEF OneFileGuard
<1>5. ASSUME NEW p \in Paths PROVE FileExact(p)'
  BY FileStays
<1>6. SleepersAsk'
  BY <1>1, <1>2 DEF SleepersAsk, LocksTypeOK
<1>7. NoLockIsSleptThrough'
  <2>1. \A u \in slept : want'[u] = want[u]
    BY <1>1, <1>2 DEF LocksTypeOK
  <2>2. MutexSleepers' = MutexSleepers
    BY <2>1 DEF MutexSleepers
  <2>3. ASSUME NEW u \in slept, want'[u] # MutexLock PROVE ~ Free(u, want[u])'
    BY <2>1, <2>3, StaysBlocked DEF LocksTypeOK
  <2>4. \A u \in LockThreads \ slept : want[u] = MutexLock => want'[u] = MutexLock
    BY <1>1, LocksDiffer
  <2> QED
    BY <2>2, <2>3, <2>4 DEF NoLockIsSleptThrough
<1> QED
  BY <1>3, <1>4, <1>5, <1>6, <1>7

LEMMA LocksWait ==
  ASSUME LocksInv, NEW t \in LockThreads, WaitForLock(t)
  PROVE  LocksInv'
<1> USE DEF LocksInv, WaitForLock
<1>1. LocksTypeOK' /\ MutexExact' /\ OneFileGuard'
  BY DEF LocksTypeOK, MutexExact, OneFileGuard
<1>2. ASSUME NEW p \in Paths PROVE FileExact(p)'
  BY FileStays
<1>3. SleepersAsk'
  BY DEF SleepersAsk
<1>4. NoLockIsSleptThrough'
  <2>1. ASSUME NEW u \in slept', want[u] # MutexLock PROVE ~ Free(u, want[u])'
    BY <2>1 DEF NoLockIsSleptThrough, Free, MutexFree, ReadFree, WriteFree
  <2>2. ASSUME mutex.owner = NoOwner, MutexSleepers' # {}
        PROVE  \E u \in LockThreads \ slept' : want[u] = MutexLock
    <3>1. want[t] # MutexLock
      BY <2>2, LocksDiffer DEF Free, MutexFree
    <3>2. MutexSleepers # {}
      BY <2>2, <3>1 DEF MutexSleepers
    <3> QED
      BY <2>2, <3>1, <3>2 DEF NoLockIsSleptThrough
  <2> QED
    BY <2>1, <2>2 DEF NoLockIsSleptThrough
<1> QED
  BY <1>1, <1>2, <1>3, <1>4

\* What a thread that takes or gives back one guard leaves: the guards of the other locks.
LEMMA OtherGuards ==
  ASSUME LocksInv, NEW t \in LockThreads, NEW w \in LockKinds, NEW n \in Nat,
         guards' = [guards EXCEPT ![t][w] = n],
         NEW p \in Paths, files'[p] = files[p], w \notin {ReadLock(p), WriteLock(p)}
  PROVE  FileExact(p)'
<1>1. \A u \in LockThreads, g \in LockKinds :
        guards'[u][g] = IF u = t /\ g = w THEN n ELSE guards[u][g]
  BY GuardsChange DEF LocksInv
<1>2. ReadLock(p) \in LockKinds /\ WriteLock(p) \in LockKinds
  BY LocksDiffer DEF FileLocks
<1> QED
  BY <1>1, <1>2, FileStays DEF LocksInv

\* Both ways to take the mutex: its other takers must sleep or be its owner.
LEMMA MutexTaken ==
  ASSUME LocksInv, NEW t \in LockThreads, MutexFree(t),
         mutex' = [owner |-> t, depth |-> mutex.depth + 1],
         guards' = [guards EXCEPT ![t][MutexLock] = @ + 1],
         t \notin slept, UNCHANGED <<files, slept>>,
         want' = [want EXCEPT ![t] = NoWant]
  PROVE  LocksInv'
<1> USE DEF LocksInv
<1>1. mutex.owner \in LockThreads \cup {NoOwner} /\ mutex.depth \in Nat
  BY DEF LocksTypeOK
<1>2. guards[t][MutexLock] = mutex.depth
  BY <1>1, LocksAssumption DEF MutexExact, MutexFree
<1>3. guards' = [guards EXCEPT ![t][MutexLock] = mutex.depth + 1]
  BY <1>2 DEF LocksTypeOK
<1>4. /\ guards' \in [LockThreads -> [LockKinds -> Nat]]
      /\ \A u \in LockThreads, g \in LockKinds :
           guards'[u][g] = IF u = t /\ g = MutexLock THEN mutex.depth + 1 ELSE guards[u][g]
  <2>1. mutex.depth + 1 \in Nat /\ MutexLock \in LockKinds /\ t \in LockThreads /\ LocksTypeOK
    BY <1>1, LocksDiffer
  <2> QED
    BY <2>1, <1>3 DEF LocksTypeOK
<1>5. /\ want' \in [LockThreads -> LockKinds \cup {NoWant}]
      /\ \A u \in LockThreads : want'[u] = IF u = t THEN NoWant ELSE want[u]
  BY WantChange
<1>6. mutex'.owner = t /\ mutex'.depth = mutex.depth + 1 /\ t # NoOwner
  BY LocksAssumption
<1>7. LocksTypeOK'
  BY <1>1, <1>4, <1>5 DEF LocksTypeOK
<1>8. MutexExact'
  <2>1. mutex'.depth # 0
    BY <1>1, <1>6
  <2>2. ASSUME NEW u \in LockThreads
        PROVE  guards'[u][MutexLock] = IF mutex'.owner = u THEN mutex'.depth ELSE 0
    <3>1. CASE u = t
      BY <1>4, <1>6, <3>1, LocksDiffer
    <3>2. CASE u # t
      BY <1>4, <1>6, <3>2, LocksDiffer, LocksAssumption DEF MutexExact, MutexFree
    <3> QED
      BY <3>1, <3>2
  <2> QED
    BY <1>6, <2>1, <2>2 DEF MutexExact
<1>9. OneFileGuard'
  BY <1>4, <1>5, LocksDiffer DEF OneFileGuard, FileLocks
<1>10. ASSUME NEW p \in Paths PROVE FileExact(p)'
  <2>1. mutex.depth + 1 \in Nat /\ MutexLock \in LockKinds
    BY <1>1, LocksDiffer
  <2>2. MutexLock \notin {ReadLock(p), WriteLock(p)}
    BY LocksDiffer DEF FileLocks
  <2> QED
    BY <1>3, <2>1, <2>2, OtherGuards
<1>11. SleepersAsk'
  BY <1>5 DEF SleepersAsk, LocksTypeOK
<1>12. NoLockIsSleptThrough'
  <2>1. \A u \in slept : want'[u] = want[u]
    BY <1>5 DEF LocksTypeOK
  <2>2. ASSUME NEW u \in slept', want'[u] # MutexLock PROVE ~ Free(u, want[u])'
    BY <2>1, <2>2, StaysBlocked DEF LocksTypeOK
  <2> QED
    BY <1>6, <2>1, <2>2 DEF NoLockIsSleptThrough
<1> QED
  BY <1>7, <1>8, <1>9, <1>10, <1>11, <1>12

LEMMA LocksTakeMutex ==
  ASSUME LocksInv, NEW t \in LockThreads, LockMutex(t) \/ TryLock(t)
  PROVE  LocksInv'
<1>1. CASE LockMutex(t)
  BY <1>1, MutexTaken DEF LockMutex, Granted
<1>2. CASE TryLock(t)
  <2>1. t \notin slept
    BY <1>2 DEF LocksInv, SleepersAsk, TryLock
  <2>2. want' = [want EXCEPT ![t] = NoWant]
    BY <1>2 DEF LocksInv, LocksTypeOK, TryLock
  <2> QED
    BY <1>2, <2>1, <2>2, MutexTaken DEF TryLock
<1> QED
  BY <1>1, <1>2

\* The mutex, its sleepers and those that are about to look stay.
LEMMA MutexStays ==
  ASSUME LocksInv, mutex' = mutex,
         \A u \in LockThreads : guards'[u][MutexLock] = guards[u][MutexLock],
         slept' \subseteq slept, want' \in [LockThreads -> LockKinds \cup {NoWant}],
         \A u \in LockThreads : want'[u] = MutexLock <=> want[u] = MutexLock
  PROVE  /\ MutexExact'
         /\ mutex'.owner = NoOwner /\ MutexSleepers' # {} =>
              \E u \in LockThreads \ slept' : want'[u] = MutexLock
<1>1. MutexExact'
  BY DEF LocksInv, MutexExact
<1>2. slept \subseteq LockThreads
  BY DEF LocksInv, LocksTypeOK
<1>3. MutexSleepers' \subseteq MutexSleepers
  BY <1>2 DEF MutexSleepers
<1> QED
  BY <1>1, <1>2, <1>3 DEF LocksInv, NoLockIsSleptThrough

\* A thread that asked for a file lock has its first guard of it.
LEMMA FileGranted ==
  ASSUME LocksInv, NEW t \in LockThreads, NEW w \in FileLocks, want[t] = w,
         guards' = [guards EXCEPT ![t][want[t]] = @ + 1],
         want' = [want EXCEPT ![t] = NoWant], t \notin slept, UNCHANGED <<slept, mutex>>
  PROVE  /\ guards[t][w] = 0
         /\ guards' = [guards EXCEPT ![t][w] = 1]
         /\ guards' \in [LockThreads -> [LockKinds -> Nat]]
         /\ want' \in [LockThreads -> LockKinds \cup {NoWant}]
         /\ \A u \in LockThreads, g \in LockKinds :
              guards'[u][g] = IF u = t /\ g = w THEN 1 ELSE guards[u][g]
         /\ \A u \in slept : want'[u] = want[u]
         /\ OneFileGuard' /\ SleepersAsk' /\ MutexExact'
         /\ mutex'.owner = NoOwner /\ MutexSleepers' # {} =>
              \E u \in LockThreads \ slept' : want'[u] = MutexLock
<1>1. LocksTypeOK /\ OneFileGuard /\ SleepersAsk
  BY DEF LocksInv
<1>2. w \in LockKinds /\ w # MutexLock /\ NoWant # MutexLock /\ NoWant \notin LockKinds /\ MutexLock \in LockKinds
  BY LocksDiffer DEF FileLocks
<1>3. guards[t][w] = 0
  BY <1>1 DEF OneFileGuard
<1>4. guards' = [guards EXCEPT ![t][w] = 1]
  BY <1>3
<1>5. /\ guards' \in [LockThreads -> [LockKinds -> Nat]]
      /\ \A u \in LockThreads, g \in LockKinds :
           guards'[u][g] = IF u = t /\ g = w THEN 1 ELSE guards[u][g]
  <2>1. 1 \in Nat /\ t \in LockThreads
    OBVIOUS
  <2> QED
    BY <1>1, <1>2, <1>4, <2>1 DEF LocksTypeOK
<1>6. /\ want' \in [LockThreads -> LockKinds \cup {NoWant}]
      /\ \A u \in LockThreads : want'[u] = IF u = t THEN NoWant ELSE want[u]
  BY <1>1, WantChange
<1>7. \A u \in slept : want'[u] = want[u]
  BY <1>1, <1>6 DEF LocksTypeOK
<1>8. OneFileGuard'
  <2> SUFFICES ASSUME NEW u \in LockThreads, NEW g \in FileLocks
               PROVE  guards'[u][g] <= 1 /\ (want'[u] \in FileLocks => guards'[u][g] = 0)
    BY DEF OneFileGuard
  <2>1. g \in LockKinds /\ NoWant \notin FileLocks
    BY <1>2 DEF FileLocks
  <2> QED
    BY <1>1, <1>5, <1>6, <2>1 DEF OneFileGuard
<1>9. SleepersAsk'
  BY <1>1, <1>7 DEF SleepersAsk
<1>10. \A u \in LockThreads : want'[u] = MutexLock <=> want[u] = MutexLock
  BY <1>2, <1>6
<1>11. \A u \in LockThreads : guards'[u][MutexLock] = guards[u][MutexLock]
  BY <1>2, <1>5
<1> QED
  BY <1>3, <1>4, <1>5, <1>6, <1>7, <1>8, <1>9, <1>10, <1>11, MutexStays

LEMMA LocksTakeRead ==
  ASSUME LocksInv, NEW t \in LockThreads, LockRead(t)
  PROVE  LocksInv'
<1>1. want[t] \in LockKinds
  BY LocksDiffer DEF LocksInv, LocksTypeOK, LockRead
<1>2. PICK p \in Paths : want[t] = ReadLock(p)
  BY <1>1, LocksDiffer DEF LockRead
<1>3. ReadLock(p) \in FileLocks /\ ReadLock(p) \in LockKinds /\ want[t].path = p
  BY <1>2, LocksDiffer DEF FileLocks
<1> DEFINE w == ReadLock(p)
<1>4. /\ guards[t][w] = 0
      /\ guards' = [guards EXCEPT ![t][w] = 1]
      /\ guards' \in [LockThreads -> [LockKinds -> Nat]]
      /\ want' \in [LockThreads -> LockKinds \cup {NoWant}]
      /\ \A u \in LockThreads, g \in LockKinds :
           guards'[u][g] = IF u = t /\ g = w THEN 1 ELSE guards[u][g]
      /\ \A u \in slept : want'[u] = want[u]
      /\ OneFileGuard' /\ SleepersAsk' /\ MutexExact'
      /\ mutex'.owner = NoOwner /\ MutexSleepers' # {} =>
           \E u \in LockThreads \ slept' : want'[u] = MutexLock
  BY <1>2, <1>3, FileGranted DEF LockRead, Granted
<1> HIDE DEF w
<1>5. files \in [Paths -> [readers : Nat, writer : BOOLEAN]]
  BY DEF LocksInv, LocksTypeOK
<1>6. /\ files' \in [Paths -> [readers : Nat, writer : BOOLEAN]]
      /\ files'[p].readers = files[p].readers + 1
      /\ files'[p].writer = files[p].writer /\ ~ files[p].writer
      /\ \A q \in Paths \ {p} : files'[q] = files[q]
  BY <1>3, <1>5 DEF LockRead, ReadFree
<1>7. LocksTypeOK'
  BY <1>4, <1>6 DEF LocksInv, LocksTypeOK, LockRead, Granted
<1>8. ASSUME NEW q \in Paths PROVE FileExact(q)'
  <2>1. CASE q # p
    <3>1. w \notin {ReadLock(q), WriteLock(q)} /\ 1 \in Nat
      BY <2>1, LocksDiffer DEF w
    <3> QED
      BY <1>3, <1>4, <1>6, <2>1, <3>1, OtherGuards DEF w
  <2>2. CASE q = p
    <3>1. FileExact(p)
      BY DEF LocksInv
    <3>2. WriteLock(p) \in LockKinds /\ WriteLock(p) # w
      BY LocksDiffer DEF w, FileLocks
    <3>3. Writers(p)' = Writers(p)
      BY <1>4, <3>2 DEF Writers
    <3>4. Readers(p)' = Readers(p) \cup {t} /\ t \notin Readers(p)
      BY <1>3, <1>4 DEF Readers, w
    <3>5. Cardinality(Readers(p)') = Cardinality(Readers(p)) + 1
      BY <3>4, ReadersFinite, FS_AddElement
    <3> QED
      BY <1>6, <2>2, <3>1, <3>3, <3>5 DEF FileExact
  <2> QED
    BY <2>1, <2>2
<1>9. ASSUME NEW u \in slept, want[u] # MutexLock PROVE ~ Free(u, want[u])'
  <2>1. ASSUME NEW q \in Paths
        PROVE  /\ files[q].writer => files'[q].writer
               /\ files[q].readers # 0 => files'[q].readers # 0 \/ files'[q].writer
    BY <1>5, <1>6
  <2> QED
    BY <1>4, <1>6, <1>9, <2>1, StaysBlocked
<1>10. slept' = slept
  BY DEF LockRead, Granted
<1> QED
  BY <1>4, <1>7, <1>8, <1>9, <1>10 DEF LocksInv, NoLockIsSleptThrough

LEMMA LocksTakeWrite ==
  ASSUME LocksInv, NEW t \in LockThreads, LockWrite(t)
  PROVE  LocksInv'
<1>1. want[t] \in LockKinds
  BY LocksDiffer DEF LocksInv, LocksTypeOK, LockWrite
<1>2. PICK p \in Paths : want[t] = WriteLock(p)
  BY <1>1, LocksDiffer DEF LockWrite
<1>3. WriteLock(p) \in FileLocks /\ WriteLock(p) \in LockKinds /\ want[t].path = p
  BY <1>2, LocksDiffer DEF FileLocks
<1> DEFINE w == WriteLock(p)
<1>4. /\ guards[t][w] = 0
      /\ guards' = [guards EXCEPT ![t][w] = 1]
      /\ guards' \in [LockThreads -> [LockKinds -> Nat]]
      /\ want' \in [LockThreads -> LockKinds \cup {NoWant}]
      /\ \A u \in LockThreads, g \in LockKinds :
           guards'[u][g] = IF u = t /\ g = w THEN 1 ELSE guards[u][g]
      /\ \A u \in slept : want'[u] = want[u]
      /\ OneFileGuard' /\ SleepersAsk' /\ MutexExact'
      /\ mutex'.owner = NoOwner /\ MutexSleepers' # {} =>
           \E u \in LockThreads \ slept' : want'[u] = MutexLock
  BY <1>2, <1>3, FileGranted DEF LockWrite, Granted
<1> HIDE DEF w
<1>5. files \in [Paths -> [readers : Nat, writer : BOOLEAN]]
  BY DEF LocksInv, LocksTypeOK
<1>6. /\ files' \in [Paths -> [readers : Nat, writer : BOOLEAN]]
      /\ files'[p].readers = files[p].readers
      /\ files'[p].writer = TRUE /\ ~ files[p].writer /\ files[p].readers = 0
      /\ \A q \in Paths \ {p} : files'[q] = files[q]
  BY <1>3, <1>5 DEF LockWrite, WriteFree
<1>7. LocksTypeOK'
  BY <1>4, <1>6 DEF LocksInv, LocksTypeOK, LockWrite, Granted
<1>8. ASSUME NEW q \in Paths PROVE FileExact(q)'
  <2>1. CASE q # p
    <3>1. w \notin {ReadLock(q), WriteLock(q)} /\ 1 \in Nat
      BY <2>1, LocksDiffer DEF w
    <3> QED
      BY <1>3, <1>4, <1>6, <2>1, <3>1, OtherGuards DEF w
  <2>2. CASE q = p
    <3>1. FileExact(p)
      BY DEF LocksInv
    <3>2. ReadLock(p) \in LockKinds /\ ReadLock(p) # w
      BY LocksDiffer DEF w, FileLocks
    <3>3. Readers(p)' = Readers(p)
      BY <1>4, <3>2 DEF Readers
    <3>4. Readers(p) = {}
      BY <1>6, <3>1, ReadersFinite, FS_EmptySet DEF FileExact
    <3>5. Writers(p) = {}
      BY <1>6, <3>1 DEF FileExact
    <3>6. Writers(p)' = {t}
      BY <1>3, <1>4, <3>5 DEF Writers, w
    <3> QED
      BY <1>6, <2>2, <3>1, <3>3, <3>4, <3>6 DEF FileExact
  <2> QED
    BY <2>1, <2>2
<1>9. ASSUME NEW u \in slept, want[u] # MutexLock PROVE ~ Free(u, want[u])'
  <2>1. ASSUME NEW q \in Paths
        PROVE  /\ files[q].writer => files'[q].writer
               /\ files[q].readers # 0 => files'[q].readers # 0 \/ files'[q].writer
    BY <1>5, <1>6
  <2> QED
    BY <1>4, <1>6, <1>9, <2>1, StaysBlocked
<1>10. slept' = slept
  BY DEF LockWrite, Granted
<1> QED
  BY <1>4, <1>7, <1>8, <1>9, <1>10 DEF LocksInv, NoLockIsSleptThrough

\* A guard that is given back leaves the thread with one guard fewer.
LEMMA GuardReleased ==
  ASSUME LocksInv, NEW t \in LockThreads, NEW w \in LockKinds, guards[t][w] > 0, Released(t, w)
  PROVE  /\ guards[t][w] - 1 \in Nat
         /\ guards' = [guards EXCEPT ![t][w] = guards[t][w] - 1]
         /\ guards' \in [LockThreads -> [LockKinds -> Nat]]
         /\ \A u \in LockThreads, g \in LockKinds :
              guards'[u][g] = IF u = t /\ g = w THEN guards[t][w] - 1 ELSE guards[u][g]
<1>1. LocksTypeOK
  BY DEF LocksInv
<1>2. guards[t][w] \in Nat
  BY <1>1 DEF LocksTypeOK
<1>3. guards[t][w] - 1 \in Nat
  BY <1>2
<1>4. guards' = [guards EXCEPT ![t][w] = guards[t][w] - 1]
  BY DEF Released
<1>5. t \in LockThreads /\ w \in LockKinds
  OBVIOUS
<1> QED
  BY ONLY <1>1, <1>3, <1>4, <1>5, GuardsChange

LEMMA LocksLeaveMutex ==
  ASSUME LocksInv, NEW t \in LockThreads, UnlockMutex(t)
  PROVE  LocksInv'
<1>1. LocksTypeOK /\ MutexExact /\ OneFileGuard /\ SleepersAsk /\ NoLockIsSleptThrough
  BY DEF LocksInv
<1>2. MutexLock \in LockKinds /\ guards[t][MutexLock] > 0 /\ Released(t, MutexLock)
      /\ UNCHANGED <<files, want>>
  BY LocksDiffer DEF UnlockMutex
<1>3. /\ guards[t][MutexLock] - 1 \in Nat
      /\ guards' = [guards EXCEPT ![t][MutexLock] = guards[t][MutexLock] - 1]
      /\ guards' \in [LockThreads -> [LockKinds -> Nat]]
      /\ \A u \in LockThreads, g \in LockKinds :
           guards'[u][g] = IF u = t /\ g = MutexLock THEN guards[t][MutexLock] - 1 ELSE guards[u][g]
  BY <1>2, GuardReleased
<1>4. mutex.owner = t /\ guards[t][MutexLock] = mutex.depth
  BY <1>1, <1>2 DEF MutexExact
<1>5. mutex \in [owner : LockThreads \cup {NoOwner}, depth : Nat]
  BY <1>1 DEF LocksTypeOK
<1>6. /\ mutex' \in [owner : LockThreads \cup {NoOwner}, depth : Nat]
      /\ mutex'.depth = mutex.depth - 1
      /\ mutex'.owner = IF mutex.depth = 1 THEN NoOwner ELSE t
  BY <1>2, <1>3, <1>4, <1>5 DEF UnlockMutex, Unowned
<1>7. slept' \subseteq slept /\ \A u \in slept \ slept' : want[u] = MutexLock
  BY DEF UnlockMutex, WakeOne, MutexSleepers
<1>8. LocksTypeOK'
  BY <1>1, <1>2, <1>3, <1>6, <1>7 DEF LocksTypeOK
<1>9. MutexExact'
  <2>1. mutex'.owner = NoOwner <=> mutex'.depth = 0
    BY <1>2, <1>3, <1>4, <1>5, <1>6, LocksAssumption
  <2>2. ASSUME NEW u \in LockThreads
        PROVE  guards'[u][MutexLock] = IF mutex'.owner = u THEN mutex'.depth ELSE 0
    <3>1. CASE u = t
      BY <1>2, <1>3, <1>4, <1>5, <1>6, <3>1, LocksAssumption
    <3>2. CASE u # t
      <4>1. guards[u][MutexLock] = 0
        BY <1>1, <1>4, <3>2 DEF MutexExact
      <4> QED
        BY <1>2, <1>3, <1>6, <3>2, <4>1, LocksAssumption
    <3> QED
      BY <3>1, <3>2
  <2> QED
    BY <2>1, <2>2 DEF MutexExact
<1>10. OneFileGuard'
  BY <1>1, <1>2, <1>3 DEF OneFileGuard, FileLocks
<1>11. ASSUME NEW p \in Paths PROVE FileExact(p)'
  <2>1. MutexLock \notin {ReadLock(p), WriteLock(p)}
    BY LocksDiffer DEF FileLocks
  <2> QED
    BY <1>2, <1>3, <2>1, OtherGuards
<1>12. SleepersAsk'
  BY <1>1, <1>2, <1>7 DEF SleepersAsk
<1>13. ASSUME NEW u \in slept', want[u] # MutexLock PROVE ~ Free(u, want[u])'
  BY <1>1, <1>2, <1>7, <1>13, StaysBlocked DEF LocksTypeOK
<1>14. ASSUME mutex'.owner = NoOwner, MutexSleepers' # {}
       PROVE  \E u \in LockThreads \ slept' : want[u] = MutexLock
  <2>1. mutex.depth = 1
    BY <1>6, <1>14, LocksAssumption
  <2>2. WakeOne /\ MutexSleepers # {}
    BY <1>2, <1>7, <1>14, <2>1 DEF UnlockMutex, MutexSleepers
  <2>3. PICK u \in MutexSleepers : slept' = slept \ {u}
    BY <2>2 DEF WakeOne
  <2> QED
    BY <1>1, <2>3 DEF MutexSleepers, LocksTypeOK
<1> QED
  BY <1>2, <1>8, <1>9, <1>10, <1>11, <1>12, <1>13, <1>14 DEF LocksInv, NoLockIsSleptThrough

\* What both ways to leave a file have in common.
LEMMA FileReleased ==
  ASSUME LocksInv, NEW t \in LockThreads, NEW w \in FileLocks, guards[t][w] > 0, Released(t, w),
         UNCHANGED <<mutex, want>>,
         slept' \subseteq slept, \A u \in slept \ slept' : want[u] # MutexLock
  PROVE  /\ guards[t][w] = 1
         /\ guards' = [guards EXCEPT ![t][w] = 0]
         /\ guards' \in [LockThreads -> [LockKinds -> Nat]]
         /\ \A u \in LockThreads, g \in LockKinds :
              guards'[u][g] = IF u = t /\ g = w THEN 0 ELSE guards[u][g]
         /\ OneFileGuard' /\ SleepersAsk' /\ MutexExact'
         /\ mutex'.owner = NoOwner /\ MutexSleepers' # {} =>
              \E u \in LockThreads \ slept' : want'[u] = MutexLock
<1>1. LocksTypeOK /\ OneFileGuard /\ SleepersAsk
  BY DEF LocksInv
<1>2. w \in LockKinds /\ w # MutexLock /\ MutexLock \in LockKinds
  BY LocksDiffer DEF FileLocks
<1>3. guards[t][w] = 1
  BY <1>1, <1>2 DEF OneFileGuard, LocksTypeOK
<1>4. /\ guards' = [guards EXCEPT ![t][w] = guards[t][w] - 1]
      /\ guards' \in [LockThreads -> [LockKinds -> Nat]]
      /\ \A u \in LockThreads, g \in LockKinds :
           guards'[u][g] = IF u = t /\ g = w THEN guards[t][w] - 1 ELSE guards[u][g]
  BY <1>2, GuardReleased
<1>5. guards[t][w] - 1 = 0
  BY <1>3
<1>6. /\ guards' = [guards EXCEPT ![t][w] = 0]
      /\ \A u \in LockThreads, g \in LockKinds :
           guards'[u][g] = IF u = t /\ g = w THEN 0 ELSE guards[u][g]
  BY <1>4, <1>5
<1>7. OneFileGuard'
  BY <1>1, <1>2, <1>6 DEF OneFileGuard, FileLocks
<1>8. SleepersAsk'
  BY <1>1 DEF SleepersAsk
<1>9. want' \in [LockThreads -> LockKinds \cup {NoWant}]
  BY <1>1 DEF LocksTypeOK
<1>10. \A u \in LockThreads : guards'[u][MutexLock] = guards[u][MutexLock]
  BY <1>2, <1>6
<1> QED
  BY <1>3, <1>4, <1>6, <1>7, <1>8, <1>9, <1>10, MutexStays

\* A file's sleepers are those that asked for one of its locks.
LEMMA FileSleepersAre ==
  ASSUME LocksInv, NEW p \in Paths, NEW u \in slept
  PROVE  u \in FileSleepers(p) <=> want[u] \in {ReadLock(p), WriteLock(p)}
<1>1. want[u] \in LockKinds
  BY DEF LocksInv, LocksTypeOK, SleepersAsk
<1>2. \/ want[u] = MutexLock
      \/ \E q \in Paths : want[u] = ReadLock(q)
      \/ \E q \in Paths : want[u] = WriteLock(q)
  BY <1>1 DEF LockKinds
<1>3. u \in FileSleepers(p) <=> want[u] # MutexLock /\ want[u].path = p
  BY DEF FileSleepers
<1>4. want[u] # MutexLock /\ want[u].path = p => want[u] \in {ReadLock(p), WriteLock(p)}
  BY <1>2, LocksDiffer
<1>5. want[u] \in {ReadLock(p), WriteLock(p)} => want[u] # MutexLock /\ want[u].path = p
  BY LocksDiffer DEF FileLocks
<1> QED
  BY <1>3, <1>4, <1>5

LEMMA LocksLeaveRead ==
  ASSUME LocksInv, NEW t \in LockThreads, UnlockRead(t)
  PROVE  LocksInv'
<1>1. PICK p \in Paths :
        /\ guards[t][ReadLock(p)] > 0
        /\ files' = [files EXCEPT ![p].readers = @ - 1]
        /\ slept' = IF files[p].readers = 1 THEN slept \ FileSleepers(p) ELSE slept
        /\ Released(t, ReadLock(p))
        /\ UNCHANGED <<mutex, want>>
  BY DEF UnlockRead
<1>2. ReadLock(p) \in FileLocks /\ ReadLock(p) \in LockKinds
  BY LocksDiffer DEF FileLocks
<1>3. slept' \subseteq slept /\ \A u \in slept \ slept' : want[u] # MutexLock
  BY <1>1 DEF FileSleepers
<1> DEFINE w == ReadLock(p)
<1>4. /\ guards[t][w] = 1
      /\ guards' = [guards EXCEPT ![t][w] = 0]
      /\ guards' \in [LockThreads -> [LockKinds -> Nat]]
      /\ \A u \in LockThreads, g \in LockKinds :
           guards'[u][g] = IF u = t /\ g = w THEN 0 ELSE guards[u][g]
      /\ OneFileGuard' /\ SleepersAsk' /\ MutexExact'
      /\ mutex'.owner = NoOwner /\ MutexSleepers' # {} =>
           \E u \in LockThreads \ slept' : want'[u] = MutexLock
  BY <1>1, <1>2, <1>3, FileReleased
<1> HIDE DEF w
<1>5. files \in [Paths -> [readers : Nat, writer : BOOLEAN]] /\ FileExact(p)
  BY DEF LocksInv, LocksTypeOK
<1>6. t \in Readers(p) /\ Readers(p)' = Readers(p) \ {t}
  BY <1>1, <1>2, <1>4 DEF Readers, w
<1>7. /\ files[p].readers = Cardinality(Readers(p)) /\ files[p].readers # 0 /\ files[p].readers \in Nat
      /\ Cardinality(Readers(p)') = Cardinality(Readers(p)) - 1
  BY <1>5, <1>6, ReadersFinite, FS_RemoveElement, FS_EmptySet DEF FileExact
<1>8. Writers(p) = {} /\ ~ files[p].writer
  BY <1>5, <1>6 DEF FileExact
<1>9. /\ files' \in [Paths -> [readers : Nat, writer : BOOLEAN]]
      /\ files'[p].readers = files[p].readers - 1
      /\ files'[p].writer = files[p].writer
      /\ \A q \in Paths \ {p} : files'[q] = files[q]
  <2>1. files[p].readers - 1 \in Nat
    BY <1>7
  <2> QED
    BY <1>1, <1>5, <2>1
<1>10. LocksTypeOK'
  BY <1>1, <1>3, <1>4, <1>9 DEF LocksInv, LocksTypeOK
<1>11. ASSUME NEW q \in Paths PROVE FileExact(q)'
  <2>1. CASE q # p
    <3>1. w \notin {ReadLock(q), WriteLock(q)} /\ 0 \in Nat
      BY <2>1, LocksDiffer DEF w
    <3> QED
      BY <1>2, <1>4, <1>9, <2>1, <3>1, OtherGuards DEF w
  <2>2. CASE q = p
    <3>1. WriteLock(p) \in LockKinds /\ WriteLock(p) # w
      BY LocksDiffer DEF w, FileLocks
    <3>2. Writers(p)' = Writers(p)
      BY <1>4, <3>1 DEF Writers
    <3> QED
      BY <1>7, <1>8, <1>9, <2>2, <3>2 DEF FileExact
  <2> QED
    BY <2>1, <2>2
<1>12. ASSUME NEW u \in slept', want[u] # MutexLock PROVE ~ Free(u, want[u])'
  <2>1. u \in slept /\ want'[u] = want[u] /\ want[u] \in LockKinds /\ ~ Free(u, want[u])
    BY <1>1, <1>3, <1>12 DEF LocksInv, LocksTypeOK, SleepersAsk, NoLockIsSleptThrough
  <2>2. want[u] # ReadLock(p)
    <3> SUFFICES ASSUME want[u] = ReadLock(p) PROVE FALSE
      OBVIOUS
    <3>1. want[u].kind = "read" /\ want[u].path = p
      BY LocksDiffer
    <3> QED
      BY <1>8, <2>1, <3>1 DEF Free, ReadFree
  <2>3. CASE files[p].readers = 1
    <3>1. want[u] \notin {ReadLock(p), WriteLock(p)}
      BY <1>1, <2>1, <2>3, FileSleepersAre
    <3> QED
      BY <1>9, <1>12, <2>1, <3>1, StaysBlockedElsewhere
  <2>4. CASE files[p].readers # 1
    <3>1. files'[p].readers # 0
      BY <1>7, <1>9, <2>4
    <3>2. \A q \in Paths : files[q].writer => files'[q].writer
      BY <1>8, <1>9
    <3>3. \A q \in Paths : files[q].readers # 0 => files'[q].readers # 0 \/ files'[q].writer
      BY <1>9, <3>1
    <3> QED
      BY <1>9, <1>12, <2>1, <3>2, <3>3, StaysBlocked
  <2> QED
    BY <2>3, <2>4
<1> QED
  BY <1>1, <1>4, <1>10, <1>11, <1>12 DEF LocksInv, NoLockIsSleptThrough

LEMMA LocksLeaveWrite ==
  ASSUME LocksInv, NEW t \in LockThreads, UnlockWrite(t)
  PROVE  LocksInv'
<1>1. PICK p \in Paths :
        /\ guards[t][WriteLock(p)] > 0
        /\ files' = [files EXCEPT ![p].writer = FALSE]
        /\ slept' = slept \ FileSleepers(p)
        /\ Released(t, WriteLock(p))
        /\ UNCHANGED <<mutex, want>>
  BY DEF UnlockWrite
<1>2. WriteLock(p) \in FileLocks /\ WriteLock(p) \in LockKinds
  BY LocksDiffer DEF FileLocks
<1>3. slept' \subseteq slept /\ \A u \in slept \ slept' : want[u] # MutexLock
  BY <1>1 DEF FileSleepers
<1> DEFINE w == WriteLock(p)
<1>4. /\ guards[t][w] = 1
      /\ guards' = [guards EXCEPT ![t][w] = 0]
      /\ guards' \in [LockThreads -> [LockKinds -> Nat]]
      /\ \A u \in LockThreads, g \in LockKinds :
           guards'[u][g] = IF u = t /\ g = w THEN 0 ELSE guards[u][g]
      /\ OneFileGuard' /\ SleepersAsk' /\ MutexExact'
      /\ mutex'.owner = NoOwner /\ MutexSleepers' # {} =>
           \E u \in LockThreads \ slept' : want'[u] = MutexLock
  BY <1>1, <1>2, <1>3, FileReleased
<1> HIDE DEF w
<1>5. files \in [Paths -> [readers : Nat, writer : BOOLEAN]] /\ FileExact(p)
  BY DEF LocksInv, LocksTypeOK
<1>6. t \in Writers(p) /\ Writers(p)' = Writers(p) \ {t}
  BY <1>1, <1>2, <1>4 DEF Writers, w
<1>7. Writers(p)' = {} /\ Readers(p) = {}
  BY <1>5, <1>6 DEF FileExact
<1>8. /\ files' \in [Paths -> [readers : Nat, writer : BOOLEAN]]
      /\ files'[p].readers = files[p].readers
      /\ files'[p].writer = FALSE
      /\ \A q \in Paths \ {p} : files'[q] = files[q]
  BY <1>1, <1>5
<1>9. LocksTypeOK'
  BY <1>1, <1>3, <1>4, <1>8 DEF LocksInv, LocksTypeOK
<1>10. ASSUME NEW q \in Paths PROVE FileExact(q)'
  <2>1. CASE q # p
    <3>1. w \notin {ReadLock(q), WriteLock(q)} /\ 0 \in Nat
      BY <2>1, LocksDiffer DEF w
    <3> QED
      BY <1>2, <1>4, <1>8, <2>1, <3>1, OtherGuards DEF w
  <2>2. CASE q = p
    <3>1. ReadLock(p) \in LockKinds /\ ReadLock(p) # w
      BY LocksDiffer DEF w, FileLocks
    <3>2. Readers(p)' = Readers(p)
      BY <1>4, <3>1 DEF Readers
    <3> QED
      BY <1>5, <1>7, <1>8, <2>2, <3>2 DEF FileExact
  <2> QED
    BY <2>1, <2>2
<1>11. ASSUME NEW u \in slept', want[u] # MutexLock PROVE ~ Free(u, want[u])'
  <2>1. u \in slept /\ want'[u] = want[u]
    BY <1>1, <1>3
  <2>2. want[u] \notin {ReadLock(p), WriteLock(p)}
    BY <1>1, <1>11, <2>1, FileSleepersAre
  <2> QED
    BY <1>8, <1>11, <2>1, <2>2, StaysBlockedElsewhere
<1> QED
  BY <1>1, <1>4, <1>9, <1>10, <1>11 DEF LocksInv, NoLockIsSleptThrough

LEMMA LocksStep ==
  ASSUME LocksInv, [LocksNext]_lockVars
  PROVE  LocksInv'
<1>1. CASE UNCHANGED lockVars
  <2>1. \A p \in Paths : FileExact(p)'
    BY <1>1, FileStays DEF lockVars, LocksInv
  <2>2. LocksTypeOK' /\ MutexExact' /\ OneFileGuard' /\ SleepersAsk'
    BY <1>1 DEF lockVars, LocksInv, LocksTypeOK, MutexExact, OneFileGuard, SleepersAsk
  <2>3. ASSUME NEW u \in slept, want[u] # MutexLock PROVE ~ Free(u, want[u])'
    BY <1>1, <2>3, StaysBlocked DEF lockVars, LocksInv, LocksTypeOK
  <2>4. MutexSleepers' = MutexSleepers
    BY <1>1 DEF lockVars, MutexSleepers
  <2>5. NoLockIsSleptThrough'
    BY <1>1, <2>3, <2>4 DEF lockVars, LocksInv, NoLockIsSleptThrough
  <2> QED
    BY <2>1, <2>2, <2>5 DEF LocksInv
<1>2. ASSUME NEW t \in LockThreads, Locking(t) PROVE LocksInv'
  BY <1>2, LocksCall, LocksWait, LocksTakeMutex, LocksTakeRead, LocksTakeWrite DEF Locking
<1>3. ASSUME NEW t \in LockThreads, Unlocking(t) PROVE LocksInv'
  BY <1>3, LocksLeaveMutex, LocksLeaveRead, LocksLeaveWrite DEF Unlocking
<1> QED
  BY <1>1, <1>2, <1>3 DEF LocksNext

\* BlockingLocksExact, for any threads and paths: the recursive mutex has the guards of one
\* thread, a path one writer or its readers, whatever calls interleave; notify_one at the
\* mutex, and notify_all at a path by its last reader or its writer, leave nobody asleep on a
\* lock that is free (thread/mod.rs Mutex, io/file_locker.rs).
THEOREM LocksAreExact == LocksSpec => []BlockingLocksExact
<1>1. LocksInv => BlockingLocksExact
  <2> SUFFICES ASSUME LocksInv PROVE BlockingLocksExact
    OBVIOUS
  <2>1. ASSUME NEW p \in Paths PROVE Cardinality(Writers(p)) <= 1
    <3>1. Writers(p) = {} \/ \E t : Writers(p) = {t}
      BY DEF LocksInv, FileExact
    <3>2. CASE Writers(p) = {}
      BY <3>2, FS_EmptySet
    <3>3. ASSUME NEW t, Writers(p) = {t} PROVE Cardinality(Writers(p)) = 1
      BY <3>3, FS_Singleton
    <3> QED
      BY <3>1, <3>2, <3>3
  <2>2. LocksExclude
    BY <2>1 DEF LocksInv, LocksExclude, MutexExact, FileExact, Readers, Writers
  <2> QED
    BY <2>2 DEF LocksInv, BlockingLocksExact
<1> QED
  BY <1>1, LocksStart, LocksStep, PTL DEF LocksSpec

-----------------------------------------------------------------------------
(* A batch of saves.                                                       *)

Trackers == [count : Nat, aborted : BOOLEAN, started : BOOLEAN, countSet : BOOLEAN,
             next : SUBSET NextTasks]
SaveTasks == [pc : {"queued", "written", "flush", "answer", "done", "panicked"}, voxels : BOOLEAN,
              error : BOOLEAN,
              trackerError : {"none", "PostCompleteAfterAbort", "PostCompleteTooManyTimes"},
              followUps : SUBSET NextTasks,
              output : {NoOutput, "dropped", "saved", "dropped_with_voxels"}]

BatchTypeOK ==
  /\ tracker \in Trackers
  /\ save \in [Savers -> SaveTasks]
  /\ written \subseteq Savers

LoadsAnswer == \A l \in Loads : load[l].pc = "done" => (load[l].output = NoOutput <=> load[l].followUp)

LoadTypeOK ==
  load \in [Loads -> [pc : {"queued", "picked", "dropped", "running", "done", "panicked"}, tooFar : BOOLEAN,
                      output : {NoOutput, "loaded", "loaded_dropped", "not_found", "needs_generation"},
                      followUp : BOOLEAN]]

\* The batch is over for the tracker: nothing can be counted any more.
Over == tracker.started /\ tracker.count = 0

IsCounted(s) == /\ save[s].pc \in {"flush", "answer", "done"} /\ save[s].voxels
                /\ save[s].trackerError = "none"

SaveSettles(s) ==
  CASE save[s].output = "saved" -> s \in written /\ ~ save[s].error
    [] save[s].output = "dropped_with_voxels" -> save[s].voxels /\ save[s].error
    [] OTHER -> ~ save[s].voxels /\ tracker.aborted

\* What is known of one save.
SaveExact(s) ==
  /\ save[s].pc = "flush" => Over
  /\ save[s].followUps # {} => Over /\ tracker.next = {}
  /\ IsCounted(s) => tracker.started /\ s \in written /\ (tracker.count = 0 => tracker.next = {})
  /\ save[s].pc \in {"written", "flush", "answer"} => save[s].voxels /\ s \in written
  /\ save[s].pc = "done" => SaveSettles(s) /\ (save[s].voxels => s \in written)

OneTaker == \A s, u \in Savers : save[s].followUps # {} /\ save[u].followUps # {} => s = u

AbortedHasNone == tracker.aborted => tracker.started /\ tracker.next = {}

FlushedIsOver == flushed # {} => Over

BatchInv == /\ BatchTypeOK /\ (\A s \in Savers : SaveExact(s)) /\ OneTaker
            /\ AbortedHasNone /\ FlushedIsOver /\ FlushCoversTheBatch

\* One save changes.
LEMMA SaveChange ==
  ASSUME BatchTypeOK, NEW s \in Savers, NEW r \in SaveTasks, save' = [save EXCEPT ![s] = r]
  PROVE  /\ save' \in [Savers -> SaveTasks]
         /\ save'[s] = r
         /\ \A u \in Savers \ {s} : save'[u] = save[u]
  BY DEF BatchTypeOK

LEMMA CountedAre == Counted = {s \in Savers : IsCounted(s)}
  BY DEF Counted, IsCounted

LEMMA BatchStart == StreamTasksInit => BatchInv /\ LoadTypeOK /\ LoadsAnswer
<1> SUFFICES ASSUME StreamTasksInit PROVE BatchInv /\ LoadTypeOK /\ LoadsAnswer
  OBVIOUS
<1>1. Cardinality(Savers) \in Nat
  BY StreamTasksAssumption, FS_CardinalityType
<1>2. PICK count \in 0 .. Cardinality(Savers), countSet \in BOOLEAN :
        tracker = [count |-> count, aborted |-> FALSE, started |-> FALSE,
                   countSet |-> countSet, next |-> {}]
  BY DEF StreamTasksInit
<1>3. count \in Nat
  BY <1>1
<1>4. tracker \in Trackers /\ ~ tracker.aborted
  BY <1>2, <1>3 DEF Trackers
<1>5. /\ save \in [Savers -> SaveTasks]
      /\ \A s \in Savers : save[s].pc = "queued" /\ save[s].followUps = {}
  BY DEF StreamTasksInit, SaveTasks
<1>6. written = {} /\ flushed = {}
  BY DEF StreamTasksInit
<1>7. \A s \in Savers : SaveExact(s)
  BY <1>5 DEF SaveExact, IsCounted
<1>8. LoadTypeOK /\ LoadsAnswer
  BY DEF StreamTasksInit, LoadTypeOK, LoadsAnswer
<1> QED
  BY <1>4, <1>5, <1>6, <1>7, <1>8
     DEF BatchInv, BatchTypeOK, OneTaker, AbortedHasNone, FlushedIsOver, FlushCoversTheBatch

\* The client acts: the saves stay, and what a save relies on lasts.
LEMMA BatchClient ==
  ASSUME BatchInv, tracker' \in Trackers, UNCHANGED <<save, written, flushed>>,
         tracker.aborted => tracker'.aborted,
         tracker.started => tracker'.started /\ tracker'.count = tracker.count,
         tracker.next = {} /\ tracker.started => tracker'.next = {},
         tracker'.aborted => tracker'.started /\ tracker'.next = {}
  PROVE  BatchInv'
<1>1. BatchTypeOK' /\ OneTaker' /\ AbortedHasNone'
  BY DEF BatchInv, BatchTypeOK, OneTaker, AbortedHasNone
<1>2. tracker.started \in BOOLEAN /\ tracker.aborted \in BOOLEAN
  BY DEF BatchInv, BatchTypeOK, Trackers
<1>3. Over => Over'
  BY DEF Over
<1>4. ASSUME NEW s \in Savers PROVE SaveExact(s)'
  <2>1. SaveExact(s) /\ IsCounted(s)' = IsCounted(s)
    BY DEF BatchInv, IsCounted
  <2>2. SaveSettles(s) => SaveSettles(s)'
    BY DEF SaveSettles
  <2> QED
    BY <1>3, <2>1, <2>2 DEF SaveExact, Over
<1>5. Counted' = Counted
  BY DEF Counted
<1>6. FlushedIsOver' /\ FlushCoversTheBatch'
  BY <1>3, <1>5 DEF BatchInv, FlushedIsOver, FlushCoversTheBatch
<1> QED
  BY <1>1, <1>4, <1>6 DEF BatchInv

LEMMA BatchClientSteps ==
  ASSUME BatchInv, Client \/ UNCHANGED streamTaskVars \/ \E l \in Loads : Loading(l)
  PROVE  BatchInv'
<1>1. tracker \in Trackers /\ AbortedHasNone
  BY DEF BatchInv, BatchTypeOK
<1>2. ASSUME NEW n \in 0 .. Cardinality(Savers), SetCount(n) PROVE BatchInv'
  <2>1. n \in Nat
    BY StreamTasksAssumption, FS_CardinalityType
  <2>2. tracker' = [tracker EXCEPT !.countSet = TRUE, !.count = n] /\ ~ tracker.started /\ ~ tracker.aborted
    BY <1>2 DEF SetCount
  <2>3. /\ tracker' \in Trackers /\ tracker'.aborted = tracker.aborted
        /\ tracker'.started = tracker.started /\ tracker'.next = tracker.next
    BY <1>1, <2>1, <2>2 DEF Trackers
  <2> QED
    BY <1>2, <2>2, <2>3, BatchClient DEF SetCount
<1>3. ASSUME SetNextTasks PROVE BatchInv'
  <2>1. tracker' = [tracker EXCEPT !.next = NextTasks] /\ ~ tracker.started /\ ~ tracker.aborted
    BY <1>3 DEF SetNextTasks
  <2>2. /\ tracker' \in Trackers /\ tracker'.aborted = tracker.aborted
        /\ tracker'.started = tracker.started
    BY <1>1, <2>1 DEF Trackers
  <2> QED
    BY <1>3, <2>1, <2>2, BatchClient DEF SetNextTasks
<1>4. ASSUME Abort PROVE BatchInv'
  <2>1. /\ tracker' \in Trackers /\ tracker'.aborted /\ tracker'.started /\ tracker'.next = {}
        /\ tracker'.count = tracker.count
    BY <1>1, <1>4 DEF Abort, Aborted, Trackers
  <2> QED
    BY <1>4, <2>1, BatchClient DEF Abort
<1>5. ASSUME UNCHANGED <<tracker, save, written, flushed>> PROVE BatchInv'
  BY <1>1, <1>5, BatchClient DEF AbortedHasNone
<1>6. ASSUME NEW l \in Loads, Loading(l) PROVE BatchInv'
  BY <1>5, <1>6 DEF Loading, LoadPriority, LoadDropped, LoadStarts, LoadRuns, LoadPanics
<1> QED
  BY <1>2, <1>3, <1>4, <1>5, <1>6 DEF Client, ReplaceStream, CancelToken, streamTaskVars

\* One save goes on and the tracker, if it changes, loses nothing that the others rely on.
LEMMA BatchSave ==
  ASSUME BatchInv, NEW s \in Savers, NEW r \in SaveTasks, save' = [save EXCEPT ![s] = r],
         tracker' \in Trackers, written' \in {written, written \cup {s}},
         tracker.aborted => tracker'.aborted,
         tracker.started => tracker'.started /\ (tracker.count = 0 => tracker'.count = 0),
         tracker.next = {} => tracker'.next = {},
         tracker.started /\ tracker'.count = 0 /\ tracker.count # 0 => tracker'.next = {},
         AbortedHasNone', FlushedIsOver', SaveExact(s)',
         r.followUps \in {{}, save[s].followUps} \/ ~ Over,
         \A w \in flushed' : w \in flushed \cup {written} /\ (IsCounted(s)' => IsCounted(s))
  PROVE  BatchInv'
<1>1. BatchTypeOK
  BY DEF BatchInv
<1>2. /\ save' \in [Savers -> SaveTasks] /\ save'[s] = r
      /\ \A u \in Savers \ {s} : save'[u] = save[u]
  BY <1>1, SaveChange
<1>3. BatchTypeOK'
  BY <1>1, <1>2 DEF BatchTypeOK
<1>4. Over => Over'
  BY DEF Over
<1>5. ASSUME NEW u \in Savers \ {s} PROVE SaveExact(u)'
  <2>1. SaveExact(u) /\ save'[u] = save[u] /\ IsCounted(u)' = IsCounted(u)
    BY <1>2 DEF BatchInv, IsCounted
  <2>2. SaveSettles(u) => SaveSettles(u)'
    BY <2>1 DEF SaveSettles
  <2>3. u \in written => u \in written'
    OBVIOUS
  <2>4. IsCounted(u) => tracker'.started /\ (tracker'.count = 0 => tracker'.next = {})
    BY <2>1 DEF SaveExact
  <2> QED
    BY <1>4, <2>1, <2>2, <2>3, <2>4 DEF SaveExact
<1>6. OneTaker'
  <2> SUFFICES ASSUME NEW u \in Savers, NEW v \in Savers,
                      save'[u].followUps # {}, save'[v].followUps # {}
               PROVE  u = v
    BY DEF OneTaker
  <2>1. CASE r.followUps \in {{}, save[s].followUps}
    <3>1. save[u].followUps # {} /\ save[v].followUps # {}
      BY <1>2, <2>1
    <3> QED
      BY <3>1 DEF BatchInv, OneTaker
  <2>2. CASE ~ Over
    <3>1. \A x \in Savers : save[x].followUps = {}
      BY <2>2 DEF BatchInv, SaveExact
    <3> QED
      BY <1>2, <3>1
  <2> QED
    BY <2>1, <2>2
<1>7. FlushCoversTheBatch'
  <2> SUFFICES ASSUME NEW w \in flushed', NEW u \in Savers, IsCounted(u)' PROVE u \in w
    BY CountedAre DEF FlushCoversTheBatch, Counted, IsCounted
  <2>1. IsCounted(u)
    BY <1>2 DEF IsCounted
  <2>2. u \in written
    BY <2>1 DEF BatchInv, SaveExact
  <2>3. w \in flushed => u \in w
    BY <2>1, CountedAre DEF BatchInv, FlushCoversTheBatch
  <2> QED
    BY <2>2, <2>3
<1> QED
  BY <1>3, <1>5, <1>6, <1>7 DEF BatchInv

LEMMA BatchSaveSteps ==
  ASSUME BatchInv, NEW s \in Savers, Saving(s)
  PROVE  BatchInv'
<1>1. /\ tracker \in Trackers /\ save \in [Savers -> SaveTasks] /\ save[s] \in SaveTasks
      /\ AbortedHasNone /\ FlushedIsOver /\ SaveExact(s)
  BY DEF BatchInv, BatchTypeOK
<1>2. ASSUME SaveNothing(s) PROVE BatchInv'
  <2> DEFINE r == [save[s] EXCEPT !.pc = "done", !.output = "dropped"]
  <2>1. save' = [save EXCEPT ![s] = r]
    BY <1>1, <1>2 DEF SaveNothing
  <2>2. /\ r \in SaveTasks /\ r.pc = "done" /\ r.output = "dropped" /\ r.followUps = save[s].followUps
        /\ r.voxels = save[s].voxels /\ ~ r.voxels
    BY <1>1, <1>2 DEF SaveNothing, SaveTasks
  <2> HIDE DEF r
  <2>3. save'[s] = r
    BY <1>1, <2>1
  <2>4. /\ tracker' \in Trackers /\ tracker'.aborted /\ tracker'.started /\ tracker'.next = {}
        /\ tracker'.count = tracker.count
    BY <1>1, <1>2 DEF SaveNothing, Aborted, Trackers
  <2>5. UNCHANGED <<written, flushed>>
    BY <1>2 DEF SaveNothing
  <2>6. SaveExact(s)'
    <3>1. r.followUps # {} => Over'
      BY <1>1, <2>2, <2>4 DEF SaveExact, Over
    <3>2. ~ IsCounted(s)'
      BY <2>2, <2>3 DEF IsCounted
    <3>3. SaveSettles(s)'
      BY <2>2, <2>3, <2>4 DEF SaveSettles
    <3> QED
      BY <2>2, <2>3, <2>4, <3>1, <3>2, <3>3 DEF SaveExact
  <2>7. AbortedHasNone' /\ FlushedIsOver'
    BY <1>1, <2>4, <2>5 DEF AbortedHasNone, FlushedIsOver, Over
  <2>8. ~ IsCounted(s)'
    BY <2>2, <2>3 DEF IsCounted
  <2> QED
    BY <2>1, <2>2, <2>4, <2>5, <2>6, <2>7, <2>8, BatchSave
<1>3. ASSUME SaveWrites(s) PROVE BatchInv'
  <2>1. PICK error \in BOOLEAN : save' = [save EXCEPT ![s].pc = "written", ![s].error = error]
    BY <1>3 DEF SaveWrites
  <2> DEFINE r == [save[s] EXCEPT !.pc = "written", !.error = error]
  <2>2. save' = [save EXCEPT ![s] = r]
    BY <1>1, <2>1
  <2>3. /\ r \in SaveTasks /\ r.pc = "written" /\ r.followUps = save[s].followUps /\ r.voxels
    BY <1>1, <1>3 DEF SaveWrites, SaveTasks
  <2> HIDE DEF r
  <2>4. save'[s] = r /\ UNCHANGED <<tracker, flushed>> /\ written' = written \cup {s}
    BY <1>1, <1>3, <2>2 DEF SaveWrites
  <2>5. ~ IsCounted(s)'
    BY <2>3, <2>4 DEF IsCounted
  <2>6. SaveExact(s)' /\ AbortedHasNone' /\ FlushedIsOver'
    BY <1>1, <2>3, <2>4, <2>5 DEF SaveExact, AbortedHasNone, FlushedIsOver, Over
  <2> QED
    BY <1>1, <2>2, <2>3, <2>4, <2>5, <2>6, BatchSave
<1>4. ASSUME SavePosts(s) PROVE BatchInv'
  <2> DEFINE r == [save[s] EXCEPT !.pc = IF WasLast THEN "flush" ELSE "answer",
                                  !.trackerError = PostError,
                                  !.followUps = IF WasLast THEN tracker.next ELSE {}]
  <2>1. save' = [save EXCEPT ![s] = r]
    BY <1>1, <1>4 DEF SavePosts
  <2>2. /\ tracker.next \subseteq NextTasks /\ tracker.count \in Nat /\ tracker.aborted \in BOOLEAN
        /\ PostError \in {"none", "PostCompleteAfterAbort", "PostCompleteTooManyTimes"}
        /\ PostError = "none" <=> ~ tracker.aborted /\ tracker.count > 0
    BY <1>1 DEF Trackers, PostError
  <2>3. /\ r \in SaveTasks /\ r.voxels = save[s].voxels /\ r.trackerError = PostError
        /\ r.pc = IF WasLast THEN "flush" ELSE "answer"
        /\ r.followUps = IF WasLast THEN tracker.next ELSE {}
    BY <1>1, <2>2 DEF SaveTasks
  <2> HIDE DEF r
  <2>4. save'[s] = r /\ tracker' = Posted /\ UNCHANGED <<written, flushed>> /\ save[s].pc = "written"
    BY <1>1, <1>4, <2>1 DEF SavePosts
  <2>5. r.voxels /\ s \in written
    BY <1>1, <2>3, <2>4 DEF SaveExact
  <2>6. CASE PostError # "none"
    <3>1. /\ tracker' \in Trackers /\ tracker'.started /\ tracker'.count = tracker.count
          /\ tracker'.next = tracker.next /\ tracker'.aborted = tracker.aborted
      BY <1>1, <2>4, <2>6 DEF Posted, Trackers
    <3>2. r.pc = "answer" /\ r.followUps = {} /\ ~ IsCounted(s)'
      BY <2>3, <2>4, <2>6 DEF WasLast, IsCounted
    <3>3. SaveExact(s)' /\ AbortedHasNone' /\ FlushedIsOver'
      BY <1>1, <2>4, <2>5, <3>1, <3>2 DEF SaveExact, AbortedHasNone, FlushedIsOver, Over
    <3> QED
      BY <2>1, <2>3, <2>4, <3>1, <3>2, <3>3, BatchSave
  <2>7. CASE PostError = "none"
    <3>1. ~ Over /\ flushed = {} /\ tracker.count \in Nat /\ tracker.count > 0 /\ ~ tracker.aborted
      BY <1>1, <2>2, <2>7 DEF Over, FlushedIsOver
    <3>2. tracker.count - 1 \in Nat /\ (tracker.count - 1 = 0 <=> WasLast)
      BY <2>7, <3>1 DEF WasLast
    <3>3. tracker' = [tracker EXCEPT !.started = TRUE, !.count = tracker.count - 1,
                                     !.next = IF WasLast THEN {} ELSE tracker.next]
      BY <1>1, <2>4, <2>7 DEF Posted, Trackers
    <3>4. /\ tracker' \in Trackers /\ tracker'.started /\ tracker'.count = tracker.count - 1
          /\ tracker'.next = (IF WasLast THEN {} ELSE tracker.next) /\ ~ tracker'.aborted
      BY <1>1, <2>2, <3>1, <3>2, <3>3 DEF Trackers
    <3>5. r.pc = "flush" \/ r.followUps # {} => Over' /\ tracker'.next = {}
      BY <2>3, <3>2, <3>4 DEF Over
    <3>6. tracker'.count = 0 => tracker'.next = {}
      BY <3>2, <3>4
    <3>7. r.pc \in {"flush", "answer"}
      BY <2>3
    <3>8. SaveExact(s)'
      BY <2>4, <2>5, <3>4, <3>5, <3>6, <3>7 DEF SaveExact
    <3>9. AbortedHasNone' /\ FlushedIsOver'
      BY <2>4, <3>1, <3>4 DEF AbortedHasNone, FlushedIsOver
    <3>10. tracker.count # 0 /\ (tracker.next = {} => tracker'.next = {})
      BY <3>1, <3>4
    <3>11. written' \in {written, written \cup {s}} /\ flushed' = {}
      BY <2>4, <3>1
    <3> QED
      BY <2>1, <2>3, <3>1, <3>4, <3>6, <3>8, <3>9, <3>10, <3>11, BatchSave
  <2> QED
    BY <2>6, <2>7
<1>5. ASSUME SaveFlushes(s) PROVE BatchInv'
  <2>1. PICK error \in BOOLEAN :
          save' = [save EXCEPT ![s].pc = "answer", ![s].error = @ \/ error]
    BY <1>5 DEF SaveFlushes
  <2>2. (save[s].error \/ error) \in BOOLEAN
    BY <1>1 DEF SaveTasks
  <2> DEFINE r == [save[s] EXCEPT !.pc = "answer", !.error = save[s].error \/ error]
  <2>3. save' = [save EXCEPT ![s] = r]
    BY <1>1, <2>1
  <2>4. /\ r \in SaveTasks /\ r.pc = "answer" /\ r.followUps = save[s].followUps
        /\ r.voxels = save[s].voxels /\ r.trackerError = save[s].trackerError
    BY <1>1, <2>2 DEF SaveTasks
  <2> HIDE DEF r
  <2>5. /\ save'[s] = r /\ UNCHANGED <<tracker, written>> /\ flushed' = flushed \cup {written}
        /\ save[s].pc = "flush"
    BY <1>1, <1>5, <2>3 DEF SaveFlushes
  <2>6. Over /\ (IsCounted(s)' <=> IsCounted(s))
    BY <1>1, <2>4, <2>5 DEF IsCounted, SaveExact
  <2>7. SaveExact(s)' /\ AbortedHasNone' /\ FlushedIsOver'
    BY <1>1, <2>4, <2>5, <2>6 DEF SaveExact, AbortedHasNone, FlushedIsOver, Over
  <2> QED
    BY <1>1, <2>3, <2>4, <2>5, <2>6, <2>7, BatchSave
<1>6. ASSUME SaveAnswers(s) PROVE BatchInv'
  <2> DEFINE r == [save[s] EXCEPT !.pc = "done",
                                  !.output = IF save[s].error THEN "dropped_with_voxels" ELSE "saved"]
  <2>1. save' = [save EXCEPT ![s] = r]
    BY <1>1, <1>6 DEF SaveAnswers
  <2>2. /\ r \in SaveTasks /\ r.pc = "done" /\ r.followUps = save[s].followUps
        /\ r.voxels = save[s].voxels /\ r.trackerError = save[s].trackerError
        /\ r.error = save[s].error /\ r.error \in BOOLEAN
        /\ r.output = IF r.error THEN "dropped_with_voxels" ELSE "saved"
    BY <1>1 DEF SaveTasks
  <2> HIDE DEF r
  <2>3. save'[s] = r /\ UNCHANGED <<tracker, written, flushed>> /\ save[s].pc = "answer"
    BY <1>1, <1>6, <2>1 DEF SaveAnswers
  <2>4. r.voxels /\ s \in written /\ (IsCounted(s)' <=> IsCounted(s))
    BY <1>1, <2>2, <2>3 DEF IsCounted, SaveExact
  <2>5. SaveSettles(s)'
    BY <2>2, <2>3, <2>4 DEF SaveSettles
  <2>6. SaveExact(s)' /\ AbortedHasNone' /\ FlushedIsOver'
    BY <1>1, <2>2, <2>3, <2>4, <2>5 DEF SaveExact, AbortedHasNone, FlushedIsOver, Over
  <2> QED
    BY <1>1, <2>1, <2>2, <2>3, <2>4, <2>6, BatchSave
<1>7. ASSUME SavePanics(s) PROVE BatchInv'
  <2> DEFINE r == [save[s] EXCEPT !.pc = "panicked", !.followUps = {}]
  <2>1. save' = [save EXCEPT ![s] = r]
    BY <1>1, <1>7 DEF SavePanics
  <2>2. r \in SaveTasks /\ r.pc = "panicked" /\ r.followUps = {}
    BY <1>1 DEF SaveTasks
  <2> HIDE DEF r
  <2>3. /\ save'[s] = r /\ UNCHANGED <<tracker, flushed>>
        /\ written' \in {written, written \cup {s}}
    BY <1>1, <1>7, <2>1 DEF SavePanics
  <2>4. ~ IsCounted(s)'
    BY <2>2, <2>3 DEF IsCounted
  <2>5. SaveExact(s)' /\ AbortedHasNone' /\ FlushedIsOver'
    BY <1>1, <2>2, <2>3, <2>4 DEF SaveExact, AbortedHasNone, FlushedIsOver, Over
  <2> QED
    BY <1>1, <2>1, <2>2, <2>3, <2>4, <2>5, BatchSave
<1> QED
  BY <1>2, <1>3, <1>4, <1>5, <1>6, <1>7 DEF Saving

LEMMA LoadSteps ==
  ASSUME LoadTypeOK, LoadsAnswer, [StreamTasksNext]_streamTaskVars
  PROVE  LoadTypeOK' /\ LoadsAnswer'
<1>1. CASE UNCHANGED load
  BY <1>1 DEF LoadTypeOK, LoadsAnswer
<1>2. ASSUME NEW l \in Loads, LoadPriority(l) PROVE LoadTypeOK' /\ LoadsAnswer'
  BY <1>2 DEF LoadTypeOK, LoadsAnswer, LoadPriority
<1>3. ASSUME NEW l \in Loads, LoadDropped(l) \/ LoadStarts(l) PROVE LoadTypeOK' /\ LoadsAnswer'
  BY <1>3 DEF LoadTypeOK, LoadsAnswer, LoadDropped, LoadStarts
<1>4. ASSUME NEW l \in Loads, LoadRuns(l) PROVE LoadTypeOK' /\ LoadsAnswer'
  <2>1. PICK x \in LoadResults :
          load' = [load EXCEPT ![l].pc = "done", ![l].output = x.output, ![l].followUp = x.followUp]
    BY <1>4 DEF LoadRuns
  <2>2. /\ x.output \in {NoOutput, "loaded", "loaded_dropped", "not_found", "needs_generation"}
        /\ x.followUp \in BOOLEAN /\ (x.output = NoOutput <=> x.followUp)
    <3>1. \/ x = [output |-> "loaded", followUp |-> FALSE]
          \/ x = [output |-> "loaded_dropped", followUp |-> FALSE]
          \/ x = [output |-> "not_found", followUp |-> FALSE]
          \/ x = [output |-> "needs_generation", followUp |-> FALSE]
          \/ x = [output |-> NoOutput, followUp |-> TRUE]
      BY DEF LoadResults
    <3>2. \/ x.output \in {"loaded", "loaded_dropped", "not_found", "needs_generation"} /\ x.followUp = FALSE
          \/ x.output = NoOutput /\ x.followUp = TRUE
      BY <3>1
    <3> QED
      BY <3>2 DEF NoOutput
  <2>3. LoadTypeOK'
    <3> DEFINE r == [load[l] EXCEPT !.pc = "done", !.output = x.output, !.followUp = x.followUp]
    <3>1. load' = [load EXCEPT ![l] = r]
      BY <2>1 DEF LoadTypeOK
    <3>2. r \in [pc : {"queued", "picked", "dropped", "running", "done", "panicked"}, tooFar : BOOLEAN,
                 output : {NoOutput, "loaded", "loaded_dropped", "not_found", "needs_generation"},
                 followUp : BOOLEAN]
      BY <2>2 DEF LoadTypeOK
    <3> HIDE DEF r
    <3> QED
      BY <3>1, <3>2 DEF LoadTypeOK
  <2>4. load'[l].output = x.output /\ load'[l].followUp = x.followUp
    BY <2>1 DEF LoadTypeOK
  <2>5. \A m \in Loads \ {l} : load'[m] = load[m]
    BY <2>1 DEF LoadTypeOK
  <2>6. LoadsAnswer'
    BY <2>2, <2>4, <2>5 DEF LoadsAnswer
  <2> QED
    BY <2>3, <2>6
<1>5. ASSUME NEW l \in Loads, LoadPanics(l) PROVE LoadTypeOK' /\ LoadsAnswer'
  BY <1>5 DEF LoadTypeOK, LoadsAnswer, LoadPanics
<1>6. ASSUME Client \/ \E s \in Savers : Saving(s) PROVE UNCHANGED load
  BY <1>6 DEF Client, SetCount, SetNextTasks, Abort, ReplaceStream, CancelToken, Saving,
              SaveNothing, SaveWrites, SavePosts, SaveFlushes, SaveAnswers, SavePanics
<1> QED
  BY <1>1, <1>2, <1>3, <1>4, <1>5, <1>6 DEF StreamTasksNext, Loading, streamTaskVars

\* BatchSettles, for any saves, loads and follow-ups: whatever completions, failures, an abort
\* and the setters of the tracker interleave, the follow-ups go to one save at most, the one
\* that brings the count to zero; a flush comes after the write of every save that was
\* counted; and a save that is done, as any is that did not panic, was written or answered that
\* it was not (tasks/async_dependency_tracker.rs, streams/save_block_data_task.rs).
THEOREM BatchesSettle == StreamTasksSpec => []BatchSettles
<1>1. BatchInv /\ [StreamTasksNext]_streamTaskVars => BatchInv'
  BY BatchClientSteps, BatchSaveSteps DEF StreamTasksNext
<1>2. BatchInv /\ LoadsAnswer => BatchSettles
  <2> SUFFICES ASSUME BatchInv, LoadsAnswer PROVE BatchSettles
    OBVIOUS
  <2>1. Takers = {} \/ \E s : Takers = {s}
    BY DEF BatchInv, OneTaker, Takers
  <2>2. Cardinality(Takers) <= 1
    <3>1. CASE Takers = {}
      BY <3>1, FS_EmptySet
    <3>2. ASSUME NEW s, Takers = {s} PROVE Cardinality(Takers) = 1
      BY <3>2, FS_Singleton
    <3> QED
      BY <2>1, <3>1, <3>2
  <2>3. Takers # {} => tracker.next = {} /\ tracker.count = 0
    BY DEF BatchInv, SaveExact, Takers, Over
  <2>4. tracker.started /\ ~ tracker.aborted /\ tracker.count = 0 => tracker.next = {} \/ Counted = {}
    BY CountedAre DEF BatchInv, SaveExact
  <2>5. FollowUpsRunOnce
    BY <2>2, <2>3, <2>4 DEF BatchInv, AbortedHasNone, FollowUpsRunOnce
  <2>6. \A s \in Savers : save[s].pc = "done" => SaveSettles(s)
    BY DEF BatchInv, SaveExact
  <2>7. NoSaveIsLostInSilence
    BY <2>6 DEF NoSaveIsLostInSilence, LoadsAnswer, SaveSettles
  <2> QED
    BY <2>5, <2>7 DEF BatchInv, BatchSettles
<1> QED
  BY <1>1, <1>2, BatchStart, LoadSteps, PTL DEF StreamTasksSpec

-----------------------------------------------------------------------------
(* Handles.                                                                *)

Slots == [generation : 0 .. Generations - 1, used : BOOLEAN, entry : Nat, place : Places \cup {Origin}]
Handles == [index : Nat, generation : 0 .. Generations - 1, entry : Nat, age : Nat]

RegistryTypeOK ==
  /\ slots \in Seq(Slots) /\ free \in Seq(Nat) /\ removals \in Seq(Nat)
  /\ handles \subseteq Handles
  /\ adds \in Nat

\* A generation is the number of times its slot was emptied, and one, with the wraps left out.
Wrapped(n, g) == \E q \in Nat : n + 1 = Generations * q + g

SlotsExact ==
  /\ Len(removals) = Len(slots)
  /\ \A i \in Indices : Wrapped(removals[i], slots[i].generation)

\* The handles that may still be valid were made since the slot was emptied last.
HandlesExact ==
  \A h \in handles :
    /\ h.index \in Indices /\ Wrapped(h.age, h.generation)
    /\ h.age <= removals[h.index]
    /\ ~ slots[h.index].used => h.age # removals[h.index]
    /\ h.age = removals[h.index] => slots[h.index].entry = h.entry

EntriesHaveHandles ==
  \A i \in Indices : slots[i].used =>
    \E h \in handles : h.index = i /\ h.entry = slots[i].entry /\ h.generation = slots[i].generation

FreeExact ==
  /\ \A k \in DOMAIN free : free[k] \in Indices /\ ~ slots[free[k]].used
  /\ \A k, l \in DOMAIN free : free[k] = free[l] => k = l
  /\ \A i \in Indices : ~ slots[i].used => \E k \in DOMAIN free : free[k] = i

RegistryInv == RegistryTypeOK /\ SlotsExact /\ HandlesExact /\ EntriesHaveHandles /\ FreeExact

\* Generations that wrapped to the same value are that many emptyings apart.
LEMMA SameGenerationIsFar ==
  ASSUME NEW m \in Nat, NEW n \in Nat, NEW g \in 0 .. Generations - 1, m < n,
         Wrapped(m, g), Wrapped(n, g)
  PROVE  n - m >= Generations
<1> DEFINE G == Generations
<1>0. G \in Nat /\ G > 1 /\ g \in Int
  BY RegistryAssumption
<1>1. PICK q \in Nat : m + 1 = G * q + g
  BY DEF Wrapped
<1>2. PICK r \in Nat : n + 1 = G * r + g
  BY DEF Wrapped
<1> HIDE DEF G
<1>3. n - m = G * r - G * q
  BY <1>0, <1>1, <1>2
<1>4. G * r - G * q = G * (r - q)
  BY <1>0
<1>5. r - q > 0
  <2> SUFFICES ASSUME ~ (r - q > 0) PROVE FALSE
    OBVIOUS
  <2>1. G * (r - q) <= 0
    BY <1>0
  <2> QED
    BY <1>3, <1>4, <2>1
<1>6. G * (r - q) >= G
  BY <1>0, <1>5
<1> QED
  BY <1>3, <1>4, <1>6 DEF G

LEMMA NextIsWrapped ==
  ASSUME NEW n \in Nat, NEW g \in 0 .. Generations - 1, Wrapped(n, g)
  PROVE  NextGeneration(g) \in 0 .. Generations - 1 /\ Wrapped(n + 1, NextGeneration(g))
<1>0. Generations \in Nat /\ Generations > 1 /\ g \in Int /\ g >= 0 /\ g < Generations
  BY RegistryAssumption
<1>1. PICK q \in Nat : n + 1 = Generations * q + g
  BY DEF Wrapped
<1>2. CASE g + 1 < Generations
  <2>1. NextGeneration(g) = g + 1
    BY <1>0, <1>2 DEF NextGeneration
  <2>2. n + 1 + 1 = Generations * q + (g + 1)
    BY <1>0, <1>1
  <2> QED
    BY <1>0, <1>2, <2>1, <2>2 DEF Wrapped
<1>3. CASE g + 1 = Generations
  <2>1. NextGeneration(g) = 0
    BY <1>0, <1>3 DEF NextGeneration
  <2>2. n + 1 + 1 = Generations * q + Generations
    BY <1>0, <1>1, <1>3
  <2>3. Generations * q + Generations = Generations * (q + 1) + 0
    BY <1>0
  <2>4. q + 1 \in Nat
    OBVIOUS
  <2>5. n + 1 + 1 = Generations * (q + 1) + 0
    BY <2>2, <2>3
  <2>6. Wrapped(n + 1, 0)
    BY <2>4, <2>5 DEF Wrapped
  <2>7. 0 \in 0 .. Generations - 1
    BY <1>0
  <2> QED
    BY <2>1, <2>6, <2>7
<1> QED
  BY <1>0, <1>2, <1>3

LEMMA RegistryStart == RegistryInit => RegistryInv
  BY DEF RegistryInit, RegistryInv, RegistryTypeOK, SlotsExact, HandlesExact, EntriesHaveHandles,
         FreeExact, Indices

\* A slot of the vector changes.
LEMMA SlotChange ==
  ASSUME RegistryTypeOK, NEW i \in Indices, NEW r \in Slots, slots' = [slots EXCEPT ![i] = r]
  PROVE  /\ slots' \in Seq(Slots) /\ Len(slots') = Len(slots) /\ Indices' = Indices
         /\ slots'[i] = r /\ \A j \in Indices \ {i} : slots'[j] = slots[j]
  BY DEF RegistryTypeOK, Indices

LEMMA RegistryReuses ==
  ASSUME RegistryInv, AddReused
  PROVE  RegistryInv'
<1> DEFINE i == free[Len(free)]
           r == [slots[i] EXCEPT !.used = TRUE, !.entry = adds + 1, !.place = Origin]
           n == [index |-> i, generation |-> slots[i].generation, entry |-> adds + 1, age |-> removals[i]]
<1>1. RegistryTypeOK /\ SlotsExact /\ HandlesExact /\ EntriesHaveHandles /\ FreeExact
  BY DEF RegistryInv
<1>2. Len(free) \in Nat /\ Len(free) > 0 /\ Len(free) \in DOMAIN free
  BY <1>1 DEF AddReused, RegistryTypeOK
<1>3. i \in Indices /\ ~ slots[i].used
  BY <1>1, <1>2 DEF FreeExact
<1>4. slots[i] \in Slots /\ i \in Nat /\ removals[i] \in Nat /\ adds + 1 \in Nat
  BY <1>1, <1>3 DEF RegistryTypeOK, SlotsExact, Indices
<1>5. /\ r \in Slots /\ r.generation = slots[i].generation /\ r.used /\ r.entry = adds + 1
  BY <1>4 DEF Slots
<1>6. n \in Handles /\ n.index = i /\ n.generation = slots[i].generation
      /\ n.entry = adds + 1 /\ n.age = removals[i]
  BY <1>4 DEF Slots, Handles
<1>7. /\ free' = SubSeq(free, 1, Len(free) - 1) /\ slots' = [slots EXCEPT ![i] = r]
      /\ handles' = handles \cup {n} /\ adds' = adds + 1 /\ removals' = removals
  BY <1>1 DEF AddReused, RegistryTypeOK
<1>8. /\ free' \in Seq(Nat) /\ DOMAIN free' = 1 .. Len(free) - 1
      /\ \A k \in DOMAIN free' : k \in DOMAIN free /\ k # Len(free) /\ free'[k] = free[k]
  <2> DEFINE L == Len(free)
  <2>1. free \in Seq(Nat) /\ L \in Nat /\ L - 1 \in Nat /\ L - 1 \in Int /\ DOMAIN free = 1 .. L
    BY <1>1, <1>2 DEF RegistryTypeOK
  <2> HIDE DEF L
  <2>2. \A k \in 1 .. L - 1 : k \in 1 .. L /\ k # L /\ 1 + k - 1 = k
    BY <2>1
  <2>3. \A k \in 1 .. L - 1 : free[k] \in Nat
    BY <2>1, <2>2
  <2>4. /\ SubSeq(free, 1, L - 1) \in Seq(Nat)
        /\ Len(SubSeq(free, 1, L - 1)) = IF 1 <= L - 1 THEN L - 1 - 1 + 1 ELSE 0
        /\ \A k \in 1 .. L - 1 - 1 + 1 : SubSeq(free, 1, L - 1)[k] = free[1 + k - 1]
    BY <2>1, <2>3, SubSeqProperties
  <2>5. free' = SubSeq(free, 1, L - 1)
    BY <1>7 DEF L
  <2>6. Len(free') = L - 1 /\ \A k \in 1 .. L - 1 : free'[k] = free[k]
    BY <2>1, <2>2, <2>4, <2>5
  <2>7. free' \in Seq(Nat) /\ DOMAIN free' = 1 .. L - 1
    BY <2>4, <2>5, <2>6
  <2> QED
    BY <2>1, <2>2, <2>6, <2>7 DEF L
<1> HIDE DEF i, r, n
<1>9. /\ slots' \in Seq(Slots) /\ Len(slots') = Len(slots) /\ Indices' = Indices
      /\ slots'[i] = r /\ \A j \in Indices \ {i} : slots'[j] = slots[j]
  BY <1>1, <1>3, <1>5, <1>7, SlotChange
<1>10. RegistryTypeOK'
  BY <1>1, <1>4, <1>6, <1>7, <1>8, <1>9 DEF RegistryTypeOK
<1>11. SlotsExact'
  BY <1>1, <1>5, <1>7, <1>9 DEF SlotsExact
<1>12. HandlesExact'
  <2> SUFFICES ASSUME NEW h \in handles'
               PROVE  /\ h.index \in Indices /\ Wrapped(h.age, h.generation)
                      /\ h.age <= removals[h.index]
                      /\ ~ slots'[h.index].used => h.age # removals[h.index]
                      /\ h.age = removals[h.index] => slots'[h.index].entry = h.entry
    BY <1>7, <1>9 DEF HandlesExact
  <2>1. CASE h = n
    BY <1>1, <1>3, <1>4, <1>5, <1>6, <1>9, <2>1 DEF SlotsExact
  <2>2. CASE h \in handles
    <3>1. h.index = i => h.age # removals[i]
      BY <1>1, <1>3, <2>2 DEF HandlesExact
    <3> QED
      BY <1>1, <1>5, <1>9, <2>2, <3>1 DEF HandlesExact
  <2> QED
    BY <1>7, <2>1, <2>2
<1>13. EntriesHaveHandles'
  <2> SUFFICES ASSUME NEW j \in Indices, slots'[j].used
               PROVE  \E h \in handles' : h.index = j /\ h.entry = slots'[j].entry
                                          /\ h.generation = slots'[j].generation
    BY <1>9 DEF EntriesHaveHandles
  <2>1. CASE j = i
    BY <1>5, <1>6, <1>7, <1>9, <2>1
  <2>2. CASE j # i
    BY <1>1, <1>7, <1>9, <2>2 DEF EntriesHaveHandles
  <2> QED
    BY <2>1, <2>2
<1>14. FreeExact'
  <2>1. \A k \in DOMAIN free' : free[k] # i
    BY <1>1, <1>2, <1>8 DEF FreeExact, i
  <2>2. \A k \in DOMAIN free' : free'[k] \in Indices /\ ~ slots'[free'[k]].used
    BY <1>1, <1>8, <1>9, <2>1 DEF FreeExact
  <2>3. \A k, l \in DOMAIN free' : free'[k] = free'[l] => k = l
    BY <1>1, <1>8 DEF FreeExact
  <2>4. ASSUME NEW j \in Indices, ~ slots'[j].used PROVE \E k \in DOMAIN free' : free'[k] = j
    <3>1. j # i /\ ~ slots[j].used
      BY <1>5, <1>9, <2>4
    <3>2. PICK k \in DOMAIN free : free[k] = j
      BY <1>1, <3>1 DEF FreeExact
    <3>3. k # Len(free)
      BY <3>1, <3>2 DEF i
    <3>4. DOMAIN free = 1 .. Len(free)
      BY <1>1 DEF RegistryTypeOK
    <3>5. k \in DOMAIN free'
      BY <1>2, <1>8, <3>3, <3>4
    <3> QED
      BY <1>8, <3>2, <3>5
  <2> QED
    BY <1>9, <2>2, <2>3, <2>4 DEF FreeExact
<1> QED
  BY <1>10, <1>11, <1>12, <1>13, <1>14 DEF RegistryInv

LEMMA RegistryGrows ==
  ASSUME RegistryInv, AddNew
  PROVE  RegistryInv'
<1> DEFINE i == Len(slots) + 1
           r == [generation |-> 1, used |-> TRUE, entry |-> adds + 1, place |-> Origin]
           n == [index |-> i, generation |-> 1, entry |-> adds + 1, age |-> 0]
<1>1. RegistryTypeOK /\ SlotsExact /\ HandlesExact /\ EntriesHaveHandles /\ FreeExact
  BY DEF RegistryInv
<1>2. 1 \in 0 .. Generations - 1 /\ i \in Nat /\ adds + 1 \in Nat
  BY <1>1, RegistryAssumption DEF RegistryTypeOK
<1>3. r \in Slots /\ r.generation = 1 /\ r.used /\ r.entry = adds + 1
  BY <1>2 DEF Slots
<1>4. n \in Handles /\ n.index = i /\ n.generation = 1 /\ n.entry = adds + 1 /\ n.age = 0
  BY <1>2 DEF Handles
<1>5. /\ slots' = Append(slots, r) /\ handles' = handles \cup {n} /\ removals' = Append(removals, 0)
      /\ adds' = adds + 1 /\ free' = free /\ free = << >>
  BY DEF AddNew
<1> HIDE DEF r, n
<1>6. /\ slots' \in Seq(Slots) /\ Indices' = Indices \cup {i} /\ i \notin Indices
      /\ slots'[i] = r /\ \A j \in Indices : slots'[j] = slots[j]
      /\ removals' \in Seq(Nat) /\ Len(removals') = Len(slots')
      /\ removals'[i] = 0 /\ \A j \in Indices : removals'[j] = removals[j]
  BY <1>1, <1>3, <1>5 DEF RegistryTypeOK, SlotsExact, Indices
<1>7. Wrapped(0, 1)
  <2>1. 0 + 1 = Generations * 0 + 1
    BY RegistryAssumption
  <2> QED
    BY <2>1 DEF Wrapped
<1>8. RegistryTypeOK'
  BY <1>1, <1>2, <1>4, <1>5, <1>6 DEF RegistryTypeOK
<1>9. SlotsExact'
  BY <1>1, <1>3, <1>6, <1>7 DEF SlotsExact
<1>10. HandlesExact'
  <2> SUFFICES ASSUME NEW h \in handles'
               PROVE  /\ h.index \in Indices' /\ Wrapped(h.age, h.generation)
                      /\ h.age <= removals'[h.index]
                      /\ ~ slots'[h.index].used => h.age # removals'[h.index]
                      /\ h.age = removals'[h.index] => slots'[h.index].entry = h.entry
    BY DEF HandlesExact
  <2>1. CASE h = n
    BY <1>3, <1>4, <1>6, <1>7, <2>1
  <2>2. CASE h \in handles
    <3>1. h.index \in Indices
      BY <1>1, <2>2 DEF HandlesExact
    <3> QED
      BY <1>1, <1>6, <2>2, <3>1 DEF HandlesExact
  <2> QED
    BY <1>5, <2>1, <2>2
<1>11. EntriesHaveHandles'
  <2> SUFFICES ASSUME NEW j \in Indices', slots'[j].used
               PROVE  \E h \in handles' : h.index = j /\ h.entry = slots'[j].entry
                                          /\ h.generation = slots'[j].generation
    BY DEF EntriesHaveHandles
  <2>1. CASE j = i
    BY <1>3, <1>4, <1>5, <1>6, <2>1
  <2>2. CASE j \in Indices
    <3>1. slots'[j] = slots[j]
      BY <1>6, <2>2
    <3>2. PICK h \in handles : h.index = j /\ h.entry = slots[j].entry
                               /\ h.generation = slots[j].generation
      BY <1>1, <2>2, <3>1 DEF EntriesHaveHandles
    <3> QED
      BY <1>5, <3>1, <3>2
  <2> QED
    BY <1>6, <2>1, <2>2
<1>12. FreeExact'
  <2>1. DOMAIN free' = {} /\ DOMAIN free = {}
    BY <1>5
  <2>2. \A j \in Indices' : slots'[j].used
    BY <1>1, <1>3, <1>6, <2>1 DEF FreeExact
  <2> QED
    BY <2>1, <2>2 DEF FreeExact
<1> QED
  BY <1>8, <1>9, <1>10, <1>11, <1>12 DEF RegistryInv

LEMMA RegistryRemoves ==
  ASSUME RegistryInv, NEW g \in handles, Remove(g)
  PROVE  RegistryInv'
<1> DEFINE i == g.index
           r == [slots[i] EXCEPT !.used = FALSE, !.entry = 0,
                                 !.generation = NextGeneration(slots[i].generation)]
<1>1. RegistryTypeOK /\ SlotsExact /\ HandlesExact /\ EntriesHaveHandles /\ FreeExact
  BY DEF RegistryInv
<1>2. i \in Indices /\ slots[i].used
  BY DEF Remove, Valid
<1>3. slots[i] \in Slots /\ i \in Nat /\ i \in DOMAIN removals /\ removals[i] \in Nat
      /\ slots[i].generation \in 0 .. Generations - 1
  <2>1. slots[i] \in Slots /\ i \in Nat
    BY <1>1, <1>2 DEF RegistryTypeOK, Indices
  <2>2. i \in DOMAIN removals /\ removals[i] \in Nat
    BY <1>1, <1>2 DEF RegistryTypeOK, SlotsExact, Indices
  <2>3. slots[i].generation \in 0 .. Generations - 1
    BY <2>1 DEF Slots
  <2> QED
    BY <2>1, <2>2, <2>3
<1>4. /\ NextGeneration(slots[i].generation) \in 0 .. Generations - 1
      /\ Wrapped(removals[i] + 1, NextGeneration(slots[i].generation))
  BY <1>1, <1>2, <1>3, NextIsWrapped DEF SlotsExact
<1>5. r \in Slots /\ ~ r.used /\ r.generation = NextGeneration(slots[i].generation)
  BY <1>3, <1>4 DEF Slots
<1>6. /\ slots' = [slots EXCEPT ![i] = r]
      /\ free' = Append(free, i) /\ removals' = [removals EXCEPT ![i] = removals[i] + 1]
      /\ UNCHANGED <<handles, adds>>
  BY <1>1, <1>2 DEF Remove, RegistryTypeOK
<1> HIDE DEF i, r
<1>7. /\ slots' \in Seq(Slots) /\ Len(slots') = Len(slots) /\ Indices' = Indices
      /\ slots'[i] = r /\ \A j \in Indices \ {i} : slots'[j] = slots[j]
  BY <1>1, <1>2, <1>5, <1>6, SlotChange
<1>8. removals[i] + 1 \in Nat
  BY <1>3
<1>9. /\ removals' \in Seq(Nat) /\ Len(removals') = Len(removals)
      /\ removals'[i] = removals[i] + 1 /\ \A j \in Indices \ {i} : removals'[j] = removals[j]
  BY <1>1, <1>3, <1>6, <1>8 DEF RegistryTypeOK, SlotsExact, Indices
<1>10. /\ free' \in Seq(Nat) /\ Len(free) \in Nat
       /\ DOMAIN free = 1 .. Len(free) /\ DOMAIN free' = 1 .. Len(free) + 1
       /\ free'[Len(free) + 1] = i /\ \A k \in DOMAIN free : free'[k] = free[k]
  BY <1>1, <1>3, <1>6, SMTT(30) DEF RegistryTypeOK
<1>11. RegistryTypeOK'
  BY <1>1, <1>6, <1>7, <1>9, <1>10 DEF RegistryTypeOK
<1>12. SlotsExact'
  <2>1. \A j \in Indices : Wrapped(removals'[j], slots'[j].generation)
    BY <1>1, <1>4, <1>5, <1>7, <1>9 DEF SlotsExact
  <2> QED
    BY <1>1, <1>7, <1>9, <2>1 DEF SlotsExact
<1>13. HandlesExact'
  <2> SUFFICES ASSUME NEW h \in handles
               PROVE  /\ h.index \in Indices /\ Wrapped(h.age, h.generation)
                      /\ h.age <= removals'[h.index]
                      /\ ~ slots'[h.index].used => h.age # removals'[h.index]
                      /\ h.age = removals'[h.index] => slots'[h.index].entry = h.entry
    BY <1>6, <1>7 DEF HandlesExact
  <2>1. h.index \in Indices /\ Wrapped(h.age, h.generation) /\ h.age <= removals[h.index] /\ h.age \in Nat
    BY <1>1 DEF HandlesExact, RegistryTypeOK, Handles
  <2>2. CASE h.index = i
    <3>1. h.age < removals'[h.index]
      BY <1>3, <1>9, <2>1, <2>2
    <3> QED
      BY <1>3, <1>9, <2>1, <2>2, <3>1
  <2>3. CASE h.index # i
    BY <1>1, <1>7, <1>9, <2>1, <2>3 DEF HandlesExact
  <2> QED
    BY <2>2, <2>3
<1>14. EntriesHaveHandles'
  <2> SUFFICES ASSUME NEW j \in Indices, slots'[j].used
               PROVE  \E h \in handles : h.index = j /\ h.entry = slots'[j].entry
                                         /\ h.generation = slots'[j].generation
    BY <1>6, <1>7 DEF EntriesHaveHandles
  <2>1. j # i
    BY <1>5, <1>7
  <2> QED
    BY <1>1, <1>7, <2>1 DEF EntriesHaveHandles
<1>15. FreeExact'
  <2>1. \A k \in DOMAIN free : free[k] # i
    BY <1>1, <1>2 DEF FreeExact
  <2>2. \A k \in DOMAIN free' : k = Len(free) + 1 \/ k \in DOMAIN free
    BY <1>10
  <2>3. \A k \in DOMAIN free' : free'[k] \in Indices /\ ~ slots'[free'[k]].used
    <3>1. i \in Indices /\ ~ slots'[i].used
      BY <1>1, <1>2, <1>5, <1>7
    <3>2. \A k \in DOMAIN free : free[k] \in Indices /\ slots'[free[k]] = slots[free[k]]
      BY <1>1, <1>2, <1>7, <2>1 DEF FreeExact
    <3>3. \A k \in DOMAIN free : ~ slots[free[k]].used
      BY <1>1 DEF FreeExact
    <3> QED
      BY <1>10, <2>2, <3>1, <3>2, <3>3
  <2>4. \A k, l \in DOMAIN free' : free'[k] = free'[l] => k = l
    BY <1>1, <1>10, <2>1, <2>2 DEF FreeExact
  <2>5. ASSUME NEW j \in Indices, ~ slots'[j].used PROVE \E k \in DOMAIN free' : free'[k] = j
    <3>1. CASE j = i
      BY <1>10, <3>1
    <3>2. CASE j # i
      <4>1. PICK k \in DOMAIN free : free[k] = j
        BY <1>1, <1>7, <2>5, <3>2 DEF FreeExact
      <4>2. k \in DOMAIN free'
        BY <1>10
      <4> QED
        BY <1>10, <4>1, <4>2
    <3> QED
      BY <3>1, <3>2
  <2> QED
    BY <1>7, <2>3, <2>4, <2>5 DEF FreeExact
<1> QED
  BY <1>11, <1>12, <1>13, <1>14, <1>15 DEF RegistryInv

LEMMA RegistryMoves ==
  ASSUME RegistryInv, NEW g \in handles, NEW p \in Places, SetPosition(g, p)
  PROVE  RegistryInv'
<1> DEFINE i == g.index
           r == [slots[i] EXCEPT !.place = p]
<1>1. RegistryTypeOK /\ SlotsExact /\ HandlesExact /\ EntriesHaveHandles /\ FreeExact
  BY DEF RegistryInv
<1>2. i \in Indices /\ UNCHANGED <<free, handles, removals, adds>>
  BY DEF SetPosition, Valid
<1>3. slots[i] \in Slots
  BY <1>1, <1>2 DEF RegistryTypeOK, Indices
<1>4. r \in Slots /\ r.used = slots[i].used /\ r.entry = slots[i].entry /\ r.generation = slots[i].generation
  BY <1>3 DEF Slots
<1>5. slots' = [slots EXCEPT ![i] = r]
  BY <1>1, <1>2 DEF SetPosition, RegistryTypeOK
<1> HIDE DEF i, r
<1>6. /\ slots' \in Seq(Slots) /\ Len(slots') = Len(slots) /\ Indices' = Indices
      /\ slots'[i] = r /\ \A j \in Indices \ {i} : slots'[j] = slots[j]
  BY <1>1, <1>2, <1>4, <1>5, SlotChange
<1>7. \A j \in Indices : /\ slots'[j].used = slots[j].used /\ slots'[j].entry = slots[j].entry
                         /\ slots'[j].generation = slots[j].generation
  BY <1>4, <1>6
<1>8. RegistryTypeOK' /\ SlotsExact'
  BY <1>1, <1>2, <1>6, <1>7 DEF RegistryTypeOK, SlotsExact
<1>9. HandlesExact' /\ EntriesHaveHandles' /\ FreeExact'
  BY <1>1, <1>2, <1>6, <1>7 DEF HandlesExact, EntriesHaveHandles, FreeExact
<1> QED
  BY <1>8, <1>9 DEF RegistryInv

LEMMA RegistryStep ==
  ASSUME RegistryInv, [RegistryNext]_registryVars
  PROVE  RegistryInv'
<1>1. CASE UNCHANGED <<slots, free, handles, removals, adds>>
  BY <1>1 DEF RegistryInv, RegistryTypeOK, SlotsExact, HandlesExact, EntriesHaveHandles, FreeExact, Indices
<1> QED
  BY <1>1, RegistryReuses, RegistryGrows, RegistryRemoves, RegistryMoves
     DEF RegistryNext, Sync, registryVars

\* HandlesNameTheirEntry, for any number of slots, entries and generations: a handle that is
\* valid names the entry it was made for, unless its slot has been emptied as often since as
\* there are generations; every entry can be reached by its handle, and the free indices are
\* the empty slots, each once (engine/voxel_engine.rs GenerationalSlotMap).
THEOREM HandlesAreExact == RegistrySpec => []HandlesNameTheirEntry
<1>1. RegistryInv => HandlesNameTheirEntry
  <2> SUFFICES ASSUME RegistryInv PROVE HandlesNameTheirEntry
    OBVIOUS
  <2>1. RegistryTypeOK /\ SlotsExact /\ HandlesExact /\ EntriesHaveHandles /\ FreeExact
    BY DEF RegistryInv
  <2>2. ASSUME NEW h \in handles, Valid(h)
        PROVE  slots[h.index].entry = h.entry \/ removals[h.index] - h.age >= Generations
    <3>1. /\ h.index \in Indices /\ h.age \in Nat /\ removals[h.index] \in Nat
          /\ h.generation \in 0 .. Generations - 1 /\ slots[h.index].generation = h.generation
      BY <2>1, <2>2 DEF RegistryTypeOK, SlotsExact, Indices, Handles, Valid
    <3>2. Wrapped(h.age, h.generation) /\ Wrapped(removals[h.index], h.generation)
          /\ h.age <= removals[h.index]
      BY <2>1, <3>1 DEF SlotsExact, HandlesExact
    <3>3. CASE h.age = removals[h.index]
      BY <2>1, <3>3 DEF HandlesExact
    <3>4. CASE h.age < removals[h.index]
      BY <3>1, <3>2, <3>4, SameGenerationIsFar
    <3> QED
      BY <3>1, <3>2, <3>3, <3>4
  <2>3. ASSUME NEW j \in Indices, slots[j].used
        PROVE  \E h \in handles : h.index = j /\ h.entry = slots[j].entry /\ Valid(h)
    BY <2>1, <2>3 DEF EntriesHaveHandles, Valid
  <2>4. ASSUME NEW j \in Indices
        PROVE  Cardinality({k \in DOMAIN free : free[k] = j}) = IF slots[j].used THEN 0 ELSE 1
    <3>1. CASE slots[j].used
      <4>1. {k \in DOMAIN free : free[k] = j} = {}
        BY <2>1, <3>1 DEF FreeExact
      <4> QED
        BY <3>1, <4>1, FS_EmptySet
    <3>2. CASE ~ slots[j].used
      <4>1. PICK l \in DOMAIN free : free[l] = j
        BY <2>1, <3>2 DEF FreeExact
      <4>2. {k \in DOMAIN free : free[k] = j} = {l}
        BY <2>1, <4>1 DEF FreeExact
      <4>3. Cardinality({l}) = 1
        BY FS_Singleton
      <4> QED
        BY <3>2, <4>2, <4>3
    <3> QED
      BY <3>1, <3>2
  <2> QED
    BY <2>2, <2>3, <2>4 DEF HandlesNameTheirEntry
<1> QED
  BY <1>1, RegistryStart, RegistryStep, PTL DEF RegistrySpec

=============================================================================
