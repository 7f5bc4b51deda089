----------------------------- MODULE MemoryPool -----------------------------
(***************************************************************************)
(* The pool of byte blocks behind voxel buffers,                           *)
(* storage/voxel_memory_pool.rs: a bucket per power of two, each under a   *)
(* mutex of its own, and three atomic counters that are updated one after  *)
(* the other.  A block is named by a number; its length is its capacity.   *)
(***************************************************************************)
EXTENDS Integers, FiniteSets, FiniteSetsExt

CONSTANTS PoolThreads,
          MaxExponent,   \* MAX_POT_EXPONENT
          AllocSizes,    \* sizes asked for, some above HighestSize
          CounterLimit,  \* where the counters wrap
          MaxAllocs      \* bound: fresh blocks in a behaviour

VARIABLES buckets,  \* buckets[i]: idle blocks of 1 << i bytes
          len,      \* len[b]: bytes of block b, for the blocks that exist
          out,      \* blocks handed to callers
          counters, \* used blocks, used memory, total memory
          job,      \* job[t]: the call thread t is in the middle of
          cleared   \* whether clear() ran while blocks were out

poolVars == <<buckets, len, out, counters, job, cleared>>

Exponents == 0 .. MaxExponent
Capacity[i \in Exponents] == IF i = 0 THEN 1 ELSE 2 * Capacity[i - 1] \* 1 << i
HighestSize == Capacity[MaxExponent]
PoolIndex(size) == CHOOSE i \in Exponents : Capacity[i] >= size /\ (i = 0 \/ Capacity[i - 1] < size)

\* What the constants may be.
PoolConstants ==
  /\ IsFiniteSet(PoolThreads) /\ MaxExponent \in Nat /\ AllocSizes \subseteq Nat \ {0}
  /\ CounterLimit \in Nat \ {0} /\ MaxAllocs \in Nat

NoJob == [pc |-> "idle", block |-> 0, size |-> 0]
Adding(c, n) == [counters EXCEPT ![c] = (@ + n) % CounterLimit]
At(t, pc) == job[t].pc = pc
Goto(t, pc, block, size) == job' = [job EXCEPT ![t] = [pc |-> pc, block |-> block, size |-> size]]

\* allocate: the pop of the bucket
PopBlock(t, size) ==
  /\ At(t, "idle") /\ size <= HighestSize
  /\ \E b \in buckets[PoolIndex(size)] :
       /\ buckets' = [buckets EXCEPT ![PoolIndex(size)] = @ \ {b}]
       /\ Goto(t, "count", b, len[b])
  /\ UNCHANGED <<len, out, counters, cleared>>

\* nothing to reuse, or too large for the pool: a fresh block, counted in the total
FreshBlock(t, size) ==
  LET bytes == IF size > HighestSize THEN size ELSE Capacity[PoolIndex(size)]
      b == Cardinality(DOMAIN len) + 1 IN
    /\ At(t, "idle") /\ b <= MaxAllocs
    /\ size <= HighestSize => buckets[PoolIndex(size)] = {}
    /\ len' = [c \in DOMAIN len \cup {b} |-> IF c = b THEN bytes ELSE len[c]]
    /\ counters' = Adding("total", bytes)
    /\ Goto(t, "count", b, bytes)
    /\ UNCHANGED <<buckets, out, cleared>>

CountUsedBlock(t) ==
  /\ At(t, "count")
  /\ counters' = Adding("usedBlocks", 1)
  /\ Goto(t, "countMemory", job[t].block, job[t].size)
  /\ UNCHANGED <<buckets, len, out, cleared>>

HandOut(t) ==
  /\ At(t, "countMemory")
  /\ counters' = Adding("usedMemory", job[t].size)
  /\ out' = out \cup {job[t].block}
  /\ job' = [job EXCEPT ![t] = NoJob]
  /\ UNCHANGED <<buckets, len, cleared>>

\* recycle: the two counters, then the bucket, or the end of an oversized block
Recycle(t, b) ==
  /\ At(t, "idle") /\ b \in out
  /\ out' = out \ {b}
  /\ counters' = Adding("usedBlocks", -1)
  /\ Goto(t, "uncount", b, len[b])
  /\ UNCHANGED <<buckets, len, cleared>>

UncountMemory(t) ==
  /\ At(t, "uncount")
  /\ counters' = Adding("usedMemory", - job[t].size)
  /\ Goto(t, "giveBack", job[t].block, job[t].size)
  /\ UNCHANGED <<buckets, len, out, cleared>>

\* Mutant: the bucket of half the size.
GiveBackBelow(t) ==
  LET i == PoolIndex(job[t].size) IN
    /\ At(t, "giveBack") /\ job[t].size <= HighestSize
    /\ buckets' = [buckets EXCEPT ![IF i = 0 THEN 0 ELSE i - 1] = @ \cup {job[t].block}]
    /\ job' = [job EXCEPT ![t] = NoJob]
    /\ UNCHANGED <<counters, len, out, cleared>>

GiveBack(t) ==
  /\ At(t, "giveBack")
  /\ IF job[t].size > HighestSize
       THEN counters' = Adding("total", - job[t].size) /\ UNCHANGED buckets
       ELSE /\ buckets' = [buckets EXCEPT ![PoolIndex(job[t].size)] = @ \cup {job[t].block}]
            /\ UNCHANGED counters
  /\ job' = [job EXCEPT ![t] = NoJob]
  /\ UNCHANGED <<len, out, cleared>>

\* clear_unused_blocks holds one bucket at a time
ClearUnused(i) ==
  /\ buckets[i] # {}
  /\ counters' = Adding("total", - (Capacity[i] * Cardinality(buckets[i])))
  /\ buckets' = [buckets EXCEPT ![i] = {}]
  /\ UNCHANGED <<len, out, job, cleared>>

\* clear, at shutdown: the counters of blocks that are still out go as well
Clear ==
  /\ \A t \in PoolThreads : At(t, "idle")
  /\ buckets' = [i \in Exponents |-> {}]
  /\ counters' = [c \in DOMAIN counters |-> 0]
  /\ cleared' = (cleared \/ out # {})
  /\ UNCHANGED <<len, out, job>>

PoolInit ==
  /\ buckets = [i \in Exponents |-> {}]
  /\ len = << >> /\ out = {}
  /\ counters = [c \in {"usedBlocks", "usedMemory", "total"} |-> 0]
  /\ job = [t \in PoolThreads |-> NoJob]
  /\ cleared = FALSE

PoolStep(t) == \/ \E size \in AllocSizes : PopBlock(t, size) \/ FreshBlock(t, size)
               \/ CountUsedBlock(t) \/ HandOut(t) \/ UncountMemory(t) \/ GiveBack(t)
               \/ \E b \in out : Recycle(t, b)

PoolNext == (\E t \in PoolThreads : PoolStep(t)) \/ (\E i \in Exponents : ClearUnused(i)) \/ Clear

PoolSpec == PoolInit /\ [][PoolNext]_poolVars

-----------------------------------------------------------------------------
BytesOf(blocks) == FoldSet(LAMBDA b, n : n + len[b], 0, blocks)
IdleBlocks == UNION {buckets[i] : i \in Exponents}
Held == {job[t].block : t \in {u \in PoolThreads : ~ At(u, "idle")}}

\* BlocksAreInOnePlace: concurrent callers never get the same block, and an idle block is in
\* the bucket of its size, so that what allocate returns is at least as long as asked for.
BlocksAreInOnePlace ==
  /\ out \cap IdleBlocks = {} /\ Held \cap (out \cup IdleBlocks) = {}
  /\ Cardinality(Held) = Cardinality({t \in PoolThreads : ~ At(t, "idle")})
  /\ \A i, j \in Exponents : i # j => buckets[i] \cap buckets[j] = {}
  /\ \A i \in Exponents : \A b \in buckets[i] : len[b] = Capacity[i]

\* CountersSettle: between calls the counters are the blocks that are out and those that are
\* idle, whatever calls ran side by side; only clear() with blocks still out breaks them.
CountersSettle ==
  (\A t \in PoolThreads : At(t, "idle")) /\ ~ cleared =>
    /\ counters["usedBlocks"] = Cardinality(out)
    /\ counters["usedMemory"] = BytesOf(out)
    /\ counters["total"] = BytesOf(out) + BytesOf(IdleBlocks)

PoolExact == BlocksAreInOnePlace /\ CountersSettle
=============================================================================
