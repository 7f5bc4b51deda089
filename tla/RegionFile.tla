----------------------------- MODULE RegionFile -----------------------------
(***************************************************************************)
(* A region file (streams/region/region_file.rs): blocks of different      *)
(* sizes in one file, each in a run of whole sectors, found through a      *)
(* lookup table in the header.  A block that grows or shrinks moves every  *)
(* block behind it.                                                        *)
(*                                                                         *)
(* save_block is a sequence of file operations; the process may die        *)
(* between any two of them, and the file is then opened again.             *)
(*                                                                         *)
(* The file is the sequence of its bytes from the last multiple of the     *)
(* sector size before the blocks: the first HeaderTail bytes end the       *)
(* header, whose contents are the lookup table on disk.  A byte of a block *)
(* is <<position, save, index>>; the byte 1 stands for the length prefix.  *)
(***************************************************************************)
EXTENDS Integers, Sequences, FiniteSets

CONSTANTS
  Blocks,        \* the block positions of the region
  SectorSize,    \* format.sector_size (512 in the code)
  HeaderTail,    \* header size modulo the sector size (20 in the code)
  Sizes,         \* bytes a block may need, length prefix included
  MaxSaves,      \* bound: saves
  MaxSectorCount, \* sectors an entry of the table can count (255 in the code)
  MaxCrashes     \* bound: crashes

ASSUME RegionAssumption ==
  /\ IsFiniteSet(Blocks) /\ Blocks # {}
  /\ SectorSize \in Nat \ {0}
  /\ HeaderTail \in 0 .. SectorSize - 1
  /\ Sizes \subseteq Nat \ {0, 1}
  /\ MaxSectorCount \in Nat
  /\ MaxSaves \in Nat /\ MaxCrashes \in Nat

VARIABLES
  file,      \* the bytes of the file
  diskLut,   \* the lookup table in the header on disk
  lut,       \* header.blocks
  sectors,   \* sectors: the block that owns each sector
  pc,        \* where save_block is; "unreadable": the file cannot be opened
  op,        \* the save under way
  saves,     \* bound, and the identity of the last save
  saved,     \* history: the last save of each block that nothing put at risk since
  crashes,   \* bound, and history: crashes so far
  failures   \* history: saves that failed

handleVars == <<lut, sectors>>
historyVars == <<saves, saved, crashes, failures>>
vars == <<file, diskLut, handleVars, pc, op, historyVars>>

Empty == [index |-> 0, count |-> 0]
Never == [save |-> 0, size |-> 0]
Zero == <<>>         \* the byte of a gap
HeaderByte == <<0>>  \* a byte of the header

Present(t, p) == t[p] # Empty

\* sector_count_from_bytes
SectorCount(bytes) == (bytes + SectorSize - 1) \div SectorSize

\* The last HeaderTail bytes of the sectors of a block of this size are free: what the file may
\* be short of at its end, where pad_to_sector_size counts sectors from the beginning of the file.
LeavesRoom(size) == size + HeaderTail <= SectorCount(size) * SectorSize

\* Where sector i of the data area begins, in bytes before it.
Offset(i) == HeaderTail + i * SectorSize

\* seek and write: a gap behind the end of the file reads as zeros.
WriteAt(f, at, bytes) ==
  [i \in 1 .. (IF at + Len(bytes) > Len(f) THEN at + Len(bytes) ELSE Len(f)) |->
     IF i \in at + 1 .. at + Len(bytes) THEN bytes[i - at]
     ELSE IF i <= Len(f) THEN f[i] ELSE Zero]

\* set_len
SetLen(f, n) == [i \in 1 .. n |-> IF i <= Len(f) THEN f[i] ELSE Zero]

Bytes(p, save, size) == [i \in 1 .. size |-> <<p, save, i>>]

NoOp == [pos |-> CHOOSE p \in Blocks : TRUE, size |-> 0, remove |-> 0, append |-> FALSE]

Init ==
  /\ file = [i \in 1 .. HeaderTail |-> HeaderByte]
  /\ diskLut = [p \in Blocks |-> Empty]
  /\ lut = diskLut
  /\ sectors = <<>>
  /\ pc = "idle"
  /\ op = NoOp
  /\ saves = 0
  /\ saved = [p \in Blocks |-> Never]
  /\ crashes = 0 /\ failures = 0

-----------------------------------------------------------------------------
(* save_block.                                                             *)

\* How many sectors of p are removed first, and whether its new bytes go to
\* the end: a new or growing block is appended, any other stays.
Plan(p, size) ==
  LET old == lut[p].count
      new == SectorCount(size)
  IN  [pos |-> p, size |-> size,
       remove |-> IF new > old THEN old ELSE old - new,
       append |-> ~Present(lut, p) \/ new > old]

BeginSave(p, size) ==
  /\ pc = "idle" /\ saves < MaxSaves
  /\ op' = Plan(p, size)
  /\ pc' = IF op'.remove > 0 THEN "shift" ELSE "prefix"
  /\ saves' = saves + 1
  /\ UNCHANGED <<file, diskLut, handleVars, saved, crashes, failures>>

\* The end of the sectors of the block being saved.
SourceStart == Offset(lut[op.pos].index + lut[op.pos].count)

\* remove_sectors_from_block: the tail of the file moves over the sectors ...
ShiftTail ==
  /\ pc = "shift"
  /\ file' = IF Len(file) > SourceStart
             THEN WriteAt(file, SourceStart - op.remove * SectorSize,
                          SubSeq(file, SourceStart + 1, Len(file)))
             ELSE file
  /\ pc' = "cut"
  /\ UNCHANGED <<diskLut, handleVars, op, historyVars>>

\* The blocks an interrupted save may lose: its own and, if it removes sectors,
\* those behind it, which the table on disk may give sectors they have left.
AtRisk ==
  {op.pos} \cup {p \in Blocks : op.remove > 0 /\ diskLut[p].index > diskLut[op.pos].index}

Forgotten == [p \in Blocks |-> IF p \in AtRisk THEN Never ELSE saved[p]]

\* Mutant: only the blocks one sector behind move.
ShiftedNext(e, from, n) == IF e.index = from + n THEN [e EXCEPT !.index = @ - n] ELSE e

\* The entry of another block once n sectors at the end of the block that
\* starts at sector `from' are removed.
Shifted(e, from, n) == IF e.index > from THEN [e EXCEPT !.index = @ - n] ELSE e

\* The entry of the block itself.
Shrunk(e, n) == IF e.count = n THEN Empty ELSE [e EXCEPT !.count = @ - n]

WithoutSectors(s, first, n) == SubSeq(s, 1, first - 1) \o SubSeq(s, first + n, Len(s))

\* The table without the sectors that are removed.
CutTable ==
  [p \in Blocks |->
     IF p = op.pos THEN Shrunk(lut[p], op.remove)
     ELSE IF Present(lut, p) THEN Shifted(lut[p], lut[op.pos].index, op.remove) ELSE Empty]

\* ... the file is cut, and the table and the reverse map follow.
CutFile ==
  /\ pc = "cut"
  /\ file' = SetLen(file, Len(file) - op.remove * SectorSize)
  /\ lut' = CutTable
  /\ sectors' = WithoutSectors(sectors, lut[op.pos].index + lut[op.pos].count - op.remove + 1, op.remove)
  /\ pc' = "prefix"
  /\ UNCHANGED <<diskLut, op, historyVars>>

\* The sector the new bytes start at.
Target == IF op.append THEN Len(sectors) ELSE lut[op.pos].index

NewBytes == Bytes(op.pos, saves, op.size)

WritePrefix ==
  /\ pc = "prefix"
  /\ file' = WriteAt(file, Offset(Target), SubSeq(NewBytes, 1, 1))
  /\ pc' = "payload"
  /\ UNCHANGED <<diskLut, handleVars, op, historyVars>>

WritePayload ==
  /\ pc = "payload"
  /\ file' = WriteAt(file, Offset(Target) + 1, SubSeq(NewBytes, 2, op.size))
  /\ pc' = IF op.append THEN "pad" ELSE "header"
  /\ UNCHANGED <<diskLut, handleVars, op, historyVars>>

\* pad_to_sector_size pads to a multiple of the sector size in the whole file.
Padded ==
  LET end == Offset(Target) + op.size
      missing == (SectorSize - (end % SectorSize)) % SectorSize
  IN  WriteAt(file, end, [i \in 1 .. missing |-> Zero])

\* Then the table and the reverse map get the appended block ...
PadAndRegister ==
  LET new == SectorCount(op.size)
  IN  /\ pc = "pad" /\ new <= MaxSectorCount
      /\ file' = Padded
      /\ lut' = [lut EXCEPT ![op.pos] = [index |-> Len(sectors), count |-> new]]
      /\ sectors' = sectors \o [i \in 1 .. new |-> op.pos]
      /\ pc' = "header"
      /\ UNCHANGED <<diskLut, op, historyVars>>

\* ... unless it has too many sectors for an entry: save_block returns the
\* error, and leaves the header on disk as it is.
RegisterFails ==
  /\ pc = "pad" /\ SectorCount(op.size) > MaxSectorCount
  /\ file' = Padded
  /\ saved' = Forgotten
  /\ failures' = failures + 1
  /\ pc' = "idle"
  /\ op' = NoOp
  /\ UNCHANGED <<diskLut, handleVars, saves, crashes>>

\* Mutant: the header is left to flush(), which finds it clean.
HeaderDeferred(t) == diskLut

HeaderOf(t) == t

\* save_header and flush; save_block returns Ok.
WriteHeader ==
  /\ pc = "header"
  /\ diskLut' = HeaderOf(lut)
  /\ file' = WriteAt(file, 0, [i \in 1 .. HeaderTail |-> HeaderByte])
  /\ saved' = [saved EXCEPT ![op.pos] = [save |-> saves, size |-> op.size]]
  /\ pc' = "idle"
  /\ op' = NoOp
  /\ UNCHANGED <<handleVars, saves, crashes, failures>>

SaveStep ==
  ShiftTail \/ CutFile \/ WritePrefix \/ WritePayload \/ PadAndRegister \/ RegisterFails \/ WriteHeader

-----------------------------------------------------------------------------
(* Opening.                                                                *)

PresentIn(t) == {p \in Blocks : Present(t, p)}

Span(t, p) == t[p].index .. t[p].index + t[p].count - 1

\* load_header and validate_lut: the header is whole, runs are inside the file
\* (whose last sector may be short) and do not overlap.
Opens(f, t) ==
  /\ Len(f) >= HeaderTail
  /\ \A p \in PresentIn(t) : t[p].index + t[p].count <= SectorCount(Len(f) - HeaderTail)
  /\ \A p, q \in PresentIn(t) : p # q => Span(t, p) \cap Span(t, q) = {}

\* rebuild_sectors: the blocks in the order of their sectors, each as often as
\* it has sectors; sectors that no block has are left out.
UsedSectors(t) == UNION {Span(t, p) : p \in PresentIn(t)}

RebuiltSectors(t) ==
  LET used == UsedSectors(t)
  IN  [k \in 1 .. Cardinality(used) |->
         CHOOSE p \in PresentIn(t) : \E i \in Span(t, p) : Cardinality({j \in used : j < i}) = k - 1]

Open ==
  /\ pc = "closed"
  /\ IF Opens(file, diskLut)
     THEN /\ lut' = diskLut
          /\ sectors' = RebuiltSectors(diskLut)
          /\ pc' = "idle"
     ELSE /\ pc' = "unreadable"
          /\ UNCHANGED handleVars
  /\ UNCHANGED <<file, diskLut, op, historyVars>>

\* The process dies inside save_block; what it wrote stays.
Crash ==
  /\ pc \notin {"idle", "closed", "unreadable"} /\ crashes < MaxCrashes
  /\ crashes' = crashes + 1
  /\ pc' = "closed"
  /\ saved' = Forgotten
  /\ op' = NoOp
  /\ UNCHANGED <<file, diskLut, handleVars, saves, failures>>

\* The handle is dropped between two saves.
Close ==
  /\ pc = "idle" /\ sectors # <<>>
  /\ pc' = "closed"
  /\ UNCHANGED <<file, diskLut, handleVars, op, historyVars>>

Next ==
  \/ \E p \in Blocks, size \in Sizes : BeginSave(p, size)
  \/ SaveStep \/ Open \/ Close \/ Crash

Spec == Init /\ [][Next]_vars

-----------------------------------------------------------------------------
(* Properties.                                                             *)

\* What load_block reads with the table t is the last save of p.
ReadsBack(f, t, p) ==
  LET size == saved[p].size
      at == Offset(t[p].index)
  IN  /\ Present(t, p)
      /\ size <= t[p].count * SectorSize
      /\ at + size <= Len(f)
      /\ SubSeq(f, at + 1, at + size) = Bytes(p, saved[p].save, size)

\* Blocks, sectors and the state of the save have their types; a save removes
\* only sectors the block has.
TypeOK ==
  /\ \A t \in {lut, diskLut} : t \in [Blocks -> [index : Nat, count : Nat]]
  /\ \A i \in DOMAIN sectors : sectors[i] \in Blocks
  /\ pc \in {"idle", "shift", "cut", "prefix", "payload", "pad", "header", "closed",
             "unreadable"}
  /\ op \in [pos : Blocks, size : Sizes \cup {0}, remove : Nat, append : BOOLEAN]
  /\ saved \in [Blocks -> [save : 0 .. MaxSaves, size : Sizes \cup {0}]]

\* SavedBlocksReadBack: between two saves, all blocks written long ago read back although the
\* blocks before them have come, grown, shrunk and moved since; a save that failed costs no
\* more than its own block and those behind it.
SavedBlocksReadBack ==
  pc = "idle" /\ crashes = 0 => \A p \in Blocks : saved[p] # Never => ReadsBack(file, lut, p)

Undisturbed == crashes = 0 /\ failures = 0

\* The table and the reverse map describe one layout: the sectors of a block
\* are those the map gives it, and the map has no others; between saves that
\* all ended well the table on disk is the one in memory.
LayoutExact ==
  /\ pc = "idle" =>
       \A p \in Blocks :
         {i \in DOMAIN sectors : sectors[i] = p}
           = IF Present(lut, p) THEN {i + 1 : i \in Span(lut, p)} ELSE {}
  /\ Undisturbed /\ pc = "idle" => diskLut = lut

\* A file whose saves all ended well opens again.
OpensAgain == Undisturbed => pc # "unreadable"

Secure(p) == saved[p] # Never /\ LeavesRoom(saved[p].size)

SecureBlocksReadBack ==
  pc = "idle" /\ crashes = 0 => \A p \in Blocks : Secure(p) => ReadsBack(file, lut, p)

\* While a block is appended or written in place, a reader of the table on
\* disk finds all the others: these saves need no recovery.
OthersReadBackInPlace ==
  pc \in {"prefix", "payload", "pad", "header"} /\ op.remove = 0 /\ crashes = 0 =>
    \A p \in Blocks \ {op.pos} : Secure(p) => ReadsBack(file, diskLut, p)

\* FileReadsBack: between two saves, every block that leaves room for the header's tail in its
\* last sector, written long ago, reads back although the blocks before it have come, grown,
\* shrunk and moved since; a failed save costs no more than its own block and those behind it;
\* while a block is appended or written in place, a reader of the table on disk finds all the
\* others; table, map of sectors and file are one layout, and an undisturbed file opens
\* (RegionFile::save_block, open).
FileReadsBack == SecureBlocksReadBack /\ OthersReadBackInPlace /\ LayoutExact /\ OpensAgain

=============================================================================
