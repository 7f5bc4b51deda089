------------------------ MODULE TerrainPagingProofs ------------------------
(***************************************************************************)
(* Theorems about terrain paging, for any blocks, viewers and boxes.  For  *)
(* every terrain: edits are not overwritten by loads.  For terrains with a *)
(* generator that stream: references are those of the viewers, and of      *)
(* retries; no block goes that is viewed; no viewer waits in vain.         *)
(***************************************************************************)
EXTENDS MCPagingViews, FiniteSetTheorems, TLAPS

-----------------------------------------------------------------------------
(* Bags, as sets of what is in them.                                       *)

LEMMA BagAfterAdd ==
  ASSUME NEW B, NEW x
  PROVE  BagToSet(BagAdd(B, x)) = BagToSet(B) \cup {x}
BY DEF BagAdd, BagToSet

LEMMA BagAfterRemove ==
  ASSUME NEW B, NEW x
  PROVE  /\ BagToSet(BagRemove(B, x)) \subseteq BagToSet(B)
         /\ BagToSet(B) \subseteq BagToSet(BagRemove(B, x)) \cup {x}
BY DEF BagRemove, BagToSet

LEMMA BagWithout == BagToSet(EmptyBag) = {}
BY DEF EmptyBag, BagToSet, SetToBag

LEMMA BagMembers == \A B, x : BagIn(x, B) <=> x \in BagToSet(B)
BY DEF BagIn

\* Bags stay bags.
LEMMA BagsAreBags ==
  /\ IsABag(EmptyBag)
  /\ \A B, x : IsABag(B) => IsABag(BagAdd(B, x)) /\ IsABag(BagRemove(B, x))
<1>1. IsABag(EmptyBag)
  BY DEF IsABag, EmptyBag, SetToBag
<1>2. ASSUME NEW B, NEW x, IsABag(B) PROVE IsABag(BagAdd(B, x)) /\ IsABag(BagRemove(B, x))
  BY <1>2 DEF IsABag, BagAdd, BagRemove
<1> QED BY <1>1, <1>2

-----------------------------------------------------------------------------
(* Types.  First those of the save journal.                                *)

LEMMA None0 == J!None = 0 /\ J!None \in J!Generations /\ J!Generations \subseteq Nat
BY PagingAssumption DEF J!None, J!Generations

LEMMA JFileType ==
  ASSUME J!TypeOK, NEW k \in Blocks, NEW e \in J!Entries, J!FileAndDispatch(k, e)
  PROVE  journal' \in [Blocks -> J!Entries] /\ queue' \subseteq J!TasksOf
<1>1. /\ journal \in [Blocks -> J!Entries] /\ queue \subseteq J!TasksOf
      /\ J!None \in J!Generations
  BY None0 DEF J!TypeOK
<1>2. J!Dispatched(e) \in J!Entries /\ J!SaveTask(k, e) \in J!TasksOf
  BY <1>1 DEF J!Entries, J!Dispatched, J!SaveTask, J!TasksOf
<1>3. CASE J!CanDispatch(e)
  BY <1>1, <1>2, <1>3 DEF J!FileAndDispatch
<1>4. CASE ~J!CanDispatch(e)
  BY <1>1, <1>4 DEF J!FileAndDispatch
<1> QED BY <1>3, <1>4

LEMMA JEnqueueType ==
  ASSUME J!TypeOK, NEW k \in Blocks, J!EnqueueDataSave(k)
  PROVE  /\ J!TypeOK' /\ nextGeneration \in 1 .. MaxGeneration
         /\ nextGeneration' = nextGeneration + 1
<1>1. nextGeneration \in 1 .. MaxGeneration /\ nextGeneration \in J!Generations
  BY PagingAssumption DEF J!TypeOK, J!EnqueueDataSave, J!Generations
<1>2. J!Filed(journal[k], nextGeneration) \in J!Entries
  BY <1>1 DEF J!TypeOK, J!Filed, J!Entries
<1>3. journal' \in [Blocks -> J!Entries] /\ queue' \subseteq J!TasksOf
  BY <1>2, JFileType DEF J!EnqueueDataSave
<1>4. nextGeneration' = nextGeneration + 1 /\ nextGeneration' \in 1 .. MaxGeneration + 1
  BY <1>1, PagingAssumption DEF J!EnqueueDataSave
<1>5. newest' \in [Blocks -> J!Generations]
  BY <1>1 DEF J!TypeOK, J!EnqueueDataSave
<1> QED BY <1>1, <1>3, <1>4, <1>5 DEF J!TypeOK, J!EnqueueDataSave, J!shutdownVars

LEMMA JApplyType ==
  ASSUME J!TypeOK, NEW o \in inbox, J!ApplySaveResponse(o)
  PROVE  J!TypeOK'
<1>1. o \in J!OutputsOf /\ o.key \in Blocks /\ journal[o.key] \in J!Entries
  BY DEF J!TypeOK, J!OutputsOf
<1> DEFINE c == [journal[o.key] EXCEPT !.inFlight = J!None]
<1>2. o.voxels \in J!Generations /\ o.dropped \in BOOLEAN
  BY <1>1 DEF J!OutputsOf
<1>3. c \in J!Entries /\ J!NoEntry \in J!Entries
  BY <1>1, None0 DEF J!Entries, J!NoEntry
<1>4. J!Restored(c, o) \in J!Entries
  <2> DEFINE voxels == IF c.voxels = J!None THEN o.voxels ELSE c.voxels
  <2>1. voxels \in J!Generations
    BY <1>2, <1>3 DEF J!Entries
  <2>2. (voxels # J!None) \in BOOLEAN
    OBVIOUS
  <2> HIDE DEF voxels, c
  <2>3. [c EXCEPT !.voxels = voxels, !.queued = voxels # J!None] \in J!Entries
    BY <1>3, <2>1, <2>2 DEF J!Entries
  <2> QED BY <2>3 DEF J!Restored, voxels
<1>5. J!AfterSave(c, o) \in J!Entries
  <2> HIDE DEF c
  <2> QED BY <1>2, <1>3, <1>4 DEF J!AfterSave
<1>6. journal' \in [Blocks -> J!Entries] /\ queue' \subseteq J!TasksOf
  <2>1. CASE J!IsInFlight(o)
    BY <1>1, <1>5, <2>1, JFileType DEF J!ApplySaveResponse
  <2>2. CASE ~J!IsInFlight(o)
    BY <2>2 DEF J!ApplySaveResponse, J!TypeOK
  <2> QED BY <2>1, <2>2
<1> QED BY <1>6 DEF J!TypeOK, J!ApplySaveResponse, J!shutdownVars, J!historyVars

LEMMA JSaveType ==
  ASSUME J!TypeOK, J!SaveStep
  PROVE  J!TypeOK' /\ nextGeneration' = nextGeneration
<1>1. PICK t \in queue \cup running :
        J!StartSave(t) \/ J!SaveSucceeds(t) \/ J!SaveFails(t) \/ J!SavePanics(t)
  BY DEF J!SaveStep
<1>2. t \in J!TasksOf /\ t.key \in Blocks /\ t.voxels \in J!Generations
      /\ t.generation \in J!Generations
  BY DEF J!TypeOK, J!TasksOf
<1>3. J!Output(t, TRUE) \in J!OutputsOf /\ J!Output(t, FALSE) \in J!OutputsOf
  BY <1>2, None0 DEF J!Output, J!OutputsOf
<1>4. J!MaybeStored(t) => stored' \in [Blocks -> J!Generations]
  BY <1>2 DEF J!MaybeStored, J!TypeOK
<1>5. CASE J!StartSave(t)
  BY <1>2, <1>5 DEF J!TypeOK, J!StartSave, J!journalVars, J!shutdownVars, J!historyVars
<1>6. CASE J!SaveSucceeds(t)
  BY <1>2, <1>3, <1>6 DEF J!TypeOK, J!SaveSucceeds, J!EndTask, J!journalVars, J!shutdownVars
<1>7. CASE J!SaveFails(t)
  <2>1. /\ completed' = completed \cup {J!Output(t, TRUE)} /\ running' \subseteq running
        /\ errors' = errors + 1 /\ stored' \in [Blocks -> J!Generations]
    BY <1>4, <1>7 DEF J!SaveFails, J!EndTask
  <2>2. UNCHANGED <<journal, nextGeneration, queue, inbox, newest>>
    BY <1>7 DEF J!SaveFails, J!EndTask, J!journalVars
  <2>3. running' \subseteq J!TasksOf /\ completed' \subseteq J!OutputsOf
    BY <1>3, <2>1 DEF J!TypeOK
  <2>4. errors' \in Nat
    BY <2>1 DEF J!TypeOK
  <2> QED BY <2>1, <2>2, <2>3, <2>4 DEF J!TypeOK
<1>8. CASE J!SavePanics(t)
  BY <1>4, <1>8 DEF J!TypeOK, J!SavePanics, J!EndTask, J!journalVars, J!shutdownVars
<1>9. nextGeneration' = nextGeneration
  BY <1>1 DEF J!StartSave, J!SaveSucceeds, J!SaveFails, J!SavePanics, J!EndTask, J!journalVars
<1> QED BY <1>1, <1>5, <1>6, <1>7, <1>8, <1>9

LEMMA JUnchangedType ==
  ASSUME J!TypeOK, UNCHANGED journalVars
  PROVE  J!TypeOK'
BY DEF J!TypeOK, journalVars

-----------------------------------------------------------------------------
(* Types of the paging state.                                              *)

LEMMA Updated ==
  ASSUME NEW S, NEW T, NEW f \in [S -> T], NEW x \in S, NEW y \in T
  PROVE  /\ [f EXCEPT ![x] = y] \in [S -> T]
         /\ [f EXCEPT ![x] = y][x] = y
         /\ \A z \in S \ {x} : [f EXCEPT ![x] = y][z] = f[z]
OBVIOUS

LEMMA NoBlockFields == NoBlock.viewers = -1 /\ NoBlock.edits = {} /\ NoBlock.modified = FALSE
BY DEF NoBlock

\* A resident block has the fields of a block.
LEMMA ResidentFields ==
  ASSUME TypeOK, NEW p \in Blocks
  PROVE  /\ blocks[p].edits \subseteq 1 .. MaxEdits /\ blocks[p].modified \in BOOLEAN
         /\ Resident(p) => blocks[p].viewers \in Nat
         /\ Resident(p) => blocks[p] \in [viewers : Nat, edits : SUBSET (1 .. MaxEdits),
                                          modified : BOOLEAN]
         /\ ~Resident(p) => blocks[p] = NoBlock /\ blocks[p].edits = {}
<1>1. blocks[p] \in BlockStates
  BY DEF TypeOK
<1>2. CASE Resident(p)
  <2>1. blocks[p] \in [viewers : Nat, edits : SUBSET (1 .. MaxEdits), modified : BOOLEAN]
    BY <1>1, <1>2 DEF BlockStates, Resident
  <2> QED BY <1>2, <2>1
<1>3. CASE ~Resident(p)
  BY <1>3, NoBlockFields DEF Resident
<1> QED BY <1>2, <1>3

\* A record with the fields of a block is resident.
LEMMA BlocksAreNotNoBlock ==
  ASSUME NEW b \in [viewers : Nat, edits : SUBSET (1 .. MaxEdits), modified : BOOLEAN]
  PROVE  b # NoBlock /\ b \in BlockStates
<1>1. b.viewers \in Nat
  OBVIOUS
<1> QED BY <1>1, NoBlockFields DEF BlockStates

\* The types of the maps.
LEMMA Maps ==
  ASSUME TypeOK
  PROVE  /\ blocks \in [Blocks -> BlockStates] /\ loading \in [Blocks -> Nat]
         /\ pending \in [Blocks -> Nat] /\ requests \in [Blocks -> Nat]
         /\ filed \in [1 .. MaxGeneration -> SUBSET (1 .. MaxEdits)]
         /\ acked \in [Blocks -> SUBSET (1 .. MaxEdits)]
BY DEF TypeOK

LEMMA TypeInit == Init => TypeOK
<1> SUFFICES ASSUME Init PROVE TypeOK
  OBVIOUS
<1>1. J!TypeOK
  <2>1. J!NoEntry \in J!Entries
    BY None0 DEF J!NoEntry, J!Entries
  <2> QED BY <2>1, None0, PagingAssumption DEF Init, J!Init, J!TypeOK
<1>2. blocks \in [Blocks -> BlockStates]
  BY DEF Init, BlockStates
<1>3. loading \in [Blocks -> Nat] /\ pending \in [Blocks -> Nat] /\ requests \in [Blocks -> Nat]
  BY DEF Init, Nowhere
<1>4. \A b \in {results, loaded, loadInbox} : IsABag(b) /\ BagToSet(b) \subseteq Results
  BY BagsAreBags, BagWithout DEF Init
<1>5. ranges \in [Viewers -> Ranges]
  BY PagingAssumption DEF Init
<1>6. /\ filed \in [1 .. MaxGeneration -> SUBSET (1 .. MaxEdits)]
      /\ acked \in [Blocks -> SUBSET (1 .. MaxEdits)]
  BY DEF Init
<1>7. loadErrors \in 0 .. MaxLoadErrors /\ loadPanics \in 0 .. MaxLoadPanics /\ stranded \subseteq Blocks
  BY PagingAssumption DEF Init
<1>8. unviews = {} /\ views = {} /\ step = "idle"
  BY DEF Init
<1> QED BY <1>1, <1>2, <1>3, <1>4, <1>5, <1>6, <1>7, <1>8 DEF TypeOK

LEMMA TypeDrain == TypeOK /\ Drain => TypeOK'
<1> SUFFICES ASSUME TypeOK, Drain PROVE TypeOK'
  OBVIOUS
<1>1. J!TypeOK'
  BY DEF TypeOK, J!TypeOK, Drain
<1>2. \A b \in {results', loaded', loadInbox'} : IsABag(b) /\ BagToSet(b) \subseteq Results
  BY BagsAreBags, BagWithout DEF TypeOK, Drain
<1>3. unviews' = {} /\ views' = {} /\ step' \in {"idle", "started", "meshing"}
  BY DEF TypeOK, Drain
<1>4. UNCHANGED <<blocks, waitVars, requests, loadErrors, loadPanics, ranges, filed, acked>>
  BY DEF Drain
<1> QED BY <1>1, <1>2, <1>3, <1>4 DEF TypeOK, Results, waitVars

LEMMA TypePair ==
  ASSUME TypeOK, NEW r \in [Viewers -> Ranges], PairViewers(r)
  PROVE  TypeOK'
<1>1. J!TypeOK'
  BY JUnchangedType DEF TypeOK, PairViewers
<1>2. ranges' \in [Viewers -> Ranges] /\ step' = "paging"
      /\ unviews' \subseteq Viewers \X Blocks /\ views' \subseteq Viewers \X Blocks
  BY DEF PairViewers, Entered
<1> QED BY <1>1, <1>2 DEF TypeOK, PairViewers, taskVars, waitVars, Results

\* An unview types the block, its entry and what is filed of it.
LEMMA TypeUnview ==
  ASSUME TypeOK, NEW v \in Viewers, NEW p \in Blocks, Unview(v, p)
  PROVE  TypeOK'
<1>0. \A n \in Nat : Released(n) \in Nat
  BY DEF Released
<1>1. /\ J!TypeOK' /\ blocks' \in [Blocks -> BlockStates]
      /\ loading' \in [Blocks -> Nat] /\ pending' \in [Blocks -> Nat] /\ stranded' \subseteq stranded
      /\ filed' \in [1 .. MaxGeneration -> SUBSET (1 .. MaxEdits)]
  <2>1. CASE ~Resident(p)
    <3>1. UnviewMissing(p)
      BY <2>1 DEF Unview
    <3>2. J!TypeOK'
      BY <3>1, JUnchangedType DEF UnviewMissing, TypeOK
    <3> QED BY <3>1, <3>2, <1>0, Maps DEF UnviewMissing, StrandedWaits
  <2>2. CASE Resident(p) /\ KeepsViewers(p)
    <3>1. [blocks[p] EXCEPT !.viewers = Released(@)] \in BlockStates
      BY <2>2, <1>0, ResidentFields DEF BlockStates
    <3>2. blocks' = [blocks EXCEPT ![p] = [blocks[p] EXCEPT !.viewers = Released(@)]]
          /\ UNCHANGED <<journalVars, waitVars, filed>>
      BY <2>2 DEF Unview, UnviewResident
    <3>3. blocks' \in [Blocks -> BlockStates]
      BY <3>1, <3>2, Updated DEF TypeOK
    <3> QED BY <3>2, <3>3, JUnchangedType DEF TypeOK, waitVars
  <2>3. CASE Resident(p) /\ ~KeepsViewers(p)
    <3>1. /\ SaveUnloaded(p) /\ blocks' = [blocks EXCEPT ![p] = NoBlock]
          /\ loading' = [loading EXCEPT ![p] = 0] /\ pending' = [pending EXCEPT ![p] = 0]
          /\ stranded' \subseteq stranded
      BY <2>3 DEF Unview, UnviewResident, StrandedWaits
    <3>2. NoBlock \in BlockStates
      BY DEF BlockStates
    <3>3. J!TypeOK' /\ filed' \in [1 .. MaxGeneration -> SUBSET (1 .. MaxEdits)]
      <4>1. CASE blocks[p].modified
        <5>1. J!TypeOK' /\ nextGeneration \in 1 .. MaxGeneration
          BY <3>1, <4>1, JEnqueueType DEF SaveUnloaded, TypeOK
        <5>2. filed' = [filed EXCEPT ![nextGeneration] = blocks[p].edits]
          BY <3>1, <4>1 DEF SaveUnloaded
        <5> QED BY <5>1, <5>2, ResidentFields DEF TypeOK
      <4>2. CASE ~blocks[p].modified
        BY <3>1, <4>2, JUnchangedType DEF SaveUnloaded, TypeOK
      <4> QED BY <4>1, <4>2
    <3> QED BY <3>1, <3>2, <3>3 DEF TypeOK
  <2> QED BY <2>1, <2>2, <2>3
<1>2. /\ UNCHANGED <<requests, results, loaded, loadInbox, loadErrors, loadPanics, ranges, views, step,
                     acked>>
      /\ unviews' \subseteq unviews /\ step = "paging"
  BY DEF Unview, taskVars
<1> QED BY <1>1, <1>2 DEF TypeOK, Results

LEMMA TypeView ==
  ASSUME TypeOK, NEW v \in Viewers, NEW p \in Blocks, View(v, p)
  PROVE  TypeOK'
<1>1. /\ blocks' \in [Blocks -> BlockStates]
      /\ loading' \in [Blocks -> Nat] /\ pending' \in [Blocks -> Nat] /\ UNCHANGED stranded
  <2>1. CASE Resident(p)
    <3>1. [blocks[p] EXCEPT !.viewers = @ + 1] \in BlockStates
      BY <2>1, ResidentFields DEF BlockStates
    <3>2. blocks' = [blocks EXCEPT ![p] = [blocks[p] EXCEPT !.viewers = @ + 1]]
          /\ UNCHANGED <<loading, pending, stranded>>
      BY <2>1 DEF View, waitVars
    <3>3. blocks' \in [Blocks -> BlockStates]
      BY <3>1, <3>2, Updated DEF TypeOK
    <3> QED BY <3>2, <3>3 DEF TypeOK
  <2>2. CASE ~Resident(p)
    BY <2>2, Maps DEF View, ViewMissing, OneMoreViewer
  <2> QED BY <2>1, <2>2
<1>2. /\ UNCHANGED <<journalVars, requests, results, loaded, loadInbox, loadErrors, loadPanics, ranges,
                     unviews, step, filed, acked>>
      /\ views' \subseteq views /\ step = "paging"
  BY DEF View, taskVars
<1> QED BY <1>1, <1>2, JUnchangedType DEF TypeOK, Results

LEMMA TypeSend == TypeOK /\ SendDataLoadRequests => TypeOK'
<1> SUFFICES ASSUME TypeOK, SendDataLoadRequests PROVE TypeOK'
  OBVIOUS
<1>1. requests' \in [Blocks -> Nat] /\ pending' \in [Blocks -> Nat]
  BY Maps DEF SendDataLoadRequests, Nowhere
<1>2. /\ UNCHANGED <<journalVars, blocks, loading, stranded, results, loaded, loadInbox, loadErrors,
                     loadPanics, ranges, unviews, views, filed, acked>>
      /\ step' = "sent" /\ unviews = {} /\ views = {}
  BY DEF SendDataLoadRequests
<1> QED BY <1>1, <1>2, JUnchangedType DEF TypeOK, Results

\* The outputs of loads name a block and voxels there may be.
LEMMA OutputFields ==
  ASSUME TypeOK, NEW o \in Results
  PROVE  /\ o.pos \in Blocks /\ o.kind \in Kinds /\ o.voxels \in 0 .. MaxGeneration
BY DEF Results

\* What taking an output out of the inbox leaves alone.
LEMMA TypeTake ==
  ASSUME TypeOK, NEW o, TakeOutput(o),
         blocks' \in [Blocks -> BlockStates],
         loading' \in [Blocks -> Nat], pending' \in [Blocks -> Nat], stranded' \subseteq stranded
  PROVE  TypeOK' /\ o \in Results
<1>1. /\ IsABag(loadInbox') /\ BagToSet(loadInbox') \subseteq Results /\ o \in Results
  BY BagsAreBags, BagAfterRemove, BagMembers DEF TypeOK, TakeOutput
<1>2. UNCHANGED <<journalVars, requests, results, loaded, loadErrors, loadPanics, ranges, unviews, views,
                  step, filed, acked>>
  BY DEF TakeOutput, frameVars
<1> QED BY <1>1, <1>2, JUnchangedType DEF TypeOK, Results

LEMMA VoxelsOfALoad ==
  ASSUME TypeOK, NEW g \in 0 .. MaxGeneration
  PROVE  EditsIn(g) \subseteq 1 .. MaxEdits
<1>1. filed \in [1 .. MaxGeneration -> SUBSET (1 .. MaxEdits)]
  BY Maps
<1>2. g # 0 => g \in 1 .. MaxGeneration
  OBVIOUS
<1> QED BY <1>1, <1>2 DEF EditsIn

LEMMA LoadedBlock ==
  ASSUME TypeOK, NEW o \in Results
  PROVE  [viewers |-> ViewersOnLoad(o.pos), edits |-> EditsIn(o.voxels), modified |-> FALSE]
           \in [viewers : Nat, edits : SUBSET (1 .. MaxEdits), modified : BOOLEAN]
<1>1. EditsIn(o.voxels) \in SUBSET (1 .. MaxEdits)
  BY OutputFields, VoxelsOfALoad
<1>2. ViewersOnLoad(o.pos) \in Nat
  BY OutputFields, Maps DEF ViewersOnLoad
<1> QED BY <1>1, <1>2

LEMMA TypeResponse == TypeOK /\ ApplyDataBlockResponse => TypeOK'
<1> SUFFICES ASSUME TypeOK, NEW o, ApplyLoaded(o) \/ ApplyDropped(o) \/ ApplyNotFound(o)
             PROVE  TypeOK'
  BY DEF ApplyDataBlockResponse
<1>0. TakeOutput(o) /\ o \in Results /\ o.pos \in Blocks
  BY OutputFields, BagMembers DEF ApplyLoaded, ApplyDropped, ApplyNotFound, TakeOutput, TypeOK
<1>1. CASE ApplyLoaded(o)
  <2>1. blocks' \in [Blocks -> BlockStates]
    <3> DEFINE new == [viewers |-> ViewersOnLoad(o.pos), edits |-> EditsIn(o.voxels),
                       modified |-> FALSE]
    <3>1. new \in BlockStates
      BY <1>0, LoadedBlock, BlocksAreNotNoBlock
    <3>2. blocks' = blocks \/ blocks' = [blocks EXCEPT ![o.pos] = new]
      BY <1>1 DEF ApplyLoaded
    <3> HIDE DEF new
    <3>3. blocks \in [Blocks -> BlockStates]
      BY Maps
    <3>4. [blocks EXCEPT ![o.pos] = new] \in [Blocks -> BlockStates]
      BY <1>0, <3>1, <3>3, Updated
    <3> QED BY <3>2, <3>3, <3>4
  <2>2. loading' \in [Blocks -> Nat] /\ pending' \in [Blocks -> Nat] /\ stranded' \subseteq stranded
    BY <1>0, <1>1, Maps DEF ApplyLoaded, StrandedWaits
  <2> QED BY <1>0, <2>1, <2>2, TypeTake
<1>2. CASE ApplyDropped(o)
  <2>1. loading' \in [Blocks -> Nat] /\ pending' \in [Blocks -> Nat] /\ blocks' = blocks
    <3>1. /\ loading[o.pos] + RetryWeight \in Nat /\ pending[o.pos] + 1 \in Nat
          /\ blocks' = blocks
      BY <1>0, <1>2, Maps, PagingAssumption DEF ApplyDropped
    <3>2. CASE MayRetry(o.pos)
      BY <1>0, <1>2, <3>1, <3>2, Maps DEF ApplyDropped
    <3>3. CASE ~MayRetry(o.pos)
      BY <1>2, <3>1, <3>3, Maps DEF ApplyDropped
    <3> QED BY <3>1, <3>2, <3>3
  <2>2. UNCHANGED stranded
    BY <1>2 DEF ApplyDropped
  <2> QED BY <1>0, <2>1, <2>2, Maps, TypeTake
<1>3. CASE ApplyNotFound(o)
  <2>1. loading' \in [Blocks -> Nat] /\ pending' \in [Blocks -> Nat] /\ blocks' = blocks
        /\ stranded' \subseteq stranded
    BY <1>0, <1>3, Maps DEF ApplyNotFound, StrandedWaits
  <2> QED BY <1>0, <2>1, Maps, TypeTake
<1> QED BY <1>1, <1>2, <1>3

LEMMA TypeSaveResponse == TypeOK /\ ApplySaveResponse => TypeOK' /\ nextGeneration' = nextGeneration
<1> SUFFICES ASSUME TypeOK, NEW o \in inbox, J!ApplySaveResponse(o),
                    UNCHANGED <<blocks, waitVars, taskVars, frameVars, filed, acked>>
             PROVE  TypeOK' /\ nextGeneration' = nextGeneration
  BY DEF ApplySaveResponse
<1>1. J!TypeOK' /\ nextGeneration' = nextGeneration
  BY JApplyType DEF TypeOK, J!ApplySaveResponse
<1> QED BY <1>1 DEF TypeOK, taskVars, waitVars, frameVars, Results

LEMMA TypeSaveStep == TypeOK /\ SaveStep => TypeOK' /\ nextGeneration' = nextGeneration
<1> SUFFICES ASSUME TypeOK, J!SaveStep,
                    UNCHANGED <<blocks, waitVars, taskVars, frameVars, filed, acked>>
             PROVE  TypeOK' /\ nextGeneration' = nextGeneration
  BY DEF SaveStep
<1>1. J!TypeOK' /\ nextGeneration' = nextGeneration
  BY JSaveType DEF TypeOK
<1> QED BY <1>1 DEF TypeOK, taskVars, waitVars, frameVars, Results

\* A load that reads the stream.
LEMMA TypeRead ==
  ASSUME TypeOK, NEW p \in Blocks, NEW kind \in Kinds, NEW g \in 0 .. MaxGeneration,
         Read(p, kind, g), loadErrors' \in 0 .. MaxLoadErrors
  PROVE  TypeOK'
<1>1. requests' \in [Blocks -> Nat]
  BY Maps DEF Read
<1>2. [pos |-> p, kind |-> kind, voxels |-> g] \in Results
  BY DEF Results
<1>3. IsABag(results') /\ BagToSet(results') \subseteq Results
  BY <1>2, BagsAreBags, BagAfterAdd DEF Read, TypeOK
<1>4. UNCHANGED <<journalVars, blocks, loading, pending, stranded, loaded, loadInbox, loadPanics, ranges,
                  unviews, views, step, filed, acked>>
  BY DEF Read, waitVars, frameVars
<1> QED BY <1>1, <1>3, <1>4, JUnchangedType DEF TypeOK, Results

LEMMA TypeLoadSucceeds == TypeOK /\ LoadSucceeds => TypeOK'
<1> SUFFICES ASSUME TypeOK, NEW p \in Blocks, LoadFound(p) \/ LoadGenerated(p) \/ LoadNotFound(p)
             PROVE  TypeOK'
  BY DEF LoadSucceeds
<1>1. stored[p] \in 0 .. MaxGeneration /\ 0 \in 0 .. MaxGeneration
  BY PagingAssumption DEF TypeOK, J!TypeOK, J!Generations
<1>2. loadErrors' \in 0 .. MaxLoadErrors
  BY DEF LoadFound, LoadGenerated, LoadNotFound, TypeOK
<1>3. \E kind \in Kinds : \E g \in 0 .. MaxGeneration : Read(p, kind, g)
  BY <1>1 DEF LoadFound, LoadGenerated, LoadNotFound, Kinds
<1> QED BY <1>2, <1>3, TypeRead

LEMMA TypeLoadFails == ASSUME TypeOK, NEW p \in Blocks, LoadFails(p) PROVE TypeOK'
<1>1. loadErrors' \in 0 .. MaxLoadErrors
  BY PagingAssumption DEF LoadFails, TypeOK
<1>2. Read(p, "dropped", 0) /\ 0 \in 0 .. MaxGeneration /\ "dropped" \in Kinds
  BY PagingAssumption DEF LoadFails, Kinds
<1> QED BY <1>1, <1>2, TypeRead

\* A load that panics.
LEMMA TypeLoadPanics == ASSUME TypeOK, NEW p \in Blocks, LoadPanics(p) PROVE TypeOK'
<1>1. requests' \in [Blocks -> Nat]
  BY Maps DEF LoadPanics
<1>2. loadPanics' \in 0 .. MaxLoadPanics /\ stranded' \subseteq Blocks
  BY PagingAssumption DEF LoadPanics, TypeOK
<1>3. UNCHANGED <<journalVars, blocks, loading, pending, results, loaded, loadInbox, loadErrors, ranges,
                  unviews, views, step, filed, acked>>
  BY DEF LoadPanics, frameVars
<1> QED BY <1>1, <1>2, <1>3, JUnchangedType DEF TypeOK, Results

LEMMA TypeLoadEnds == TypeOK /\ LoadEnds => TypeOK'
<1> SUFFICES ASSUME TypeOK, NEW o, CompleteLoad(o)
             PROVE  TypeOK'
  BY DEF LoadEnds
<1>1. \A b \in {results', loaded', loadInbox'} : IsABag(b) /\ BagToSet(b) \subseteq Results
  BY BagsAreBags, BagMembers, BagAfterAdd, BagAfterRemove DEF CompleteLoad, TypeOK
<1>2. UNCHANGED <<journalVars, blocks, loading, pending, stranded, requests, loadErrors, loadPanics,
                  ranges, unviews, views, step, filed, acked>>
  BY DEF CompleteLoad, waitVars, frameVars
<1> QED BY <1>1, <1>2, JUnchangedType DEF TypeOK, Results

\* Edits are numbered from 1.
LEMMA EditNumbers ==
  ASSUME TypeOK
  PROVE  Cardinality(UNION {acked[q] : q \in Blocks}) \in Nat
<1>1. UNION {acked[q] : q \in Blocks} \subseteq 1 .. MaxEdits
  BY Maps
<1>2. IsFiniteSet(1 .. MaxEdits)
  BY FS_Interval, PagingAssumption
<1> QED BY <1>1, <1>2, FS_Subset, FS_CardinalityType

LEMMA TypeEdit ==
  ASSUME TypeOK, NEW p \in Blocks, TryEditVoxel(p)
  PROVE  /\ TypeOK' /\ \E edit \in 1 .. MaxEdits :
              /\ acked' = [acked EXCEPT ![p] = @ \cup {edit}]
              /\ blocks' \in [Blocks -> BlockStates]
              /\ \A q \in Blocks \ {p} : blocks'[q] = blocks[q]
              /\ Resident(p)' /\ blocks'[p].modified = TRUE
              /\ blocks'[p].edits = blocks[p].edits \cup {edit}
              /\ blocks'[p].viewers = IF Resident(p) THEN blocks[p].viewers ELSE 0
<1> DEFINE edit == Cardinality(UNION {acked[q] : q \in Blocks}) + 1
           old == Materialized(p)
           new == [old EXCEPT !.edits = @ \cup {edit}, !.modified = TRUE]
<1>1. edit \in 1 .. MaxEdits
  BY EditNumbers, PagingAssumption DEF TryEditVoxel
<1>2. /\ old \in [viewers : Nat, edits : SUBSET (1 .. MaxEdits), modified : BOOLEAN]
      /\ old.edits = blocks[p].edits
      /\ old.viewers = IF Resident(p) THEN blocks[p].viewers ELSE 0
  BY ResidentFields DEF Materialized
<1>3. /\ blocks' = [blocks EXCEPT ![p] = new]
      /\ acked' = [acked EXCEPT ![p] = @ \cup {edit}]
      /\ UNCHANGED <<journalVars, loading, pending, stranded, taskVars, frameVars, filed>>
  BY DEF TryEditVoxel, waitVars
<1> HIDE DEF edit, old
<1>4. /\ new \in [viewers : Nat, edits : SUBSET (1 .. MaxEdits), modified : BOOLEAN]
      /\ new.modified = TRUE /\ new.viewers = old.viewers
      /\ new.edits = old.edits \cup {edit}
  BY <1>1, <1>2
<1> HIDE DEF new
<1>5. new \in BlockStates /\ new # NoBlock
  BY <1>4, BlocksAreNotNoBlock
<1>6. /\ blocks' \in [Blocks -> BlockStates] /\ blocks'[p] = new
      /\ \A q \in Blocks \ {p} : blocks'[q] = blocks[q]
  BY <1>3, <1>5, Updated, Maps
<1>7. acked' \in [Blocks -> SUBSET (1 .. MaxEdits)]
  BY <1>1, <1>3, Maps
<1>8. TypeOK'
  BY <1>3, <1>6, <1>7, JUnchangedType DEF TypeOK, taskVars, frameVars, Results
<1> QED BY <1>1, <1>2, <1>3, <1>4, <1>5, <1>6, <1>8 DEF Resident

LEMMA TypeStutter == TypeOK /\ UNCHANGED vars => TypeOK'
<1> SUFFICES ASSUME TypeOK, UNCHANGED vars PROVE TypeOK'
  OBVIOUS
<1>1. J!TypeOK'
  BY JUnchangedType DEF TypeOK, vars
<1> QED BY <1>1 DEF TypeOK, vars, taskVars, waitVars, frameVars, Results

LEMMA TypeNext == TypeOK /\ [Next]_vars => TypeOK'
BY TypeDrain, TypePair, TypeUnview, TypeView, TypeSend, TypeResponse, TypeSaveResponse,
   TypeLoadSucceeds, TypeLoadFails, TypeLoadPanics, TypeLoadEnds, TypeSaveStep, TypeEdit, TypeStutter DEF Next

\* TerrainPaging!TypeOK holds of every terrain; what unloading and view
\* release never goes below zero, and a frame ends its views before it goes on.
THEOREM TypeCorrect == Spec => []TypeOK
BY TypeInit, TypeNext, PTL DEF Spec

-----------------------------------------------------------------------------
(* No edit is overwritten in memory: loads do not replace a block, and what *)
(* is unloaded goes to a generation of its own, or is in one already.       *)

AllFiled == UNION {filed[g] : g \in 1 .. MaxGeneration}

\* The generations to come have no voxels yet: none is filed over.
FiledAreNew == \A g \in 1 .. MaxGeneration : g >= nextGeneration => filed[g] = {}

\* What an unmodified block contains was read, so it had been filed.
UnmodifiedIsFiled ==
  \A p \in Blocks : ~blocks[p].modified => blocks[p].edits \subseteq AllFiled

AckedIsKept == \A p \in Blocks : acked[p] \subseteq blocks[p].edits \cup AllFiled

KeptInv == TypeOK /\ FiledAreNew /\ UnmodifiedIsFiled /\ AckedIsKept

LEMMA KeptInit == Init => KeptInv
<1> SUFFICES ASSUME Init PROVE FiledAreNew /\ UnmodifiedIsFiled /\ AckedIsKept
  BY TypeInit DEF KeptInv
<1> QED BY NoBlockFields DEF Init, FiledAreNew, UnmodifiedIsFiled, AckedIsKept

\* The blocks, the edits and what is filed stay.
LEMMA KeptSame ==
  ASSUME KeptInv, TypeOK', UNCHANGED <<blocks, filed, acked, nextGeneration>>
  PROVE  KeptInv'
BY DEF KeptInv, FiledAreNew, UnmodifiedIsFiled, AckedIsKept, AllFiled

\* Blocks that only change their viewers keep their edits.
LEMMA KeptBlocks ==
  ASSUME KeptInv, TypeOK', UNCHANGED <<filed, acked, nextGeneration>>,
         \A p \in Blocks : \/ /\ blocks'[p].edits = blocks[p].edits
                              /\ blocks'[p].modified = blocks[p].modified
                           \/ /\ blocks[p].edits \subseteq AllFiled
                              /\ blocks'[p].edits \subseteq AllFiled
  PROVE  KeptInv'
<1>1. FiledAreNew' /\ AllFiled' = AllFiled
  BY DEF KeptInv, FiledAreNew, AllFiled
<1>2. UnmodifiedIsFiled'
  BY <1>1 DEF KeptInv, UnmodifiedIsFiled
<1>3. AckedIsKept'
  BY <1>1 DEF KeptInv, AckedIsKept
<1> QED BY <1>1, <1>2, <1>3 DEF KeptInv

\* The unload of a modified block: its generation had no voxels.
LEMMA KeptUnload ==
  ASSUME KeptInv, NEW p \in Blocks, Resident(p), SaveUnloaded(p),
         blocks' = [blocks EXCEPT ![p] = NoBlock], TypeOK', UNCHANGED acked
  PROVE  KeptInv'
<1>1. /\ AllFiled \subseteq AllFiled' /\ blocks[p].edits \subseteq AllFiled' /\ FiledAreNew'
  <2>1. CASE blocks[p].modified
    <3>1. /\ nextGeneration \in 1 .. MaxGeneration /\ nextGeneration' = nextGeneration + 1
      BY <2>1, JEnqueueType DEF SaveUnloaded, KeptInv, TypeOK
    <3>2. filed' = [filed EXCEPT ![nextGeneration] = blocks[p].edits]
      BY <2>1 DEF SaveUnloaded
    <3>3. filed[nextGeneration] = {}
      BY <3>1 DEF KeptInv, FiledAreNew
    <3>4. \A g \in 1 .. MaxGeneration :
            filed'[g] = IF g = nextGeneration THEN blocks[p].edits ELSE filed[g]
      BY <3>1, <3>2, Maps DEF KeptInv
    <3>5. AllFiled \subseteq AllFiled' /\ blocks[p].edits \subseteq AllFiled'
      BY <3>1, <3>3, <3>4 DEF AllFiled
    <3>6. FiledAreNew'
      BY <3>1, <3>4 DEF KeptInv, FiledAreNew
    <3> QED BY <3>5, <3>6
  <2>2. CASE ~blocks[p].modified
    <3>1. UNCHANGED <<filed, nextGeneration>>
      BY <2>2 DEF SaveUnloaded, journalVars
    <3> QED BY <2>2, <3>1 DEF KeptInv, FiledAreNew, UnmodifiedIsFiled, AllFiled
  <2> QED BY <2>1, <2>2
<1>2. \A q \in Blocks : blocks'[q] = IF q = p THEN NoBlock ELSE blocks[q]
  BY Maps DEF KeptInv
<1>3. UnmodifiedIsFiled'
  BY <1>1, <1>2, NoBlockFields DEF KeptInv, UnmodifiedIsFiled
<1>4. AckedIsKept'
  BY <1>1, <1>2 DEF KeptInv, AckedIsKept
<1> QED BY <1>1, <1>3, <1>4 DEF KeptInv

LEMMA KeptUnview ==
  ASSUME KeptInv, NEW v \in Viewers, NEW p \in Blocks, Unview(v, p)
  PROVE  KeptInv'
<1>0. TypeOK' /\ TypeOK /\ UNCHANGED acked
  BY TypeUnview DEF KeptInv, Unview
<1>1. CASE ~Resident(p)
  BY <1>0, <1>1, KeptSame DEF Unview, UnviewMissing, journalVars
<1>2. CASE Resident(p) /\ KeepsViewers(p)
  <2>1. /\ blocks' = [blocks EXCEPT ![p] = [blocks[p] EXCEPT !.viewers = Released(@)]]
        /\ UNCHANGED <<nextGeneration, filed>>
    BY <1>2 DEF Unview, UnviewResident, journalVars
  <2>2. LET b == [blocks[p] EXCEPT !.viewers = Released(@)]
        IN  b.edits = blocks[p].edits /\ b.modified = blocks[p].modified
    BY <1>0, <1>2, ResidentFields
  <2>3. \A q \in Blocks : blocks'[q].edits = blocks[q].edits
                          /\ blocks'[q].modified = blocks[q].modified
    BY <1>0, <2>1, <2>2, Maps
  <2> QED BY <1>0, <2>1, <2>3, KeptBlocks
<1>3. CASE Resident(p) /\ ~KeepsViewers(p)
  BY <1>0, <1>3, KeptUnload DEF Unview, UnviewResident
<1> QED BY <1>1, <1>2, <1>3

LEMMA KeptView ==
  ASSUME KeptInv, NEW v \in Viewers, NEW p \in Blocks, View(v, p)
  PROVE  KeptInv'
<1>0. TypeOK' /\ TypeOK /\ UNCHANGED <<acked, nextGeneration, filed>>
  BY TypeView DEF KeptInv, View, journalVars
<1>1. CASE ~Resident(p)
  BY <1>0, <1>1, KeptSame DEF View, ViewMissing
<1>2. CASE Resident(p)
  <2>1. blocks' = [blocks EXCEPT ![p] = [blocks[p] EXCEPT !.viewers = @ + 1]]
    BY <1>2 DEF View
  <2>2. LET b == [blocks[p] EXCEPT !.viewers = @ + 1]
        IN  b.edits = blocks[p].edits /\ b.modified = blocks[p].modified
    BY <1>0, <1>2, ResidentFields
  <2>3. \A q \in Blocks : blocks'[q].edits = blocks[q].edits
                          /\ blocks'[q].modified = blocks[q].modified
    BY <1>0, <2>1, <2>2, Maps
  <2> QED BY <1>0, <2>3, KeptBlocks
<1> QED BY <1>1, <1>2

\* A loaded block takes the place of none.
LEMMA KeptResponse == KeptInv /\ ApplyDataBlockResponse => KeptInv'
<1> SUFFICES ASSUME KeptInv, NEW o, ApplyLoaded(o) \/ ApplyDropped(o) \/ ApplyNotFound(o),
                    TypeOK'
             PROVE  KeptInv'
  BY TypeResponse DEF ApplyDataBlockResponse, KeptInv
<1>0. /\ TypeOK /\ o \in Results /\ o.pos \in Blocks
      /\ UNCHANGED <<acked, nextGeneration, filed>>
  BY OutputFields, BagMembers
     DEF ApplyLoaded, ApplyDropped, ApplyNotFound, TakeOutput, TypeOK, KeptInv, journalVars
<1>1. CASE ApplyLoaded(o)
  <2>1. CASE loading[o.pos] > 0 /\ MayInsert(o.pos)
    <3> DEFINE new == [viewers |-> ViewersOnLoad(o.pos), edits |-> EditsIn(o.voxels),
                       modified |-> FALSE]
    <3>1. blocks' = [blocks EXCEPT ![o.pos] = new]
      BY <1>1, <2>1 DEF ApplyLoaded
    <3>2. new.edits \subseteq AllFiled
      BY <1>0, OutputFields DEF EditsIn, AllFiled
    <3>3. blocks[o.pos].edits = {}
      BY <1>0, <2>1, ResidentFields DEF MayInsert
    <3> HIDE DEF new
    <3>4. \A q \in Blocks : blocks'[q] = IF q = o.pos THEN new ELSE blocks[q]
      BY <1>0, <3>1, Maps
    <3> QED BY <1>0, <3>2, <3>3, <3>4, KeptBlocks
  <2>2. CASE ~(loading[o.pos] > 0 /\ MayInsert(o.pos))
    BY <1>0, <1>1, <2>2, KeptSame DEF ApplyLoaded
  <2> QED BY <2>1, <2>2
<1>2. CASE ApplyDropped(o) \/ ApplyNotFound(o)
  BY <1>0, <1>2, KeptSame DEF ApplyDropped, ApplyNotFound
<1> QED BY <1>1, <1>2

LEMMA KeptEdit == ASSUME KeptInv, NEW p \in Blocks, TryEditVoxel(p) PROVE KeptInv'
<1>0. TypeOK /\ TypeOK'
  BY TypeEdit DEF KeptInv
<1>1. PICK edit \in 1 .. MaxEdits :
        /\ acked' = [acked EXCEPT ![p] = @ \cup {edit}]
        /\ \A q \in Blocks \ {p} : blocks'[q] = blocks[q]
        /\ blocks'[p].modified = TRUE /\ blocks'[p].edits = blocks[p].edits \cup {edit}
  BY <1>0, TypeEdit
<1>2. UNCHANGED <<nextGeneration, filed>>
  BY DEF TryEditVoxel, journalVars
<1>3. AllFiled' = AllFiled /\ FiledAreNew'
  BY <1>2 DEF AllFiled, FiledAreNew, KeptInv
<1>4. \A q \in Blocks : acked'[q] = IF q = p THEN acked[p] \cup {edit} ELSE acked[q]
  BY <1>0, <1>1, Maps
<1>5. AckedIsKept'
  BY <1>1, <1>3, <1>4 DEF AckedIsKept, KeptInv
<1>6. UnmodifiedIsFiled'
  BY <1>1, <1>3 DEF UnmodifiedIsFiled, KeptInv
<1> QED BY <1>0, <1>3, <1>5, <1>6 DEF KeptInv

LEMMA KeptNext == KeptInv /\ [Next]_vars => KeptInv'
<1> SUFFICES ASSUME KeptInv, [Next]_vars PROVE KeptInv'
  OBVIOUS
<1>0. TypeOK /\ TypeOK'
  BY TypeNext DEF KeptInv
<1>1. CASE Drain \/ (\E r \in [Viewers -> Ranges] : PairViewers(r)) \/ SendDataLoadRequests
           \/ LoadEnds \/ UNCHANGED vars
  BY <1>0, <1>1, KeptSame
     DEF Drain, PairViewers, SendDataLoadRequests, LoadEnds, CompleteLoad, vars, journalVars
<1>2. CASE \E v \in Viewers, p \in Blocks : Unview(v, p) \/ View(v, p)
  BY <1>2, KeptUnview, KeptView
<1>3. CASE ApplyDataBlockResponse
  BY <1>3, KeptResponse
<1>4. CASE ApplySaveResponse
  BY <1>0, <1>4, TypeSaveResponse, KeptSame DEF ApplySaveResponse
<1>5. CASE LoadSucceeds \/ \E p \in Blocks : LoadFails(p) \/ LoadPanics(p)
  BY <1>0, <1>5, KeptSame
     DEF LoadSucceeds, LoadFound, LoadGenerated, LoadNotFound, LoadFails, LoadPanics, Read, journalVars
<1>6. CASE SaveStep
  BY <1>0, <1>6, TypeSaveStep, KeptSame DEF SaveStep
<1>7. CASE \E p \in Blocks : TryEditVoxel(p)
  BY <1>7, KeptEdit
<1> QED BY <1>1, <1>2, <1>3, <1>4, <1>5, <1>6, <1>7 DEF Next

LEMMA KeptNow == KeptInv => EditsAreKept
<1> SUFFICES ASSUME KeptInv PROVE EditsAreKept
  OBVIOUS
<1>1. DOMAIN acked = Blocks /\ DOMAIN filed = 1 .. MaxGeneration
  BY Maps DEF KeptInv
<1> QED BY <1>1 DEF EditsAreKept, KeptInv, AckedIsKept, AllFiled

\* TerrainPaging!EditsAreKept: no edit that try_edit_voxel acknowledged is
\* overwritten, by a load that comes late or a generation that is filed again,
\* with or without generator and streaming.
THEOREM AcknowledgedEditsAreKept == Spec => []EditsAreKept
BY KeptInit, KeptNext, KeptNow, PTL DEF Spec

-----------------------------------------------------------------------------
(* Reference counts, for terrains that stream and have a generator.  What  *)
(* a block has beyond its references are retries: multiples of their       *)
(* weight, none as long as no load has failed.                             *)

Outputs == BagToSet(results) \cup BagToSet(loaded) \cup BagToSet(loadInbox)

Count(p) == IF Resident(p) THEN blocks[p].viewers ELSE loading[p]

Extra(p) == Count(p) - Cardinality(Referencing(p))

Multiples == {RetryWeight * k : k \in Nat}

\* A viewer is not in range of what the frame unviews, and is of what it views.
FrameExact ==
  \A v \in Viewers, p \in Blocks : /\ <<v, p>> \in unviews => p \notin ranges[v]
                                   /\ <<v, p>> \in views => p \in ranges[v]

OutputsExact ==
  \A o \in Outputs : o.kind # "notFound" /\ (o.kind = "dropped" => loadErrors > 0)

CountsExact ==
  \A p \in Blocks : /\ Extra(p) \in Multiples
                    /\ loadErrors = 0 => Extra(p) = 0
                    /\ Resident(p) => loading[p] = 0

PagingInv == TypeOK /\ FrameExact /\ OutputsExact /\ CountsExact

\* A missing block that is waited for and not under way was stranded by a panic
\* or has given up: it has retries for at least the cap.
UnderWay(p) == pending[p] > 0 \/ requests[p] > 0 \/ \E o \in Outputs : o.pos = p

GivenUp ==
  \A p \in Blocks : ~Resident(p) /\ loading[p] > 0 /\ ~UnderWay(p) /\ p \notin stranded =>
    Extra(p) >= RetryCap

LEMMA MultiplesOfWeight ==
  /\ 0 \in Multiples /\ Multiples \subseteq Nat
  /\ \A m \in Multiples : m + RetryWeight \in Multiples
<1>1. RetryWeight \in Nat
  BY PagingAssumption
<1>2. 0 \in Multiples
  BY <1>1 DEF Multiples
<1>3. ASSUME NEW m \in Multiples PROVE m \in Nat /\ m + RetryWeight \in Multiples
  <2>1. PICK k \in Nat : m = RetryWeight * k
    BY DEF Multiples
  <2>2. RetryWeight * k \in Nat /\ RetryWeight * (k + 1) = RetryWeight * k + RetryWeight
    BY <1>1
  <2>3. RetryWeight * (k + 1) \in Multiples
    BY DEF Multiples
  <2> QED BY <2>1, <2>2, <2>3
<1> QED BY <1>2, <1>3

LEMMA References ==
  ASSUME NEW p
  PROVE  /\ Referencing(p) \subseteq Viewers /\ IsFiniteSet(Referencing(p))
         /\ Cardinality(Referencing(p)) \in Nat
         /\ Cardinality(Referencing(p)) <= Cardinality(Viewers)
<1>1. Referencing(p) \subseteq Viewers
  BY DEF Referencing
<1>2. IsFiniteSet(Referencing(p)) /\ Cardinality(Referencing(p)) <= Cardinality(Viewers)
  BY <1>1, PagingAssumption, FS_Subset
<1> QED BY <1>1, <1>2, FS_CardinalityType

LEMMA CountIsNat == ASSUME TypeOK, NEW p \in Blocks PROVE Count(p) \in Nat /\ loading[p] \in Nat
BY ResidentFields, Maps DEF Count

\* A count is at least the references.
LEMMA CountsCover ==
  ASSUME PagingInv, NEW p \in Blocks
  PROVE  /\ Count(p) = Cardinality(Referencing(p)) + Extra(p)
         /\ Extra(p) \in Nat /\ Extra(p) \in Multiples
BY References, CountIsNat, MultiplesOfWeight DEF PagingInv, CountsExact, Extra

\* If every block keeps its count and its references, so do the invariants.
LEMMA CountsSame ==
  ASSUME PagingInv, UNCHANGED loadErrors \/ loadErrors' > loadErrors,
         \A p \in Blocks : /\ Extra(p)' = Extra(p)
                           /\ Resident(p)' => loading'[p] = 0
  PROVE  CountsExact'
<1>1. loadErrors' = 0 => loadErrors = 0
  BY DEF PagingInv, TypeOK
<1> QED BY <1>1 DEF PagingInv, CountsExact, Multiples

LEMMA PagingInit == Init => PagingInv /\ GivenUp
<1> SUFFICES ASSUME Init PROVE PagingInv /\ GivenUp
  OBVIOUS
<1>1. TypeOK /\ FrameExact /\ OutputsExact
  BY TypeInit, BagWithout DEF Init, FrameExact, OutputsExact, Outputs
<1>2. \A p \in Blocks : ~Resident(p) /\ loading[p] = 0 /\ Referencing(p) = {}
  BY DEF Init, Resident, Referencing, Nowhere
<1>3. \A p \in Blocks : Extra(p) = 0
  BY <1>2, FS_EmptySet DEF Extra, Count
<1>4. CountsExact
  BY <1>2, <1>3, MultiplesOfWeight DEF CountsExact
<1> QED BY <1>1, <1>2, <1>4 DEF PagingInv, GivenUp

\* The actions that change neither counts nor boxes.
LEMMA PagingSame ==
  ASSUME PagingInv, TypeOK', UNCHANGED <<loading, ranges, unviews, views>>,
         \A p \in Blocks : blocks'[p] = blocks[p] \/
           /\ Resident(p) /\ Resident(p)'
           /\ blocks'[p].viewers = blocks[p].viewers,
         UNCHANGED loadErrors \/ loadErrors' > loadErrors,
         \A o \in Outputs' \ Outputs : o.kind # "notFound" /\ (o.kind = "dropped" => loadErrors' > 0)
  PROVE  /\ PagingInv'
         /\ \A p \in Blocks : (Resident(p)' <=> Resident(p)) /\ Extra(p)' = Extra(p)
<1>1. FrameExact'
  BY DEF PagingInv, FrameExact
<1>2. OutputsExact'
  BY DEF PagingInv, OutputsExact, TypeOK
<1>3. \A p \in Blocks : (Resident(p)' <=> Resident(p)) /\ Count(p)' = Count(p)
  BY DEF Resident, Count
<1>4. \A p \in Blocks : Referencing(p)' = Referencing(p)
  BY DEF Referencing
<1>5. \A p \in Blocks : Extra(p)' = Extra(p)
  BY <1>3, <1>4 DEF Extra
<1>6. CountsExact'
  BY <1>3, <1>5, CountsSame DEF PagingInv, CountsExact
<1> QED BY <1>1, <1>2, <1>3, <1>5, <1>6 DEF PagingInv

\* A block that was under way stays so, or what it waited for is there.
GivenUpStays ==
  \A p \in Blocks :
    /\ UnderWay(p) => UnderWay(p)' \/ Resident(p)' \/ loading'[p] = 0 \/ p \in stranded'
    /\ p \in stranded => p \in stranded' \/ loading'[p] = 0

LEMMA GivenUpSame ==
  ASSUME PagingInv, GivenUp, GivenUpStays,
         \A p \in Blocks : ~Resident(p)' => \/ loading'[p] = 0
                                            \/ ~Resident(p) /\ loading[p] > 0 /\ Extra(p)' = Extra(p)
                                            \/ UnderWay(p)'
  PROVE  GivenUp'
<1> SUFFICES ASSUME NEW p \in Blocks, ~Resident(p)', loading'[p] > 0, ~UnderWay(p)', p \notin stranded'
             PROVE  Extra(p)' >= RetryCap
  BY DEF GivenUp
<1>1. ~UnderWay(p) /\ p \notin stranded /\ ~Resident(p) /\ loading[p] > 0 /\ Extra(p)' = Extra(p)
  BY DEF GivenUpStays
<1> QED BY <1>1 DEF GivenUp

\* Requests, reads and drains: the outputs and what waits for them.
LEMMA PagingTasks ==
  ASSUME PagingInv, HasGenerator, TypeOK',
         Drain \/ SendDataLoadRequests \/ LoadSucceeds \/ (\E p \in Blocks : LoadFails(p)) \/ LoadEnds
           \/ SaveStep \/ ApplySaveResponse \/ UNCHANGED vars
  PROVE  PagingInv' /\ (GivenUp => GivenUp')
<1>0. TypeOK /\ UNCHANGED <<blocks, loading, stranded, ranges, unviews, views>>
  BY DEF PagingInv, Drain, SendDataLoadRequests, LoadSucceeds, LoadFound, LoadGenerated, LoadNotFound,
         LoadFails, Read, LoadEnds, CompleteLoad, SaveStep, ApplySaveResponse, vars, waitVars, frameVars
<1>1. /\ UNCHANGED loadErrors \/ loadErrors' > loadErrors
      /\ \A o \in Outputs' \ Outputs : o.kind # "notFound" /\ (o.kind = "dropped" => loadErrors' > 0)
      /\ \A p \in Blocks : UnderWay(p) => UnderWay(p)'
  <2>1. CASE Drain
    <3>1. Outputs' = Outputs /\ UNCHANGED <<pending, requests, loadErrors>>
      BY <2>1, BagWithout DEF waitVars, Drain, Applied, Outputs
    <3> QED BY <3>1 DEF UnderWay
  <2>2. CASE SendDataLoadRequests
    <3>1. Outputs' = Outputs /\ UNCHANGED loadErrors
      BY <2>2 DEF SendDataLoadRequests, Outputs
    <3>2. \A p \in Blocks : requests'[p] = requests[p] + pending[p]
      BY <2>2 DEF SendDataLoadRequests
    <3>3. \A p \in Blocks : pending[p] \in Nat /\ requests[p] \in Nat
      BY <1>0, Maps
    <3> QED BY <3>1, <3>2, <3>3 DEF UnderWay
  <2>3. CASE LoadSucceeds \/ \E p \in Blocks : LoadFails(p)
    <3>1. PICK p \in Blocks : LoadFound(p) \/ LoadGenerated(p) \/ LoadNotFound(p) \/ LoadFails(p)
      BY <2>3 DEF LoadSucceeds
    <3>2. ~LoadNotFound(p)
      BY DEF LoadNotFound
    <3>3. PICK kind, g : /\ Read(p, kind, g)
                         /\ kind \in {"loaded", "dropped"}
                         /\ kind = "dropped" => loadErrors' = loadErrors + 1
                         /\ UNCHANGED loadErrors \/ loadErrors' = loadErrors + 1
      BY <3>1, <3>2 DEF LoadFound, LoadGenerated, LoadFails
    <3> DEFINE x == [pos |-> p, kind |-> kind, voxels |-> g]
    <3>4. x.pos = p /\ x.kind = kind
      OBVIOUS
    <3> HIDE DEF x
    <3>5. Outputs' = Outputs \cup {x}
      BY <3>3, BagAfterAdd DEF Outputs, Read, x
    <3>6. UNCHANGED pending /\ \A q \in Blocks \ {p} : requests'[q] = requests[q]
      BY <1>0, <3>3, Maps DEF Read, waitVars
    <3>7. loadErrors \in Nat
      BY <1>0 DEF TypeOK
    <3> QED BY <3>3, <3>4, <3>5, <3>6, <3>7 DEF UnderWay
  <2>4. CASE LoadEnds
    <3>1. PICK o : CompleteLoad(o)
      BY <2>4 DEF LoadEnds
    <3>2. Outputs' = Outputs
      BY <3>1, BagAfterAdd, BagAfterRemove, BagMembers DEF CompleteLoad, Outputs
    <3>3. UNCHANGED <<pending, requests, loadErrors>>
      BY <3>1 DEF waitVars, CompleteLoad
    <3> QED BY <3>2, <3>3 DEF UnderWay
  <2>5. CASE SaveStep \/ ApplySaveResponse \/ UNCHANGED vars
    <3>1. Outputs' = Outputs /\ UNCHANGED <<pending, requests, loadErrors>>
      BY <2>5 DEF waitVars, SaveStep, ApplySaveResponse, vars, taskVars, Outputs
    <3> QED BY <3>1 DEF UnderWay
  <2> QED BY <2>1, <2>2, <2>3, <2>4, <2>5
<1>2. PagingInv' /\ \A p \in Blocks : (Resident(p)' <=> Resident(p)) /\ Extra(p)' = Extra(p)
  BY <1>0, <1>1, PagingSame
<1>3. GivenUpStays
  BY <1>0, <1>1 DEF GivenUpStays
<1>4. \A p \in Blocks : loading[p] \in Nat
  BY <1>0, Maps
<1> QED BY <1>0, <1>2, <1>3, <1>4, GivenUpSame

\* A load that panics strands who waited for it alone.
LEMMA PagingPanics ==
  ASSUME PagingInv, NEW p \in Blocks, LoadPanics(p), TypeOK'
  PROVE  PagingInv' /\ (GivenUp => GivenUp')
<1>0. TypeOK /\ Outputs' = Outputs
      /\ UNCHANGED <<blocks, loading, pending, loadErrors, ranges, unviews, views>>
  BY DEF PagingInv, LoadPanics, frameVars, Outputs
<1>1. PagingInv' /\ \A q \in Blocks : (Resident(q)' <=> Resident(q)) /\ Extra(q)' = Extra(q)
  BY <1>0, PagingSame
<1>2. \A q \in Blocks \ {p} : requests'[q] = requests[q]
  BY <1>0, Maps DEF LoadPanics
<1>3. \A q \in Blocks : loading[q] \in Nat
  BY <1>0, Maps
<1>4. loading[p] > 0 /\ ~UnderWay(p)' => p \in stranded'
  BY DEF LoadPanics, OnItsWay, UnderWay, Outputs
<1>5. stranded \subseteq stranded'
  BY DEF LoadPanics
<1>6. GivenUpStays
  <2>1. ASSUME NEW q \in Blocks, UnderWay(q)
        PROVE  UnderWay(q)' \/ loading'[q] = 0 \/ q \in stranded'
    <3>1. CASE q # p
      BY <1>0, <1>2, <2>1, <3>1 DEF UnderWay
    <3>2. CASE q = p
      BY <1>0, <1>3, <1>4, <3>2
    <3> QED BY <3>1, <3>2
  <2> QED BY <1>5, <2>1 DEF GivenUpStays
<1> QED BY <1>0, <1>1, <1>3, <1>6, GivenUpSame

\* An edit changes a resident block.
LEMMA PagingEdit ==
  ASSUME PagingInv, StreamingEnabled, NEW p \in Blocks, TryEditVoxel(p)
  PROVE  /\ PagingInv' /\ (GivenUp => GivenUp')
         /\ \A q \in Blocks : Resident(q) => Resident(q)'
<1>0. TypeOK /\ TypeOK' /\ Resident(p)
  BY TypeEdit DEF PagingInv, TryEditVoxel, MayEdit
<1>1. /\ \A q \in Blocks \ {p} : blocks'[q] = blocks[q]
      /\ Resident(p)' /\ blocks'[p].viewers = blocks[p].viewers
  BY <1>0, TypeEdit
<1>2. UNCHANGED <<loading, pending, stranded, requests, loadErrors, ranges, unviews, views>>
      /\ Outputs' = Outputs
  BY DEF TryEditVoxel, waitVars, taskVars, frameVars, Outputs
<1>3. PagingInv' /\ \A q \in Blocks : (Resident(q)' <=> Resident(q)) /\ Extra(q)' = Extra(q)
  BY <1>0, <1>1, <1>2, PagingSame
<1>4. GivenUpStays
  BY <1>2 DEF GivenUpStays, UnderWay
<1>5. \A q \in Blocks : loading[q] \in Nat
  BY <1>0, Maps
<1> QED BY <1>2, <1>3, <1>4, <1>5, GivenUpSame

\* What taking an output out of the inbox does to loads under way.
LEMMA OutputTaken ==
  ASSUME TypeOK, NEW o, TakeOutput(o)
  PROVE  /\ o \in Outputs /\ o \in Results /\ o.pos \in Blocks
         /\ Outputs' \subseteq Outputs /\ Outputs \subseteq Outputs' \cup {o}
         /\ UNCHANGED <<requests, loadErrors, ranges, unviews, views>>
<1>1. o \in BagToSet(loadInbox) /\ o \in Results
  BY BagMembers DEF TakeOutput, TypeOK
<1>2. Outputs' \subseteq Outputs /\ Outputs \subseteq Outputs' \cup {o}
  BY BagAfterRemove DEF TakeOutput, Outputs
<1> QED BY <1>1, <1>2, OutputFields DEF TakeOutput, frameVars, Outputs

\* A loaded block has the viewers its load was waited for by.
LEMMA PagingLoaded ==
  ASSUME PagingInv, NEW o, ApplyLoaded(o), TypeOK'
  PROVE  PagingInv' /\ (GivenUp => GivenUp')
<1> DEFINE p == o.pos
           new == [viewers |-> ViewersOnLoad(p), edits |-> EditsIn(o.voxels), modified |-> FALSE]
<1>0. TypeOK
  BY DEF PagingInv
<1>1. /\ o \in Results /\ p \in Blocks
      /\ Outputs' \subseteq Outputs /\ Outputs \subseteq Outputs' \cup {o}
      /\ UNCHANGED <<requests, pending, loadErrors, ranges, unviews, views>>
  BY <1>0, OutputTaken DEF ApplyLoaded
<1>2. /\ loading'[p] = 0 /\ \A q \in Blocks \ {p} : loading'[q] = loading[q]
      /\ loading[p] \in Nat
  BY <1>0, <1>1, Maps DEF ApplyLoaded
<1>3. new.viewers = loading[p] /\ new # NoBlock
  BY <1>0, <1>1, LoadedBlock, BlocksAreNotNoBlock DEF ViewersOnLoad
<1> HIDE DEF new
<1>4. IF loading[p] > 0 /\ ~Resident(p) THEN blocks' = [blocks EXCEPT ![p] = new]
                                      ELSE blocks' = blocks
  BY DEF ApplyLoaded, MayInsert, new
<1>5. IF loading[p] > 0 /\ ~Resident(p)
      THEN blocks'[p] = new /\ \A q \in Blocks \ {p} : blocks'[q] = blocks[q]
      ELSE \A q \in Blocks : blocks'[q] = blocks[q]
  BY <1>0, <1>1, <1>4, Maps
<1>6. \A q \in Blocks : Count(q)' = Count(q) /\ (Resident(q)' => loading'[q] = 0)
  BY <1>1, <1>2, <1>3, <1>5 DEF Count, Resident, PagingInv, CountsExact
<1>7. \A q \in Blocks : Extra(q)' = Extra(q)
  BY <1>1, <1>6 DEF Extra, Referencing
<1>8. CountsExact'
  BY <1>1, <1>6, <1>7, CountsSame
<1>9. FrameExact' /\ OutputsExact'
  BY <1>1 DEF PagingInv, FrameExact, OutputsExact
<1>10. GivenUpStays
  <2>1. \A q \in stranded : q \in stranded' \/ ~ loading'[q] > 0
    BY DEF ApplyLoaded, StrandedWaits
  <2>2. \A q \in Blocks : loading'[q] \in Nat
    BY DEF TypeOK
  <2> QED BY <1>1, <1>2, <2>1, <2>2 DEF GivenUpStays, UnderWay
<1>11. \A q \in Blocks \ {p} : loading[q] \in Nat /\ (Resident(q)' <=> Resident(q))
  BY <1>0, <1>5, Maps DEF Resident
<1> QED BY <1>2, <1>7, <1>8, <1>9, <1>10, <1>11, GivenUpSame DEF PagingInv

\* The hypotheses of the theorem on loads: the weight of a retry is more than
\* any number of viewers (100 in the code), and divides the cap (1000).
WeightsFit == Cardinality(Viewers) < RetryWeight /\ RetryCap \in Multiples

\* Beyond the cap less a weight, retries make at least the cap.
LEMMA MultiplesAreSparse ==
  ASSUME RetryCap \in Multiples, NEW m \in Multiples, m + RetryWeight > RetryCap
  PROVE  m >= RetryCap
<1>1. PICK k \in Nat : m = RetryWeight * k
  BY DEF Multiples
<1>2. PICK c \in Nat : RetryCap = RetryWeight * c
  BY DEF Multiples
<1>3. CASE k < c
  <2>1. PICK d \in Nat : c = k + 1 + d
    <3>1. c - k - 1 \in Nat /\ c = k + 1 + (c - k - 1)
      BY <1>3
    <3> QED BY <3>1
  <2>2. RetryWeight * d \in Nat /\ RetryWeight * k \in Nat
    BY PagingAssumption
  <2>3. RetryWeight * c = RetryWeight * k + RetryWeight + RetryWeight * d
    BY <2>1, PagingAssumption
  <2> QED BY <1>1, <1>2, <2>2, <2>3, PagingAssumption
<1>4. CASE k >= c
  <2>1. PICK d \in Nat : k = c + d
    <3>1. k - c \in Nat /\ k = c + (k - c)
      BY <1>4
    <3> QED BY <3>1
  <2>2. RetryWeight * d \in Nat /\ RetryWeight * c \in Nat
    BY PagingAssumption
  <2>3. RetryWeight * k = RetryWeight * c + RetryWeight * d
    BY <2>1, PagingAssumption
  <2> QED BY <1>1, <1>2, <2>2, <2>3, PagingAssumption
<1> QED BY <1>3, <1>4

\* A load that failed is asked for again, or is at the cap.
LEMMA PagingDropped ==
  ASSUME PagingInv, NEW o, ApplyDropped(o), TypeOK'
  PROVE  PagingInv' /\ (GivenUp /\ WeightsFit => GivenUp')
<1> DEFINE p == o.pos
<1>0. TypeOK
  BY DEF PagingInv
<1>1. /\ o \in Outputs /\ p \in Blocks /\ o.kind = "dropped"
      /\ Outputs' \subseteq Outputs /\ Outputs \subseteq Outputs' \cup {o}
      /\ UNCHANGED <<requests, blocks, loadErrors, ranges, unviews, views>>
  BY <1>0, OutputTaken DEF ApplyDropped
<1>2. \A q \in Blocks : Referencing(q)' = Referencing(q) /\ (Resident(q)' <=> Resident(q))
  BY <1>1 DEF Referencing, Resident
<1>3. FrameExact' /\ OutputsExact' /\ loadErrors > 0
  BY <1>1 DEF PagingInv, FrameExact, OutputsExact
<1>4. CASE MayRetry(p)
  <2>1. /\ loading'[p] = loading[p] + RetryWeight /\ loading[p] > 0 /\ loading[p] \in Nat
        /\ pending'[p] = pending[p] + 1 /\ pending[p] \in Nat
        /\ \A q \in Blocks \ {p} : loading'[q] = loading[q] /\ pending'[q] = pending[q]
    BY <1>0, <1>1, <1>4, Maps DEF ApplyDropped, MayRetry
  <2>2. ~Resident(p)
    BY <1>1, <2>1 DEF PagingInv, CountsExact
  <2>3. Extra(p)' = Extra(p) + RetryWeight /\ \A q \in Blocks \ {p} : Extra(q)' = Extra(q)
    <3>1. Count(p)' = Count(p) + RetryWeight /\ \A q \in Blocks \ {p} : Count(q)' = Count(q)
      BY <1>1, <1>2, <2>1, <2>2 DEF Count
    <3>2. Count(p) \in Nat /\ Cardinality(Referencing(p)) \in Nat
      BY <1>0, <1>1, CountIsNat, References
    <3> QED BY <1>1, <1>2, <3>1, <3>2, PagingAssumption DEF Extra
  <2>4. \A q \in Blocks : Extra(q)' \in Multiples
    BY <2>3, MultiplesOfWeight DEF PagingInv, CountsExact
  <2>5. \A q \in Blocks : Resident(q)' => loading'[q] = 0
    BY <1>2, <2>1, <2>2 DEF PagingInv, CountsExact
  <2>6. CountsExact'
    <3>1. loadErrors' = 0 <=> FALSE
      BY <1>1, <1>3
    <3>2. Multiples' = Multiples
      BY DEF Multiples
    <3> QED BY <2>4, <2>5, <3>1, <3>2 DEF CountsExact
  <2>7. UnderWay(p)' /\ GivenUpStays
    BY <1>1, <2>1 DEF GivenUpStays, UnderWay, ApplyDropped
  <2>8. \A q \in Blocks : loading[q] \in Nat
    BY <1>0, Maps
  <2> QED BY <1>2, <1>3, <2>1, <2>3, <2>6, <2>7, <2>8, GivenUpSame DEF PagingInv
<1>5. CASE ~MayRetry(p)
  <2>1. UNCHANGED <<loading, pending, stranded>>
    BY <1>5 DEF ApplyDropped
  <2>2. \A q \in Blocks : Extra(q)' = Extra(q) /\ Count(q)' = Count(q)
    BY <1>1, <1>2, <2>1 DEF Extra, Count
  <2>3. CountsExact'
    BY <1>1, <1>2, <2>1, <2>2, CountsSame DEF PagingInv, CountsExact
  <2>4. ASSUME GivenUp, WeightsFit, NEW q \in Blocks, ~Resident(q)', loading'[q] > 0, ~UnderWay(q)',
               q \notin stranded'
        PROVE  Extra(q)' >= RetryCap
    <3>1. CASE q # p
      <4>1. ~UnderWay(q)
        BY <1>1, <2>1, <2>4, <3>1 DEF UnderWay
      <4> QED BY <1>2, <2>1, <2>2, <2>4, <4>1 DEF GivenUp
    <3>2. CASE q = p
      <4>1. loading[p] \in Nat /\ loading[p] >= RetryCap /\ Count(p) = loading[p]
        BY <1>0, <1>1, <1>2, <1>5, <2>1, <2>4, <3>2, Maps, PagingAssumption DEF MayRetry, Count
      <4>2. /\ Extra(p) \in Multiples /\ Extra(p) \in Nat
            /\ Count(p) = Cardinality(Referencing(p)) + Extra(p)
        BY <1>1, CountsCover
      <4>3. Cardinality(Referencing(p)) \in Nat /\ Cardinality(Referencing(p)) < RetryWeight
        <5>1. Cardinality(Viewers) \in Nat
          BY PagingAssumption, FS_CardinalityType
        <5> QED BY <2>4, <5>1, References, PagingAssumption DEF WeightsFit
      <4>4. Extra(p) + RetryWeight > RetryCap
        BY <4>1, <4>2, <4>3, PagingAssumption
      <4>5. Extra(p) >= RetryCap
        BY <2>4, <4>2, <4>4, MultiplesAreSparse DEF WeightsFit
      <4> QED BY <1>1, <2>2, <3>2, <4>5
    <3> QED BY <3>1, <3>2
  <2>5. GivenUp /\ WeightsFit => GivenUp'
    BY <2>4 DEF GivenUp
  <2> QED BY <1>3, <2>3, <2>5 DEF PagingInv
<1> QED BY <1>4, <1>5

\* Until the frame has worked them off, its pairs keep the references.
LEMMA PagingPair ==
  ASSUME PagingInv, NEW r \in [Viewers -> Ranges], PairViewers(r)
  PROVE  PagingInv' /\ (GivenUp => GivenUp')
<1>0. TypeOK /\ TypeOK' /\ unviews = {} /\ views = {}
  BY TypePair DEF PagingInv, TypeOK, PairViewers
<1>1. /\ ranges' = r
      /\ \A v \in Viewers, p \in Blocks :
           /\ <<v, p>> \in unviews' <=> p \in ranges[v] /\ p \notin r[v]
           /\ <<v, p>> \in views' <=> p \in r[v] /\ p \notin ranges[v]
  <2>1. \A v \in Viewers, p \in Blocks : <<v, p>> \in Viewers \X Blocks /\ <<v, p>>[1] = v
                                                                       /\ <<v, p>>[2] = p
    OBVIOUS
  <2> QED BY <2>1 DEF PairViewers, Entered
<1>2. UNCHANGED <<blocks, loading, pending, stranded, requests, loadErrors>> /\ Outputs' = Outputs
  BY DEF PairViewers, waitVars, taskVars, Outputs
<1>3. \A p \in Blocks : Referencing(p)' = Referencing(p)
  BY <1>0, <1>1 DEF Referencing
<1>4. \A p \in Blocks : Extra(p)' = Extra(p) /\ (Resident(p)' <=> Resident(p))
  BY <1>2, <1>3 DEF Extra, Count, Resident
<1>5. CountsExact'
  BY <1>2, <1>4, CountsSame DEF PagingInv, CountsExact
<1>6. FrameExact' /\ OutputsExact'
  BY <1>1, <1>2 DEF FrameExact, PagingInv, OutputsExact
<1>7. GivenUp => GivenUp'
  BY <1>2, <1>4 DEF GivenUp, UnderWay
<1> QED BY <1>0, <1>5, <1>6, <1>7 DEF PagingInv

\* View adds a reference of the block, and nothing to the others.
LEMMA ViewReferences ==
  ASSUME PagingInv, NEW v \in Viewers, NEW p \in Blocks, View(v, p)
  PROVE  /\ Cardinality(Referencing(p))' = Cardinality(Referencing(p)) + 1
         /\ \A q \in Blocks \ {p} : Referencing(q)' = Referencing(q)
         /\ FrameExact'
<1>1. /\ unviews = {} /\ <<v, p>> \in views /\ views' = views \ {<<v, p>>}
      /\ UNCHANGED <<unviews, ranges>>
  BY DEF View
<1>2. p \in ranges[v]
  BY <1>1 DEF PagingInv, FrameExact
<1>3. \A u \in Viewers, q \in Blocks :
        <<u, q>> \in views' <=> <<u, q>> \in views /\ ~(u = v /\ q = p)
  BY <1>1
<1>4. v \notin Referencing(p) /\ Referencing(p)' = Referencing(p) \cup {v}
  BY <1>1, <1>2, <1>3 DEF Referencing
<1>5. \A q \in Blocks \ {p} : Referencing(q)' = Referencing(q)
  BY <1>1, <1>3 DEF Referencing
<1>6. Cardinality(Referencing(p) \cup {v}) = Cardinality(Referencing(p)) + 1
  BY <1>4, References, FS_AddElement
<1>7. FrameExact'
  BY <1>1, <1>3 DEF PagingInv, FrameExact
<1> QED BY <1>4, <1>5, <1>6, <1>7

\* Unview takes one.
LEMMA UnviewReferences ==
  ASSUME PagingInv, NEW v \in Viewers, NEW p \in Blocks, Unview(v, p)
  PROVE  /\ Cardinality(Referencing(p))' = Cardinality(Referencing(p)) - 1
         /\ Referencing(p)' = Referencing(p) \ {v}
         /\ Cardinality(Referencing(p)) >= 1
         /\ \A q \in Blocks \ {p} : Referencing(q)' = Referencing(q)
         /\ FrameExact'
<1>1. /\ <<v, p>> \in unviews /\ unviews' = unviews \ {<<v, p>>}
      /\ UNCHANGED <<views, ranges>>
  BY DEF Unview
<1>2. p \notin ranges[v]
  BY <1>1 DEF PagingInv, FrameExact
<1>3. \A u \in Viewers, q \in Blocks :
        <<u, q>> \in unviews' <=> <<u, q>> \in unviews /\ ~(u = v /\ q = p)
  BY <1>1
<1>4. v \in Referencing(p) /\ Referencing(p)' = Referencing(p) \ {v}
  BY <1>1, <1>2, <1>3 DEF Referencing
<1>5. \A q \in Blocks \ {p} : Referencing(q)' = Referencing(q)
  BY <1>1, <1>3 DEF Referencing
<1>6. /\ Cardinality(Referencing(p) \ {v}) = Cardinality(Referencing(p)) - 1
      /\ Cardinality(Referencing(p) \ {v}) \in Nat
  BY <1>4, References, FS_RemoveElement, FS_CardinalityType
<1>7. Cardinality(Referencing(p)) >= 1
  BY <1>6, References
<1>8. FrameExact'
  BY <1>1, <1>3 DEF PagingInv, FrameExact
<1> QED BY <1>4, <1>5, <1>6, <1>7, <1>8

\* If count and references of a block change alike, and those of others not at all.
LEMMA CountsMove ==
  ASSUME PagingInv, NEW p \in Blocks, UNCHANGED loadErrors,
         Count(p)' - Cardinality(Referencing(p))' = Count(p) - Cardinality(Referencing(p)),
         \A q \in Blocks \ {p} : /\ blocks'[q] = blocks[q] /\ loading'[q] = loading[q]
                                 /\ Referencing(q)' = Referencing(q),
         Resident(p)' => loading'[p] = 0
  PROVE  /\ CountsExact'
         /\ \A q \in Blocks : Extra(q)' = Extra(q)
         /\ \A q \in Blocks \ {p} : Resident(q)' <=> Resident(q)
<1>1. \A q \in Blocks \ {p} : /\ Resident(q)' <=> Resident(q)
                              /\ Count(q)' = Count(q)
  BY DEF Resident, Count
<1>2. \A q \in Blocks : Extra(q)' = Extra(q)
  BY <1>1 DEF Extra
<1>3. \A q \in Blocks : Resident(q)' => loading'[q] = 0
  BY <1>1 DEF PagingInv, CountsExact
<1> QED BY <1>1, <1>2, <1>3, CountsSame

LEMMA PagingView ==
  ASSUME PagingInv, NEW v \in Viewers, NEW p \in Blocks, View(v, p)
  PROVE  /\ PagingInv' /\ (GivenUp => GivenUp')
         /\ \A q \in Blocks : Resident(q) => Resident(q)'
<1>0. TypeOK /\ TypeOK'
  BY TypeView DEF PagingInv
<1>1. UNCHANGED <<requests, loadErrors, stranded>> /\ Outputs' = Outputs
  BY DEF View, ViewMissing, waitVars, taskVars, Outputs
<1>2. /\ Count(p)' = Count(p) + 1 /\ Count(p) \in Nat
      /\ Resident(p)' <=> Resident(p)
      /\ Resident(p)' => loading'[p] = 0
      /\ \A q \in Blocks \ {p} : blocks'[q] = blocks[q] /\ loading'[q] = loading[q]
      /\ \A q \in Blocks : pending'[q] >= pending[q]
      /\ ~Resident(p) => loading'[p] > 0 /\ (loading[p] > 0 \/ pending'[p] > 0)
  <2>1. CASE Resident(p)
    <3>1. /\ blocks' = [blocks EXCEPT ![p] = [blocks[p] EXCEPT !.viewers = @ + 1]]
          /\ UNCHANGED <<loading, pending>>
      BY <2>1 DEF View, waitVars
    <3>2. LET b == [blocks[p] EXCEPT !.viewers = @ + 1]
          IN  b.viewers = blocks[p].viewers + 1 /\ b.viewers \in Nat
      BY <1>0, <2>1, ResidentFields
    <3>3. /\ blocks'[p].viewers = blocks[p].viewers + 1 /\ blocks'[p].viewers \in Nat
          /\ \A q \in Blocks \ {p} : blocks'[q] = blocks[q]
      BY <1>0, <3>1, <3>2, Maps
    <3>4. Resident(p)'
      BY <3>3, NoBlockFields DEF Resident
    <3>5. loading[p] = 0 /\ \A q \in Blocks : pending[q] \in Nat
      BY <1>0, <2>1, Maps DEF PagingInv, CountsExact
    <3> QED BY <1>0, <2>1, <3>1, <3>3, <3>4, <3>5, CountIsNat DEF Count
  <2>2. CASE ~Resident(p)
    <3>1. /\ loading' = [loading EXCEPT ![p] = loading[p] + 1]
          /\ pending' = IF loading[p] = 0 THEN [pending EXCEPT ![p] = @ + 1] ELSE pending
          /\ UNCHANGED blocks
      BY <2>2 DEF View, ViewMissing, OneMoreViewer
    <3>2. loading \in [Blocks -> Nat] /\ pending \in [Blocks -> Nat] /\ loading[p] \in Nat
      BY <1>0, Maps
    <3>3. ~Resident(p)' /\ Count(p) = loading[p] /\ Count(p)' = loading'[p]
      BY <2>2, <3>1 DEF Resident, Count
    <3>4. loading'[p] = loading[p] + 1 /\ \A q \in Blocks \ {p} : loading'[q] = loading[q]
      BY <3>1, <3>2
    <3>5. /\ \A q \in Blocks : pending'[q] >= pending[q]
          /\ loading[p] = 0 => pending'[p] > 0
      BY <3>1, <3>2
    <3> QED BY <2>2, <3>1, <3>2, <3>3, <3>4, <3>5
  <2> QED BY <2>1, <2>2
<1>3. /\ Cardinality(Referencing(p))' = Cardinality(Referencing(p)) + 1
      /\ Cardinality(Referencing(p)) \in Nat
      /\ \A q \in Blocks \ {p} : Referencing(q)' = Referencing(q)
      /\ FrameExact'
  BY ViewReferences, References
<1>4. /\ CountsExact' /\ \A q \in Blocks : Extra(q)' = Extra(q)
      /\ \A q \in Blocks : Resident(q)' <=> Resident(q)
  BY <1>1, <1>2, <1>3, CountsMove
<1>5. OutputsExact'
  BY <1>1 DEF OutputsExact, PagingInv
<1>6. \A q \in Blocks : pending[q] \in Nat /\ pending'[q] \in Nat /\ loading[q] \in Nat
  BY <1>0, Maps DEF TypeOK
<1>7. GivenUpStays
  BY <1>1, <1>2, <1>6 DEF GivenUpStays, UnderWay
<1>8. \A q \in Blocks : ~Resident(q)' =>
        loading'[q] = 0 \/ (~Resident(q) /\ loading[q] > 0 /\ Extra(q)' = Extra(q)) \/ UnderWay(q)'
  <2>1. ASSUME ~Resident(p)' PROVE loading[p] > 0 \/ UnderWay(p)'
    BY <1>2, <2>1 DEF UnderWay
  <2> QED BY <1>2, <1>4, <1>6, <2>1
<1>9. GivenUp => GivenUp'
  BY <1>7, <1>8, GivenUpSame
<1> QED BY <1>0, <1>3, <1>4, <1>5, <1>9 DEF PagingInv

\* What goes had one viewer and no retries: the viewer that left.
LEMMA PagingUnview ==
  ASSUME PagingInv, NEW v \in Viewers, NEW p \in Blocks, Unview(v, p)
  PROVE  /\ PagingInv' /\ (GivenUp => GivenUp')
         /\ \A q \in Blocks : Resident(q) /\ ~Resident(q)' => Referencing(q)' = {}
<1>0. TypeOK /\ TypeOK'
  BY TypeUnview DEF PagingInv
<1>1. UNCHANGED <<requests, loadErrors>> /\ Outputs' = Outputs
  BY DEF Unview, taskVars, Outputs
<1>2. /\ Cardinality(Referencing(p))' = Cardinality(Referencing(p)) - 1
      /\ Referencing(p)' = Referencing(p) \ {v}
      /\ Cardinality(Referencing(p)) \in Nat /\ Cardinality(Referencing(p)) >= 1
      /\ \A q \in Blocks \ {p} : Referencing(q)' = Referencing(q)
      /\ FrameExact'
  BY UnviewReferences, References
<1>3. /\ Count(p) \in Nat /\ Count(p) >= 1
      /\ Count(p) = 1 => Cardinality(Referencing(p)) = 1
  BY <1>0, <1>2, CountsCover, CountIsNat
<1>4. /\ blocks \in [Blocks -> BlockStates] /\ loading \in [Blocks -> Nat]
      /\ pending \in [Blocks -> Nat]
  BY <1>0, Maps
<1>5. /\ Count(p)' = Count(p) - 1
      /\ Resident(p)' => Resident(p) /\ loading'[p] = 0
      /\ \A q \in Blocks \ {p} : /\ blocks'[q] = blocks[q] /\ loading'[q] = loading[q]
                                 /\ pending'[q] = pending[q]
      /\ Resident(p) /\ ~Resident(p)' => Count(p) = 1 /\ loading'[p] = 0
      /\ ~Resident(p) => loading[p] > 0 /\ (pending'[p] = pending[p] \/ loading'[p] = 0)
  <2>1. CASE ~Resident(p)
    <3>1. /\ loading' = [loading EXCEPT ![p] = Released(loading[p])]
          /\ pending' = (IF LosesLastViewer(p) THEN [pending EXCEPT ![p] = 0] ELSE pending)
          /\ UNCHANGED blocks
      BY <2>1 DEF Unview, UnviewMissing
    <3>2. ~Resident(p)' /\ Count(p) = loading[p] /\ Count(p)' = loading'[p]
      BY <2>1, <3>1 DEF Resident, Count
    <3>3. Released(loading[p]) = loading[p] - 1 /\ loading[p] > 0
      BY <1>3, <3>2 DEF Released
    <3>4. loading'[p] = loading[p] - 1 /\ \A q \in Blocks \ {p} : loading'[q] = loading[q]
      BY <1>4, <3>1, <3>3
    <3>5. /\ \A q \in Blocks \ {p} : pending'[q] = pending[q]
          /\ pending'[p] = pending[p] \/ loading'[p] = 0
      BY <1>3, <1>4, <3>1, <3>2, <3>4 DEF LosesLastViewer
    <3> QED BY <2>1, <3>1, <3>2, <3>3, <3>4, <3>5
  <2>2. CASE Resident(p) /\ KeepsViewers(p)
    <3>1. /\ blocks' = [blocks EXCEPT ![p] = [blocks[p] EXCEPT !.viewers = Released(@)]]
          /\ UNCHANGED <<loading, pending>>
      BY <2>2 DEF Unview, UnviewResident, waitVars
    <3>2. LET b == [blocks[p] EXCEPT !.viewers = Released(@)]
          IN  b.viewers = blocks[p].viewers - 1 /\ b.viewers \in Nat
      BY <1>0, <2>2, ResidentFields DEF Released, KeepsViewers
    <3>3. /\ blocks'[p].viewers = blocks[p].viewers - 1 /\ blocks'[p].viewers \in Nat
          /\ \A q \in Blocks \ {p} : blocks'[q] = blocks[q]
      BY <1>4, <3>1, <3>2
    <3>4. Resident(p)'
      BY <3>3, NoBlockFields DEF Resident
    <3>5. loading[p] = 0
      BY <2>2 DEF PagingInv, CountsExact
    <3> QED BY <2>2, <3>1, <3>3, <3>4, <3>5 DEF Count
  <2>3. CASE Resident(p) /\ ~KeepsViewers(p)
    <3>1. /\ blocks' = [blocks EXCEPT ![p] = NoBlock]
          /\ loading' = [loading EXCEPT ![p] = 0] /\ pending' = [pending EXCEPT ![p] = 0]
      BY <2>3 DEF Unview, UnviewResident
    <3>2. Count(p) = blocks[p].viewers /\ Count(p) = 1
      BY <1>3, <2>3 DEF Count, KeepsViewers
    <3>3. /\ blocks'[p] = NoBlock /\ loading'[p] = 0
          /\ \A q \in Blocks \ {p} : /\ blocks'[q] = blocks[q] /\ loading'[q] = loading[q]
                                     /\ pending'[q] = pending[q]
      BY <1>4, <3>1
    <3>4. ~Resident(p)' /\ Count(p)' = 0
      BY <3>3 DEF Resident, Count
    <3> QED BY <2>3, <3>2, <3>3, <3>4
  <2> QED BY <2>1, <2>2, <2>3
<1>6. /\ CountsExact' /\ \A q \in Blocks : Extra(q)' = Extra(q)
      /\ \A q \in Blocks \ {p} : Resident(q)' <=> Resident(q)
  <2>1. Count(p)' - Cardinality(Referencing(p))' = Count(p) - Cardinality(Referencing(p))
    BY <1>2, <1>3, <1>5
  <2>2. /\ UNCHANGED loadErrors /\ (Resident(p)' => loading'[p] = 0)
        /\ \A q \in Blocks \ {p} : /\ blocks'[q] = blocks[q] /\ loading'[q] = loading[q]
                                   /\ Referencing(q)' = Referencing(q)
    BY <1>1, <1>2, <1>5
  <2> QED BY <2>1, <2>2, CountsMove
<1>7. OutputsExact'
  BY <1>1 DEF OutputsExact, PagingInv
<1>8. GivenUpStays
  <2>1. \A q \in stranded : q \in stranded' \/ ~ loading'[q] > 0
    BY DEF Unview, UnviewMissing, UnviewResident, StrandedWaits, waitVars
  <2>2. \A q \in Blocks : loading'[q] \in Nat
    BY <1>0 DEF TypeOK
  <2> QED BY <1>1, <1>5, <2>1, <2>2 DEF GivenUpStays, UnderWay
<1>9. \A q \in Blocks : ~Resident(q)' =>
        loading'[q] = 0 \/ (~Resident(q) /\ loading[q] > 0 /\ Extra(q)' = Extra(q)) \/ UnderWay(q)'
  <2>1. \A q \in Blocks : loading[q] \in Nat
    BY <1>4
  <2> QED BY <1>5, <1>6, <2>1
<1>10. GivenUp => GivenUp'
  BY <1>8, <1>9, GivenUpSame
<1>11. ASSUME Count(p) = 1 PROVE Referencing(p)' = {}
  <2>1. Cardinality(Referencing(p) \ {v}) = 0 /\ IsFiniteSet(Referencing(p) \ {v})
    BY <1>2, <1>3, <1>11, References, FS_Subset
  <2> QED BY <1>2, <2>1, FS_EmptySet
<1> QED BY <1>0, <1>2, <1>5, <1>6, <1>7, <1>10, <1>11 DEF PagingInv

-----------------------------------------------------------------------------
(* The theorems on terrains that stream and have a generator.              *)

LEMMA PagingNext ==
  ASSUME HasGenerator, StreamingEnabled, PagingInv, [Next]_vars
  PROVE  /\ PagingInv' /\ (GivenUp /\ WeightsFit => GivenUp')
         /\ \A p \in Blocks : Resident(p) /\ ~Resident(p)' => Referencing(p)' = {}
<1>0. TypeOK' /\ blocks \in [Blocks -> BlockStates]
  BY TypeNext, Maps DEF PagingInv
<1>1. CASE Drain \/ SendDataLoadRequests \/ LoadSucceeds \/ (\E p \in Blocks : LoadFails(p))
           \/ LoadEnds \/ SaveStep \/ ApplySaveResponse \/ UNCHANGED vars
  <2>1. UNCHANGED blocks
    BY <1>1 DEF Drain, SendDataLoadRequests, LoadSucceeds, LoadFound, LoadGenerated, LoadNotFound,
                LoadFails, Read, LoadEnds, CompleteLoad, SaveStep, ApplySaveResponse, vars
  <2> QED BY <1>0, <1>1, <2>1, PagingTasks DEF Resident
<1>2. CASE \E r \in [Viewers -> Ranges] : PairViewers(r)
  BY <1>2, PagingPair DEF PairViewers, Resident
<1>3. CASE \E v \in Viewers, p \in Blocks : Unview(v, p) \/ View(v, p)
  BY <1>3, PagingUnview, PagingView
<1>4. CASE ApplyDataBlockResponse
  <2>1. PICK o : ApplyLoaded(o) \/ ApplyDropped(o) \/ ApplyNotFound(o)
    BY <1>4 DEF ApplyDataBlockResponse
  <2>2. o \in Outputs /\ o.pos \in Blocks
    BY <2>1, OutputTaken DEF PagingInv, ApplyLoaded, ApplyDropped, ApplyNotFound
  <2>3. ~ApplyNotFound(o)
    BY <2>2 DEF PagingInv, OutputsExact, ApplyNotFound
  <2>4. \A p \in Blocks : Resident(p) => Resident(p)'
    BY <1>0, <2>1, <2>2, <2>3 DEF ApplyLoaded, ApplyDropped, MayInsert, Resident
  <2> QED BY <1>0, <2>1, <2>3, <2>4, PagingLoaded, PagingDropped
<1>5. CASE \E p \in Blocks : TryEditVoxel(p)
  BY <1>5, PagingEdit
<1>6. CASE \E p \in Blocks : LoadPanics(p)
  BY <1>0, <1>6, PagingPanics DEF LoadPanics, Resident
<1> QED BY <1>1, <1>2, <1>3, <1>4, <1>5, <1>6 DEF Next

LEMMA CountsNow == PagingInv /\ loadErrors = 0 => RefcountsExact
<1> SUFFICES ASSUME PagingInv, loadErrors = 0, NEW p \in Blocks
             PROVE  /\ Cardinality(Referencing(p)) =
                         IF Resident(p) THEN blocks[p].viewers ELSE loading[p]
                    /\ Resident(p) => loading[p] = 0
  BY DEF RefcountsExact
<1>1. Extra(p) = 0 /\ Count(p) = Cardinality(Referencing(p)) + Extra(p)
      /\ Cardinality(Referencing(p)) \in Nat
  BY CountsCover, References DEF PagingInv, CountsExact
<1> QED BY <1>1 DEF Count, PagingInv, CountsExact

\* TerrainPaging!RefcountsExact: the references of a block are exactly those
\* of the viewers, before, during and after its load, until a load fails.
THEOREM ReferencesAreExact ==
  ASSUME HasGenerator, StreamingEnabled
  PROVE  Spec => [](loadErrors = 0 => RefcountsExact)
<1>1. Init => PagingInv
  BY PagingInit
<1>2. PagingInv /\ [Next]_vars => PagingInv'
  BY PagingNext
<1> QED BY <1>1, <1>2, CountsNow, PTL DEF Spec

\* TerrainPaging!StaysWhileReferenced: a block that a viewer references is not
\* unloaded, however many of its loads failed before it got resident.
THEOREM ReferencedStays ==
  ASSUME HasGenerator, StreamingEnabled
  PROVE  Spec => StaysWhileReferenced
<1>1. Init => PagingInv
  BY PagingInit
<1>2. PagingInv /\ [Next]_vars =>
        PagingInv' /\ \A p \in Blocks : Resident(p) /\ ~Resident(p)' => Referencing(p)' = {}
  BY PagingNext
<1> QED BY <1>1, <1>2, PTL DEF Spec, StaysWhileReferenced

LEMMA LoadsNow == PagingInv /\ GivenUp => LoadUnderWay
<1> SUFFICES ASSUME PagingInv, GivenUp, NEW p \in Blocks,
                    loading[p] \in 1 .. RetryCap - 1, ~Resident(p), p \notin stranded, ~UnderWay(p)
             PROVE  FALSE
  <2>1. ASSUME TypeOK PROVE DOMAIN loading = Blocks
    BY <2>1, Maps
  <2> QED BY <2>1 DEF PagingInv, LoadUnderWay, OnItsWay, UnderWay, Outputs
<1>1. Extra(p) >= RetryCap /\ Count(p) = loading[p]
  BY DEF GivenUp, Count
<1>2. /\ Count(p) = Cardinality(Referencing(p)) + Extra(p) /\ Extra(p) \in Nat
      /\ Cardinality(Referencing(p)) \in Nat
  BY CountsCover, References
<1> QED BY <1>1, <1>2, PagingAssumption

\* TerrainPaging!LoadUnderWay: no viewer waits for a load that nobody makes,
\* unless the last load of the block panicked, for as many viewers as are fewer
\* than the weight of a retry.
THEOREM WaitedLoadsAreUnderWay ==
  ASSUME HasGenerator, StreamingEnabled, WeightsFit
  PROVE  Spec => []LoadUnderWay
<1>1. Init => PagingInv /\ GivenUp
  BY PagingInit
<1>2. PagingInv /\ GivenUp /\ [Next]_vars => PagingInv' /\ GivenUp'
  BY PagingNext
<1> QED BY <1>1, <1>2, LoadsNow, PTL DEF Spec

-----------------------------------------------------------------------------
(* The same of the views instance of MCPagingViews.                        *)

TwoInv == instance = "views" => PagingInv

LEMMA TwoInvNext ==
  ASSUME HasGenerator, StreamingEnabled
  PROVE  TwoInv /\ [TwoNext]_twoVars =>
           /\ TwoInv'
           /\ instance = "views" =>
                \A p \in Blocks : Resident(p) /\ ~Resident(p)' => Referencing(p)' = {}
<1> SUFFICES ASSUME TwoInv, [TwoNext]_twoVars, instance = "views" \/ instance' = "views"
             PROVE  /\ PagingInv'
                    /\ \A p \in Blocks : Resident(p) /\ ~Resident(p)' => Referencing(p)' = {}
  BY DEF TwoInv
<1>1. UNCHANGED instance /\ (Next \/ UNCHANGED vars)
  BY DEF TwoNext, twoVars, Views
<1> QED BY <1>1, PagingNext DEF TwoInv

\* MCPagingViews!ViewersExact: while no load may fail, the references of a
\* block are exactly those of the viewers.
THEOREM ViewersAreExact ==
  ASSUME HasGenerator, StreamingEnabled, MaxLoadErrors = 0
  PROVE  TwoSpec => []ViewersExact
<1>1. TwoInit => TwoInv
  BY PagingInit DEF TwoInit, TwoInv
<1>2. TwoInv /\ [TwoNext]_twoVars => TwoInv'
  BY TwoInvNext
<1>3. TwoInv => ViewersExact
  <2>1. PagingInv => loadErrors = 0
    BY DEF PagingInv, TypeOK
  <2> QED BY <2>1, CountsNow DEF TwoInv, ViewersExact
<1> QED BY <1>1, <1>2, <1>3, PTL DEF TwoSpec

\* MCPagingViews!ViewedStays: a block that a viewer references is not
\* unloaded, whatever loads fail.
THEOREM ViewedBlocksStay ==
  ASSUME HasGenerator, StreamingEnabled
  PROVE  TwoSpec => ViewedStays
<1>1. TwoInit => TwoInv
  BY PagingInit DEF TwoInit, TwoInv
<1>2. TwoInv /\ [TwoNext]_twoVars =>
        /\ TwoInv'
        /\ instance = "views" =>
             \A p \in Blocks : Resident(p) /\ ~Resident(p)' => Referencing(p)' = {}
  BY TwoInvNext
<1> QED BY <1>1, <1>2, PTL DEF TwoSpec, ViewedStays

=============================================================================
