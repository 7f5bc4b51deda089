------------------------ MODULE MeshSchedulingProofs ------------------------
(***************************************************************************)
(* Theorems about the mesh scheduler, for any blocks, viewers and boxes:   *)
(* viewers, entries and the update list stay in step, mesh tasks have      *)
(* their data when they are made and, at LOD 0, no block that could be     *)
(* meshed is forgotten.                                                    *)
(***************************************************************************)
EXTENDS MeshScheduling, FiniteSetTheorems, TLAPS

-----------------------------------------------------------------------------
(* Bags, as sets of what is in them.                                       *)

LEMMA BagAfterAdd ==
  ASSUME NEW B, NEW x
  PROVE  BagToSet(BagAdd(B, x)) = BagToSet(B) \cup {x}
BY DEF BagAdd, BagToSet

LEMMA BagAfterRemove ==
  ASSUME NEW B, NEW x
  PROVE  /\ BagToSet(BagRemove(B, x)) \subseteq BagToSet(B)
         /\ BagToSet(B) \subseteq BagToSet(BagRemove(B, x)) \cup {x}
BY DEF BagRemove, BagToSet

LEMMA BagWithout == BagToSet(EmptyBag) = {}
BY DEF EmptyBag, BagToSet, SetToBag

LEMMA BagMembers == \A B, x : BagIn(x, B) <=> x \in BagToSet(B)
BY DEF BagIn

-----------------------------------------------------------------------------
(* The inductive invariant.                                                *)

\* What the frame still has to do: pairs to view are of blocks in range, pairs to
\* unview of blocks out of range, data that leaves is wanted by nobody, and all of
\* it is over when the frame goes on.
FrameExact ==
  /\ \A v \in Viewers, p \in MeshBlocks :
       /\ <<v, p>> \in views => p \in ranges[v]
       /\ <<v, p>> \in unviews => p \notin ranges[v]
  /\ leaving \cap Wanted(ranges) = {}
  /\ step # "paging" => leaving = {} /\ unviews = {} /\ views = {}

\* Only an invalidated dependency drops meshes.
DroppedForAReason ==
  \A o \in BagToSet(completed) \cup BagToSet(inbox) : o.dropped => ~valid

\* What is listed has its data, unless its last viewer is about to unview it.
ListedHaveData ==
  valid => \A p \in MeshBlocks : update[p] > 0 =>
    \/ Around(p) \subseteq resident
    \/ step = "paging" /\ \A v \in Viewers : p \notin ranges[v]

MeshInv == TypeOK /\ FrameExact /\ MeshEntriesExact /\ DroppedForAReason /\ ListedHaveData

LEMMA MeshInit == Init => MeshInv
<1> SUFFICES ASSUME Init PROVE MeshInv
  OBVIOUS
<1>1. /\ resident = {} /\ leaving = {} /\ unviews = {} /\ views = {} /\ step = "idle"
      /\ \A p \in MeshBlocks : update[p] = 0 /\ meshes[p] = NoEntry
      /\ ranges \in [Viewers -> MeshRanges] /\ \A v \in Viewers : ranges[v] = {}
  BY MeshAssumption DEF Init, Nowhere
<1>2. /\ BagToSet(gathered) = {} /\ BagToSet(completed) = {} /\ BagToSet(inbox) = {}
  BY BagWithout DEF Init
<1>3. TypeOK
  BY <1>1, <1>2 DEF Init, TypeOK, Entries, Nowhere
<1>4. FrameExact
  BY <1>1 DEF FrameExact, Wanted
<1>5. MeshViewersExact
  BY <1>1 DEF MeshViewersExact, Viewing, HasEntry
<1>6. UpdateListExact
  BY <1>1 DEF UpdateListExact, HasEntry
<1>7. DroppedForAReason /\ ListedHaveData
  BY <1>1, <1>2 DEF DroppedForAReason, ListedHaveData
<1> QED BY <1>3, <1>4, <1>5, <1>6, <1>7 DEF MeshInv, MeshEntriesExact

-----------------------------------------------------------------------------
(* What the helpers of the actions do.                                     *)

\* The entries of the blocks in now are listed, nothing else changes.
Listed(m, now) ==
  /\ meshes' \in [MeshBlocks -> Entries]
  /\ update' \in [MeshBlocks -> Nat]
  /\ \A p \in now : m[p] # NoEntry /\ ~m[p].listed /\ meshes'[p] = [m[p] EXCEPT !.listed = TRUE]
                    /\ update'[p] = update[p] + 1
  /\ \A p \in MeshBlocks \ now : meshes'[p] = m[p] /\ update'[p] = update[p]

LEMMA ScheduleLists ==
  ASSUME NEW m \in [MeshBlocks -> Entries], NEW ps, NEW data, update \in [MeshBlocks -> Nat],
         Schedule(m, ps, data)
  PROVE  \E now \in SUBSET (ps \cap MeshBlocks) :
           /\ Listed(m, now)
           /\ \A p \in ps \cap MeshBlocks : p \in now <=> Schedulable(m, p, data)
<1> DEFINE now == {p \in ps \cap MeshBlocks : Schedulable(m, p, data)}
<1>1. /\ meshes' = [p \in MeshBlocks |-> IF p \in now THEN [m[p] EXCEPT !.listed = TRUE] ELSE m[p]]
      /\ update' = [p \in MeshBlocks |-> IF p \in now THEN update[p] + 1 ELSE update[p]]
  BY DEF Schedule
<1>2. \A p \in now : p \in MeshBlocks /\ m[p] # NoEntry /\ ~m[p].listed
  BY DEF Schedulable
<1>a. now \subseteq ps \cap MeshBlocks /\ \A p \in ps \cap MeshBlocks : p \in now <=> Schedulable(m, p, data)
  OBVIOUS
<1> HIDE DEF now
<1>3. \A p \in now : m[p] \in [viewers : Nat \ {0}, listed : BOOLEAN, loaded : BOOLEAN]
  BY <1>2 DEF Entries
<1>4. meshes' \in [MeshBlocks -> Entries]
  BY <1>1, <1>3 DEF Entries
<1>5. update' \in [MeshBlocks -> Nat]
  BY <1>1
<1>6. Listed(m, now)
  BY <1>1, <1>2, <1>4, <1>5 DEF Listed
<1> QED BY <1>a, <1>6

\* An entry that is there and one that is not differ in their number of viewers.
LEMMA EntryOrNot ==
  ASSUME NEW e \in Entries
  PROVE  /\ e = NoEntry <=> e.viewers = -1
         /\ e # NoEntry => /\ e.viewers \in Nat \ {0}
                           /\ e.listed \in BOOLEAN /\ e.loaded \in BOOLEAN
BY DEF Entries, NoEntry

LEMMA SameViewers ==
  ASSUME TypeOK, MeshViewersExact, UNCHANGED <<ranges, views, unviews>>,
         meshes' \in [MeshBlocks -> Entries],
         \A p \in MeshBlocks : meshes'[p].viewers = meshes[p].viewers
  PROVE  MeshViewersExact'
<1>1. \A p \in MeshBlocks : Viewing(p)' = Viewing(p)
  BY DEF Viewing
<1>2. \A p \in MeshBlocks : HasEntry(p)' <=> HasEntry(p)
  BY EntryOrNot DEF TypeOK, HasEntry
<1> QED
  BY <1>1, <1>2 DEF MeshViewersExact

\* Listing blocks that have an entry and are not listed keeps the list exact.
LEMMA ListingExact ==
  ASSUME TypeOK, UpdateListExact, NEW m \in [MeshBlocks -> Entries],
         \A p \in MeshBlocks : /\ m[p] = NoEntry => update[p] = 0
                               /\ m[p] # NoEntry => update[p] = IF m[p].listed THEN 1 ELSE 0,
         NEW now \in SUBSET MeshBlocks, Listed(m, now)
  PROVE  /\ UpdateListExact'
         /\ \A p \in MeshBlocks : meshes'[p].viewers = m[p].viewers
<1>1. ASSUME NEW p \in now
      PROVE  meshes'[p].viewers = m[p].viewers /\ meshes'[p] # NoEntry /\ meshes'[p].listed
             /\ update'[p] = 1
  <2>1. m[p] # NoEntry /\ ~m[p].listed /\ meshes'[p] = [m[p] EXCEPT !.listed = TRUE]
        /\ update'[p] = update[p] + 1
    BY <1>1 DEF Listed
  <2>2. m[p] \in [viewers : Nat \ {0}, listed : BOOLEAN, loaded : BOOLEAN]
    BY <2>1 DEF Entries
  <2>3. update[p] = 0
    BY <2>1
  <2> QED BY <2>1, <2>2, <2>3 DEF NoEntry
<1>2. ASSUME NEW p \in MeshBlocks \ now
      PROVE  meshes'[p] = m[p] /\ update'[p] = update[p]
  BY <1>2 DEF Listed
<1>3. UpdateListExact'
  BY <1>1, <1>2 DEF UpdateListExact, HasEntry
<1> QED BY <1>1, <1>2, <1>3

LEMMA MeshDrain ==
  ASSUME MeshInv, Drain
  PROVE  MeshInv'
<1> USE DEF MeshInv, MeshEntriesExact
<1>1. UNCHANGED <<dataVars, meshes, update, tasks, gathered, viewVars, hostVars>>
  BY DEF Drain
<1>2. BagToSet(inbox') = BagToSet(completed) /\ BagToSet(completed') = {}
  BY BagWithout DEF Drain
<1>3. /\ step \in {"idle", "paging", "meshing"} /\ step' \in {"started", "loaded", "idle"}
      /\ step = "paging" => leaving = {} /\ unviews = {} /\ views = {}
  BY DEF Drain
<1>4. TypeOK'
  BY <1>1, <1>2, <1>3 DEF TypeOK, dataVars, viewVars, hostVars
<1>5. FrameExact'
  BY <1>1, <1>3 DEF FrameExact, dataVars, viewVars, Wanted
<1>6. MeshViewersExact' /\ UpdateListExact'
  BY <1>1 DEF MeshViewersExact, UpdateListExact, Viewing, HasEntry, viewVars
<1>7. DroppedForAReason'
  BY <1>1, <1>2 DEF DroppedForAReason, hostVars
<1>8. ListedHaveData'
  <2>1. ASSUME step = "paging", NEW p \in MeshBlocks, update[p] > 0
        PROVE  \E v \in Viewers : p \in ranges[v]
    <3>1. HasEntry(p)
      BY <2>1 DEF UpdateListExact
    <3>2. Viewing(p) # {}
      BY <3>1 DEF MeshViewersExact
    <3> QED BY <1>3, <2>1, <3>2 DEF Viewing
  <2> QED BY <1>1, <1>3, <2>1 DEF ListedHaveData, dataVars, viewVars, hostVars
<1> QED BY <1>4, <1>5, <1>6, <1>7, <1>8

LEMMA MeshPairViewers ==
  ASSUME MeshInv, NEW r \in [Viewers -> MeshRanges], PairViewers(r)
  PROVE  MeshInv'
<1> USE DEF MeshInv, MeshEntriesExact
<1>1. /\ step = "started" /\ step' = "paging" /\ ranges' = r
      /\ leaving' = resident \cap (Wanted(ranges) \ Wanted(r))
      /\ unviews' = Entered(r, ranges) /\ views' = Entered(ranges, r)
      /\ UNCHANGED <<resident, meshes, update, poolVars, inbox, hostVars>>
  BY DEF PairViewers
<1>2. unviews = {} /\ views = {}
  BY <1>1 DEF FrameExact
<1>3. TypeOK'
  BY <1>1 DEF TypeOK, Entered, poolVars, hostVars
<1>a. \A v \in Viewers, p \in MeshBlocks :
         /\ <<v, p>> \in views' <=> p \in r[v] \ ranges[v]
         /\ <<v, p>> \in unviews' <=> p \in ranges[v] \ r[v]
  BY <1>1 DEF Entered
<1>4. FrameExact'
  BY <1>1, <1>a DEF FrameExact
<1>5. MeshViewersExact'
  <2>1. \A p \in MeshBlocks : Viewing(p)' = Viewing(p)
    BY <1>1, <1>2, <1>a DEF Viewing
  <2> QED BY <1>1, <2>1 DEF MeshViewersExact, HasEntry
<1>6. UpdateListExact' /\ DroppedForAReason'
  BY <1>1 DEF UpdateListExact, HasEntry, DroppedForAReason, poolVars, hostVars
<1>7. ListedHaveData'
  BY <1>1 DEF ListedHaveData, hostVars
<1> QED BY <1>3, <1>4, <1>5, <1>6, <1>7

LEMMA MeshUnloadData ==
  ASSUME MeshInv, NEW d \in Blocks, UnloadData(d)
  PROVE  MeshInv'
<1> USE DEF MeshInv, MeshEntriesExact
<1>1. /\ step = "paging" /\ d \in leaving
      /\ leaving' = leaving \ {d} /\ resident' = resident \ {d}
      /\ UNCHANGED <<meshes, update, poolVars, inbox, viewVars, step, hostVars>>
  BY DEF UnloadData
<1>2. TypeOK'
  BY <1>1 DEF TypeOK, poolVars, viewVars, hostVars
<1>3. FrameExact'
  BY <1>1 DEF FrameExact, viewVars, Wanted
<1>4. MeshViewersExact' /\ UpdateListExact' /\ DroppedForAReason'
  BY <1>1 DEF MeshViewersExact, UpdateListExact, Viewing, HasEntry, DroppedForAReason, poolVars,
              viewVars, hostVars
<1>5. ListedHaveData'
  <2>1. ASSUME NEW v \in Viewers, NEW p \in MeshBlocks, p \in ranges[v] PROVE d \notin Around(p)
    <3>1. d \in Around(p) => d \in DataBox(ranges[v])
      BY <2>1 DEF DataBox
    <3>2. d \in DataBox(ranges[v]) => d \in Wanted(ranges)
      BY DEF Wanted
    <3> QED BY <1>1, <3>1, <3>2 DEF FrameExact
  <2> QED BY <1>1, <2>1 DEF ListedHaveData, viewVars, hostVars
<1> QED BY <1>2, <1>3, <1>4, <1>5

LEMMA MeshLoadData ==
  ASSUME MeshInv, NEW d \in Blocks, LoadData(d)
  PROVE  MeshInv'
<1> USE DEF MeshInv, MeshEntriesExact
<1>1. /\ step # "paging" /\ d \in Wanted(ranges) /\ resident' = resident \cup {d}
      /\ Schedule(meshes, MeshesAround(d), resident')
      /\ UNCHANGED <<leaving, poolVars, inbox, viewVars, step, hostVars>>
  BY DEF LoadData
<1>a. PICK now \in SUBSET (MeshesAround(d) \cap MeshBlocks) :
        /\ Listed(meshes, now)
        /\ \A p \in MeshesAround(d) \cap MeshBlocks : p \in now <=> Schedulable(meshes, p, resident')
  BY <1>1, ScheduleLists DEF TypeOK
<1>2. Listed(meshes, now)
  BY <1>a
<1>3. now \subseteq MeshBlocks /\ \A p \in now : Around(p) \subseteq resident'
  BY <1>a DEF Schedulable
<1>4. UpdateListExact' /\ \A p \in MeshBlocks : meshes'[p].viewers = meshes[p].viewers
  BY <1>2, <1>3, ListingExact DEF TypeOK, UpdateListExact, HasEntry
<1>5. MeshViewersExact'
  BY <1>1, <1>2, <1>4, SameViewers DEF Listed, viewVars
<1>6. TypeOK'
  BY <1>1, <1>2 DEF TypeOK, Listed, poolVars, viewVars, hostVars
<1>7. FrameExact' /\ DroppedForAReason'
  BY <1>1 DEF FrameExact, DroppedForAReason, poolVars, viewVars, hostVars, Wanted
<1>8. ListedHaveData'
  BY <1>1, <1>2, <1>3 DEF ListedHaveData, Listed, viewVars, hostVars
<1> QED BY <1>4, <1>5, <1>6, <1>7, <1>8

LEMMA MeshView ==
  ASSUME MeshInv, NEW v \in Viewers, NEW p \in MeshBlocks, ViewMeshBlock(v, p)
  PROVE  MeshInv'
<1> USE DEF MeshInv, MeshEntriesExact
<1> DEFINE e == IF HasEntry(p) THEN meshes[p] ELSE NewEntry
           m == [meshes EXCEPT ![p] = Viewed(e)]
<1>1. /\ step = "paging" /\ <<v, p>> \in views /\ views' = views \ {<<v, p>>}
      /\ Schedule(m, {p}, resident)
      /\ UNCHANGED <<dataVars, poolVars, inbox, ranges, unviews, step, hostVars>>
  BY DEF ViewMeshBlock
<1>2. /\ e.viewers \in Nat /\ e.listed \in BOOLEAN
      /\ Viewed(e) \in [viewers : Nat \ {0}, listed : BOOLEAN, loaded : BOOLEAN]
      /\ Viewed(e).viewers = e.viewers + 1 /\ Viewed(e).listed = e.listed
  <2>1. e \in [viewers : Nat, listed : BOOLEAN, loaded : BOOLEAN]
    <3>1. HasEntry(p) => meshes[p] \in [viewers : Nat \ {0}, listed : BOOLEAN, loaded : BOOLEAN]
      BY DEF TypeOK, HasEntry, Entries
    <3> QED BY <3>1 DEF NewEntry
  <2> HIDE DEF e
  <2> QED BY <2>1 DEF Viewed
<1>3. m \in [MeshBlocks -> Entries] /\ m[p] = Viewed(e) /\ m[p] # NoEntry
      /\ \A q \in MeshBlocks \ {p} : m[q] = meshes[q]
  BY <1>2 DEF TypeOK, Entries, NoEntry
<1>4. e.listed <=> HasEntry(p) /\ meshes[p].listed
  BY DEF NewEntry
<1>5. \A q \in MeshBlocks : /\ m[q] = NoEntry => update[q] = 0
                            /\ m[q] # NoEntry => update[q] = IF m[q].listed THEN 1 ELSE 0
  BY <1>2, <1>3, <1>4 DEF UpdateListExact, HasEntry
<1>u. update \in [MeshBlocks -> Nat]
  BY DEF TypeOK
<1> HIDE DEF m
<1>a. PICK now \in SUBSET ({p} \cap MeshBlocks) :
        /\ Listed(m, now)
        /\ \A q \in {p} \cap MeshBlocks : q \in now <=> Schedulable(m, q, resident)
  BY <1>1, <1>3, <1>u, ScheduleLists
<1>6. UpdateListExact' /\ \A q \in MeshBlocks : meshes'[q].viewers = m[q].viewers
  BY <1>3, <1>5, <1>a, ListingExact
<1>7. meshes' \in [MeshBlocks -> Entries] /\ update' \in [MeshBlocks -> Nat]
  BY <1>a DEF Listed
<1>8. MeshViewersExact'
  <2>1. ASSUME NEW q \in MeshBlocks \ {p}
        PROVE  Viewing(q)' = Viewing(q) /\ (HasEntry(q)' <=> HasEntry(q))
               /\ meshes'[q].viewers = meshes[q].viewers
    <3>1. Viewing(q)' = Viewing(q)
      BY <1>1, <2>1 DEF Viewing
    <3>2. meshes'[q].viewers = meshes[q].viewers
      BY <1>3, <1>6, <2>1
    <3> QED BY <1>7, <2>1, <3>1, <3>2, EntryOrNot DEF HasEntry, TypeOK
  <2>2. v \notin Viewing(p) /\ Viewing(p)' = Viewing(p) \cup {v}
    BY <1>1 DEF Viewing, FrameExact
  <2>3. IsFiniteSet(Viewing(p))
    BY MeshAssumption, FS_Subset DEF Viewing
  <2>4. Cardinality(Viewing(p)') = Cardinality(Viewing(p)) + 1
    BY <2>2, <2>3, FS_AddElement
  <2>5. e.viewers = Cardinality(Viewing(p))
    BY <2>3, FS_EmptySet DEF MeshViewersExact, NewEntry
  <2>6. meshes'[p].viewers = Cardinality(Viewing(p)')
    BY <1>2, <1>3, <1>6, <2>4, <2>5
  <2>7. HasEntry(p)' /\ Viewing(p)' # {}
    <3>1. meshes'[p].viewers # -1
      BY <1>2, <1>3, <1>6
    <3> QED BY <2>2, <3>1 DEF HasEntry, NoEntry
  <2> QED BY <2>1, <2>6, <2>7 DEF MeshViewersExact
<1>9. TypeOK'
  BY <1>1, <1>7 DEF TypeOK, dataVars, poolVars, hostVars
<1>10. FrameExact' /\ DroppedForAReason'
  BY <1>1 DEF FrameExact, DroppedForAReason, dataVars, poolVars, hostVars, Wanted
<1>11. ListedHaveData'
  <2>1. \A q \in now : Around(q) \subseteq resident
    BY <1>a DEF Schedulable
  <2>2. \A q \in MeshBlocks \ now : update'[q] = update[q]
    BY <1>a DEF Listed
  <2> QED BY <1>1, <2>1, <2>2 DEF ListedHaveData, dataVars, hostVars
<1> QED BY <1>6, <1>8, <1>9, <1>10, <1>11

LEMMA MeshUnview ==
  ASSUME MeshInv, NEW v \in Viewers, NEW p \in MeshBlocks, UnviewMeshBlock(v, p)
  PROVE  MeshInv'
<1> USE DEF MeshInv, MeshEntriesExact
<1>1. /\ step = "paging" /\ <<v, p>> \in unviews /\ unviews' = unviews \ {<<v, p>>}
      /\ UNCHANGED <<dataVars, poolVars, inbox, ranges, views, step, hostVars>>
  BY DEF UnviewMeshBlock
<1>2. v \in Viewing(p) /\ Viewing(p)' = Viewing(p) \ {v}
      /\ \A q \in MeshBlocks \ {p} : Viewing(q)' = Viewing(q)
  BY <1>1 DEF Viewing, FrameExact
<1>3. IsFiniteSet(Viewing(p))
  BY MeshAssumption, FS_Subset DEF Viewing
<1>4. Cardinality(Viewing(p)') = Cardinality(Viewing(p)) - 1 /\ Cardinality(Viewing(p)) \in Nat
  BY <1>2, <1>3, FS_RemoveElement, FS_CardinalityType
<1>5. HasEntry(p) /\ meshes[p].viewers = Cardinality(Viewing(p))
  BY <1>2 DEF MeshViewersExact
<1>6. meshes[p] \in [viewers : Nat \ {0}, listed : BOOLEAN, loaded : BOOLEAN]
  BY <1>5 DEF TypeOK, Entries, HasEntry
<1>7. CASE LosesLastViewer(meshes[p])
  <2>1. meshes' = [meshes EXCEPT ![p] = NoEntry] /\ update' = [update EXCEPT ![p] = 0]
    BY <1>5, <1>7 DEF UnviewMeshBlock, Unlisted
  <2>2. Viewing(p)' = {}
    <3>1. Cardinality(Viewing(p)') = 0
      BY <1>4, <1>5, <1>6, <1>7 DEF LosesLastViewer
    <3> QED BY <1>2, <1>3, <3>1, FS_RemoveElement, FS_EmptySet
  <2>3. MeshViewersExact'
    BY <1>2, <2>1, <2>2 DEF MeshViewersExact, HasEntry, TypeOK
  <2>4. UpdateListExact'
    BY <2>1 DEF UpdateListExact, HasEntry, TypeOK
  <2>5. TypeOK'
    BY <1>1, <2>1 DEF TypeOK, Entries, dataVars, poolVars, hostVars
  <2>6. ListedHaveData'
    BY <1>1, <2>1 DEF ListedHaveData, dataVars, hostVars, TypeOK
  <2>7. FrameExact' /\ DroppedForAReason'
    BY <1>1 DEF FrameExact, DroppedForAReason, dataVars, poolVars, hostVars, Wanted
  <2> QED BY <2>3, <2>4, <2>5, <2>6, <2>7
<1>8. CASE ~LosesLastViewer(meshes[p])
  <2>1. meshes' = [meshes EXCEPT ![p].viewers = @ - 1] /\ update' = update
    BY <1>5, <1>8 DEF UnviewMeshBlock
  <2>2. /\ meshes'[p].viewers = meshes[p].viewers - 1 /\ meshes'[p].listed = meshes[p].listed
        /\ meshes'[p] \in [viewers : Nat \ {0}, listed : BOOLEAN, loaded : BOOLEAN]
        /\ \A q \in MeshBlocks \ {p} : meshes'[q] = meshes[q]
    BY <1>6, <1>8, <2>1 DEF LosesLastViewer, TypeOK
  <2>3. HasEntry(p)'
    BY <2>2 DEF HasEntry, NoEntry
  <2>4. Viewing(p)' # {}
    BY <1>2, <1>3, <1>4, <1>5, <1>6, <1>8, <2>2, FS_EmptySet DEF LosesLastViewer
  <2>5. MeshViewersExact'
    BY <1>2, <1>4, <1>5, <2>2, <2>3, <2>4 DEF MeshViewersExact, HasEntry
  <2>6. UpdateListExact'
    BY <1>5, <2>1, <2>2, <2>3 DEF UpdateListExact, HasEntry
  <2>7. TypeOK'
    BY <1>1, <2>1, <2>2 DEF TypeOK, Entries, dataVars, poolVars, hostVars
  <2>8. ListedHaveData'
    BY <1>1, <2>1 DEF ListedHaveData, dataVars, hostVars
  <2>9. FrameExact' /\ DroppedForAReason'
    BY <1>1 DEF FrameExact, DroppedForAReason, dataVars, poolVars, hostVars, Wanted
  <2> QED BY <2>5, <2>6, <2>7, <2>8, <2>9
<1> QED BY <1>7, <1>8

LEMMA MeshProcess ==
  ASSUME MeshInv, ProcessMeshing
  PROVE  MeshInv'
<1> USE DEF MeshInv, MeshEntriesExact
<1>1. /\ step = "loaded" /\ step' = "meshing"
      /\ tasks' = [p \in MeshBlocks |-> tasks[p] + update[p]]
      /\ update' = Nowhere
      /\ UNCHANGED <<dataVars, gathered, completed, inbox, viewVars, hostVars>>
  BY DEF ProcessMeshing
<1>2. ASSUME NEW p \in MeshBlocks
      PROVE  /\ meshes'[p] \in Entries /\ meshes'[p].viewers = meshes[p].viewers
             /\ meshes'[p] # NoEntry => ~meshes'[p].listed
  <2>1. meshes'[p] = IF HasEntry(p) /\ update[p] > 0
                     THEN [meshes[p] EXCEPT !.listed = FALSE] ELSE meshes[p]
    BY DEF ProcessMeshing
  <2>2. HasEntry(p) => meshes[p] \in [viewers : Nat \ {0}, listed : BOOLEAN, loaded : BOOLEAN]
    BY DEF TypeOK, Entries, HasEntry
  <2>3. CASE HasEntry(p) /\ update[p] > 0
    BY <2>1, <2>2, <2>3 DEF Entries
  <2>4. CASE ~(HasEntry(p) /\ update[p] > 0)
    BY <2>1, <2>4 DEF UpdateListExact, TypeOK, HasEntry
  <2> QED BY <2>3, <2>4
<1>3. meshes' \in [MeshBlocks -> Entries]
  <2>1. meshes' = [p \in MeshBlocks |-> IF HasEntry(p) /\ update[p] > 0
                                     THEN [meshes[p] EXCEPT !.listed = FALSE] ELSE meshes[p]]
    BY DEF ProcessMeshing
  <2> QED BY <1>2, <2>1
<1>4. MeshViewersExact'
  BY <1>1, <1>2, <1>3, SameViewers DEF viewVars
<1>5. UpdateListExact'
  BY <1>1, <1>2 DEF UpdateListExact, Nowhere, HasEntry
<1>6. TypeOK'
  BY <1>1, <1>3 DEF TypeOK, Nowhere, dataVars, viewVars, hostVars
<1>7. FrameExact' /\ DroppedForAReason' /\ ListedHaveData'
  BY <1>1 DEF FrameExact, DroppedForAReason, ListedHaveData, Nowhere, dataVars, viewVars, hostVars, Wanted
<1> QED BY <1>4, <1>5, <1>6, <1>7

LEMMA MeshApply ==
  ASSUME MeshInv, ApplyMeshUpdate
  PROVE  MeshInv'
<1> USE DEF MeshInv, MeshEntriesExact
<1>1. PICK o \in BagToSet(inbox) : ApplyDropped(o) \/ ApplyMesh(o)
  BY DEF ApplyMeshUpdate
<1>2. /\ inbox' = BagRemove(inbox, o)
      /\ UNCHANGED <<dataVars, poolVars, viewVars, step, hostVars>>
  BY <1>1 DEF ApplyDropped, ApplyMesh, Take
<1>3. BagToSet(inbox') \subseteq BagToSet(inbox)
  BY <1>2, BagAfterRemove
<1>4. o.pos \in MeshBlocks
  BY DEF TypeOK
<1>5. FrameExact' /\ DroppedForAReason'
  BY <1>2, <1>3 DEF FrameExact, DroppedForAReason, dataVars, poolVars, viewVars, hostVars, Wanted
<1>6. CASE UNCHANGED <<meshes, update>>
  <2>1. TypeOK' /\ MeshViewersExact' /\ UpdateListExact' /\ ListedHaveData'
    BY <1>2, <1>3, <1>6 DEF TypeOK, MeshViewersExact, UpdateListExact, Viewing, HasEntry,
         ListedHaveData, dataVars, poolVars, viewVars, hostVars
  <2> QED BY <1>5, <2>1
<1>7. CASE o.dropped /\ HasEntry(o.pos) /\ ~meshes[o.pos].listed
           /\ meshes' = [meshes EXCEPT ![o.pos].listed = TRUE]
           /\ update' = [update EXCEPT ![o.pos] = @ + 1]
  <2>1. meshes[o.pos] \in [viewers : Nat \ {0}, listed : BOOLEAN, loaded : BOOLEAN]
    BY <1>4, <1>7 DEF TypeOK, Entries, HasEntry
  <2>2. Listed(meshes, {o.pos})
    <3>1. [meshes[o.pos] EXCEPT !.listed = TRUE] \in Entries
      BY <2>1 DEF Entries
    <3>2. /\ meshes' \in [MeshBlocks -> Entries]
          /\ meshes'[o.pos] = [meshes[o.pos] EXCEPT !.listed = TRUE]
          /\ \A p \in MeshBlocks \ {o.pos} : meshes'[p] = meshes[p]
      BY <1>4, <1>7, <3>1 DEF TypeOK
    <3>3. /\ update' \in [MeshBlocks -> Nat] /\ update'[o.pos] = update[o.pos] + 1
          /\ \A p \in MeshBlocks \ {o.pos} : update'[p] = update[p]
      BY <1>4, <1>7 DEF TypeOK
    <3> QED BY <1>7, <3>2, <3>3 DEF Listed, HasEntry
  <2>3. UpdateListExact' /\ \A p \in MeshBlocks : meshes'[p].viewers = meshes[p].viewers
    BY <1>4, <2>2, ListingExact DEF TypeOK, UpdateListExact, HasEntry
  <2>4. MeshViewersExact'
    BY <1>2, <2>2, <2>3, SameViewers DEF Listed, viewVars
  <2>5. TypeOK'
    BY <1>2, <1>3, <2>2 DEF TypeOK, Listed, dataVars, poolVars, viewVars, hostVars
  <2>6. ~valid
    BY <1>7 DEF DroppedForAReason
  <2>7. ListedHaveData'
    BY <1>2, <2>6 DEF ListedHaveData, hostVars
  <2> QED BY <1>5, <2>3, <2>4, <2>5, <2>7
<1>8. CASE HasEntry(o.pos) /\ update' = update
           /\ meshes' = [meshes EXCEPT ![o.pos].loaded = TRUE]
  <2>1. meshes[o.pos] \in [viewers : Nat \ {0}, listed : BOOLEAN, loaded : BOOLEAN]
    BY <1>4, <1>8 DEF TypeOK, Entries, HasEntry
  <2>2. /\ meshes' \in [MeshBlocks -> Entries]
        /\ meshes'[o.pos].listed = meshes[o.pos].listed
        /\ meshes'[o.pos].viewers = meshes[o.pos].viewers
        /\ \A p \in MeshBlocks \ {o.pos} : meshes'[p] = meshes[p]
    BY <1>4, <1>8, <2>1 DEF TypeOK, Entries
  <2>3. MeshViewersExact'
    BY <1>2, <2>2, SameViewers DEF viewVars
  <2>4. HasEntry(o.pos)'
    BY <1>4, <2>1, <2>2, EntryOrNot DEF HasEntry
  <2>5. UpdateListExact'
    BY <1>8, <2>2, <2>4 DEF UpdateListExact, HasEntry
  <2>6. TypeOK' /\ ListedHaveData'
    BY <1>2, <1>3, <1>8, <2>2 DEF TypeOK, ListedHaveData, dataVars, poolVars, viewVars, hostVars
  <2> QED BY <1>5, <2>3, <2>5, <2>6
<1> QED
  BY <1>1, <1>6, <1>7, <1>8 DEF ApplyDropped, ApplyMesh

LEMMA MeshPool ==
  ASSUME MeshInv, NEW p \in MeshBlocks,
         CancelMeshTask(p) \/ GatherVoxels(p) \/ FinishMesh(p) \/ MesherPanics(p)
  PROVE  MeshInv'
<1> USE DEF MeshInv, MeshEntriesExact
<1>1. UNCHANGED <<dataVars, meshes, update, inbox, viewVars, step, valid>>
  BY DEF CancelMeshTask, GatherVoxels, FinishMesh, MesherPanics, hostVars
<1>2. /\ tasks' \in [MeshBlocks -> Nat] /\ BagToSet(gathered') \subseteq MeshBlocks
      /\ panicked' \subseteq MayPanic
  BY BagAfterAdd, BagAfterRemove
     DEF CancelMeshTask, GatherVoxels, FinishMesh, MesherPanics, TypeOK, hostVars
<1>3. \A o \in BagToSet(completed') : o \in BagToSet(completed) \/ o = [pos |-> p, dropped |-> ~valid]
  BY BagAfterAdd DEF CancelMeshTask, GatherVoxels, FinishMesh, MesherPanics, hostVars
<1> DEFINE out == [pos |-> p, dropped |-> ~valid]
<1>a. (~valid) \in BOOLEAN
  <2>1. CASE valid
    BY <2>1
  <2>2. CASE ~valid
    BY <2>2
  <2> QED BY <2>1, <2>2
<1>b. out \in [pos : MeshBlocks, dropped : BOOLEAN] /\ out.dropped = ~valid
  BY <1>a
<1>c. \A o \in BagToSet(completed') : o \in BagToSet(completed) \/ o = out
  BY <1>3
<1> HIDE DEF out
<1>4. TypeOK'
  BY <1>1, <1>2, <1>b, <1>c DEF TypeOK, dataVars, viewVars
<1>5. DroppedForAReason'
  BY <1>1, <1>b, <1>c DEF DroppedForAReason
<1>6. FrameExact' /\ MeshViewersExact' /\ UpdateListExact' /\ ListedHaveData'
  BY <1>1 DEF FrameExact, MeshViewersExact, UpdateListExact, Viewing, HasEntry, ListedHaveData,
              dataVars, viewVars, Wanted
<1> QED BY <1>4, <1>5, <1>6

LEMMA MeshStep == MeshInv /\ [Next]_vars => MeshInv'
<1> SUFFICES ASSUME MeshInv, [Next]_vars PROVE MeshInv'
  OBVIOUS
<1>1. CASE Invalidate
  <2>1. UNCHANGED <<dataVars, meshes, update, poolVars, inbox, viewVars, step, panicked>>
        /\ valid' = FALSE
    BY <1>1 DEF Invalidate
  <2>a. TypeOK'
    BY <2>1 DEF MeshInv, TypeOK, dataVars, poolVars, viewVars
  <2>2. DroppedForAReason' /\ ListedHaveData'
    BY <2>1 DEF DroppedForAReason, ListedHaveData
  <2>3. FrameExact' /\ MeshViewersExact' /\ UpdateListExact'
    BY <2>1 DEF MeshInv, MeshEntriesExact, FrameExact, MeshViewersExact, UpdateListExact, Viewing,
                HasEntry, dataVars, viewVars, Wanted
  <2> QED BY <2>a, <2>2, <2>3 DEF MeshInv, MeshEntriesExact
<1>2. CASE UNCHANGED vars
  BY <1>2 DEF vars, MeshInv, MeshEntriesExact, TypeOK, FrameExact, MeshViewersExact,
              UpdateListExact, Viewing, HasEntry, DroppedForAReason, ListedHaveData, dataVars,
              poolVars, viewVars, hostVars, Wanted
<1> QED
  BY <1>1, <1>2, MeshDrain, MeshPairViewers, MeshUnloadData, MeshLoadData, MeshView, MeshUnview,
     MeshProcess, MeshApply, MeshPool DEF Next

LEMMA MeshInvariance == Spec => []MeshInv
BY MeshInit, MeshStep, PTL DEF Spec

\* Whatever viewers do between and during frames, an entry has the viewers that
\* have its block in range and is in the update list at most once, as its flag says.
THEOREM EntriesAreExact == Spec => []MeshEntriesExact
BY MeshInvariance, PTL DEF MeshInv

\* When process_meshing makes the tasks, all listed blocks have their data.
THEOREM TasksFindTheirData == Spec => []TasksHaveTheirData
<1>1. MeshInv => TasksHaveTheirData
  BY DEF MeshInv, ListedHaveData, TasksHaveTheirData
<1> QED BY <1>1, MeshInvariance, PTL

-----------------------------------------------------------------------------
(* No block is forgotten, at LOD 0.                                        *)

\* p is asked for, on its way to a mesh, or has one.
LookedAfter(p) ==
  \/ meshes[p].listed \/ meshes[p].loaded
  \/ tasks[p] > 0 \/ BagIn(p, gathered)
  \/ \E o \in BagToSet(completed) \cup BagToSet(inbox) : o.pos = p

Meshable(p) == HasEntry(p) /\ Around(p) \subseteq resident /\ valid /\ p \notin panicked

LEMMA StillLookedAfter ==
  ASSUME MeshInv, MeshInv', NEW p \in MeshBlocks, Meshable(p), Meshable(p)',
         LookedAfter(p), [Next]_vars
  PROVE  LookedAfter(p)'
<1> USE DEF MeshInv, MeshEntriesExact
<1>a. /\ meshes[p] \in [viewers : Nat \ {0}, listed : BOOLEAN, loaded : BOOLEAN]
      /\ meshes'[p] \in [viewers : Nat \ {0}, listed : BOOLEAN, loaded : BOOLEAN]
      /\ tasks \in [MeshBlocks -> Nat] /\ update \in [MeshBlocks -> Nat] /\ valid
      /\ meshes \in [MeshBlocks -> Entries]
  BY DEF Meshable, HasEntry, TypeOK, Entries
<1>1. CASE Drain
  BY <1>1 DEF Drain, LookedAfter
<1>2. ASSUME UNCHANGED <<tasks, gathered, completed, inbox>>,
             meshes[p].listed => meshes'[p].listed, meshes[p].loaded => meshes'[p].loaded
      PROVE  LookedAfter(p)'
  BY <1>2 DEF LookedAfter
<1>3. CASE \E r \in [Viewers -> MeshRanges] : PairViewers(r)
  BY <1>2, <1>3 DEF PairViewers, poolVars
<1>4. ASSUME NEW d \in Blocks, UnloadData(d) PROVE LookedAfter(p)'
  BY <1>2, <1>4 DEF UnloadData, poolVars
<1>5. ASSUME NEW d \in Blocks, LoadData(d) PROVE LookedAfter(p)'
  <2>1. Schedule(meshes, MeshesAround(d), resident') /\ UNCHANGED <<poolVars, inbox>>
    BY <1>5 DEF LoadData
  <2>2. meshes'[p] = meshes[p] \/ meshes'[p] = [meshes[p] EXCEPT !.listed = TRUE]
    BY <2>1 DEF Schedule
  <2> QED BY <1>2, <1>a, <2>1, <2>2 DEF poolVars
<1>6. ASSUME NEW v \in Viewers, NEW q \in MeshBlocks, ViewMeshBlock(v, q) PROVE LookedAfter(p)'
  <2> DEFINE e == IF HasEntry(q) THEN meshes[q] ELSE NewEntry
             m == [meshes EXCEPT ![q] = Viewed(e)]
  <2>1. Schedule(m, {q}, resident) /\ UNCHANGED <<poolVars, inbox>>
    BY <1>6 DEF ViewMeshBlock
  <2>2. meshes'[p] = m[p] \/ meshes'[p] = [m[p] EXCEPT !.listed = TRUE]
    BY <2>1 DEF Schedule
  <2>3. m[p] = meshes[p] \/ m[p] = [meshes[p] EXCEPT !.viewers = @ + 1]
    BY <1>a DEF Viewed, Meshable
  <2>4. m[p].listed = meshes[p].listed /\ m[p].loaded = meshes[p].loaded
        /\ m[p] \in [viewers : Nat, listed : BOOLEAN, loaded : BOOLEAN]
    BY <1>a, <2>3
  <2> HIDE DEF m
  <2> QED BY <1>2, <1>a, <2>1, <2>2, <2>4 DEF poolVars
<1>7. ASSUME NEW v \in Viewers, NEW q \in MeshBlocks, UnviewMeshBlock(v, q) PROVE LookedAfter(p)'
  <2>1. UNCHANGED <<poolVars, inbox>>
    BY <1>7 DEF UnviewMeshBlock
  <2>2. CASE q # p
    BY <1>2, <1>7, <1>a, <2>1, <2>2 DEF UnviewMeshBlock, poolVars
  <2>3. CASE q = p
    <3>1. meshes' = [meshes EXCEPT ![q] = NoEntry] \/ meshes' = [meshes EXCEPT ![q].viewers = @ - 1]
      BY <1>7, <2>3 DEF UnviewMeshBlock, Meshable
    <3>2. meshes' # [meshes EXCEPT ![q] = NoEntry]
      BY <1>a, <2>3 DEF NoEntry
    <3>3. meshes'[p] = [meshes[p] EXCEPT !.viewers = @ - 1]
      BY <1>a, <2>3, <3>1, <3>2
    <3> QED BY <1>2, <1>a, <2>1, <3>3 DEF poolVars
  <2> QED BY <2>2, <2>3
<1>8. CASE ProcessMeshing
  <2>1. /\ tasks'[p] = tasks[p] + update[p] /\ UNCHANGED <<gathered, completed, inbox>>
        /\ update[p] = IF meshes[p].listed THEN 1 ELSE 0
    BY <1>8, <1>a DEF ProcessMeshing, UpdateListExact, Meshable
  <2>2. meshes'[p] = meshes[p] \/ meshes'[p] = [meshes[p] EXCEPT !.listed = FALSE]
    BY <1>8 DEF ProcessMeshing
  <2>3. meshes'[p].loaded = meshes[p].loaded
    BY <1>a, <2>2
  <2> QED BY <1>a, <2>1, <2>3 DEF LookedAfter
<1>9. CASE ApplyMeshUpdate
  <2>1. PICK o \in BagToSet(inbox) : ApplyDropped(o) \/ ApplyMesh(o)
    BY <1>9 DEF ApplyMeshUpdate
  <2>2. ~o.dropped
    BY <1>a DEF DroppedForAReason
  <2>3. /\ ApplyMesh(o) /\ o.pos \in MeshBlocks
        /\ inbox' = BagRemove(inbox, o) /\ UNCHANGED <<tasks, gathered, completed>>
    BY <2>1, <2>2 DEF ApplyDropped, ApplyMesh, Take, poolVars, TypeOK
  <2>4. BagToSet(inbox) \subseteq BagToSet(inbox') \cup {o}
    BY <2>3, BagAfterRemove
  <2>5. CASE o.pos = p
    <3>1. meshes' = [meshes EXCEPT ![p].loaded = TRUE]
      BY <2>3, <2>5 DEF ApplyMesh, Meshable
    <3>2. meshes'[p].loaded
      BY <1>a, <3>1
    <3> QED BY <3>2 DEF LookedAfter
  <2>6. CASE o.pos # p
    <3>1. meshes'[p] = meshes[p]
      BY <1>a, <2>3, <2>6 DEF ApplyMesh
    <3> QED BY <2>3, <2>4, <2>6, <3>1 DEF LookedAfter
  <2> QED BY <2>5, <2>6
<1>10. ASSUME NEW q \in MeshBlocks,
              CancelMeshTask(q) \/ GatherVoxels(q) \/ FinishMesh(q) \/ MesherPanics(q)
       PROVE  LookedAfter(p)'
  <2>1. UNCHANGED <<meshes, inbox>> /\ ~CancelMeshTask(q)
    BY <1>10, <1>a DEF CancelMeshTask, GatherVoxels, FinishMesh, MesherPanics
  <2>2. CASE GatherVoxels(q)
    <3>1. BagToSet(gathered') = BagToSet(gathered) \cup {q} /\ completed' = completed
      BY <2>2, BagAfterAdd DEF GatherVoxels
    <3>2. q # p => tasks'[p] = tasks[p]
      BY <1>a, <2>2 DEF GatherVoxels
    <3> QED BY <2>1, <3>1, <3>2, BagMembers DEF LookedAfter
  <2>3. CASE FinishMesh(q)
    <3>1. /\ BagToSet(gathered) \subseteq BagToSet(gathered') \cup {q}
          /\ BagToSet(completed') = BagToSet(completed) \cup {[pos |-> q, dropped |-> ~valid]}
          /\ tasks' = tasks
      BY <2>3, BagAfterAdd, BagAfterRemove DEF FinishMesh
    <3>2. q = p => \E o \in BagToSet(completed') : o.pos = p
      <4>1. [pos |-> q, dropped |-> ~valid] \in BagToSet(completed')
        BY <3>1
      <4>2. [pos |-> q, dropped |-> ~valid].pos = q
        OBVIOUS
      <4> QED BY <4>1, <4>2
    <3>3. BagToSet(completed) \subseteq BagToSet(completed')
      BY <3>1
    <3> QED BY <2>1, <3>1, <3>2, <3>3, BagMembers DEF LookedAfter
  <2>4. CASE MesherPanics(q)
    <3>1. /\ BagToSet(gathered) \subseteq BagToSet(gathered') \cup {q} /\ q \in panicked'
          /\ UNCHANGED <<tasks, completed>>
      BY <2>4, BagAfterRemove DEF MesherPanics
    <3>2. q # p
      BY <3>1 DEF Meshable
    <3> QED BY <2>1, <3>1, <3>2, BagMembers DEF LookedAfter
  <2> QED BY <1>10, <2>1, <2>2, <2>3, <2>4
<1>11. CASE Invalidate \/ UNCHANGED vars
  BY <1>2, <1>11 DEF Invalidate, vars, poolVars
<1> QED
  BY <1>1, <1>3, <1>4, <1>5, <1>6, <1>7, <1>8, <1>9, <1>10, <1>11 DEF Next

\* A block gets meshable by its first viewer or by its last data block, and is
\* listed then; with a stride of 1 try_schedule_mesh_update_from_data finds it.
LEMMA NewlyLookedAfter ==
  ASSUME LodStride = 1, MeshInv, MeshInv', NEW p \in MeshBlocks, ~Meshable(p), Meshable(p)',
         [Next]_vars
  PROVE  LookedAfter(p)'
<1> USE DEF MeshInv
<1>a. /\ meshes'[p] \in [viewers : Nat \ {0}, listed : BOOLEAN, loaded : BOOLEAN]
      /\ meshes \in [MeshBlocks -> Entries] /\ update \in [MeshBlocks -> Nat]
      /\ resident \subseteq Blocks /\ resident' \subseteq Blocks /\ p \in Int
  BY MeshAssumption DEF Meshable, HasEntry, TypeOK, Entries, MeshBlocks
<1>1. ASSUME NEW d \in Blocks, LoadData(d) PROVE LookedAfter(p)'
  <2>1. /\ Schedule(meshes, MeshesAround(d), resident') /\ resident' = resident \cup {d}
        /\ UNCHANGED <<hostVars>>
    BY <1>1 DEF LoadData
  <2>2. PICK now \in SUBSET (MeshesAround(d) \cap MeshBlocks) :
        /\ Listed(meshes, now)
        /\ \A q \in MeshesAround(d) \cap MeshBlocks : q \in now <=> Schedulable(meshes, q, resident')
    BY <1>a, <2>1, ScheduleLists
  <2>3. HasEntry(p) /\ meshes[p].viewers # 0
    <3>1. CASE p \in now
      BY <1>a, <2>2, <3>1, EntryOrNot DEF Listed, HasEntry
    <3>2. CASE p \notin now
      BY <1>a, <2>2, <3>2, EntryOrNot DEF Listed, HasEntry, Meshable
    <3> QED BY <3>1, <3>2
  <2>4. d \in Around(p)
    BY <2>1, <2>3 DEF Meshable, hostVars
  <2>5. p \in MeshesAround(d)
    <3>1. d \in Int
      BY <2>4, <1>a DEF Around
    <3>2. d * LodStride = d
      BY <3>1
    <3> QED BY <1>a, <2>4, <3>1, <3>2 DEF Around, MeshesAround
  <2>6. meshes'[p].listed
    <3>1. CASE p \in now
      BY <2>2, <2>3, <3>1, <1>a DEF Listed, Entries, HasEntry
    <3>2. CASE p \notin now
      <4>1. ~Schedulable(meshes, p, resident') /\ meshes'[p] = meshes[p]
        BY <2>2, <2>5, <3>2 DEF Listed
      <4> QED BY <2>3, <4>1 DEF Schedulable, HasEntry, Meshable
    <3> QED BY <3>1, <3>2
  <2> QED BY <2>6 DEF LookedAfter
<1>2. ASSUME NEW v \in Viewers, NEW q \in MeshBlocks, ViewMeshBlock(v, q) PROVE LookedAfter(p)'
  <2> DEFINE e == IF HasEntry(q) THEN meshes[q] ELSE NewEntry
             m == [meshes EXCEPT ![q] = Viewed(e)]
  <2>1. Schedule(m, {q}, resident) /\ UNCHANGED <<dataVars, hostVars>>
    BY <1>2 DEF ViewMeshBlock
  <2>2. meshes' = [r \in MeshBlocks |-> IF r \in {s \in {q} \cap MeshBlocks : Schedulable(m, s, resident)}
                                        THEN [m[r] EXCEPT !.listed = TRUE] ELSE m[r]]
    BY <2>1 DEF Schedule
  <2>3. p = q
    <3>1. p # q => meshes'[p] = meshes[p]
      BY <1>a, <2>2
    <3> QED BY <2>1, <3>1 DEF Meshable, HasEntry, dataVars, hostVars
  <2>4. CASE Schedulable(m, p, resident)
    <3>1. meshes'[p] = [m[p] EXCEPT !.listed = TRUE]
      BY <2>2, <2>3, <2>4
    <3>2. m[p] = [e EXCEPT !.viewers = @ + 1] /\ e \in [viewers : Int, listed : BOOLEAN, loaded : BOOLEAN]
      <4>1. m[p] = Viewed(e)
        BY <1>a, <2>3
      <4>2. meshes[q] \in [viewers : Int, listed : BOOLEAN, loaded : BOOLEAN]
        <5>1. NoEntry \in [viewers : Int, listed : BOOLEAN, loaded : BOOLEAN]
          BY DEF NoEntry
        <5>2. meshes[q] \in Entries
          BY <1>a
        <5> QED BY <5>1, <5>2 DEF Entries
      <4>3. NewEntry \in [viewers : Int, listed : BOOLEAN, loaded : BOOLEAN]
        BY DEF NewEntry
      <4>4. e \in [viewers : Int, listed : BOOLEAN, loaded : BOOLEAN]
        BY <4>2, <4>3
      <4> QED BY <4>1, <4>4 DEF Viewed
    <3> HIDE DEF m, e
    <3>3. meshes'[p].listed
      BY <3>1, <3>2
    <3> QED BY <3>3 DEF LookedAfter
  <2>5. CASE ~Schedulable(m, p, resident)
    <3>1. meshes'[p] = m[p]
      BY <2>2, <2>3, <2>5
    <3>2. m[p] # NoEntry /\ m[p].viewers # 0 /\ Around(p) \subseteq resident
      BY <1>a, <2>1, <3>1 DEF Meshable, HasEntry, NoEntry, dataVars
    <3>3. m[p].listed
      BY <2>5, <3>2 DEF Schedulable
    <3> QED BY <3>1, <3>3 DEF LookedAfter
  <2> QED BY <2>4, <2>5
<1>3. CASE UNCHANGED meshes /\ resident' \subseteq resident /\ (valid' => valid) /\ panicked \subseteq panicked'
  BY <1>3 DEF Meshable, HasEntry
<1>4. CASE Drain \/ (\E r \in [Viewers -> MeshRanges] : PairViewers(r)) \/ (\E d \in Blocks : UnloadData(d))
  BY <1>3, <1>4 DEF Drain, PairViewers, UnloadData, dataVars, hostVars
<1>5. ASSUME NEW q \in MeshBlocks,
              CancelMeshTask(q) \/ GatherVoxels(q) \/ FinishMesh(q) \/ MesherPanics(q)
      PROVE  LookedAfter(p)'
  BY <1>3, <1>5 DEF CancelMeshTask, GatherVoxels, FinishMesh, MesherPanics, dataVars, hostVars
<1>6. CASE Invalidate \/ UNCHANGED vars
  BY <1>3, <1>6 DEF Invalidate, vars, dataVars, hostVars
<1>7. ASSUME UNCHANGED <<resident, hostVars>>, HasEntry(p)' => HasEntry(p) PROVE LookedAfter(p)'
  BY <1>7 DEF Meshable, hostVars
<1>8. ASSUME NEW v \in Viewers, NEW q \in MeshBlocks, UnviewMeshBlock(v, q) PROVE LookedAfter(p)'
  <2>1. HasEntry(p)' => HasEntry(p)
    BY <1>8, <1>a DEF UnviewMeshBlock, HasEntry
  <2> QED BY <1>7, <1>8, <2>1 DEF UnviewMeshBlock, dataVars
<1>9. CASE ProcessMeshing
  <2>1. HasEntry(p)' => HasEntry(p)
    BY <1>9, <1>a DEF ProcessMeshing, HasEntry
  <2> QED BY <1>7, <1>9, <2>1 DEF ProcessMeshing, dataVars
<1>10. CASE ApplyMeshUpdate
  <2>1. PICK o \in BagToSet(inbox) : ApplyDropped(o) \/ ApplyMesh(o)
    BY <1>10 DEF ApplyMeshUpdate
  <2>2. HasEntry(p)' => HasEntry(p)
    BY <2>1, <1>a DEF ApplyDropped, ApplyMesh, HasEntry
  <2> QED BY <1>7, <2>1, <2>2 DEF ApplyDropped, ApplyMesh, Take, dataVars
<1> QED
  BY <1>1, <1>2, <1>4, <1>5, <1>6, <1>8, <1>9, <1>10 DEF Next

\* At LOD 0 the neighbours of a data block are found: a viewed block with all its
\* data is listed, being meshed or meshed, whatever came first, viewer or data.
THEOREM NoMeshIsForgotten ==
  ASSUME LodStride = 1
  PROVE  Spec => []NoForgottenMesh
<1>1. NoForgottenMesh <=> \A p \in MeshBlocks : Meshable(p) => LookedAfter(p)
  BY DEF NoForgottenMesh, Meshable, LookedAfter
<1>a. NoForgottenMesh' <=> \A p \in MeshBlocks : Meshable(p)' => LookedAfter(p)'
  BY DEF NoForgottenMesh, Meshable, LookedAfter
<1>2. Init => NoForgottenMesh
  BY DEF Init, NoForgottenMesh, HasEntry
<1>3. MeshInv /\ MeshInv' /\ NoForgottenMesh /\ [Next]_vars => NoForgottenMesh'
  BY <1>1, <1>a, StillLookedAfter, NewlyLookedAfter
<1> QED BY <1>2, <1>3, MeshInvariance, PTL DEF Spec

=============================================================================
