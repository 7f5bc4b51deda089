--------------------------- MODULE MCPagingViews ---------------------------
(***************************************************************************)
(* Two small instances of terrain paging on the same variables: in one     *)
(* viewers come and go over a generator that may panic, in the other edits *)
(* make blocks under loads that fail or find nothing.                      *)
(***************************************************************************)
EXTENDS TerrainPaging

CONSTANTS p1, p2, v1, v2

NearOrFar == {{}, {p1}}
Overlapping == {{}, {p1}, {p1, p2}}

\* without generator and streaming
Edited == INSTANCE TerrainPaging WITH
            Blocks <- {p1}, Viewers <- {v1}, Ranges <- NearOrFar, HasGenerator <- FALSE,
            StreamingEnabled <- FALSE, MaxEdits <- 2, MaxLoadErrors <- 1, MaxLoadPanics <- 0,
            MaxGeneration <- 2

VARIABLE instance

TwoInit == \/ instance = "views" /\ Init
           \/ instance = "edits" /\ Edited!Init

Views(A) == instance = "views" /\ A /\ UNCHANGED instance

TwoNext == Views(Next) \/ (instance = "edits" /\ Edited!Next /\ UNCHANGED instance)

twoVars == <<vars, instance>>

\* TerrainPaging!Fairness, for the instance it is needed in.
TwoSpec ==
  /\ TwoInit /\ [][TwoNext]_twoVars
  /\ WF_twoVars(Views(Drain))
  /\ WF_twoVars(Views(\E r \in [Viewers -> Ranges] : PairViewers(r)))
  /\ WF_twoVars(Views(\E v \in Viewers, p \in Blocks : Unview(v, p) \/ View(v, p)))
  /\ WF_twoVars(Views(SendDataLoadRequests))
  /\ WF_twoVars(Views(ApplyDataBlockResponse))
  /\ \A p \in Blocks : SF_twoVars(Views(LoadGenerated(p)))
  /\ \A p \in Blocks :
       WF_twoVars(Views(\E o \in BagToSet(results) : o.pos = p /\ CompleteLoad(o)))

-----------------------------------------------------------------------------
\* The references of a block are its viewers: TerrainPaging!RefcountsExact.
ViewersExact == instance = "views" => RefcountsExact

\* A block with a viewer that references it is not unloaded.
ViewedStays ==
  [][instance = "views" =>
       \A p \in Blocks : Resident(p) /\ ~Resident(p)' => Referencing(p)' = {}]_twoVars

\* A block that stays in range gets resident, unless its load panics:
\* TerrainPaging!InRangeGetsResident.
ViewedGetsResident ==
  \A v \in Viewers : \A p \in Blocks :
    instance = "views" /\ p \in ranges[v]
      ~> (instance = "edits" \/ Resident(p) \/ p \notin ranges[v] \/ p \in stranded)

\* A block that stays out of every range is unloaded: TerrainPaging!OutOfRangeIsUnloaded.
UnviewedIsUnloaded ==
  \A p \in Blocks :
    instance = "views" /\ (\A v \in Viewers : p \notin ranges[v])
      ~> (instance = "edits" \/ ~Resident(p) \/ \E v \in Viewers : p \in ranges[v])
=============================================================================
