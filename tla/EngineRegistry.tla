--------------------------- MODULE EngineRegistry ---------------------------
(***************************************************************************)
(* The registry of viewers of engine/voxel_engine.rs: a vector of slots    *)
(* with a generation each, a stack of free indices, and handles that carry *)
(* index and generation.  The registry of volumes is the same map without  *)
(* a value.  The positions of the viewers are copied to the data the       *)
(* priorities of tasks are computed from (engine/priority_dependency.rs).  *)
(***************************************************************************)
EXTENDS Integers, Sequences, FiniteSets

CONSTANTS Places,          \* positions a viewer may have; it is made at Origin
          Origin,
          Generations,     \* values of a generation, an integer that wraps
          MaxSlots, MaxAdds \* bounds: slots, and entries made in a behaviour

ASSUME RegistryAssumption == Generations \in Nat /\ Generations > 1

VARIABLES slots,   \* slots[i]: generation, whether it has a value, and the value
          free,    \* free_indices, a stack
          handles, \* handles given out, each with the number of the entry it was made for
          removals,\* how often slot i has been emptied
          adds,    \* entries made
          shared   \* the positions in PriorityViewersData

registryVars == <<slots, free, handles, removals, adds, shared>>

Indices == DOMAIN slots

\* Mutant: the generation stays.
SameGeneration(g) == g

\* slot.generation.wrapping_add(1)
NextGeneration(g) == (g + 1) % Generations

\* get, get_mut, exists: the generations agree and there is a value
Valid(h) == h.index \in Indices /\ slots[h.index].generation = h.generation
                                /\ slots[h.index].used

\* a new entry: in the index freed last, with the generation that its slot has now
AddReused ==
  /\ free # << >> /\ adds < MaxAdds
  /\ LET i == free[Len(free)] IN
       /\ free' = SubSeq(free, 1, Len(free) - 1)
       /\ slots' = [slots EXCEPT ![i].used = TRUE, ![i].entry = adds + 1, ![i].place = Origin]
       /\ handles' = handles \cup {[index |-> i, generation |-> slots[i].generation,
                                    entry |-> adds + 1, age |-> removals[i]]}
  /\ adds' = adds + 1
  /\ UNCHANGED <<removals, shared>>

\* ... or in a slot of its own, whose generation begins with 1
AddNew ==
  /\ free = << >> /\ adds < MaxAdds /\ Len(slots) < MaxSlots
  /\ slots' = Append(slots, [generation |-> 1, used |-> TRUE, entry |-> adds + 1, place |-> Origin])
  /\ handles' = handles \cup {[index |-> Len(slots) + 1, generation |-> 1,
                               entry |-> adds + 1, age |-> 0]}
  /\ removals' = Append(removals, 0)
  /\ adds' = adds + 1
  /\ UNCHANGED <<free, shared>>

\* remove: a handle that is not valid changes nothing
Remove(h) ==
  /\ Valid(h)
  /\ slots' = [slots EXCEPT ![h.index].used = FALSE, ![h.index].entry = 0,
                            ![h.index].generation = NextGeneration(@)]
  /\ free' = Append(free, h.index)
  /\ removals' = [removals EXCEPT ![h.index] = @ + 1]
  /\ UNCHANGED <<handles, adds, shared>>

\* set_viewer_position; the other setters of a viewer find it in the same way
SetPosition(h, place) ==
  /\ Valid(h)
  /\ slots' = [slots EXCEPT ![h.index].place = place]
  /\ UNCHANGED <<free, handles, removals, adds, shared>>

\* sync_viewers_task_priority_data, at the end of process(): the values in slot order
Live == SelectSeq(slots, LAMBDA s : s.used)
Sync ==
  /\ shared' = [i \in DOMAIN Live |-> Live[i].place]
  /\ UNCHANGED <<slots, free, handles, removals, adds>>

RegistryInit == slots = << >> /\ free = << >> /\ handles = {} /\ removals = << >>
                /\ adds = 0 /\ shared = << >>

RegistryNext == \/ AddReused \/ AddNew \/ Sync
                \/ \E h \in handles : Remove(h) \/ \E p \in Places : SetPosition(h, p)

RegistrySpec == RegistryInit /\ [][RegistryNext]_registryVars

-----------------------------------------------------------------------------
\* HandlesNameTheirEntry: a handle is valid for the entry it was made for and for no later
\* one in its slot, until the slot has been emptied as often as there are generations; every
\* entry has a handle, and the free indices are the empty slots, each once.
HandlesNameTheirEntry ==
  /\ \A h \in handles :
       Valid(h) => slots[h.index].entry = h.entry
                   \/ removals[h.index] - h.age >= Generations
  /\ \A i \in Indices : slots[i].used =>
       \E h \in handles : h.index = i /\ h.entry = slots[i].entry /\ Valid(h)
  /\ \A i \in Indices : Cardinality({k \in DOMAIN free : free[k] = i})
                          = IF slots[i].used THEN 0 ELSE 1
=============================================================================
