----------------------------- MODULE WriteBack -----------------------------
(***************************************************************************)
(* What saving on unload promises, without journal, tasks or retries: per  *)
(* block the stream moves forward through the versions that were unloaded, *)
(* skipping some but never going back, and a flush that succeeds leaves    *)
(* the last version of every block in the stream.                          *)
(***************************************************************************)
EXTENDS Naturals

CONSTANT Keys   \* the blocks

VARIABLES
  latest,   \* latest[k]: the last version of k that was unloaded, 0 for none
  durable,  \* durable[k]: the version of k in the stream, 0 for none
  status    \* "open", "flushed" or "lossy"

vars == <<latest, durable, status>>

Init ==
  /\ latest = [k \in Keys |-> 0]
  /\ durable = latest
  /\ status = "open"

\* A modified block leaves memory.
Unload(k) ==
  /\ status = "open"
  /\ latest'[k] > latest[k]
  /\ latest' = [latest EXCEPT ![k] = latest'[k]]
  /\ UNCHANGED <<durable, status>>

\* The stream advances to a later version, maybe not the last one.
Persist(k) ==
  /\ durable'[k] > durable[k]
  /\ durable'[k] <= latest[k]
  /\ durable' = [durable EXCEPT ![k] = durable'[k]]
  /\ UNCHANGED <<latest, status>>

CloseFlushed ==
  /\ status = "open"
  /\ durable = latest
  /\ status' = "flushed"
  /\ UNCHANGED <<latest, durable>>

\* The terrain is closed and owns up that some blocks may not be saved.
CloseLossy ==
  /\ status = "open"
  /\ status' = "lossy"
  /\ UNCHANGED <<latest, durable>>

Next == (\E k \in Keys : Unload(k) \/ Persist(k)) \/ CloseFlushed \/ CloseLossy

Spec == Init /\ [][Next]_vars

=============================================================================
