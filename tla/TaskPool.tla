------------------------------ MODULE TaskPool ------------------------------
(***************************************************************************)
(* What the thread pool promises, without threads, locks or permits: every *)
(* task goes through the phases below, at most one serial task runs at a   *)
(* time, and whoever waits for all tasks is released only at a moment when *)
(* none is pending or running.  TaskRunner implements this specification.  *)
(***************************************************************************)
CONSTANTS
  Tasks,    \* the tasks that may be submitted
  Serial,   \* those that exclude one another
  Waiters   \* the threads that may wait for all tasks

VARIABLES
  phase,      \* phase[t]: how far task t is
  cancelled,  \* the tasks somebody cancelled
  waiting     \* the threads inside wait_for_all_tasks

vars == <<phase, cancelled, waiting>>

Phases == {"new", "pending", "running", "done", "lost"}

In(p) == {t \in Tasks : phase[t] = p}

\* "lost" is the end of a task that keeps itself (TakenOut) or panics; only a
\* cancelled task is done without having run.
MayMove(t, from, to) ==
  \/ to = from
  \/ <<from, to>> \in {<<"new", "pending">>, <<"pending", "running">>,
                       <<"running", "done">>, <<"running", "lost">>,
                       <<"running", "pending">>}
  \/ t \in cancelled /\ from = "pending" /\ to = "done"

OneSerial == \A t, u \in Serial : phase[t] = "running" /\ phase[u] = "running" => t = u

Idle == In("pending") \cup In("running") = {}

Init ==
  /\ phase = [t \in Tasks |-> "new"]
  /\ cancelled = {}
  /\ waiting = {}

\* Tasks are submitted, start, end, give up or go back to the queue; one step
\* may withdraw several cancelled tasks and start another.
Advance ==
  /\ phase' \in [Tasks -> Phases]
  /\ \A t \in Tasks : MayMove(t, phase[t], phase'[t])
  /\ OneSerial'
  /\ UNCHANGED <<cancelled, waiting>>

Cancel ==
  /\ \E t \in Tasks : cancelled' = cancelled \cup {t}
  /\ UNCHANGED <<phase, waiting>>

BeginWait ==
  /\ ~Idle
  /\ \E c \in Waiters \ waiting : waiting' = waiting \cup {c}
  /\ UNCHANGED <<phase, cancelled>>

EndWait ==
  /\ Idle
  /\ \E c \in waiting : waiting' = waiting \ {c}
  /\ UNCHANGED <<phase, cancelled>>

Next == Advance \/ Cancel \/ BeginWait \/ EndWait

Spec == Init /\ [][Next]_vars

=============================================================================
