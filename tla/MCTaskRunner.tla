---------------------------- MODULE MCTaskRunner ----------------------------
(* Small instances of the thread pool.                                     *)
EXTENDS TaskRunner, TLC

CONSTANTS s1, s2, n1, w1, w2, c1, c2

MCSerial == Tasks \cap {s1, s2}
\* n1 asks for s2 once it has run: the follow-ups of a drain may be serial.
MCFollowUps == [t \in Tasks |-> IF t = n1 THEN {s2} ELSE {}]
AllThreadSets == SUBSET Workers
AllOrNone == {Workers, {}}
NoTasks == {}

MCSymmetry == Permutations({w1, w2}) \cup Permutations({c1, c2})
=============================================================================
