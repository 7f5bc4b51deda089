SPECIFICATION Spec
CONSTANTS
  s1 = s1  s2 = s2  n1 = n1
  w1 = w1  w2 = w2  c1 = c1  c2 = c2
  NoTask = NoTask
  Tasks = {s1, s2, n1}
  Serial <- MCSerial
  Cancellable = {s1, n1}
  Panicky = {n1}
  FollowUps <- MCFollowUps
  ThreadSets <- AllThreadSets
  Workers = {w1, w2}
  Clients = {c1, c2}
SYMMETRY MCSymmetry
INVARIANTS GateExact Conservation NoLostWakeUp NoForgottenWaiter
PROPERTIES ImplementsPool
CHECK_DEADLOCK FALSE
