SPECIFICATION FairSpec
CONSTANTS
  s1 = s1  s2 = s2  n1 = n1
  w1 = w1  w2 = w2  c1 = c1  c2 = c2
  NoTask = NoTask
  Tasks = {s1, s2, n1}
  Serial <- MCSerial
  Cancellable = {n1}
  Panicky <- NoTasks
  FollowUps <- MCFollowUps
  ThreadSets <- AllOrNone
  Workers = {w1, w2}
  Clients = {c1}
PROPERTIES EveryTaskSettles WaitReturns StopCompletes
CHECK_DEADLOCK FALSE
