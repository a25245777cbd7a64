CONSTANTS
  f1 = f1
  f2 = f2
  s1 = s1
  a = a
  b = b
  c3 = c3
  d = d
  Reactors = {r1, r2}
  NoTask = NoTask
  Workers <- MCWorkers
  PoolOf <- MCPoolOf
  Tasks <- MCTasks
  FastTasks <- MCFastTasks
  MaxQueue = 2
SPECIFICATION WPFairSpec
INVARIANTS WorkerInv
PROPERTIES AcceptedIsTaken StopReturns FastNeverStarves
