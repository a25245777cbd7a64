CONSTANTS
  f1 = f1
  s1 = s1
  Workers <- MCWorkers
  PoolOf <- MCPoolOf
  NumReactors = 2
  Reactors = {0, 1}
  NoReactor = 2
  Requests = {q1, q2}
  FastTasks = {}
  FastRequests = {q1}
  Tasks = {t1, t2}
  MaxQueue = 1
  NoTask = NoTask
  NoRequest = NoRequest
SPECIFICATION FairSpec
INVARIANTS ServerInv HaltIsClean
PROPERTIES ImplementsRequestService AcceptedIsSettled ShutdownCompletes
