CONSTANTS
  Workers = {w1, w2, w3}
  Reactors = {r1, r2}
  Tasks = {t1, t2, t3, t4}
  NoReactor = NoReactor
SPECIFICATION CQFairSpec
INVARIANTS CQInv
PROPERTIES CompletionDelivered
