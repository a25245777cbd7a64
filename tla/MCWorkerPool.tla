---------------------------- MODULE MCWorkerPool ----------------------------
(* WorkerPool with two fast workers, one slow worker, and four tasks, three *)
(* of them on fast routes: more than the queue takes and than the workers.  *)
EXTENDS WorkerPool

CONSTANTS f1, f2, s1, a, b, c3, d

MCWorkers == {f1, f2, s1}
MCPoolOf == [w \in MCWorkers |-> IF w = s1 THEN "slow" ELSE "fast"]
MCTasks == {a, b, c3, d}
MCFastTasks == {a, b, c3}
=============================================================================
