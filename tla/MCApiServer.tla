---------------------------- MODULE MCApiServer ----------------------------
(* ApiServer with one worker in each pool.                                 *)
EXTENDS ApiServer, TLC

CONSTANTS f1, s1

MCWorkers == {f1, s1}
MCPoolOf == (f1 :> "fast") @@ (s1 :> "slow")
=============================================================================
