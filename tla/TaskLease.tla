------------------------------ MODULE TaskLease ------------------------------
(***************************************************************************)
(* What the request path relies on when it takes an http_task_t from the   *)
(* object pool: a task is leased to at most one thread at a time, only a   *)
(* task nobody holds is handed out, and only its holder gives it back.     *)
(* Nothing is promised about when a lease is granted: a caller may always  *)
(* be refused.  TaskPool implements this contract; ApiServer is built on   *)
(* it.                                                                     *)
(***************************************************************************)

CONSTANTS Threads,    \* the threads that lease tasks (the reactors)
          Tasks       \* the http_task_t objects of the slab

VARIABLE held         \* the tasks each thread has leased

TaskLeaseInit == held = [th \in Threads |-> {}]

\* th obtains t.
Lease(th, t) == /\ \A u \in Threads : t \notin held[u]
                /\ held' = [held EXCEPT ![th] = @ \cup {t}]

\* th gives t back.
Return(th, t) == /\ t \in held[th]
                 /\ held' = [held EXCEPT ![th] = @ \ {t}]

TaskLeaseNext == \E th \in Threads, t \in Tasks : Lease(th, t) \/ Return(th, t)

TaskLeaseSpec == TaskLeaseInit /\ [][TaskLeaseNext]_held
=============================================================================
