----------------------------- MODULE WorkerPool -----------------------------
(***************************************************************************)
(* The two bulkhead pools of lib/worker_pool.c: per pool a FIFO of tasks,  *)
(* its size and its shutdown flag behind one mutex, and one condition      *)
(* variable.                                                               *)
(*                                                                         *)
(* A critical section is one step.  What happens outside the mutex is a    *)
(* step of its own: the pthread_cond_signal of worker_pool_enqueue follows *)
(* the unlock, and so does the broadcast of worker_pool_stop.  A worker is *)
(* "lock" when it is about to take the mutex (at the top of its loop or    *)
(* back from pthread_cond_wait), "waiting" inside pthread_cond_wait,       *)
(* "busy" with a task, or "exited".                                        *)
(***************************************************************************)
EXTENDS Threads

CONSTANTS PoolOf,     \* the pool each worker was started for by init_pool
          FastTasks,  \* those whose route has is_fast
          NoTask,     \* a null task pointer
          MaxQueue    \* config_get_max_queue_size(), 0 for no limit

Pools == {"fast", "slow"}

ASSUME WorkerPoolConstants == /\ PoolOf \in [Workers -> Pools]
                              /\ \A p \in Pools : \E w \in Workers : PoolOf[w] = p
                              /\ FastTasks \subseteq Tasks
                              /\ NoTask \notin Tasks
                              /\ MaxQueue \in Nat

VARIABLES queue,      \* head .. tail of each pool
          size,       \* pool->size
          shutdown,   \* the pools whose shutdown flag is set
          worker,     \* where each worker is in worker_thread_main
          wtask,      \* the task a busy worker took
          signal,     \* the pool a caller has yet to signal, "none" otherwise
          stop        \* how far worker_pool_stop is with each pool

poolVars == <<queue, size, shutdown, worker, wtask, signal, stop>>

WPTypeOK == /\ queue \in [Pools -> Seq(Tasks)]
            /\ size \in [Pools -> Int]
            /\ shutdown \in SUBSET Pools
            /\ worker \in [Workers -> {"lock", "waiting", "busy", "exited"}]
            /\ wtask \in [Workers -> Tasks \cup {NoTask}]
            /\ signal \in [Reactors -> Pools \cup {"none"}]
            /\ stop \in [Pools -> {"up", "set", "told", "joined"}]

\* worker_pool_init has started every worker of both pools.
WPInit == /\ queue = [p \in Pools |-> <<>>]
          /\ size = [p \in Pools |-> 0]
          /\ shutdown = {}
          /\ worker = [w \in Workers |-> "lock"]
          /\ wtask = [w \in Workers |-> NoTask]
          /\ signal = [c \in Reactors |-> "none"]
          /\ stop = [p \in Pools |-> "up"]

\* The workers of pool p that are at point s of their loop.
At(p, s) == {w \in Workers : PoolOf[w] = p /\ worker[w] = s}

\* The callers between the unlock and the signal of an enqueue on pool p.
Signalling(p) == {c \in Reactors : signal[c] = p}

----------------------------------------------------------------------------
(* worker_pool_enqueue *)

\* Mutant: every route shares one pool.
Route_Shared(fast) == "slow"

\* The pool a task goes to.
Route(fast) == IF fast THEN "fast" ELSE "slow"

\* The two early returns of false.
Rejects(p) == p \in shutdown \/ (MaxQueue > 0 /\ size[p] >= MaxQueue)

\* Mutants: only the enqueue that finds the queue empty signals; none does.
worker_pool_enqueue_SignalIfEmpty(c, t, fast) ==
    LET p == Route(fast)
    IN /\ signal[c] = "none"
       /\ ~Rejects(p)
       /\ queue' = [queue EXCEPT ![p] = Append(@, t)]
       /\ size' = [size EXCEPT ![p] = @ + 1]
       /\ signal' = [signal EXCEPT ![c] = IF queue[p] = <<>> THEN p ELSE @]
       /\ UNCHANGED <<shutdown, worker, wtask, stop>>

worker_pool_enqueue_NoSignal(c, t, fast) ==
    LET p == Route(fast)
    IN /\ signal[c] = "none"
       /\ ~Rejects(p)
       /\ queue' = [queue EXCEPT ![p] = Append(@, t)]
       /\ size' = [size EXCEPT ![p] = @ + 1]
       /\ UNCHANGED <<signal, shutdown, worker, wtask, stop>>

\* The critical section of an accepted enqueue.
worker_pool_enqueue(c, t, fast) ==
    LET p == Route(fast)
    IN /\ signal[c] = "none"
       /\ ~Rejects(p)
       /\ queue' = [queue EXCEPT ![p] = Append(@, t)]
       /\ size' = [size EXCEPT ![p] = @ + 1]
       /\ signal' = [signal EXCEPT ![c] = p]
       /\ UNCHANGED <<shutdown, worker, wtask, stop>>

\* Its pthread_cond_signal: one waiter, if there is any, leaves the wait.
pthread_cond_signal(c) ==
    LET p == signal[c]
    IN /\ p # "none"
       /\ signal' = [signal EXCEPT ![c] = "none"]
       /\ \/ \E w \in At(p, "waiting") : worker' = [worker EXCEPT ![w] = "lock"]
          \/ At(p, "waiting") = {} /\ UNCHANGED worker
       /\ UNCHANGED <<queue, size, shutdown, wtask, stop>>

----------------------------------------------------------------------------
(* worker_thread_main *)

\* Nothing to do and no shutdown: pthread_cond_wait releases the mutex.
worker_wait(w) ==
    /\ worker[w] = "lock"
    /\ queue[PoolOf[w]] = <<>>
    /\ PoolOf[w] \notin shutdown
    /\ worker' = [worker EXCEPT ![w] = "waiting"]
    /\ UNCHANGED <<queue, size, shutdown, wtask, signal, stop>>

\* pthread_cond_wait may return with no signal.
spurious_wakeup(w) ==
    /\ worker[w] = "waiting"
    /\ worker' = [worker EXCEPT ![w] = "lock"]
    /\ UNCHANGED <<queue, size, shutdown, wtask, signal, stop>>

\* Shutdown, and the queue is drained: the thread ends.
worker_exit(w) ==
    /\ worker[w] = "lock"
    /\ PoolOf[w] \in shutdown
    /\ queue[PoolOf[w]] = <<>>
    /\ worker' = [worker EXCEPT ![w] = "exited"]
    /\ UNCHANGED <<queue, size, shutdown, wtask, signal, stop>>

\* The worker takes the head of its queue.
worker_pop(w) ==
    LET p == PoolOf[w]
    IN /\ worker[w] = "lock"
       /\ queue[p] # <<>>
       /\ wtask' = [wtask EXCEPT ![w] = Head(queue[p])]
       /\ queue' = [queue EXCEPT ![p] = Tail(@)]
       /\ size' = [size EXCEPT ![p] = @ - 1]
       /\ worker' = [worker EXCEPT ![w] = "busy"]
       /\ UNCHANGED <<shutdown, signal, stop>>

\* The worker has handed its task to server_notify_task_done.
worker_done(w) ==
    /\ worker[w] = "busy"
    /\ worker' = [worker EXCEPT ![w] = "lock"]
    /\ wtask' = [wtask EXCEPT ![w] = NoTask]
    /\ UNCHANGED <<queue, size, shutdown, signal, stop>>

----------------------------------------------------------------------------
(* worker_pool_stop: fast then slow are told to stop, then both are joined *)

worker_pool_stop_set(p) ==
    /\ stop[p] = "up"
    /\ p = "slow" => stop["fast"] = "told"
    /\ shutdown' = shutdown \cup {p}
    /\ stop' = [stop EXCEPT ![p] = "set"]
    /\ UNCHANGED <<queue, size, worker, wtask, signal>>

\* Mutant: a signal where the code broadcasts.
worker_pool_stop_broadcast_One(p) ==
    /\ stop[p] = "set"
    /\ \/ \E w \in At(p, "waiting") : worker' = [worker EXCEPT ![w] = "lock"]
       \/ At(p, "waiting") = {} /\ UNCHANGED worker
    /\ stop' = [stop EXCEPT ![p] = "told"]
    /\ UNCHANGED <<queue, size, shutdown, wtask, signal>>

worker_pool_stop_broadcast(p) ==
    /\ stop[p] = "set"
    /\ worker' = [w \in Workers |-> IF w \in At(p, "waiting") THEN "lock"
                                    ELSE worker[w]]
    /\ stop' = [stop EXCEPT ![p] = "told"]
    /\ UNCHANGED <<queue, size, shutdown, wtask, signal>>

\* pthread_join of every worker of p has returned.
worker_pool_stop_join(p) ==
    /\ stop[p] = "told"
    /\ stop["slow"] \in {"told", "joined"}
    /\ p = "slow" => stop["fast"] = "joined"
    /\ \A w \in Workers : PoolOf[w] = p => worker[w] = "exited"
    /\ stop' = [stop EXCEPT ![p] = "joined"]
    /\ UNCHANGED <<queue, size, shutdown, worker, wtask, signal>>

----------------------------------------------------------------------------
\* A task no queue and no worker has: the reactor's to enqueue.
Outside(t) == /\ \A p \in Pools : \A i \in 1 .. Len(queue[p]) : queue[p][i] # t
              /\ \A w \in Workers : wtask[w] # t

Enqueue(c) == \E t \in Tasks : /\ Outside(t)
                               /\ worker_pool_enqueue(c, t, t \in FastTasks)

\* One iteration of worker w's loop up to the task it takes.
Loop(w) == worker_wait(w) \/ worker_exit(w) \/ worker_pop(w)

Stop(p) == \/ worker_pool_stop_set(p)
           \/ worker_pool_stop_broadcast(p)
           \/ worker_pool_stop_join(p)

\* Everything has ended: the callers may go on being refused for ever.
Stopped == /\ \A p \in Pools : stop[p] = "joined"
           /\ \A c \in Reactors : signal[c] = "none"
           /\ UNCHANGED poolVars

WPNext == \/ \E c \in Reactors : Enqueue(c) \/ pthread_cond_signal(c)
          \/ \E w \in Workers : Loop(w) \/ spurious_wakeup(w) \/ worker_done(w)
          \/ \E p \in Pools : Stop(p)
          \/ Stopped

\* Threads are scheduled: a caller gets to its signal, a worker to its next
\* critical section, and worker_pool_stop, once entered, goes on.
Scheduling ==
    /\ \A c \in Reactors : WF_poolVars(pthread_cond_signal(c))
    /\ \A w \in Workers : WF_poolVars(Loop(w))
    /\ \A p \in Pools : WF_poolVars(stop["fast"] # "up" /\ Stop(p))

WPSpec == WPInit /\ [][WPNext]_poolVars

\* Every handler of pool p returns.
HandlersReturn(p) == \A w \in Workers : WF_poolVars(PoolOf[w] = p /\ worker_done(w))

\* Handlers on the fast pool return; one on the slow pool may hang for ever.
WPFairSpec == WPSpec /\ Scheduling /\ HandlersReturn("fast")

----------------------------------------------------------------------------
(* Properties *)

\* pool->size agrees with the list, so the back-pressure test of
\* worker_pool_enqueue really bounds the list by the configured maximum.
BoundedQueue == \A p \in Pools : /\ size[p] = Len(queue[p])
                                 /\ MaxQueue > 0 => Len(queue[p]) <= MaxQueue

\* No lost wakeup: as long as a worker sleeps, there is for every queued task
\* of its pool a worker on its way to the mutex or a caller about to signal,
\* although worker_pool_enqueue signals after it has unlocked.
WorkConserving ==
    \A p \in Pools :
       At(p, "waiting") # {} =>
          Len(queue[p]) <= Cardinality(At(p, "lock")) + Cardinality(Signalling(p))

\* Once worker_pool_stop has broadcast to a pool none of its workers sleeps
\* or goes to sleep again, although the broadcast is outside the mutex.
NoneSleepsAfterStop ==
    \A p \in Pools : stop[p] \in {"told", "joined"} => At(p, "waiting") = {}

\* A pool that has been joined has no task left: what was accepted before
\* the shutdown flag was set is run, and nothing is accepted afterwards.
DrainedWhenJoined ==
    \A p \in Pools : stop[p] = "joined" =>
       /\ queue[p] = <<>>
       /\ \A w \in Workers : PoolOf[w] = p => wtask[w] = NoTask

\* How far worker_pool_stop is with a pool, and what its workers are doing:
\* the part of the inductive invariant that ties stop to the other variables.
StopInv ==
    /\ \A p \in Pools : p \in shutdown <=> stop[p] # "up"
    /\ \A p \in Pools : stop[p] = "joined" =>
          \A w \in Workers : PoolOf[w] = p => worker[w] = "exited"
    /\ \A w \in Workers :
          /\ worker[w] = "exited" => /\ PoolOf[w] \in shutdown
                                     /\ queue[PoolOf[w]] = <<>>
          /\ worker[w] # "busy" <=> wtask[w] = NoTask

\* The inductive invariant of the pools: bounded queues, no lost wakeup, no
\* sleep through a stop, and no worker that leaves accepted tasks behind.
WorkerInv == WPTypeOK /\ BoundedQueue /\ WorkConserving /\ NoneSleepsAfterStop /\ StopInv

Queued(t) == \E p \in Pools : \E i \in 1 .. Len(queue[p]) : queue[p][i] = t

\* If slow handlers return too, every task that was accepted is taken by a
\* worker, shutdown or not.
AcceptedIsTaken == HandlersReturn("slow") => \A t \in Tasks : Queued(t) ~> ~Queued(t)

\* If they do, worker_pool_stop returns: no worker it joins sleeps through the
\* shutdown.
StopReturns == HandlersReturn("slow") => (stop["fast"] = "set" ~> stop["slow"] = "joined")

\* The bulkhead: a task of a fast route is taken by a worker even when every
\* handler on the slow pool hangs.
FastNeverStarves == \A t \in FastTasks : Queued(t) ~> ~Queued(t)
=============================================================================
