------------------------------ MODULE TaskPool ------------------------------
(***************************************************************************)
(* The slab allocator of lib/task_pool.c: a global stack of free tasks     *)
(* behind g_pool_mutex, a free-list cache per thread, and one atomic flag  *)
(* per task that detects double frees.                                     *)
(*                                                                         *)
(* A task is its slab index.  Everything a thread does under the mutex is  *)
(* one step; task_pool_free is two steps, because its compare-and-swap on  *)
(* the flag precedes the mutex.  The fields of a task that alloc resets    *)
(* are represented by the one that survives a lease, its worker_buf.       *)
(***************************************************************************)
EXTENDS Integers, Sequences, FiniteSets, Functions

CONSTANTS Threads,    \* the threads that call the pool (the reactors)
          PoolSize,   \* g_pool_size
          CacheSize   \* TL_CACHE_SIZE

ASSUME TaskPoolConstants == /\ IsFiniteSet(Threads)
                            /\ PoolSize \in Nat \ {0}
                            /\ CacheSize \in Nat \ {0}

VARIABLES stack,      \* g_free_stack[0 .. g_stack_top - 1]
          flag,       \* the tasks whose g_is_free_flag is true
          cache,      \* tl_cache[0 .. tl_cache_count - 1] of each thread
          buf,        \* worker_buf: not yet created, drained, or written to
          held,       \* the tasks each thread has obtained and not freed
          freeing,    \* the task in task_pool_free, past its flag, if any
          denied,     \* the threads whose last task_pool_alloc returned nullptr
          aborted     \* the process called abort()

pool_vars == <<stack, flag, cache, buf, held, freeing, denied, aborted>>

Tasks == 1 .. PoolSize

NoTask == 0

PoolTypeOK ==
    /\ stack \in Seq(Tasks)
    /\ flag \in SUBSET Tasks
    /\ cache \in [Threads -> Seq(Tasks)]
    /\ buf \in [Tasks -> {"none", "empty", "dirty"}]
    /\ held \in [Threads -> SUBSET Tasks]
    /\ freeing \in [Threads -> Tasks \cup {NoTask}]
    /\ denied \in SUBSET Threads
    /\ aborted \in BOOLEAN

PoolInit ==
    /\ stack = [i \in 1 .. PoolSize |-> i]
    /\ flag = Tasks
    /\ cache = [th \in Threads |-> <<>>]
    /\ buf = [t \in Tasks |-> "none"]
    /\ held = [th \in Threads |-> {}]
    /\ freeing = [th \in Threads |-> NoTask]
    /\ denied = {}
    /\ aborted = FALSE

----------------------------------------------------------------------------
\* A thread that is not inside task_pool_free, in a process still running.
Ready(th) == ~aborted /\ freeing[th] = NoTask

\* Mutant: the old bytes stay in the buffer.
Deliver_NoDrain(th, t, clear) ==
    /\ flag' = flag \ clear
    /\ buf' = [buf EXCEPT ![t] = IF @ = "none" THEN "empty" ELSE @]
    /\ held' = [held EXCEPT ![th] = @ \cup {t}]
    /\ denied' = denied \ {th}
    /\ UNCHANGED freeing

\* The end of task_pool_alloc for task t: its flag and those of the tasks
\* moved with it are cleared, its buffer is drained or created.  When
\* evbuffer_new fails the task goes through task_pool_free, whose flag step
\* succeeds at once, and the caller gets nullptr.
Deliver(th, t, clear) ==
    \/ /\ flag' = flag \ clear
       /\ buf' = [buf EXCEPT ![t] = "empty"]
       /\ held' = [held EXCEPT ![th] = @ \cup {t}]
       /\ denied' = denied \ {th}
       /\ UNCHANGED freeing
    \/ /\ buf[t] = "none"
       /\ flag' = (flag \ clear) \cup {t}
       /\ freeing' = [freeing EXCEPT ![th] = t]
       /\ denied' = denied \cup {th}
       /\ UNCHANGED <<buf, held>>

\* tl_cache[tl_cache_count - 1], and what is left below it.
Top(s) == s[Len(s)]
Below(s) == SubSeq(s, 1, Len(s) - 1)

\* task_pool_alloc served from the thread's own cache.
task_pool_alloc_cached(th) ==
    /\ Ready(th)
    /\ cache[th] # <<>>
    /\ cache' = [cache EXCEPT ![th] = Below(@)]
    /\ Deliver(th, Top(cache[th]), {Top(cache[th])})
    /\ UNCHANGED <<stack, aborted>>

\* How many tasks a thread with an empty cache moves from the stack.
Batch == IF Len(stack) < CacheSize THEN Len(stack) ELSE CacheSize

\* The tasks moved, in the order they enter the cache: top of stack first.
Taken == [i \in 1 .. Batch |-> stack[Len(stack) + 1 - i]]

\* Mutant: g_stack_top is not lowered.
task_pool_alloc_batch_NoPop(th) ==
    /\ Ready(th)
    /\ cache[th] = <<>>
    /\ stack # <<>>
    /\ cache' = [cache EXCEPT ![th] = SubSeq(Taken, 1, Batch - 1)]
    /\ Deliver(th, Taken[Batch], {Taken[i] : i \in 1 .. Batch})
    /\ UNCHANGED <<stack, aborted>>

\* task_pool_alloc refilling the cache from the stack under the mutex.
task_pool_alloc_batch(th) ==
    /\ Ready(th)
    /\ cache[th] = <<>>
    /\ stack # <<>>
    /\ stack' = SubSeq(stack, 1, Len(stack) - Batch)
    /\ cache' = [cache EXCEPT ![th] = SubSeq(Taken, 1, Batch - 1)]
    /\ Deliver(th, Taken[Batch], {Taken[i] : i \in 1 .. Batch})
    /\ UNCHANGED aborted

\* Nothing in the thread's cache and nothing on the stack: nullptr.
Exhausted(th) == cache[th] = <<>> /\ stack = <<>>

task_pool_alloc_refused(th) ==
    /\ Ready(th)
    /\ Exhausted(th)
    /\ denied' = denied \cup {th}
    /\ UNCHANGED <<stack, flag, cache, buf, held, freeing, aborted>>

\* A worker fills the reply buffer of a leased task.
WriteReply(th, t) ==
    /\ Ready(th)
    /\ t \in held[th]
    /\ buf' = [buf EXCEPT ![t] = "dirty"]
    /\ UNCHANGED <<stack, flag, cache, held, freeing, denied, aborted>>

\* task_pool_free up to its compare-and-swap.  The buffer keeps whatever
\* bytes no reply took out of it.
task_pool_free(th, t) ==
    /\ Ready(th)
    /\ t \in held[th]
    /\ held' = [held EXCEPT ![th] = @ \ {t}]
    /\ IF t \in flag
       THEN aborted' = TRUE /\ UNCHANGED <<flag, freeing>>
       ELSE /\ flag' = flag \cup {t}
            /\ freeing' = [freeing EXCEPT ![th] = t]
            /\ UNCHANGED aborted
    /\ UNCHANGED <<stack, cache, buf, denied>>

\* Mutants of the rest of task_pool_free: no limit on the cache; the cache
\* is not emptied by the flush.
task_pool_free_store_NoLimit(th) ==
    /\ ~aborted
    /\ freeing[th] # NoTask
    /\ cache' = [cache EXCEPT ![th] = Append(@, freeing[th])]
    /\ freeing' = [freeing EXCEPT ![th] = NoTask]
    /\ UNCHANGED <<stack, flag, buf, held, denied, aborted>>

task_pool_free_store_NoReset(th) ==
    /\ ~aborted
    /\ freeing[th] # NoTask
    /\ stack' = IF Len(cache[th]) < CacheSize THEN stack ELSE stack \o cache[th]
    /\ cache' = [cache EXCEPT ![th] = Append(@, freeing[th])]
    /\ freeing' = [freeing EXCEPT ![th] = NoTask]
    /\ UNCHANGED <<flag, buf, held, denied, aborted>>

\* The rest of task_pool_free: push on the cache, or flush a full cache to
\* the stack under the mutex and start a new one.
task_pool_free_store(th) ==
    /\ ~aborted
    /\ freeing[th] # NoTask
    /\ IF Len(cache[th]) < CacheSize
       THEN /\ cache' = [cache EXCEPT ![th] = Append(@, freeing[th])]
            /\ UNCHANGED <<stack, aborted>>
       ELSE IF Len(stack) + Len(cache[th]) > PoolSize
       THEN aborted' = TRUE /\ UNCHANGED <<stack, cache>>
       ELSE /\ stack' = stack \o cache[th]
            /\ cache' = [cache EXCEPT ![th] = <<freeing[th]>>]
            /\ UNCHANGED aborted
    /\ freeing' = [freeing EXCEPT ![th] = NoTask]
    /\ UNCHANGED <<flag, buf, held, denied>>

PoolNext ==
    \E th \in Threads :
       \/ task_pool_alloc_cached(th)
       \/ task_pool_alloc_batch(th)
       \/ task_pool_alloc_refused(th)
       \/ task_pool_free_store(th)
       \/ \E t \in Tasks : WriteReply(th, t) \/ task_pool_free(th, t)

PoolSpec == PoolInit /\ [][PoolNext]_pool_vars

----------------------------------------------------------------------------
(* Properties *)

\* The tasks in thread th's hands or in its cache.
Owned(th) == Range(cache[th]) \cup held[th] \cup ({freeing[th]} \ {NoTask})

\* Every task is always in exactly one place: one slot of the stack, one
\* slot of one thread's cache, in one thread's task_pool_free, or held by one
\* thread.  The batch refill and the flush move tasks between the lists
\* without losing or duplicating any, and nothing is handed out twice.
OnePlace ==
    /\ Range(stack) \cup UNION {Owned(th) : th \in Threads} = Tasks
    /\ IsInjective(stack)
    /\ \A th \in Threads :
          /\ IsInjective(cache[th])
          /\ Range(stack) \cap Owned(th) = {}
          /\ Range(cache[th]) \cap held[th] = {}
          /\ freeing[th] \notin Range(cache[th]) \cup held[th]
          /\ \A other \in Threads \ {th} : Owned(th) \cap Owned(other) = {}

\* The two abort() calls of task_pool_free, "Double free detected" and
\* "stack overflow", are out of reach of callers that free what they hold.
NeverAborts == ~aborted

\* The inductive invariant of the pool.  Tasks are neither lost nor duplicated
\* and task_pool_free never aborts, because a held task's flag is clear, so
\* that its free succeeds, and a cache never outgrows TL_CACHE_SIZE.
PoolInv == /\ PoolTypeOK
           /\ OnePlace
           /\ NeverAborts
           /\ \A th \in Threads : /\ held[th] \cap flag = {}
                                  /\ Len(cache[th]) <= CacheSize

\* A refusal means load: an allocation only fails when every task is in use
\* but the few that the other threads' caches can hold, TL_CACHE_SIZE each.
\* This is what server_init_globals relies on when it sizes the slab.
RefusalMeansLoad ==
    \A th \in Threads :
       Exhausted(th) =>
          LET inUse == UNION {held[u] \cup {freeing[u]} : u \in Threads}
          IN Cardinality(inUse \ {NoTask}) + (Cardinality(Threads) - 1) * CacheSize
             >= PoolSize

\* A task never carries reply bytes of an earlier request into a new lease
\* (the drain in task_pool_alloc).
CleanLease ==
    [][\A th \in Threads : \A t \in held'[th] \ held[th] : buf'[t] = "empty"]_pool_vars

\* The pool implements the lease contract the request path is built on: what
\* a thread gets, no thread holds, and only the holder of a task frees it.
TL == INSTANCE TaskLease
ImplementsTaskLease == TL!TaskLeaseSpec
=============================================================================
