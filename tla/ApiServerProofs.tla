-------------------------- MODULE ApiServerProofs --------------------------
(***************************************************************************)
(* Proofs about WorkerPool and CompletionQueue, and about ApiServer, which *)
(* is built on both, for any number of reactors, workers, requests and     *)
(* tasks.  A step of the server is a step of the pools or leaves them      *)
(* alone, so that they keep their own invariant in it.                     *)
(***************************************************************************)
EXTENDS ApiServer, FiniteSetTheorems, TLAPS

\* A sequence has a length.
LEMMA LengthIs == ASSUME NEW S, NEW s \in Seq(S) PROVE Len(s) \in Nat
OBVIOUS

\* A sequence that is not empty has a head, and a tail that is shorter by one.
LEMMA HeadTail ==
    ASSUME NEW S, NEW s \in Seq(S), s # <<>>
    PROVE  Head(s) \in S /\ Tail(s) \in Seq(S) /\ Len(Tail(s)) = Len(s) - 1
OBVIOUS

\* An append makes a sequence longer by one.
LEMMA Appended ==
    ASSUME NEW S, NEW s \in Seq(S), NEW e \in S
    PROVE  /\ Append(s, e) \in Seq(S) /\ Append(s, e) # <<>>
           /\ Len(Append(s, e)) = Len(s) + 1
<1>1. Append(s, e) \in Seq(S) /\ Len(Append(s, e)) = Len(s) + 1 /\ Len(s) \in Nat
  OBVIOUS
<1>2. Append(s, e) # <<>>
  BY <1>1
<1> QED
  BY <1>1, <1>2, Zenon

----------------------------------------------------------------------------
(* The pools. *)

\* The steps of WPNext, one disjunct per operation.
StepCases ==
    \/ \E c \in Reactors, t \in Tasks, fast \in BOOLEAN : worker_pool_enqueue(c, t, fast)
    \/ \E c \in Reactors : pthread_cond_signal(c)
    \/ \E w \in Workers : \/ worker_wait(w)
                          \/ worker_exit(w)
                          \/ worker_pop(w)
                          \/ spurious_wakeup(w)
                          \/ worker_done(w)
    \/ \E p \in Pools : \/ worker_pool_stop_set(p)
                        \/ worker_pool_stop_broadcast(p)
                        \/ worker_pool_stop_join(p)
    \/ UNCHANGED poolVars

\* Every step of the pools is a step of one of their operations.
LEMMA NextIsStep == [WPNext]_poolVars => StepCases
<1>1. \A t : (t \in FastTasks) \in BOOLEAN
  OBVIOUS
<1> QED
  BY <1>1, Zenon DEF WPNext, StepCases, Enqueue, Loop, Stop, Stopped

\* The fields of both pools keep their types.
LEMMA TypePreserved == WPTypeOK /\ StepCases => WPTypeOK'
<1> SUFFICES ASSUME WPTypeOK, StepCases PROVE WPTypeOK'
  BY Zenon
<1> USE WorkerPoolConstants DEF WorkerPoolConstants, WPTypeOK, Pools
<1>1. CASE \E c \in Reactors, t \in Tasks, fast \in BOOLEAN : worker_pool_enqueue(c, t, fast)
  BY <1>1 DEF worker_pool_enqueue, Route
<1>2. CASE \E c \in Reactors : pthread_cond_signal(c)
  BY <1>2, Zenon DEF pthread_cond_signal, At
<1>3. CASE \E w \in Workers : worker_wait(w) \/ worker_exit(w) \/ spurious_wakeup(w)
  BY <1>3, Zenon DEF worker_wait, worker_exit, spurious_wakeup
<1>4. CASE \E w \in Workers : worker_pop(w)
  <2>1. PICK w \in Workers : worker_pop(w)
    BY <1>4, Zenon
  <2>2. PoolOf[w] \in Pools /\ queue[PoolOf[w]] \in Seq(Tasks)
    BY Zenon
  <2>3. Head(queue[PoolOf[w]]) \in Tasks /\ Tail(queue[PoolOf[w]]) \in Seq(Tasks)
    BY <2>1, <2>2, HeadTail, Zenon DEF worker_pop
  <2> QED
    BY <2>1, <2>2, <2>3 DEF worker_pop
<1>5. CASE \E w \in Workers : worker_done(w)
  BY <1>5, Zenon DEF worker_done
<1>6. CASE \E p \in Pools : worker_pool_stop_set(p)
  BY <1>6 DEF worker_pool_stop_set
<1>7. CASE \E p \in Pools : worker_pool_stop_broadcast(p)
  BY <1>7 DEF worker_pool_stop_broadcast
<1>8. CASE \E p \in Pools : worker_pool_stop_join(p)
  BY <1>8 DEF worker_pool_stop_join
<1>9. CASE UNCHANGED poolVars
  BY <1>9, Zenon DEF poolVars
<1> QED
  BY <1>1, <1>2, <1>3, <1>4, <1>5, <1>6, <1>7, <1>8, <1>9, Zenon DEF StepCases

----------------------------------------------------------------------------
(* Counting the workers on their way to the mutex and the pending signals. *)

\* The counted sets are finite, so that their cardinalities are numbers.
LEMMA Finite ==
  ASSUME NEW p, NEW s
  PROVE  /\ IsFiniteSet(At(p, s)) /\ Cardinality(At(p, s)) \in Nat
         /\ IsFiniteSet(Signalling(p)) /\ Cardinality(Signalling(p)) \in Nat
<1>1. At(p, s) \subseteq Workers /\ Signalling(p) \subseteq Reactors
  BY Zenon DEF At, Signalling
<1>2. IsFiniteSet(Workers) /\ IsFiniteSet(Reactors)
  BY ThreadsConstants, Zenon DEF ThreadsConstants
<1>3. IsFiniteSet(At(p, s)) /\ IsFiniteSet(Signalling(p))
  BY <1>1, <1>2, FS_Subset, Zenon
<1> QED
  BY <1>3, FS_CardinalityType, Zenon

\* A worker that moves from point from to point s of its loop leaves one set
\* of workers and joins another.
LEMMA Moved ==
  ASSUME WPTypeOK, NEW CONSTANT w \in Workers, NEW CONSTANT from, NEW CONSTANT s,
         worker[w] = from, from # s, worker' = [worker EXCEPT ![w] = s]
  PROVE  /\ At(PoolOf[w], s)' = At(PoolOf[w], s) \cup {w}
         /\ At(PoolOf[w], from)' = At(PoolOf[w], from) \ {w}
         /\ w \notin At(PoolOf[w], s)
         /\ w \in At(PoolOf[w], from)
<1>1. worker' = [x \in Workers |-> IF x = w THEN s ELSE worker[x]]
  BY Zenon DEF WPTypeOK
<1> QED
  BY <1>1, Zenon DEF At

\* The same in numbers, for the workers on their way to the mutex.
LEMMA MovedCount ==
  ASSUME WPTypeOK, NEW CONSTANT w \in Workers, NEW CONSTANT from, NEW CONSTANT s,
         worker[w] = from, from # s, worker' = [worker EXCEPT ![w] = s]
  PROVE  LET p == PoolOf[w]
         IN /\ s = "lock" =>
                 Cardinality(At(p, "lock")') = Cardinality(At(p, "lock")) + 1
            /\ from = "lock" =>
                 Cardinality(At(p, "lock")') = Cardinality(At(p, "lock")) - 1
<1> DEFINE L == At(PoolOf[w], "lock")
<1>1. IsFiniteSet(L)
  BY Finite, Zenon
<1>2. CASE s = "lock"
  <2>1. L' = L \cup {w} /\ w \notin L
    BY <1>2, Moved, Zenon
  <2>2. Cardinality(L \cup {w}) = Cardinality(L) + 1
    BY <1>1, <2>1, FS_AddElement, Zenon
  <2> QED
    BY <1>2, <2>1, <2>2, Zenon
<1>3. CASE from = "lock"
  <2>1. L' = L \ {w} /\ w \in L
    BY <1>3, Moved, Zenon
  <2>2. Cardinality(L \ {w}) = Cardinality(L) - 1
    BY <1>1, <2>1, FS_RemoveElement, Zenon
  <2> QED
    BY <1>3, <2>1, <2>2, Zenon
<1> QED
  BY <1>2, <1>3, Zenon

\* One caller's pending signal comes or goes.
LEMMA SignalCount ==
  ASSUME WPTypeOK, NEW CONSTANT c \in Reactors, NEW CONSTANT from, NEW CONSTANT v,
         signal[c] = from, from # v, signal' = [signal EXCEPT ![c] = v]
  PROVE  /\ Cardinality(Signalling(v)') = Cardinality(Signalling(v)) + 1
         /\ Cardinality(Signalling(from)') = Cardinality(Signalling(from)) - 1
         /\ \A p : p \notin {v, from} => Signalling(p)' = Signalling(p)
<1>1. signal' = [x \in Reactors |-> IF x = c THEN v ELSE signal[x]]
  BY Zenon DEF WPTypeOK
<1>2. /\ Signalling(v)' = Signalling(v) \cup {c} /\ c \notin Signalling(v)
      /\ Signalling(from)' = Signalling(from) \ {c}
      /\ c \in Signalling(from)
      /\ \A p : p \notin {v, from} => Signalling(p)' = Signalling(p)
  BY <1>1, Zenon DEF Signalling
<1>3. IsFiniteSet(Signalling(v)) /\ IsFiniteSet(Signalling(from))
  BY Finite, Zenon
<1>4. /\ Cardinality(Signalling(v) \cup {c}) = Cardinality(Signalling(v)) + 1
      /\ Cardinality(Signalling(from) \ {c}) = Cardinality(Signalling(from)) - 1
  BY <1>2, <1>3, FS_AddElement, FS_RemoveElement, Zenon
<1> QED
  BY <1>2, <1>4, Zenon

\* No step loses a wakeup.
LEMMA WakeupStep == WPTypeOK /\ WorkConserving /\ StepCases => WorkConserving'
<1> SUFFICES ASSUME WPTypeOK, WorkConserving, StepCases,
                    NEW CONSTANT p \in Pools, At(p, "waiting")' # {}
             PROVE  Len(queue'[p]) <= Cardinality(At(p, "lock")')
                                      + Cardinality(Signalling(p)')
  BY Zenon DEF WorkConserving
<1> DEFINE L == At(p, "lock")
           S == Signalling(p)
<1>t. /\ Cardinality(L) \in Nat /\ Cardinality(S) \in Nat
      /\ Cardinality(L') \in Nat /\ Cardinality(S') \in Nat
      /\ queue[p] \in Seq(Tasks) /\ Len(queue[p]) \in Nat
  <2>1. Cardinality(L) \in Nat /\ Cardinality(S) \in Nat
    BY Finite, Zenon
  <2>2. L' \subseteq Workers /\ S' \subseteq Reactors
    BY Zenon DEF At, Signalling
  <2>3. IsFiniteSet(Workers) /\ IsFiniteSet(Reactors)
    BY ThreadsConstants, Zenon DEF ThreadsConstants
  <2>4. IsFiniteSet(L') /\ IsFiniteSet(S')
    BY <2>2, <2>3, FS_Subset, Zenon
  <2>5. Cardinality(L') \in Nat /\ Cardinality(S') \in Nat
    BY <2>4, FS_CardinalityType, Zenon
  <2>6. queue[p] \in Seq(Tasks)
    BY Zenon DEF WPTypeOK
  <2> QED
    BY <2>1, <2>5, <2>6, LengthIs, Zenon
<1>c. At(p, "waiting") # {} => Len(queue[p]) <= Cardinality(L) + Cardinality(S)
  BY Zenon DEF WorkConserving
<1> HIDE DEF L, S
<1>1. ASSUME NEW CONSTANT c \in Reactors, NEW CONSTANT t \in Tasks,
             NEW CONSTANT fast \in BOOLEAN, worker_pool_enqueue(c, t, fast)
      PROVE  Len(queue'[p]) <= Cardinality(L') + Cardinality(S')
  <2>1. PICK q \in Pools : q = Route(fast)
    BY Zenon DEF Route, Pools
  <2>2. /\ signal[c] = "none" /\ signal' = [signal EXCEPT ![c] = q]
        /\ queue' = [queue EXCEPT ![q] = Append(@, t)]
        /\ UNCHANGED worker /\ q # "none"
    BY <1>1, <2>1, Zenon DEF worker_pool_enqueue, Pools
  <2>3. L' = L /\ At(p, "waiting")' = At(p, "waiting")
    BY <2>2, Zenon DEF At, L
  <2>4. /\ Cardinality(Signalling(q)') = Cardinality(Signalling(q)) + 1
        /\ \A x : x \notin {q, "none"} => Signalling(x)' = Signalling(x)
    BY <2>2, SignalCount, Zenon
  <2>5. CASE q = p
    <3>1. queue'[p] = Append(queue[p], t)
      BY <2>2, <2>5, Zenon DEF WPTypeOK
    <3>2. Len(queue'[p]) = Len(queue[p]) + 1
      BY <1>t, <3>1, Appended
    <3> QED
      BY <1>t, <1>c, <2>3, <2>4, <2>5, <3>2 DEF S
  <2>6. CASE q # p
    <3>1. queue'[p] = queue[p]
      BY <2>2, <2>6, Zenon DEF WPTypeOK
    <3>2. S' = S
      BY <2>4, <2>6, Zenon DEF S, Pools
    <3> QED
      BY <1>c, <2>3, <3>1, <3>2, Zenon
  <2> QED
    BY <2>5, <2>6, Zenon
<1>2. ASSUME NEW CONSTANT c \in Reactors, pthread_cond_signal(c)
      PROVE  Len(queue'[p]) <= Cardinality(L') + Cardinality(S')
  <2>1. PICK q \in Pools : q = signal[c]
    BY <1>2, Zenon DEF pthread_cond_signal, WPTypeOK
  <2>2. /\ signal[c] = q /\ q # "none" /\ UNCHANGED queue
        /\ signal' = [signal EXCEPT ![c] = "none"]
    BY <1>2, <2>1, Zenon DEF pthread_cond_signal, Pools
  <2>3. /\ Cardinality(Signalling(q)') = Cardinality(Signalling(q)) - 1
        /\ \A x : x \notin {q, "none"} => Signalling(x)' = Signalling(x)
    BY <2>2, SignalCount, Zenon
  <2>4. CASE At(q, "waiting") = {} /\ UNCHANGED worker
    <3>1. q # p
      BY <2>4, Zenon DEF At
    <3>2. S' = S
      BY <2>3, <3>1, Zenon DEF S, Pools
    <3>3. L' = L /\ At(p, "waiting")' = At(p, "waiting")
      BY <2>4, Zenon DEF At, L
    <3> QED
      BY <1>c, <2>2, <3>2, <3>3, Zenon
  <2>5. CASE \E w \in At(q, "waiting") : worker' = [worker EXCEPT ![w] = "lock"]
    <3>1. PICK w \in Workers : /\ PoolOf[w] = q /\ worker[w] = "waiting"
                               /\ worker' = [worker EXCEPT ![w] = "lock"]
                               /\ w \in At(q, "waiting")
      BY <2>5, Zenon DEF At
    <3>2. CASE q = p
      <4>1. Cardinality(L') = Cardinality(L) + 1
        BY <3>1, <3>2, MovedCount, Zenon DEF L
      <4> QED
        BY <1>t, <1>c, <2>2, <2>3, <3>1, <3>2, <4>1 DEF S
    <3>3. CASE q # p
      <4>1. L' = L /\ At(p, "waiting")' = At(p, "waiting")
        BY <3>1, <3>3, Zenon DEF At, L, WPTypeOK
      <4>2. S' = S
        BY <2>3, <3>3, Zenon DEF S, Pools
      <4> QED
        BY <1>c, <2>2, <4>1, <4>2, Zenon
    <3> QED
      BY <3>2, <3>3, Zenon
  <2> QED
    BY <1>2, <2>1, <2>4, <2>5, Zenon DEF pthread_cond_signal
<1>3. ASSUME NEW CONSTANT w \in Workers,
             \/ worker_wait(w) \/ worker_exit(w) \/ spurious_wakeup(w)
             \/ worker_pop(w) \/ worker_done(w)
      PROVE  Len(queue'[p]) <= Cardinality(L') + Cardinality(S')
  <2>1. PICK from : from = worker[w]
    BY Zenon
  <2>2. PICK s : /\ worker' = [worker EXCEPT ![w] = s] /\ from # s
                 /\ from = "lock" \/ s = "lock"
                 /\ from = "lock" => \/ queue[PoolOf[w]] = <<>> /\ UNCHANGED queue
                                     \/ s = "busy"
    BY <1>3, <2>1, Zenon
    DEF worker_wait, worker_exit, spurious_wakeup, worker_pop, worker_done
  <2>3. S' = S
    BY <1>3, Zenon DEF S, Signalling, worker_wait, worker_exit, spurious_wakeup,
                worker_pop, worker_done
  <2>4. CASE p # PoolOf[w]
    <3>1. L' = L /\ At(p, "waiting")' = At(p, "waiting")
      BY <2>1, <2>2, <2>4, Zenon DEF At, L, WPTypeOK
    <3>2. queue'[p] = queue[p]
      BY <1>3, <2>4, Zenon DEF worker_wait, worker_exit, spurious_wakeup, worker_pop,
                        worker_done, WPTypeOK
    <3> QED
      BY <1>c, <2>3, <3>1, <3>2, Zenon
  <2>5. CASE p = PoolOf[w] /\ from # "lock"
    <3>1. Cardinality(L') = Cardinality(L) + 1
      BY <2>1, <2>2, <2>5, MovedCount, Zenon DEF L
    <3>2. UNCHANGED queue
      BY <1>3, <2>1, <2>5, Zenon DEF worker_wait, worker_exit, spurious_wakeup,
                              worker_pop, worker_done
    <3>3. At(p, "waiting") # {}
      BY <2>1, <2>2, <2>5, Zenon DEF At, WPTypeOK
    <3> QED
      BY <1>t, <1>c, <2>3, <3>1, <3>2, <3>3
  <2>6. CASE p = PoolOf[w] /\ from = "lock" /\ queue[p] = <<>> /\ UNCHANGED queue
    <3>1. Len(queue'[p]) = 0
      BY <2>6, Zenon
    <3> QED
      BY <1>t, <3>1
  <2>7. CASE p = PoolOf[w] /\ from = "lock" /\ s = "busy"
    <3>1. worker_pop(w)
      BY <1>3, <2>1, <2>2, <2>7, Zenon DEF worker_wait, worker_exit, spurious_wakeup,
                                    worker_done, WPTypeOK
    <3>2. queue[p] # <<>> /\ queue'[p] = Tail(queue[p])
      BY <2>7, <3>1, Zenon DEF worker_pop, WPTypeOK
    <3>3. Len(queue'[p]) = Len(queue[p]) - 1
      BY <1>t, <3>2, HeadTail, Zenon
    <3>4. Cardinality(L') = Cardinality(L) - 1
      BY <2>1, <2>2, <2>7, MovedCount, Zenon DEF L
    <3>5. At(p, "waiting") # {}
      BY <2>1, <2>2, <2>7, Zenon DEF At, WPTypeOK
    <3> QED
      BY <1>t, <1>c, <2>3, <3>3, <3>4, <3>5
  <2> QED
    BY <2>2, <2>4, <2>5, <2>6, <2>7, Zenon
<1>4. ASSUME NEW CONSTANT q \in Pools, worker_pool_stop_broadcast(q)
      PROVE  Len(queue'[p]) <= Cardinality(L') + Cardinality(S')
  <2>1. /\ worker' = [w \in Workers |-> IF w \in At(q, "waiting") THEN "lock"
                                        ELSE worker[w]]
        /\ UNCHANGED <<queue, signal>>
    BY <1>4, Zenon DEF worker_pool_stop_broadcast
  <2>2. q # p
    BY <2>1, Zenon DEF At
  <2>3. L' = L /\ At(p, "waiting")' = At(p, "waiting") /\ S' = S
    BY <2>1, <2>2, Zenon DEF At, L, S, Signalling
  <2> QED
    BY <1>c, <2>1, <2>3, Zenon
<1>5. ASSUME UNCHANGED <<queue, worker, signal>>
      PROVE  Len(queue'[p]) <= Cardinality(L') + Cardinality(S')
  <2>1. L' = L /\ At(p, "waiting")' = At(p, "waiting") /\ S' = S
    BY <1>5, Zenon DEF At, L, S, Signalling
  <2> QED
    BY <1>c, <1>5, <2>1, Zenon
<1>6. \A q \in Pools : worker_pool_stop_set(q) \/ worker_pool_stop_join(q)
                          => UNCHANGED <<queue, worker, signal>>
  BY Zenon DEF worker_pool_stop_set, worker_pool_stop_join
<1> QED
  BY <1>1, <1>2, <1>3, <1>4, <1>5, <1>6, Zenon DEF StepCases, L, S, poolVars

----------------------------------------------------------------------------
(* The rest of the inductive invariant. *)

\* size counts the list, and an append needs room.
LEMMA BoundStep == WPTypeOK /\ BoundedQueue /\ StepCases => BoundedQueue'
<1> SUFFICES ASSUME WPTypeOK, BoundedQueue, StepCases PROVE BoundedQueue'
  BY Zenon
<1>t. \A p \in Pools : queue[p] \in Seq(Tasks) /\ Len(queue[p]) \in Nat
  BY LengthIs, Zenon DEF WPTypeOK
<1>m. MaxQueue \in Nat
  BY WorkerPoolConstants, Zenon DEF WorkerPoolConstants
<1>1. ASSUME NEW c \in Reactors, NEW t \in Tasks,
             NEW fast \in BOOLEAN, worker_pool_enqueue(c, t, fast)
      PROVE  BoundedQueue'
  <2>1. PICK q \in Pools : q = Route(fast)
    BY Zenon DEF Route, Pools
  <2>2. /\ ~(MaxQueue > 0 /\ size[q] >= MaxQueue)
        /\ queue' = [queue EXCEPT ![q] = Append(@, t)]
        /\ size' = [size EXCEPT ![q] = @ + 1]
    BY <1>1, <2>1, Zenon DEF worker_pool_enqueue, Rejects
  <2>3. Len(Append(queue[q], t)) = Len(queue[q]) + 1
    BY <1>t, Appended
  <2> QED
    BY <1>t, <1>m, <2>2, <2>3 DEF BoundedQueue, WPTypeOK
<1>2. ASSUME NEW w \in Workers, worker_pop(w)
      PROVE  BoundedQueue'
  <2>1. PICK q \in Pools : q = PoolOf[w]
    BY WorkerPoolConstants, Zenon DEF WorkerPoolConstants
  <2>2. /\ queue[q] # <<>>
        /\ queue' = [queue EXCEPT ![q] = Tail(@)]
        /\ size' = [size EXCEPT ![q] = @ - 1]
    BY <1>2, <2>1, Zenon DEF worker_pop
  <2>3. Len(Tail(queue[q])) = Len(queue[q]) - 1
    BY <1>t, <2>2, HeadTail, Zenon
  <2> QED
    BY <1>t, <1>m, <2>2, <2>3 DEF BoundedQueue, WPTypeOK
<1>3. CASE UNCHANGED <<queue, size>>
  BY <1>3, Zenon DEF BoundedQueue
<1>4. \/ UNCHANGED <<queue, size>>
      \/ \E w \in Workers : worker_pop(w)
      \/ \E c \in Reactors, t \in Tasks, fast \in BOOLEAN : worker_pool_enqueue(c, t, fast)
  BY Zenon DEF StepCases, pthread_cond_signal, worker_wait, worker_exit, worker_done,
         spurious_wakeup, worker_pool_stop_set, worker_pool_stop_broadcast,
         worker_pool_stop_join, poolVars
<1> QED
  BY <1>1, <1>2, <1>3, <1>4, Zenon

\* A pool goes quiet in order: flag, broadcast, exits with an empty queue, join.
LEMMA StopStep ==
  WPTypeOK /\ NoneSleepsAfterStop /\ StopInv /\ StepCases
    => NoneSleepsAfterStop' /\ StopInv'
<1> SUFFICES ASSUME WPTypeOK, NoneSleepsAfterStop, StopInv, StepCases
             PROVE  NoneSleepsAfterStop' /\ StopInv'
  BY Zenon
<1> USE WorkerPoolConstants DEF WorkerPoolConstants, WPTypeOK, StopInv,
        NoneSleepsAfterStop, At
<1>1. CASE \E c \in Reactors, t \in Tasks, fast \in BOOLEAN : worker_pool_enqueue(c, t, fast)
  <2>1. PICK c \in Reactors, t \in Tasks, q \in Pools :
              /\ q \notin shutdown
              /\ queue' = [queue EXCEPT ![q] = Append(@, t)]
              /\ UNCHANGED <<shutdown, worker, wtask, stop>>
    <3>1. PICK c \in Reactors, t \in Tasks, fast \in BOOLEAN : worker_pool_enqueue(c, t, fast)
      BY <1>1, Zenon
    <3>2. Route(fast) \in Pools
      BY Zenon DEF Route, Pools
    <3>3. /\ Route(fast) \notin shutdown
          /\ queue' = [queue EXCEPT ![Route(fast)] = Append(@, t)]
          /\ UNCHANGED <<shutdown, worker, wtask, stop>>
      BY <3>1, Zenon DEF worker_pool_enqueue, Rejects
    <3> QED
      BY <3>2, <3>3, Zenon
  <2>2. \A p \in Pools : p # q => queue'[p] = queue[p]
    BY <2>1, Zenon
  <2> QED
    BY <2>1, <2>2
<1>2. CASE \E c \in Reactors : pthread_cond_signal(c)
  <2>1. PICK c \in Reactors : pthread_cond_signal(c)
    BY <1>2, Zenon
  <2>2. CASE UNCHANGED worker
    BY <2>1, <2>2 DEF pthread_cond_signal
  <2>3. CASE \E w \in Workers : /\ worker[w] = "waiting"
                                /\ worker' = [worker EXCEPT ![w] = "lock"]
    <3>1. PICK w \in Workers : /\ worker[w] = "waiting"
                               /\ worker' = [worker EXCEPT ![w] = "lock"]
      BY <2>3, Zenon
    <3>2. UNCHANGED <<queue, shutdown, wtask, stop>>
      BY <2>1, Zenon DEF pthread_cond_signal
    <3> QED
      BY <3>1, <3>2
  <2> QED
    BY <2>1, <2>2, <2>3, Zenon DEF pthread_cond_signal
<1>3. CASE \E w \in Workers : worker_wait(w) \/ worker_exit(w) \/ spurious_wakeup(w)
  BY <1>3 DEF worker_wait, worker_exit, spurious_wakeup
<1>4. CASE \E w \in Workers : worker_pop(w)
  <2>1. PICK w \in Workers : worker_pop(w)
    BY <1>4, Zenon
  <2>2. Head(queue[PoolOf[w]]) \in Tasks
    BY <2>1, HeadTail DEF worker_pop
  <2>3. \A p \in Pools : p # PoolOf[w] => queue'[p] = queue[p]
    BY <2>1, Zenon DEF worker_pop
  <2> QED
    BY <2>1, <2>2, <2>3 DEF worker_pop
<1>5. CASE \E w \in Workers : worker_done(w)
  BY <1>5 DEF worker_done
<1>6. CASE \E p \in Pools : worker_pool_stop_set(p)
  BY <1>6 DEF worker_pool_stop_set
<1>7. CASE \E p \in Pools : worker_pool_stop_broadcast(p)
  BY <1>7 DEF worker_pool_stop_broadcast
<1>8. CASE \E p \in Pools : worker_pool_stop_join(p)
  BY <1>8 DEF worker_pool_stop_join
<1>9. CASE UNCHANGED poolVars
  BY <1>9 DEF poolVars
<1> QED
  BY <1>1, <1>2, <1>3, <1>4, <1>5, <1>6, <1>7, <1>8, <1>9, Zenon DEF StepCases

\* The initial pools satisfy the inductive invariant.
LEMMA WorkerInvInit == WPInit => WorkerInv
<1> SUFFICES ASSUME WPInit PROVE WorkerInv
  BY Zenon
<1>1. WPTypeOK
  BY DEF WPInit, WPTypeOK, Pools
<1>2. BoundedQueue
  BY WorkerPoolConstants DEF WorkerPoolConstants, WPInit, BoundedQueue
<1>3. \A p : At(p, "waiting") = {}
  BY Zenon DEF WPInit, At
<1>4. WorkConserving /\ NoneSleepsAfterStop
  BY <1>3, Zenon DEF WorkConserving, NoneSleepsAfterStop
<1>5. StopInv
  BY WorkerPoolConstants, Zenon DEF WorkerPoolConstants, WPInit, StopInv, Pools
<1> QED
  BY <1>1, <1>2, <1>4, <1>5, Zenon DEF WorkerInv

\* Every step of the pools, whichever pool a task is routed to, keeps the
\* inductive invariant.
LEMMA WorkerInvStep == WorkerInv /\ StepCases => WorkerInv'
  BY TypePreserved, BoundStep, WakeupStep, StopStep, Zenon DEF WorkerInv

\* In every reachable state of the pools, types hold, size is the length and
\* within the limit, no wakeup is lost, and the pools stop in order.
THEOREM WorkerPoolCorrect == WPSpec => []WorkerInv
<1>1. WorkerInv /\ [WPNext]_poolVars => WorkerInv'
  BY NextIsStep, WorkerInvStep, Zenon
<1> QED
  BY WorkerInvInit, <1>1, PTL DEF WPSpec

\* The limit of worker_pool_enqueue is a limit on the queues themselves.
THEOREM QueuesAreBounded == WPSpec => []BoundedQueue
<1>1. WorkerInv => BoundedQueue
  BY Zenon DEF WorkerInv
<1> QED
  BY <1>1, WorkerPoolCorrect, PTL

\* Signalling after the unlock never loses a wakeup.
THEOREM NoLostWakeup == WPSpec => []WorkConserving
<1>1. WorkerInv => WorkConserving
  BY Zenon DEF WorkerInv
<1> QED
  BY <1>1, WorkerPoolCorrect, PTL

\* No worker sleeps in a pool whose stop has been broadcast.
THEOREM NoneSleepsThroughStop == WPSpec => []NoneSleepsAfterStop
<1>1. WorkerInv => NoneSleepsAfterStop
  BY Zenon DEF WorkerInv
<1> QED
  BY <1>1, WorkerPoolCorrect, PTL

\* A joined pool has run everything it accepted.
THEOREM JoinedPoolsAreDrained == WPSpec => []DrainedWhenJoined
<1>1. WorkerInv => DrainedWhenJoined
  <2> SUFFICES ASSUME WorkerInv, NEW p \in Pools, stop[p] = "joined"
               PROVE  /\ queue[p] = <<>>
                      /\ \A w \in Workers : PoolOf[w] = p => wtask[w] = NoTask
    BY Zenon DEF DrainedWhenJoined
  <2>1. \E w \in Workers : PoolOf[w] = p
    BY WorkerPoolConstants, Zenon DEF WorkerPoolConstants
  <2> QED
    BY <2>1, Zenon DEF WorkerInv, StopInv
<1> QED
  BY <1>1, WorkerPoolCorrect, PTL

----------------------------------------------------------------------------
(* The completion queues. *)

\* The initial queues satisfy the inductive invariant.
LEMMA CQInitial == CQInit => CQInv
<1> SUFFICES ASSUME CQInit PROVE CQInv
  BY Zenon
<1>1. CQTypeOK /\ BatchInv
  BY DEF CQInit, CQTypeOK, BatchInv
<1>2. \A r \in Reactors : Writers(r) = {}
  BY CompletionQueueConstants, Zenon DEF CompletionQueueConstants, CQInit, Writers
<1>3. Cardinality({}) = 0
  BY FS_EmptySet, Zenon
<1>4. OneWakeup
  <2> SUFFICES ASSUME NEW r \in Reactors
               PROVE  Cardinality(Writers(r)) + eventfd[r]
                        + (IF reactor[r] = "read" THEN 1 ELSE 0)
                      = IF cq[r] = <<>> THEN 0 ELSE 1
    BY Zenon DEF OneWakeup
  <2>1. /\ Cardinality(Writers(r)) = 0 /\ eventfd[r] = 0
        /\ reactor[r] # "read" /\ cq[r] = <<>>
    BY <1>2, <1>3, Zenon DEF CQInit
  <2> QED
    BY <2>1
<1> QED
  BY <1>1, <1>4, Zenon DEF CQInv

\* A worker that starts or finishes a write to reactor r.
LEMMA WriterCount ==
  ASSUME CQTypeOK, NEW CONSTANT w \in Workers, NEW CONSTANT from, NEW CONSTANT to,
         writing[w] = from, from # to, writing' = [writing EXCEPT ![w] = to]
  PROVE  /\ Cardinality(Writers(to)') = Cardinality(Writers(to)) + 1
         /\ Cardinality(Writers(from)') = Cardinality(Writers(from)) - 1
         /\ \A r : r \notin {to, from} => Writers(r)' = Writers(r)
<1>1. writing' = [x \in Workers |-> IF x = w THEN to ELSE writing[x]]
  BY Zenon DEF CQTypeOK
<1>2. /\ Writers(to)' = Writers(to) \cup {w} /\ w \notin Writers(to)
      /\ Writers(from)' = Writers(from) \ {w} /\ w \in Writers(from)
      /\ \A r : r \notin {to, from} => Writers(r)' = Writers(r)
  BY <1>1, Zenon DEF Writers
<1>3. IsFiniteSet(Workers) /\ Writers(to) \subseteq Workers /\ Writers(from) \subseteq Workers
  BY ThreadsConstants, Zenon DEF ThreadsConstants, Writers
<1>4. IsFiniteSet(Writers(to)) /\ IsFiniteSet(Writers(from))
  BY <1>3, FS_Subset, Zenon
<1>5. /\ Cardinality(Writers(to) \cup {w}) = Cardinality(Writers(to)) + 1
      /\ Cardinality(Writers(from) \ {w}) = Cardinality(Writers(from)) - 1
  BY <1>2, <1>4, FS_AddElement, FS_RemoveElement, Zenon
<1> QED
  BY <1>2, <1>5, Zenon

\* The steps of the queues, whoever takes them.
CQCases ==
    \/ \E w \in Workers, r \in Reactors, t \in Tasks : server_notify_task_done(w, r, t)
    \/ \E w \in Workers : eventfd_write(w)
    \/ \E r \in Reactors : Callback(r)
    \/ UNCHANGED cqVars

\* Every step keeps exactly one wakeup per list that is not empty.
LEMMA CQStep == CQInv /\ CQCases => CQInv'
<1> SUFFICES ASSUME CQInv, CQCases PROVE CQInv'
  BY Zenon
<1>i. CQTypeOK /\ BatchInv /\ OneWakeup
  BY Zenon DEF CQInv
<1>n. \A r : Cardinality(Writers(r)) \in Nat
  <2>1. \A r : Writers(r) \subseteq Workers
    BY Zenon DEF Writers
  <2> QED
    BY <2>1, ThreadsConstants, FS_Subset, FS_CardinalityType, Zenon DEF ThreadsConstants
<1>1. ASSUME NEW CONSTANT w \in Workers, NEW CONSTANT r \in Reactors,
             NEW CONSTANT t \in Tasks, server_notify_task_done(w, r, t)
      PROVE  CQInv'
  <2>1. /\ writing[w] = NoReactor /\ r # NoReactor
        /\ cq' = [cq EXCEPT ![r] = Append(@, t)]
        /\ UNCHANGED <<eventfd, reactor, batch>>
    BY <1>1, CompletionQueueConstants, Zenon
    DEF server_notify_task_done, CompletionQueueConstants
  <2>2. cq'[r] # <<>> /\ cq'[r] \in Seq(Tasks)
    <3>1. cq[r] \in Seq(Tasks) /\ cq'[r] = Append(cq[r], t)
      BY <1>i, <2>1, Zenon DEF CQTypeOK
    <3>2. Append(cq[r], t) \in Seq(Tasks) /\ Append(cq[r], t) # <<>>
      BY <3>1, Appended
    <3> QED
      BY <3>1, <3>2, Zenon
  <2>3. CQTypeOK' /\ BatchInv'
    BY <1>1, <1>i, <2>1, <2>2, Zenon DEF CQTypeOK, BatchInv, server_notify_task_done
  <2>4. CASE cq[r] = <<>>
    <3>1. writing' = [writing EXCEPT ![w] = r]
      BY <1>1, <2>4, Zenon DEF server_notify_task_done
    <3>2. /\ Cardinality(Writers(r)') = Cardinality(Writers(r)) + 1
          /\ \A x : x \notin {r, NoReactor} => Writers(x)' = Writers(x)
      BY <1>i, <2>1, <3>1, WriterCount, Zenon
    <3>3. \A x \in Reactors : x # r => Writers(x)' = Writers(x) /\ cq'[x] = cq[x]
      BY <1>i, <2>1, <3>2, CompletionQueueConstants, Zenon
      DEF CompletionQueueConstants, CQTypeOK
    <3>4. eventfd[r] \in Nat
      BY <1>i, Zenon DEF CQTypeOK
    <3> QED
      BY <1>i, <1>n, <2>1, <2>2, <2>3, <2>4, <3>2, <3>3, <3>4 DEF OneWakeup, CQInv
  <2>5. CASE cq[r] # <<>>
    <3>1. UNCHANGED writing
      BY <1>1, <1>i, <2>1, <2>5, Zenon DEF server_notify_task_done, CQTypeOK
    <3>2. \A x \in Reactors : Writers(x)' = Writers(x) /\ (x # r => cq'[x] = cq[x])
      BY <1>i, <2>1, <3>1, Zenon DEF Writers, CQTypeOK
    <3> QED
      BY <1>i, <2>1, <2>2, <2>3, <2>5, <3>2, Zenon DEF OneWakeup, CQInv
  <2> QED
    BY <2>4, <2>5, Zenon
<1>2. ASSUME NEW CONSTANT w \in Workers, eventfd_write(w)
      PROVE  CQInv'
  <2>1. PICK r \in Reactors : writing[w] = r
    BY <1>2, <1>i, Zenon DEF eventfd_write, CQTypeOK
  <2>2. /\ eventfd' = [eventfd EXCEPT ![r] = @ + 1]
        /\ writing' = [writing EXCEPT ![w] = NoReactor]
        /\ UNCHANGED <<cq, reactor, batch>> /\ r # NoReactor
    BY <1>2, <2>1, Zenon DEF eventfd_write
  <2>3. /\ Cardinality(Writers(r)') = Cardinality(Writers(r)) - 1
        /\ \A x : x \notin {r, NoReactor} => Writers(x)' = Writers(x)
    BY <1>i, <2>1, <2>2, WriterCount, Zenon
  <2>4. \A x \in Reactors : x # r => Writers(x)' = Writers(x) /\ eventfd'[x] = eventfd[x]
    BY <1>i, <2>2, <2>3, CompletionQueueConstants, Zenon DEF CompletionQueueConstants, CQTypeOK
  <2>5. eventfd[r] \in Nat /\ eventfd'[r] = eventfd[r] + 1
    BY <1>i, <2>2, Zenon DEF CQTypeOK
  <2>6. CQTypeOK' /\ BatchInv'
    BY <1>i, <2>2 DEF CQTypeOK, BatchInv
  <2> QED
    BY <1>i, <1>n, <2>2, <2>3, <2>4, <2>5, <2>6 DEF OneWakeup, CQInv
<1>3. ASSUME NEW r \in Reactors, Callback(r)
      PROVE  CQInv'
  <2>1. \A x : Writers(x)' = Writers(x)
    BY <1>3, Zenon DEF Writers, Callback, eventfd_read, detach, next_completed
  <2>2. CASE eventfd_read(r)
    BY <1>i, <1>n, <2>1, <2>2 DEF eventfd_read, CQTypeOK, BatchInv, OneWakeup, CQInv
  <2>3. CASE detach(r)
    BY <1>i, <1>n, <2>1, <2>3 DEF detach, CQTypeOK, BatchInv, OneWakeup, CQInv
  <2>4. CASE next_completed(r)
    <3>1. Tail(batch[r]) \in Seq(Tasks)
      BY <1>i, <2>4, HeadTail, Zenon DEF next_completed, CQTypeOK, BatchInv
    <3> QED
      BY <1>i, <2>1, <2>4, <3>1, Zenon DEF next_completed, CQTypeOK, BatchInv, OneWakeup, CQInv
  <2> QED
    BY <1>3, <2>2, <2>3, <2>4, Zenon DEF Callback
<1>4. CASE UNCHANGED cqVars
  BY <1>i, <1>4, Zenon DEF cqVars, CQTypeOK, BatchInv, OneWakeup, CQInv, Writers
<1> QED
  BY <1>1, <1>2, <1>3, <1>4, Zenon DEF CQCases

\* The completion queues keep their types and exactly one wakeup per list
\* that is not empty.
THEOREM CompletionQueueCorrect == CQSpec => []CQInv
<1>1. [CQNext]_cqVars => CQCases
  BY Zenon DEF CQNext, CQCases
<1> QED
  BY CQInitial, CQStep, <1>1, PTL DEF CQSpec

\* No wakeup of a reactor is lost or sent twice.
THEOREM ExactlyOneWakeup == CQSpec => []OneWakeup
<1>1. CQInv => OneWakeup
  BY Zenon DEF CQInv
<1> QED
  BY <1>1, CompletionQueueCorrect, PTL

----------------------------------------------------------------------------
(* The inductive invariant of the composition. *)

\* t is in the sequence s; no task is in it twice.
In(s, t) == \E n \in 1 .. Len(s) : s[n] = t
Once(s) == \A m, n \in 1 .. Len(s) : s[m] = s[n] => m = n

\* The places a task can be in: a kind, and which one of that kind.
Kinds == {"queue", "worker", "cq", "batch"}
Which(k) == IF k = "queue" THEN Pools ELSE IF k = "worker" THEN Workers ELSE Reactors
Here(k, i, t) == \/ k = "queue" /\ In(queue[i], t)
                 \/ k = "worker" /\ wtask[i] = t
                 \/ k = "cq" /\ In(cq[i], t)
                 \/ k = "batch" /\ In(batch[i], t)
Somewhere(t) == \E k \in Kinds : \E i \in Which(k) : Here(k, i, t)

\* No list has a task twice, and no task is in two places.
NoRepeats == /\ \A p \in Pools : Once(queue[p])
             /\ \A r \in Reactors : Once(cq[r]) /\ Once(batch[r])
OnePlace == \A t \in Tasks, k, l \in Kinds : \A i \in Which(k), j \in Which(l) :
               Here(k, i, t) /\ Here(l, j, t) => k = l /\ i = j

\* The tasks that are somewhere are the leased ones.
PlaceInv == /\ NoRepeats
            /\ OnePlace
            /\ \A t \in Tasks : t \in leased <=> Somewhere(t)

\* A leased task has a request that waits for it, is on its own reactor, and
\* is cancelled only when the client has gone.
LeaseInv == \A r \in Reactors : \A t \in held[r] :
               /\ reactor_id[t] = r
               /\ treq[t] \in Requests
               /\ home[treq[t]] = r
               /\ http[treq[t]] = "owned"
               /\ answer[treq[t]] = "none"
               /\ t \in cancelled => treq[t] \in gone

\* Two leased tasks are for two requests; a request the application owns has
\* a task; one that has not arrived is untouched.
RequestInv == /\ \A t, u \in leased : treq[t] = treq[u] => t = u
              /\ \A q \in Requests : /\ http[q] = "owned" => \E t \in leased : treq[t] = q
                                     /\ http[q] = "none" => answer[q] = "none"

\* A task that is handed back goes to the reactor it names, and was run
\* unless it was cancelled.
Finished(t) == t \in ran \/ t \in cancelled
BackInv == /\ \A r \in Reactors : \A t \in Tasks :
                 In(cq[r], t) \/ In(batch[r], t) => reactor_id[t] = r /\ Finished(t)
           /\ \A w \in Workers : phase[w] = "notify" => Finished(wtask[w])
           /\ \A w \in Workers : phase[w] = "none" <=> worker[w] # "busy"

\* The shutdown goes from the pools to the queues to the event loops, and
\* what it has left behind stays empty.
ShutInv == /\ stop["slow"] = "joined" => stop["fast"] = "joined"
           /\ drained > 0 => stop["slow"] = "joined"
           /\ broken > 0 => drained = NumReactors
           /\ \A r \in Reactors : /\ r < drained => cq[r] = <<>>
                                  /\ reactor[r] # "batch" => batch[r] = <<>>
                                  /\ r \notin running => /\ r < broken
                                                         /\ reactor[r] = "loop"
                                                         /\ signal[r] = "none"

ApiInv == /\ TypeOK /\ WorkerInv /\ CQInv /\ PlaceInv /\ LeaseInv
          /\ RequestInv /\ CallbackIsCurrent /\ BackInv /\ ShutInv

----------------------------------------------------------------------------
(* Lists of tasks. *)

\* A task is appended.
LEMMA AppendIn ==
  ASSUME NEW s \in Seq(Tasks), NEW u \in Tasks
  PROVE  /\ \A t : In(Append(s, u), t) <=> In(s, t) \/ t = u
         /\ Once(s) /\ ~In(s, u) => Once(Append(s, u))
<1>1. /\ Len(s) \in Nat /\ Len(Append(s, u)) = Len(s) + 1
      /\ \A n \in 1 .. Len(s) : Append(s, u)[n] = s[n]
      /\ Append(s, u)[Len(s) + 1] = u
  OBVIOUS
<1>2. 1 .. (Len(s) + 1) = (1 .. Len(s)) \cup {Len(s) + 1}
  BY <1>1
<1>3. \A n \in 1 .. Len(s) : n # Len(s) + 1
  BY <1>1
<1>4. \A t : In(Append(s, u), t) <=> In(s, t) \/ t = u
  BY <1>1, <1>2, Zenon DEF In
<1>5. ASSUME Once(s), ~In(s, u) PROVE Once(Append(s, u))
  <2> DEFINE a == Append(s, u)
  <2>1. \A n \in 1 .. Len(s) : a[n] # u
    BY <1>1, <1>5, Zenon DEF In
  <2>2. \A m, n \in 1 .. Len(s) : a[m] = a[n] => m = n
    BY <1>1, <1>5, Zenon DEF Once
  <2>3. \A m, n \in (1 .. Len(s)) \cup {Len(s) + 1} : a[m] = a[n] => m = n
    BY <1>1, <2>1, <2>2, Zenon
  <2> QED
    BY <1>1, <1>2, <2>3, Zenon DEF Once
<1> QED
  BY <1>4, <1>5, Zenon

\* The first task is taken away.
LEMMA TailIn ==
  ASSUME NEW s \in Seq(Tasks), s # <<>>, Once(s)
  PROVE  /\ Head(s) \in Tasks /\ Tail(s) \in Seq(Tasks)
         /\ In(s, Head(s))
         /\ \A t : In(Tail(s), t) <=> In(s, t) /\ t # Head(s)
         /\ Once(Tail(s))
<1>1. /\ Len(s) \in Nat /\ 1 \in 1 .. Len(s) /\ s[1] = Head(s)
      /\ Head(s) \in Tasks /\ Tail(s) \in Seq(Tasks)
      /\ Len(Tail(s)) = Len(s) - 1
      /\ \A n \in 1 .. Len(s) - 1 : Tail(s)[n] = s[n + 1]
  OBVIOUS
<1>2. \A n \in 1 .. Len(s) - 1 : n + 1 \in 1 .. Len(s) /\ n + 1 # 1
  BY <1>1
<1>3. \A n \in 1 .. Len(s) : n # 1 => n - 1 \in 1 .. Len(s) - 1 /\ n = (n - 1) + 1
  BY <1>1
<1>4. \A m, n \in 1 .. Len(s) - 1 : m + 1 = n + 1 => m = n
  BY <1>1
<1>5. ASSUME NEW t, In(Tail(s), t) PROVE In(s, t) /\ t # Head(s)
  <2>1. PICK n \in 1 .. Len(s) - 1 : Tail(s)[n] = t
    BY <1>1, <1>5, Zenon DEF In
  <2>2. n + 1 \in 1 .. Len(s) /\ n + 1 # 1 /\ s[n + 1] = t
    BY <1>1, <1>2, <2>1, Zenon
  <2> QED
    BY <1>1, <2>2, Zenon DEF In, Once
<1>6. ASSUME NEW t, In(s, t), t # Head(s) PROVE In(Tail(s), t)
  <2>1. PICK n \in 1 .. Len(s) : s[n] = t /\ n # 1
    BY <1>1, <1>6, Zenon DEF In
  <2>2. n - 1 \in 1 .. Len(s) - 1 /\ Tail(s)[n - 1] = t
    BY <1>1, <1>3, <2>1, Zenon
  <2> QED
    BY <1>1, <2>2, Zenon DEF In
<1>7. Once(Tail(s))
  <2> SUFFICES ASSUME NEW m \in 1 .. Len(s) - 1, NEW n \in 1 .. Len(s) - 1, Tail(s)[m] = Tail(s)[n]
               PROVE  m = n
    BY <1>1, Zenon DEF Once
  <2>1. s[m + 1] = s[n + 1] /\ m + 1 \in 1 .. Len(s) /\ n + 1 \in 1 .. Len(s)
    BY <1>1, <1>2, Zenon
  <2>2. m + 1 = n + 1
    BY <2>1, Zenon DEF Once
  <2> QED
    BY <1>4, <2>2, Zenon
<1>8. In(s, Head(s))
  BY <1>1, Zenon DEF In
<1> QED
  BY <1>1, <1>5, <1>6, <1>7, <1>8, Zenon

\* The empty list.
LEMMA EmptyIn == Once(<<>>) /\ \A t : ~In(<<>>, t)
<1>1. 1 .. Len(<<>>) = {}
  OBVIOUS
<1> QED
  BY <1>1, Zenon DEF Once, In

\* A task that is in a list without repeats is there once, any other never.
LEMMA CountOnce ==
  ASSUME NEW s, NEW t, Once(s)
  PROVE  Count(s, t) = IF In(s, t) THEN 1 ELSE 0
<1>1. CASE In(s, t)
  <2>1. PICK n \in 1 .. Len(s) : s[n] = t
    BY <1>1, Zenon DEF In
  <2>2. {i \in 1 .. Len(s) : s[i] = t} = {n}
    BY <2>1, Zenon DEF Once
  <2> QED
    BY <1>1, <2>2, FS_Singleton, Zenon DEF Count
<1>2. CASE ~In(s, t)
  <2>1. {i \in 1 .. Len(s) : s[i] = t} = {}
    BY <1>2, Zenon DEF In
  <2> QED
    BY <1>2, <2>1, FS_EmptySet, Zenon DEF Count
<1> QED
  BY <1>1, <1>2, Zenon

----------------------------------------------------------------------------
(* A step of the server is a step of its parts. *)

\* A worker that is busy has a task of the slab.
LEMMA BusyHasTask ==
  ASSUME WorkerInv, BackInv, NEW w \in Workers, phase[w] # "none"
  PROVE  worker[w] = "busy" /\ wtask[w] \in Tasks
<1>1. worker[w] = "busy"
  BY Zenon DEF BackInv
<1>2. wtask[w] # NoTask
  BY <1>1, Zenon DEF WorkerInv, StopInv
<1> QED
  BY <1>1, <1>2, Zenon DEF WorkerInv, WPTypeOK

\* Of the pools,
LEMMA PoolSteps == [Next]_vars => StepCases
<1>1. ASSUME NEW r \in Reactors, NEW q \in Requests, Arrival(r, q) PROVE StepCases
  <2>1. (q \in FastRequests) \in BOOLEAN
    OBVIOUS
  <2> QED
    BY <1>1, <2>1, Zenon
    DEF Arrival, api_middleware_wrapper_refuses, server_enqueue_task_no_task,
        server_enqueue_task_rejected, server_enqueue_task, StepCases
<1>2. ASSUME NEW r \in Reactors, Reactor(r) PROVE StepCases
  BY <1>2, Zenon
  DEF Reactor, enqueue_signal, reactor_eventfd_read, reactor_detach, cleanup_cancelled_task,
      process_completed_task, reactor_thread_returns, StepCases
<1>3. ASSUME NEW q \in Requests, send_done(q) \/ disconnect(q) PROVE StepCases
  BY <1>3, Zenon DEF send_done, disconnect, StepCases
<1>4. ASSUME NEW w \in Workers, Worker(w) PROVE StepCases
  BY <1>4, Zenon
  DEF Worker, worker_idle, worker_take, worker_check, worker_process_task, worker_notify,
      worker_wakes_reactor, StepCases
<1>5. ASSUME Main PROVE StepCases
  BY <1>5, Zenon
  DEF Main, main_stops_pools, Stop, server_drain_reactor_queues, server_shutdown_workers,
      server_cleanup_globals, StepCases
<1>6. ASSUME UNCHANGED vars PROVE StepCases
  BY <1>6, Zenon DEF vars, StepCases
<1> QED
  BY <1>1, <1>2, <1>3, <1>4, <1>5, <1>6, Zenon DEF Next

\* of the completion queues,
LEMMA QueueSteps == ApiInv /\ [Next]_vars => CQCases
<1> SUFFICES ASSUME ApiInv, [Next]_vars PROVE CQCases
  BY Zenon
<1>1. ASSUME NEW r \in Reactors, NEW q \in Requests, Arrival(r, q) PROVE CQCases
  BY <1>1, Zenon
  DEF Arrival, api_middleware_wrapper_refuses, server_enqueue_task_no_task,
      server_enqueue_task_rejected, server_enqueue_task, CQCases
<1>2. ASSUME NEW r \in Reactors, Reactor(r) PROVE CQCases
  BY <1>2, Zenon
  DEF Reactor, enqueue_signal, reactor_eventfd_read, reactor_detach, cleanup_cancelled_task,
      process_completed_task, reactor_thread_returns, CQCases, Callback
<1>3. ASSUME NEW q \in Requests, send_done(q) \/ disconnect(q) PROVE CQCases
  BY <1>3, Zenon DEF send_done, disconnect, CQCases
<1>4. ASSUME NEW w \in Workers, Worker(w) PROVE CQCases
  <2>1. CASE worker_notify(w)
    <3>1. phase[w] # "none"
      BY <2>1, Zenon DEF worker_notify
    <3>2. wtask[w] \in Tasks
      BY <3>1, BusyHasTask, Zenon DEF ApiInv
    <3>3. reactor_id[wtask[w]] \in Reactors
      BY <3>2, Zenon DEF ApiInv, TypeOK
    <3> QED
      BY <2>1, <3>2, <3>3, Zenon DEF worker_notify, CQCases
  <2>2. CASE ~worker_notify(w)
    BY <1>4, <2>2, Zenon
    DEF Worker, worker_idle, worker_take, worker_check, worker_process_task,
        worker_wakes_reactor, CQCases
  <2> QED
    BY <2>1, <2>2, Zenon
<1>5. ASSUME Main PROVE CQCases
  BY <1>5, Zenon
  DEF Main, main_stops_pools, server_drain_reactor_queues, server_shutdown_workers,
      server_cleanup_globals, CQCases
<1>6. ASSUME UNCHANGED vars PROVE CQCases
  BY <1>6, Zenon DEF vars, CQCases
<1> QED
  BY <1>1, <1>2, <1>3, <1>4, <1>5, <1>6, Zenon DEF Next

\* and, as to where the tasks are, one of five moves.
PlaceCases == \/ \E r \in Reactors, q \in Requests, t \in Tasks : server_enqueue_task(r, q, t)
              \/ \E w \in Workers : worker_take(w) \/ worker_notify(w)
              \/ \E r \in Reactors : \/ reactor_detach(r)
                                     \/ cleanup_cancelled_task(r) \/ process_completed_task(r)
              \/ UNCHANGED <<queue, wtask, cq, batch, held>>

\* What a step can do to the places of tasks.
LEMMA PlaceSteps == [Next]_vars => PlaceCases
<1>1. ASSUME NEW r \in Reactors, NEW q \in Requests, Arrival(r, q) PROVE PlaceCases
  BY <1>1, Zenon
  DEF Arrival, api_middleware_wrapper_refuses, server_enqueue_task_no_task,
      server_enqueue_task_rejected, PlaceCases, poolVars, cqVars
<1>2. ASSUME NEW r \in Reactors, Reactor(r) PROVE PlaceCases
  BY <1>2, Zenon
  DEF Reactor, enqueue_signal, pthread_cond_signal, reactor_eventfd_read, eventfd_read,
      reactor_thread_returns, PlaceCases, poolVars, cqVars
<1>3. ASSUME NEW q \in Requests, send_done(q) \/ disconnect(q) PROVE PlaceCases
  BY <1>3, Zenon DEF send_done, disconnect, PlaceCases, poolVars, cqVars
<1>4. ASSUME NEW w \in Workers, Worker(w) PROVE PlaceCases
  BY <1>4, Zenon
  DEF Worker, worker_idle, worker_wait, worker_exit, spurious_wakeup, worker_check,
      worker_process_task, worker_wakes_reactor, eventfd_write, PlaceCases, poolVars, cqVars
<1>5. ASSUME Main PROVE PlaceCases
  BY <1>5, Zenon
  DEF Main, main_stops_pools, Stop, worker_pool_stop_set, worker_pool_stop_broadcast,
      worker_pool_stop_join, server_drain_reactor_queues, server_shutdown_workers,
      server_cleanup_globals, PlaceCases, poolVars, cqVars
<1>6. ASSUME UNCHANGED vars PROVE PlaceCases
  BY <1>6, Zenon DEF vars, PlaceCases, poolVars, cqVars
<1> QED
  BY <1>1, <1>2, <1>3, <1>4, <1>5, <1>6, Zenon DEF Next

----------------------------------------------------------------------------
(* Where the tasks are. *)

\* Task u comes to place l, j and is nowhere else.
LEMMA TaskMoves ==
  ASSUME PlaceInv, NoRepeats', NEW u \in Tasks, NEW l \in Kinds, NEW j \in Which(l),
         leased' = leased \cup {u},
         \A t \in Tasks, k \in Kinds : \A i \in Which(k) :
            Here(k, i, t)' <=> IF t = u THEN k = l /\ i = j ELSE Here(k, i, t)
  PROVE  PlaceInv'
<1>1. OnePlace'
  <2>1. \A t \in Tasks, k, m \in Kinds : \A i \in Which(k), n \in Which(m) :
           Here(k, i, t)' /\ Here(m, n, t)' => k = m /\ i = n
    <3> SUFFICES ASSUME NEW t \in Tasks, NEW k \in Kinds, NEW m \in Kinds,
                        NEW i \in Which(k), NEW n \in Which(m),
                        Here(k, i, t)', Here(m, n, t)'
                 PROVE  k = m /\ i = n
      BY Zenon
    <3>1. CASE t = u
      BY <3>1, Zenon
    <3>2. CASE t # u
      <4>1. Here(k, i, t) /\ Here(m, n, t)
        BY <3>2, Zenon
      <4> QED
        BY <4>1, Zenon DEF PlaceInv, OnePlace
    <3> QED
      BY <3>1, <3>2, Zenon
  <2> QED
    BY <2>1, Zenon DEF OnePlace, Which
<1>2. \A t \in Tasks : t \in leased' <=> Somewhere(t)'
  <2> SUFFICES ASSUME NEW t \in Tasks PROVE t \in leased' <=> Somewhere(t)'
    BY Zenon
  <2>1. CASE t = u
    BY <2>1, Zenon DEF Somewhere
  <2>2. CASE t # u
    <3>1. t \in leased' <=> t \in leased
      BY <2>2, Zenon
    <3>2. t \in leased <=> Somewhere(t)
      BY Zenon DEF PlaceInv
    <3>3. Somewhere(t)' <=> Somewhere(t)
      BY <2>2, Zenon DEF Somewhere
    <3> QED
      BY <3>1, <3>2, <3>3, Zenon
  <2> QED
    BY <2>1, <2>2, Zenon
<1> QED
  BY <1>1, <1>2, Zenon DEF PlaceInv

\* Task u is returned and is nowhere any more.
LEMMA TaskLeaves ==
  ASSUME PlaceInv, NoRepeats', NEW u \in Tasks, leased' = leased \ {u},
         \A t \in Tasks, k \in Kinds : \A i \in Which(k) :
            Here(k, i, t)' <=> Here(k, i, t) /\ t # u
  PROVE  PlaceInv'
<1>1. OnePlace'
  <2>1. \A t \in Tasks, k, m \in Kinds : \A i \in Which(k), n \in Which(m) :
           Here(k, i, t)' /\ Here(m, n, t)' => k = m /\ i = n
    BY Zenon DEF PlaceInv, OnePlace
  <2> QED
    BY <2>1, Zenon DEF OnePlace, Which
<1>2. \A t \in Tasks : t \in leased' <=> Somewhere(t)'
  <2> SUFFICES ASSUME NEW t \in Tasks PROVE t \in leased' <=> Somewhere(t)'
    BY Zenon
  <2>1. t \in leased <=> Somewhere(t)
    BY Zenon DEF PlaceInv
  <2>2. Somewhere(t)' <=> Somewhere(t) /\ t # u
    BY Zenon DEF Somewhere
  <2> QED
    BY <2>1, <2>2, Zenon
<1> QED
  BY <1>1, <1>2, Zenon DEF PlaceInv

\* A task is leased when a reactor holds it, and then only one does.
LEMMA Leased ==
  /\ \A t : t \in leased <=> \E r \in Reactors : t \in held[r]
  /\ LeaseInv => \A r, x \in Reactors : \A t : t \in held[r] /\ t \in held[x] => r = x
<1>1. \A t : t \in leased <=> \E r \in Reactors : t \in held[r]
  BY Zenon DEF leased
<1>2. LeaseInv => \A r \in Reactors : \A t \in held[r] : reactor_id[t] = r
  BY Zenon DEF LeaseInv
<1> QED
  BY <1>1, <1>2, Zenon

\* A task is leased after a step if some reactor then holds it.
LEMMA LeasedNext == \A t : t \in leased' <=> \E r \in Reactors : t \in held'[r]
  BY Zenon DEF leased

\* What a lease and a return do to the set of leased tasks.
LEMMA LeaseAdds ==
  ASSUME held \in [Reactors -> SUBSET Tasks], NEW r \in Reactors, NEW t, TL!Lease(r, t)
  PROVE  /\ t \notin leased /\ leased' = leased \cup {t}
         /\ \A x \in Reactors : held'[x] = IF x = r THEN held[x] \cup {t} ELSE held[x]
<1>1. \A x \in Reactors : held'[x] = IF x = r THEN held[x] \cup {t} ELSE held[x]
  BY Zenon DEF TL!Lease
<1>2. t \notin leased
  BY Zenon DEF TL!Lease, leased
<1>3. \A x : x \in leased' <=> x \in leased \/ x = t
  BY <1>1, Leased, LeasedNext, Zenon
<1> QED
  BY <1>1, <1>2, <1>3, Zenon

\* Returning a task takes it from its holder and from nobody else.
LEMMA ReturnRemoves ==
  ASSUME held \in [Reactors -> SUBSET Tasks], LeaseInv,
         NEW r \in Reactors, NEW t, TL!Return(r, t)
  PROVE  /\ t \in held[r] /\ t \in leased /\ leased' = leased \ {t}
         /\ \A x \in Reactors : held'[x] = IF x = r THEN held[x] \ {t} ELSE held[x]
<1>1. \A x \in Reactors : held'[x] = IF x = r THEN held[x] \ {t} ELSE held[x]
  BY Zenon DEF TL!Return
<1>2. t \in held[r] /\ t \in leased
  BY Zenon DEF TL!Return, leased
<1>3. \A x \in Reactors : t \in held[x] => x = r
  BY <1>2, Leased, Zenon
<1>4. \A x : x \in leased' <=> x \in leased /\ x # t
  <2>1. \A x : (\E y \in Reactors : x \in held'[y]) <=> (\E y \in Reactors : x \in held[y]) /\ x # t
    BY <1>1, <1>3, Zenon
  <2> QED
    BY <2>1, Leased, LeasedNext, Zenon
<1> QED
  BY <1>1, <1>2, <1>4, Zenon

\* The places of each kind.
LEMMA KindPlaces ==
  /\ \A i, t : Here("queue", i, t) <=> In(queue[i], t)
  /\ \A i, t : Here("worker", i, t) <=> wtask[i] = t
  /\ \A i, t : Here("cq", i, t) <=> In(cq[i], t)
  /\ \A i, t : Here("batch", i, t) <=> In(batch[i], t)
  /\ Which("queue") = Pools /\ Which("worker") = Workers
  /\ Which("cq") = Reactors /\ Which("batch") = Reactors
<1>1. \A i, t : Here("queue", i, t) <=> In(queue[i], t)
  BY Zenon DEF Here
<1>2. \A i, t : Here("worker", i, t) <=> wtask[i] = t
  BY Zenon DEF Here
<1>3. \A i, t : Here("cq", i, t) <=> In(cq[i], t)
  BY Zenon DEF Here
<1>4. \A i, t : Here("batch", i, t) <=> In(batch[i], t)
  BY Zenon DEF Here
<1>5. /\ Which("queue") = Pools /\ Which("worker") = Workers
      /\ Which("cq") = Reactors /\ Which("batch") = Reactors
  BY Zenon DEF Which
<1> QED
  BY <1>1, <1>2, <1>3, <1>4, <1>5, Zenon

\* The four kinds of places after a step.
LEMMA KindPlacesNext ==
  /\ \A i, t : Here("queue", i, t)' <=> In(queue'[i], t)
  /\ \A i, t : Here("worker", i, t)' <=> wtask'[i] = t
  /\ \A i, t : Here("cq", i, t)' <=> In(cq'[i], t)
  /\ \A i, t : Here("batch", i, t)' <=> In(batch'[i], t)
<1>1. \A i, t : Here("queue", i, t)' <=> In(queue'[i], t)
  BY Zenon DEF Here, In
<1>2. \A i, t : Here("worker", i, t)' <=> wtask'[i] = t
  BY Zenon DEF Here, In
<1>3. \A i, t : Here("cq", i, t)' <=> In(cq'[i], t)
  BY Zenon DEF Here, In
<1>4. \A i, t : Here("batch", i, t)' <=> In(batch'[i], t)
  BY Zenon DEF Here, In
<1> QED
  BY <1>1, <1>2, <1>3, <1>4, Zenon

\* Places that a step does not touch.
LEMMA PlacesKept ==
  ASSUME NEW k \in Kinds, NEW i, NEW t,
         k = "queue" => UNCHANGED queue, k = "worker" => UNCHANGED wtask,
         k = "cq" => UNCHANGED cq, k = "batch" => UNCHANGED batch
  PROVE  Here(k, i, t)' <=> Here(k, i, t)
<1>1. CASE k = "queue"
  BY <1>1, KindPlaces, KindPlacesNext, Zenon
<1>2. CASE k = "worker"
  BY <1>2, KindPlaces, KindPlacesNext, Zenon
<1>3. CASE k = "cq"
  BY <1>3, KindPlaces, KindPlacesNext, Zenon
<1>4. CASE k = "batch"
  BY <1>4, KindPlaces, KindPlacesNext, Zenon
<1> QED
  BY <1>1, <1>2, <1>3, <1>4, Zenon DEF Kinds

\* A new task goes to the end of a pool's queue.
LEMMA EnqueuePlaces ==
  ASSUME ApiInv, NEW r \in Reactors, NEW q \in Requests, NEW u \in Tasks,
         server_enqueue_task(r, q, u)
  PROVE  PlaceInv'
<1>1. PICK p \in Pools : queue' = [queue EXCEPT ![p] = Append(@, u)]
  BY Zenon DEF server_enqueue_task, worker_pool_enqueue, Route, Pools
<1>2. UNCHANGED <<wtask, cq, batch>>
  BY Zenon DEF server_enqueue_task, worker_pool_enqueue, cqVars
<1>3. queue \in [Pools -> Seq(Tasks)] /\ held \in [Reactors -> SUBSET Tasks]
  BY Zenon DEF ApiInv, TypeOK, WPTypeOK
<1>4. u \notin leased /\ leased' = leased \cup {u}
  BY <1>3, LeaseAdds, Zenon DEF server_enqueue_task
<1>5. PlaceInv /\ NoRepeats
  BY Zenon DEF ApiInv, PlaceInv
<1>6. \A k \in Kinds : \A i \in Which(k) : ~Here(k, i, u)
  BY <1>4, <1>5, Zenon DEF PlaceInv, Somewhere
<1>7. /\ \A t : In(queue'[p], t) <=> In(queue[p], t) \/ t = u
      /\ Once(queue'[p])
  <2>1. queue[p] \in Seq(Tasks) /\ queue'[p] = Append(queue[p], u) /\ Once(queue[p])
    BY <1>1, <1>3, <1>5, Zenon DEF NoRepeats
  <2>2. ~In(queue[p], u)
    BY <1>6, KindPlaces, Zenon DEF Kinds
  <2>3. /\ \A t : In(Append(queue[p], u), t) <=> In(queue[p], t) \/ t = u
        /\ Once(queue[p]) /\ ~In(queue[p], u) => Once(Append(queue[p], u))
    BY <2>1, AppendIn, Zenon
  <2> QED
    BY <2>1, <2>2, <2>3, Zenon
<1>8. \A i \in Pools : i # p => queue'[i] = queue[i]
  BY <1>1, <1>3, Zenon
<1>9. NoRepeats'
  BY <1>2, <1>5, <1>7, <1>8, Zenon DEF NoRepeats
<1>10. ASSUME NEW t \in Tasks, NEW k \in Kinds, NEW i \in Which(k)
       PROVE  Here(k, i, t)' <=> IF t = u THEN k = "queue" /\ i = p ELSE Here(k, i, t)
  <2>u. ~Here(k, i, u)
    BY <1>6, Zenon
  <2>1. CASE k = "queue"
    <3>1. (Here(k, i, t)' <=> In(queue'[i], t)) /\ (Here(k, i, t) <=> In(queue[i], t)) /\ i \in Pools
      BY <2>1, KindPlaces, KindPlacesNext, Zenon
    <3> QED
      BY <1>7, <1>8, <2>u, <2>1, <3>1, Zenon
  <2>2. CASE k # "queue"
    <3>1. Here(k, i, t)' <=> Here(k, i, t)
      BY <1>2, <2>2, PlacesKept, Zenon
    <3> QED
      BY <2>u, <2>2, <3>1, Zenon
  <2> QED
    BY <2>1, <2>2, Zenon DEF Kinds
<1>11. "queue" \in Kinds /\ p \in Which("queue")
  BY KindPlaces, Zenon DEF Kinds
<1> QED
  BY <1>4, <1>5, <1>9, <1>10, <1>11, TaskMoves, Zenon

\* A worker takes the first task of its pool's queue.
LEMMA TakePlaces ==
  ASSUME ApiInv, NEW w \in Workers, worker_take(w)
  PROVE  PlaceInv'
<1>1. PICK p \in Pools : p = PoolOf[w]
  BY WorkerPoolConstants, Zenon DEF WorkerPoolConstants
<1>2. PICK u \in Tasks : u = Head(queue[p])
  <2>1. queue[p] \in Seq(Tasks) /\ queue[p] # <<>> /\ Once(queue[p])
    BY <1>1, Zenon DEF worker_take, worker_pop, ApiInv, TypeOK, WPTypeOK, PlaceInv, NoRepeats
  <2> QED
    BY <2>1, TailIn, Zenon
<1>3. /\ worker[w] = "lock" /\ queue[p] # <<>>
      /\ wtask' = [wtask EXCEPT ![w] = u]
      /\ queue' = [queue EXCEPT ![p] = Tail(@)]
      /\ UNCHANGED <<cq, batch, held>>
  BY <1>1, <1>2, Zenon DEF worker_take, worker_pop, cqVars
<1>4. queue \in [Pools -> Seq(Tasks)] /\ wtask \in [Workers -> Tasks \cup {NoTask}]
  BY Zenon DEF ApiInv, TypeOK, WPTypeOK
<1>5. PlaceInv /\ NoRepeats /\ OnePlace
  BY Zenon DEF ApiInv, PlaceInv
<1>6. /\ In(queue[p], u)
      /\ \A t : In(queue'[p], t) <=> In(queue[p], t) /\ t # u
      /\ Once(queue'[p])
  <2>1. queue[p] \in Seq(Tasks) /\ queue'[p] = Tail(queue[p]) /\ Once(queue[p])
    BY <1>3, <1>4, <1>5, Zenon DEF NoRepeats
  <2>2. /\ Head(queue[p]) \in Tasks
        /\ In(queue[p], Head(queue[p]))
        /\ \A t : In(Tail(queue[p]), t) <=> In(queue[p], t) /\ t # Head(queue[p])
        /\ Once(Tail(queue[p]))
    BY <1>3, <2>1, TailIn, Zenon
  <2> QED
    BY <1>2, <2>1, <2>2, Zenon
<1>7. \A i \in Pools : i # p => queue'[i] = queue[i]
  BY <1>3, <1>4, Zenon
<1>8. /\ wtask[w] = NoTask /\ NoTask \notin Tasks
      /\ \A x \in Workers : wtask'[x] = IF x = w THEN u ELSE wtask[x]
  <2>1. wtask[w] = NoTask
    BY <1>3, Zenon DEF ApiInv, WorkerInv, StopInv
  <2> QED
    BY <1>3, <1>4, <2>1, WorkerPoolConstants, Zenon DEF WorkerPoolConstants
<1>9. NoRepeats'
  BY <1>3, <1>5, <1>6, <1>7, Zenon DEF NoRepeats
<1>w. "worker" \in Kinds /\ w \in Which("worker")
  BY KindPlaces, Zenon DEF Kinds
<1>10. "queue" \in Kinds /\ p \in Which("queue") /\ Here("queue", p, u)
  BY <1>6, KindPlaces, Zenon DEF Kinds
<1>11. \A k \in Kinds : \A i \in Which(k) : Here(k, i, u) => k = "queue" /\ i = p
  BY <1>5, <1>6, <1>10, Zenon DEF OnePlace
<1>12. leased' = leased \cup {u}
  <2>1. Somewhere(u)
    BY <1>10, Zenon DEF Somewhere
  <2>2. u \in leased
    BY <1>5, <1>6, <2>1, Zenon DEF PlaceInv
  <2>3. leased' = leased
    BY <1>3, Zenon DEF leased
  <2> QED
    BY <2>2, <2>3, Zenon
<1>13. ASSUME NEW t \in Tasks, NEW k \in Kinds, NEW i \in Which(k)
       PROVE  Here(k, i, t)' <=> IF t = u THEN k = "worker" /\ i = w ELSE Here(k, i, t)
  <2>u. Here(k, i, u) => k = "queue" /\ i = p
    BY <1>11, Zenon
  <2>1. CASE k = "queue"
    <3>1. (Here(k, i, t)' <=> In(queue'[i], t)) /\ (Here(k, i, t) <=> In(queue[i], t)) /\ i \in Pools
      BY <2>1, KindPlaces, KindPlacesNext, Zenon
    <3> QED
      BY <1>6, <1>7, <2>u, <2>1, <3>1, Zenon
  <2>2. CASE k = "worker"
    <3>1. (Here(k, i, t)' <=> wtask'[i] = t) /\ (Here(k, i, t) <=> wtask[i] = t) /\ i \in Workers
      BY <2>2, KindPlaces, KindPlacesNext, Zenon
    <3> QED
      BY <1>8, <2>u, <2>2, <3>1, Zenon
  <2>3. CASE k \notin {"queue", "worker"}
    <3>1. Here(k, i, t)' <=> Here(k, i, t)
      BY <1>3, <2>3, PlacesKept, Zenon
    <3> QED
      BY <2>u, <2>3, <3>1, Zenon
  <2> QED
    BY <2>1, <2>2, <2>3, Zenon
<1> QED
  BY <1>5, <1>9, <1>w, <1>12, <1>13, TaskMoves, Zenon

\* A worker hands its task to a completion queue.
LEMMA NotifyPlaces ==
  ASSUME ApiInv, NEW w \in Workers, worker_notify(w)
  PROVE  PlaceInv'
<1>1. phase[w] # "none" /\ WorkerInv /\ BackInv
  BY Zenon DEF worker_notify, ApiInv
<1>2. PICK u \in Tasks : u = wtask[w]
  BY <1>1, BusyHasTask, Zenon
<1>3. PICK r \in Reactors : r = reactor_id[u]
  BY Zenon DEF ApiInv, TypeOK
<1>4. /\ cq' = [cq EXCEPT ![r] = Append(@, u)]
      /\ wtask' = [wtask EXCEPT ![w] = NoTask]
      /\ UNCHANGED <<queue, batch, held>>
  BY <1>2, <1>3, Zenon DEF worker_notify, server_notify_task_done, worker_done
<1>5. cq \in [Reactors -> Seq(Tasks)] /\ wtask \in [Workers -> Tasks \cup {NoTask}]
  BY Zenon DEF ApiInv, TypeOK, WPTypeOK, CQTypeOK
<1>6. PlaceInv /\ NoRepeats /\ OnePlace
  BY Zenon DEF ApiInv, PlaceInv
<1>c. "cq" \in Kinds /\ r \in Which("cq")
  BY KindPlaces, Zenon DEF Kinds
<1>7. "worker" \in Kinds /\ w \in Which("worker") /\ Here("worker", w, u)
  BY <1>2, KindPlaces, Zenon DEF Kinds
<1>8. \A k \in Kinds : \A i \in Which(k) : Here(k, i, u) => k = "worker" /\ i = w
  BY <1>6, <1>7, Zenon DEF OnePlace
<1>9. /\ \A t : In(cq'[r], t) <=> In(cq[r], t) \/ t = u
      /\ Once(cq'[r])
  <2>1. cq[r] \in Seq(Tasks) /\ cq'[r] = Append(cq[r], u) /\ Once(cq[r])
    BY <1>4, <1>5, <1>6, Zenon DEF NoRepeats
  <2>2. ~In(cq[r], u)
    BY <1>c, <1>8, KindPlaces, Zenon
  <2>3. /\ \A t : In(Append(cq[r], u), t) <=> In(cq[r], t) \/ t = u
        /\ Once(cq[r]) /\ ~In(cq[r], u) => Once(Append(cq[r], u))
    BY <2>1, AppendIn, Zenon
  <2> QED
    BY <2>1, <2>2, <2>3, Zenon
<1>10. \A i \in Reactors : i # r => cq'[i] = cq[i]
  BY <1>4, <1>5, Zenon
<1>11. /\ NoTask \notin Tasks
       /\ \A x \in Workers : wtask'[x] = IF x = w THEN NoTask ELSE wtask[x]
  BY <1>4, <1>5, WorkerPoolConstants, Zenon DEF WorkerPoolConstants
<1>12. NoRepeats'
  BY <1>4, <1>6, <1>9, <1>10, Zenon DEF NoRepeats
<1>13. leased' = leased \cup {u}
  <2>1. Somewhere(u)
    BY <1>7, Zenon DEF Somewhere
  <2>2. u \in leased
    BY <1>6, <2>1, Zenon DEF PlaceInv
  <2>3. leased' = leased
    BY <1>4, Zenon DEF leased
  <2> QED
    BY <2>2, <2>3, Zenon
<1>14. ASSUME NEW t \in Tasks, NEW k \in Kinds, NEW i \in Which(k)
       PROVE  Here(k, i, t)' <=> IF t = u THEN k = "cq" /\ i = r ELSE Here(k, i, t)
  <2>u. Here(k, i, u) => k = "worker" /\ i = w
    BY <1>8, Zenon
  <2>1. CASE k = "cq"
    <3>1. (Here(k, i, t)' <=> In(cq'[i], t)) /\ (Here(k, i, t) <=> In(cq[i], t)) /\ i \in Reactors
      BY <2>1, KindPlaces, KindPlacesNext, Zenon
    <3> QED
      BY <1>9, <1>10, <2>u, <2>1, <3>1, Zenon
  <2>2. CASE k = "worker"
    <3>1. (Here(k, i, t)' <=> wtask'[i] = t) /\ (Here(k, i, t) <=> wtask[i] = t) /\ i \in Workers
      BY <2>2, KindPlaces, KindPlacesNext, Zenon
    <3> QED
      BY <1>2, <1>11, <2>u, <2>2, <3>1, Zenon
  <2>3. CASE k \notin {"cq", "worker"}
    <3>1. Here(k, i, t)' <=> Here(k, i, t)
      BY <1>4, <2>3, PlacesKept, Zenon
    <3> QED
      BY <2>u, <2>3, <3>1, Zenon
  <2> QED
    BY <2>1, <2>2, <2>3, Zenon
<1> QED
  BY <1>6, <1>c, <1>12, <1>13, <1>14, TaskMoves, Zenon

\* A reactor detaches its completion queue as its batch.
LEMMA DetachPlaces ==
  ASSUME ApiInv, NEW r \in Reactors, reactor_detach(r)
  PROVE  PlaceInv'
<1>1. /\ cq' = [cq EXCEPT ![r] = <<>>] /\ batch' = [batch EXCEPT ![r] = cq[r]]
      /\ reactor[r] = "read"
      /\ UNCHANGED <<queue, wtask, held>>
  BY Zenon DEF reactor_detach, detach, poolVars
<1>2. batch[r] = <<>>
  BY <1>1, Zenon DEF ApiInv, ShutInv
<1>3. /\ \A i \in Reactors : cq'[i] = IF i = r THEN <<>> ELSE cq[i]
      /\ \A i \in Reactors : batch'[i] = IF i = r THEN cq[r] ELSE batch[i]
  BY <1>1, Zenon DEF ApiInv, TypeOK, CQTypeOK
<1>4. PlaceInv /\ NoRepeats /\ OnePlace
  BY Zenon DEF ApiInv, PlaceInv
<1>5. NoRepeats'
  BY <1>1, <1>3, <1>4, EmptyIn, Zenon DEF NoRepeats
\* What was in the completion queue is in the batch now, the rest where it was.
<1> DEFINE From(k, i) == IF k = "batch" /\ i = r THEN "cq" ELSE k
<1>6. ASSUME NEW t \in Tasks, NEW k \in Kinds, NEW i \in Which(k)
      PROVE  Here(k, i, t)' <=> Here(From(k, i), i, t) /\ ~(k = "cq" /\ i = r)
  <2>1. CASE k = "cq"
    <3>1. (Here(k, i, t)' <=> In(cq'[i], t)) /\ (Here(k, i, t) <=> In(cq[i], t)) /\ i \in Reactors
      BY <2>1, KindPlaces, KindPlacesNext, Zenon
    <3> QED
      BY <1>3, <2>1, <3>1, EmptyIn, Zenon
  <2>2. CASE k = "batch"
    <3>1. (Here(k, i, t)' <=> In(batch'[i], t)) /\ (Here(k, i, t) <=> In(batch[i], t)) /\ i \in Reactors
      BY <2>2, KindPlaces, KindPlacesNext, Zenon
    <3>2. Here("cq", i, t) <=> In(cq[i], t)
      BY KindPlaces, Zenon
    <3> QED
      BY <1>3, <2>2, <3>1, <3>2, Zenon
  <2>3. CASE k \notin {"cq", "batch"}
    <3>1. Here(k, i, t)' <=> Here(k, i, t)
      BY <1>1, <2>3, PlacesKept, Zenon
    <3> QED
      BY <2>3, <3>1, Zenon
  <2> QED
    BY <2>1, <2>2, <2>3, Zenon
<1>7. \A k \in Kinds : \A i \in Which(k) : From(k, i) \in Kinds /\ i \in Which(From(k, i))
  BY KindPlaces, Zenon DEF Kinds
<1>8. OnePlace'
  <2>1. ASSUME NEW t \in Tasks, NEW k \in Kinds, NEW l \in Kinds,
               NEW i \in Which(k), NEW j \in Which(l), Here(k, i, t)', Here(l, j, t)'
        PROVE  k = l /\ i = j
    <3>1. /\ Here(From(k, i), i, t) /\ ~(k = "cq" /\ i = r)
          /\ Here(From(l, j), j, t) /\ ~(l = "cq" /\ j = r)
      BY <1>6, <2>1, Zenon
    <3>2. From(k, i) = From(l, j) /\ i = j
      BY <1>4, <1>7, <3>1, Zenon DEF OnePlace
    <3> QED
      BY <3>1, <3>2, Zenon
  <2>2. \A k : Which(k)' = Which(k)
    BY Zenon DEF Which
  <2> QED
    BY <2>1, <2>2, Zenon DEF OnePlace
<1>9. ASSUME NEW t \in Tasks PROVE Somewhere(t)' <=> Somewhere(t)
  <2>1. ASSUME Somewhere(t)' PROVE Somewhere(t)
    <3>k. PICK k \in Kinds : \E i \in Which(k) : Here(k, i, t)'
      BY <2>1, Zenon DEF Somewhere, Which
    <3>1. PICK i \in Which(k) : Here(k, i, t)'
      BY <3>k, Zenon
    <3>2. Here(From(k, i), i, t)
      BY <1>6, <3>1, Zenon
    <3> QED
      BY <1>7, <3>2, Zenon DEF Somewhere
  <2>2. ASSUME Somewhere(t) PROVE Somewhere(t)'
    <3>k. PICK k \in Kinds : \E i \in Which(k) : Here(k, i, t)
      BY <2>2, Zenon DEF Somewhere
    <3>1. PICK i \in Which(k) : Here(k, i, t)
      BY <3>k, Zenon
    <3>2. CASE k = "cq" /\ i = r
      <4>1. Here("batch", r, t)' /\ "batch" \in Kinds /\ r \in Which("batch")
        BY <1>6, <3>1, <3>2, KindPlaces, Zenon DEF Kinds
      <4> QED
        BY <4>1, Zenon DEF Somewhere, Which
    <3>3. CASE k = "batch" /\ i = r
      BY <1>2, <3>1, <3>3, KindPlaces, EmptyIn, Zenon
    <3>4. CASE ~(k = "cq" /\ i = r) /\ ~(k = "batch" /\ i = r)
      <4>1. Here(k, i, t)'
        BY <1>6, <3>1, <3>4, Zenon
      <4> QED
        BY <4>1, Zenon DEF Somewhere, Which
    <3> QED
      BY <3>2, <3>3, <3>4, Zenon
  <2> QED
    BY <2>1, <2>2, Zenon
<1>10. leased' = leased
  BY <1>1, Zenon DEF leased
<1> QED
  BY <1>4, <1>5, <1>8, <1>9, <1>10, Zenon DEF PlaceInv

\* What both ways of finishing a completed task have in common.
Finish(r, u) == /\ next_completed(r)
                /\ u = Head(batch[r])
                /\ TL!Return(r, u)
                /\ treq' = [treq EXCEPT ![u] = NoRequest]
                /\ cb' = [cb EXCEPT ![treq[u]] = NoTask]
                /\ UNCHANGED <<poolVars, home, gone, reactor_id, cancelled, ran, phase, mainVars>>

\* The end of a task is one of a task in the reactor's own batch.
LEMMA Finishes ==
  ASSUME ApiInv, NEW r \in Reactors, cleanup_cancelled_task(r) \/ process_completed_task(r)
  PROVE  \E u \in held[r] : Finish(r, u) /\ In(batch[r], u)
<1>1. reactor[r] = "batch" /\ Finish(r, Head(batch[r]))
  BY Zenon DEF cleanup_cancelled_task, process_completed_task, next_completed, Finish
<1>2. batch[r] \in Seq(Tasks) /\ batch[r] # <<>> /\ Once(batch[r])
  BY <1>1, Zenon DEF ApiInv, TypeOK, CQTypeOK, CQInv, BatchInv, PlaceInv, NoRepeats
<1>3. In(batch[r], Head(batch[r]))
  BY <1>2, TailIn, Zenon
<1>4. Head(batch[r]) \in held[r]
  BY <1>1, Zenon DEF Finish, TL!Return
<1> QED
  BY <1>1, <1>3, <1>4, Zenon

\* The end of a task leaves every other one in its place.
LEMMA FinishPlaces ==
  ASSUME ApiInv, NEW r \in Reactors, NEW u \in held[r], Finish(r, u)
  PROVE  PlaceInv'
<1>1. /\ batch' = [batch EXCEPT ![r] = Tail(@)] /\ reactor[r] = "batch"
      /\ UNCHANGED <<queue, wtask, cq>>
  BY Zenon DEF Finish, next_completed, poolVars
<1>2. batch \in [Reactors -> Seq(Tasks)] /\ held \in [Reactors -> SUBSET Tasks]
  BY Zenon DEF ApiInv, TypeOK, CQTypeOK
<1>3. PlaceInv /\ NoRepeats /\ OnePlace
  BY Zenon DEF ApiInv, PlaceInv
<1>4. /\ In(batch[r], u)
      /\ \A t : In(batch'[r], t) <=> In(batch[r], t) /\ t # u
      /\ Once(batch'[r])
  <2>1. /\ batch[r] \in Seq(Tasks) /\ batch'[r] = Tail(batch[r]) /\ Once(batch[r])
        /\ batch[r] # <<>>
    BY <1>1, <1>2, <1>3, Zenon DEF NoRepeats, ApiInv, CQInv, BatchInv
  <2>2. /\ In(batch[r], Head(batch[r]))
        /\ \A t : In(Tail(batch[r]), t) <=> In(batch[r], t) /\ t # Head(batch[r])
        /\ Once(Tail(batch[r]))
    BY <2>1, TailIn, Zenon
  <2>3. u = Head(batch[r])
    BY Zenon DEF Finish
  <2> QED
    BY <2>1, <2>2, <2>3, Zenon
<1>5. \A i \in Reactors : i # r => batch'[i] = batch[i]
  BY <1>1, <1>2, Zenon
<1>6. NoRepeats'
  BY <1>1, <1>3, <1>4, <1>5, Zenon DEF NoRepeats
<1>7. u \in Tasks /\ leased' = leased \ {u}
  BY <1>2, ReturnRemoves, Zenon DEF Finish, ApiInv
<1>8. "batch" \in Kinds /\ r \in Which("batch") /\ Here("batch", r, u)
  BY <1>4, KindPlaces, Zenon DEF Kinds
<1>9. \A k \in Kinds : \A i \in Which(k) : Here(k, i, u) => k = "batch" /\ i = r
  BY <1>3, <1>7, <1>8, Zenon DEF OnePlace
<1>10. ASSUME NEW t \in Tasks, NEW k \in Kinds, NEW i \in Which(k)
       PROVE  Here(k, i, t)' <=> Here(k, i, t) /\ t # u
  <2>u. Here(k, i, u) => k = "batch" /\ i = r
    BY <1>9, Zenon
  <2>1. CASE k = "batch"
    <3>1. (Here(k, i, t)' <=> In(batch'[i], t)) /\ (Here(k, i, t) <=> In(batch[i], t)) /\ i \in Reactors
      BY <2>1, KindPlaces, KindPlacesNext, Zenon
    <3> QED
      BY <1>4, <1>5, <2>u, <2>1, <3>1, Zenon
  <2>2. CASE k # "batch"
    <3>1. Here(k, i, t)' <=> Here(k, i, t)
      BY <1>1, <2>2, PlacesKept, Zenon
    <3> QED
      BY <2>u, <2>2, <3>1, Zenon
  <2> QED
    BY <2>1, <2>2, Zenon
<1> QED
  BY <1>3, <1>6, <1>7, <1>10, TaskLeaves, Zenon

\* Whatever the server does, a leased task is in one place and a free one in none.
LEMMA PlaceStep == ApiInv /\ [Next]_vars => PlaceInv'
<1> SUFFICES ASSUME ApiInv, PlaceCases PROVE PlaceInv'
  BY PlaceSteps, Zenon
<1>1. ASSUME UNCHANGED <<queue, wtask, cq, batch, held>> PROVE PlaceInv'
  <2>1. PlaceInv /\ leased' = leased
    BY <1>1, Zenon DEF ApiInv, leased
  <2>2. \A k, i, t : Here(k, i, t)' <=> Here(k, i, t)
    BY <1>1, ZenonT(30) DEF Here
  <2>3. NoRepeats'
    BY <1>1, <2>1, Zenon DEF PlaceInv, NoRepeats
  <2>4. OnePlace'
    <3>1. OnePlace
      BY <2>1, Zenon DEF PlaceInv
    <3>2. \A k : Which(k)' = Which(k)
      BY Zenon DEF Which
    <3> QED
      BY <2>2, <3>1, <3>2, Zenon DEF OnePlace
  <2>5. \A t \in Tasks : Somewhere(t)' <=> Somewhere(t)
    BY <2>2, Zenon DEF Somewhere, Which
  <2> QED
    BY <2>1, <2>3, <2>4, <2>5, Zenon DEF PlaceInv
<1> QED
  BY <1>1, EnqueuePlaces, TakePlaces, NotifyPlaces, DetachPlaces, Finishes, FinishPlaces, Zenon
  DEF PlaceCases

----------------------------------------------------------------------------
(* Tasks and their requests. *)

LifeInv == LeaseInv /\ RequestInv /\ CallbackIsCurrent

\* What is known of a leased task, of a callback, and of what a type is.
LEMMA LeasedTask ==
  ASSUME LeaseInv, NEW t \in leased
  PROVE  /\ treq[t] \in Requests /\ http[treq[t]] = "owned" /\ answer[treq[t]] = "none"
         /\ reactor_id[t] \in Reactors /\ t \in held[reactor_id[t]]
         /\ home[treq[t]] = reactor_id[t]
         /\ t \in cancelled => treq[t] \in gone
<1>1. PICK r \in Reactors : t \in held[r]
  BY Leased, Zenon
<1>2. /\ reactor_id[t] = r
      /\ treq[t] \in Requests
      /\ home[treq[t]] = r
      /\ http[treq[t]] = "owned"
      /\ answer[treq[t]] = "none"
      /\ t \in cancelled => treq[t] \in gone
  BY <1>1, Zenon DEF LeaseInv
<1> QED
  BY <1>1, <1>2, Zenon

\* LeaseInv after a step.
LEMMA LeaseInvNext ==
  ASSUME \A r \in Reactors : \A t \in held'[r] :
            /\ reactor_id'[t] = r /\ treq'[t] \in Requests
            /\ home'[treq'[t]] = r /\ http'[treq'[t]] = "owned"
            /\ answer'[treq'[t]] = "none"
            /\ t \in cancelled' => treq'[t] \in gone'
  PROVE  LeaseInv'
  BY Zenon DEF LeaseInv

\* A request with a callback is owned by the task of the callback.
LEMMA CallbackOwned ==
  ASSUME LeaseInv, CallbackIsCurrent, NEW q \in Requests, cb[q] # NoTask
  PROVE  http[q] = "owned" /\ cb[q] \in leased /\ treq[cb[q]] = q
<1>1. cb[q] \in leased /\ treq[cb[q]] = q
  BY Zenon DEF CallbackIsCurrent
<1> QED
  BY <1>1, LeasedTask, Zenon

\* Steps that neither lease nor return a task.  They leave the owned requests
\* and their tasks alone, except that a client may go and its task be cancelled.
Quiet ==
    /\ UNCHANGED held
    /\ gone \subseteq gone'
    /\ \A t \in leased : /\ treq'[t] = treq[t] /\ reactor_id'[t] = reactor_id[t]
                         /\ t \in cancelled' => t \in cancelled \/ treq[t] \in gone'
    /\ \A q \in Requests :
          /\ http[q] = "owned" => /\ http'[q] = "owned" /\ answer'[q] = answer[q]
                                  /\ home'[q] = home[q]
          /\ http'[q] = "owned" => http[q] = "owned"
          /\ http'[q] = "none" => http[q] = "none" /\ answer'[q] = answer[q]
          /\ cb'[q] \in {cb[q], NoTask}

\* A quiet step keeps LifeInv.
LEMMA QuietLife == ASSUME LifeInv, Quiet PROVE LifeInv'
<1>i. LeaseInv /\ RequestInv /\ CallbackIsCurrent
  BY Zenon DEF LifeInv
<1>1. leased' = leased
  BY Zenon DEF Quiet, leased
<1>2. LeaseInv'
  <2> SUFFICES ASSUME NEW r \in Reactors, NEW t \in held'[r]
               PROVE  /\ reactor_id'[t] = r /\ treq'[t] \in Requests
                      /\ home'[treq'[t]] = r /\ http'[treq'[t]] = "owned"
                      /\ answer'[treq'[t]] = "none"
                      /\ t \in cancelled' => treq'[t] \in gone'
    BY Zenon DEF LeaseInv
  <2>1. t \in held[r] /\ t \in leased
    BY Leased, Zenon DEF Quiet
  <2>2. PICK q \in Requests : q = treq[t]
    BY <1>i, <2>1, Zenon DEF LeaseInv
  <2>3. /\ reactor_id[t] = r /\ home[q] = r /\ http[q] = "owned" /\ answer[q] = "none"
        /\ t \in cancelled => q \in gone
    BY <1>i, <2>1, <2>2, Zenon DEF LeaseInv
  <2>4. /\ treq'[t] = q /\ reactor_id'[t] = reactor_id[t]
        /\ t \in cancelled' => t \in cancelled \/ q \in gone'
        /\ gone \subseteq gone'
    BY <2>1, <2>2, Zenon DEF Quiet
  <2>5. http'[q] = "owned" /\ answer'[q] = answer[q] /\ home'[q] = home[q]
    BY <2>3, Zenon DEF Quiet
  <2> QED
    BY <2>3, <2>4, <2>5, Zenon
<1>3. \A t, u \in leased' : treq'[t] = treq'[u] => t = u
  <2>1. \A t \in leased : treq'[t] = treq[t]
    BY Zenon DEF Quiet
  <2>2. \A t, u \in leased : treq[t] = treq[u] => t = u
    BY <1>i, Zenon DEF RequestInv
  <2> QED
    BY <1>1, <2>1, <2>2, Zenon
<1>4. ASSUME NEW q \in Requests, http'[q] = "owned"
      PROVE  \E t \in leased' : treq'[t] = q
  <2>1. http[q] = "owned"
    BY <1>4, Zenon DEF Quiet
  <2>2. PICK t \in leased : treq[t] = q
    BY <1>i, <2>1, Zenon DEF RequestInv
  <2>3. treq'[t] = q
    BY <2>2, Zenon DEF Quiet
  <2> QED
    BY <1>1, <2>3, Zenon
<1>5. ASSUME NEW q \in Requests, http'[q] = "none" PROVE answer'[q] = "none"
  <2>1. http[q] = "none" /\ answer'[q] = answer[q]
    BY <1>5, Zenon DEF Quiet
  <2> QED
    BY <1>i, <2>1, Zenon DEF RequestInv
<1>6. ASSUME NEW q \in Requests, cb'[q] # NoTask
      PROVE  cb'[q] \in leased' /\ treq'[cb'[q]] = q
  <2>1. cb'[q] = cb[q]
    BY <1>6, Zenon DEF Quiet
  <2>2. cb[q] \in leased /\ treq[cb[q]] = q
    BY <1>i, <1>6, <2>1, Zenon DEF CallbackIsCurrent
  <2>3. treq'[cb[q]] = treq[cb[q]]
    BY <2>2, Zenon DEF Quiet
  <2> QED
    BY <1>1, <2>1, <2>2, <2>3, Zenon
<1>7. RequestInv'
  BY <1>3, <1>4, <1>5, Zenon DEF RequestInv
<1>8. CallbackIsCurrent'
  BY <1>6, Zenon DEF CallbackIsCurrent
<1> QED
  BY <1>2, <1>7, <1>8, Zenon DEF LifeInv

\* A request that arrives and is answered on the spot.
LEMMA RefusalIsQuiet ==
  ASSUME ApiInv, NEW r \in Reactors, NEW q \in Requests,
         \/ api_middleware_wrapper_refuses(r, q)
         \/ server_enqueue_task_no_task(r, q)
         \/ \E t \in Tasks : server_enqueue_task_rejected(r, q, t)
  PROVE  Quiet
<1>1. /\ http[q] = "none" /\ home' = [home EXCEPT ![q] = r]
      /\ \E kind : evhttp_send_reply(q, kind)
      /\ UNCHANGED <<held, gone>>
  BY Zenon DEF api_middleware_wrapper_refuses, server_enqueue_task_no_task,
               server_enqueue_task_rejected, Arrives
<1>2. \A x \in Requests : x # q => UNCHANGED <<http[x], answer[x], home[x]>>
  BY <1>1, Zenon DEF evhttp_send_reply, ApiInv, TypeOK
<1>3. http'[q] \in {"freed", "sending"}
  BY <1>1, Zenon DEF evhttp_send_reply, ApiInv, TypeOK
<1>4. \A x \in Requests : cb'[x] \in {cb[x], NoTask}
  BY Zenon DEF api_middleware_wrapper_refuses, server_enqueue_task_no_task, taskVars,
               server_enqueue_task_rejected, rejected_cb, ApiInv, TypeOK
<1>5. ASSUME NEW t \in leased
      PROVE  UNCHANGED <<treq[t], reactor_id[t]>> /\ (t \in cancelled' => t \in cancelled)
  <2>1. CASE \E u \in Tasks : server_enqueue_task_rejected(r, q, u)
    <3>1. PICK u \in Tasks : server_enqueue_task_rejected(r, q, u)
      BY <2>1, Zenon
    <3>2. /\ u # t /\ treq' = [treq EXCEPT ![u] = NoRequest]
          /\ reactor_id' = [reactor_id EXCEPT ![u] = r] /\ cancelled' = cancelled \ {u}
      BY <3>1, Zenon DEF server_enqueue_task_rejected
    <3>3. t \in Tasks
      BY Leased, Zenon DEF ApiInv, TypeOK
    <3> QED
      BY <3>2, <3>3, Zenon DEF ApiInv, TypeOK
  <2>2. CASE UNCHANGED taskVars
    BY <2>2, Zenon DEF taskVars
  <2> QED
    BY <2>1, <2>2, Zenon DEF api_middleware_wrapper_refuses, server_enqueue_task_no_task
<1>6. ASSUME NEW x \in Requests
      PROVE  /\ http[x] = "owned" => /\ http'[x] = "owned" /\ answer'[x] = answer[x]
                                      /\ home'[x] = home[x]
             /\ http'[x] = "owned" => http[x] = "owned"
             /\ http'[x] = "none" => http[x] = "none" /\ answer'[x] = answer[x]
  <2>1. CASE x = q
    BY <1>1, <1>3, <2>1, Zenon
  <2>2. CASE x # q
    BY <1>2, <2>2, Zenon
  <2> QED
    BY <2>1, <2>2, Zenon
<1> QED
  BY <1>1, <1>4, <1>5, <1>6, Zenon DEF Quiet

\* The last byte of a reply is written, or a client disconnects.
LEMMA ConnectionIsQuiet ==
  ASSUME ApiInv, NEW q \in Requests, send_done(q) \/ disconnect(q)
  PROVE  Quiet
<1>1. /\ UNCHANGED <<held, home, cb, answer, treq, reactor_id>> /\ gone \subseteq gone'
      /\ http[q] \in {"owned", "sending"}
  BY Zenon DEF send_done, disconnect
<1>2. \A x \in Requests : x # q => http'[x] = http[x]
  BY Zenon DEF send_done, disconnect, ApiInv, TypeOK
<1>3. http[q] = "owned" => http'[q] = "owned"
  BY Zenon DEF send_done, disconnect, ApiInv, TypeOK
<1>4. http'[q] = "owned" => http[q] = "owned"
  BY Zenon DEF send_done, disconnect, ApiInv, TypeOK
<1>5. http'[q] # "none"
  BY Zenon DEF send_done, disconnect, ApiInv, TypeOK
<1>6. ASSUME NEW t \in leased, t \in cancelled' PROVE t \in cancelled \/ treq[t] \in gone'
  <2>1. t \in cancelled \/ (t = cb[q] /\ cb[q] # NoTask)
    BY <1>6, Zenon DEF send_done, disconnect, request_on_complete_cb
  <2>2. ASSUME t = cb[q], cb[q] # NoTask PROVE treq[t] \in gone'
    <3>1. http[q] = "owned" /\ treq[t] = q
      BY <2>2, CallbackOwned, Zenon DEF ApiInv
    <3>2. disconnect(q)
      BY <3>1, Zenon DEF send_done
    <3> QED
      BY <3>1, <3>2, Zenon DEF disconnect
  <2> QED
    BY <2>1, <2>2, Zenon
<1>7. ASSUME NEW x \in Requests
      PROVE  /\ http[x] = "owned" => http'[x] = "owned"
             /\ http'[x] = "owned" => http[x] = "owned"
             /\ http'[x] = "none" => http[x] = "none"
  <2>1. CASE x = q
    BY <1>3, <1>4, <1>5, <2>1, Zenon
  <2>2. CASE x # q
    BY <1>2, <2>2, Zenon
  <2> QED
    BY <2>1, <2>2, Zenon
<1> QED
  BY <1>1, <1>6, <1>7, Zenon DEF Quiet

\* An event loop ends, and the replies it was sending are freed.
LEMMA ReturnIsQuiet ==
  ASSUME ApiInv, NEW r \in Reactors, reactor_thread_returns(r)
  PROVE  Quiet
<1>1. UNCHANGED <<held, home, gone, cb, answer, treq, reactor_id, cancelled>>
  BY Zenon DEF reactor_thread_returns, taskVars
<1>2. \A x \in Requests : http'[x] = http[x] \/ (http[x] = "sending" /\ http'[x] = "freed")
  BY Zenon DEF reactor_thread_returns
<1> QED
  BY <1>1, <1>2, Zenon DEF Quiet

\* A request is accepted with a task that nobody had.
LEMMA EnqueueLife ==
  ASSUME ApiInv, NEW r \in Reactors, NEW q \in Requests, NEW u \in Tasks,
         server_enqueue_task(r, q, u)
  PROVE  LifeInv'
<1>i. LeaseInv /\ RequestInv /\ CallbackIsCurrent /\ TypeOK
  BY Zenon DEF ApiInv
<1>1. /\ http[q] = "none" /\ home' = [home EXCEPT ![q] = r]
      /\ treq' = [treq EXCEPT ![u] = q] /\ reactor_id' = [reactor_id EXCEPT ![u] = r]
      /\ cancelled' = cancelled \ {u}
      /\ cb' = [cb EXCEPT ![q] = u] /\ http' = [http EXCEPT ![q] = "owned"]
      /\ UNCHANGED <<gone, answer>>
  BY Zenon DEF server_enqueue_task, Arrives, fill_task, own_request
<1>2. /\ u \notin leased /\ leased' = leased \cup {u}
      /\ \A x \in Reactors : held'[x] = IF x = r THEN held[x] \cup {u} ELSE held[x]
  BY <1>i, LeaseAdds, ZenonT(30) DEF server_enqueue_task, TypeOK
<1>3. leased \subseteq Tasks
  BY <1>i, Leased, Zenon DEF TypeOK
<1>4. \A t \in leased : treq'[t] = treq[t] /\ reactor_id'[t] = reactor_id[t] /\ t # u
  BY <1>1, <1>2, <1>3, <1>i, Zenon DEF TypeOK
<1>5. /\ treq'[u] = q /\ reactor_id'[u] = r /\ u \notin cancelled'
      /\ http'[q] = "owned" /\ home'[q] = r /\ cb'[q] = u
  BY <1>1, <1>i, Zenon DEF TypeOK
<1>6. \A x \in Requests : x # q => /\ http'[x] = http[x] /\ home'[x] = home[x]
                                   /\ cb'[x] = cb[x]
  BY <1>1, <1>i, Zenon DEF TypeOK
<1>7. answer[q] = "none"
  BY <1>1, <1>i, Zenon DEF RequestInv
<1>8. \A t \in leased : treq[t] \in Requests /\ treq[t] # q
  BY <1>1, <1>i, LeasedTask, Zenon
<1>9. LeaseInv'
  <2> SUFFICES ASSUME NEW x \in Reactors, NEW t \in held'[x]
               PROVE  /\ reactor_id'[t] = x /\ treq'[t] \in Requests
                      /\ home'[treq'[t]] = x /\ http'[treq'[t]] = "owned"
                      /\ answer'[treq'[t]] = "none"
                      /\ t \in cancelled' => treq'[t] \in gone'
    BY Zenon DEF LeaseInv
  <2>1. CASE t = u
    <3>1. x = r
      BY <1>2, <2>1, Leased, Zenon
    <3> QED
      BY <1>1, <1>5, <1>7, <2>1, <3>1, Zenon
  <2>2. CASE t # u
    <3>1. t \in held[x] /\ t \in leased
      BY <1>2, <2>2, Leased, Zenon
    <3>2. /\ reactor_id[t] = x /\ home[treq[t]] = x /\ http[treq[t]] = "owned"
          /\ answer[treq[t]] = "none" /\ (t \in cancelled => treq[t] \in gone)
      BY <1>i, <3>1, Zenon DEF LeaseInv
    <3>3. /\ treq'[t] = treq[t] /\ reactor_id'[t] = reactor_id[t]
          /\ treq[t] \in Requests /\ treq[t] # q
      BY <1>4, <1>8, <3>1, Zenon
    <3>4. http'[treq[t]] = http[treq[t]] /\ home'[treq[t]] = home[treq[t]]
      BY <1>6, <3>3, Zenon
    <3>5. answer' = answer /\ gone' = gone /\ (t \in cancelled' => t \in cancelled)
      BY <1>1, Zenon
    <3> QED
      BY <3>2, <3>3, <3>4, <3>5, Zenon
  <2> QED
    BY <2>1, <2>2, Zenon
<1>10. \A t, x \in leased' : treq'[t] = treq'[x] => t = x
  <2>1. \A t, x \in leased : treq[t] = treq[x] => t = x
    BY <1>i, Zenon DEF RequestInv
  <2> SUFFICES ASSUME NEW t \in leased', NEW x \in leased', treq'[t] = treq'[x]
               PROVE  t = x
    BY Zenon
  <2>2. CASE t \in leased /\ x \in leased
    BY <1>4, <2>1, <2>2, Zenon
  <2>3. CASE t = u \/ x = u
    BY <1>2, <1>4, <1>5, <1>8, <2>3, Zenon
  <2> QED
    BY <1>2, <2>2, <2>3, Zenon
<1>11. ASSUME NEW x \in Requests, http'[x] = "owned" PROVE \E t \in leased' : treq'[t] = x
  <2>1. CASE x = q
    BY <1>2, <1>5, <2>1, Zenon
  <2>2. CASE x # q
    <3>1. PICK t \in leased : treq[t] = x
      BY <1>6, <1>11, <1>i, <2>2, Zenon DEF RequestInv
    <3> QED
      BY <1>2, <1>4, <3>1, Zenon
  <2> QED
    BY <2>1, <2>2, Zenon
<1>12. ASSUME NEW x \in Requests, http'[x] = "none" PROVE answer'[x] = "none"
  <2>1. x # q /\ http[x] = "none"
    BY <1>5, <1>6, <1>12, Zenon
  <2> QED
    BY <1>1, <1>i, <2>1, Zenon DEF RequestInv
<1>13. ASSUME NEW x \in Requests, cb'[x] # NoTask PROVE cb'[x] \in leased' /\ treq'[cb'[x]] = x
  <2>1. CASE x = q
    BY <1>2, <1>5, <2>1, Zenon
  <2>2. CASE x # q
    <3>1. cb'[x] = cb[x] /\ cb[x] \in leased /\ treq[cb[x]] = x
      BY <1>6, <1>13, <1>i, <2>2, Zenon DEF CallbackIsCurrent
    <3> QED
      BY <1>2, <1>4, <3>1, Zenon
  <2> QED
    BY <2>1, <2>2, Zenon
<1>14. RequestInv' /\ CallbackIsCurrent'
  BY <1>10, <1>11, <1>12, <1>13, Zenon DEF RequestInv, CallbackIsCurrent
<1> QED
  BY <1>9, <1>14, Zenon DEF LifeInv

\* The reply is sent or the request dropped, and the task returned.
LEMMA FinishLife ==
  ASSUME ApiInv, NEW r \in Reactors, NEW u \in held[r], Finish(r, u),
         NEW v \in {"freed", "sending"}, NEW a,
         http' = [http EXCEPT ![treq[u]] = v], answer' = [answer EXCEPT ![treq[u]] = a]
  PROVE  LifeInv'
<1>i. LeaseInv /\ RequestInv /\ CallbackIsCurrent /\ TypeOK
  BY Zenon DEF ApiInv
<1>1. /\ treq' = [treq EXCEPT ![u] = NoRequest] /\ cb' = [cb EXCEPT ![treq[u]] = NoTask]
      /\ UNCHANGED <<home, gone, reactor_id, cancelled>>
  BY Zenon DEF Finish
<1>2. /\ u \in leased /\ leased' = leased \ {u}
      /\ \A x \in Reactors : held'[x] = IF x = r THEN held[x] \ {u} ELSE held[x]
  <2>1. TL!Return(r, u) /\ held \in [Reactors -> SUBSET Tasks]
    BY <1>i, Zenon DEF Finish, TypeOK
  <2> QED
    BY <1>i, <2>1, ReturnRemoves, Zenon
<1>3. PICK q \in Requests : q = treq[u]
  BY <1>2, <1>i, LeasedTask, Zenon
<1>4. leased \subseteq Tasks
  BY <1>i, Leased, Zenon DEF TypeOK
<1>5. \A t \in leased : t # u => treq'[t] = treq[t] /\ treq[t] \in Requests /\ treq[t] # q
  <2>1. \A t \in leased : t # u => treq'[t] = treq[t]
    BY <1>1, <1>4, <1>i, Zenon DEF TypeOK
  <2>2. \A t \in leased : t # u => treq[t] # q
    BY <1>2, <1>3, <1>i, Zenon DEF RequestInv
  <2>3. \A t \in leased : treq[t] \in Requests
    BY <1>i, LeasedTask, Zenon
  <2> QED
    BY <2>1, <2>2, <2>3, Zenon
<1>6. \A x \in Requests : x # q => /\ http'[x] = http[x] /\ answer'[x] = answer[x]
                                   /\ cb'[x] = cb[x]
  BY <1>1, <1>3, <1>i, Zenon DEF TypeOK
<1>7. http'[q] = v /\ v # "owned" /\ v # "none" /\ cb'[q] = NoTask
  BY <1>1, <1>3, <1>i, Zenon DEF TypeOK
<1>8. LeaseInv'
  <2> SUFFICES ASSUME NEW x \in Reactors, NEW t \in held'[x]
               PROVE  /\ reactor_id'[t] = x /\ treq'[t] \in Requests
                      /\ home'[treq'[t]] = x /\ http'[treq'[t]] = "owned"
                      /\ answer'[treq'[t]] = "none"
                      /\ t \in cancelled' => treq'[t] \in gone'
    BY LeaseInvNext, Zenon
  <2>1. t \in leased'
    BY LeasedNext, Zenon
  <2>2. t \in held[x] /\ t \in leased /\ t # u
    BY <1>2, <2>1, Zenon
  <2>3. /\ reactor_id[t] = x /\ home[treq[t]] = x /\ http[treq[t]] = "owned"
        /\ answer[treq[t]] = "none" /\ (t \in cancelled => treq[t] \in gone)
    BY <1>i, <2>2, Zenon DEF LeaseInv
  <2>4. treq'[t] = treq[t] /\ treq[t] \in Requests /\ treq[t] # q
    BY <1>5, <2>2, Zenon
  <2>5. http'[treq[t]] = http[treq[t]] /\ answer'[treq[t]] = answer[treq[t]]
    BY <1>6, <2>4, Zenon
  <2>6. reactor_id'[t] = x /\ home'[treq'[t]] = x /\ (t \in cancelled' => treq'[t] \in gone')
    <3>1. reactor_id' = reactor_id /\ home' = home /\ cancelled' = cancelled /\ gone' = gone
      BY <1>1, Zenon
    <3>2. reactor_id'[t] = x /\ home'[treq'[t]] = x
      BY <2>3, <2>4, <3>1, Zenon
    <3>3. t \in cancelled' => treq'[t] \in gone'
      BY <2>3, <2>4, <3>1, Zenon
    <3> QED
      BY <3>2, <3>3, Zenon
  <2>7. treq'[t] \in Requests /\ http'[treq'[t]] = "owned" /\ answer'[treq'[t]] = "none"
    BY <2>3, <2>4, <2>5, Zenon
  <2> QED
    BY <2>6, <2>7, Zenon
<1>9. \A t, x \in leased' : treq'[t] = treq'[x] => t = x
  <2>1. \A t, x \in leased : treq[t] = treq[x] => t = x
    BY <1>i, Zenon DEF RequestInv
  <2>2. \A t \in leased' : t \in leased /\ treq'[t] = treq[t]
    BY <1>2, <1>5, Zenon
  <2> QED
    BY <2>1, <2>2, Zenon
<1>10. ASSUME NEW x \in Requests, http'[x] = "owned" PROVE \E t \in leased' : treq'[t] = x
  <2>1. x # q /\ http[x] = "owned"
    BY <1>6, <1>7, <1>10, Zenon
  <2>2. PICK t \in leased : treq[t] = x
    BY <1>i, <2>1, Zenon DEF RequestInv
  <2>3. t # u
    BY <1>3, <2>1, <2>2, Zenon
  <2> QED
    BY <1>2, <1>5, <2>2, <2>3, Zenon
<1>11. ASSUME NEW x \in Requests, http'[x] = "none" PROVE answer'[x] = "none"
  <2>1. x # q /\ http[x] = "none"
    BY <1>6, <1>7, <1>11, Zenon
  <2>2. answer[x] = "none"
    BY <1>i, <2>1, Zenon DEF RequestInv
  <2> QED
    BY <1>6, <2>1, <2>2, Zenon
<1>12. ASSUME NEW x \in Requests, cb'[x] # NoTask PROVE cb'[x] \in leased' /\ treq'[cb'[x]] = x
  <2>1. x # q /\ cb'[x] = cb[x]
    BY <1>6, <1>7, <1>12, Zenon
  <2>2. cb[x] \in leased /\ treq[cb[x]] = x
    BY <1>12, <1>i, <2>1, Zenon DEF CallbackIsCurrent
  <2>3. cb[x] # u
    BY <1>3, <2>1, <2>2, Zenon
  <2> QED
    BY <1>2, <1>5, <2>1, <2>2, <2>3, Zenon
<1>13. RequestInv' /\ CallbackIsCurrent'
  BY <1>9, <1>10, <1>11, <1>12, Zenon DEF RequestInv, CallbackIsCurrent
<1> QED
  BY <1>8, <1>13, Zenon DEF LifeInv

\* Whatever the server does, a leased task keeps its request, and the request
\* its callback.
LEMMA LifeStep == ApiInv /\ [Next]_vars => LifeInv'
<1> SUFFICES ASSUME ApiInv, [Next]_vars PROVE LifeInv'
  BY Zenon
<1>q. Quiet => LifeInv'
  BY QuietLife, Zenon DEF ApiInv, LifeInv
<1>k. ASSUME UNCHANGED <<held, requestVars, treq, reactor_id, cancelled>> PROVE LifeInv'
  BY <1>k, <1>q, Zenon DEF Quiet, requestVars
<1>1. ASSUME NEW r \in Reactors, NEW q \in Requests, Arrival(r, q) PROVE LifeInv'
  BY <1>q, <1>1, RefusalIsQuiet, EnqueueLife, Zenon DEF Arrival
<1>2. ASSUME NEW r \in Reactors, cleanup_cancelled_task(r) \/ process_completed_task(r)
      PROVE  LifeInv'
  <2>1. PICK u \in held[r] : Finish(r, u)
    BY <1>2, Finishes, Zenon
  <2>2. \E v \in {"freed", "sending"} : \E a :
           /\ http' = [http EXCEPT ![treq[u]] = v]
           /\ answer' = [answer EXCEPT ![treq[u]] = a]
    BY <1>2, <2>1, Zenon
    DEF Finish, cleanup_cancelled_task, process_completed_task, evhttp_send_reply
  <2> QED
    BY <2>1, <2>2, FinishLife, Zenon
<1>3. ASSUME NEW r \in Reactors, enqueue_signal(r) \/ reactor_eventfd_read(r) \/ reactor_detach(r)
      PROVE  LifeInv'
  BY <1>k, <1>3, Zenon DEF enqueue_signal, reactor_eventfd_read, reactor_detach, taskVars
<1>4. ASSUME NEW r \in Reactors, Reactor(r) PROVE LifeInv'
  BY <1>q, <1>2, <1>3, <1>4, ReturnIsQuiet, Zenon DEF Reactor
<1>5. ASSUME NEW q \in Requests, send_done(q) \/ disconnect(q) PROVE LifeInv'
  BY <1>q, <1>5, ConnectionIsQuiet, Zenon
<1>6. ASSUME NEW w \in Workers, Worker(w) PROVE LifeInv'
  BY <1>k, <1>6, Zenon
  DEF Worker, worker_idle, worker_take, worker_check, worker_process_task, worker_notify,
      worker_wakes_reactor, taskVars
<1>7. ASSUME Main PROVE LifeInv'
  BY <1>k, <1>7, Zenon
  DEF Main, main_stops_pools, server_drain_reactor_queues, server_shutdown_workers,
      server_cleanup_globals, taskVars
<1>8. ASSUME UNCHANGED vars PROVE LifeInv'
  BY <1>k, <1>8, Zenon DEF vars, taskVars
<1> QED
  BY <1>1, <1>4, <1>5, <1>6, <1>7, <1>8, Zenon DEF Next

----------------------------------------------------------------------------
(* The way of a task through the workers and back. *)

\* The tasks in a place are leased.
LEMMA PlacedIsLeased ==
  ASSUME PlaceInv, NEW t \in Tasks
  PROVE  /\ \A r \in Reactors : In(cq[r], t) \/ In(batch[r], t) => t \in leased
         /\ \A w \in Workers : wtask[w] = t => t \in leased
<1>1. Somewhere(t) => t \in leased
  BY Zenon DEF PlaceInv
<1>2. ASSUME NEW r \in Reactors, In(cq[r], t) PROVE Somewhere(t)
  BY <1>2, KindPlaces, Zenon DEF Somewhere, Kinds
<1>3. ASSUME NEW r \in Reactors, In(batch[r], t) PROVE Somewhere(t)
  BY <1>3, KindPlaces, Zenon DEF Somewhere, Kinds
<1>4. ASSUME NEW w \in Workers, wtask[w] = t PROVE Somewhere(t)
  BY <1>4, KindPlaces, Zenon DEF Somewhere, Kinds
<1> QED
  BY <1>1, <1>2, <1>3, <1>4, Zenon

\* While a task is leased it keeps its reactor, and what is finished stays so.
LEMMA TasksKept ==
  ASSUME ApiInv, [Next]_vars, NEW t \in leased
  PROVE  reactor_id'[t] = reactor_id[t] /\ (Finished(t) => Finished(t)')
<1>t. t \in Tasks
  BY Leased, Zenon DEF ApiInv, TypeOK
<1>k. ASSUME UNCHANGED reactor_id, cancelled \subseteq cancelled', ran \subseteq ran'
      PROVE  reactor_id'[t] = reactor_id[t] /\ (Finished(t) => Finished(t)')
  BY <1>k, Zenon DEF Finished
<1>1. ASSUME NEW r \in Reactors, NEW q \in Requests, Arrival(r, q)
      PROVE  reactor_id'[t] = reactor_id[t] /\ (Finished(t) => Finished(t)')
  <2>1. CASE api_middleware_wrapper_refuses(r, q) \/ server_enqueue_task_no_task(r, q)
    BY <1>k, <2>1, Zenon DEF api_middleware_wrapper_refuses, server_enqueue_task_no_task, taskVars
  <2>2. CASE \E u \in Tasks : \/ server_enqueue_task_rejected(r, q, u)
                               \/ server_enqueue_task(r, q, u)
    <3>1. PICK u \in Tasks : \/ server_enqueue_task_rejected(r, q, u)
                              \/ server_enqueue_task(r, q, u)
      BY <2>2, Zenon
    <3>2. /\ reactor_id' = [reactor_id EXCEPT ![u] = r]
          /\ cancelled' = cancelled \ {u} /\ ran' = ran \ {u}
      BY <3>1, Zenon DEF server_enqueue_task_rejected, server_enqueue_task, fill_task
    <3>3. u \notin leased
      <4>1. CASE server_enqueue_task_rejected(r, q, u)
        BY <4>1, Zenon DEF server_enqueue_task_rejected
      <4>2. CASE server_enqueue_task(r, q, u)
        BY <4>2, LeaseAdds, Zenon DEF server_enqueue_task, ApiInv, TypeOK
      <4> QED
        BY <3>1, <4>1, <4>2, Zenon
    <3>4. t # u
      BY <3>3, Zenon
    <3> QED
      BY <1>t, <3>2, <3>4, Zenon DEF Finished, ApiInv, TypeOK
  <2> QED
    BY <1>1, <2>1, <2>2, Zenon DEF Arrival
<1>2. ASSUME NEW r \in Reactors, Reactor(r)
      PROVE  reactor_id'[t] = reactor_id[t] /\ (Finished(t) => Finished(t)')
  BY <1>2, <1>k, Zenon
  DEF Reactor, enqueue_signal, reactor_eventfd_read, reactor_detach, cleanup_cancelled_task,
      process_completed_task, reactor_thread_returns, taskVars
<1>3. ASSUME NEW q \in Requests, send_done(q) \/ disconnect(q)
      PROVE  reactor_id'[t] = reactor_id[t] /\ (Finished(t) => Finished(t)')
  BY <1>3, <1>k, Zenon DEF send_done, disconnect, request_on_complete_cb
<1>4. ASSUME NEW w \in Workers, Worker(w)
      PROVE  reactor_id'[t] = reactor_id[t] /\ (Finished(t) => Finished(t)')
  BY <1>4, <1>k, Zenon
  DEF Worker, worker_idle, worker_take, worker_check, worker_process_task, worker_notify,
      worker_wakes_reactor, taskVars
<1>5. ASSUME Main
      PROVE  reactor_id'[t] = reactor_id[t] /\ (Finished(t) => Finished(t)')
  BY <1>5, <1>k, Zenon
  DEF Main, main_stops_pools, server_drain_reactor_queues, server_shutdown_workers,
      server_cleanup_globals, taskVars
<1>6. ASSUME UNCHANGED vars
      PROVE  reactor_id'[t] = reactor_id[t] /\ (Finished(t) => Finished(t)')
  BY <1>6, <1>k, Zenon DEF vars, taskVars
<1> QED
  BY <1>1, <1>2, <1>3, <1>4, <1>5, <1>6, Zenon DEF Next

\* A task on its way back was so before, or a worker has just handed it over.
LEMMA BackFrom ==
  ASSUME ApiInv, [Next]_vars, NEW r \in Reactors, NEW t \in Tasks,
         In(cq'[r], t) \/ In(batch'[r], t)
  PROVE  t \in leased /\ reactor_id[t] = r /\ Finished(t)
<1>i. PlaceInv /\ BackInv /\ WorkerInv /\ NoRepeats
  BY Zenon DEF ApiInv, PlaceInv
<1>t. cq \in [Reactors -> Seq(Tasks)] /\ batch \in [Reactors -> Seq(Tasks)]
  BY Zenon DEF ApiInv, TypeOK, CQTypeOK
<1>b. ASSUME In(cq[r], t) \/ In(batch[r], t)
      PROVE  t \in leased /\ reactor_id[t] = r /\ Finished(t)
  BY <1>i, <1>b, PlacedIsLeased, Zenon DEF BackInv
<1>1. ASSUME cq'[r] = cq[r], batch'[r] = batch[r]
      PROVE  t \in leased /\ reactor_id[t] = r /\ Finished(t)
  BY <1>1, <1>b, Zenon
<1>2. ASSUME UNCHANGED <<cq, batch>>
      PROVE  t \in leased /\ reactor_id[t] = r /\ Finished(t)
  BY <1>1, <1>2, Zenon
<1>3. ASSUME NEW w \in Workers, worker_notify(w)
      PROVE  t \in leased /\ reactor_id[t] = r /\ Finished(t)
  <2>1. phase[w] = "notify"
    BY <1>3, Zenon DEF worker_notify
  <2>2. PICK u \in Tasks : u = wtask[w]
    BY <1>i, <2>1, BusyHasTask, Zenon
  <2>3. u \in leased /\ Finished(u) /\ reactor_id[u] \in Reactors
    BY <1>i, <2>1, <2>2, PlacedIsLeased, Zenon DEF BackInv, ApiInv, TypeOK
  <2>4. cq' = [cq EXCEPT ![reactor_id[u]] = Append(@, u)] /\ UNCHANGED batch
    BY <1>3, <2>2, Zenon DEF worker_notify, server_notify_task_done
  <2>5. CASE r = reactor_id[u]
    <3>1. cq[r] \in Seq(Tasks) /\ cq'[r] = Append(cq[r], u)
      BY <1>t, <2>4, <2>5, Zenon
    <3>2. \A x : In(Append(cq[r], u), x) <=> In(cq[r], x) \/ x = u
      BY <3>1, AppendIn, Zenon
    <3>3. In(cq[r], t) \/ In(batch[r], t) \/ t = u
      BY <2>4, <3>1, <3>2, Zenon
    <3> QED
      BY <1>b, <2>3, <2>5, <3>3, Zenon
  <2>6. CASE r # reactor_id[u]
    BY <1>1, <1>t, <2>4, <2>6, Zenon
  <2> QED
    BY <2>5, <2>6, Zenon
<1>4. ASSUME NEW x \in Reactors, reactor_detach(x)
      PROVE  t \in leased /\ reactor_id[t] = r /\ Finished(t)
  <2>1. /\ cq'[r] = IF r = x THEN <<>> ELSE cq[r]
        /\ batch'[r] = IF r = x THEN cq[r] ELSE batch[r]
    BY <1>4, <1>t, Zenon DEF reactor_detach, detach
  <2>2. In(cq[r], t) \/ In(batch[r], t)
    BY <2>1, EmptyIn, Zenon
  <2> QED
    BY <1>b, <2>2, Zenon
<1>5. ASSUME NEW x \in Reactors, cleanup_cancelled_task(x) \/ process_completed_task(x)
      PROVE  t \in leased /\ reactor_id[t] = r /\ Finished(t)
  <2>1. /\ reactor[x] = "batch" /\ UNCHANGED cq
        /\ batch' = [batch EXCEPT ![x] = Tail(@)]
    BY <1>5, Zenon DEF cleanup_cancelled_task, process_completed_task, next_completed
  <2>2. CASE r = x
    <3>1. /\ batch[r] \in Seq(Tasks) /\ batch'[r] = Tail(batch[r]) /\ Once(batch[r])
          /\ batch[r] # <<>>
      BY <1>i, <1>t, <2>1, <2>2, Zenon DEF NoRepeats, ApiInv, CQInv, BatchInv
    <3>2. \A y : In(Tail(batch[r]), y) => In(batch[r], y)
      BY <3>1, TailIn, Zenon
    <3> QED
      BY <1>b, <2>1, <3>1, <3>2, Zenon
  <2>3. CASE r # x
    BY <1>1, <1>t, <2>1, <2>3, Zenon
  <2> QED
    BY <2>2, <2>3, Zenon
<1>6. ASSUME NEW x \in Reactors, NEW q \in Requests, NEW u \in Tasks, server_enqueue_task(x, q, u)
      PROVE  UNCHANGED <<cq, batch>>
  BY <1>6, Zenon DEF server_enqueue_task, cqVars
<1>7. ASSUME NEW w \in Workers, worker_take(w) PROVE UNCHANGED <<cq, batch>>
  BY <1>7, Zenon DEF worker_take, cqVars
<1> QED
  BY <1>2, <1>3, <1>4, <1>5, <1>6, <1>7, PlaceSteps, Zenon DEF PlaceCases

\* The steps of a worker with a task; any other leaves what it is busy with alone.
PhaseCases == \/ \E w \in Workers : \/ worker_take(w) \/ worker_check(w)
                                    \/ worker_process_task(w) \/ worker_notify(w)
              \/ /\ UNCHANGED <<phase, wtask>>
                 /\ \A w \in Workers : worker'[w] = "busy" <=> worker[w] = "busy"

\* What a step can do to what the workers are running.
LEMMA PhaseSteps == WPTypeOK /\ [Next]_vars => PhaseCases
<1> SUFFICES ASSUME WPTypeOK, [Next]_vars PROVE PhaseCases
  BY Zenon
<1>k. ASSUME UNCHANGED <<phase, wtask, worker>> PROVE PhaseCases
  BY <1>k, Zenon DEF PhaseCases
<1>e. ASSUME NEW x \in Workers, NEW s, worker' = [worker EXCEPT ![x] = s],
             worker[x] # "busy", s # "busy", UNCHANGED <<phase, wtask>>
      PROVE  PhaseCases
  <2>1. \A w \in Workers : worker'[w] = IF w = x THEN s ELSE worker[w]
    BY <1>e, Zenon DEF WPTypeOK
  <2> QED
    BY <1>e, <2>1, Zenon DEF PhaseCases
<1>1. ASSUME NEW r \in Reactors, NEW q \in Requests, Arrival(r, q) PROVE PhaseCases
  BY <1>k, <1>1, Zenon
  DEF Arrival, api_middleware_wrapper_refuses, server_enqueue_task_no_task,
      server_enqueue_task_rejected, server_enqueue_task, worker_pool_enqueue, poolVars
<1>2. ASSUME NEW r \in Reactors, enqueue_signal(r) PROVE PhaseCases
  <2>1. UNCHANGED <<phase, wtask>>
    BY <1>2, Zenon DEF enqueue_signal, pthread_cond_signal
  <2>2. \/ UNCHANGED worker
        \/ \E x \in Workers : worker[x] = "waiting" /\ worker' = [worker EXCEPT ![x] = "lock"]
    BY <1>2, Zenon DEF enqueue_signal, pthread_cond_signal, At
  <2> QED
    BY <1>k, <1>e, <2>1, <2>2, Zenon
<1>3. ASSUME NEW r \in Reactors, Reactor(r) PROVE PhaseCases
  BY <1>k, <1>2, <1>3, Zenon
  DEF Reactor, reactor_eventfd_read, reactor_detach, cleanup_cancelled_task,
      process_completed_task, reactor_thread_returns, poolVars
<1>4. ASSUME NEW q \in Requests, send_done(q) \/ disconnect(q) PROVE PhaseCases
  BY <1>k, <1>4, Zenon DEF send_done, disconnect, poolVars
<1>5. ASSUME NEW w \in Workers, worker_idle(w) PROVE PhaseCases
  <2>1. UNCHANGED <<phase, wtask>>
    BY <1>5, Zenon DEF worker_idle, worker_wait, worker_exit, spurious_wakeup
  <2>2. \E s : /\ worker' = [worker EXCEPT ![w] = s] /\ worker[w] # "busy" /\ s # "busy"
    BY <1>5, Zenon DEF worker_idle, worker_wait, worker_exit, spurious_wakeup
  <2> QED
    BY <1>e, <2>1, <2>2, Zenon
<1>6. ASSUME NEW w \in Workers, Worker(w) PROVE PhaseCases
  BY <1>k, <1>5, <1>6, Zenon DEF Worker, worker_wakes_reactor, PhaseCases, poolVars
<1>7. ASSUME main_stops_pools PROVE PhaseCases
  <2>1. UNCHANGED <<phase, wtask>>
    BY <1>7, Zenon DEF main_stops_pools, Stop, worker_pool_stop_set,
                       worker_pool_stop_broadcast, worker_pool_stop_join
  <2>2. \/ UNCHANGED worker
        \/ \E p : worker' = [w \in Workers |-> IF w \in At(p, "waiting") THEN "lock"
                                               ELSE worker[w]]
    BY <1>7, Zenon DEF main_stops_pools, Stop, worker_pool_stop_set,
                       worker_pool_stop_broadcast, worker_pool_stop_join
  <2>3. ASSUME NEW p, worker' = [w \in Workers |-> IF w \in At(p, "waiting") THEN "lock"
                                                   ELSE worker[w]]
        PROVE  PhaseCases
    BY <2>1, <2>3, Zenon DEF PhaseCases, At
  <2> QED
    BY <1>k, <2>1, <2>2, <2>3, Zenon
<1>8. ASSUME Main PROVE PhaseCases
  BY <1>k, <1>7, <1>8, Zenon
  DEF Main, server_drain_reactor_queues, server_shutdown_workers, server_cleanup_globals, poolVars
<1>9. ASSUME UNCHANGED vars PROVE PhaseCases
  BY <1>k, <1>9, Zenon DEF vars, poolVars
<1> QED
  BY <1>1, <1>3, <1>4, <1>6, <1>8, <1>9, Zenon DEF Next

\* A task that comes back is at its own reactor, and finished.
LEMMA BackStep == ApiInv /\ [Next]_vars => BackInv'
<1> SUFFICES ASSUME ApiInv, [Next]_vars PROVE BackInv'
  BY Zenon
<1>i. PlaceInv /\ BackInv /\ WorkerInv /\ WPTypeOK
  BY Zenon DEF ApiInv, WorkerInv
<1>p. phase \in [Workers -> {"none", "check", "run", "notify"}]
  BY Zenon DEF ApiInv, TypeOK
<1>1. ASSUME NEW r \in Reactors, NEW t \in Tasks, In(cq'[r], t) \/ In(batch'[r], t)
      PROVE  reactor_id'[t] = r /\ Finished(t)'
  <2>1. t \in leased /\ reactor_id[t] = r /\ Finished(t)
    BY <1>1, BackFrom, Zenon
  <2> QED
    BY <2>1, TasksKept, Zenon
\* A worker that was and is at "notify" has kept its task.
<1>2. ASSUME NEW w \in Workers, phase[w] = "notify", wtask'[w] = wtask[w]
      PROVE  Finished(wtask[w])'
  <2>1. PICK u \in Tasks : u = wtask[w]
    BY <1>2, <1>i, BusyHasTask, Zenon
  <2>2. u \in leased /\ Finished(u)
    BY <1>2, <1>i, <2>1, PlacedIsLeased, Zenon DEF BackInv
  <2>3. Finished(u)'
    BY <2>2, TasksKept, Zenon
  <2> QED
    BY <1>2, <2>1, <2>3, Zenon DEF Finished
<1>3. ASSUME NEW x \in Workers, worker_take(x) PROVE BackInv'
  <2>1. /\ \A w \in Workers : phase'[w] = IF w = x THEN "check" ELSE phase[w]
        /\ \A w \in Workers : worker'[w] = IF w = x THEN "busy" ELSE worker[w]
        /\ \A w \in Workers : w # x => wtask'[w] = wtask[w]
    BY <1>3, <1>i, <1>p, Zenon DEF worker_take, worker_pop, WPTypeOK
  <2>2. \A w \in Workers : phase'[w] = "notify" => Finished(wtask[w])'
    BY <1>2, <2>1, Zenon DEF Finished
  <2>3. \A w \in Workers : phase'[w] = "none" <=> worker'[w] # "busy"
    BY <1>i, <2>1, Zenon DEF BackInv
  <2> QED
    BY <1>1, <2>2, <2>3, Zenon DEF BackInv, Finished
<1>4. ASSUME NEW x \in Workers, worker_check(x) \/ worker_process_task(x) PROVE BackInv'
  <2>1. UNCHANGED <<worker, wtask>> /\ phase[x] # "none" /\ cancelled' = cancelled
    BY <1>4, Zenon DEF worker_check, worker_process_task, poolVars, taskVars
  <2>2. \E s : /\ phase' = [phase EXCEPT ![x] = s] /\ s # "none"
               /\ s = "notify" => wtask[x] \in cancelled' \/ wtask[x] \in ran'
    BY <1>4, Zenon DEF worker_check, worker_process_task, taskVars
  <2>3. PICK s : /\ phase' = [phase EXCEPT ![x] = s] /\ s # "none"
                 /\ s = "notify" => wtask[x] \in cancelled' \/ wtask[x] \in ran'
    BY <2>2, Zenon
  <2>4. \A w \in Workers : phase'[w] = IF w = x THEN s ELSE phase[w]
    BY <1>p, <2>3, Zenon
  <2>5. \A w \in Workers : phase'[w] = "notify" => Finished(wtask[w])'
    BY <1>2, <2>1, <2>3, <2>4, Zenon DEF Finished
  <2>6. \A w \in Workers : phase'[w] = "none" <=> worker'[w] # "busy"
    BY <1>i, <2>1, <2>3, <2>4, Zenon DEF BackInv
  <2> QED
    BY <1>1, <2>5, <2>6, Zenon DEF BackInv, Finished
<1>5. ASSUME NEW x \in Workers, worker_notify(x) PROVE BackInv'
  <2>1. /\ \A w \in Workers : phase'[w] = IF w = x THEN "none" ELSE phase[w]
        /\ \A w \in Workers : worker'[w] = IF w = x THEN "lock" ELSE worker[w]
        /\ \A w \in Workers : w # x => wtask'[w] = wtask[w]
    BY <1>5, <1>i, <1>p, Zenon DEF worker_notify, worker_done, WPTypeOK
  <2>2. \A w \in Workers : phase'[w] = "notify" => Finished(wtask[w])'
    BY <1>2, <2>1, Zenon DEF Finished
  <2>3. \A w \in Workers : phase'[w] = "none" <=> worker'[w] # "busy"
    BY <1>i, <2>1, Zenon DEF BackInv
  <2> QED
    BY <1>1, <2>2, <2>3, Zenon DEF BackInv, Finished
<1>6. ASSUME UNCHANGED <<phase, wtask>>,
             \A w \in Workers : worker'[w] = "busy" <=> worker[w] = "busy"
      PROVE  BackInv'
  <2>1. \A w \in Workers : phase'[w] = "notify" => Finished(wtask[w])'
    BY <1>2, <1>6, Zenon DEF Finished
  <2>2. \A w \in Workers : phase'[w] = "none" <=> worker'[w] # "busy"
    BY <1>i, <1>6, Zenon DEF BackInv
  <2> QED
    BY <1>1, <2>1, <2>2, Zenon DEF BackInv, Finished
<1> QED
  BY <1>i, <1>3, <1>4, <1>5, <1>6, PhaseSteps, Zenon DEF PhaseCases

----------------------------------------------------------------------------
(* The shutdown. *)

\* A pool stays joined, and the slow one is joined after the fast one.
LEMMA StopSteps ==
  ASSUME WPTypeOK, StepCases
  PROVE  /\ \A p \in Pools : stop[p] = "joined" => stop'[p] = "joined"
         /\ stop'["slow"] = "joined" /\ stop["slow"] # "joined" => stop["fast"] = "joined"
<1>k. ASSUME UNCHANGED stop
      PROVE  /\ \A p \in Pools : stop[p] = "joined" => stop'[p] = "joined"
             /\ stop'["slow"] = "joined" /\ stop["slow"] # "joined" => stop["fast"] = "joined"
  BY <1>k, Zenon
<1>e. ASSUME NEW p \in Pools, NEW s, stop' = [stop EXCEPT ![p] = s],
             stop[p] # "joined", s = "joined" /\ p = "slow" => stop["fast"] = "joined"
      PROVE  /\ \A x \in Pools : stop[x] = "joined" => stop'[x] = "joined"
             /\ stop'["slow"] = "joined" /\ stop["slow"] # "joined" => stop["fast"] = "joined"
  <2>1. \A x \in Pools : stop'[x] = IF x = p THEN s ELSE stop[x]
    BY <1>e, Zenon DEF WPTypeOK
  <2>2. "slow" \in Pools
    BY Zenon DEF Pools
  <2>3. stop'["slow"] = IF "slow" = p THEN s ELSE stop["slow"]
    BY <2>1, <2>2, Zenon
  <2>4. ASSUME stop'["slow"] = "joined", stop["slow"] # "joined" PROVE stop["fast"] = "joined"
    <3>1. p = "slow" /\ s = "joined"
      BY <2>3, <2>4, Zenon
    <3> QED
      BY <1>e, <3>1, Zenon
  <2>5. ASSUME NEW x \in Pools, stop[x] = "joined" PROVE stop'[x] = "joined"
    <3>1. x # p
      BY <1>e, <2>5, Zenon
    <3> QED
      BY <2>1, <2>5, <3>1, Zenon
  <2> QED
    BY <2>4, <2>5, Zenon
<1>1. CASE UNCHANGED stop
  BY <1>k, <1>1, Zenon
<1>2. CASE \E p \in Pools : worker_pool_stop_set(p)
  <2>1. PICK p \in Pools : worker_pool_stop_set(p)
    BY <1>2, Zenon
  <2>2. stop' = [stop EXCEPT ![p] = "set"] /\ stop[p] # "joined"
    BY <2>1, Zenon DEF worker_pool_stop_set
  <2> QED
    BY <1>e, <2>2, Zenon
<1>3. CASE \E p \in Pools : worker_pool_stop_broadcast(p)
  <2>1. PICK p \in Pools : worker_pool_stop_broadcast(p)
    BY <1>3, Zenon
  <2>2. stop' = [stop EXCEPT ![p] = "told"] /\ stop[p] # "joined"
    BY <2>1, Zenon DEF worker_pool_stop_broadcast
  <2> QED
    BY <1>e, <2>2, Zenon
<1>4. CASE \E p \in Pools : worker_pool_stop_join(p)
  <2>1. PICK p \in Pools : worker_pool_stop_join(p)
    BY <1>4, Zenon
  <2>2. /\ stop' = [stop EXCEPT ![p] = "joined"] /\ stop[p] # "joined"
        /\ p = "slow" => stop["fast"] = "joined"
    BY <2>1, Zenon DEF worker_pool_stop_join
  <2> QED
    BY <1>e, <2>2, Zenon
<1>5. \/ UNCHANGED stop
      \/ \E p \in Pools : \/ worker_pool_stop_set(p) \/ worker_pool_stop_broadcast(p)
                          \/ worker_pool_stop_join(p)
  BY Zenon
  DEF StepCases, worker_pool_enqueue, pthread_cond_signal, worker_wait, worker_exit,
      worker_pop, spurious_wakeup, worker_done, poolVars
<1> QED
  BY <1>1, <1>2, <1>3, <1>4, <1>5, Zenon

\* The steps of the main thread, and the end of a reactor.
MainCases == \/ server_drain_reactor_queues
             \/ server_shutdown_workers
             \/ \E r \in Reactors : reactor_thread_returns(r)
             \/ UNCHANGED <<drained, broken, running>>

\* What a step can do to the progress of wait_and_shutdown.
LEMMA MainSteps == [Next]_vars => MainCases
<1>k. ASSUME UNCHANGED <<drained, broken, running>> PROVE MainCases
  BY <1>k, Zenon DEF MainCases
<1>1. ASSUME NEW r \in Reactors, NEW q \in Requests, Arrival(r, q) PROVE MainCases
  BY <1>k, <1>1, Zenon
  DEF Arrival, api_middleware_wrapper_refuses, server_enqueue_task_no_task,
      server_enqueue_task_rejected, server_enqueue_task, mainVars
<1>2. ASSUME NEW r \in Reactors, Reactor(r) PROVE MainCases
  BY <1>k, <1>2, Zenon
  DEF Reactor, enqueue_signal, reactor_eventfd_read, reactor_detach, cleanup_cancelled_task,
      process_completed_task, mainVars, MainCases
<1>3. ASSUME NEW q \in Requests, send_done(q) \/ disconnect(q) PROVE MainCases
  BY <1>k, <1>3, Zenon DEF send_done, disconnect, mainVars
<1>4. ASSUME NEW w \in Workers, Worker(w) PROVE MainCases
  BY <1>k, <1>4, Zenon
  DEF Worker, worker_idle, worker_take, worker_check, worker_process_task, worker_notify,
      worker_wakes_reactor, mainVars
<1>5. ASSUME Main PROVE MainCases
  BY <1>k, <1>5, Zenon
  DEF Main, main_stops_pools, server_cleanup_globals, mainVars, MainCases
<1>6. ASSUME UNCHANGED vars PROVE MainCases
  BY <1>k, <1>6, Zenon DEF vars, mainVars
<1> QED
  BY <1>1, <1>2, <1>3, <1>4, <1>5, <1>6, Zenon DEF Next

\* Once both pools are joined no worker has anything to hand over.
LEMMA NoNotifyAfterJoin ==
  ASSUME ApiInv, stop["slow"] = "joined", NEW w \in Workers
  PROVE  phase[w] = "none" /\ worker[w] = "exited" /\ wtask[w] = NoTask
<1>1. stop["fast"] = "joined"
  BY Zenon DEF ApiInv, ShutInv
<1>2. PoolOf[w] \in Pools
  BY WorkerPoolConstants, Zenon DEF WorkerPoolConstants
<1>3. stop[PoolOf[w]] = "joined"
  BY <1>1, <1>2, Zenon DEF Pools
<1>4. worker[w] = "exited"
  BY <1>2, <1>3, Zenon DEF ApiInv, WorkerInv, StopInv
<1>5. phase[w] = "none"
  BY <1>4, Zenon DEF ApiInv, BackInv
<1>6. wtask[w] = NoTask
  BY <1>4, Zenon DEF ApiInv, WorkerInv, StopInv
<1> QED
  BY <1>4, <1>5, <1>6, Zenon

\* A reactor that has returned stays out of everything.
LEMMA ReturnedStays ==
  ASSUME ApiInv, [Next]_vars, NEW r \in Reactors, r \notin running
  PROVE  reactor'[r] = "loop" /\ signal'[r] = "none"
<1>i. reactor[r] = "loop" /\ signal[r] = "none" /\ CQTypeOK /\ WPTypeOK
  BY Zenon DEF ApiInv, ShutInv, CQInv, WorkerInv
<1>1. reactor'[r] = "loop"
  <2>1. CASE \E x \in Reactors : Callback(x) /\ (eventfd_read(x) => x \in running)
    <3>1. PICK x \in Reactors : Callback(x) /\ (eventfd_read(x) => x \in running)
      BY <2>1, Zenon
    <3>2. x # r
      BY <1>i, <3>1, Zenon DEF Callback, detach, next_completed
    <3> QED
      BY <1>i, <3>1, <3>2, Zenon DEF Callback, eventfd_read, detach, next_completed, CQTypeOK
  <2>2. CASE UNCHANGED reactor
    BY <1>i, <2>2, Zenon
  <2>3. \/ UNCHANGED reactor
        \/ \E x \in Reactors : Callback(x) /\ (eventfd_read(x) => x \in running)
    <3>1. CASE \E x \in Reactors : reactor_eventfd_read(x)
      BY <3>1, Zenon DEF reactor_eventfd_read, Idle, Callback
    <3>2. CASE \E x \in Reactors : \/ reactor_detach(x) \/ cleanup_cancelled_task(x)
                                  \/ process_completed_task(x)
      BY <3>2, Zenon DEF reactor_detach, cleanup_cancelled_task, process_completed_task,
                         Callback, detach, next_completed, eventfd_read
    <3>3. CASE ~\E x \in Reactors : \/ reactor_eventfd_read(x) \/ reactor_detach(x)
                                    \/ cleanup_cancelled_task(x) \/ process_completed_task(x)
      <4>1. ASSUME NEW x \in Reactors, NEW q \in Requests, Arrival(x, q) PROVE UNCHANGED reactor
        BY <4>1, Zenon
        DEF Arrival, api_middleware_wrapper_refuses, server_enqueue_task_no_task,
            server_enqueue_task_rejected, server_enqueue_task, cqVars
      <4>2. ASSUME NEW x \in Reactors, Reactor(x) PROVE UNCHANGED reactor
        BY <3>3, <4>2, Zenon DEF Reactor, enqueue_signal, reactor_thread_returns, cqVars
      <4>3. ASSUME NEW q \in Requests, send_done(q) \/ disconnect(q) PROVE UNCHANGED reactor
        BY <4>3, Zenon DEF send_done, disconnect, cqVars
      <4>4. ASSUME NEW w \in Workers, Worker(w) PROVE UNCHANGED reactor
        BY <4>4, Zenon
        DEF Worker, worker_idle, worker_take, worker_check, worker_process_task, worker_notify,
            server_notify_task_done, worker_wakes_reactor, eventfd_write, cqVars
      <4>5. ASSUME Main PROVE UNCHANGED reactor
        BY <4>5, Zenon
        DEF Main, main_stops_pools, server_drain_reactor_queues, server_shutdown_workers,
            server_cleanup_globals, cqVars
      <4>6. ASSUME UNCHANGED vars PROVE UNCHANGED reactor
        BY <4>6, Zenon DEF vars, cqVars
      <4> QED
        BY <4>1, <4>2, <4>3, <4>4, <4>5, <4>6, Zenon DEF Next
    <3> QED
      BY <3>1, <3>2, <3>3, Zenon
  <2> QED
    BY <2>1, <2>2, <2>3, Zenon
<1>2. signal'[r] = "none"
  <2>1. ASSUME NEW x \in Reactors, NEW q \in Requests, Arrival(x, q) PROVE signal'[r] = "none"
    <3>1. x # r
      BY <2>1, Zenon DEF Arrival, api_middleware_wrapper_refuses, server_enqueue_task_no_task,
                         server_enqueue_task_rejected, server_enqueue_task, Arrives, Idle
    <3>2. UNCHANGED signal \/ \E p : signal' = [signal EXCEPT ![x] = p]
      BY <2>1, Zenon DEF Arrival, api_middleware_wrapper_refuses, server_enqueue_task_no_task,
                         server_enqueue_task_rejected, server_enqueue_task,
                         worker_pool_enqueue, poolVars
    <3> QED
      BY <1>i, <3>1, <3>2, Zenon DEF WPTypeOK
  <2>2. ASSUME NEW x \in Reactors, Reactor(x) PROVE signal'[r] = "none"
    <3>1. UNCHANGED signal \/ signal' = [signal EXCEPT ![x] = "none"]
      BY <2>2, Zenon DEF Reactor, enqueue_signal, pthread_cond_signal, reactor_eventfd_read,
                         reactor_detach, cleanup_cancelled_task, process_completed_task,
                         reactor_thread_returns, poolVars
    <3> QED
      BY <1>i, <3>1, Zenon DEF WPTypeOK
  <2>3. ASSUME NEW q \in Requests, send_done(q) \/ disconnect(q) PROVE signal'[r] = "none"
    BY <1>i, <2>3, Zenon DEF send_done, disconnect, poolVars
  <2>4. ASSUME NEW w \in Workers, Worker(w) PROVE signal'[r] = "none"
    BY <1>i, <2>4, Zenon
    DEF Worker, worker_idle, worker_wait, worker_exit, spurious_wakeup, worker_take, worker_pop,
        worker_check, worker_process_task, worker_notify, worker_done, worker_wakes_reactor,
        poolVars
  <2>5. ASSUME Main PROVE signal'[r] = "none"
    BY <1>i, <2>5, Zenon
    DEF Main, main_stops_pools, Stop, worker_pool_stop_set, worker_pool_stop_broadcast,
        worker_pool_stop_join, server_drain_reactor_queues, server_shutdown_workers,
        server_cleanup_globals, poolVars
  <2>6. ASSUME UNCHANGED vars PROVE signal'[r] = "none"
    BY <1>i, <2>6, Zenon DEF vars, poolVars
  <2> QED
    BY <2>1, <2>2, <2>3, <2>4, <2>5, <2>6, Zenon DEF Next
<1> QED
  BY <1>1, <1>2, Zenon

\* Once the pools are joined an empty completion queue stays empty.
LEMMA StaysEmpty ==
  ASSUME ApiInv, [Next]_vars, stop["slow"] = "joined", NEW r \in Reactors, cq[r] = <<>>
  PROVE  cq'[r] = <<>>
<1>t. CQTypeOK
  BY Zenon DEF ApiInv, CQInv
<1>1. CASE \E w \in Workers : worker_notify(w)
  BY <1>1, NoNotifyAfterJoin, Zenon DEF worker_notify
<1>2. CASE \E x \in Reactors : reactor_detach(x)
  BY <1>t, <1>2, Zenon DEF reactor_detach, detach, CQTypeOK
<1>3. CASE UNCHANGED cq
  BY <1>3, Zenon
<1>4. PlaceCases
  BY PlaceSteps, Zenon
<1>5. \/ \E w \in Workers : worker_notify(w)
      \/ \E x \in Reactors : reactor_detach(x)
      \/ UNCHANGED cq
  BY <1>4, Zenon DEF PlaceCases, server_enqueue_task, worker_take, cleanup_cancelled_task,
                     process_completed_task, next_completed, cqVars
<1> QED
  BY <1>1, <1>2, <1>3, <1>5, Zenon

\* Outside its loop over a batch a reactor has none.
LEMMA BatchStep ==
  ASSUME ApiInv, [Next]_vars, NEW r \in Reactors, reactor'[r] # "batch"
  PROVE  batch'[r] = <<>>
<1>i. CQTypeOK /\ (reactor[r] # "batch" => batch[r] = <<>>)
  BY Zenon DEF ApiInv, CQInv, ShutInv
<1>k. CASE UNCHANGED <<reactor, batch>>
  BY <1>i, <1>k, Zenon
<1>1. ASSUME NEW x \in Reactors, eventfd_read(x) PROVE batch'[r] = <<>>
  <2>1. reactor[r] # "batch"
    <3>1. CASE x = r
      BY <1>1, <3>1, Zenon DEF eventfd_read
    <3>2. CASE x # r
      BY <1>i, <1>1, <3>2, Zenon DEF eventfd_read, CQTypeOK
    <3> QED
      BY <3>1, <3>2, Zenon
  <2> QED
    BY <1>i, <1>1, <2>1, Zenon DEF eventfd_read
<1>2. ASSUME NEW x \in Reactors, detach(x) PROVE batch'[r] = <<>>
  <2>1. CASE x = r
    <3>1. reactor'[r] = (IF cq[r] = <<>> THEN "loop" ELSE "batch") /\ batch'[r] = cq[r]
      BY <1>i, <1>2, <2>1, Zenon DEF detach, CQTypeOK
    <3> QED
      BY <3>1, Zenon
  <2>2. CASE x # r
    <3>1. reactor'[r] = reactor[r] /\ batch'[r] = batch[r]
      BY <1>i, <1>2, <2>2, Zenon DEF detach, CQTypeOK
    <3> QED
      BY <1>i, <3>1, Zenon
  <2> QED
    BY <2>1, <2>2, Zenon
<1>3. ASSUME NEW x \in Reactors, next_completed(x) PROVE batch'[r] = <<>>
  <2>1. CASE x = r
    <3>1. /\ reactor'[r] = (IF Tail(batch[r]) = <<>> THEN "loop" ELSE reactor[r])
          /\ batch'[r] = Tail(batch[r]) /\ reactor[r] = "batch"
      BY <1>i, <1>3, <2>1, Zenon DEF next_completed, CQTypeOK
    <3> QED
      BY <3>1, Zenon
  <2>2. CASE x # r
    <3>1. reactor'[r] = reactor[r] /\ batch'[r] = batch[r]
      BY <1>i, <1>3, <2>2, Zenon DEF next_completed, CQTypeOK
    <3> QED
      BY <1>i, <3>1, Zenon
  <2> QED
    BY <2>1, <2>2, Zenon
<1>4. CQCases
  BY QueueSteps, Zenon
<1> QED
  BY <1>k, <1>1, <1>2, <1>3, <1>4, Zenon
  DEF CQCases, Callback, server_notify_task_done, eventfd_write, cqVars

\* Every step keeps the order of the shutdown.
LEMMA ShutStep == ApiInv /\ [Next]_vars => ShutInv'
<1> SUFFICES ASSUME ApiInv, [Next]_vars PROVE ShutInv'
  BY Zenon
<1>i. ShutInv /\ WPTypeOK
  BY Zenon DEF ApiInv, WorkerInv
<1>n. /\ drained \in Nat /\ broken \in Nat /\ NumReactors \in Nat
      /\ drained <= NumReactors /\ Reactors \subseteq Nat
  <2>1. drained \in 0 .. NumReactors /\ broken \in 0 .. NumReactors
    BY Zenon DEF ApiInv, TypeOK
  <2> QED
    BY <2>1, ApiServerConstants DEF ApiServerConstants
<1>s. /\ \A p \in Pools : stop[p] = "joined" => stop'[p] = "joined"
      /\ stop'["slow"] = "joined" /\ stop["slow"] # "joined" => stop["fast"] = "joined"
  BY <1>i, PoolSteps, StopSteps, Zenon
<1>p. "slow" \in Pools /\ "fast" \in Pools
  BY Zenon DEF Pools
<1>m. MainCases
  BY MainSteps, Zenon
<1>1. stop'["slow"] = "joined" => stop'["fast"] = "joined"
  BY <1>i, <1>s, <1>p, Zenon DEF ShutInv
<1>2. /\ drained > 0 => stop["slow"] = "joined"
      /\ broken > 0 => drained = NumReactors
  BY <1>i, Zenon DEF ShutInv
<1>d. \/ drained' = drained
      \/ /\ drained' = drained + 1 /\ drained < NumReactors /\ broken' = broken
         /\ stop["slow"] = "joined" /\ cq[drained] = <<>>
  BY <1>m, Zenon DEF MainCases, server_drain_reactor_queues, server_shutdown_workers,
                     reactor_thread_returns
<1>b. \/ broken' = broken
      \/ broken' = broken + 1 /\ drained = NumReactors /\ drained' = drained
  BY <1>m, Zenon DEF MainCases, server_drain_reactor_queues, server_shutdown_workers,
                     reactor_thread_returns
<1>3. drained' > 0 => stop'["slow"] = "joined"
  <2>1. drained' > 0 => stop["slow"] = "joined"
    BY <1>2, <1>d, Zenon
  <2> QED
    BY <1>s, <1>p, <2>1, Zenon
<1>4. broken' > 0 => drained' = NumReactors
  <2>1. CASE broken' = broken
    BY <1>2, <1>d, <1>n, <2>1
  <2>2. CASE broken' # broken
    BY <1>b, <2>2, Zenon
  <2> QED
    BY <2>1, <2>2, Zenon
<1>5. ASSUME NEW r \in Reactors, r < drained' PROVE cq'[r] = <<>>
  <2>1. CASE r < drained
    <3>1. drained > 0
      BY <1>n, <2>1
    <3>2. stop["slow"] = "joined" /\ cq[r] = <<>>
      BY <1>i, <2>1, <3>1, Zenon DEF ShutInv
    <3> QED
      BY <3>2, StaysEmpty, Zenon
  <2>2. CASE ~(r < drained)
    <3>1. drained' # drained
      BY <1>5, <2>2, Zenon
    <3>2. drained' = drained + 1 /\ stop["slow"] = "joined" /\ cq[drained] = <<>>
      BY <1>d, <3>1, Zenon
    <3>3. r < drained + 1
      BY <1>5, <3>2, Zenon
    <3>4. r = drained
      BY <1>n, <2>2, <3>3
    <3> QED
      BY <3>2, <3>4, StaysEmpty, Zenon
  <2> QED
    BY <2>1, <2>2, Zenon
<1>6. ASSUME NEW r \in Reactors, r \notin running'
      PROVE  r < broken' /\ reactor'[r] = "loop" /\ signal'[r] = "none"
  <2>1. CASE r \notin running
    <3>1. r < broken
      BY <1>i, <2>1, Zenon DEF ShutInv
    <3>2. r < broken'
      BY <1>b, <1>n, <3>1
    <3> QED
      BY <2>1, <3>2, ReturnedStays, Zenon
  <2>2. CASE r \in running
    <3>1. PICK x \in Reactors : reactor_thread_returns(x)
      BY <1>m, <1>6, <2>2, Zenon DEF MainCases, server_drain_reactor_queues,
                                     server_shutdown_workers
    <3>2. x = r
      BY <1>6, <2>2, <3>1, Zenon DEF reactor_thread_returns
    <3> QED
      BY <3>1, <3>2, Zenon DEF reactor_thread_returns, Idle, poolVars, cqVars
  <2> QED
    BY <2>1, <2>2, Zenon
<1> QED
  BY <1>1, <1>3, <1>4, <1>5, <1>6, BatchStep, Zenon DEF ShutInv

----------------------------------------------------------------------------
(* Types. *)

RequestTypes == /\ http \in [Requests -> {"none", "owned", "sending", "sent", "freed"}]
                /\ home \in [Requests -> Reactors \cup {NoReactor}]
                /\ gone \subseteq Requests
                /\ cb \in [Requests -> Tasks \cup {NoTask}]
                /\ answer \in [Requests -> {"none", "refused", "busy", "served", "blank", "dropped"}]
TaskTypes == /\ treq \in [Tasks -> Requests \cup {NoRequest}]
             /\ reactor_id \in [Tasks -> Reactors]
             /\ cancelled \subseteq Tasks
             /\ ran \subseteq Tasks

\* A new request.
LEMMA ArrivalTypes ==
  ASSUME ApiInv, NEW r \in Reactors, NEW q \in Requests, Arrival(r, q)
  PROVE  RequestTypes' /\ TaskTypes' /\ held' \in [Reactors -> SUBSET Tasks]
<1>i. RequestTypes /\ TaskTypes /\ held \in [Reactors -> SUBSET Tasks]
  BY Zenon DEF ApiInv, TypeOK, RequestTypes, TaskTypes
<1>h. home' \in [Requests -> Reactors \cup {NoReactor}]
  <2>1. home' = [home EXCEPT ![q] = r]
    BY Zenon DEF Arrival, api_middleware_wrapper_refuses, server_enqueue_task_no_task,
                 server_enqueue_task_rejected, server_enqueue_task, Arrives
  <2> QED
    BY <1>i, <2>1, Zenon DEF RequestTypes
<1>r. ASSUME NEW kind \in {"refused", "busy"}, evhttp_send_reply(q, kind)
      PROVE  /\ http' \in [Requests -> {"none", "owned", "sending", "sent", "freed"}]
             /\ answer' \in [Requests -> {"none", "refused", "busy", "served", "blank", "dropped"}]
  BY <1>r, <1>i, Zenon DEF evhttp_send_reply, RequestTypes
<1>1. CASE api_middleware_wrapper_refuses(r, q) \/ server_enqueue_task_no_task(r, q)
  <2>1. /\ UNCHANGED <<gone, cb, held, treq, reactor_id, cancelled, ran>>
        /\ evhttp_send_reply(q, "refused") \/ evhttp_send_reply(q, "busy")
    BY <1>1, Zenon DEF api_middleware_wrapper_refuses, server_enqueue_task_no_task, taskVars
  <2> QED
    BY <1>i, <1>h, <1>r, <2>1, Zenon DEF RequestTypes, TaskTypes
<1>2. ASSUME NEW t \in Tasks, server_enqueue_task_rejected(r, q, t)
      PROVE  RequestTypes' /\ TaskTypes' /\ held' \in [Reactors -> SUBSET Tasks]
  <2>1. /\ UNCHANGED <<gone, held>> /\ evhttp_send_reply(q, "busy")
        /\ cb' = [cb EXCEPT ![q] = NoTask]
        /\ treq' = [treq EXCEPT ![t] = NoRequest]
        /\ reactor_id' = [reactor_id EXCEPT ![t] = r]
        /\ cancelled' = cancelled \ {t} /\ ran' = ran \ {t}
    BY <1>2, Zenon DEF server_enqueue_task_rejected, rejected_cb
  <2>2. cb' \in [Requests -> Tasks \cup {NoTask}]
    BY <1>i, <2>1, Zenon DEF RequestTypes
  <2>3. TaskTypes'
    BY <1>i, <2>1, Zenon DEF TaskTypes
  <2> QED
    BY <1>i, <1>h, <1>r, <2>1, <2>2, <2>3, Zenon DEF RequestTypes
<1>3. ASSUME NEW t \in Tasks, server_enqueue_task(r, q, t)
      PROVE  RequestTypes' /\ TaskTypes' /\ held' \in [Reactors -> SUBSET Tasks]
  <2>1. /\ UNCHANGED <<gone, answer>>
        /\ held' = [held EXCEPT ![r] = @ \cup {t}]
        /\ cb' = [cb EXCEPT ![q] = t]
        /\ http' = [http EXCEPT ![q] = "owned"]
        /\ treq' = [treq EXCEPT ![t] = q]
        /\ reactor_id' = [reactor_id EXCEPT ![t] = r]
        /\ cancelled' = cancelled \ {t} /\ ran' = ran \ {t}
    BY <1>3, Zenon DEF server_enqueue_task, fill_task, own_request, TL!Lease
  <2>2. cb' \in [Requests -> Tasks \cup {NoTask}]
    BY <1>i, <2>1, Zenon DEF RequestTypes
  <2>3. http' \in [Requests -> {"none", "owned", "sending", "sent", "freed"}]
    BY <1>i, <2>1, Zenon DEF RequestTypes
  <2>4. TaskTypes'
    BY <1>i, <2>1, Zenon DEF TaskTypes
  <2>5. held' \in [Reactors -> SUBSET Tasks]
    BY <1>i, <2>1, Zenon
  <2> QED
    BY <1>i, <1>h, <2>1, <2>2, <2>3, <2>4, <2>5, Zenon DEF RequestTypes
<1> QED
  BY <1>1, <1>2, <1>3, Zenon DEF Arrival

\* A task that is handed back.
LEMMA FinishTypes ==
  ASSUME ApiInv, NEW r \in Reactors, cleanup_cancelled_task(r) \/ process_completed_task(r)
  PROVE  RequestTypes' /\ TaskTypes' /\ held' \in [Reactors -> SUBSET Tasks]
<1>i. RequestTypes /\ TaskTypes /\ held \in [Reactors -> SUBSET Tasks]
  BY Zenon DEF ApiInv, TypeOK, RequestTypes, TaskTypes
<1>1. PICK u \in held[r] : Finish(r, u)
  BY Finishes, Zenon
<1>2. u = Head(batch[r]) /\ UNCHANGED <<home, gone, reactor_id, cancelled, ran>>
  BY <1>1, Zenon DEF Finish
<1>3. held' \in [Reactors -> SUBSET Tasks]
  BY <1>i, <1>1, Zenon DEF Finish, TL!Return
<1>4. TaskTypes'
  BY <1>i, <1>1, <1>2, Zenon DEF Finish, TaskTypes
<1>5. cb' \in [Requests -> Tasks \cup {NoTask}]
  BY <1>i, <1>1, Zenon DEF Finish, RequestTypes
<1>6. /\ http' \in [Requests -> {"none", "owned", "sending", "sent", "freed"}]
      /\ answer' \in [Requests -> {"none", "refused", "busy", "served", "blank", "dropped"}]
  <2>1. CASE cleanup_cancelled_task(r)
    BY <1>i, <2>1, Zenon DEF cleanup_cancelled_task, RequestTypes
  <2>2. CASE process_completed_task(r)
    BY <1>i, <2>2, Zenon DEF process_completed_task, evhttp_send_reply, RequestTypes
  <2> QED
    BY <2>1, <2>2, Zenon
<1> QED
  BY <1>i, <1>2, <1>3, <1>4, <1>5, <1>6, Zenon DEF RequestTypes

\* A reply that is sent, a connection that is lost, a reactor that returns.
LEMMA ConnectionTypes ==
  ASSUME ApiInv, \/ \E q \in Requests : send_done(q) \/ disconnect(q)
                 \/ \E r \in Reactors : reactor_thread_returns(r)
  PROVE  RequestTypes' /\ TaskTypes' /\ UNCHANGED held
<1>i. RequestTypes /\ TaskTypes
  BY Zenon DEF ApiInv, TypeOK, RequestTypes, TaskTypes
<1>1. /\ UNCHANGED <<home, cb, answer, treq, reactor_id, ran, held>>
      /\ gone' \subseteq Requests
  BY <1>i, Zenon DEF send_done, disconnect, reactor_thread_returns, taskVars, RequestTypes
<1>2. http' \in [Requests -> {"none", "owned", "sending", "sent", "freed"}]
  BY <1>i, Zenon DEF send_done, disconnect, reactor_thread_returns, RequestTypes
<1>3. cancelled' \subseteq Tasks
  <2>1. CASE UNCHANGED cancelled
    BY <1>i, <2>1, Zenon DEF TaskTypes
  <2>2. ASSUME NEW q \in Requests, request_on_complete_cb(q) PROVE cancelled' \subseteq Tasks
    <3>1. cb[q] \in Tasks \cup {NoTask} /\ cancelled' = cancelled \cup ({cb[q]} \ {NoTask})
      BY <1>i, <2>2, Zenon DEF request_on_complete_cb, RequestTypes
    <3> QED
      BY <1>i, <3>1, Zenon DEF TaskTypes
  <2> QED
    BY <2>1, <2>2, Zenon DEF send_done, disconnect, reactor_thread_returns, taskVars
<1> QED
  BY <1>i, <1>1, <1>2, <1>3, Zenon DEF RequestTypes, TaskTypes

\* The main thread's counters stay in range.
LEMMA MainTypes ==
  ASSUME ApiInv, [Next]_vars
  PROVE  /\ drained' \in 0 .. NumReactors /\ broken' \in 0 .. NumReactors
         /\ running' \subseteq Reactors
<1>i. /\ drained \in 0 .. NumReactors /\ broken \in 0 .. NumReactors
      /\ running \subseteq Reactors
  BY Zenon DEF ApiInv, TypeOK
<1>n. NumReactors \in Nat
  BY ApiServerConstants, Zenon DEF ApiServerConstants
<1>m. MainCases
  BY MainSteps, Zenon
<1>1. drained' = drained \/ (drained < NumReactors /\ drained' = drained + 1)
  BY <1>m, Zenon DEF MainCases, server_drain_reactor_queues, server_shutdown_workers,
                     reactor_thread_returns
<1>2. broken' = broken \/ (broken < NumReactors /\ broken' = broken + 1)
  BY <1>m, Zenon DEF MainCases, server_drain_reactor_queues, server_shutdown_workers,
                     reactor_thread_returns
<1>3. running' \subseteq Reactors
  BY <1>i, <1>m, Zenon DEF MainCases, server_drain_reactor_queues, server_shutdown_workers,
                           reactor_thread_returns
<1>4. drained' \in 0 .. NumReactors
  BY <1>i, <1>n, <1>1
<1>5. broken' \in 0 .. NumReactors
  BY <1>i, <1>n, <1>2
<1> QED
  BY <1>3, <1>4, <1>5, Zenon

\* The phase of a worker.
LEMMA PhaseTypes ==
  ASSUME ApiInv, [Next]_vars
  PROVE  phase' \in [Workers -> {"none", "check", "run", "notify"}]
<1>i. phase \in [Workers -> {"none", "check", "run", "notify"}]
  BY Zenon DEF ApiInv, TypeOK
<1>1. PhaseCases
  BY PhaseSteps, Zenon DEF ApiInv, WorkerInv
<1>2. CASE UNCHANGED phase
  BY <1>i, <1>2, Zenon
<1>3. ASSUME NEW w \in Workers, NEW s \in {"none", "check", "run", "notify"},
             phase' = [phase EXCEPT ![w] = s]
      PROVE  phase' \in [Workers -> {"none", "check", "run", "notify"}]
  BY <1>i, <1>3, Zenon
<1>4. UNCHANGED phase \/ \E w \in Workers : \E s \in {"none", "check", "run", "notify"} :
                            phase' = [phase EXCEPT ![w] = s]
  BY <1>1, Zenon DEF PhaseCases, worker_take, worker_check, worker_process_task, worker_notify
<1> QED
  BY <1>2, <1>3, <1>4, Zenon

\* Every other step leaves the requests alone, and of the tasks at most adds
\* the one a worker has run.
LEMMA OtherTypes ==
  ASSUME ApiInv, [Next]_vars,
         ~\E r \in Reactors : \/ \E q \in Requests : Arrival(r, q)
                              \/ cleanup_cancelled_task(r) \/ process_completed_task(r)
                              \/ reactor_thread_returns(r),
         ~\E q \in Requests : send_done(q) \/ disconnect(q)
  PROVE  RequestTypes' /\ TaskTypes' /\ UNCHANGED held
<1>i. RequestTypes /\ TaskTypes
  BY Zenon DEF ApiInv, TypeOK, RequestTypes, TaskTypes
<1>k. ASSUME UNCHANGED <<requestVars, taskVars, held>>
      PROVE  RequestTypes' /\ TaskTypes' /\ UNCHANGED held
  BY <1>i, <1>k, Zenon DEF requestVars, taskVars, RequestTypes, TaskTypes
<1>1. ASSUME NEW r \in Reactors, enqueue_signal(r) \/ reactor_eventfd_read(r) \/ reactor_detach(r)
      PROVE  UNCHANGED <<requestVars, taskVars, held>>
  BY <1>1, Zenon DEF enqueue_signal, reactor_eventfd_read, reactor_detach
<1>2. ASSUME NEW w \in Workers, Worker(w), ~worker_process_task(w)
      PROVE  UNCHANGED <<requestVars, taskVars, held>>
  BY <1>2, Zenon DEF Worker, worker_idle, worker_take, worker_check, worker_notify,
                     worker_wakes_reactor
<1>3. ASSUME NEW w \in Workers, worker_process_task(w)
      PROVE  RequestTypes' /\ TaskTypes' /\ UNCHANGED held
  <2>1. wtask[w] \in Tasks
    <3>1. phase[w] # "none"
      BY <1>3, Zenon DEF worker_process_task
    <3> QED
      BY <3>1, BusyHasTask, Zenon DEF ApiInv
  <2>2. ran' \subseteq Tasks
    BY <1>i, <1>3, <2>1, Zenon DEF worker_process_task, TaskTypes
  <2> QED
    BY <1>i, <1>3, <2>2, Zenon DEF worker_process_task, requestVars, RequestTypes, TaskTypes
<1>4. ASSUME Main PROVE UNCHANGED <<requestVars, taskVars, held>>
  BY <1>4, Zenon DEF Main, main_stops_pools, server_drain_reactor_queues,
                     server_shutdown_workers, server_cleanup_globals
<1>5. ASSUME UNCHANGED vars PROVE UNCHANGED <<requestVars, taskVars, held>>
  BY <1>5, Zenon DEF vars
<1> QED
  BY <1>k, <1>1, <1>2, <1>3, <1>4, <1>5, Zenon DEF Next, Reactor

\* Every step keeps the types.
LEMMA TypeStep == ApiInv /\ [Next]_vars => TypeOK'
<1> SUFFICES ASSUME ApiInv, [Next]_vars PROVE TypeOK'
  BY Zenon
<1>1. WPTypeOK'
  <2>1. WorkerInv'
    BY PoolSteps, WorkerInvStep, Zenon DEF ApiInv
  <2> QED
    BY <2>1, Zenon DEF WorkerInv
<1>2. CQTypeOK'
  <2>1. CQInv'
    BY QueueSteps, CQStep, Zenon DEF ApiInv
  <2> QED
    BY <2>1, Zenon DEF CQInv
<1>3. RequestTypes' /\ TaskTypes' /\ held' \in [Reactors -> SUBSET Tasks]
  <2>1. held \in [Reactors -> SUBSET Tasks]
    BY Zenon DEF ApiInv, TypeOK
  <2> QED
    BY <2>1, ArrivalTypes, FinishTypes, ConnectionTypes, OtherTypes, Zenon
<1>4. halted' \in BOOLEAN
  <2>1. halted \in BOOLEAN
    BY Zenon DEF ApiInv, TypeOK
  <2>2. CASE Main
    BY <2>1, <2>2, Zenon DEF Main, main_stops_pools, server_drain_reactor_queues,
           server_shutdown_workers, server_cleanup_globals, mainVars
  <2>3. CASE ~Main
    <3>1. ASSUME NEW r \in Reactors, NEW q \in Requests, Arrival(r, q) PROVE UNCHANGED halted
      BY <3>1, Zenon
      DEF Arrival, api_middleware_wrapper_refuses, server_enqueue_task_no_task,
          server_enqueue_task_rejected, server_enqueue_task, mainVars
    <3>2. ASSUME NEW r \in Reactors, Reactor(r) PROVE UNCHANGED halted
      BY <3>2, Zenon
      DEF Reactor, enqueue_signal, reactor_eventfd_read, reactor_detach, cleanup_cancelled_task,
          process_completed_task, reactor_thread_returns, mainVars
    <3>3. ASSUME NEW q \in Requests, send_done(q) \/ disconnect(q) PROVE UNCHANGED halted
      BY <3>3, Zenon DEF send_done, disconnect, mainVars
    <3>4. ASSUME NEW w \in Workers, Worker(w) PROVE UNCHANGED halted
      BY <3>4, Zenon
      DEF Worker, worker_idle, worker_take, worker_check, worker_process_task, worker_notify,
          worker_wakes_reactor, mainVars
    <3>5. UNCHANGED vars => UNCHANGED halted
      BY Zenon DEF vars, mainVars
    <3>6. UNCHANGED halted
      BY <2>3, <3>1, <3>2, <3>3, <3>4, <3>5, Zenon DEF Next
    <3> QED
      BY <2>1, <3>6, Zenon
  <2> QED
    BY <2>2, <2>3, Zenon
<1> QED
  BY <1>1, <1>2, <1>3, <1>4, MainTypes, PhaseTypes, Zenon DEF TypeOK, RequestTypes, TaskTypes

----------------------------------------------------------------------------
(* The server. *)

\* The initial state satisfies the inductive invariant: nothing is anywhere.
LEMMA ApiInit == Init => ApiInv
<1> SUFFICES ASSUME Init PROVE ApiInv
  BY Zenon
<1>i. /\ WPInit /\ CQInit /\ held = [r \in Reactors |-> {}]
      /\ http = [q \in Requests |-> "none"] /\ cb = [q \in Requests |-> NoTask]
      /\ answer = [q \in Requests |-> "none"] /\ phase = [w \in Workers |-> "none"]
      /\ drained = 0 /\ broken = 0 /\ running = Reactors
  BY Zenon DEF Init, TL!TaskLeaseInit
<1>1. WorkerInv
  BY <1>i, WorkerInvInit, Zenon
<1>2. CQInv
  BY <1>i, CQInitial, Zenon
<1>3. TypeOK
  <2>1. WPTypeOK /\ CQTypeOK
    BY <1>1, <1>2, Zenon DEF WorkerInv, CQInv
  <2>2. 0 \in Reactors /\ 0 \in 0 .. NumReactors
    BY ApiServerConstants DEF ApiServerConstants
  <2>3. RequestTypes
    BY Zenon DEF Init, RequestTypes
  <2>4. TaskTypes
    BY <2>2, Zenon DEF Init, TaskTypes
  <2>5. held \in [Reactors -> SUBSET Tasks]
    BY <1>i, Zenon
  <2>6. phase \in [Workers -> {"none", "check", "run", "notify"}]
    BY <1>i, Zenon
  <2>7. halted \in BOOLEAN
    BY Zenon DEF Init
  <2> QED
    BY <1>i, <2>1, <2>2, <2>3, <2>4, <2>5, <2>6, <2>7, Zenon
    DEF TypeOK, RequestTypes, TaskTypes
<1>4. leased = {}
  BY <1>i, Zenon DEF leased
<1>5. /\ \A p \in Pools : queue[p] = <<>>
      /\ \A w \in Workers : wtask[w] = NoTask
      /\ \A r \in Reactors : cq[r] = <<>> /\ batch[r] = <<>>
  BY <1>i, Zenon DEF WPInit, CQInit
<1>6. PlaceInv
  <2>1. NoRepeats
    BY <1>5, EmptyIn, Zenon DEF NoRepeats
  <2>2. ASSUME NEW t \in Tasks, NEW k \in Kinds, NEW x \in Which(k) PROVE ~Here(k, x, t)
    <3>1. t # NoTask
      BY WorkerPoolConstants, Zenon DEF WorkerPoolConstants
    <3>2. /\ k = "queue" => queue[x] = <<>>
          /\ k = "worker" => wtask[x] = NoTask
          /\ k = "cq" => cq[x] = <<>>
          /\ k = "batch" => batch[x] = <<>>
      BY <1>5, Zenon DEF Which
    <3> QED
      BY <3>1, <3>2, EmptyIn, Zenon DEF Here
  <2> QED
    BY <1>4, <2>1, <2>2, Zenon DEF PlaceInv, OnePlace, Somewhere
<1>7. LeaseInv /\ RequestInv /\ CallbackIsCurrent
  BY <1>i, <1>4, Zenon DEF LeaseInv, RequestInv, CallbackIsCurrent
<1>8. BackInv
  <2>1. \A w \in Workers : phase[w] = "none" /\ worker[w] = "lock"
    BY <1>i, Zenon DEF WPInit
  <2> QED
    BY <1>5, <2>1, EmptyIn, Zenon DEF BackInv
<1>9. ShutInv
  <2>1. ~(0 > 0) /\ \A r \in Reactors : ~(r < 0)
    BY ApiServerConstants DEF ApiServerConstants
  <2>2. stop["slow"] # "joined"
    BY <1>i, Zenon DEF WPInit, Pools
  <2> QED
    BY <1>i, <1>5, <2>1, <2>2, Zenon DEF ShutInv
<1> QED
  BY <1>1, <1>2, <1>3, <1>6, <1>7, <1>8, <1>9, Zenon DEF ApiInv

\* Requests, tasks, pools, queues and threads stay consistent with each other
\* whatever requests arrive, clients leave and threads do, in service and
\* through the shutdown.
THEOREM ServerCorrect == Spec => []ApiInv
<1>1. ApiInv /\ [Next]_vars => ApiInv'
  <2> SUFFICES ASSUME ApiInv, [Next]_vars PROVE ApiInv'
    BY Zenon
  <2>1. WorkerInv'
    BY PoolSteps, WorkerInvStep, Zenon DEF ApiInv
  <2>2. CQInv'
    BY QueueSteps, CQStep, Zenon DEF ApiInv
  <2>3. LeaseInv' /\ RequestInv' /\ CallbackIsCurrent'
    BY LifeStep, Zenon DEF LifeInv
  <2> QED
    BY <2>1, <2>2, <2>3, PlaceStep, BackStep, ShutStep, TypeStep, Zenon DEF ApiInv
<1> QED
  BY <1>1, ApiInit, PTL DEF Spec

\* A set with at most one element.
LEMMA AtMostOne ==
  ASSUME NEW S, \A x, y \in S : x = y
  PROVE  Cardinality(S) = IF S = {} THEN 0 ELSE 1
<1>1. CASE S = {}
  BY <1>1, FS_EmptySet, Zenon
<1>2. CASE S # {}
  <2>1. PICK x \in S : TRUE
    BY <1>2, Zenon
  <2>2. S = {x}
    BY <2>1, Zenon
  <2>3. Cardinality({x}) = 1
    BY FS_Singleton, Zenon
  <2> QED
    BY <1>2, <2>2, <2>3, Zenon
<1> QED
  BY <1>1, <1>2, Zenon

\* A leased task is in exactly one place, a free one in none.
LEMMA Handover == ApiInv => HandedOver
<1> SUFFICES ASSUME ApiInv, NEW t \in Tasks
             PROVE  LET places ==
                          Count(queue["fast"], t) + Count(queue["slow"], t)
                          + Cardinality({w \in Workers : wtask[w] = t})
                          + Cardinality({r \in Reactors : Count(cq[r], t) = 1})
                          + Cardinality({r \in Reactors : Count(batch[r], t) = 1})
                    IN IF t \in leased
                       THEN places = 1 /\ treq[t] \in Requests /\ http[treq[t]] = "owned"
                       ELSE places = 0
  BY Zenon DEF HandedOver
<1> DEFINE W == {w \in Workers : wtask[w] = t}
           C == {r \in Reactors : In(cq[r], t)}
           B == {r \in Reactors : In(batch[r], t)}
<1>i. NoRepeats /\ OnePlace /\ (t \in leased <=> Somewhere(t))
  BY Zenon DEF ApiInv, PlaceInv
<1>p. /\ Which("queue") = Pools /\ Which("worker") = Workers
      /\ Which("cq") = Reactors /\ Which("batch") = Reactors
      /\ "fast" \in Pools /\ "slow" \in Pools
      /\ "queue" \in Kinds /\ "worker" \in Kinds /\ "cq" \in Kinds /\ "batch" \in Kinds
  BY Zenon DEF Which, Kinds, Pools
<1>h. /\ \A p : Here("queue", p, t) <=> In(queue[p], t)
      /\ \A w : Here("worker", w, t) <=> wtask[w] = t
      /\ \A r : Here("cq", r, t) <=> In(cq[r], t)
      /\ \A r : Here("batch", r, t) <=> In(batch[r], t)
  BY Zenon DEF Here
<1>o. \A k, l \in Kinds : \A x \in Which(k), y \in Which(l) :
         Here(k, x, t) /\ Here(l, y, t) => k = l /\ x = y
  BY <1>i, Zenon DEF OnePlace
<1>1. Count(queue["fast"], t) = IF In(queue["fast"], t) THEN 1 ELSE 0
  BY <1>i, <1>p, CountOnce, Zenon DEF NoRepeats
<1>2. Count(queue["slow"], t) = IF In(queue["slow"], t) THEN 1 ELSE 0
  BY <1>i, <1>p, CountOnce, Zenon DEF NoRepeats
<1>3. Cardinality(W) = IF W = {} THEN 0 ELSE 1
  <2>1. \A x, y \in W : x = y
    <3>1. \A x \in W : x \in Which("worker") /\ Here("worker", x, t)
      BY <1>p, <1>h, Zenon
    <3> QED
      BY <1>p, <1>o, <3>1, Zenon
  <2> QED
    BY <2>1, AtMostOne, Zenon
<1>z. 1 # 0
  OBVIOUS
<1>4. Cardinality({r \in Reactors : Count(cq[r], t) = 1}) = IF C = {} THEN 0 ELSE 1
  <2>1. \A r \in Reactors : Count(cq[r], t) = IF In(cq[r], t) THEN 1 ELSE 0
    BY <1>i, CountOnce, Zenon DEF NoRepeats
  <2>2. {r \in Reactors : Count(cq[r], t) = 1} = C
    BY <1>z, <2>1, Zenon
  <2>3. \A x, y \in C : x = y
    <3>1. \A x \in C : x \in Which("cq") /\ Here("cq", x, t)
      BY <1>p, <1>h, Zenon
    <3> QED
      BY <1>p, <1>o, <3>1, Zenon
  <2> QED
    BY <2>2, <2>3, AtMostOne, Zenon
<1>5. Cardinality({r \in Reactors : Count(batch[r], t) = 1}) = IF B = {} THEN 0 ELSE 1
  <2>1. \A r \in Reactors : Count(batch[r], t) = IF In(batch[r], t) THEN 1 ELSE 0
    BY <1>i, CountOnce, Zenon DEF NoRepeats
  <2>2. {r \in Reactors : Count(batch[r], t) = 1} = B
    BY <1>z, <2>1, Zenon
  <2>3. \A x, y \in B : x = y
    <3>1. \A x \in B : x \in Which("batch") /\ Here("batch", x, t)
      BY <1>p, <1>h, Zenon
    <3> QED
      BY <1>p, <1>o, <3>1, Zenon
  <2> QED
    BY <2>2, <2>3, AtMostOne, Zenon
<1> DEFINE places == Count(queue["fast"], t) + Count(queue["slow"], t)
                     + Cardinality({w \in Workers : wtask[w] = t})
                     + Cardinality({r \in Reactors : Count(cq[r], t) = 1})
                     + Cardinality({r \in Reactors : Count(batch[r], t) = 1})
<1>6. CASE t \notin leased
  <2>1. \A k \in Kinds : \A x \in Which(k) : ~Here(k, x, t)
    BY <1>i, <1>6, Zenon DEF Somewhere
  <2>2. ~In(queue["fast"], t) /\ ~In(queue["slow"], t) /\ W = {} /\ C = {} /\ B = {}
    BY <1>p, <1>h, <2>1, Zenon
  <2>3. /\ Count(queue["fast"], t) = 0 /\ Count(queue["slow"], t) = 0
        /\ Cardinality({w \in Workers : wtask[w] = t}) = 0
        /\ Cardinality({r \in Reactors : Count(cq[r], t) = 1}) = 0
        /\ Cardinality({r \in Reactors : Count(batch[r], t) = 1}) = 0
    BY <1>1, <1>2, <1>3, <1>4, <1>5, <2>2, Zenon
  <2>4. places = 0
    BY <2>3
  <2> QED
    BY <1>6, <2>4, Zenon
<1>7. CASE t \in leased
  <2>1. PICK k \in Kinds : \E x \in Which(k) : Here(k, x, t)
    BY <1>i, <1>7, Zenon DEF Somewhere
  <2>2. PICK x \in Which(k) : Here(k, x, t)
    BY <2>1, Zenon
  <2>3. \A l \in Kinds : \A y \in Which(l) : Here(l, y, t) => l = k /\ y = x
    BY <1>o, <2>2, Zenon
  <2>4. CASE k = "queue"
    <3>1. x \in Pools /\ In(queue[x], t) /\ W = {} /\ C = {} /\ B = {}
      BY <1>p, <1>h, <2>2, <2>3, <2>4, Zenon
    <3>2. \A p \in Pools : In(queue[p], t) <=> p = x
      BY <1>p, <1>h, <2>2, <2>3, <2>4, Zenon
    <3>3. ASSUME x = "fast" PROVE places = 1
      <4>1. In(queue["fast"], t) /\ ~In(queue["slow"], t)
        BY <1>p, <3>2, <3>3, Zenon
      <4> QED
        BY <1>1, <1>2, <1>3, <1>4, <1>5, <3>1, <4>1
    <3>4. ASSUME x = "slow" PROVE places = 1
      <4>1. In(queue["slow"], t) /\ ~In(queue["fast"], t)
        BY <1>p, <3>2, <3>4, Zenon
      <4> QED
        BY <1>1, <1>2, <1>3, <1>4, <1>5, <3>1, <4>1
    <3>5. places = 1
      BY <3>1, <3>3, <3>4, Zenon DEF Pools
    <3> QED
      BY <1>7, <3>5, LeasedTask, Zenon DEF ApiInv
  <2>5. CASE k # "queue"
    <3>1. ~In(queue["fast"], t) /\ ~In(queue["slow"], t)
      BY <1>p, <1>h, <2>3, <2>5, Zenon
    <3>2. \/ k = "worker" /\ W # {} /\ C = {} /\ B = {}
          \/ k = "cq" /\ W = {} /\ C # {} /\ B = {}
          \/ k = "batch" /\ W = {} /\ C = {} /\ B # {}
      <4>1. CASE k = "worker"
        BY <1>p, <1>h, <2>2, <2>3, <4>1, Zenon
      <4>2. CASE k = "cq"
        BY <1>p, <1>h, <2>2, <2>3, <4>2, Zenon
      <4>3. CASE k = "batch"
        BY <1>p, <1>h, <2>2, <2>3, <4>3, Zenon
      <4> QED
        BY <2>1, <2>5, <4>1, <4>2, <4>3, Zenon DEF Kinds
    <3>3. places = 1
      BY <1>1, <1>2, <1>3, <1>4, <1>5, <3>1, <3>2
    <3> QED
      BY <1>7, <3>3, LeasedTask, Zenon DEF ApiInv
  <2> QED
    BY <2>4, <2>5, Zenon
<1> QED
  BY <1>6, <1>7, Zenon

\* A task is handed back to the reactor that leased it, on whose connection
\* its request came.
LEMMA HandedBack == ApiInv => SameReactor
<1> SUFFICES ASSUME ApiInv, NEW r \in Reactors, NEW t \in Tasks,
                    Count(cq[r], t) + Count(batch[r], t) > 0
             PROVE  t \in held[r] /\ home[treq[t]] = r
  BY Zenon DEF SameReactor
<1>1. In(cq[r], t) \/ In(batch[r], t)
  <2>1. /\ Count(cq[r], t) = IF In(cq[r], t) THEN 1 ELSE 0
        /\ Count(batch[r], t) = IF In(batch[r], t) THEN 1 ELSE 0
    BY CountOnce, Zenon DEF ApiInv, PlaceInv, NoRepeats
  <2>2. ~(0 + 0 > 0)
    OBVIOUS
  <2> QED
    BY <2>1, <2>2, Zenon
<1>2. reactor_id[t] = r
  BY <1>1, Zenon DEF ApiInv, BackInv
<1>3. t \in leased
  BY <1>1, PlacedIsLeased, Zenon DEF ApiInv
<1> QED
  BY <1>2, <1>3, LeasedTask, Zenon DEF ApiInv

\* Every task is in one place and comes back to its own reactor, its request
\* outlives it, and no callback reaches a later request.
THEOREM TasksHandedOver == Spec => []ServerInv
<1>1. ApiInv => ServerInv
  BY Handover, HandedBack, Zenon DEF ServerInv, ApiInv
<1> QED
  BY <1>1, ServerCorrect, PTL

\* When the last reactor has returned, every task has been handed back and
\* every request settled.
LEMMA NothingLeft == ApiInv => HaltIsClean
<1> SUFFICES ASSUME ApiInv, running = {}
             PROVE  /\ leased = {}
                    /\ \A q \in Requests : http[q] # "owned"
                    /\ \A w \in Workers : worker[w] = "exited" /\ writing[w] = NoReactor
                    /\ \A r \in Reactors : signal[r] = "none" /\ eventfd[r] = 0
  BY Zenon DEF HaltIsClean
<1>i. ShutInv /\ CQTypeOK /\ OneWakeup /\ drained \in 0 .. NumReactors /\ broken \in 0 .. NumReactors
  BY Zenon DEF ApiInv, CQInv, TypeOK
<1>c. NumReactors \in Nat \ {0} /\ Reactors = 0 .. NumReactors - 1
  BY ApiServerConstants, Zenon DEF ApiServerConstants
<1>1. drained = NumReactors
  <2>1. 0 \in Reactors
    BY <1>c
  <2>2. 0 < broken
    BY <1>i, <2>1, Zenon DEF ShutInv
  <2>3. broken > 0
    BY <1>i, <2>2, Zenon
  <2> QED
    BY <1>i, <2>3, Zenon DEF ShutInv
<1>2. drained > 0 /\ \A r \in Reactors : r < drained
  BY <1>c, <1>1
<1>3. stop["slow"] = "joined" /\ stop["fast"] = "joined"
  BY <1>i, <1>2, Zenon DEF ShutInv
<1>4. \A r \in Reactors : /\ cq[r] = <<>> /\ batch[r] = <<>>
                          /\ reactor[r] = "loop" /\ signal[r] = "none"
  <2>1. \A r \in Reactors : cq[r] = <<>> /\ reactor[r] = "loop" /\ signal[r] = "none"
    BY <1>i, <1>2, Zenon DEF ShutInv
  <2>2. \A r \in Reactors : reactor[r] # "batch"
    BY <2>1, Zenon
  <2> QED
    BY <1>i, <2>1, <2>2, Zenon DEF ShutInv
<1>5. \A w \in Workers : worker[w] = "exited" /\ wtask[w] = NoTask
  BY <1>3, NoNotifyAfterJoin, Zenon
<1>6. \A p \in Pools : queue[p] = <<>>
  <2> SUFFICES ASSUME NEW p \in Pools PROVE queue[p] = <<>>
    BY Zenon
  <2>1. PICK w \in Workers : PoolOf[w] = p
    BY WorkerPoolConstants, Zenon DEF WorkerPoolConstants
  <2> QED
    BY <1>5, <2>1, Zenon DEF ApiInv, WorkerInv, StopInv
<1>7. \A t \in Tasks : ~Somewhere(t)
  <2> SUFFICES ASSUME NEW t \in Tasks, NEW k \in Kinds, NEW x \in Which(k) PROVE ~Here(k, x, t)
    BY Zenon DEF Somewhere
  <2>1. t # NoTask
    BY WorkerPoolConstants, Zenon DEF WorkerPoolConstants
  <2>2. /\ k = "queue" => queue[x] = <<>>
        /\ k = "worker" => wtask[x] = NoTask
        /\ k = "cq" => cq[x] = <<>>
        /\ k = "batch" => batch[x] = <<>>
    BY <1>4, <1>5, <1>6, Zenon DEF Which
  <2> QED
    BY <2>1, <2>2, EmptyIn, Zenon DEF Here
<1>8. leased = {}
  <2>1. \A t \in Tasks : t \notin leased
    BY <1>7, Zenon DEF ApiInv, PlaceInv
  <2>2. held \in [Reactors -> SUBSET Tasks]
    BY Zenon DEF ApiInv, TypeOK
  <2>3. \A t \in leased : t \in Tasks
    BY <2>2, Leased, Zenon
  <2> QED
    BY <2>1, <2>3, Zenon
<1>9. \A q \in Requests : http[q] # "owned"
  BY <1>8, Zenon DEF ApiInv, RequestInv
<1>10. \A r \in Reactors : eventfd[r] = 0 /\ Writers(r) = {}
  <2> SUFFICES ASSUME NEW r \in Reactors PROVE eventfd[r] = 0 /\ Writers(r) = {}
    BY Zenon
  <2>1. IsFiniteSet(Writers(r)) /\ Cardinality(Writers(r)) \in Nat
    BY ThreadsConstants, FS_Subset, FS_CardinalityType, Zenon DEF ThreadsConstants, Writers
  <2>2. eventfd[r] \in Nat
    BY <1>i, Zenon DEF CQTypeOK
  <2>3. reactor[r] # "read" /\ cq[r] = <<>>
    BY <1>4, Zenon
  <2>4. Cardinality(Writers(r)) + eventfd[r] + 0 = 0
    BY <1>i, <2>3, Zenon DEF OneWakeup
  <2>5. Cardinality(Writers(r)) = 0 /\ eventfd[r] = 0
    BY <2>1, <2>2, <2>4
  <2> QED
    BY <2>1, <2>5, FS_EmptySet, Zenon
<1>11. \A w \in Workers : writing[w] = NoReactor
  BY <1>i, <1>10, Zenon DEF CQTypeOK, Writers
<1> QED
  BY <1>4, <1>5, <1>8, <1>9, <1>10, <1>11, Zenon

\* A graceful shutdown leaves nothing behind: server_cleanup_globals frees no
\* task, request or queue that a thread still uses.
THEOREM ShutdownIsClean == Spec => []HaltIsClean
  BY NothingLeft, ServerCorrect, PTL

----------------------------------------------------------------------------
(* The server implements RequestService. *)

\* The abstract state of a request follows from two facts about it.
LEMMA StateOf ==
  ASSUME NEW q
  PROVE  /\ http[q] = "none" => RequestState(q) = "new"
         /\ http[q] # "none" => RequestState(q) # "new"
         /\ http[q] # "none" /\ answer[q] = "none" => RequestState(q) = "accepted"
         /\ http'[q] # "none" /\ answer'[q] = "none" => RequestState(q)' = "accepted"
         /\ http'[q] # "none" /\ answer'[q] = "dropped" => RequestState(q)' = "dropped"
         /\ http'[q] # "none" /\ answer'[q] \in {"refused", "busy", "served"}
              => RequestState(q)' = "answered"
         /\ (http'[q] = "none" <=> http[q] = "none") /\ answer'[q] = answer[q]
              => RequestState(q)' = RequestState(q)
<1>1. /\ http[q] = "none" => RequestState(q) = "new"
      /\ http[q] # "none" => RequestState(q) # "new"
      /\ http[q] # "none" /\ answer[q] = "none" => RequestState(q) = "accepted"
  BY Zenon DEF RequestState
<1>2. /\ http'[q] # "none" /\ answer'[q] = "none" => RequestState(q)' = "accepted"
      /\ http'[q] # "none" /\ answer'[q] = "dropped" => RequestState(q)' = "dropped"
      /\ http'[q] # "none" /\ answer'[q] \in {"refused", "busy", "served"}
           => RequestState(q)' = "answered"
  BY Zenon DEF RequestState
<1>3. (http'[q] = "none" <=> http[q] = "none") /\ answer'[q] = answer[q]
        => RequestState(q)' = RequestState(q)
  BY Zenon DEF RequestState
<1> QED
  BY <1>1, <1>2, <1>3, Zenon

\* A step that moves one request.
LEMMA OneMoves ==
  ASSUME NEW CONSTANT q \in Requests, NEW CONSTANT from, NEW CONSTANT to,
         RequestState(q) = from, RequestState(q)' = to, UNCHANGED gone,
         \A x \in Requests \ {q} : http'[x] = http[x] /\ answer'[x] = answer[x]
  PROVE  RS!Moves(q, from, to)
<1>1. \A x \in Requests \ {q} : RequestState(x)' = RequestState(x)
  BY StateOf, Zenon
<1>2. [x \in Requests |-> RequestState(x)]'
        = [[x \in Requests |-> RequestState(x)] EXCEPT ![q] = to]
  BY <1>1, Zenon
<1> QED
  BY <1>2, Zenon DEF RS!Moves

\* A step that moves none.
LEMMA NoneMoves ==
  ASSUME \A x \in Requests : (http'[x] = "none" <=> http[x] = "none") /\ answer'[x] = answer[x]
  PROVE  UNCHANGED [x \in Requests |-> RequestState(x)]
<1>1. \A x \in Requests : RequestState(x)' = RequestState(x)
  BY StateOf, Zenon
<1> QED
  BY <1>1, Zenon

\* A request that arrives is answered on the spot or accepted.
LEMMA ArrivalServes ==
  ASSUME ApiInv, NEW r \in Reactors, NEW q \in Requests, Arrival(r, q)
  PROVE  RS!ServiceNext
<1>i. RequestTypes /\ RequestInv
  BY Zenon DEF ApiInv, TypeOK, RequestTypes
<1>1. http[q] = "none" /\ UNCHANGED gone
  BY Zenon DEF Arrival, api_middleware_wrapper_refuses, server_enqueue_task_no_task,
               server_enqueue_task_rejected, server_enqueue_task, Arrives
<1>2. RequestState(q) = "new" /\ answer[q] = "none"
  BY <1>i, <1>1, StateOf, Zenon DEF RequestInv
<1>3. ASSUME NEW kind \in {"refused", "busy"}, evhttp_send_reply(q, kind) PROVE RS!ServiceNext
  <2>1. /\ http'[q] = (IF q \in gone THEN "freed" ELSE "sending") /\ answer'[q] = kind
        /\ \A x \in Requests \ {q} : http'[x] = http[x] /\ answer'[x] = answer[x]
    BY <1>i, <1>3, Zenon DEF evhttp_send_reply, RequestTypes
  <2>2. http'[q] # "none" /\ answer'[q] \in {"refused", "busy", "served"}
    BY <2>1, Zenon
  <2>3. RequestState(q)' = "answered"
    BY <2>2, StateOf, Zenon
  <2>4. RS!Refuse(q)
    BY <1>1, <1>2, <2>1, <2>3, OneMoves, Zenon DEF RS!Refuse
  <2> QED
    BY <2>4, Zenon DEF RS!ServiceNext
<1>4. ASSUME NEW t \in Tasks, server_enqueue_task(r, q, t) PROVE RS!ServiceNext
  <2>1. /\ http'[q] = "owned" /\ answer' = answer
        /\ \A x \in Requests \ {q} : http'[x] = http[x] /\ answer'[x] = answer[x]
    BY <1>i, <1>4, Zenon DEF server_enqueue_task, own_request, RequestTypes
  <2>2. http'[q] # "none" /\ answer'[q] = "none"
    BY <1>2, <2>1, Zenon
  <2>3. RequestState(q)' = "accepted"
    BY <2>2, StateOf, Zenon
  <2>4. RS!Accept(q)
    BY <1>1, <1>2, <2>1, <2>3, OneMoves, Zenon DEF RS!Accept
  <2> QED
    BY <2>4, Zenon DEF RS!ServiceNext
<1> QED
  BY <1>3, <1>4, Zenon DEF Arrival, api_middleware_wrapper_refuses, server_enqueue_task_no_task,
                           server_enqueue_task_rejected

\* A task that comes back has its request answered by the handler or, when
\* the client has gone, dropped.
LEMMA FinishServes ==
  ASSUME ApiInv, NEW r \in Reactors, cleanup_cancelled_task(r) \/ process_completed_task(r)
  PROVE  RS!ServiceNext
<1>i. RequestTypes
  BY Zenon DEF ApiInv, TypeOK, RequestTypes
<1>1. PICK u \in held[r] : Finish(r, u) /\ In(batch[r], u)
  BY Finishes, Zenon
<1>2. u \in Tasks /\ u \in leased
  <2>1. held \in [Reactors -> SUBSET Tasks]
    BY Zenon DEF ApiInv, TypeOK
  <2> QED
    BY <1>1, <2>1, Leased, Zenon
<1>3. PICK q \in Requests : q = treq[u]
  BY <1>2, LeasedTask, Zenon DEF ApiInv
<1>4. http[q] = "owned" /\ answer[q] = "none" /\ (u \in cancelled => q \in gone)
  BY <1>2, <1>3, LeasedTask, Zenon DEF ApiInv
<1>5. RequestState(q) = "accepted"
  <2>1. http[q] # "none"
    BY <1>4, Zenon
  <2> QED
    BY <1>4, <2>1, StateOf, Zenon
<1>6. u \in ran \/ u \in cancelled
  BY <1>1, <1>2, Zenon DEF ApiInv, BackInv, Finished
<1>7. u = Head(batch[r]) /\ UNCHANGED gone
  BY <1>1, Zenon DEF Finish
<1>8. CASE cleanup_cancelled_task(r)
  <2>1. /\ http' = [http EXCEPT ![q] = "freed"] /\ answer' = [answer EXCEPT ![q] = "dropped"]
        /\ u \in cancelled
    BY <1>3, <1>7, <1>8, Zenon DEF cleanup_cancelled_task
  <2>2. /\ http'[q] = "freed" /\ answer'[q] = "dropped"
        /\ \A x \in Requests \ {q} : http'[x] = http[x] /\ answer'[x] = answer[x]
    BY <1>i, <2>1, Zenon DEF RequestTypes
  <2>3. http'[q] # "none"
    BY <2>2, Zenon
  <2>4. RequestState(q)' = "dropped"
    BY <2>2, <2>3, StateOf, Zenon
  <2>5. RS!Moves(q, "accepted", "dropped")
    BY <1>5, <1>7, <2>2, <2>4, OneMoves, Zenon
  <2>6. RS!Drop(q)
    BY <1>4, <2>1, <2>5, Zenon DEF RS!Drop
  <2> QED
    BY <2>6, Zenon DEF RS!ServiceNext
<1>9. CASE process_completed_task(r)
  <2>1. u \notin cancelled /\ evhttp_send_reply(q, IF u \in ran THEN "served" ELSE "blank")
    BY <1>3, <1>7, <1>9, Zenon DEF process_completed_task
  <2>2. evhttp_send_reply(q, "served")
    BY <1>6, <2>1, Zenon
  <2>3. /\ http'[q] = (IF q \in gone THEN "freed" ELSE "sending") /\ answer'[q] = "served"
        /\ \A x \in Requests \ {q} : http'[x] = http[x] /\ answer'[x] = answer[x]
    BY <1>i, <2>2, Zenon DEF evhttp_send_reply, RequestTypes
  <2>4. http'[q] # "none" /\ answer'[q] \in {"refused", "busy", "served"}
    BY <2>3, Zenon
  <2>5. RequestState(q)' = "answered"
    BY <2>4, StateOf, Zenon
  <2>6. RS!Moves(q, "accepted", "answered")
    BY <1>5, <1>7, <2>3, <2>5, OneMoves, Zenon
  <2> QED
    BY <2>6, Zenon DEF RS!Answer, RS!ServiceNext
<1> QED
  BY <1>8, <1>9, Zenon

\* A client that disconnects leaves, and its request stays as it is.
LEMMA DisconnectServes ==
  ASSUME ApiInv, NEW q \in Requests, disconnect(q)
  PROVE  RS!ServiceNext
<1>i. RequestTypes
  BY Zenon DEF ApiInv, TypeOK, RequestTypes
<1>1. /\ http[q] # "none" /\ gone' = gone \cup {q} /\ UNCHANGED answer
      /\ http' = [http EXCEPT ![q] = IF http[q] = "owned" THEN http[q] ELSE "freed"]
  BY Zenon DEF disconnect
<1>2. \A x \in Requests : http'[x] = "none" <=> http[x] = "none"
  <2>1. \A x \in Requests \ {q} : http'[x] = http[x]
    BY <1>i, <1>1, Zenon DEF RequestTypes
  <2>2. http'[q] = IF http[q] = "owned" THEN http[q] ELSE "freed"
    BY <1>i, <1>1, Zenon DEF RequestTypes
  <2>3. http'[q] # "none"
    <3>1. http'[q] = http[q] \/ http'[q] = "freed"
      BY <2>2, Zenon
    <3> QED
      BY <1>1, <3>1, Zenon
  <2> QED
    BY <1>1, <2>1, <2>3, Zenon
<1>3. UNCHANGED [x \in Requests |-> RequestState(x)]
  BY <1>1, <1>2, NoneMoves, Zenon
<1>4. [x \in Requests |-> RequestState(x)][q] # "new"
  BY <1>1, StateOf, Zenon
<1>5. RS!Leave(q)
  BY <1>1, <1>3, <1>4, Zenon DEF RS!Leave
<1> QED
  BY <1>5, Zenon DEF RS!ServiceNext

\* No other step changes what a client can tell.
LEMMA OthersStutter ==
  ASSUME ApiInv, [Next]_vars,
         ~\E r \in Reactors : \/ \E q \in Requests : Arrival(r, q)
                              \/ cleanup_cancelled_task(r) \/ process_completed_task(r),
         ~\E q \in Requests : disconnect(q)
  PROVE  UNCHANGED RS!serviceVars
<1>i. RequestTypes
  BY Zenon DEF ApiInv, TypeOK, RequestTypes
<1>k. ASSUME UNCHANGED <<gone, answer>>,
             \A x \in Requests : http'[x] = "none" <=> http[x] = "none"
      PROVE  UNCHANGED RS!serviceVars
  BY <1>k, NoneMoves, Zenon DEF RS!serviceVars
<1>u. ASSUME UNCHANGED requestVars PROVE UNCHANGED RS!serviceVars
  BY <1>u, <1>k, Zenon DEF requestVars
<1>1. ASSUME NEW q \in Requests, send_done(q) PROVE UNCHANGED RS!serviceVars
  <2>1. http[q] = "sending" /\ http' = [http EXCEPT ![q] = "sent"] /\ UNCHANGED <<gone, answer>>
    BY <1>1, Zenon DEF send_done
  <2>2. \A x \in Requests : http'[x] = IF x = q THEN "sent" ELSE http[x]
    BY <1>i, <2>1, Zenon DEF RequestTypes
  <2>3. ASSUME NEW x \in Requests PROVE http'[x] = "none" <=> http[x] = "none"
    <3>1. CASE x = q
      <4>1. http'[x] = "sent" /\ http[x] = "sending"
        BY <2>1, <2>2, <3>1, Zenon
      <4> QED
        BY <4>1, Zenon
    <3>2. CASE x # q
      BY <2>2, <3>2, Zenon
    <3> QED
      BY <3>1, <3>2, Zenon
  <2> QED
    BY <1>k, <2>1, <2>3, Zenon
<1>2. ASSUME NEW r \in Reactors, reactor_thread_returns(r) PROVE UNCHANGED RS!serviceVars
  <2>1. \A x \in Requests : http'[x] = IF home[x] = r /\ http[x] = "sending"
                                       THEN "freed" ELSE http[x]
    BY <1>2, Zenon DEF reactor_thread_returns
  <2>2. \A x \in Requests : http'[x] = "none" <=> http[x] = "none"
    BY <2>1, Zenon
  <2>3. UNCHANGED <<gone, answer>>
    BY <1>2, Zenon DEF reactor_thread_returns
  <2> QED
    BY <1>k, <2>2, <2>3, Zenon
<1>3. ASSUME NEW r \in Reactors, enqueue_signal(r) \/ reactor_eventfd_read(r) \/ reactor_detach(r)
      PROVE  UNCHANGED requestVars
  BY <1>3, Zenon DEF enqueue_signal, reactor_eventfd_read, reactor_detach
<1>4. ASSUME NEW w \in Workers, Worker(w) PROVE UNCHANGED requestVars
  BY <1>4, Zenon DEF Worker, worker_idle, worker_take, worker_check, worker_process_task,
                     worker_notify, worker_wakes_reactor
<1>5. ASSUME Main PROVE UNCHANGED requestVars
  BY <1>5, Zenon DEF Main, main_stops_pools, server_drain_reactor_queues,
                     server_shutdown_workers, server_cleanup_globals
<1>6. ASSUME UNCHANGED vars PROVE UNCHANGED requestVars
  BY <1>6, Zenon DEF vars
<1> QED
  BY <1>u, <1>1, <1>2, <1>3, <1>4, <1>5, <1>6, Zenon DEF Next, Reactor

\* A request is answered at most once, with what a handler or a check of the
\* server produced, and is dropped only when its client has gone.
THEOREM ServerImplementsService == Spec => ImplementsRequestService
<1>1. Init => RS!ServiceInit
  <2> SUFFICES ASSUME Init PROVE RS!ServiceInit
    BY Zenon
  <2>1. \A q \in Requests : RequestState(q) = "new"
    BY StateOf, Zenon DEF Init
  <2> QED
    BY <2>1, Zenon DEF RS!ServiceInit, Init
<1>2. ApiInv /\ [Next]_vars => [RS!ServiceNext]_RS!serviceVars
  BY ArrivalServes, FinishServes, DisconnectServes, OthersStutter, Zenon
<1> QED
  BY <1>1, <1>2, ServerCorrect, PTL DEF Spec, ImplementsRequestService, RS!ServiceSpec

====
