---------------------------- MODULE ServerProofs ----------------------------
(***************************************************************************)
(* Proofs about what server.c sets up for all its threads.                 *)
(*                                                                         *)
(* Module Startup, for every number of reactors, every configuration file, *)
(* every environment and every failure on the way: start-up and shutdown   *)
(* keep their order, and the pools are staffed as configured.  AllOrNone   *)
(* is not inductive: why no reactor may be on its way to the barrier once  *)
(* it is open is a matter of counting, which BarrierInv does.              *)
(* PoolsStaffed needs the settings within their limits (ConfigInv), and    *)
(* the rest of StartupInv what exists at each stage (GlobalsInv).          *)
(*                                                                         *)
(* Module TaskPool, the slab that the reactors share, for any number of    *)
(* threads, any slab size and any cache size: tasks are neither lost nor   *)
(* duplicated, and clean when they are lent.                               *)
(***************************************************************************)
EXTENDS Startup, TaskPool, FiniteSetTheorems, TLAPS

----------------------------------------------------------------------------
(* Startup *)

States == {"none", "base", "socket", "http", "ready", "failed", "barrier", "leaving", "check",
           "dispatch", "loop", "returned"}
Came == {"barrier", "leaving", "check", "dispatch", "loop", "returned"}
Arrivals == {r \in Reactors : reactor[r] \in Came}
Before == {"logger", "config", "signals", "metadata", "slab", "arrays", "pools",
           "cleanup_failed", "jwt", "spawn"}

\* What the barrier's count says of the threads.
BarrierInv ==
    /\ reactor \in [Reactors -> States] /\ spawned \in 0 .. NumReactors
    /\ \A r \in Reactors : r >= spawned => reactor[r] = "none"
    /\ arrived \in Nat /\ arrived <= Cardinality(Arrivals) + 1
    /\ main \in Before => arrived <= Cardinality(Arrivals)
    /\ \A r \in Reactors : /\ reactor[r] \in {"check", "dispatch", "loop", "returned"} => Open
                           /\ reactor[r] \in {"failed", "leaving"} => g_startup_failed
                           /\ reactor[r] \in {"dispatch", "loop"} => ~g_startup_failed

\* The reactors are finitely many, and so are those that have arrived.
LEMMA ReactorsFinite ==
  /\ IsFiniteSet(Reactors) /\ Cardinality(Reactors) = NumReactors
  /\ \A S \in SUBSET Reactors : /\ IsFiniteSet(S) /\ Cardinality(S) \in Nat
                                /\ Cardinality(S) <= NumReactors
                                /\ Cardinality(S) = NumReactors => S = Reactors
<1>1. NumReactors \in Nat /\ 0 \in Int /\ NumReactors - 1 \in Int
    BY StartupConstants
<1>2. IsFiniteSet(Reactors) /\ Cardinality(Reactors) = NumReactors
    BY <1>1, FS_Interval, StartupConstants DEF Reactors
<1>3. QED
    BY <1>1, <1>2, FS_Subset, FS_CardinalityType, Zenon

\* When the barrier is open every reactor has come to it.
LEMMA OpenMeansAll == BarrierInv /\ Open => Arrivals = Reactors /\ main \notin Before
  BY ReactorsFinite, StartupConstants DEF BarrierInv, Open, BarrierSize, Arrivals

\* A reactor that comes is one more.
LEMMA OneMore ==
  ASSUME NEW S \in SUBSET Reactors, NEW r \in Reactors, r \notin S
  PROVE  Cardinality(S \cup {r}) = Cardinality(S) + 1
  BY ReactorsFinite, FS_AddElement, Zenon

\* A step of the main thread that leaves the reactors and the barrier alone.
LEMMA BarrierKept ==
  ASSUME BarrierInv, UNCHANGED <<spawned, reactorVars>>, main' \in Before => main \in Before
  PROVE  BarrierInv'
  BY Zenon DEF BarrierInv, Arrivals, Open, BarrierSize, reactorVars

\* A reactor moves from m to l without coming to the barrier, and says nothing
\* of a failure.
LEMMA BarrierPassed ==
  ASSUME BarrierInv, NEW r \in Reactors, NEW l \in States,
         reactor[r] # "none", reactor' = [reactor EXCEPT ![r] = l],
         UNCHANGED <<main, spawned, arrived, g_startup_failed>>,
         reactor[r] \in Came <=> l \in Came,
         l \in {"check", "dispatch", "loop", "returned"} => Open,
         l \in {"failed", "leaving"} => g_startup_failed,
         l \in {"dispatch", "loop"} => ~g_startup_failed
  PROVE  BarrierInv'
<1>1. Arrivals' = Arrivals
    BY Zenon DEF BarrierInv, Arrivals
<1>2. QED
    BY <1>1, Zenon DEF BarrierInv, Open, BarrierSize

\* A reactor comes to the barrier.
LEMMA BarrierReached ==
  ASSUME BarrierInv, NEW r \in Reactors, NEW l \in {"barrier", "leaving"},
         reactor[r] \in {"ready", "failed"}, reactor' = [reactor EXCEPT ![r] = l],
         UNCHANGED <<main, spawned, g_startup_failed>>, arrived' = arrived + 1,
         l = "leaving" => g_startup_failed
  PROVE  BarrierInv'
<1>1. Arrivals' = Arrivals \cup {r} /\ r \notin Arrivals /\ Arrivals \in SUBSET Reactors
    BY Zenon DEF BarrierInv, Arrivals, Came
<1>2. Cardinality(Arrivals') = Cardinality(Arrivals) + 1 /\ Cardinality(Arrivals) \in Nat
    BY <1>1, OneMore, ReactorsFinite, Zenon
<1>3. ~Open
    BY <1>1, OpenMeansAll, Zenon
<1>4. QED
    BY <1>2, <1>3 DEF BarrierInv, States, Open, BarrierSize

\* Nobody has come at the start.
LEMMA BarrierInit == Init => BarrierInv
<1> SUFFICES ASSUME Init PROVE BarrierInv
    BY Zenon
<1>1. Cardinality(Arrivals) \in Nat
    BY ReactorsFinite, Zenon DEF Arrivals
<1>2. QED
    BY <1>1, StartupConstants DEF Init, BarrierInv, Arrivals, States

\* Every step keeps the count of the barrier.
LEMMA BarrierNext == BarrierInv /\ [Next]_vars => BarrierInv'
<1> SUFFICES ASSUME BarrierInv, [Next]_vars PROVE BarrierInv'
    BY Zenon
<1>1. ASSUME \/ logger_init \/ load_configuration \/ setup_signals
             \/ init_server_metadata \/ task_pool_init \/ init_reactor_queues
             \/ worker_pool_init \/ setup_core_tracking_fails \/ jwt_init
             \/ server_did_startup_fail \/ sigwait \/ hot_reload \/ worker_pool_stop
             \/ join_reactors \/ server_start_returns
      PROVE  BarrierInv'
  <2>1. UNCHANGED <<spawned, reactorVars>>
      BY <1>1, Zenon DEF logger_init, load_configuration, setup_signals, init_server_metadata,
         task_pool_init, init_reactor_queues, worker_pool_init, setup_core_tracking_fails,
         jwt_init, server_did_startup_fail, sigwait, hot_reload, worker_pool_stop,
         join_reactors, server_start_returns, Makes
  <2>2. main' \in Before => main \in Before
      BY <1>1, Zenon DEF logger_init, load_configuration, setup_signals, init_server_metadata,
         task_pool_init, init_reactor_queues, worker_pool_init, setup_core_tracking_fails,
         jwt_init, server_did_startup_fail, sigwait, hot_reload, worker_pool_stop,
         join_reactors, server_start_returns, Makes, Main, Takes, Before
  <2>3. QED
      BY <2>1, <2>2, BarrierKept, Zenon
<1>2. CASE server_shutdown_workers
  <2>1. /\ main' \in Before => main \in Before
        /\ UNCHANGED <<spawned, reactor, arrived, g_startup_failed>>
      BY <1>2, Zenon DEF server_shutdown_workers, Main, Before
  <2>2. QED
      BY <2>1, Zenon DEF BarrierInv, Arrivals, Open, BarrierSize
<1>3. CASE spawn_worker_threads
  <2>1. CASE /\ Main("spawn", "spawn") /\ spawned < NumReactors /\ spawned' = spawned + 1
             /\ reactor' = [reactor EXCEPT ![spawned] = "base"]
             /\ UNCHANGED <<process, arrived>>
    <3>1. spawned \in Reactors /\ reactor[spawned] = "none"
        BY <2>1, StartupConstants DEF BarrierInv, Reactors
    <3>2. Arrivals' = Arrivals
        BY <2>1, <3>1, Zenon DEF BarrierInv, Arrivals, Came
    <3>3. main \in Before /\ UNCHANGED <<arrived, g_startup_failed>>
        BY <1>3, <2>1, Zenon DEF spawn_worker_threads, Main, Before
    <3>4. reactor' \in [Reactors -> States] /\ spawned' \in 0 .. NumReactors
        BY <2>1, <3>1, StartupConstants DEF BarrierInv, States
    <3>5. \A r \in Reactors : r >= spawned' => reactor'[r] = "none"
        BY <2>1, <3>1, StartupConstants DEF BarrierInv, Reactors
    <3>6. \A r \in Reactors : reactor'[r] = reactor[r] \/ reactor'[r] = "base"
        BY <2>1, Zenon DEF BarrierInv
    <3>7. QED
        BY <3>2, <3>3, <3>4, <3>5, <3>6, Zenon DEF BarrierInv, Open, BarrierSize
  <2>2. CASE /\ Main("spawn", "end") /\ UNCHANGED <<spawned, reactor, arrived>>
    <3>1. main' \notin Before /\ UNCHANGED <<spawned, reactor, arrived, g_startup_failed>>
        BY <1>3, <2>2, Zenon DEF spawn_worker_threads, Main, Before
    <3>2. QED
        BY <3>1, Zenon DEF BarrierInv, Arrivals, Open, BarrierSize
  <2>3. CASE /\ Main("spawn", "barrier") /\ arrived' = arrived + 1
             /\ UNCHANGED <<spawned, reactor, process>>
    <3>1. /\ main \in Before /\ main' \notin Before
          /\ UNCHANGED <<spawned, reactor, g_startup_failed>>
        BY <1>3, <2>3, Zenon DEF spawn_worker_threads, Main, Before
    <3>2. ~Open /\ Cardinality(Arrivals) \in Nat
        BY <3>1, OpenMeansAll, ReactorsFinite, Zenon DEF Arrivals
    <3>3. QED
        BY <2>3, <3>1, <3>2 DEF BarrierInv, Arrivals, Open, BarrierSize
  <2>4. QED
      BY <1>3, <2>1, <2>2, <2>3, Zenon DEF spawn_worker_threads
<1>4. ASSUME NEW r \in Reactors, ReactorThread(r) PROVE BarrierInv'
  <2>1. CASE create_optimized_event_base(r)
    <3>1. CASE Reactor(r, "base", "socket") /\ UNCHANGED g_startup_failed
      <4>1. UNCHANGED <<main, spawned, arrived, g_startup_failed>>
          BY <2>1, <3>1, Zenon DEF create_optimized_event_base
      <4>2. QED
          BY <3>1, <4>1, BarrierPassed, Zenon DEF Reactor, States, Came
    <3>2. CASE Reactor(r, "base", "failed") /\ g_startup_failed' = TRUE
      <4>1. UNCHANGED <<main, spawned, arrived>>
          BY <2>1, Zenon DEF create_optimized_event_base
      <4>2. r \notin Arrivals
          BY <3>2, Zenon DEF Arrivals, Came, Reactor
      <4>3. ~Open
          BY <4>2, OpenMeansAll, Zenon
      <4>4. Arrivals' = Arrivals
          BY <3>2, Zenon DEF Arrivals, Came, Reactor, BarrierInv
      <4>5. \A q \in Reactors : reactor'[q] = reactor[q] \/ reactor'[q] = "failed"
          BY <3>2, Zenon DEF Reactor, BarrierInv
      <4>6. /\ reactor' \in [Reactors -> States]
            /\ \A q \in Reactors : q >= spawned' => reactor'[q] = "none"
          BY <3>2, <4>1, Zenon DEF Reactor, BarrierInv, States
      <4>7. \A q \in Reactors : reactor'[q] \notin {"check", "dispatch", "loop", "returned"}
          BY <4>3, <4>5, Zenon DEF BarrierInv
      <4>8. g_startup_failed'
          BY <3>2, Zenon
      <4>9. QED
          BY <4>1, <4>4, <4>6, <4>7, <4>8, Zenon DEF BarrierInv
    <3>3. QED
        BY <2>1, <3>1, <3>2, Zenon DEF create_optimized_event_base
  <2>2. CASE create_and_bind_socket(r) \/ configure_http_server(r)
    <3>1. UNCHANGED <<main, spawned, arrived, g_startup_failed>>
        BY <2>2, Zenon DEF create_and_bind_socket, configure_http_server, OrFatal
    <3>2. \E l \in {"socket", "http", "ready"} :
             reactor[r] \in {"socket", "http"} /\ reactor' = [reactor EXCEPT ![r] = l]
        BY <2>2, Zenon DEF create_and_bind_socket, configure_http_server, OrFatal, Reactor
    <3>3. QED
        BY <3>1, <3>2, BarrierPassed, Zenon DEF States, Came
  <2>3. CASE barrier_wait(r)
    <3>1. UNCHANGED <<main, spawned, g_startup_failed>>
        BY <2>3, Zenon DEF barrier_wait
    <3>2. CASE Reactor(r, "ready", "barrier") /\ arrived' = arrived + 1
        BY <3>1, <3>2, BarrierReached, Zenon DEF Reactor
    <3>3. CASE Reactor(r, "failed", "leaving") /\ arrived' = arrived + 1
      <4>1. g_startup_failed
          BY <3>3, Zenon DEF BarrierInv, Reactor
      <4>2. QED
          BY <3>1, <3>3, <4>1, BarrierReached, Zenon DEF Reactor
    <3>4. CASE Reactor(r, "barrier", "check") /\ Open /\ UNCHANGED arrived
        BY <3>1, <3>4, BarrierPassed, Zenon DEF Reactor, States, Came
    <3>5. CASE Reactor(r, "leaving", "returned") /\ Open /\ UNCHANGED arrived
        BY <3>1, <3>5, BarrierPassed, Zenon DEF Reactor, States, Came
    <3>6. QED
        BY <2>3, <3>2, <3>3, <3>4, <3>5, Zenon DEF barrier_wait
  <2>4. CASE check_startup_failed(r)
    <3>0. \/ Reactor(r, "check", "returned")
          \/ Reactor(r, "check", "dispatch") /\ ~g_startup_failed
        BY <2>4, Zenon DEF check_startup_failed
    <3>1. UNCHANGED <<main, spawned, arrived, g_startup_failed>>
        BY <2>4, Zenon DEF check_startup_failed
    <3>2. Open
        BY <3>0, Zenon DEF BarrierInv, Reactor
    <3>3. CASE Reactor(r, "check", "returned")
        BY <3>1, <3>2, <3>3, BarrierPassed, Zenon DEF Reactor, States, Came
    <3>4. CASE Reactor(r, "check", "dispatch") /\ ~g_startup_failed
        BY <3>1, <3>2, <3>4, BarrierPassed, Zenon DEF Reactor, States, Came
    <3>5. QED
        BY <3>0, <3>3, <3>4, Zenon
  <2>5. CASE event_base_dispatch(r)
    <3>1. UNCHANGED <<main, spawned, arrived, g_startup_failed>> /\ Reactor(r, "dispatch", "loop")
        BY <2>5, Zenon DEF event_base_dispatch
    <3>2. Open /\ ~g_startup_failed
        BY <3>1, Zenon DEF BarrierInv, Reactor
    <3>3. QED
        BY <3>1, <3>2, BarrierPassed, Zenon DEF Reactor, States, Came
  <2>6. CASE reactor_returns(r)
    <3>1. UNCHANGED <<main, spawned, arrived, g_startup_failed>> /\ Reactor(r, "loop", "returned")
        BY <2>6, Zenon DEF reactor_returns
    <3>2. Open
        BY <3>1, Zenon DEF BarrierInv, Reactor
    <3>3. QED
        BY <3>1, <3>2, BarrierPassed, Zenon DEF Reactor, States, Came
  <2>7. QED
      BY <1>4, <2>1, <2>2, <2>3, <2>4, <2>5, <2>6, Zenon DEF ReactorThread
<1>5. ASSUME NEW s \in {"SIGHUP", "SIGTERM"}, kill(s) PROVE BarrierInv'
  <2>1. UNCHANGED <<spawned, reactorVars>> /\ (main' \in Before => main \in Before)
      BY <1>5, Zenon DEF kill, Takes, Before
  <2>2. QED
      BY <2>1, BarrierKept, Zenon
<1>6. CASE operator_edits
  <2>1. UNCHANGED <<spawned, reactorVars, main>>
      BY <1>6, Zenon DEF operator_edits
  <2>2. QED
      BY <2>1, BarrierKept, Zenon
<1>7. CASE UNCHANGED vars
  <2>1. UNCHANGED <<spawned, reactorVars, main>>
      BY <1>7, Zenon DEF vars
  <2>2. QED
      BY <2>1, BarrierKept, Zenon
<1>8. QED
    BY <1>1, <1>2, <1>3, <1>4, <1>5, <1>6, <1>7, Zenon DEF Next, MainThread

\* One serves only when every other has made its base, its socket and its HTTP
\* server.
LEMMA TogetherOrNot == BarrierInv => AllOrNone
<1> SUFFICES ASSUME BarrierInv, NEW r \in Reactors, reactor[r] \in {"dispatch", "loop"}
             PROVE  /\ ~g_startup_failed
                    /\ \A q \in Reactors : reactor[q] \in {"barrier", "check", "dispatch", "loop",
                                                           "returned"}
    BY Zenon DEF AllOrNone
<1>1. ~g_startup_failed /\ Open
    BY Zenon DEF BarrierInv
<1>2. Arrivals = Reactors
    BY <1>1, OpenMeansAll, Zenon
<1>3. QED
    BY <1>1, <1>2, Zenon DEF BarrierInv, Arrivals, Came

----------------------------------------------------------------------------
(* The configuration and the pools *)

\* Of n workers each pool gets at least one, and together they get all n.
LEMMA SplitIsWhole ==
  ASSUME NEW n \in Nat \ {0}, NEW pct \in 0 .. 100
  PROVE  /\ fast_workers(n, pct) \in Nat \ {0} /\ slow_workers(n, pct) \in Nat \ {0}
         /\ fast_workers(n, pct) + slow_workers(n, pct) = IF n = 1 THEN 2 ELSE n
<1>1. n * pct \in 0 .. n * 100
    OBVIOUS
<1>2. (n * pct) \div 100 \in 0 .. n
    BY <1>1
<1>3. QED
    BY <1>2 DEF fast_workers, slow_workers

NoWorkers == [p \in Pools |-> 0]
Split == LET n == bg_workers_count(conf, NumReactors)
             pct == conf.fast_pool_percentage
         IN [fast |-> fast_workers(n, pct), slow |-> slow_workers(n, pct)]

\* The settings again, field by field.
Record(c) == [num_threads |-> c.num_threads, max_queue_size |-> c.max_queue_size,
              fast_pool_percentage |-> c.fast_pool_percentage,
              jwt_timeout_seconds |-> c.jwt_timeout_seconds, jwt_secret |-> c.jwt_secret,
              access_log |-> c.access_log]

\* The settings are within their limits, and the pools are those they ask for.
ConfigInv ==
    /\ conf = Record(conf)
    /\ conf.num_threads \in Nat /\ conf.max_queue_size \in Nat
    /\ conf.fast_pool_percentage \in 0 .. 100
    /\ num_workers = NoWorkers \/ num_workers = Split
    /\ is_first_load => /\ env \in Envs /\ file \in Files /\ num_workers = NoWorkers
                        /\ main \in {"logger", "config", "end"}
    /\ SecretsScrubbed

\* The defaults are within the limits.
LEMMA ConfigInvInit == Init => ConfigInv
<1> SUFFICES ASSUME Init PROVE ConfigInv
    BY Zenon
<1>1. /\ conf = Record(conf) /\ conf.num_threads \in Nat /\ conf.max_queue_size \in Nat
      /\ conf.fast_pool_percentage \in 0 .. 100
    <2>1. conf = Record(conf)
        BY SMT DEF Init, ConfigInit, Record
    <2>2. /\ conf.num_threads \in Nat /\ conf.max_queue_size \in Nat
          /\ conf.fast_pool_percentage \in 0 .. 100
        BY SMT DEF Init, ConfigInit
    <2>3. QED
        BY <2>1, <2>2, Zenon
<1>2. is_first_load /\ env \in Envs /\ file \in Files /\ num_workers = NoWorkers /\ main = "logger"
    <2>1. ConfigInit
        BY Zenon DEF Init
    <2>2. is_first_load = TRUE /\ env \in Envs /\ file \in Files
        BY <2>1, SMT DEF ConfigInit
    <2>3. num_workers = NoWorkers /\ main = "logger"
        BY Zenon DEF Init, NoWorkers
    <2>4. QED
        BY <2>2, <2>3, Zenon
<1>3. QED
    BY <1>1, <1>2 DEF ConfigInv, SecretsScrubbed

\* A step that leaves the configuration alone and the pools, or ends them.
LEMMA ConfigKept ==
  ASSUME ConfigInv, UNCHANGED configVars, num_workers' \in {num_workers, NoWorkers},
         main \in {"logger", "config", "end"} => main' \in {"logger", "config", "end"}
  PROVE  ConfigInv'
  BY Zenon DEF ConfigInv, configVars, SecretsScrubbed, NoWorkers, Split, bg_workers_count, Record

\* Every step keeps the settings within their limits and the pools as configured.
LEMMA ConfigInvNext == ConfigInv /\ [Next]_vars => ConfigInv'
<1> SUFFICES ASSUME ConfigInv, [Next]_vars PROVE ConfigInv'
    BY Zenon
<1>1. CASE load_configuration
  <2>1. CASE Main("config", "signals") /\ config_init
    <3>1. is_first_load /\ env \in Envs /\ file \in Files
        BY <2>1, Zenon DEF config_init, ConfigInv
    <3>2. \A k \in Numbers : \/ load_env_file(env)[k] \in {Absent, Malformed}
                             \/ load_env_file(env)[k] \in Int
      <4> TAKE k \in Numbers
      <4>1. CASE file = NoFile
          BY <3>1, <4>1, ConfigConstants, Zenon DEF load_env_file
      <4>2. CASE file # NoFile
        <5>1. file[k] \in {Absent, Malformed} \/ file[k] \in Int
            BY <3>1, <4>2, ConfigConstants, Zenon
        <5>2. env[k] \in {Absent, Malformed} \/ env[k] \in Int
            BY <3>1, ConfigConstants, Zenon
        <5>3. load_env_file(env)[k] = IF file[k] = Absent THEN env[k] ELSE file[k]
            BY <4>2, Zenon DEF load_env_file, Keys
        <5>4. QED
            BY <5>1, <5>2, <5>3, Zenon
      <4>3. QED
          BY <4>1, <4>2, Zenon
    <3>3. conf' = apply_config_vars(load_env_file(env))
        BY <2>1 DEF config_init
    <3>4. /\ conf'.num_threads = safe_strtoul_env(load_env_file(env)["NUM_THREADS"], 0, 1024)
          /\ conf'.max_queue_size
               = safe_strtoul_env(load_env_file(env)["MAX_QUEUE_SIZE"], 10000, 1000000)
          /\ conf'.fast_pool_percentage
               = safe_strtoul_env(load_env_file(env)["FAST_POOL_PERCENTAGE"], 25, 100)
        BY <3>3 DEF apply_config_vars
    <3>5. /\ conf'.num_threads \in Nat /\ conf'.max_queue_size \in Nat
          /\ conf'.fast_pool_percentage \in 0 .. 100
      <4> DEFINE t == load_env_file(env)
      <4> HIDE DEF t
      <4>1. \A k \in {"NUM_THREADS", "MAX_QUEUE_SIZE", "FAST_POOL_PERCENTAGE"} :
               t[k] \in {Absent, Malformed} \/ t[k] % ULONG \in Nat
        <5>1. \A v \in Int : v % ULONG \in Nat
            BY ConfigConstants, SMTT(20)
        <5>2. QED
            BY <3>2, <5>1 DEF Numbers, t
      <4>2. safe_strtoul_env(t["NUM_THREADS"], 0, 1024) \in 0 .. 1024
        <5> DEFINE v == t["NUM_THREADS"]
        <5>1. v \in {Absent, Malformed} \/ v % ULONG \in Nat
          BY <4>1, Zenon
        <5> HIDE DEF v
        <5>2. safe_strtoul_env(v, 0, 1024) \in 0 .. 1024
          BY <5>1, SMT DEF safe_strtoul_env
        <5> QED
          BY <5>2, SMT DEF v
      <4>3. safe_strtoul_env(t["MAX_QUEUE_SIZE"], 10000, 1000000) \in Nat
        <5> DEFINE v == t["MAX_QUEUE_SIZE"]
        <5>1. v \in {Absent, Malformed} \/ v % ULONG \in Nat
          BY <4>1, Zenon
        <5> HIDE DEF v
        <5>2. safe_strtoul_env(v, 10000, 1000000) \in Nat
          BY <5>1, SMT DEF safe_strtoul_env
        <5>3. QED
          BY <5>2 DEF v
      <4>4. safe_strtoul_env(t["FAST_POOL_PERCENTAGE"], 25, 100) \in 0 .. 100
        <5> DEFINE v == t["FAST_POOL_PERCENTAGE"]
        <5>1. v \in {Absent, Malformed} \/ v % ULONG \in Nat
          BY <4>1, Zenon
        <5> HIDE DEF v
        <5>2. safe_strtoul_env(v, 25, 100) \in 0 .. 100
          BY <5>1, SMT DEF safe_strtoul_env
        <5>3. QED
          BY <5>2 DEF v
      <4>5. QED
        <5>1. conf'.num_threads \in Nat
            BY <3>4, <4>2, SMTT(20) DEF t
        <5>2. conf'.max_queue_size \in Nat
            BY <3>4, <4>3, SMT DEF t
        <5>3. conf'.fast_pool_percentage \in 0 .. 100
            BY <3>4, <4>4 DEF t
        <5>4. QED
            BY <5>1, <5>2, <5>3, Zenon
    <3>6. \A k \in Secrets : env'[k] = Absent
        BY <2>1 DEF config_init, scrub_env_vars, Secrets, Keys
    <3>7. ~is_first_load' /\ num_workers' = NoWorkers
        BY <1>1, <2>1, <3>1 DEF config_init, load_configuration, ConfigInv, globals, NoWorkers
    <3>8. conf' = Record(conf')
        BY <3>3, SMT DEF apply_config_vars, Record
    <3>9. NoWorkers' = NoWorkers /\ SecretsScrubbed'
        BY <3>6, Zenon DEF NoWorkers, SecretsScrubbed
    <3>10. QED
        BY <3>5, <3>7, <3>8, <3>9, Zenon DEF ConfigInv
  <2>2. CASE Main("config", "end") /\ UNCHANGED configVars
    <3>1. num_workers' = num_workers /\ main' = "end"
        BY <1>1, <2>2 DEF load_configuration, globals, Main
    <3>2. QED
        BY <2>2, <3>1, ConfigKept
  <2>3. QED
      BY <1>1, <2>1, <2>2, Zenon DEF load_configuration
<1>2. CASE hot_reload
  <2>1. \E a : conf' = conf \/ conf' = [conf EXCEPT !.access_log = a]
    <3>1. \/ conf' = conf
          \/ conf' = [conf EXCEPT !.access_log = parse_boolean_env(file["ACCESS_LOG"])]
        BY <1>2, Zenon DEF hot_reload, config_reload
    <3>2. QED
        BY <3>1, Zenon
  <2>2. ~is_first_load /\ ~is_first_load' /\ UNCHANGED <<env, num_workers>>
      BY <1>2, Zenon DEF hot_reload, config_reload, globals
  <2>3. /\ conf'.num_threads = conf.num_threads /\ conf'.max_queue_size = conf.max_queue_size
        /\ conf'.fast_pool_percentage = conf.fast_pool_percentage
        /\ conf' = Record(conf')
      BY <2>1, Zenon DEF ConfigInv, Record
  <2>4. Split' = Split /\ NoWorkers' = NoWorkers /\ SecretsScrubbed'
      BY <2>2, <2>3, Zenon DEF Split, bg_workers_count, NoWorkers, SecretsScrubbed, ConfigInv
  <2>5. QED
      BY <2>2, <2>3, <2>4, Zenon DEF ConfigInv
<1>3. CASE operator_edits
  <2>1. ~is_first_load /\ UNCHANGED <<conf, env, is_first_load, num_workers>>
      BY <1>3, Zenon DEF operator_edits, edit_file, globals, ConfigInv
  <2>2. QED
      BY <2>1, Zenon DEF ConfigInv, SecretsScrubbed, Split, bg_workers_count, NoWorkers, Record
<1>4. CASE worker_pool_init
  <2>1. UNCHANGED configVars /\ (num_workers' = num_workers \/ num_workers' = Split)
      BY <1>4, Zenon DEF worker_pool_init, Split
  <2>2. main = "pools"
      BY <1>4, Zenon DEF worker_pool_init, Main
  <2>3. QED
      BY <2>1, <2>2, Zenon DEF ConfigInv, configVars, SecretsScrubbed, Split, bg_workers_count, NoWorkers, Record
<1>5. ASSUME \/ logger_init \/ setup_signals \/ init_server_metadata \/ task_pool_init
             \/ init_reactor_queues \/ setup_core_tracking_fails \/ jwt_init
             \/ spawn_worker_threads \/ server_did_startup_fail \/ sigwait \/ worker_pool_stop
             \/ server_shutdown_workers \/ join_reactors \/ server_start_returns
             \/ (\E s \in {"SIGHUP", "SIGTERM"} : kill(s))
      PROVE  ConfigInv'
  <2>1. UNCHANGED configVars /\ num_workers' \in {num_workers, NoWorkers}
      BY <1>5, Zenon DEF logger_init, setup_signals, init_server_metadata, task_pool_init,
         init_reactor_queues, setup_core_tracking_fails, jwt_init, spawn_worker_threads,
         server_did_startup_fail, sigwait, worker_pool_stop, server_shutdown_workers,
         join_reactors, server_start_returns, kill, Makes, server_cleanup_globals, globals, NoWorkers
  <2>2. main \in {"logger", "config", "end"} => main' \in {"logger", "config", "end"}
      BY <1>5, Zenon DEF logger_init, setup_signals, init_server_metadata, task_pool_init,
         init_reactor_queues, setup_core_tracking_fails, jwt_init, spawn_worker_threads,
         server_did_startup_fail, sigwait, worker_pool_stop, server_shutdown_workers,
         join_reactors, server_start_returns, kill, Makes, Main
  <2>3. QED
      BY <2>1, <2>2, ConfigKept, Zenon
<1>6. ASSUME \/ \E r \in Reactors : ReactorThread(r)
             \/ UNCHANGED vars
      PROVE  ConfigInv'
  <2>1. UNCHANGED <<configVars, main, num_workers>>
      BY <1>6, Zenon DEF ReactorThread, create_optimized_event_base, create_and_bind_socket,
         configure_http_server, OrFatal, barrier_wait, check_startup_failed,
         event_base_dispatch, reactor_returns, globals, vars
  <2>2. QED
      BY <2>1, ConfigKept, Zenon
<1>7. QED
    BY <1>1, <1>2, <1>3, <1>4, <1>5, <1>6, Zenon DEF Next, MainThread

\* The pools that exist have workers, as many as were asked for.
LEMMA PoolSizes ==
  ASSUME ConfigInv, num_workers # NoWorkers
  PROVE  LET n == bg_workers_count(conf, NumReactors)
         IN /\ n \in Nat \ {0}
            /\ num_workers["fast"] \in Nat \ {0} /\ num_workers["slow"] \in Nat \ {0}
            /\ num_workers["fast"] + num_workers["slow"] = IF n = 1 THEN 2 ELSE n
<1> DEFINE n == bg_workers_count(conf, NumReactors)
<1>1. n \in Nat \ {0}
    BY StartupConstants DEF ConfigInv, bg_workers_count
<1>2. num_workers = [fast |-> fast_workers(n, conf.fast_pool_percentage),
                     slow |-> slow_workers(n, conf.fast_pool_percentage)]
    BY Zenon DEF ConfigInv, Split
<1>3. conf.fast_pool_percentage \in 0 .. 100
    BY Zenon DEF ConfigInv
<1> HIDE DEF n
<1>4. LET f == fast_workers(n, conf.fast_pool_percentage)
          s == slow_workers(n, conf.fast_pool_percentage)
      IN f \in Nat \ {0} /\ s \in Nat \ {0} /\ f + s = IF n = 1 THEN 2 ELSE n
    BY <1>1, <1>3, SplitIsWhole, Zenon
<1>5. QED
    BY <1>1, <1>2, <1>4, Zenon DEF n

\* Whatever the files, the environments and the number of cores (config.c and
\* worker_pool_init): both pools have workers, as many as were asked for, and
\* the slab of tasks covers the queues, the workers and the reactors' caches.
THEOREM PoolsAlwaysStaffed == Spec => []PoolsStaffed
<1>1. ConfigInv => PoolsStaffed
  <2> SUFFICES ASSUME ConfigInv, num_workers # NoWorkers PROVE PoolsStaffed
      BY Zenon DEF PoolsStaffed, NoWorkers
  <2> DEFINE n == bg_workers_count(conf, NumReactors)
  <2>1. /\ n \in Nat \ {0}
        /\ num_workers["fast"] \in Nat \ {0} /\ num_workers["slow"] \in Nat \ {0}
        /\ num_workers["fast"] + num_workers["slow"] = IF n = 1 THEN 2 ELSE n
      BY PoolSizes
  <2> HIDE DEF n
  <2>2. /\ safe_q_size(conf) \in Nat /\ safe_q_size(conf) >= conf.max_queue_size
        /\ conf.max_queue_size \in Nat
      BY SMT DEF ConfigInv, safe_q_size
  <2>3. slab_size(conf, NumReactors) = safe_q_size(conf) * 2 + n + 10000
      BY SMT DEF slab_size, n
  <2>4. slab_size(conf, NumReactors) >= 2 * conf.max_queue_size + num_workers["fast"]
                                        + num_workers["slow"] + 64 * NumReactors
      BY <2>1, <2>2, <2>3, StartupConstants, SMT
  <2>5. QED
      BY <2>1, <2>4 DEF PoolsStaffed, Pools, n
<1>2. QED
    BY <1>1, ConfigInvInit, ConfigInvNext, PTL DEF Spec

----------------------------------------------------------------------------
(* The global structures *)

All == Resources \ {"bases"}
Empty == {"logger", "config", "signals", "metadata"}
Whole == {"jwt", "spawn", "barrier", "sigwait", "reload", "stop", "break", "join", "cleanup"}

\* What exists at each stage; a base that is freed and still published belongs
\* to a loop that the main thread has already told to stop.
GlobalsInv ==
    /\ main \in Empty => made = {}
    /\ main = "slab" => made = {"libraries"}
    /\ main = "arrays" => made = {"libraries", "slab"}
    /\ main = "pools" => made = All \ {"pools"}
    /\ main = "cleanup_failed" => \/ {"eventfds", "barrier"} \subseteq made
                                  \/ "eventfds" \notin made /\ "barrier" \notin made
    /\ main \in Whole => made = All
    /\ main \in Before \ {"jwt", "spawn"} => num_workers = NoWorkers /\ spawned = 0
    /\ main = "cleanup" => \A r \in Reactors : reactor[r] = "returned"
    /\ misfreed # {} => misfreed = {"eventfds", "barrier"} /\ exit = "failure"
    /\ broken \in 0 .. NumReactors /\ g_reactor_bases \subseteq Reactors
    /\ \A r \in event_break \cup (g_reactor_bases \ base) : r \in Reactors /\ r < broken
    /\ UsedIsMade

\* Nothing exists at the start.
LEMMA GlobalsInit == Init => GlobalsInv
<1> SUFFICES ASSUME Init PROVE GlobalsInv
    BY Zenon
<1>1. UsedIsMade
    BY Zenon DEF Init, UsedIsMade, Pools
<1>2. broken \in 0 .. NumReactors
    BY StartupConstants DEF Init
<1>3. QED
    BY <1>1, <1>2, Zenon DEF Init, GlobalsInv, Empty, Whole, NoWorkers

\* A step that makes nothing, frees nothing and moves no reactor.
LEMMA GlobalsKept ==
  ASSUME GlobalsInv, Running, UNCHANGED <<globals, spawned, reactorVars, broken>>,
         main' = main \/ main' \notin {"slab", "arrays", "pools", "cleanup_failed"},
         main' \in Empty => main \in Empty, main' \in Whole => main \in Whole,
         main' \in Before \ {"jwt", "spawn"} => main \in Before \ {"jwt", "spawn"},
         main' = "cleanup" => main = "cleanup" \/ \A r \in Reactors : reactor[r] = "returned"
  PROVE  GlobalsInv'
<1>1. UsedIsMade'
    BY Zenon DEF GlobalsInv, UsedIsMade, globals, reactorVars
<1>2. misfreed = {}
    BY Zenon DEF GlobalsInv, Running
<1>3. QED
    BY <1>1, <1>2, Zenon DEF GlobalsInv, globals, reactorVars, NoWorkers

\* A reactor's step: it frees its base only when it was told to stop, or takes
\* it back.
LEMMA GlobalsOfReactor ==
  ASSUME GlobalsInv, BarrierInv, NEW r \in Reactors, ReactorThread(r)
  PROVE  GlobalsInv'
<1>1. /\ Running /\ UNCHANGED <<main, globals, spawned, broken>>
      /\ reactor[r] \notin {"none", "returned"}
    BY Zenon DEF ReactorThread, create_optimized_event_base, create_and_bind_socket,
       configure_http_server, OrFatal, barrier_wait, check_startup_failed,
       event_base_dispatch, reactor_returns, Reactor
<1>2. made = All /\ main # "cleanup" /\ misfreed = {}
    BY <1>1, Zenon DEF GlobalsInv, UsedIsMade, All, Running
<1>3. /\ g_reactor_bases' \subseteq Reactors
      /\ \A q \in event_break' \cup (g_reactor_bases' \ base') : q \in Reactors /\ q < broken
    BY Zenon DEF ReactorThread, create_optimized_event_base, create_and_bind_socket,
       configure_http_server, OrFatal, barrier_wait, check_startup_failed,
       event_base_dispatch, reactor_returns, Reactor, GlobalsInv
<1>4. UsedIsMade'
    BY <1>1, <1>2, Zenon DEF UsedIsMade, All, globals
<1>5. QED
    BY <1>1, <1>2, <1>3, <1>4, Zenon DEF GlobalsInv, globals, NoWorkers

\* Every step keeps what exists at each stage.
LEMMA GlobalsNext == BarrierInv /\ GlobalsInv /\ [Next]_vars => GlobalsInv'
<1> SUFFICES ASSUME BarrierInv, GlobalsInv, [Next]_vars PROVE GlobalsInv'
    BY Zenon
<1>1. ASSUME \/ logger_init \/ load_configuration \/ setup_signals \/ jwt_init
             \/ server_did_startup_fail \/ sigwait \/ hot_reload \/ join_reactors
             \/ operator_edits \/ (\E s \in {"SIGHUP", "SIGTERM"} : kill(s))
      PROVE  GlobalsInv'
  <2>1. Running /\ UNCHANGED <<globals, spawned, reactorVars, broken>>
      BY <1>1, Zenon DEF logger_init, load_configuration, setup_signals, jwt_init,
         server_did_startup_fail, sigwait, hot_reload, join_reactors, operator_edits, kill, Main
  <2>2. /\ main' = main \/ main' \notin {"slab", "arrays", "pools", "cleanup_failed"}
        /\ main' \in Empty => main \in Empty
        /\ main' \in Whole => main \in Whole
        /\ main' \in Before \ {"jwt", "spawn"} => main \in Before \ {"jwt", "spawn"}
        /\ main' = "cleanup" => main = "cleanup" \/ \A r \in Reactors : reactor[r] = "returned"
      BY <1>1, Zenon DEF logger_init, load_configuration, setup_signals, jwt_init,
         server_did_startup_fail, sigwait, hot_reload, join_reactors, operator_edits, kill, Main,
         Takes, Empty, Whole, Before
  <2>3. QED
      BY <2>1, <2>2, GlobalsKept, Zenon
<1>2. CASE init_server_metadata \/ task_pool_init \/ init_reactor_queues
  <2>1. /\ Running /\ main \in {"metadata", "slab", "arrays"} /\ num_workers = NoWorkers
        /\ spawned = 0 /\ UNCHANGED <<misfreed, num_workers, spawned, reactorVars, broken>>
      BY <1>2, Zenon DEF init_server_metadata, task_pool_init, init_reactor_queues, Makes, Main,
         GlobalsInv, Empty, Before
  <2>2. \/ main = "metadata" /\ main' = "slab" /\ made' = made \cup {"libraries"}
        \/ main = "slab" /\ main' = "arrays" /\ made' = made \cup {"slab"}
        \/ /\ main = "arrays" /\ main' = "pools"
           /\ made' = made \cup Arrays \cup {"eventfds", "barrier"}
        \/ /\ main = "arrays" /\ main' = "cleanup_failed"
           /\ \E as \in SUBSET Arrays : made' = made \cup as
        \/ main' = "end" /\ made' = made
      BY <1>2, Zenon DEF init_server_metadata, task_pool_init, init_reactor_queues, Makes, Main
  <2>3. \A r \in Reactors : reactor'[r] = "none"
      BY <2>1, StartupConstants DEF BarrierInv, Reactors, reactorVars
  <2>4. UsedIsMade'
      BY <2>1, <2>3, Zenon DEF UsedIsMade, NoWorkers
  <2>5. misfreed' = {}
      BY <2>1, Zenon DEF GlobalsInv, Running
  <2>6. /\ main' = "slab" => made' = {"libraries"}
        /\ main' = "arrays" => made' = {"libraries", "slab"}
        /\ main' = "pools" => made' = All \ {"pools"}
        /\ main' = "cleanup_failed" => "eventfds" \notin made' /\ "barrier" \notin made'
        /\ main' \in {"slab", "arrays", "pools", "cleanup_failed", "end"}
      BY <2>1, <2>2, Zenon DEF GlobalsInv, All, Resources, Arrays, Empty
  <2>7. /\ broken' \in 0 .. NumReactors /\ g_reactor_bases' \subseteq Reactors
        /\ \A r \in event_break' \cup (g_reactor_bases' \ base') : r \in Reactors /\ r < broken'
      BY <2>1, Zenon DEF GlobalsInv, reactorVars
  <2>8. num_workers' = NoWorkers' /\ spawned' = 0
      BY <2>1, Zenon DEF NoWorkers
  <2>9. QED
      BY <2>4, <2>5, <2>6, <2>7, <2>8, Zenon DEF GlobalsInv, Empty, Whole, Before
<1>3. CASE worker_pool_init
  <2>1. /\ Running /\ main = "pools" /\ UNCHANGED <<misfreed, spawned, reactorVars, broken>>
        /\ \/ main' = "jwt" /\ made' = made \cup {"pools"}
           \/ main' \in {"cleanup_failed", "end"} /\ UNCHANGED <<made, num_workers>>
      BY <1>3, Zenon DEF worker_pool_init, Main
  <2>2. made = All \ {"pools"} /\ misfreed' = {} /\ num_workers = NoWorkers /\ spawned = 0
      BY <2>1, Zenon DEF GlobalsInv, Running, Before
  <2>3. main' = "jwt" => made' = All
      BY <2>1, <2>2, Zenon DEF All, Resources
  <2>4. UsedIsMade'
    <3>1. main' # "jwt" => UsedIsMade'
        BY <2>1, Zenon DEF GlobalsInv, UsedIsMade, reactorVars
    <3>2. QED
        BY <2>3, <3>1, Zenon DEF UsedIsMade, All
  <2>5. main' # "jwt" => {"eventfds", "barrier"} \subseteq made'
      BY <2>1, <2>2, Zenon DEF All, Resources
  <2>6. /\ broken' \in 0 .. NumReactors /\ g_reactor_bases' \subseteq Reactors
        /\ \A r \in event_break' \cup (g_reactor_bases' \ base') : r \in Reactors /\ r < broken'
      BY <2>1, Zenon DEF GlobalsInv, reactorVars
  <2>7. QED
      BY <2>1, <2>2, <2>3, <2>4, <2>5, <2>6, Zenon DEF GlobalsInv, Empty, Whole, Before, NoWorkers
<1>4. CASE setup_core_tracking_fails \/ server_start_returns
  <2>1. /\ Running /\ main' = "end" /\ made' = {} /\ num_workers' = NoWorkers
        /\ misfreed' = misfreed \cup (Released \ made) /\ UNCHANGED <<spawned, reactorVars, broken>>
        /\ \/ main = "cleanup_failed" /\ exit' = "failure"
           \/ main = "cleanup"
      BY <1>4, Zenon DEF setup_core_tracking_fails, server_start_returns, server_cleanup_globals, Main,
         LOG_FATAL, NoWorkers
  <2>2. misfreed = {}
      BY <2>1, Zenon DEF GlobalsInv, Running
  <2>3. misfreed' # {} => misfreed' = {"eventfds", "barrier"} /\ exit' = "failure"
      BY <2>1, <2>2, Zenon DEF GlobalsInv, Released, Whole, All, Resources
  <2>4. \A r \in Reactors : reactor'[r] \in {"none", "returned"}
      BY <2>1, StartupConstants DEF GlobalsInv, BarrierInv, Before, Reactors, reactorVars
  <2>5. UsedIsMade'
      BY <2>1, <2>4, Zenon DEF UsedIsMade, NoWorkers
  <2>6. /\ broken' \in 0 .. NumReactors /\ g_reactor_bases' \subseteq Reactors
        /\ \A r \in event_break' \cup (g_reactor_bases' \ base') : r \in Reactors /\ r < broken'
      BY <2>1, Zenon DEF GlobalsInv, reactorVars
  <2>7. QED
      BY <2>1, <2>3, <2>5, <2>6, Zenon DEF GlobalsInv, Empty, Whole, Before
<1>5. CASE spawn_worker_threads \/ worker_pool_stop
  <2>1. /\ Running /\ main \in {"spawn", "stop"} /\ main' \in {"spawn", "end", "barrier", "break"}
        /\ UNCHANGED <<made, misfreed, broken, base, g_reactor_bases, event_break>>
      BY <1>5, Zenon DEF spawn_worker_threads, worker_pool_stop, Main, globals, reactorVars
  <2>2. made = All /\ misfreed = {}
      BY <2>1, Zenon DEF GlobalsInv, Whole, Running
  <2>3. UsedIsMade'
      BY <2>1, <2>2, Zenon DEF UsedIsMade, All
  <2>4. QED
      BY <2>1, <2>2, <2>3, Zenon DEF GlobalsInv, Empty, Whole, Before
<1>6. CASE server_shutdown_workers
  <2>1. /\ Running /\ main = "break" /\ main' \in {"break", "join"}
        /\ UNCHANGED <<made, base, g_reactor_bases>>
      BY <1>6, Zenon DEF server_shutdown_workers, Main
  <2>2. made = All /\ misfreed = {}
      BY <2>1, Zenon DEF GlobalsInv, Whole, Running
  <2>3. broken \notin g_reactor_bases \ base
      BY StartupConstants DEF GlobalsInv, Reactors
  <2>4. misfreed' = {}
      BY <1>6, <2>2, <2>3, Zenon DEF server_shutdown_workers
  <2>5. /\ broken' \in 0 .. NumReactors /\ broken' >= broken
        /\ \A r \in event_break' : r \in event_break \/ (r \in g_reactor_bases /\ r < broken')
      BY <1>6, StartupConstants DEF server_shutdown_workers, GlobalsInv
  <2>6. \A r \in event_break' \cup (g_reactor_bases' \ base') : r \in Reactors /\ r < broken'
    <3>1. \A r \in event_break \cup (g_reactor_bases \ base) : r \in Reactors /\ r < broken'
        BY <2>5, StartupConstants DEF GlobalsInv, Reactors
    <3>2. g_reactor_bases \subseteq Reactors
        BY Zenon DEF GlobalsInv
    <3>3. QED
        BY <2>1, <2>5, <3>1, <3>2, Zenon
  <2>7. UsedIsMade'
      BY <2>1, <2>2, Zenon DEF UsedIsMade, All
  <2>8. QED
      BY <2>1, <2>2, <2>4, <2>5, <2>6, <2>7, Zenon DEF GlobalsInv, Empty, Whole, Before
<1>7. ASSUME NEW r \in Reactors, ReactorThread(r) PROVE GlobalsInv'
    BY <1>7, GlobalsOfReactor, Zenon
<1>8. CASE UNCHANGED vars
    BY <1>8 DEF vars, GlobalsInv, globals, process, reactorVars, NoWorkers, UsedIsMade
<1>9. QED
    BY <1>1, <1>2, <1>3, <1>4, <1>5, <1>6, <1>7, <1>8, Zenon DEF Next, MainThread

\* The rest of the types.
Typed == /\ main \in Empty \cup Whole \cup {"slab", "arrays", "pools", "cleanup_failed", "end"}
         /\ exit \in {"no", "success", "failure", "killed"}
         /\ logger \in BOOLEAN /\ g_startup_failed \in BOOLEAN
         /\ pending \subseteq {"SIGHUP", "SIGTERM"} /\ made \subseteq Resources
         /\ base \subseteq Reactors /\ lost \subseteq Reactors

\* Every step keeps the types.
LEMMA TypedNext == GlobalsInv /\ Typed /\ [Next]_vars => Typed'
<1> SUFFICES ASSUME GlobalsInv, Typed, [Next]_vars PROVE Typed'
    BY Zenon
<1>1. CASE \/ logger_init \/ load_configuration \/ setup_signals \/ init_server_metadata
           \/ task_pool_init \/ init_reactor_queues \/ worker_pool_init
           \/ setup_core_tracking_fails \/ jwt_init \/ server_did_startup_fail \/ sigwait
           \/ hot_reload \/ worker_pool_stop \/ join_reactors \/ server_start_returns
           \/ (\E s \in {"SIGHUP", "SIGTERM"} : kill(s)) \/ operator_edits
  <2> USE DEF logger_init, load_configuration, setup_signals, init_server_metadata, task_pool_init,
          init_reactor_queues, worker_pool_init, setup_core_tracking_fails, jwt_init,
          server_did_startup_fail, sigwait, hot_reload, worker_pool_stop, join_reactors,
          server_start_returns, kill, operator_edits, Makes, LOG_FATAL
  <2>1. main' \in Empty \cup Whole \cup {"slab", "arrays", "pools", "cleanup_failed", "end"}
      BY <1>1, Zenon DEF Typed, Main, Takes, Empty, Whole
  <2>2. exit' \in {"no", "success", "failure", "killed"}
      BY <1>1, Zenon DEF Typed, process
  <2>2a. pending' \subseteq {"SIGHUP", "SIGTERM"}
    <3>1. CASE sigwait \/ \E s \in {"SIGHUP", "SIGTERM"} : kill(s)
      <4>1. \A s \in pending' : s \in pending \/ s \in {"SIGHUP", "SIGTERM"}
          BY <3>1, Zenon DEF process
      <4>2. QED
          BY <4>1, Zenon DEF Typed
    <3>2. CASE ~(sigwait \/ \E s \in {"SIGHUP", "SIGTERM"} : kill(s))
      <4>1. pending' = pending
          BY <1>1, <3>2, Zenon DEF process
      <4>2. QED
          BY <4>1, Zenon DEF Typed
    <3>3. QED
        BY <3>1, <3>2, Zenon
  <2>3. logger' \in BOOLEAN
      BY <1>1, Zenon DEF Typed, process
  <2>4. made' \subseteq Resources
    <3>1. CASE init_reactor_queues
      <4>1. Arrays \cup {"eventfds", "barrier"} \subseteq Resources
          BY Zenon DEF Resources
      <4>2. QED
          BY <3>1, <4>1, Zenon DEF Typed
    <3>2. CASE ~init_reactor_queues
      <4>1. made' \in {made, {}, made \cup {"libraries"}, made \cup {"slab"}, made \cup {"pools"}}
          BY <1>1, <3>2, Zenon DEF globals, server_cleanup_globals
      <4>2. QED
          BY <4>1, Zenon DEF Typed, Resources
    <3>3. QED
        BY <3>1, <3>2, Zenon
  <2>5. UNCHANGED <<g_startup_failed, base, lost>>
      BY <1>1, Zenon DEF reactorVars
  <2>6. g_startup_failed' \in BOOLEAN
      BY <2>5, Zenon DEF Typed
  <2>7. base' \subseteq Reactors /\ lost' \subseteq Reactors
      BY <2>5, Zenon DEF Typed
  <2>8. QED
      BY <2>1, <2>2, <2>2a, <2>3, <2>4, <2>6, <2>7, Zenon DEF Typed
<1>2. CASE spawn_worker_threads \/ server_shutdown_workers
  <2>1. main' \in Empty \cup Whole \cup {"slab", "arrays", "pools", "cleanup_failed", "end"}
      BY <1>2, Zenon DEF spawn_worker_threads, server_shutdown_workers, Main, Empty, Whole
  <2>2. exit' \in {exit, "failure"} /\ UNCHANGED <<logger, g_startup_failed, pending, made, base, lost>>
      BY <1>2, Zenon DEF spawn_worker_threads, server_shutdown_workers, process, globals, LOG_FATAL
  <2>3. QED
      BY <2>1, <2>2, Zenon DEF Typed
<1>3. ASSUME NEW r \in Reactors, ReactorThread(r) PROVE Typed'
  <2> USE DEF ReactorThread, create_optimized_event_base, create_and_bind_socket,
          configure_http_server, OrFatal, barrier_wait, check_startup_failed,
          event_base_dispatch, reactor_returns
  <2>1. UNCHANGED <<main, logger, pending, made>>
      BY <1>3, Zenon DEF process, globals, LOG_FATAL
  <2>2. exit' \in {exit, "failure"}
      BY <1>3, Zenon DEF process, LOG_FATAL
  <2>3. g_startup_failed' \in BOOLEAN
      BY <1>3, Zenon DEF Typed
  <2>4. base' \subseteq Reactors /\ lost' \subseteq Reactors
      BY <1>3, Zenon DEF Typed
  <2>5. QED
      BY <2>1, <2>2, <2>3, <2>4, Zenon DEF Typed
<1>4. CASE UNCHANGED vars
    BY <1>4, Zenon DEF vars, process, globals, reactorVars, Typed
<1>5. QED
    BY <1>1, <1>2, <1>3, <1>4, Zenon DEF Next, MainThread

\* Start-up and shutdown keep their order (server_start, reactor_thread_logic,
\* wait_and_shutdown), for every number of reactors: they serve together or
\* not at all, what a thread uses exists as long as the thread, and nothing is
\* released that was never made but for the one case that ends the process.
THEOREM StartupCorrect == Spec => []StartupInv
<1>1. Init => Typed
  <2> SUFFICES ASSUME Init PROVE Typed
      BY Zenon
  <2>1. logger \in BOOLEAN /\ g_startup_failed \in BOOLEAN
      BY Zenon DEF Init
  <2>2. QED
      BY <2>1, Zenon DEF Init, Typed, Empty
<1>2. BarrierInv /\ ConfigInv /\ GlobalsInv /\ Typed => StartupInv
  <2> SUFFICES ASSUME BarrierInv, ConfigInv, GlobalsInv, Typed PROVE StartupInv
      BY Zenon
  <2>1. TypeOK
    <3>1. num_workers \in [Pools -> Nat]
      <4>1. CASE num_workers = NoWorkers
          BY <4>1, Zenon DEF NoWorkers
      <4>2. CASE num_workers # NoWorkers
        <5>1. \A p \in Pools : num_workers[p] \in Nat
            BY <4>2, PoolSizes, Zenon DEF Pools
        <5>2. QED
            BY <4>2, <5>1, Zenon DEF ConfigInv, Split, Pools
      <4>3. QED
          BY <4>1, <4>2, Zenon
    <3>2. arrived \in 0 .. NumReactors + 1
        BY ReactorsFinite, StartupConstants DEF BarrierInv, Arrivals
    <3>3. event_break \subseteq Reactors /\ misfreed \subseteq Resources
        BY Zenon DEF GlobalsInv, Resources
    <3>4. /\ g_reactor_bases \subseteq Reactors /\ broken \in 0 .. NumReactors
          /\ spawned \in 0 .. NumReactors /\ reactor \in [Reactors -> States]
        BY Zenon DEF GlobalsInv, BarrierInv
    <3>5. main \in {"logger", "config", "signals", "metadata", "slab", "arrays", "pools",
                    "cleanup_failed", "jwt", "spawn", "barrier", "sigwait", "reload",
                    "stop", "break", "join", "cleanup", "end"}
        BY Zenon DEF Typed, Empty, Whole
    <3>6. QED
        BY <3>1, <3>2, <3>3, <3>4, <3>5, Zenon DEF TypeOK, Typed, States
  <2>2. MisfreedAtTheEnd /\ UsedIsMade /\ SecretsScrubbed
      BY Zenon DEF GlobalsInv, ConfigInv, MisfreedAtTheEnd
  <2>3. QED
      BY <2>1, <2>2, TogetherOrNot, Zenon DEF StartupInv
<1>3. QED
    BY <1>1, <1>2, BarrierInit, BarrierNext, ConfigInvInit, ConfigInvNext, GlobalsInit, GlobalsNext,
       TypedNext, PTL DEF Spec

----------------------------------------------------------------------------
(* TaskPool *)

\* The assumptions on the constants, one by one.
LEMMA PoolConstants == /\ PoolSize \in Nat \ {0}
                       /\ CacheSize \in Nat \ {0}
                       /\ IsFiniteSet(Threads)
BY TaskPoolConstants, Zenon DEF TaskPoolConstants

\* The null pointer is no slab index.
LEMMA NoTaskNotTask == NoTask \notin Tasks
BY PoolConstants DEF NoTask, Tasks

(***************************************************************************)
(* What the list operations do to the set of tasks in a list.              *)
(***************************************************************************)

\* A prefix of a list.
LEMMA Prefix ==
  ASSUME NEW S, NEW s \in Seq(S), NEW n \in 0 .. Len(s)
  PROVE  /\ SubSeq(s, 1, n) \in Seq(S)
         /\ Len(SubSeq(s, 1, n)) = n
         /\ \A i \in 1 .. n : SubSeq(s, 1, n)[i] = s[i]
<1>1. n \in Int /\ 1 \in Int /\ \A i \in 1 .. n : s[i] \in S
  OBVIOUS
<1>2. /\ SubSeq(s, 1, n) \in Seq(S)
      /\ Len(SubSeq(s, 1, n)) = IF 1 <= n THEN n - 1 + 1 ELSE 0
      /\ \A i \in 1 .. n - 1 + 1 : SubSeq(s, 1, n)[i] = s[1 + i - 1]
  BY <1>1
<1> QED BY <1>2

\* Popping the last entry of a duplicate-free list.
LEMMA PopLast ==
  ASSUME NEW S, NEW s \in Seq(S), s # <<>>, IsInjective(s)
  PROVE  /\ Below(s) \in Seq(S)
         /\ Len(Below(s)) = Len(s) - 1
         /\ Top(s) \in S
         /\ IsInjective(Below(s))
         /\ Top(s) \notin Range(Below(s))
         /\ Range(s) = Range(Below(s)) \cup {Top(s)}
<1>1. Below(s) \in Seq(S) /\ Len(Below(s)) = Len(s) - 1 /\ Top(s) \in S
  <2>1. Len(s) \in Nat /\ Len(s) > 0 /\ Len(s) - 1 \in 0 .. Len(s)
    OBVIOUS
  <2>2. Top(s) \in S
    BY <2>1 DEF Top
  <2> QED BY <2>1, <2>2, Prefix, Zenon DEF Below
<1>2. \A i \in 1 .. Len(s) - 1 : Below(s)[i] = s[i]
  BY DEF Below
<1>3. IsInjective(Below(s)) /\ Top(s) \notin Range(Below(s))
  <2>1. IsInjective(Below(s))
    BY <1>1, <1>2, SMTT(20) DEF IsInjective
  <2>2. ASSUME NEW i \in 1 .. Len(s) - 1 PROVE s[i] # s[Len(s)]
    BY DEF IsInjective
  <2>3. Top(s) \notin Range(Below(s))
    BY <1>1, <1>2, <2>2 DEF Top, Range
  <2> QED BY <2>1, <2>3, Zenon
<1>4. Range(s) = Range(Below(s)) \cup {Top(s)}
  BY <1>1, <1>2 DEF Top, Range
<1> QED BY <1>1, <1>3, <1>4, Zenon

\* Pushing a new entry on a duplicate-free list.
LEMMA PushLast ==
  ASSUME NEW S, NEW s \in Seq(S), NEW e \in S, IsInjective(s), e \notin Range(s)
  PROVE  /\ Append(s, e) \in Seq(S)
         /\ Len(Append(s, e)) = Len(s) + 1
         /\ IsInjective(Append(s, e))
         /\ Range(Append(s, e)) = Range(s) \cup {e}
<1>1. /\ Append(s, e) \in Seq(S)
      /\ Len(Append(s, e)) = Len(s) + 1
      /\ \A i \in 1 .. Len(s) : Append(s, e)[i] = s[i]
      /\ Append(s, e)[Len(s) + 1] = e
  OBVIOUS
<1>2. IsInjective(Append(s, e))
  BY <1>1 DEF IsInjective, Range
<1>3. Range(Append(s, e)) = Range(s) \cup {e}
  BY <1>1 DEF Range
<1> QED BY <1>1, <1>2, <1>3, Zenon

\* Appending one duplicate-free list to another that shares no entry with it.
LEMMA Concatenate ==
  ASSUME NEW S, NEW s \in Seq(S), NEW c \in Seq(S),
         IsInjective(s), IsInjective(c), Range(s) \cap Range(c) = {}
  PROVE  /\ s \o c \in Seq(S)
         /\ Len(s \o c) = Len(s) + Len(c)
         /\ IsInjective(s \o c)
         /\ Range(s \o c) = Range(s) \cup Range(c)
<1>1. /\ s \o c \in Seq(S)
      /\ Len(s \o c) = Len(s) + Len(c)
      /\ \A i \in 1 .. Len(s) : (s \o c)[i] = s[i]
      /\ \A i \in 1 .. Len(c) : (s \o c)[Len(s) + i] = c[i]
  OBVIOUS
<1>2. \A i \in Len(s) + 1 .. Len(s) + Len(c) :
         /\ i - Len(s) \in 1 .. Len(c)
         /\ (s \o c)[i] = c[i - Len(s)]
  BY <1>1
<1> DEFINE sc == s \o c
<1>3. DOMAIN sc = (1 .. Len(s)) \cup (Len(s) + 1 .. Len(s) + Len(c))
  BY <1>1
<1>4. \A i \in 1 .. Len(s) : sc[i] = s[i] /\ s[i] \in Range(s)
  BY <1>1 DEF Range
<1>5. \A i \in Len(s) + 1 .. Len(s) + Len(c) :
         sc[i] = c[i - Len(s)] /\ sc[i] \in Range(c)
  BY <1>2 DEF Range
<1>6. IsInjective(sc)
  <2> SUFFICES ASSUME NEW i \in DOMAIN sc, NEW j \in DOMAIN sc, sc[i] = sc[j]
               PROVE  i = j
    BY Zenon DEF IsInjective
  <2> HIDE DEF sc
  <2>1. CASE i \in 1 .. Len(s) /\ j \in 1 .. Len(s)
    BY <1>4, <2>1 DEF IsInjective
  <2>2. CASE i \notin 1 .. Len(s) /\ j \notin 1 .. Len(s)
    <3>1. /\ i - Len(s) \in DOMAIN c
          /\ j - Len(s) \in DOMAIN c
          /\ c[i - Len(s)] = c[j - Len(s)]
      BY <1>2, <1>3, <1>5, <2>2
    <3>2. i - Len(s) = j - Len(s)
      BY <3>1, Zenon DEF IsInjective
    <3> QED BY <1>3, <2>2, <3>2
  <2>3. CASE (i \in 1 .. Len(s)) # (j \in 1 .. Len(s))
    BY <1>3, <1>4, <1>5, <2>3
  <2> QED BY <2>1, <2>2, <2>3, Zenon
<1>7. Range(sc) = Range(s) \cup Range(c)
  <2>1. ASSUME NEW e \in Range(sc) PROVE e \in Range(s) \cup Range(c)
    <3>1. PICK i \in DOMAIN sc : e = sc[i]
      BY Zenon DEF Range
    <3> HIDE DEF sc
    <3> QED BY <1>3, <1>4, <1>5, <3>1, Zenon
  <2>2. Range(s) \subseteq Range(sc)
    BY <1>1 DEF Range
  <2>3. Range(c) \subseteq Range(sc)
    <3>1. ASSUME NEW i \in 1 .. Len(c) PROVE c[i] \in Range(sc)
      <4>1. Len(s) + i \in DOMAIN sc /\ sc[Len(s) + i] = c[i]
        BY <1>1
      <4> QED BY <4>1, Zenon DEF Range
    <3> QED BY <3>1, SMTT(20) DEF Range
  <2> QED BY <2>1, <2>2, <2>3, Zenon
<1> QED BY <1>1, <1>6, <1>7, Zenon

\* A duplicate-free list of tasks is no longer than the slab.
LEMMA Pigeonhole ==
  ASSUME NEW s \in Seq(Tasks), IsInjective(s)
  PROVE  Len(s) <= PoolSize
<1>1. IsFiniteSet(Tasks) /\ Cardinality(Tasks) = PoolSize
  BY PoolConstants, FS_Interval DEF Tasks
<1>2. IsFiniteSet(1 .. Len(s)) /\ Cardinality(1 .. Len(s)) = Len(s)
  <2>1. Len(s) \in Nat /\ 1 \in Int
    OBVIOUS
  <2> QED BY <2>1, FS_Interval, SMTT(20)
<1>3. s \in Injection(1 .. Len(s), Tasks)
  BY DEF Injection, IsInjective
<1> QED BY <1>1, <1>2, <1>3, FS_Injection

\* The refill of a cache splits the stack into what stays, what goes to the
\* cache and the task handed out.
LEMMA BatchMove ==
  ASSUME stack \in Seq(Tasks), stack # <<>>, IsInjective(stack)
  PROVE  LET rest == SubSeq(stack, 1, Len(stack) - Batch)
             kept == SubSeq(Taken, 1, Batch - 1)
         IN /\ rest \in Seq(Tasks) /\ kept \in Seq(Tasks) /\ Taken[Batch] \in Tasks
            /\ IsInjective(rest) /\ IsInjective(kept)
            /\ Len(kept) < CacheSize
            /\ Range(rest) \cap Range(kept) = {}
            /\ Taken[Batch] \notin Range(rest) \cup Range(kept)
            /\ Range(stack) = Range(rest) \cup Range(kept) \cup {Taken[Batch]}
            /\ {Taken[i] : i \in 1 .. Batch} = Range(kept) \cup {Taken[Batch]}
<1> DEFINE n == Len(stack)
           b == Batch
           rest == SubSeq(stack, 1, n - b)
           kept == SubSeq(Taken, 1, b - 1)
<1>1. n \in Nat /\ n > 0 /\ b \in 1 .. n /\ b <= CacheSize /\ DOMAIN stack = 1 .. n
  BY PoolConstants DEF Batch
<1>2. Taken \in Seq(Tasks) /\ Len(Taken) = b
      /\ \A i \in 1 .. b : Taken[i] = stack[n + 1 - i]
  BY <1>1 DEF Taken
<1>3. rest \in Seq(Tasks) /\ Len(rest) = n - b
      /\ \A i \in 1 .. n - b : rest[i] = stack[i]
  <2>1. n - b \in 0 .. Len(stack)
    BY <1>1
  <2> QED BY <2>1, Prefix, Zenon
<1>4. kept \in Seq(Tasks) /\ Len(kept) = b - 1
      /\ \A i \in 1 .. b - 1 : kept[i] = stack[n + 1 - i]
  <2>1. b - 1 \in 0 .. Len(Taken)
    BY <1>1, <1>2
  <2> QED BY <1>1, <1>2, <2>1, Prefix
<1>5. Taken[b] = stack[n + 1 - b] /\ Taken[b] \in Tasks
  BY <1>1, <1>2
<1>6. \A i, j \in 1 .. n : stack[i] = stack[j] => i = j
  BY <1>1, Zenon DEF IsInjective
<1> HIDE DEF n, b, rest, kept
<1>7. IsInjective(rest)
  BY <1>1, <1>3, <1>6 DEF IsInjective
<1>8. IsInjective(kept)
  <2> SUFFICES ASSUME NEW i \in 1 .. b - 1, NEW j \in 1 .. b - 1, kept[i] = kept[j]
               PROVE  i = j
    BY <1>1, <1>4 DEF IsInjective
  <2>1. n + 1 - i \in 1 .. n /\ n + 1 - j \in 1 .. n
    BY <1>1
  <2> QED BY <1>1, <1>4, <1>6, <2>1
<1>9. /\ \A e : e \in Range(rest) <=> \E i \in 1 .. n - b : e = stack[i]
      /\ \A e : e \in Range(kept) <=> \E i \in n + 2 - b .. n : e = stack[i]
  <2>1. \A e : e \in Range(rest) <=> \E i \in 1 .. n - b : e = stack[i]
    BY <1>1, <1>3 DEF Range
  <2>2. ASSUME NEW e \in Range(kept) PROVE \E i \in n + 2 - b .. n : e = stack[i]
    <3>1. PICK i \in 1 .. b - 1 : e = kept[i]
      BY <1>1, <1>4 DEF Range
    <3>2. n + 1 - i \in n + 2 - b .. n
      BY <1>1
    <3> QED BY <1>4, <3>1, <3>2, Zenon
  <2>3. ASSUME NEW i \in n + 2 - b .. n PROVE stack[i] \in Range(kept)
    <3>1. n + 1 - i \in 1 .. b - 1 /\ n + 1 - (n + 1 - i) = i
      BY <1>1
    <3>2. kept[n + 1 - i] = stack[i]
      BY <1>4, <3>1, Zenon
    <3>3. n + 1 - i \in DOMAIN kept
      BY <1>1, <1>4, <3>1
    <3> QED BY <3>2, <3>3, Zenon DEF Range
  <2> QED BY <2>1, <2>2, <2>3, Zenon
<1>10. /\ Range(rest) \cap Range(kept) = {}
       /\ Taken[b] \notin Range(rest) \cup Range(kept)
  BY <1>1, <1>5, <1>6, <1>9
<1>11. Range(stack) = Range(rest) \cup Range(kept) \cup {Taken[b]}
  <2>1. \A e : e \in Range(stack) <=> \E i \in 1 .. n : e = stack[i]
    BY <1>1, Zenon DEF Range
  <2> QED BY <1>1, <1>5, <1>9, <2>1
<1>12. {Taken[i] : i \in 1 .. b} = Range(kept) \cup {Taken[b]}
  <2>1. \A i \in 1 .. b - 1 : Taken[i] = kept[i]
    BY <1>1, <1>2, <1>4
  <2> QED BY <1>1, <1>2, <1>4, <2>1, SMTT(20) DEF Range
<1>13. Len(kept) < CacheSize
  BY <1>1, <1>4, PoolConstants
<1> QED
  BY <1>3, <1>4, <1>5, <1>7, <1>8, <1>10, <1>11, <1>12, <1>13, Zenon DEF n, b, rest, kept

(***************************************************************************)
(* The inductive invariant.                                                *)
(***************************************************************************)

\* At start-up every task is on the stack.
LEMMA PoolInvInit == PoolInit => PoolInv
<1> SUFFICES ASSUME PoolInit PROVE PoolInv
  BY Zenon
<1> USE PoolConstants
<1>1. stack \in Seq(Tasks) /\ IsInjective(stack) /\ Range(stack) = Tasks
  BY DEF PoolInit, Tasks, IsInjective, Range
<1>2. \A th \in Threads : Range(cache[th]) = {} /\ IsInjective(cache[th])
                           /\ Len(cache[th]) = 0
  BY DEF PoolInit, Range, IsInjective
<1>3. PoolTypeOK
  <2>1. cache \in [Threads -> Seq(Tasks)]
    BY DEF PoolInit
  <2>2. /\ flag \in SUBSET Tasks
        /\ buf \in [Tasks -> {"none", "empty", "dirty"}]
        /\ held \in [Threads -> SUBSET Tasks]
        /\ freeing \in [Threads -> Tasks \cup {NoTask}]
        /\ denied \in SUBSET Threads
        /\ aborted \in BOOLEAN
    BY Zenon DEF PoolInit
  <2> QED BY <1>1, <2>1, <2>2, Zenon DEF PoolTypeOK
<1>4. \A th \in Threads : Owned(th) = {}
  BY <1>2, Zenon DEF PoolInit, Owned
<1>5. OnePlace
  <2>1. \A th \in Threads : freeing[th] \notin Range(cache[th]) \cup held[th]
    BY <1>2, Zenon DEF PoolInit
  <2> QED BY <1>1, <1>2, <1>4, <2>1, ZenonT(40) DEF OnePlace
<1> QED BY <1>2, <1>3, <1>5 DEF PoolInit, PoolInv, NeverAborts

\* What the end of task_pool_alloc does to the thread and its task.
LEMMA DeliverEffect ==
  ASSUME PoolTypeOK, NEW th \in Threads, NEW t \in Tasks, NEW clear,
         freeing[th] = NoTask, Deliver(th, t, clear)
  PROVE  /\ flag' \in SUBSET Tasks
         /\ buf' \in [Tasks -> {"none", "empty", "dirty"}]
         /\ held' \in [Threads -> SUBSET Tasks]
         /\ freeing' \in [Threads -> Tasks \cup {NoTask}]
         /\ denied' \in SUBSET Threads
         /\ \A u \in Threads \ {th} : held'[u] = held[u] /\ freeing'[u] = freeing[u]
         /\ \/ /\ held'[th] = held[th] \cup {t} /\ freeing'[th] = NoTask
               /\ flag' = flag \ clear
            \/ /\ held'[th] = held[th] /\ freeing'[th] = t
               /\ flag' = (flag \ clear) \cup {t}
<1>1. CASE /\ flag' = flag \ clear
           /\ buf' = [buf EXCEPT ![t] = "empty"]
           /\ held' = [held EXCEPT ![th] = @ \cup {t}]
           /\ denied' = denied \ {th}
           /\ UNCHANGED freeing
  BY <1>1, Zenon DEF PoolTypeOK
<1>2. CASE /\ flag' = (flag \ clear) \cup {t}
           /\ freeing' = [freeing EXCEPT ![th] = t]
           /\ denied' = denied \cup {th}
           /\ UNCHANGED <<buf, held>>
  BY <1>2, Zenon DEF PoolTypeOK
<1> QED BY <1>1, <1>2, Zenon DEF Deliver

\* Both ways of serving a lease take one task t out of the lists of free tasks
\* the thread can reach, and hand it over.
LEMMA LeaseStep ==
  ASSUME PoolInv, NEW th \in Threads, NEW t \in Tasks, NEW kept \in Seq(Tasks),
         NEW clear, t \in clear, freeing[th] = NoTask,
         stack' \in Seq(Tasks), IsInjective(stack'),
         IsInjective(kept), Len(kept) <= CacheSize,
         cache' = [cache EXCEPT ![th] = kept],
         Range(stack) \cup Range(cache[th]) = Range(stack') \cup Range(kept) \cup {t},
         Range(stack') \cap Range(kept) = {},
         t \notin Range(stack') \cup Range(kept),
         Deliver(th, t, clear), aborted' = aborted
  PROVE  PoolInv'
<1> USE NoTaskNotTask DEF PoolInv
<1>1. /\ \A u \in Threads \ {th} :
            cache'[u] = cache[u] /\ held'[u] = held[u] /\ freeing'[u] = freeing[u]
      /\ cache'[th] = kept
      /\ \/ /\ held'[th] = held[th] \cup {t} /\ freeing'[th] = NoTask
            /\ flag' = flag \ clear
         \/ /\ held'[th] = held[th] /\ freeing'[th] = t
            /\ flag' = (flag \ clear) \cup {t}
  BY DeliverEffect DEF PoolTypeOK
<1>2. PoolTypeOK'
  <2>1. cache' \in [Threads -> Seq(Tasks)]
    BY Zenon DEF PoolTypeOK
  <2> QED BY <2>1, DeliverEffect, Zenon DEF PoolTypeOK
<1>3. /\ \A u \in Threads \ {th} : Owned(u)' = Owned(u)
      /\ Owned(th)' = Range(kept) \cup held[th] \cup {t}
      /\ Owned(th) = Range(cache[th]) \cup held[th]
  BY <1>1, Zenon DEF Owned
<1>4. Range(stack) \cap Owned(th) = {} /\ Range(cache[th]) \cap held[th] = {}
  BY Zenon DEF OnePlace
<1>5. ASSUME NEW u \in Threads \ {th}
      PROVE  /\ (Range(stack) \cup Owned(th)) \cap Owned(u) = {}
             /\ t \notin Owned(u)
  BY <1>3 DEF OnePlace
<1>6. t \notin held[th] /\ (Range(stack') \cup Range(kept)) \cap held[th] = {}
  BY <1>3, <1>4
<1>7. Range(stack') \cup UNION {Owned(u)' : u \in Threads} = Tasks
  <2>1. Range(stack') \cup Owned(th)' = Range(stack) \cup Owned(th)
    BY <1>3
  <2>2. ASSUME NEW e \in Tasks
        PROVE  e \in Range(stack') \/ \E u \in Threads : e \in Owned(u)'
    <3>1. e \in Range(stack) \/ \E u \in Threads : e \in Owned(u)
      BY DEF OnePlace
    <3> QED BY <1>3, <2>1, <3>1
  <2>3. Range(stack') \subseteq Tasks /\ \A u \in Threads : Owned(u)' \subseteq Tasks
    BY <1>2, SMTT(20) DEF Owned, PoolTypeOK, Range
  <2> QED BY <2>2, <2>3
<1>8. ASSUME NEW u \in Threads
      PROVE  /\ IsInjective(cache'[u])
             /\ Range(stack') \cap Owned(u)' = {}
             /\ Range(cache'[u]) \cap held'[u] = {}
             /\ freeing'[u] \notin Range(cache'[u]) \cup held'[u]
  <2>1. CASE u = th
    <3>1. NoTask \notin Range(kept) \cup held[th]
      BY DEF Range, PoolTypeOK
    <3> QED BY <1>1, <1>3, <1>6, <2>1, <3>1, SMTT(20)
  <2>2. CASE u # th
    <3>1. Range(stack') \cap Owned(u) = {}
      BY <1>3, <1>5, <2>2, Zenon
    <3> QED BY <1>1, <1>3, <2>2, <3>1, Zenon DEF OnePlace
  <2> QED BY <2>1, <2>2, SMTT(20)
<1>9. ASSUME NEW u \in Threads, NEW v \in Threads \ {u}
      PROVE  Owned(u)' \cap Owned(v)' = {}
  <2>1. \A w \in Threads \ {th} : Owned(th)' \cap Owned(w) = {}
    BY <1>3, <1>5, Zenon
  <2> QED BY <1>3, <2>1 DEF OnePlace
<1>10. OnePlace'
  BY <1>7, <1>8, <1>9, Zenon DEF OnePlace
<1>11. ASSUME NEW u \in Threads
       PROVE  held'[u] \cap flag' = {} /\ Len(cache'[u]) <= CacheSize
  <2>1. CASE u = th
    BY <1>1, <1>6, <2>1
  <2>2. CASE u # th
    <3>1. t \notin held[u]
      BY <1>5, <2>2, Zenon DEF Owned
    <3> QED BY <1>1, <2>2, <3>1, Zenon
  <2> QED BY <2>1, <2>2, Zenon
<1> QED BY <1>2, <1>10, <1>11, Zenon DEF NeverAborts

\* task_pool_alloc_cached preserves the invariant.
LEMMA CachedStep ==
  ASSUME PoolInv, NEW th \in Threads, task_pool_alloc_cached(th)
  PROVE  PoolInv'
<1> DEFINE c == cache[th]
           t == Top(c)
<1>1. /\ c \in Seq(Tasks) /\ c # <<>> /\ IsInjective(c)
      /\ Len(c) <= CacheSize /\ freeing[th] = NoTask
      /\ stack \in Seq(Tasks) /\ IsInjective(stack) /\ Range(stack) \cap Range(c) = {}
      /\ stack' = stack /\ aborted' = aborted
      /\ cache' = [cache EXCEPT ![th] = Below(c)]
      /\ Deliver(th, t, {t})
  BY Zenon DEF task_pool_alloc_cached, Ready, PoolInv, PoolTypeOK, OnePlace, Owned
<1>2. /\ Below(c) \in Seq(Tasks) /\ Len(Below(c)) = Len(c) - 1 /\ t \in Tasks
      /\ IsInjective(Below(c)) /\ t \notin Range(Below(c))
      /\ Range(c) = Range(Below(c)) \cup {t}
  BY <1>1, PopLast, Zenon
<1>3. Len(Below(c)) <= CacheSize
  BY <1>1, <1>2, PoolConstants
<1> HIDE DEF t
<1>4. /\ Range(stack) \cup Range(cache[th]) = Range(stack') \cup Range(Below(c)) \cup {t}
      /\ Range(stack') \cap Range(Below(c)) = {}
      /\ t \notin Range(stack') \cup Range(Below(c))
  BY <1>1, <1>2, Zenon
<1> QED BY <1>1, <1>2, <1>3, <1>4, LeaseStep, Zenon

\* task_pool_alloc_batch preserves the invariant.
LEMMA BatchStep ==
  ASSUME PoolInv, NEW th \in Threads, task_pool_alloc_batch(th)
  PROVE  PoolInv'
<1> DEFINE kept == SubSeq(Taken, 1, Batch - 1)
           t == Taken[Batch]
           clear == {Taken[i] : i \in 1 .. Batch}
<1>1. /\ stack \in Seq(Tasks) /\ stack # <<>> /\ IsInjective(stack)
      /\ freeing[th] = NoTask /\ cache[th] = <<>>
      /\ stack' = SubSeq(stack, 1, Len(stack) - Batch)
      /\ cache' = [cache EXCEPT ![th] = kept]
      /\ Deliver(th, t, clear)
      /\ aborted' = aborted
  BY Zenon DEF task_pool_alloc_batch, Ready, PoolInv, PoolTypeOK, OnePlace
<1>2. /\ stack' \in Seq(Tasks) /\ kept \in Seq(Tasks) /\ t \in Tasks
      /\ IsInjective(stack') /\ IsInjective(kept)
      /\ Len(kept) < CacheSize
      /\ Range(stack') \cap Range(kept) = {}
      /\ t \notin Range(stack') \cup Range(kept)
      /\ Range(stack) = Range(stack') \cup Range(kept) \cup {t}
      /\ clear = Range(kept) \cup {t}
  BY <1>1, BatchMove, Zenon
<1>3. Range(cache[th]) = {}
  BY <1>1 DEF Range
<1>4. Len(kept) <= CacheSize /\ t \in clear
  BY <1>2, PoolConstants
<1> HIDE DEF kept, t, clear
<1>5. Range(stack) \cup Range(cache[th]) = Range(stack') \cup Range(kept) \cup {t}
  BY <1>2, <1>3, Zenon
<1> QED BY <1>1, <1>2, <1>4, <1>5, LeaseStep, Zenon

\* task_pool_free, up to its flag, preserves the invariant: the flag of a
\* held task is clear.
LEMMA FreeStep ==
  ASSUME PoolInv, NEW th \in Threads, NEW t \in Tasks, task_pool_free(th, t)
  PROVE  PoolInv'
<1> USE NoTaskNotTask DEF PoolInv
<1>1. /\ t \in held[th] /\ freeing[th] = NoTask
      /\ held' = [held EXCEPT ![th] = @ \ {t}]
      /\ flag' = flag \cup {t}
      /\ freeing' = [freeing EXCEPT ![th] = t]
      /\ UNCHANGED <<stack, cache, buf, denied, aborted>>
  BY Zenon DEF task_pool_free, Ready
<1>2. PoolTypeOK'
  BY <1>1, Zenon DEF PoolTypeOK
<1>3. /\ \A u \in Threads \ {th} : held'[u] = held[u] /\ freeing'[u] = freeing[u]
      /\ held'[th] = held[th] \ {t} /\ freeing'[th] = t
  BY <1>1, Zenon DEF PoolTypeOK
<1>4. \A u \in Threads : Owned(u)' = Owned(u)
  BY <1>1, <1>3 DEF Owned
<1>5. t \notin Range(cache[th]) /\ \A u \in Threads \ {th} : t \notin held[u]
  BY <1>1, Zenon DEF OnePlace, Owned
<1>6. OnePlace'
  <2>1. ASSUME NEW u \in Threads
        PROVE  /\ Range(cache[u]) \cap held'[u] = {}
               /\ freeing'[u] \notin Range(cache[u]) \cup held'[u]
    BY <1>3, <1>5, Zenon DEF OnePlace
  <2>2. {Owned(u)' : u \in Threads} = {Owned(u) : u \in Threads}
    BY <1>4, Zenon
  <2> QED BY <1>1, <1>4, <2>1, <2>2, Zenon DEF OnePlace
<1>7. \A u \in Threads : held'[u] \cap flag' = {} /\ Len(cache'[u]) <= CacheSize
  BY <1>1, <1>3, <1>5
<1> QED BY <1>1, <1>2, <1>6, <1>7, Zenon DEF NeverAborts

\* The rest of task_pool_free preserves the invariant; by the pigeonhole
\* lemma its overflow check never fires.
LEMMA StoreStep ==
  ASSUME PoolInv, NEW th \in Threads, task_pool_free_store(th)
  PROVE  PoolInv'
<1> DEFINE c == cache[th]
           t == freeing[th]
<1> USE NoTaskNotTask DEF PoolInv
<1>1. /\ stack \in Seq(Tasks) /\ c \in Seq(Tasks) /\ t \in Tasks
      /\ IsInjective(stack) /\ IsInjective(c)
      /\ Range(stack) \cap Range(c) = {}
      /\ t \notin Range(stack) \cup Range(c) \cup held[th]
      /\ freeing' = [freeing EXCEPT ![th] = NoTask]
      /\ UNCHANGED <<flag, buf, held, denied>>
  BY SMTT(20) DEF task_pool_free_store, PoolTypeOK, OnePlace, Owned
<1>2. /\ stack \o c \in Seq(Tasks)
      /\ Len(stack \o c) = Len(stack) + Len(c)
      /\ IsInjective(stack \o c)
      /\ Range(stack \o c) = Range(stack) \cup Range(c)
  BY <1>1, Concatenate, SMTT(20)
<1>3. ~(Len(stack) + Len(c) > PoolSize)
  <2>1. Len(stack \o c) <= PoolSize
    BY <1>2, Pigeonhole, Zenon
  <2>2. Len(stack) \in Nat /\ Len(c) \in Nat /\ PoolSize \in Nat
    BY <1>1, PoolConstants
  <2> HIDE DEF c
  <2> QED BY <1>2, <2>1, <2>2
<1>4. PICK kept \in Seq(Tasks) :
         /\ cache' = [cache EXCEPT ![th] = kept]
         /\ stack' \in Seq(Tasks) /\ IsInjective(stack')
         /\ IsInjective(kept) /\ Len(kept) <= CacheSize
         /\ Range(stack') \cap Range(kept) = {}
         /\ Range(stack') \cup Range(kept) = Range(stack) \cup Range(c) \cup {t}
         /\ Range(stack') \cap held[th] = {} /\ Range(kept) \cap held[th] = {}
         /\ aborted' = aborted
  <2>1. CASE Len(c) < CacheSize
    <3>1. /\ Append(c, t) \in Seq(Tasks) /\ Len(Append(c, t)) = Len(c) + 1
          /\ IsInjective(Append(c, t)) /\ Range(Append(c, t)) = Range(c) \cup {t}
      BY <1>1, PushLast
    <3>2. /\ cache' = [cache EXCEPT ![th] = Append(c, t)]
          /\ stack' = stack /\ aborted' = aborted
      BY <2>1, Zenon DEF task_pool_free_store
    <3>3. Len(Append(c, t)) <= CacheSize
      BY <1>1, <2>1, <3>1, PoolConstants
    <3>4. Range(stack) \cap held[th] = {} /\ Range(c) \cap held[th] = {}
      BY Zenon DEF OnePlace, Owned
    <3> HIDE DEF t
    <3> QED BY <1>1, <3>1, <3>2, <3>3, <3>4, Zenon
  <2>2. CASE ~(Len(c) < CacheSize)
    <3>1. /\ cache' = [cache EXCEPT ![th] = <<t>>]
          /\ stack' = stack \o c /\ aborted' = aborted
      BY <1>3, <2>2, Zenon DEF task_pool_free_store
    <3>2. /\ <<t>> \in Seq(Tasks) /\ Len(<<t>>) = 1
          /\ IsInjective(<<t>>) /\ Range(<<t>>) = {t}
      BY <1>1 DEF IsInjective, Range
    <3>3. Range(stack) \cap held[th] = {} /\ Range(c) \cap held[th] = {}
      BY Zenon DEF OnePlace, Owned
    <3>4. Len(<<t>>) <= CacheSize
      BY <3>2, PoolConstants
    <3> HIDE DEF t
    <3> QED BY <1>1, <1>2, <3>1, <3>2, <3>3, <3>4, Zenon
  <2> QED BY <2>1, <2>2, Zenon
<1>5. /\ \A u \in Threads \ {th} : cache'[u] = cache[u] /\ freeing'[u] = freeing[u]
      /\ cache'[th] = kept /\ freeing'[th] = NoTask
  BY <1>1, <1>4, Zenon DEF PoolTypeOK
<1>6. PoolTypeOK'
  BY <1>1, <1>4, Zenon DEF PoolTypeOK
<1>7. /\ \A u \in Threads \ {th} : Owned(u)' = Owned(u)
      /\ Owned(th)' = Range(kept) \cup held[th]
      /\ Owned(th) = Range(c) \cup held[th] \cup {t}
  BY <1>1, <1>5, Zenon DEF Owned
<1>8. Range(stack') \cup Owned(th)' = Range(stack) \cup Owned(th)
  BY <1>4, <1>7, Zenon
<1>9. OnePlace'
  <2>1. Range(stack') \cup UNION {Owned(u)' : u \in Threads} = Tasks
    <3>1. ASSUME NEW e \in Tasks
          PROVE  e \in Range(stack') \/ \E u \in Threads : e \in Owned(u)'
      <4>1. e \in Range(stack) \/ \E u \in Threads : e \in Owned(u)
        BY Zenon DEF OnePlace
      <4> QED BY <1>7, <1>8, <4>1, Zenon
    <3>2. Range(stack') \subseteq Tasks /\ \A u \in Threads : Owned(u)' \subseteq Tasks
      BY <1>6 DEF Owned, PoolTypeOK, Range
    <3> QED BY <3>1, <3>2, Zenon
  <2>2. \A u \in Threads \ {th} :
           (Range(stack) \cup Owned(th)) \cap Owned(u) = {}
    BY Zenon DEF OnePlace
  <2>3. \A u \in Threads : Range(stack') \cap Owned(u)' = {}
    BY <1>4, <1>7, <1>8, <2>2, SMTT(20)
  <2>4. \A u, v \in Threads : u # v => Owned(u)' \cap Owned(v)' = {}
    BY <1>7, <1>8, <2>2 DEF OnePlace
  <2>5. ASSUME NEW u \in Threads
        PROVE  /\ IsInjective(cache'[u])
               /\ Range(cache'[u]) \cap held'[u] = {}
               /\ freeing'[u] \notin Range(cache'[u]) \cup held'[u]
    <3>1. NoTask \notin Range(kept) \cup held[th]
      BY DEF Range, PoolTypeOK
    <3> QED BY <1>1, <1>4, <1>5, <3>1, Zenon DEF OnePlace
  <2> QED BY <1>4, <2>1, <2>3, <2>4, <2>5 DEF OnePlace
<1>10. \A u \in Threads : held'[u] \cap flag' = {} /\ Len(cache'[u]) <= CacheSize
  BY <1>1, <1>4, <1>5, Zenon
<1> QED BY <1>4, <1>6, <1>9, <1>10, Zenon DEF NeverAborts

\* The slab allocator never loses, duplicates or double-leases a task and
\* never aborts, whatever the interleaving of its threads.
THEOREM PoolCorrect == PoolSpec => []PoolInv
<1>1. PoolInit => PoolInv
  BY PoolInvInit, Zenon
<1>2. PoolInv /\ [PoolNext]_pool_vars => PoolInv'
  <2> SUFFICES ASSUME PoolInv, [PoolNext]_pool_vars PROVE PoolInv'
    BY Zenon
  <2>1. ASSUME NEW th \in Threads, task_pool_alloc_refused(th) PROVE PoolInv'
    BY <2>1 DEF task_pool_alloc_refused, PoolInv, PoolTypeOK, OnePlace, Owned, NeverAborts
  <2>2. ASSUME NEW th \in Threads, NEW t \in Tasks, WriteReply(th, t) PROVE PoolInv'
    BY <2>2 DEF WriteReply, PoolInv, PoolTypeOK, OnePlace, Owned, NeverAborts
  <2>3. CASE UNCHANGED pool_vars
    BY <2>3 DEF pool_vars, PoolInv, PoolTypeOK, OnePlace, Owned, NeverAborts
  <2> QED
    BY <2>1, <2>2, <2>3, CachedStep, BatchStep, FreeStep, StoreStep, Zenon DEF PoolNext
<1> QED BY <1>1, <1>2, PTL DEF PoolSpec

\* Every task is always in exactly one place.
THEOREM TasksNeverDuplicated == PoolSpec => []OnePlace
<1>1. PoolInv => OnePlace
  BY Zenon DEF PoolInv
<1> QED BY <1>1, PoolCorrect, PTL

\* Neither abort() of task_pool_free is reachable.
THEOREM PoolNeverAborts == PoolSpec => []NeverAborts
<1>1. PoolInv => NeverAborts
  BY Zenon DEF PoolInv
<1> QED BY <1>1, PoolCorrect, PTL

\* The tasks a thread that finds nothing leaves to the others' caches.
LEMMA RefusalBound == PoolInv => RefusalMeansLoad
<1> SUFFICES ASSUME PoolInv, NEW th \in Threads, Exhausted(th)
             PROVE  Cardinality((UNION {held[u] \cup {freeing[u]} : u \in Threads}) \ {NoTask})
                      + (Cardinality(Threads) - 1) * CacheSize >= PoolSize
  BY Zenon DEF RefusalMeansLoad
<1> DEFINE used == (UNION {held[u] \cup {freeing[u]} : u \in Threads}) \ {NoTask}
           idle == Tasks \ used
           others == Threads \ {th}
           slots == others \X (1 .. CacheSize)
           filled == {s \in slots : s[2] \in 1 .. Len(cache[s[1]])}
           task == [s \in filled |-> cache[s[1]][s[2]]]
           incache == {task[s] : s \in filled}
<1>t. PoolTypeOK /\ OnePlace /\ \A u \in Threads : Len(cache[u]) <= CacheSize
  BY Zenon DEF PoolInv
<1>u. \A t : t \in used <=> t # NoTask /\ \E u \in Threads : t \in held[u] \/ t = freeing[u]
  <2>1. ASSUME NEW t, t \in UNION {held[u] \cup {freeing[u]} : u \in Threads}
        PROVE  \E u \in Threads : t \in held[u] \/ t = freeing[u]
    BY <2>1, Zenon
  <2>2. ASSUME NEW t, NEW u \in Threads, t \in held[u] \/ t = freeing[u]
        PROVE  t \in UNION {held[x] \cup {freeing[x]} : x \in Threads}
    <3>1. held[u] \cup {freeing[u]} \in {held[x] \cup {freeing[x]} : x \in Threads}
      BY Zenon
    <3>2. t \in held[u] \cup {freeing[u]}
      BY <2>2, Zenon
    <3> QED
      BY <3>1, <3>2, Zenon
  <2> QED
    BY <2>1, <2>2, Zenon
<1> HIDE DEF used
<1>1. \A t \in idle : \E u \in others : t \in Range(cache[u])
  <2> SUFFICES ASSUME NEW t \in Tasks, t \notin used
               PROVE  \E u \in others : t \in Range(cache[u])
    BY Zenon
  <2>1. Range(stack) = {} /\ Range(cache[th]) = {}
    <3>1. stack = <<>> /\ cache[th] = <<>>
      BY Zenon DEF Exhausted
    <3>2. Range(<<>>) = {}
      BY DEF Range
    <3> QED
      BY <3>1, <3>2, Zenon
  <2>2. t \in Range(stack) \cup UNION {Owned(u) : u \in Threads}
    BY <1>t, Zenon DEF OnePlace
  <2>3. PICK u \in Threads : t \in Owned(u)
    BY <2>1, <2>2, Zenon
  <2>4. t # NoTask
    BY NoTaskNotTask, Zenon
  <2>5. t \notin held[u] /\ t # freeing[u]
    BY <1>u, <2>4, Zenon
  <2>6. t \in Range(cache[u])
    BY <2>3, <2>5, Zenon DEF Owned
  <2>7. u # th
    BY <2>1, <2>6, Zenon
  <2> QED
    BY <2>6, <2>7, Zenon
<1>2. idle \subseteq incache
  <2> SUFFICES ASSUME NEW t \in idle PROVE t \in incache
    BY Zenon
  <2>1. PICK u \in others : t \in Range(cache[u])
    BY <1>1, Zenon
  <2>2. cache[u] \in Seq(Tasks) /\ Len(cache[u]) <= CacheSize
    BY <1>t, <2>1, Zenon DEF PoolTypeOK
  <2>3. PICK n \in 1 .. Len(cache[u]) : cache[u][n] = t
    BY <2>1, <2>2 DEF Range
  <2>4. n \in 1 .. CacheSize
    BY <2>2, <2>3, PoolConstants
  <2>5. <<u, n>> \in filled /\ task[<<u, n>>] = t
    BY <2>1, <2>3, <2>4
  <2> QED
    BY <2>5, Zenon
<1>3. IsFiniteSet(incache) /\ Cardinality(incache) <= Cardinality(filled) /\ IsFiniteSet(filled)
      /\ Cardinality(filled) <= Cardinality(slots)
      /\ Cardinality(slots) = (Cardinality(Threads) - 1) * CacheSize
  <2>1. IsFiniteSet(others) /\ Cardinality(others) = Cardinality(Threads) - 1
    BY PoolConstants, FS_RemoveElement
  <2>2. IsFiniteSet(1 .. CacheSize) /\ Cardinality(1 .. CacheSize) = CacheSize
    BY PoolConstants, FS_Interval
  <2>3. IsFiniteSet(slots) /\ Cardinality(slots) = Cardinality(others) * Cardinality(1 .. CacheSize)
    BY <2>1, <2>2, FS_Product, Zenon
  <2>4. IsFiniteSet(filled) /\ Cardinality(filled) <= Cardinality(slots)
    <3>1. filled \in SUBSET slots
      BY Zenon
    <3> HIDE DEF filled
    <3> QED
      BY <2>3, <3>1, FS_Subset, Zenon
  <2>5. task \in Surjection(filled, incache)
    <3>1. task \in [filled -> incache]
      BY Zenon
    <3>2. \A t \in incache : \E s \in filled : task[s] = t
      BY Zenon
    <3> QED
      BY <3>1, <3>2, Zenon DEF Surjection
  <2>6. IsFiniteSet(incache) /\ Cardinality(incache) <= Cardinality(filled)
    <3> HIDE DEF filled, task, incache
    <3> QED
      BY <2>4, <2>5, FS_Surjection, Zenon
  <2> QED
    BY <2>1, <2>2, <2>3, <2>4, <2>6, Zenon
<1>4. Cardinality(idle) <= Cardinality(incache) /\ Cardinality(idle) \in Nat
  <2>1. idle \in SUBSET incache
    BY <1>2, Zenon
  <2> HIDE DEF incache, idle
  <2> QED
    BY <1>3, <2>1, FS_Subset, FS_CardinalityType, Zenon
<1>5. Cardinality(idle) = PoolSize - Cardinality(used) /\ Cardinality(used) \in Nat
  <2>1. IsFiniteSet(Tasks) /\ Cardinality(Tasks) = PoolSize
    BY PoolConstants, FS_Interval DEF Tasks
  <2>2. used \in SUBSET Tasks
    <3>1. \A u \in Threads : held[u] \subseteq Tasks /\ freeing[u] \in Tasks \cup {NoTask}
      BY <1>t, Zenon DEF PoolTypeOK
    <3> QED
      BY <1>u, <3>1, Zenon
  <2>3. Tasks \cap used = used
    BY <2>2, Zenon
  <2>4. IsFiniteSet(used) /\ Cardinality(used) \in Nat
    BY <2>1, <2>2, FS_Subset, FS_CardinalityType, Zenon
  <2>5. Cardinality(Tasks \ used) = Cardinality(Tasks) - Cardinality(Tasks \cap used)
    BY <2>1, FS_Difference, Zenon
  <2> QED
    BY <2>1, <2>3, <2>4, <2>5, Zenon
<1>6. /\ Cardinality(incache) \in Nat /\ Cardinality(filled) \in Nat
      /\ (Cardinality(Threads) - 1) * CacheSize \in Int
  <2>1. Cardinality(Threads) \in Nat
    BY PoolConstants, FS_CardinalityType, Zenon
  <2> HIDE DEF incache, filled
  <2>2. Cardinality(incache) \in Nat /\ Cardinality(filled) \in Nat
    BY <1>3, FS_CardinalityType, Zenon
  <2>3. (Cardinality(Threads) - 1) * CacheSize \in Int
    BY <2>1, PoolConstants
  <2> QED
    BY <2>2, <2>3, Zenon
<1> HIDE DEF idle, incache, filled, slots
<1>7. Cardinality(used) + (Cardinality(Threads) - 1) * CacheSize >= PoolSize
  <2>1. PICK k \in Int : k = (Cardinality(Threads) - 1) * CacheSize
    BY <1>6, Zenon
  <2>2. /\ Cardinality(idle) <= Cardinality(incache) /\ Cardinality(incache) <= Cardinality(filled)
        /\ Cardinality(filled) <= k
    BY <1>3, <1>4, <2>1, Zenon
  <2>3. Cardinality(used) + k >= PoolSize
    BY <1>4, <1>5, <1>6, <2>2, PoolConstants
  <2> QED
    BY <2>1, <2>3, Zenon
<1> QED
  BY <1>7, Zenon DEF used

\* An allocation fails only under load, for every number of threads and every
\* size of slab and caches: all tasks are in use but those that the caches of
\* the other threads can hold.
THEOREM RefusalsMeanLoad == PoolSpec => []RefusalMeansLoad
  BY RefusalBound, PoolCorrect, PTL

(***************************************************************************)
(* The lease contract.                                                     *)
(***************************************************************************)

\* Every step of the pool is a lease, a return or invisible to its callers.
LEMMA LeaseRefinementStep ==
  ASSUME PoolInv, [PoolNext]_pool_vars
  PROVE  [TL!TaskLeaseNext]_held
<1> USE NoTaskNotTask DEF PoolInv
<1>1. ASSUME NEW th \in Threads, NEW t \in Tasks, NEW clear,
             \A u \in Threads : t \notin held[u], Deliver(th, t, clear)
      PROVE  TL!TaskLeaseNext \/ held' = held
  BY <1>1, Zenon DEF Deliver, TL!TaskLeaseNext, TL!Lease
<1>2. ASSUME NEW th \in Threads, task_pool_alloc_cached(th)
      PROVE  TL!TaskLeaseNext \/ held' = held
  <2>1. /\ cache[th] \in Seq(Tasks) /\ cache[th] # <<>> /\ IsInjective(cache[th])
        /\ Deliver(th, Top(cache[th]), {Top(cache[th])})
    BY <1>2, Zenon DEF task_pool_alloc_cached, Ready, PoolTypeOK, OnePlace
  <2>2. Top(cache[th]) \in Tasks /\ Top(cache[th]) \in Range(cache[th])
    <3>1. /\ Top(cache[th]) \in Tasks
          /\ Range(cache[th]) = Range(Below(cache[th])) \cup {Top(cache[th])}
      BY <2>1, PopLast, Zenon
    <3> QED BY <3>1, Zenon
  <2>3. \A u \in Threads : Top(cache[th]) \notin held[u]
    BY <2>2, Zenon DEF OnePlace, Owned
  <2> QED BY <1>1, <2>1, <2>2, <2>3, Zenon
<1>3. ASSUME NEW th \in Threads, task_pool_alloc_batch(th)
      PROVE  TL!TaskLeaseNext \/ held' = held
  <2>1. /\ stack \in Seq(Tasks) /\ stack # <<>> /\ IsInjective(stack)
        /\ Deliver(th, Taken[Batch], {Taken[i] : i \in 1 .. Batch})
    BY <1>3, Zenon DEF task_pool_alloc_batch, Ready, PoolTypeOK, OnePlace
  <2>2. Taken[Batch] \in Tasks /\ Taken[Batch] \in Range(stack)
    BY <2>1, BatchMove, Zenon
  <2>3. \A u \in Threads : Taken[Batch] \notin held[u]
    BY <2>2, Zenon DEF OnePlace, Owned
  <2> QED BY <1>1, <2>1, <2>2, <2>3, Zenon
<1>4. ASSUME NEW th \in Threads, NEW t \in Tasks, task_pool_free(th, t)
      PROVE  TL!TaskLeaseNext
  BY <1>4, Zenon DEF task_pool_free, TL!TaskLeaseNext, TL!Return
<1>5. ASSUME NEW th \in Threads,
             task_pool_alloc_refused(th) \/ task_pool_free_store(th)
               \/ \E t \in Tasks : WriteReply(th, t)
      PROVE  held' = held
  BY <1>5, Zenon DEF task_pool_alloc_refused, task_pool_free_store, WriteReply
<1>6. CASE UNCHANGED pool_vars
  BY <1>6, Zenon DEF pool_vars
<1> QED BY <1>2, <1>3, <1>4, <1>5, <1>6, Zenon DEF PoolNext

\* The detailed allocator implements the abstract lease contract.
THEOREM PoolRefinesLease == PoolSpec => ImplementsTaskLease
<1>1. PoolInit => TL!TaskLeaseInit
  BY Zenon DEF PoolInit, TL!TaskLeaseInit
<1>2. PoolInv /\ [PoolNext]_pool_vars => [TL!TaskLeaseNext]_held
  BY LeaseRefinementStep, Zenon
<1> QED
  BY <1>1, <1>2, PoolCorrect, PTL DEF PoolSpec, ImplementsTaskLease, TL!TaskLeaseSpec

\* A lease never starts with bytes of an earlier request in its buffer.
THEOREM LeasesAreClean == PoolSpec => CleanLease
<1> DEFINE Clean == \A th \in Threads : \A t \in held'[th] \ held[th] : buf'[t] = "empty"
<1>1. PoolInv /\ [PoolNext]_pool_vars => [Clean]_pool_vars
  <2> SUFFICES ASSUME PoolInv, PoolNext PROVE Clean
    BY Zenon DEF pool_vars
  <2>1. ASSUME NEW th \in Threads, NEW t, NEW clear, t \in Tasks, Deliver(th, t, clear)
        PROVE  Clean
    BY <2>1, SMTT(20) DEF Deliver, PoolInv, PoolTypeOK
  <2>2. ASSUME NEW th \in Threads, task_pool_alloc_cached(th) PROVE Clean
    <3>1. Top(cache[th]) \in Tasks
      BY <2>2, PopLast, Zenon DEF task_pool_alloc_cached, PoolInv, PoolTypeOK, OnePlace
    <3> QED BY <2>1, <2>2, <3>1, Zenon DEF task_pool_alloc_cached
  <2>3. ASSUME NEW th \in Threads, task_pool_alloc_batch(th) PROVE Clean
    <3>1. Taken[Batch] \in Tasks
      BY <2>3, BatchMove, Zenon DEF task_pool_alloc_batch, PoolInv, PoolTypeOK, OnePlace
    <3> QED BY <2>1, <2>3, <3>1, Zenon DEF task_pool_alloc_batch
  <2>4. ASSUME NEW th \in Threads, NEW t \in Tasks, task_pool_free(th, t) PROVE Clean
    BY <2>4, Zenon DEF task_pool_free, PoolInv, PoolTypeOK
  <2>5. ASSUME NEW th \in Threads,
               task_pool_alloc_refused(th) \/ task_pool_free_store(th)
                 \/ \E t \in Tasks : WriteReply(th, t)
        PROVE  Clean
    BY <2>5, Zenon DEF task_pool_alloc_refused, task_pool_free_store, WriteReply
  <2> QED BY <2>2, <2>3, <2>4, <2>5, Zenon DEF PoolNext
<1> QED BY <1>1, PoolCorrect, PTL DEF PoolSpec, CleanLease
=============================================================================
