------------------------------ MODULE Startup -------------------------------
(***************************************************************************)
(* server_start of lib/server.c: the main thread loads the configuration,  *)
(* makes the global structures and the worker pools, starts the reactor    *)
(* threads and meets them at a barrier; then it waits for signals, reloads *)
(* the configuration on SIGHUP and shuts the server down on any other.     *)
(*                                                                         *)
(* What the threads do once the reactors are in their event loops is in    *)
(* ApiServer; here a step is a call that can fail or that another thread   *)
(* can tell apart.  LOG_FATAL ends the process at once, so the clean-ups   *)
(* that follow it in the code are never reached.                           *)
(***************************************************************************)
EXTENDS Config, FiniteSets

CONSTANTS NumReactors    \* setup_core_tracking: the cores, or 4

ASSUME StartupConstants == NumReactors \in 1 .. 64

Reactors == 0 .. NumReactors - 1
Arrays == {"g_reactor_stats", "g_reactor_bases", "g_reactor_queues"}
Pools == {"fast", "slow"}

VARIABLES main,              \* where the main thread is
          exit,              \* how the process has ended, "no" while it runs
          logger,            \* whether the logger's thread exists
          pending,           \* the blocked signals that wait for sigwait
          made,              \* the global structures that exist
          misfreed,          \* those used or released while they did not exist
          num_workers,       \* the threads of each pool that are not yet joined
          spawned,           \* the reactor threads created so far
          reactor,           \* where each of them is
          base,              \* which of the event bases exist
          g_reactor_bases,   \* the reactors whose base is published
          g_startup_failed,
          arrived,           \* how many threads have come to the barrier
          event_break,       \* external: the loops that were told to stop
          broken,            \* the loops the main thread has told to stop
          lost               \* history: a stop that came before the loop

globals == <<made, misfreed, num_workers>>
process == <<exit, logger, pending>>
reactorVars == <<reactor, base, g_reactor_bases, g_startup_failed, arrived, event_break, lost>>
vars == <<configVars, main, process, globals, spawned, reactorVars, broken>>

Resources == Arrays \cup {"libraries", "slab", "eventfds", "barrier", "pools", "bases"}

TypeOK == /\ main \in {"logger", "config", "signals", "metadata", "slab", "arrays", "pools",
                       "cleanup_failed", "jwt", "spawn", "barrier", "sigwait", "reload",
                       "stop", "break", "join", "cleanup", "end"}
          /\ exit \in {"no", "success", "failure", "killed"}
          /\ logger \in BOOLEAN /\ g_startup_failed \in BOOLEAN
          /\ pending \subseteq {"SIGHUP", "SIGTERM"}
          /\ made \subseteq Resources /\ misfreed \subseteq Resources
          /\ num_workers \in [Pools -> Nat]
          /\ spawned \in 0 .. NumReactors /\ broken \in 0 .. NumReactors
          /\ arrived \in 0 .. NumReactors + 1
          /\ reactor \in [Reactors -> {"none", "base", "socket", "http", "ready", "failed", "barrier",
                                       "leaving", "check", "dispatch", "loop", "returned"}]
          /\ base \subseteq Reactors /\ g_reactor_bases \subseteq Reactors
          /\ event_break \subseteq Reactors /\ lost \subseteq Reactors

Init == /\ ConfigInit
        /\ main = "logger" /\ exit = "no" /\ logger = FALSE /\ pending = {}
        /\ made = {} /\ misfreed = {} /\ num_workers = [p \in Pools |-> 0]
        /\ spawned = 0 /\ reactor = [r \in Reactors |-> "none"]
        /\ base = {} /\ g_reactor_bases = {} /\ g_startup_failed = FALSE /\ arrived = 0
        /\ event_break = {} /\ broken = 0 /\ lost = {}

Running == exit = "no"

\* pthread_barrier_init, and whether the barrier is open.
BarrierSize == NumReactors + 1
Open == arrived = BarrierSize

\* The main thread goes on to l.
Main(m, l) == Running /\ main = m /\ main' = l

\* LOG_FATAL: the process ends.
LOG_FATAL == exit' = "failure" /\ UNCHANGED <<logger, pending>>

----------------------------------------------------------------------------
(* server_start, up to the reactors *)

\* The thread is created before any signal is blocked.
logger_init ==
    /\ Main("logger", "config")
    /\ logger' \in BOOLEAN
    /\ UNCHANGED <<configVars, exit, pending, globals, spawned, reactorVars, broken>>

load_configuration ==
    /\ \/ Main("config", "signals") /\ config_init /\ UNCHANGED process
       \/ /\ Main("config", "end") /\ MissingRequired
          /\ LOG_FATAL /\ UNCHANGED configVars
    /\ UNCHANGED <<globals, spawned, reactorVars, broken>>

setup_signals ==
    /\ Main("signals", "metadata")
    /\ UNCHANGED <<configVars, process, globals, spawned, reactorVars, broken>>

\* A step of server_init_globals makes rs, or the process ends.
Makes(m, l, rs) ==
    /\ \/ Main(m, l) /\ made' = made \cup rs /\ UNCHANGED process
       \/ Main(m, "end") /\ LOG_FATAL /\ UNCHANGED made
    /\ UNCHANGED <<configVars, misfreed, num_workers, spawned, reactorVars, broken>>

init_server_metadata == Makes("metadata", "slab", {"libraries"})
task_pool_init == Makes("slab", "arrays", {"slab"})

\* The arrays are allocated, any of them may not be; then the descriptors and
\* the barrier are made.
init_reactor_queues ==
    \/ Makes("arrays", "pools", Arrays \cup {"eventfds", "barrier"})
    \/ /\ Main("arrays", "cleanup_failed")
       /\ \E as \in SUBSET Arrays : as # Arrays /\ made' = made \cup as
       /\ UNCHANGED <<configVars, process, misfreed, num_workers, spawned,
                      reactorVars, broken>>

\* The pools are made with their threads.  When one of these cannot be
\* created, worker_pool_shutdown joins the others and the pools are gone.
worker_pool_init ==
    LET n == bg_workers_count(conf, NumReactors)
        pct == conf.fast_pool_percentage
        split == [fast |-> fast_workers(n, pct), slow |-> slow_workers(n, pct)]
    IN /\ \/ /\ Main("pools", "jwt") /\ UNCHANGED process
             /\ made' = made \cup {"pools"} /\ num_workers' = split
          \/ Main("pools", "cleanup_failed") /\ UNCHANGED <<process, made, num_workers>>
          \/ Main("pools", "end") /\ LOG_FATAL /\ UNCHANGED <<made, num_workers>>
       /\ UNCHANGED <<configVars, misfreed, spawned, reactorVars, broken>>

\* What server_cleanup_globals takes for made: with the queues it takes the
\* descriptors in them and the barrier.
Released == IF "g_reactor_queues" \in made THEN made \cup {"eventfds", "barrier"} ELSE made

server_cleanup_globals ==
    /\ misfreed' = misfreed \cup (Released \ made)
    /\ made' = {}
    /\ num_workers' = [p \in Pools |-> 0]

\* setup_core_tracking: server_init_globals has failed and cleaned up.
setup_core_tracking_fails ==
    /\ Main("cleanup_failed", "end")
    /\ server_cleanup_globals
    /\ LOG_FATAL
    /\ UNCHANGED <<configVars, spawned, reactorVars, broken>>

\* The secret must be 64 hexadecimal digits.
jwt_init ==
    /\ \/ conf.jwt_secret # Malformed /\ Main("jwt", "spawn") /\ UNCHANGED process
       \/ conf.jwt_secret = Malformed /\ Main("jwt", "end") /\ LOG_FATAL
    /\ UNCHANGED <<configVars, globals, spawned, reactorVars, broken>>

\* One thread after the other; then the main thread comes to the barrier.
spawn_worker_threads ==
    /\ \/ /\ Main("spawn", "spawn") /\ spawned < NumReactors
          /\ spawned' = spawned + 1
          /\ reactor' = [reactor EXCEPT ![spawned] = "base"]
          /\ UNCHANGED <<process, arrived>>
       \/ /\ Main("spawn", "end") /\ spawned < NumReactors
          /\ LOG_FATAL
          /\ UNCHANGED <<spawned, reactor, arrived>>
       \/ /\ Main("spawn", "barrier") /\ spawned = NumReactors
          /\ arrived' = arrived + 1
          /\ UNCHANGED <<spawned, reactor, process>>
    /\ UNCHANGED <<configVars, globals, base, g_reactor_bases, g_startup_failed, event_break,
                   lost, broken>>

\* The barrier is open: the main thread asks whether a reactor has failed.
server_did_startup_fail ==
    /\ Open
    /\ \/ ~g_startup_failed /\ Main("barrier", "sigwait") /\ UNCHANGED process
       \/ g_startup_failed /\ Main("barrier", "end") /\ LOG_FATAL
    /\ UNCHANGED <<configVars, globals, spawned, reactorVars, broken>>

----------------------------------------------------------------------------
(* reactor_thread_logic *)

Reactor(r, m, l) == Running /\ reactor[r] = m /\ reactor' = [reactor EXCEPT ![r] = l]

\* Mutant: the failure is not told to the others.
create_optimized_event_base_Quiet(r) ==
    /\ \/ /\ Reactor(r, "base", "socket")
          /\ base' = base \cup {r} /\ g_reactor_bases' = g_reactor_bases \cup {r}
       \/ Reactor(r, "base", "failed") /\ UNCHANGED <<base, g_reactor_bases>>
    /\ UNCHANGED <<configVars, main, process, globals, spawned, broken, arrived, event_break,
                   lost, g_startup_failed>>

\* The base is published, or the failure is.
create_optimized_event_base(r) ==
    /\ \/ /\ Reactor(r, "base", "socket")
          /\ base' = base \cup {r} /\ g_reactor_bases' = g_reactor_bases \cup {r}
          /\ UNCHANGED g_startup_failed
       \/ /\ Reactor(r, "base", "failed")
          /\ g_startup_failed' = TRUE
          /\ UNCHANGED <<base, g_reactor_bases>>
    /\ UNCHANGED <<configVars, main, process, globals, spawned, broken, arrived, event_break, lost>>

\* A step on the reactor's way to the barrier that succeeds or is fatal.
OrFatal(r, m, l) ==
    /\ \/ Reactor(r, m, l) /\ UNCHANGED process
       \/ Reactor(r, m, m) /\ LOG_FATAL
    /\ UNCHANGED <<configVars, main, globals, spawned, broken, base, g_reactor_bases,
                   g_startup_failed, arrived, event_break, lost>>

create_and_bind_socket(r) == OrFatal(r, "socket", "http")
configure_http_server(r) == OrFatal(r, "http", "ready")

\* Mutant: a thread that has failed does not come to the barrier.
barrier_wait_NotFailed(r) ==
    /\ \/ Reactor(r, "ready", "barrier") /\ arrived' = arrived + 1
       \/ Reactor(r, "failed", "returned") /\ UNCHANGED arrived
       \/ Reactor(r, "barrier", "check") /\ Open /\ UNCHANGED arrived
    /\ UNCHANGED <<configVars, main, process, globals, spawned, broken, base, g_reactor_bases,
                   g_startup_failed, event_break, lost>>

\* pthread_barrier_wait: the thread arrives, and goes on when it is open.
barrier_wait(r) ==
    /\ \/ Reactor(r, "ready", "barrier") /\ arrived' = arrived + 1
       \/ Reactor(r, "failed", "leaving") /\ arrived' = arrived + 1
       \/ Reactor(r, "barrier", "check") /\ Open /\ UNCHANGED arrived
       \/ Reactor(r, "leaving", "returned") /\ Open /\ UNCHANGED arrived
    /\ UNCHANGED <<configVars, main, process, globals, spawned, broken, base, g_reactor_bases,
                   g_startup_failed, event_break, lost>>

\* A reactor that is well gives up if another one is not.
check_startup_failed(r) ==
    /\ \/ /\ Reactor(r, "check", "returned") /\ g_startup_failed
          /\ g_reactor_bases' = g_reactor_bases \ {r} /\ base' = base \ {r}
       \/ /\ Reactor(r, "check", "dispatch") /\ ~g_startup_failed
          /\ UNCHANGED <<g_reactor_bases, base>>
    /\ UNCHANGED <<configVars, main, process, globals, spawned, broken, g_startup_failed,
                   arrived, event_break, lost>>

\* event_base_dispatch: a loop that starts forgets an earlier break.
event_base_dispatch(r) ==
    /\ Reactor(r, "dispatch", "loop")
    /\ event_break' = event_break \ {r}
    /\ lost' = lost \cup (event_break \cap {r})
    /\ UNCHANGED <<configVars, main, process, globals, spawned, broken, base, g_reactor_bases,
                   g_startup_failed, arrived>>

\* The loop was told to stop; the base is freed, and stays published.
reactor_returns(r) ==
    /\ Reactor(r, "loop", "returned") /\ r \in event_break
    /\ base' = base \ {r}
    /\ UNCHANGED <<configVars, main, process, globals, spawned, broken, g_reactor_bases,
                   g_startup_failed, arrived, event_break, lost>>

----------------------------------------------------------------------------
(* Signals, wait_and_shutdown *)

\* What the main thread does with a signal it has waited for.
Takes(s) == main' = IF s = "SIGHUP" THEN "reload" ELSE "stop"

\* A signal is sent to the process.  sigwait takes it if the main thread is
\* there.  Otherwise the logger's thread, which blocks no signal, lets it have
\* its default effect; only without that thread it stays pending.
kill(s) ==
    /\ Running
    /\ \/ main = "sigwait" /\ Takes(s) /\ UNCHANGED process
       \/ /\ main # "sigwait"
          /\ main \in {"logger", "config", "signals"} \/ logger
          /\ exit' = "killed" /\ UNCHANGED <<main, logger, pending>>
       \/ /\ main \notin {"sigwait", "logger", "config", "signals"} /\ ~logger
          /\ pending' = pending \cup {s} /\ UNCHANGED <<main, exit, logger>>
    /\ UNCHANGED <<configVars, globals, spawned, reactorVars, broken>>

\* sigwait finds a pending signal.
sigwait ==
    /\ Running /\ main = "sigwait"
    /\ \E s \in pending : Takes(s) /\ pending' = pending \ {s}
    /\ UNCHANGED <<configVars, exit, logger, globals, spawned, reactorVars, broken>>

\* Only a reload sees a change of the file, so it is enough that the file
\* changes while the main thread waits.
operator_edits ==
    /\ Running /\ main = "sigwait"
    /\ edit_file
    /\ UNCHANGED <<main, process, globals, spawned, reactorVars, broken>>

hot_reload ==
    /\ Main("reload", "sigwait")
    /\ config_reload
    /\ UNCHANGED <<process, globals, spawned, reactorVars, broken>>

\* worker_pool_stop joins the workers.  server_drain_reactor_queues, which
\* follows, has nothing to drain: there are no requests in this module.
worker_pool_stop ==
    /\ Main("stop", "break")
    /\ num_workers' = [p \in Pools |-> 0]
    /\ UNCHANGED <<configVars, process, made, misfreed, spawned, reactorVars, broken>>

\* Mutant: the last loop is not told to stop.
server_shutdown_workers_NotLast ==
    /\ \/ /\ Main("break", "break") /\ broken < NumReactors - 1
          /\ broken' = broken + 1
          /\ event_break' = event_break \cup ({broken} \cap g_reactor_bases)
          /\ misfreed' = IF broken \in g_reactor_bases \ base THEN misfreed \cup {"bases"} ELSE misfreed
       \/ /\ Main("break", "join") /\ broken = NumReactors - 1
          /\ UNCHANGED <<broken, event_break, misfreed>>
    /\ UNCHANGED <<configVars, process, made, num_workers, spawned, reactor, base,
                   g_reactor_bases, g_startup_failed, arrived, lost>>

\* event_base_loopbreak on every base that is published.
server_shutdown_workers ==
    /\ \/ /\ Main("break", "break") /\ broken < NumReactors
          /\ broken' = broken + 1
          /\ event_break' = event_break \cup ({broken} \cap g_reactor_bases)
          /\ misfreed' = IF broken \in g_reactor_bases \ base THEN misfreed \cup {"bases"} ELSE misfreed
       \/ /\ Main("break", "join") /\ broken = NumReactors
          /\ UNCHANGED <<broken, event_break, misfreed>>
    /\ UNCHANGED <<configVars, process, made, num_workers, spawned, reactor, base,
                   g_reactor_bases, g_startup_failed, arrived, lost>>

\* The reactors are joined.
join_reactors ==
    /\ Main("join", "cleanup")
    /\ \A r \in Reactors : reactor[r] = "returned"
    /\ UNCHANGED <<configVars, process, globals, spawned, reactorVars, broken>>

server_start_returns ==
    /\ Main("cleanup", "end")
    /\ server_cleanup_globals
    /\ exit' = "success"
    /\ UNCHANGED <<configVars, logger, pending, spawned, reactorVars, broken>>

----------------------------------------------------------------------------
MainThread == \/ logger_init \/ load_configuration \/ setup_signals
              \/ init_server_metadata \/ task_pool_init \/ init_reactor_queues
              \/ worker_pool_init \/ setup_core_tracking_fails \/ jwt_init
              \/ spawn_worker_threads \/ server_did_startup_fail
              \/ sigwait \/ hot_reload \/ worker_pool_stop \/ server_shutdown_workers
              \/ join_reactors \/ server_start_returns

ReactorThread(r) == \/ create_optimized_event_base(r) \/ create_and_bind_socket(r)
                    \/ configure_http_server(r) \/ barrier_wait(r)
                    \/ check_startup_failed(r) \/ event_base_dispatch(r) \/ reactor_returns(r)

Next == \/ MainThread
        \/ \E r \in Reactors : ReactorThread(r)
        \/ \E s \in {"SIGHUP", "SIGTERM"} : kill(s)
        \/ operator_edits
        \/ ~Running /\ UNCHANGED vars

Spec == Init /\ [][Next]_vars

\* The threads are scheduled.  Nobody need send a signal.
FairSpec == Spec /\ WF_vars(MainThread) /\ \A r \in Reactors : WF_vars(ReactorThread(r))

----------------------------------------------------------------------------
(* Properties *)

\* No reactor serves before all of them can, nor ever when one of them has
\* failed: the failure is published before the barrier and read after it.
AllOrNone ==
    \A r \in Reactors : reactor[r] \in {"dispatch", "loop"} =>
       /\ ~g_startup_failed
       /\ \A q \in Reactors : reactor[q] \in {"barrier", "check", "dispatch", "loop", "returned"}

\* What the threads use is there as long as one of them runs, whether the
\* server halts or gives up half-way.
UsedIsMade ==
    \/ made = Resources \ {"bases"}
    \/ /\ \A r \in Reactors : reactor[r] \in {"none", "returned"}
       /\ \A p \in Pools : num_workers[p] = 0

\* Nothing is used or released that does not exist, with one exception: when
\* memory runs out for some of the reactors' arrays, server_cleanup_globals
\* takes the zeros in the queues for descriptors and a barrier.  The process
\* ends right after it.
MisfreedAtTheEnd == misfreed # {} => misfreed = {"eventfds", "barrier"} /\ exit = "failure"

\* Once the configuration is loaded no secret is left in the environment, and
\* no reload puts it back although the file still has it.
SecretsScrubbed == ~is_first_load => \A k \in Secrets : env[k] = Absent

\* Start-up and shutdown keep their order, whatever fails and wherever.
StartupInv == TypeOK /\ AllOrNone /\ UsedIsMade /\ MisfreedAtTheEnd /\ SecretsScrubbed

\* Whatever the configuration says, and whatever a later reload finds in the
\* file, both pools have workers, as many as the settings in force ask for (two
\* at least), and the slab has a task for every place in the queues, every
\* worker and every reactor's cache of 64.  With MAX_QUEUE_SIZE = 0 the queues
\* have no limit and no slab can be large enough: then the slab is only said to
\* cover the workers and the caches.
PoolsStaffed ==
    LET n == bg_workers_count(conf, NumReactors)
    IN num_workers # [p \in Pools |-> 0] =>
          /\ \A p \in Pools : num_workers[p] > 0
          /\ num_workers["fast"] + num_workers["slow"] = IF n = 1 THEN 2 ELSE n
          /\ slab_size(conf, NumReactors) >= 2 * conf.max_queue_size + num_workers["fast"]
                                             + num_workers["slow"] + 64 * NumReactors

\* The access log is as the file says, if the file says anything of it.
SwitchInForce == \/ file = NoFile
                 \/ file["ACCESS_LOG"] = Absent
                 \/ conf.access_log = parse_boolean_env(file["ACCESS_LOG"])

\* A SIGHUP that does not end the process is not forgotten, even when it comes
\* before the server waits for signals: it brings the access log to what the
\* file says by then, unless the server shuts down.  The text in force
\* is that of the file and not the one the first load left in the environment.
ReloadTakesEffect ==
    "SIGHUP" \in pending \/ main = "reload" ~>
       SwitchInForce \/ main \in {"stop", "break", "join", "cleanup"} \/ ~Running

\* Start-up comes to an end: every thread passes the barrier or the process
\* does not go on, and nobody waits there for ever.
StartupSettles == main = "logger" ~> main = "sigwait" \/ ~Running

\* A shutdown comes to an end, unless it told a loop to stop that had not yet
\* begun: event_base_loopbreak has no effect on that one.
ShutdownEnds == main = "stop" ~> ~Running \/ lost # {}
=============================================================================
