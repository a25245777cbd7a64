------------------------------ MODULE ApiServer ------------------------------
(***************************************************************************)
(* The life of a request in lib/server.c: a reactor leases a task for it   *)
(* and hands both to a worker pool, a worker runs the handler and hands    *)
(* the task back to the reactor it came from, and that reactor replies or, *)
(* when the request was cancelled, cleans up.  Around it, the graceful     *)
(* shutdown of wait_and_shutdown.                                          *)
(*                                                                         *)
(* The module composes WorkerPool, CompletionQueue and the contract of the *)
(* task pool, TaskLease, with the request objects of libevent.  A reactor  *)
(* runs one callback at a time: it takes a new event only when it is idle, *)
(* that is in its event loop and not on its way to a pending signal.       *)
(***************************************************************************)
EXTENDS CompletionQueue, WorkerPool

CONSTANTS NumReactors,    \* g_num_reactors
          Requests,       \* the requests that may arrive
          FastRequests,   \* those to routes with is_fast
          NoRequest       \* a null request pointer

\* A reactor is its reactor_id, and NumReactors is one that
\* server_notify_task_done ignores.
ASSUME ApiServerConstants == /\ NumReactors \in Nat \ {0}
                             /\ Reactors = 0 .. NumReactors - 1
                             /\ NoReactor = NumReactors
                             /\ NoRequest \notin Requests

VARIABLE held   \* of TaskLease: the tasks each reactor has leased

VARIABLES
    \* Per request:
    http,       \* libevent's object: "none" before it arrives, "owned" by the
                \* application, "sending" a reply, "sent", or "freed" without
    home,       \* the reactor whose connection it came on
    gone,       \* the requests whose client has disconnected
    cb,         \* the task its on_complete callback points to, or NoTask
    answer,     \* how the application has dealt with it
    \* Per task:
    treq,       \* task->req
    reactor_id, \* task->reactor_id
    cancelled,  \* the tasks whose cancelled flag is set
    ran,        \* the tasks whose status_code a worker has set
    \* Per worker, and of the main thread:
    phase,      \* what a busy worker does next with its task
    drained,    \* how many queues server_drain_reactor_queues saw empty
    broken,     \* how many event loops server_shutdown_workers has broken
    running,    \* the reactor threads that have not returned
    halted      \* server_cleanup_globals has freed everything

requestVars == <<http, home, gone, cb, answer>>
taskVars == <<treq, reactor_id, cancelled, ran>>
mainVars == <<drained, broken, running, halted>>
vars == <<poolVars, cqVars, held, requestVars, taskVars, phase, mainVars>>

TL == INSTANCE TaskLease WITH Threads <- Reactors

\* The tasks in use.
leased == UNION {held[r] : r \in Reactors}

TypeOK == /\ WPTypeOK
          /\ CQTypeOK
          /\ held \in [Reactors -> SUBSET Tasks]
          /\ http \in [Requests -> {"none", "owned", "sending", "sent", "freed"}]
          /\ home \in [Requests -> Reactors \cup {NoReactor}]
          /\ gone \subseteq Requests
          /\ cb \in [Requests -> Tasks \cup {NoTask}]
          /\ answer \in [Requests -> {"none", "refused", "busy", "served", "blank", "dropped"}]
          /\ treq \in [Tasks -> Requests \cup {NoRequest}]
          /\ reactor_id \in [Tasks -> Reactors]
          /\ cancelled \subseteq Tasks
          /\ ran \subseteq Tasks
          /\ phase \in [Workers -> {"none", "check", "run", "notify"}]
          /\ drained \in 0 .. NumReactors
          /\ broken \in 0 .. NumReactors
          /\ running \subseteq Reactors
          /\ halted \in BOOLEAN

Init == /\ WPInit
        /\ CQInit
        /\ TL!TaskLeaseInit
        /\ http = [q \in Requests |-> "none"]
        /\ home = [q \in Requests |-> NoReactor]
        /\ gone = {}
        /\ cb = [q \in Requests |-> NoTask]
        /\ answer = [q \in Requests |-> "none"]
        /\ treq = [t \in Tasks |-> NoRequest]
        /\ reactor_id = [t \in Tasks |-> 0]
        /\ cancelled = {}
        /\ ran = {}
        /\ phase = [w \in Workers |-> "none"]
        /\ drained = 0
        /\ broken = 0
        /\ running = Reactors
        /\ halted = FALSE

----------------------------------------------------------------------------
(* libevent: requests and their connections *)

Idle(r) == r \in running /\ reactor[r] = "loop" /\ signal[r] = "none"

\* evhttp_send_reply: the reply is queued on the connection; a request that
\* has lost its connection is freed instead.
evhttp_send_reply(q, kind) ==
    /\ http' = [http EXCEPT ![q] = IF q \in gone THEN "freed" ELSE "sending"]
    /\ answer' = [answer EXCEPT ![q] = kind]

\* The on_complete callback of q runs, if one is set.
request_on_complete_cb(q) == cancelled' = cancelled \cup ({cb[q]} \ {NoTask})

\* The last byte of a reply has been written.
send_done(q) ==
    /\ http[q] = "sending"
    /\ Idle(home[q])
    /\ http' = [http EXCEPT ![q] = "sent"]
    /\ request_on_complete_cb(q)
    /\ UNCHANGED <<poolVars, cqVars, held, home, gone, cb, answer, treq,
                   reactor_id, ran, phase, mainVars>>

\* The connection is lost.  An owned request outlives it, any other is freed.
\* Whether the on_complete callback runs depends on the state of the
\* connection: both are possible.
disconnect(q) ==
    /\ http[q] \in {"owned", "sending"}
    /\ q \notin gone
    /\ Idle(home[q])
    /\ gone' = gone \cup {q}
    /\ http' = [http EXCEPT ![q] = IF @ = "owned" THEN @ ELSE "freed"]
    /\ request_on_complete_cb(q) \/ UNCHANGED cancelled
    /\ UNCHANGED <<poolVars, cqVars, held, home, cb, answer, treq,
                   reactor_id, ran, phase, mainVars>>

----------------------------------------------------------------------------
(* api_middleware_wrapper on reactor r, for a request q that arrives *)

Arrives(r, q) == /\ Idle(r)
                 /\ http[q] = "none"
                 /\ home' = [home EXCEPT ![q] = r]

\* The request is answered on the spot: a CORS, method or API key check
\* fails, it is a preflight, or a header is too long.  In the last case a
\* task is leased and returned within the step.
api_middleware_wrapper_refuses(r, q) ==
    /\ Arrives(r, q)
    /\ evhttp_send_reply(q, "refused")
    /\ UNCHANGED <<poolVars, cqVars, held, gone, cb, taskVars, phase, mainVars>>

\* server_enqueue_task answers 503 because task_pool_alloc returned nullptr.
\* The contract of the task pool lets it do so at any time.
server_enqueue_task_no_task(r, q) ==
    /\ Arrives(r, q)
    /\ evhttp_send_reply(q, "busy")
    /\ UNCHANGED <<poolVars, cqVars, held, gone, cb, taskVars, phase, mainVars>>

\* The callback that was set before the enqueue is cleared after it failed.
rejected_cb(q, t) == cb' = [cb EXCEPT ![q] = NoTask]

\* server_enqueue_task answers 503 because worker_pool_enqueue returned
\* false: the callback is cleared and the task goes back to the pool.
server_enqueue_task_rejected(r, q, t) ==
    /\ Arrives(r, q)
    /\ t \in Tasks \ leased
    /\ Rejects(Route(q \in FastRequests))
    /\ rejected_cb(q, t)
    /\ evhttp_send_reply(q, "busy")
    /\ treq' = [treq EXCEPT ![t] = NoRequest]
    /\ reactor_id' = [reactor_id EXCEPT ![t] = r]
    /\ cancelled' = cancelled \ {t}
    /\ ran' = ran \ {t}
    /\ UNCHANGED <<poolVars, cqVars, held, gone, phase, mainVars>>

\* What task_pool_alloc resets and server_enqueue_task fills in.
fill_task(r, q, t) ==
    /\ treq' = [treq EXCEPT ![t] = q]
    /\ reactor_id' = [reactor_id EXCEPT ![t] = r]
    /\ cancelled' = cancelled \ {t}
    /\ ran' = ran \ {t}

\* Mutant: evhttp_request_own is not called.
own_request_Not(q, t) ==
    /\ cb' = [cb EXCEPT ![q] = t]
    /\ http' = [http EXCEPT ![q] = "sending"]

\* evhttp_request_set_on_complete_cb and evhttp_request_own.
own_request(q, t) ==
    /\ cb' = [cb EXCEPT ![q] = t]
    /\ http' = [http EXCEPT ![q] = "owned"]

\* server_enqueue_task when the pool accepts the task.
server_enqueue_task(r, q, t) ==
    /\ Arrives(r, q)
    /\ TL!Lease(r, t)
    /\ fill_task(r, q, t)
    /\ own_request(q, t)
    /\ worker_pool_enqueue(r, t, q \in FastRequests)
    /\ UNCHANGED <<cqVars, gone, answer, phase, mainVars>>

\* The pthread_cond_signal that ends worker_pool_enqueue.
enqueue_signal(r) ==
    /\ r \in running
    /\ pthread_cond_signal(r)
    /\ UNCHANGED <<cqVars, held, requestVars, taskVars, phase, mainVars>>

----------------------------------------------------------------------------
(* worker_thread_main *)

\* The worker goes to sleep, wakes up or ends.
worker_idle(w) ==
    /\ writing[w] = NoReactor
    /\ worker_wait(w) \/ worker_exit(w) \/ spurious_wakeup(w)
    /\ UNCHANGED <<cqVars, held, requestVars, taskVars, phase, mainVars>>

worker_take(w) ==
    /\ writing[w] = NoReactor
    /\ worker_pop(w)
    /\ phase' = [phase EXCEPT ![w] = "check"]
    /\ UNCHANGED <<cqVars, held, requestVars, taskVars, mainVars>>

\* Mutant: a cancelled task is let go of and never handed back.
worker_check_Skips(w) ==
    /\ phase[w] = "check"
    /\ phase' = [phase EXCEPT ![w] = IF wtask[w] \in cancelled THEN "none" ELSE "run"]
    /\ IF wtask[w] \in cancelled THEN worker_done(w) ELSE UNCHANGED poolVars
    /\ UNCHANGED <<cqVars, held, requestVars, taskVars, mainVars>>

\* The load of task->cancelled: a cancelled task is not run.
worker_check(w) ==
    /\ phase[w] = "check"
    /\ phase' = [phase EXCEPT ![w] = IF wtask[w] \in cancelled THEN "notify" ELSE "run"]
    /\ UNCHANGED <<poolVars, cqVars, held, requestVars, taskVars, mainVars>>

\* worker_process_task: a check of the pipeline or the handler sets status_code.
worker_process_task(w) ==
    /\ phase[w] = "run"
    /\ phase' = [phase EXCEPT ![w] = "notify"]
    /\ ran' = ran \cup {wtask[w]}
    /\ UNCHANGED <<poolVars, cqVars, held, requestVars, treq, reactor_id,
                   cancelled, mainVars>>

\* server_notify_task_done appends the task to its reactor's queue; from then
\* on the worker no longer looks at it.
worker_notify(w) ==
    /\ phase[w] = "notify"
    /\ server_notify_task_done(w, reactor_id[wtask[w]], wtask[w])
    /\ worker_done(w)
    /\ phase' = [phase EXCEPT ![w] = "none"]
    /\ UNCHANGED <<held, requestVars, taskVars, mainVars>>

\* The eventfd write that ends server_notify_task_done.
worker_wakes_reactor(w) ==
    /\ eventfd_write(w)
    /\ UNCHANGED <<poolVars, held, requestVars, taskVars, phase, mainVars>>

----------------------------------------------------------------------------
(* reactor_eventfd_cb *)

reactor_eventfd_read(r) ==
    /\ Idle(r)
    /\ eventfd_read(r)
    /\ UNCHANGED <<poolVars, held, requestVars, taskVars, phase, mainVars>>

reactor_detach(r) ==
    /\ detach(r)
    /\ UNCHANGED <<poolVars, held, requestVars, taskVars, phase, mainVars>>

\* A cancelled task: the request is freed with no reply, the task returned.
cleanup_cancelled_task(r) ==
    LET t == Head(batch[r])
        q == treq[t]
    IN /\ next_completed(r)
       /\ t \in cancelled
       /\ http' = [http EXCEPT ![q] = "freed"]
       /\ cb' = [cb EXCEPT ![q] = NoTask]
       /\ answer' = [answer EXCEPT ![q] = "dropped"]
       /\ treq' = [treq EXCEPT ![t] = NoRequest]
       /\ TL!Return(r, t)
       /\ UNCHANGED <<poolVars, home, gone, reactor_id, cancelled, ran, phase, mainVars>>

\* Mutant: the cancelled flag is not looked at again.
process_completed_task_Always(r) ==
    LET t == Head(batch[r])
        q == treq[t]
    IN /\ next_completed(r)
       /\ cb' = [cb EXCEPT ![q] = NoTask]
       /\ evhttp_send_reply(q, IF t \in ran THEN "served" ELSE "blank")
       /\ treq' = [treq EXCEPT ![t] = NoRequest]
       /\ TL!Return(r, t)
       /\ UNCHANGED <<poolVars, home, gone, reactor_id, cancelled, ran, phase, mainVars>>

\* Any other task: the callback is cleared, the reply sent, the task returned.
\* A task no worker ran would be replied to with status code 0 ("blank").
process_completed_task(r) ==
    LET t == Head(batch[r])
        q == treq[t]
    IN /\ next_completed(r)
       /\ t \notin cancelled
       /\ cb' = [cb EXCEPT ![q] = NoTask]
       /\ evhttp_send_reply(q, IF t \in ran THEN "served" ELSE "blank")
       /\ treq' = [treq EXCEPT ![t] = NoRequest]
       /\ TL!Return(r, t)
       /\ UNCHANGED <<poolVars, home, gone, reactor_id, cancelled, ran, phase, mainVars>>

----------------------------------------------------------------------------
(* wait_and_shutdown, on the main thread *)

\* Mutant: worker_pool_stop sets the flags and does not broadcast.
main_stops_pools_Quiet ==
    /\ \E p \in Pools :
          \/ worker_pool_stop_set(p) \/ worker_pool_stop_join(p)
          \/ /\ stop[p] = "set"
             /\ stop' = [stop EXCEPT ![p] = "told"]
             /\ UNCHANGED <<queue, size, shutdown, worker, wtask, signal>>
    /\ UNCHANGED <<cqVars, held, requestVars, taskVars, phase, mainVars>>

\* worker_pool_stop, step by step.
main_stops_pools ==
    /\ \E p \in Pools : Stop(p)
    /\ UNCHANGED <<cqVars, held, requestVars, taskVars, phase, mainVars>>

\* Mutant: the queues are not waited for.
server_drain_reactor_queues_NoWait ==
    /\ stop["slow"] = "joined"
    /\ drained < NumReactors
    /\ drained' = drained + 1
    /\ UNCHANGED <<poolVars, cqVars, held, requestVars, taskVars, phase,
                   broken, running, halted>>

\* server_drain_reactor_queues: queue after queue is polled until it is empty.
server_drain_reactor_queues ==
    /\ stop["slow"] = "joined"
    /\ drained < NumReactors
    /\ cq[drained] = <<>>
    /\ drained' = drained + 1
    /\ UNCHANGED <<poolVars, cqVars, held, requestVars, taskVars, phase,
                   broken, running, halted>>

\* server_shutdown_workers: event_base_loopbreak on one loop after the other.
server_shutdown_workers ==
    /\ drained = NumReactors
    /\ broken < NumReactors
    /\ broken' = broken + 1
    /\ UNCHANGED <<poolVars, cqVars, held, requestVars, taskVars, phase,
                   drained, running, halted>>

\* event_base_dispatch returns when the callback in progress has; a few more
\* may run before.  cleanup_evhttp closes the connections, and with them the
\* replies still being sent.
reactor_thread_returns(r) ==
    /\ Idle(r)
    /\ r < broken
    /\ running' = running \ {r}
    /\ http' = [q \in Requests |-> IF home[q] = r /\ http[q] = "sending"
                                   THEN "freed" ELSE http[q]]
    /\ UNCHANGED <<poolVars, cqVars, held, home, gone, cb, answer, taskVars,
                   phase, drained, broken, halted>>

\* All reactors are joined and server_cleanup_globals frees what they used.
server_cleanup_globals ==
    /\ broken = NumReactors
    /\ running = {}
    /\ halted' = TRUE
    /\ UNCHANGED <<poolVars, cqVars, held, requestVars, taskVars, phase,
                   drained, broken, running>>

----------------------------------------------------------------------------
Reactor(r) == \/ enqueue_signal(r)
              \/ reactor_eventfd_read(r)
              \/ reactor_detach(r)
              \/ cleanup_cancelled_task(r)
              \/ process_completed_task(r)
              \/ reactor_thread_returns(r)

Arrival(r, q) == \/ api_middleware_wrapper_refuses(r, q)
                 \/ server_enqueue_task_no_task(r, q)
                 \/ \E t \in Tasks : \/ server_enqueue_task_rejected(r, q, t)
                                     \/ server_enqueue_task(r, q, t)

Worker(w) == \/ worker_idle(w)
             \/ worker_take(w)
             \/ worker_check(w)
             \/ worker_process_task(w)
             \/ worker_notify(w)
             \/ worker_wakes_reactor(w)

Main == \/ main_stops_pools
        \/ server_drain_reactor_queues
        \/ server_shutdown_workers
        \/ server_cleanup_globals

Next == \/ \E r \in Reactors : Reactor(r) \/ \E q \in Requests : Arrival(r, q)
        \/ \E q \in Requests : send_done(q) \/ disconnect(q)
        \/ \E w \in Workers : Worker(w)
        \/ Main

Spec == Init /\ [][Next]_vars

\* Threads are scheduled and handlers return.  Nothing is assumed of clients,
\* of the network, or of the operator: a shutdown need never begin.
Fairness ==
    /\ \A r \in Reactors : WF_vars(Reactor(r))
    /\ \A w \in Workers : /\ WF_vars(worker_take(w) \/ worker_check(w)
                                     \/ worker_process_task(w) \/ worker_notify(w)
                                     \/ worker_wakes_reactor(w))
                          /\ WF_vars(worker_idle(w) /\ worker[w] = "lock")
    /\ WF_vars(stop["fast"] # "up" /\ Main)

FairSpec == Spec /\ Fairness

----------------------------------------------------------------------------
(* Properties *)

\* How often task t appears in a sequence.
Count(s, t) == Cardinality({i \in 1 .. Len(s) : s[i] = t})

\* A leased task is in exactly one place, whether a pool's queue, a worker's
\* hands, a completion queue or a detached batch, and a free one in none; and
\* until it is returned its request is alive, because evhttp_request_own keeps
\* it from being freed with its connection.
HandedOver ==
    \A t \in Tasks :
       LET places ==
             Count(queue["fast"], t) + Count(queue["slow"], t)
             + Cardinality({w \in Workers : wtask[w] = t})
             + Cardinality({r \in Reactors : Count(cq[r], t) = 1})
             + Cardinality({r \in Reactors : Count(batch[r], t) = 1})
       IN IF t \in leased
          THEN places = 1 /\ treq[t] \in Requests /\ http[treq[t]] = "owned"
          ELSE places = 0

\* A request is only touched on the thread that owns its connection: a task
\* comes back to the reactor that leased it, where libevent and the cache of
\* the task pool expect it.
SameReactor ==
    \A r \in Reactors : \A t \in Tasks :
       Count(cq[r], t) + Count(batch[r], t) > 0 => t \in held[r] /\ home[treq[t]] = r

\* An on_complete callback never outlives the lease it was set for, so it
\* cannot cancel the task of a later request.
CallbackIsCurrent ==
    \A q \in Requests : cb[q] # NoTask => cb[q] \in leased /\ treq[cb[q]] = q

\* What holds of tasks and requests all the time, disconnects and shutdown
\* included: they are handed over whole, come back to their own reactor, and
\* are only reached by their own callbacks.
ServerInv == TypeOK /\ HandedOver /\ SameReactor /\ CallbackIsCurrent

\* When the last reactor has returned, nothing is left behind for
\* server_cleanup_globals to free under someone's hands: no task is leased, no
\* request is owned, and no worker or signal is on its way.
HaltIsClean ==
    running = {} => /\ leased = {}
                    /\ \A q \in Requests : http[q] # "owned"
                    /\ \A w \in Workers : worker[w] = "exited" /\ writing[w] = NoReactor
                    /\ \A r \in Reactors : signal[r] = "none" /\ eventfd[r] = 0

\* The server keeps its promise to clients.  A reply with status code 0 would
\* be no state of the abstract service.
RequestState(q) == IF http[q] = "none" THEN "new"
                   ELSE IF answer[q] = "none" THEN "accepted"
                   ELSE IF answer[q] \in {"dropped", "blank"} THEN answer[q]
                   ELSE "answered"
RS == INSTANCE RequestService WITH state <- [q \in Requests |-> RequestState(q)]
ImplementsRequestService == RS!ServiceSpec

\* Every accepted request is answered or, its client gone, cleaned up: as
\* each of the requests comes once, there is a time after which the
\* application owns none, whether or not the server is shut down.
AcceptedIsSettled == <>[](\A q \in Requests : http[q] # "owned")

\* A graceful shutdown, once begun, ends: no thread it joins waits for ever.
ShutdownCompletes == stop["fast"] # "up" ~> halted
=============================================================================
