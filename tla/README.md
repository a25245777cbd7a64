# A TLA+ model of evhttp-apiserver

This directory holds TLA+ modules that model the server of this repository, the
TLC configurations that check them on small instances, and proofs that TLAPS
checks for every instance. `PROJECT.json` maps every definition to the lines it
models and lists the runs, mutants, findings, hazards and theorems.

## 1. The system

The process is a multi-reactor HTTP server. A *reactor* is a thread with its own
libevent loop, and there is one per core. A request goes through these steps.

1. A reactor checks the origin, the method and the telemetry key, takes a task
   from the *task pool*, takes ownership of the libevent request and puts the
   task into the queue of the *fast* or the *slow worker pool*.
2. A worker takes the task, unless it was cancelled checks the token, parses and
   validates the body and runs the handler, which may call the database or a
   remote service, and writes the reply into the task's buffer.
3. The worker appends the task to the *completion queue* of the task's reactor
   and, if that queue was empty, writes to its eventfd.
4. The reactor detaches the queue, sends each reply or, if the client has gone,
   cleans up, and returns the task to the pool.

Before that, `server_start` loads the configuration, makes the pools and queues,
starts the reactors and meets them at a barrier, so that they all serve or none
does; then the main thread waits for signals. SIGHUP reloads the configuration.
Any other signal starts the *graceful shutdown*: stop and join the workers, wait until
the completion queues are empty, break the reactors' loops, join them, free the
globals, stop the logger.

### Inventory

| Part | State | Operations | Talks to | What is hard |
|---|---|---|---|---|
| Task pool (`lib/task_pool.c`) | slab, stack, thread caches, free flags | alloc, free | reactors | flags changed outside the mutex, batch refill and flush, reused buffers |
| Worker pools (`lib/worker_pool.c`) | per pool: list, size, shutdown flag, mutex, condition | enqueue, worker loop, stop | reactors, workers, main | signal and broadcast outside the mutex, queue limit, drain on stop |
| Completion queues (`lib/server.c`) | per reactor: list, eventfd | notify, callback | workers, reactors | coalesced wakeups |
| Request life cycle (`lib/server.c`) | ownership of request and task, callback, cancelled flag | middleware, callback on completion, reply, clean-up, shutdown | all of the above, libevent | disconnect at any moment, shutdown with work in flight |
| Request pipeline (`lib/server.c`, `worker_pool.c`, `context.c`, `thread_error.c`) | thread-local user, content type, error, request id | the checks, the handler, the clean-up, the reply | handlers | state left on a thread, checks on two threads |
| Logger (`lib/logger.c`) | buffers, ring, flags | log, batch, stop | every thread | one signal per burst, short writes, fatal lines during a stop |
| Token cache (`src/customer.c`) | token, expiry, back-off, refreshing flag | get, refresh, invalidate | workers, remote service | single flight, followers that sleep without a limit |
| Database access (`lib/dbapi.c`) | thread-local connections and statements, native error | connect, execute, bind, fetch, clean up | ODBC driver | handles freed under their callers, failures half-way |
| Validation (`lib/validation.c`, schemas in `src/handlers.c`) | none | validate, bind | pipeline | integer widths, calendar, characters and bytes |
| HTTP client (`lib/http_client.c`) | thread-local curl handle, response buffer | request, write callback, clean-up | libcurl | growth and limit, pointers left in the handle |
| JSON writing (`lib/json_util.c`, `lib/dbapi.c`) | staging buffer | encode, itoa, ltoa, dtoa, rows | database access, handlers | extreme values, rounding, cut buffers, order of what is staged |
| JWT (`lib/jwt.c`) | secret | create, verify | pipeline, login | expiry, names in characters and in bytes |
| Handlers, login, TOTP (`src/handlers.c`, `src/login.c`, `src/totp.c`) | the task's buffer and status | one per route | database, HTTP client | calls that fail half-way, documents of two databases |
| Configuration (`lib/config.c`) | settings, environment | load, hot reload | start-up, all getters | numbers out of range, what a reload may change |
| Start-up (`lib/server.c`) | globals, barrier, failure flag | make, spawn, meet, give up, clean up | every thread, signals | one of several failing, a break before the loop |

## 2. The modules

Conventions. A critical section of a mutex is one step, since no other thread can
see into it; whatever the code does outside one (a signal after the unlock, an
atomic load, a system call) is a step of its own. A condition variable is the set
of threads that sleep on it; spurious wakeups are modelled. Actions have the names
of the C functions, with a suffix when a function is several steps. An operator
whose name is another's with a capitalised suffix (`Rejects_OffByOne`) is that
operator with a plausible bug; it is used by no specification and shows that a
property can fail.

| Module | Models | Runs |
|---|---|---|
| `TaskLease` | the contract of the task pool: one holder per task | (through `TaskPool`, `ApiServer`) |
| `TaskPool` | `task_pool_alloc`, `task_pool_free` | task_pool |
| `Threads` | the reactors and workers that the next two modules share | |
| `WorkerPool`, `MCWorkerPool` | `worker_pool_enqueue`, `worker_thread_main`, `worker_pool_stop` | worker_pool |
| `CompletionQueue` | `server_notify_task_done`, `reactor_eventfd_cb` | completion_queue |
| `RequestService` | what a client is promised | (through `ApiServer`) |
| `ApiServer`, `MCApiServer` | the request life cycle and `wait_and_shutdown`, composed of the modules above | api_server |
| `Pipeline` | the checks, the handler, the thread-locals and the reply | pipeline |
| `Logger` | `logger_log`, `logger_thread_func`, `logger_shutdown` | logger, logger_second_fatal |
| `JwtCache` | `login_and_get_token`, `customer_service_get_info` | jwt_cache |
| `DbConnection` | the connections and statements of one worker, all entry points of `dbapi.h` that use them | (through `Handlers`) |
| `HttpClient` | the request functions, `write_memory_cb`, the clean-ups | (through `Handlers`) |
| `Handlers` | every handler of the route table, with `login.c` and `totp.c`, on the connections and the curl handle of its worker | handlers |
| `Validation` | `validate_json`, its type validators, six contexts, and the binding of the result | validation, validated_bound |
| `JsonText`, `MCJson` | `json_encode_string`, `fast_itoa`, `fast_ltoa`, `fast_dtoa`, the `JsonBuffer` and `fetch_resultset_array` | validation |
| `Config` | `config_reload`, first and later, and the sizes of pools and slab | (through `Startup`) |
| `Startup`, `MCStartup` | `server_start`, `reactor_thread_logic` up to its loop, signals, `wait_and_shutdown` | startup |

How the pieces fit:

* **Composition.** `ApiServer` extends `WorkerPool` and `CompletionQueue`, which
  share the threads of `Threads`, instantiates `TaskLease`, and conjoins their
  actions with what the server does in the same step.
  It relies on the contract `TaskLease`, not on the pool itself; that `TaskPool`
  implements the contract is checked by the run task_pool and proved.
  `Handlers` extends `HttpClient` and instantiates `DbConnection`: a handler is
  the sequence of its steps, and a step that calls a service goes through that
  service's own actions. `Startup` extends `Config`.
* **Abstract specifications.** `RequestService` says that a request is answered
  at most once and is dropped only when its client has gone; `ApiServer`
  implements it under the mapping at the end of the module.
* **One thread where threads share nothing.** `Pipeline`, `Handlers`,
  `DbConnection` and `HttpClient` model one worker, because their state is
  thread-local: what can go wrong is one call meeting what another left behind.
* **Two views of the shutdown.** `ApiServer` has requests in flight, and reactors
  that are all in their loops; `Startup` has no requests, and reactors that may
  still be on their way. In `Startup` a fatal line ends the process in one step.
  What a thread does while another one is in `logger_shutdown` is left out there;
  `Logger` has it.
* **Data.** Payloads, names and rows are abstracted to what the properties tell
  apart. In `TaskPool` a reply is whether the buffer holds bytes. In `Pipeline` a
  value in a thread-local is the number of the request it came from. In `Logger` a
  line is a few parts, the grain at which a pipe may split it. In `JwtCache` times
  are relative to now. In `Validation` a string is a sequence of classes of bytes,
  NUL among them, and an `int` has `IntBits` bits. Only json-c's length goes past the
  first NUL; what the validators look at and the handlers bind is the C string
  before it (`Visible`). In `JsonText` three characters stand for the bytes
  with an escape of one, two or six bytes. A token in `Pipeline` has a user and an
  age. In `Config` a text is absent, malformed or a number.
* **External parts** are marked so in the map and modelled from how the code uses
  them: libevent's request objects, the clock, `writev` to a pipe, ODBC, libcurl,
  json-c's integer, string and length accessors, `strlen`, the barrier, the delivery of signals and
  the operator who edits the configuration.

## 3. The runs

`tlc -config <cfg> <module>` repeats a run. Deadlock is checked in every run; a
system that has ended stutters explicitly. The invariant of a module whose name
ends in `Inv` is the conjunction of its type invariant and its named safety
invariants:

| Invariant | What its conjuncts say |
|---|---|
| `PoolInv` | `OnePlace`: a task is on the stack, in one cache, in one free or held; `NeverAborts`: the `abort()` calls are unreachable |
| `WorkerInv` | `BoundedQueue`; `WorkConserving`: no lost wakeup; `NoneSleepsAfterStop`; `StopInv`: workers leave only empty queues |
| `CQInv` | `OneWakeup`: exactly one wakeup for a list that is not empty |
| `ServerInv` | `HandedOver`: a leased task is in one place and its request alive; `SameReactor`; `CallbackIsCurrent` |
| `LoggerInv` | `OneBuffer`: buffers are conserved; `LoggerAwake`: no lost wakeup |
| `FlushInv` | `StopFlushes`: for the caller that stops the logger, every line accepted before is written when it returns; `GracefulFlush`: the main thread leaves no line behind |
| `JwtInv` | `OneLeader`: single flight; `FollowerHasLeader`: no follower sleeps alone |
| `PipelineInv` | `Isolated`: a handler finds nothing of an earlier request; `OwnErrors`: an error is logged under the request it is of |
| `DbInv` | `HandlesLive`, `HandlesPaired`, `StatementsClean`, `LostIsForgotten` |
| `HttpInv` | `BufferFits`; `Stages`, which implies `NothingDangles`; `WholeBody`; `FreedOnce` |
| `RepliesInv` | every path sets a status; `WholeOnSuccess`; `LoginVouched` |
| `ValidInv` | `LengthInCharacters`, `RequiredIsThere`, `CappedIsExact` |
| `DatesInv` | `CalendarDays`, `Chronological` |
| `TextsInv` | `PrefixIsEncoded`, `RowsInOrder` |
| `NumbersInv` | `IntegersExact`, `DoublesNearest` |
| `StartupInv` | `AllOrNone`: the reactors serve together or not at all; `UsedIsMade`; `MisfreedAtTheEnd`; `SecretsScrubbed` |

### What holds

* **task_pool** (`TaskPool`, `TaskPool.cfg`): `PoolInv`, `RefusalMeansLoad`, `CleanLease`, `ImplementsTaskLease`. Two threads allocating and freeing four tasks through caches of two: tasks are neither lost nor duplicated, the abort() paths are unreachable, a refusal means load, leases are clean, and the pool implements the lease contract. *Bounds:* 2 threads, 4 tasks, caches of 2: both the batch refill and the flush happen, and one thread can hoard what the other needs.
* **worker_pool** (`MCWorkerPool`, `WorkerPool.cfg`): `WorkerInv`, `AcceptedIsTaken`, `StopReturns`, `FastNeverStarves`. Two reactors, two fast workers, one slow worker and worker_pool_stop: no lost wakeup although the code signals after unlocking, bounded queues, a stop that drains and returns, and fast tasks that are taken even when slow handlers hang. *Bounds:* 2 reactors, 2 fast workers, 1 slow, 4 tasks, queues of 2: queues fill, requests are refused, two signals are pending at once. `MaxQueue = 0`, no limit, is covered by the proofs.
* **completion_queue** (`CompletionQueue`, `CompletionQueue.cfg`): `CQInv`, `CompletionDelivered`. Three workers and two reactors: eventfd coalescing neither loses a wakeup nor sends two, and every completion is delivered. *Bounds:* 3 workers, 2 reactors, 4 tasks: a burst of three on one reactor, with a fourth while the batch is handled.
* **api_server** (`MCApiServer`, `ApiServer.cfg`): `ServerInv`, `HaltIsClean`, `ImplementsRequestService`, `AcceptedIsSettled`, `ShutdownCompletes`. Two reactors, requests on both pools, disconnects and a shutdown at any moment: a task is in one place, its request alive and its callback current; every request is answered at most once, dropped only when its client has gone, and settled; a shutdown leaves nothing behind and ends. *Bounds:* 2 reactors, a worker in each pool, 2 tasks, a fast and a slow request: a task is leased again while an old callback could be left, and both may be in flight.
* **logger** (`Logger`, `Logger.cfg`): `LoggerInv`, `InOrder`, `FlushInv`, `LineIsWritten`, `ShutdownReturns`. Two threads log through a ring of two buffers, at every level, with short and failing writes, fatal lines and a graceful stop: buffers are conserved, lines keep their order and content, the logger thread misses no wakeup, what was accepted before a stop is flushed, accepted lines leave the ring and every logger_shutdown returns. *Bounds:* 2 threads with 2 lines each, 2 buffers, batches of 2, lines of 2 parts: the ring wraps and fills, and a write ends inside a line.
* **jwt_cache** (`JwtCache`, `JwtCache.cfg`): `JwtInv`, `FollowerWakes`. Three workers share the token while it expires, logins fail or bring no token, and replies refuse it: one login at a time, no follower without a leader, and every follower is woken. *Bounds:* 3 workers, a lifetime and a back-off of 2 ticks: a leader, a sleeping follower and one that arrives.
* **pipeline** (`Pipeline`, `Pipeline.cfg`): `PipelineInv`, `Guarded`, `TokenIsHonoured`, `ReplyComplete`. One worker serves every sequence of requests, of every kind of route and message, with tokens that logins gave out and that age: nothing of a request leaks into the next through a thread-local and errors are logged under their own request, no handler runs on an unchecked request, a token is honoured until it expires and for its own user, and every error reply has a body. *Bounds:* 3 request numbers, reused: a request, the one before and the one after; two users whose names fit, one whose name is too wide, a timeout of one tick, so that a token is fresh, at its limit and past it.
* **handlers** (`Handlers`, `Handlers.cfg`): `HttpInv`, `DbInv`, `ErrorIsOwn`, `RepliesInv`, `FailuresInv`. One worker runs every handler of the route table in any order on its own connections and curl handle, with every call free to fail and every connection to be lost: no freed handle is used or leaked, no partial body is taken for a whole one, a success carries the whole document, a failure at most one error object or the beginning of a document, and an error object belongs to its call. *Bounds:* 2 databases, 4 handles: the driver gives freed handles out again, and both databases are connected at once; first capacity 2, limit 6, pieces to 4: doubling suffices, doubling does not, and the limit is hit in mid-transfer. Handlers with the same steps are the same element of `endpoint_handlers`. The proofs cover the client for all sizes.
* **validation** (`MCJson`, `Validation.cfg`): `ValidInv`, `DatesInv`, `TextsInv`, `NumbersInv`. What comes in and what goes out. Every message of every kind of context, its strings with a NUL or without: required fields are there, the C string a handler binds is within its limit in characters and an id is exactly as long as it must be, a bounded integer reaches the handler unchanged, the dates accepted are the days of the calendar and their order is that of the strings. Every string, number and result set: the text is that of the value, in order and within its buffer, but for the last byte and the carry that the properties name. *Bounds:* 4-bit int, JSON integers to 40, ids of 3, strings to 5 bytes, 10 years with every kind of leap year and both limits. Texts: all strings to 4 characters in buffers of every size, all 15-bit ints, 30-bit longs around the powers of ten and at the limits, three integer parts with every fraction of 2 decimals in twentieths, result sets of 2 rows of 2 columns through a staging buffer of 5, which some values exceed and some fill. The proofs cover every width, length and size.
* **startup** (`MCStartup`, `Startup.cfg`): `StartupInv`, `PoolsStaffed`, `ReloadTakesEffect`, `StartupSettles`, `ShutdownEnds`. From configuration files that sweep the texts of every number, in two environments, with every allocation, thread, socket and event base free to fail and signals at any moment: no reactor serves unless all can, nothing is used before it is made or after it is freed, both pools keep the workers they were configured with, a SIGHUP brings the access log to what the file says, and start-up and shutdown come to an end. *Bounds:* 2 reactors: one that fails and one that does not; 6 numbers of threads with 4 percentages, and for every number a missing, malformed, zero, negative and too large text; a word of 30 bits in place of 64, which only moves the limit beyond which strtoul reports an error. The proofs cover all numbers.

Each property has a mutant (`mutants` in `PROJECT.json`) under which the same run
fails, so none of them holds by the shape of the model alone.

### Where the code and its documentation disagree

Each of these runs checks one statement of the documentation and ends with a
counterexample; `findings` quotes the statement.

* **logger_second_fatal** (`FlushedOnReturn`): Of two threads with a fatal line, the second returns from logger_shutdown at once and ends the process with its line still in the ring.
* **validated_bound** (`BoundIsValidated`): An integer that is validated saturated and bound truncated: with a minimum and no maximum, an accepted request binds a value below the minimum.

Smaller disagreements met while modelling, which have no run:

* `task_pool.h:17` says that an exhausted pool "allocates a new one"; the code
  returns `nullptr` (`task_pool.c:97`), as `task_pool_alloc_refused` has it.
* README.md:28 says that "exactly ONE thread performs the network refresh". After a
  login that succeeds without a usable token there is no back-off
  (`customer.c:130`), and every follower it wakes logs in again in turn. Two
  logins at once remain impossible (`OneLeader`).
* patterns.md:25 relies on `PIPE_BUF` for output that is not interleaved; a batch
  of the logger may be longer (`logger.c:72`), and the line of a thread that
  writes itself can land inside it.
* A fetch that fails in the middle with a native error below 50000 leaves the part
  of the document it has written in `out_buf` (`dbapi.c:183`, `dbapi.c:322`), where
  `dbapi.h:70` knows only the payload or an error object.
* README.md:39 promises a "Zero-Downtime Hot Reload". `logger_init` creates its
  thread before `setup_signals` blocks the signals (`server.c:941`, `server.c:945`),
  so that thread takes a signal that comes while the main thread is not in
  `sigwait`, a second SIGHUP during a reload for one, and its default action ends
  the process. `kill` in `Startup` has it.
* systemd/install.md:480 says that a changed `apiserver.env` needs no restart,
  README.md:134 that any change does. A reload takes `ACCESS_LOG` (`ReloadTakesEffect`) and
  nothing else (`config_reload`; the pools keep the sizes of the first load,
  `PoolsStaffed`), and a file without it keeps the old value.
* handlers.c:303 wants an id of "exactly 5 alphabetical characters". A JSON string
  may go on after a NUL, and what comes after it is not looked at by
  `customer_id_validator` nor counted by `utf8_strlen`: such a string is accepted
  when the part before the NUL is right. The handlers bind that part only, and
  `RequiredIsThere` and `LengthInCharacters` are about it.
* A number with a minus sign is not refused: `strtoul` makes it a large one, which
  is then clamped, so `NUM_THREADS=-1` asks for 1024 threads. `NUM_THREADS=1` makes
  two, one in each pool (`PoolsStaffed`).
* `event_base_loopbreak` has no effect on a loop that has not begun. A signal right
  after start-up can break a reactor's loop between the barrier and
  `event_base_dispatch` (`server.c:849`); that reactor then runs on and the join
  waits for it. `ShutdownEnds` names this case; without its disjunct `lost # {}`
  TLC finds the behaviour.
* When one of the reactors' arrays cannot be allocated, `server_cleanup_globals`
  closes descriptor 0 and destroys a barrier that was not made, just before the
  process ends (`MisfreedAtTheEnd`).
* `JSON_ENCODE_BUFSIZE(n)` is `6n + 1` (`json_util.h:11`), and the encoder wants
  one byte more (`json_util.c:15`): it drops the last byte of a source whose other
  bytes all take six (`PrefixIsEncoded`).
* `fast_dtoa` loses the carry of a fraction that rounds up to one, so 1.9999996 is
  written as 1 (`DoublesNearest`).
* `LoginSchema` allows 32 characters, and `task->username` has 32 bytes and a
  terminator: a longer name in UTF-8 logs in and gets a token that `jwt_verify`
  always refuses (`jwt.c:190`). `TokenIsHonoured` is about the names that fit.
* A reply of 500 can carry the beginning of a document (`FailuresInv`).
* `http_client.h:14` calls the explicit clean-up a no-op; it frees the handle and
  clears the key.

## 4. Fairness

Weak fairness only, per thread, and only for what the operating system or the code
itself drives:

* a thread inside a function goes on, and a mutex that is free is granted; no
  mutex is held across a blocking call in the modelled code, except by
  `pthread_cond_wait`, which releases it;
* a reactor whose eventfd is readable gets to its callback, because libevent polls
  level-triggered;
* handlers return, as every database and network call in them has a time limit
  (`http_client.c:93`, `dbapi.c:118-149`, where the driver supports it) or fails. The worker_pool run assumes it of
  the fast pool only: `FastNeverStarves` holds even if slow handlers hang, and
  `AcceptedIsTaken` and `StopReturns` name the assumption on the slow pool;
* a remote login returns (`jwt_cache`), because the HTTP client sets a time limit;
* a shutdown that has begun goes on; nothing says that one begins;
* in `Startup`, the main thread and each reactor thread are scheduled
  (`WF_vars(MainThread)`, `WF_vars(ReactorThread(r))`). A call that may succeed or
  fail does one of the two. Nobody need send a signal or edit a file.

Nothing is assumed of clients, of the network or of who logs: requests need not
arrive and disconnects need not happen. Spurious wakeups are possible and never
fair.

## 5. The proofs

`tlapm <module>` checks a module's proofs. There are eight proof modules; each
extends the modules it is about. They hold for every value of the
constants that satisfies the named assumptions of those modules, which TLC
evaluates in the runs. The assumptions say:

* `ThreadsConstants`, `TaskPoolConstants`: sets of threads are finite; the slab and
  the caches have at least one slot;
* `WorkerPoolConstants`, `CompletionQueueConstants`, `ApiServerConstants`: each
  pool has a worker, the limit of a queue is a natural, the reactors are numbered
  from 0, and no null value is a task, a request or a reactor;
* `LoggerConstants`: sizes are positive, and a line fits in one write to a pipe;
* `JwtCacheConstants`, `PipelineConstants`: times are naturals, there is a
  request before and after another, and nobody is no user;
* `ValidationConstants`: the limits of the schemas fit in an `int` of `IntBits`
  bits and a JSON integer is wider than that; years have four digits. Two conjuncts
  are facts of arithmetic that the provers do not have, that a power of two is
  positive and twice the one before;
* `HttpClientConstants`: the first capacity is positive, the limit and the pieces
  are naturals;
* `DbConstants` (a hypothesis of `DbCorrect`), `HandlersConstants`: no handle is the
  null handle, and the two databases are two;
* `ConfigConstants`, `StartupConstants`: the number of a configuration file, where
  it is one, is an integer, and there are 1 to 64 reactors;
* `JsonTextConstants`: an `int`, a `long` and the integer part of a double have at
  most 20 digits, as 64 bits have; 1 to 8 decimals are written (the code writes 6);
  the staging buffer and a column have room for a byte.

Every proof has the same shape: an inductive invariant, a lemma that `Init`
implies it, a lemma with one step per action that `Next` preserves it, and the
theorem by PTL.

* **`ServerProofs`**, on what `server.c` sets up for all its threads: the task slab
  and the start-up. For `TaskPool`, `PoolInv` adds to `OnePlace` (every task is in exactly one
  slot of the stack, one cache, one call of free, or held) that a held task is not
  flagged free and that no cache exceeds its size. Without the flags,
  `NeverAborts` is not inductive: the compare-and-swap of `task_pool_free` succeeds
  only because a holder's task is never flagged. The stack cannot overflow because
  the lists are disjoint, so their lengths add up to at most `PoolSize`. From the
  invariant follow `TasksNeverDuplicated`, `PoolNeverAborts`, `PoolRefinesLease`
  (every step is a lease, a return or a stutter of `TaskLease`) and `LeasesAreClean`.
  `RefusalsMeanLoad` counts: a refused thread has seen an empty stack and its own
  cache empty, so every task nobody uses is in a slot of another thread's cache,
  and there are `CacheSize` slots for each of those threads.

  For `Startup` there are three invariants, one on top of the other. `BarrierInv`
  counts: the threads that have arrived are exactly the reactors past their arrival
  and the main thread once it has spawned them, so an open barrier means that all
  have come, and the failure flag no longer changes. Without the count,
  `AllOrNone` is not inductive. `ConfigInv` says that the settings are within their
  limits and that the pools have the sizes the settings gave; with the arithmetic of
  `SplitIsWhole` it yields `PoolsAlwaysStaffed` for every number of threads and every
  percentage. `GlobalsInv` says what exists at each stage of
  the main thread, and that a base that is freed but still published belongs to a
  loop that was told to stop; it yields `UsedIsMade` and `MisfreedAtTheEnd`. Together
  they are `StartupCorrect`.
* **`ApiServerProofs`.** First the worker pools and the completion queue by
  themselves. `WorkConserving` counts: while a worker of a pool sleeps,
  the workers on their way to the mutex and the reactors about to signal are at
  least as many as the queued tasks. Stated without the count (some worker is awake
  if there is work) it is not inductive, because one worker may be the answer to
  two signals. `StopInv` ties the shutdown flag to the progress of the stop and
  says that a worker leaves only from an empty queue, which gives `DrainedWhenJoined`.
  `OneWakeup` counts
  writers, the eventfd counter and the reactor between read and detach: their sum is
  1 if the list is not empty and 0 if it is. It is inductive with the types and the
  fact that a reactor in its loop has a batch only while it handles one.
  Then the server, from the invariants of its parts: an action of the
  server is an action of a pool, of a queue, or of neither, so `WorkerInv` and
  `CQInv` come from the lemmas about the parts. `ServerInv` is not
  inductive on top of them, and `ApiInv` adds: `PlaceInv`, a task is leased if and
  only if it is in one of the four kinds of places, in one only and there once;
  `LeaseInv` and `RequestInv`, tasks that are leased and requests that are owned
  belong to each other one to one, on the same reactor and unanswered (without the
  converse, a disconnect could cancel the task of another request); `BackInv`, a task on its way
  back has been run or was cancelled, so a reply has a status; `ShutInv`,
  the order in which `wait_and_shutdown` goes from the pools to the queues to the
  loops, and that what it has found empty stays so, because after the join of the
  workers nobody is left to notify. `ServerCorrect` is the
  invariant; `TasksHandedOver` turns "one place" into the count of `HandedOver`;
  `ShutdownIsClean` is `HaltIsClean`; `ServerImplementsService` shows that an
  arrival is an acceptance of `RequestService`, the handling of a batch an answer or,
  when the client has gone, a drop, and every other step a stutter.
* **`RequestProofs`.** What one request meets on its way: pipeline, validation,
  token cache. For `Pipeline`, `LocalsInv` says what the thread-locals hold at
  each point of the worker's code, `ChecksInv` which checks are behind the request
  there, `ResultInv` what becomes of its error, content type and status. `PipelineInv`,
  `Guarded`, `TokenIsHonoured` and `ReplyComplete` speak of single points of the code,
  and only the three together are inductive: the handler finds the locals
  clean because the code that leaves "finish" cleaned them one request earlier.
  For `Validation`, `LoopInv` is the loop invariant of `validate_json`: every field
  before the current one has passed. `ValidInv` follows with the arithmetic of
  saturation and truncation and with what a C string is: a prefix of the JSON string,
  by the least place of a NUL (`VisibleInterval`), without one itself, and what the
  handler binds (`BindsText`). `DatesInv` follows with the order of the strings of two
  dates.
  For `JwtCache`, `OneLeader` and `FollowerHasLeader` are inductive together:
  the flag is up exactly while one worker is the leader, and a worker falls asleep
  only when the flag is up.
* **`HandlersProofs`.** `Stages` says at which point of a request the curl handle has
  which pointers and how many bytes have arrived; with it `BufferFits`,
  `NothingDangles` and `WholeBody` are inductive. This covers the growth of the
  buffer for all capacities, limits and pieces. `HandleFreedOnce` follows from the
  same stages. The handlers are then shown to use the client and the database only
  through their own actions: every step of `Handlers` is a step of `HttpClient` or
  a stutter, and a call of `DbConnection` or a stutter. So what is proved of a
  thread that makes any calls in any order holds of the calls the handlers
  make: `ClientServesHandlers`, `DatabasesServeHandlers`, `HandlersReportOwnErrors`.
  The replies are proved in two parts. `WellFormed` is a condition on the sequence of
  steps that a handler is: what may go wrong does so before the document is begun,
  but for the calls that add to it, and a token is the last thing added, after a
  login and with no other request since. Each handler of the route table is shown to
  meet it. `ReplyInv` then says of any well-formed handler, at every step, that it is
  on its track (the buffer holds what the steps so far add, and no status that a
  later step decides) or over, with a reply of one of the kinds allowed. With
  `ResultInv` of the database, a call that succeeds has written a whole document,
  it is inductive, and gives `RepliesAreWhole` and `FailuresAreClean`. A handler
  that is added to the table adds one lemma, that it is well formed.
* **`DbConnectionProofs`.** `DbInv` speaks of the moments between calls and is not
  inductive. `Cached` says at every moment that the thread's handles are the ones
  the driver has allocated, with a statement only beside its own connection and no
  connection twice; so `db_reset_connection` frees the cached pair and nothing else
  (`ResetFrees`). `LocalInv` follows the statement a call holds in a local variable:
  on the way out it is still the thread's, or it is free and nobody has it. That is
  why `db_is_valid_stmt` may trust a comparison of handles although the driver
  reuses them: a call allocates nothing after it has lost its statement.
  Together they give `DbCorrect`. `ErrorInv`, which needs none of this, gives
  `ErrorsAreOwn`. `ResultInv` gives `ResultsWhole`: a call that succeeds has written
  a whole document, and one that fails never has. The theorems are about a thread that makes any calls in any
  order; `HandlersProofs` carries them over to the handlers.
* **`LoggerProofs`.** `BufferInv` says that the free stack, the ring and the batch
  hold every buffer and share none, and that the head of the ring is the tail plus
  its length, modulo the size. From the arithmetic of an index that wraps at most
  once (`WrapsOn`) follows that a line is never put in a slot in use. That
  the places are disjoint is needed for what the ring holds: a thread copies its
  line into a buffer that nobody else has. `LineInv`
  says that the ring holds the lines accepted last and that no line was accepted
  twice; `StopInv`, that one thread stops the logger, once, after which the logger
  thread leaves an empty ring. They give `LoggerCorrect` and `ShutdownFlushes`.
  `OrderInv` numbers the parts of all accepted lines: the first `Handled` of them are
  written or lost, each once and in order, and what is left of the batch is what
  comes next, across a short write in the middle of a line. With `LineInv` for what
  comes after the batch it gives `LinesInOrder`.
* **`Induction`** holds no theorem about the system. It proves that a set of
  numbers has a least member, and from it that a function defined by recursion on
  the number before (`Recursion`) or on any smaller numbers (`CourseOfValues`)
  exists. These take sets and functions where the library's induction theorems take
  operators, which the installed provers cannot instantiate.
* **`JsonTextProofs`.** `Writes(j, d, k)` says that what the evbuffer and the
  staging buffer hold together grows by `d`; it is shown of each writer of the
  `JsonBuffer`, wherever the staging buffer fills, and composes. With it the
  invariant `WritingInv` follows both loops: `StringOk`, that `json_encode_string` has
  written the encoding of the characters before `pos` and has been short of room
  only as `PrefixIsEncoded` allows; `RowsOk`, that the buffer holds the rows fetched
  so far, with the bracket before the first and the commas between. They give
  `TextsAreWhole`.
  `NumbersAreExact` is about what a formatter computes. The decimal notation is a
  function by recursion on the quotient by ten, and the digits the code writes in
  pairs are shown to be its digits (`DecimalGroup`), for all numbers of up to 20
  digits, the least `int` and `long` included (`MagnitudeIs`). Of a double, the integer
  arithmetic of the rounding finds the nearest fraction (`Rounding`), the zeros that
  are trimmed are those at the end (`Trimmed`), and the carry is lost exactly where
  `DoublesNearest` says (`CarryLost`).

Every safety invariant, action property and refinement that a passing run checks
has a theorem. Only model-checked are

* all liveness (`AcceptedIsTaken`, `StopReturns`, `FastNeverStarves`,
  `CompletionDelivered`, `AcceptedIsSettled`, `ShutdownCompletes`, `LineIsWritten`,
  `ShutdownReturns`, `FollowerWakes`, `ReloadTakesEffect`, `StartupSettles`,
  `ShutdownEnds`): it rests on
  fairness and on which actions are enabled, which is out of the prover's reach;
* the two counterexamples of section 3, which are behaviours.

## 6. What is not modelled

* The statistics counters and the access log: nothing reads them but the
  diagnostic handlers. The routes
  are registered once, before `server_start`.
* The time window of TOTP (liboath), the QR code (libqrencode), the signature and
  the encoding of tokens (libsodium): what the code does with their results is in
  `Handlers` and `Pipeline`.
* The file of an upload. A failed `fwrite` leaves a partial file behind, and a
  failing `fclose` is not noticed (`handlers.c:765-785`); the reply is modelled, the
  file is not.
* The escaping of a user name in a token, and a name whose escaped form is longer
  than 127 bytes, which `jwt_build_payload` would cut (`jwt.c:96-97`): `jwt_create`
  carries the name over as it is.
* In `ApiServer`, two returns at the top of `api_middleware_wrapper`: a callback
  without a connection, which is ignored (`server.c:693`), and one without a handler
  (`server.c:703`), which no registered route has.
* In `HttpClient`, a failing `pthread_setspecific` (`http_client.c:120`), which the
  code does not check: every request would then make a handle and leak it.
* In `JsonText`, the loop of `fast_dtoa` for the integer part, which writes two digits
  at a time (`json_util.c:189-204`): it is modelled by the digits that the loop of
  `fast_ltoa` writes. A double is an exact fraction, so the rounding of the
  floating-point product itself is not modelled.
* In `Config`, the parsing of lines, and settings that are copied as strings.
* In `Startup`, the overlap of two fatal lines (see `Logger`) and the draining of the
  completion queues after the workers are joined, which has nothing to drain without
  requests (see `ApiServer`).
* Replies on the wire: `evhttp_send_reply` hands the reply to libevent, and what
  libevent has not sent when its loop is broken is lost.
* The text of SQL, of log lines and of diagnostic replies.
* Overflow of `size_t` in `write_memory_cb` (checked arithmetic): the payload limit
  is far below it.
* In `Validation`, fields of type double and of unknown type, which no schema of
  `src/handlers.c` has.

## 7. Plan

Done: the request path (`TaskPool`, `WorkerPool`, `CompletionQueue`, `ApiServer`),
the pipeline with its tokens, the logger, the token cache, the handlers on top of
the database and the HTTP client, validation and JSON writing, configuration and
start-up, with proofs of the safety of all of them. What is left, in this order:

1. `Startup` and `ApiServer` as one: requests while the reactors are on their way.
2. The file of an upload, with failures of each call.
