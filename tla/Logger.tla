------------------------------- MODULE Logger -------------------------------
(***************************************************************************)
(* The asynchronous logger of lib/logger.c.  A thread that logs takes a    *)
(* buffer from a pool, copies its line into it and puts it in a ring; one  *)
(* logger thread takes batches from the ring, writes each with writev to   *)
(* stderr, a pipe, and returns the buffers.  A line that finds no room is  *)
(* written by the thread itself, or dropped if it is only informative.     *)
(*                                                                         *)
(* A critical section of g_log_mutex is one step, and so is each atomic    *)
(* load and each system call.  A line is LineLen parts, the grain at which *)
(* a pipe may split what is written to it.                                 *)
(***************************************************************************)
EXTENDS Integers, Sequences, Functions

CONSTANTS Threads,      \* the threads that log
          Main,         \* the one that runs server_shutdown
          NoThread,     \* no thread
          MaxLines,     \* bound: the lines a thread logs
          POOL_SIZE, BATCH_SIZE,
          PIPE_BUF,     \* the longest write a pipe keeps in one piece, in parts
          LineLen       \* the length of a line, in parts

ASSUME LoggerConstants ==
    /\ Main \in Threads /\ NoThread \notin Threads
    /\ {MaxLines, POOL_SIZE, BATCH_SIZE, LineLen} \subseteq Nat \ {0}
    /\ PIPE_BUF \in Nat /\ LineLen <= PIPE_BUF

Buffers == 1 .. POOL_SIZE
Lines == Threads \X (1 .. MaxLines)
Levels == {"INFO", "WARN", "FATAL"}   \* AUDIT and ERROR are treated as WARN

VARIABLES pc,              \* where each thread is
          nlines, level,   \* its line: how many it began to log, and at what level
          free,            \* g_free_stack up to g_free_top
          g_log_queue, g_log_head, g_log_tail, g_log_count,
          data,            \* the line in each buffer
          g_logger_running, g_shutdown_done,
          logger,          \* where the logger thread is
          batch,           \* the buffers it took
          rest,            \* what it has yet to write of them
          g_dropped_logs,
          stderr,          \* what the logger thread wrote, part by part
          lost,            \* the parts that its failing writes lost
          accepted,        \* history: the lines put in the ring, in order
          stopper, stopLen,\* history: who stopped the logger, and how many
                           \* lines were accepted by then
          halted           \* the process has exited

producer == <<pc, nlines, level>>
queue == <<free, g_log_queue, g_log_head, g_log_tail, g_log_count, data, accepted>>
consumer == <<logger, batch, rest>>
flags == <<g_logger_running, g_shutdown_done, stopper, stopLen, halted>>
output == <<stderr, lost, g_dropped_logs>>
vars == <<producer, queue, consumer, flags, output>>

\* The parts of the lines or buffers of sequence s, one after the other.
Parts(s) == [i \in 1 .. Len(s) * LineLen |->
               <<s[((i - 1) \div LineLen) + 1], ((i - 1) % LineLen) + 1>>]

\* The buffers in the ring, from tail to head.
Ring == [i \in 1 .. g_log_count |-> g_log_queue[(g_log_tail + i - 1) % POOL_SIZE]]

\* The parts of the lines.
LineParts == Lines \X (1 .. LineLen)

TypeOK ==
    /\ pc \in [Threads -> {"idle", "enqueue", "fallback", "shutdown", "stop",
                           "join", "exit", "gone"}]
    /\ nlines \in [Threads -> 0 .. MaxLines]
    /\ level \in [Threads -> Levels]
    /\ free \in Seq(Buffers) /\ Len(free) <= POOL_SIZE
    /\ g_log_queue \in [0 .. POOL_SIZE - 1 -> Buffers]
    /\ g_log_head \in 0 .. POOL_SIZE - 1 /\ g_log_tail \in 0 .. POOL_SIZE - 1
    /\ g_log_count \in 0 .. POOL_SIZE
    /\ data \in [Buffers -> Lines]
    /\ {g_logger_running, g_shutdown_done, halted} \subseteq BOOLEAN
    /\ logger \in {"lock", "wait", "write", "return", "done", "none"}
    /\ batch \in Seq(Buffers)
    /\ rest \in Seq(Buffers \X (1 .. LineLen))
    /\ g_dropped_logs \in Nat
    /\ stderr \in Seq(LineParts) /\ lost \subseteq LineParts
    /\ accepted \in Seq(Lines)
    /\ stopper \in Threads \cup {NoThread} /\ stopLen \in 0 .. Len(accepted)

\* logger_init: the pool is full and the logger thread runs, unless it could
\* not be created.
Init ==
    /\ pc = [t \in Threads |-> "idle"]
    /\ nlines = [t \in Threads |-> 0]
    /\ level = [t \in Threads |-> "INFO"]
    /\ free = [i \in Buffers |-> i]
    /\ g_log_queue = [i \in 0 .. POOL_SIZE - 1 |-> 1]
    /\ g_log_head = 0 /\ g_log_tail = 0 /\ g_log_count = 0
    /\ data = [b \in Buffers |-> <<Main, 1>>]
    /\ \/ g_logger_running = TRUE /\ logger = "lock"
       \/ g_logger_running = FALSE /\ logger = "none"
    /\ g_shutdown_done = FALSE
    /\ batch = <<>> /\ rest = <<>>
    /\ g_dropped_logs = 0
    /\ stderr = <<>> /\ lost = {} /\ accepted = <<>>
    /\ stopper = NoThread /\ stopLen = 0
    /\ halted = FALSE

----------------------------------------------------------------------------
(* logger_log, on any thread *)

\* The line is formatted, and try_enqueue_log loads g_logger_running.
logger_log(t) ==
    /\ pc[t] = "idle" /\ nlines[t] < MaxLines
    /\ nlines' = [nlines EXCEPT ![t] = @ + 1]
    /\ \E l \in Levels : level' = [level EXCEPT ![t] = l]
    /\ pc' = [pc EXCEPT ![t] = IF g_logger_running THEN "enqueue" ELSE "fallback"]
    /\ UNCHANGED <<queue, consumer, flags, output>>

\* What follows the writing of the line: only a FATAL one ends the process.
AfterLog(t) == IF level[t] = "FATAL" THEN "shutdown" ELSE "idle"

\* Whether try_enqueue_log finds a free buffer and room in the ring.
HasRoom == free # <<>> /\ g_log_count < POOL_SIZE

\* The buffer on top of the free stack.
Top == free[Len(free)]

\* Mutant: the wakeup is only sent for a second line.
Wakes_Late(n) == n = 2

\* The line that makes the ring non-empty signals the logger thread.
Wakes(n) == n = 1

\* Mutant: the line goes in at the tail.
Slot_Tail == g_log_tail

\* Where the next line goes in.
Slot == g_log_head

\* An index into the ring.
Wrapped(i) == i % POOL_SIZE

\* The critical section of try_enqueue_log.
try_enqueue_log(t) ==
    /\ pc[t] = "enqueue" /\ HasRoom
    /\ free' = SubSeq(free, 1, Len(free) - 1)
    /\ data' = [data EXCEPT ![Top] = <<t, nlines[t]>>]
    /\ g_log_queue' = [g_log_queue EXCEPT ![Slot] = Top]
    /\ g_log_head' = Wrapped(g_log_head + 1)
    /\ g_log_count' = g_log_count + 1
    /\ accepted' = Append(accepted, <<t, nlines[t]>>)
    /\ logger' = IF logger = "wait" /\ Wakes(g_log_count + 1) THEN "lock" ELSE logger
    /\ pc' = [pc EXCEPT ![t] = AfterLog(t)]
    /\ UNCHANGED <<nlines, level, g_log_tail, batch, rest, flags, output>>

try_enqueue_log_full(t) ==
    /\ pc[t] = "enqueue" /\ ~HasRoom
    /\ pc' = [pc EXCEPT ![t] = "fallback"]
    /\ UNCHANGED <<nlines, level, queue, consumer, flags, output>>

\* A line that was not put in the ring is dropped and counted if it is only
\* informative; otherwise the thread writes it to stderr itself, which changes
\* nothing that the threads share.
fallback_write_log(t) ==
    /\ pc[t] = "fallback"
    /\ g_dropped_logs' = g_dropped_logs + (IF level[t] = "INFO" THEN 1 ELSE 0)
    /\ pc' = [pc EXCEPT ![t] = AfterLog(t)]
    /\ UNCHANGED <<nlines, level, queue, consumer, flags, stderr, lost>>

----------------------------------------------------------------------------
(* logger_shutdown *)

\* server_shutdown on the main thread: the other threads have been joined.
server_shutdown ==
    /\ pc[Main] = "idle"
    /\ \A t \in Threads \ {Main} : pc[t] = "idle"
    /\ pc' = [t \in Threads |-> IF t = Main THEN "shutdown" ELSE "gone"]
    /\ UNCHANGED <<nlines, level, queue, consumer, flags, output>>

\* The compare-exchange lets one caller through, if the logger is running.
logger_shutdown(t) ==
    /\ pc[t] = "shutdown"
    /\ g_shutdown_done' = TRUE
    /\ pc' = [pc EXCEPT ![t] = IF ~g_shutdown_done /\ g_logger_running
                               THEN "stop" ELSE "exit"]
    /\ UNCHANGED <<nlines, level, queue, consumer, g_logger_running, stopper,
                   stopLen, halted, output>>

\* Mutant: the flag is cleared without the broadcast.
logger_shutdown_stop_Quiet(t) ==
    /\ pc[t] = "stop"
    /\ g_logger_running' = FALSE
    /\ stopper' = t /\ stopLen' = Len(accepted)
    /\ pc' = [pc EXCEPT ![t] = "join"]
    /\ UNCHANGED <<nlines, level, queue, consumer, g_shutdown_done, halted, output>>

\* Its critical section: the flag is cleared and the logger thread woken.
logger_shutdown_stop(t) ==
    /\ pc[t] = "stop"
    /\ g_logger_running' = FALSE
    /\ logger' = IF logger = "wait" THEN "lock" ELSE logger
    /\ stopper' = t /\ stopLen' = Len(accepted)
    /\ pc' = [pc EXCEPT ![t] = "join"]
    /\ UNCHANGED <<nlines, level, queue, batch, rest, g_shutdown_done, halted, output>>

logger_shutdown_join(t) ==
    /\ pc[t] = "join" /\ logger = "done"
    /\ pc' = [pc EXCEPT ![t] = "exit"]
    /\ UNCHANGED <<nlines, level, queue, consumer, flags, output>>

\* exit(), or the return from main.
exit(t) ==
    /\ pc[t] = "exit"
    /\ halted' = TRUE
    /\ UNCHANGED <<producer, queue, consumer, g_logger_running, g_shutdown_done,
                   stopper, stopLen, output>>

----------------------------------------------------------------------------
(* logger_thread_func, on the logger thread *)

logger_wait ==
    /\ logger = "lock" /\ g_log_count = 0 /\ g_logger_running
    /\ logger' = "wait"
    /\ UNCHANGED <<producer, queue, batch, rest, flags, output>>

\* pthread_cond_wait may return unasked.
spurious_wakeup ==
    /\ logger = "wait"
    /\ logger' = "lock"
    /\ UNCHANGED <<producer, queue, batch, rest, flags, output>>

\* Mutant: the thread leaves as soon as it is told to.
logger_leave_Early ==
    /\ logger = "lock" /\ ~g_logger_running
    /\ logger' = "done"
    /\ UNCHANGED <<producer, queue, batch, rest, flags, output>>

logger_leave ==
    /\ logger = "lock" /\ g_log_count = 0 /\ ~g_logger_running
    /\ logger' = "done"
    /\ UNCHANGED <<producer, queue, batch, rest, flags, output>>

\* A batch is taken from the tail of the ring.
logger_take ==
    /\ logger = "lock" /\ g_log_count > 0
    /\ LET n == IF g_log_count < BATCH_SIZE THEN g_log_count ELSE BATCH_SIZE
           taken == SubSeq(Ring, 1, n)
       IN /\ batch' = taken
          /\ rest' = Parts(taken)
          /\ g_log_tail' = Wrapped(g_log_tail + n)
          /\ g_log_count' = g_log_count - n
    /\ logger' = "write"
    /\ UNCHANGED <<producer, free, g_log_queue, g_log_head, data, accepted, flags, output>>

\* What the buffers hold of the parts in sequence s.
Content(s) == [i \in 1 .. Len(s) |-> <<data[s[i][1]], s[i][2]>>]

\* The pipe keeps a writev of at most PIPE_BUF in one piece.  Of a longer one
\* it may take any part at a time.
writev_takes(n) == n = Len(rest) \/ Len(batch) * LineLen > PIPE_BUF

\* Mutant: a short writev is taken for a complete one.
advance_iovecs_All(n) == <<>>

\* What is left after n parts were written.
advance_iovecs(n) == SubSeq(rest, n + 1, Len(rest))

\* One iteration of write_batch_iovecs.
write_batch_iovecs ==
    /\ logger = "write"
    /\ \E n \in 1 .. Len(rest) :
          /\ writev_takes(n)
          /\ stderr' = stderr \o Content(SubSeq(rest, 1, n))
          /\ rest' = advance_iovecs(n)
    /\ logger' = IF rest' = <<>> THEN "return" ELSE "write"
    /\ UNCHANGED <<producer, queue, batch, flags, lost, g_dropped_logs>>

\* A writev that fails for another reason than a signal ends the loop.
write_batch_iovecs_fails ==
    /\ logger = "write"
    /\ lost' = lost \cup Range(Content(rest))
    /\ rest' = <<>>
    /\ logger' = "return"
    /\ UNCHANGED <<producer, queue, batch, flags, stderr, g_dropped_logs>>

return_batch_to_pool ==
    /\ logger = "return"
    /\ free' = LET all == free \o batch
               IN IF Len(all) <= POOL_SIZE THEN all ELSE SubSeq(all, 1, POOL_SIZE)
    /\ batch' = <<>>
    /\ logger' = "lock"
    /\ UNCHANGED <<producer, g_log_queue, g_log_head, g_log_tail, g_log_count, data,
                   accepted, rest, flags, output>>

----------------------------------------------------------------------------
Log(t) == logger_log(t) \/ try_enqueue_log(t) \/ try_enqueue_log_full(t)
            \/ fallback_write_log(t)

Shutdown(t) == logger_shutdown(t) \/ logger_shutdown_stop(t)
                 \/ logger_shutdown_join(t) \/ exit(t)

Logs == logger_wait \/ logger_leave \/ logger_take \/ write_batch_iovecs
          \/ write_batch_iovecs_fails \/ return_batch_to_pool

Next == \/ /\ ~halted
           /\ \/ \E t \in Threads : Log(t) \/ Shutdown(t)
              \/ server_shutdown
              \/ Logs \/ spurious_wakeup
        \/ halted /\ UNCHANGED vars

Spec == Init /\ [][Next]_vars

\* The logger thread and the threads that log or stop it are scheduled.
\* Nothing makes a thread log, or a signal stop the server.
FairSpec ==
    /\ Spec
    /\ WF_vars(~halted /\ Logs)
    /\ \A t \in Threads : WF_vars(/\ ~halted
                                  /\ \/ try_enqueue_log(t) \/ try_enqueue_log_full(t)
                                     \/ fallback_write_log(t) \/ Shutdown(t))

----------------------------------------------------------------------------
(* Properties *)

\* Every buffer is in one place: the free stack, the ring or the batch being
\* written.  So the pool never runs dry while nothing is queued, and no
\* thread copies its line over one that waits to be written.
OneBuffer ==
    LET all == free \o Ring \o batch
    IN Len(all) = POOL_SIZE /\ Range(all) = Buffers

\* The ring is first-in first-out and keeps every line intact: what the logger
\* thread wrote, then what is left of its batch, then what is in the ring are
\* the parts of the accepted lines that no failing write lost, each once and in
\* the order of the critical sections that accepted the lines, across wrapped
\* indices, short writes and reused buffers.
InOrder ==
    LET all == Parts(accepted)
        sent == stderr \o Content(rest) \o Content(Parts(Ring))
    IN /\ IsInjective(all)
       /\ Range(sent) = Range(all) \ lost
       /\ \A i, j \in DOMAIN sent : i < j =>
             \E k, l \in DOMAIN all : k < l /\ all[k] = sent[i] /\ all[l] = sent[j]

\* The logger thread does not sleep on a non-empty ring or through a stop,
\* although only the line that makes the ring non-empty signals it.
LoggerAwake == logger = "wait" => g_log_count = 0 /\ g_logger_running

\* The ring and its buffers are consistent and the logger thread awake to them.
LoggerInv == TypeOK /\ OneBuffer /\ LoggerAwake

\* The accepted lines that are in the ring or in a batch.
Unwritten == {data[b] : b \in Range(Ring)} \cup {data[p[1]] : p \in Range(rest)}

\* logger_shutdown flushes for the caller that it lets stop the logger: when
\* that call has returned, every line accepted before the stop has been
\* handed to stderr.
StopFlushes ==
    \A t \in Threads : pc[t] = "exit" /\ stopper = t =>
       \A i \in 1 .. stopLen : accepted[i] \notin Unwritten

\* A graceful shutdown loses nothing at all: the process does not exit through
\* the main thread with a line left in the ring.
GracefulFlush ==
    pc[Main] = "exit" /\ (\A t \in Threads \ {Main} : pc[t] = "gone") => Unwritten = {}

\* A shutdown flushes, for the thread that stops the logger and for the process.
FlushInv == StopFlushes /\ GracefulFlush

\* What logger.h says of logger_shutdown, that it "flushes remaining logs": a
\* caller that has returned from it leaves none of its own lines behind.
FlushedOnReturn ==
    \A t \in Threads : pc[t] = "exit" => \A l \in Unwritten : l[1] # t

\* Every accepted line leaves the ring, unless the process ends or the line
\* was put in after the logger thread had gone.  As each line is logged once,
\* this is to say that in the end none is left.
LineIsWritten == <>[](Unwritten = {} \/ halted \/ logger = "done")

\* Every caller of logger_shutdown returns, unless another one ends the
\* process: in the end no thread is inside, so the join cannot hang.
ShutdownReturns ==
    <>[](halted \/ \A t \in Threads : pc[t] \notin {"shutdown", "stop", "join"})
=============================================================================
