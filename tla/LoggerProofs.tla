---------------------------- MODULE LoggerProofs ----------------------------
(***************************************************************************)
(* Proofs about module Logger, for every number of threads, size of the    *)
(* pool and of a batch: the ring never mixes up its buffers, the logger    *)
(* thread does not sleep on work, a shutdown flushes, and the lines leave  *)
(* in the order they were accepted in.                                     *)
(***************************************************************************)
EXTENDS Logger, TLAPS

----------------------------------------------------------------------------
(* The inductive invariant *)

\* The buffers are spread over the free stack, the ring and the batch, none of
\* them twice, and the head of the ring is where its length says.
BufferInv ==
    /\ g_log_head = Wrapped(g_log_tail + g_log_count)
    /\ Len(free) + g_log_count + Len(batch) = POOL_SIZE
    /\ \A b \in Buffers : \/ \E i \in 1 .. Len(free) : free[i] = b
                          \/ \E i \in 1 .. g_log_count : Ring[i] = b
                          \/ \E i \in 1 .. Len(batch) : batch[i] = b
    /\ \A i, j \in 1 .. Len(free) : free[i] = free[j] => i = j
    /\ \A i, j \in 1 .. g_log_count : Ring[i] = Ring[j] => i = j
    /\ \A i, j \in 1 .. Len(batch) : batch[i] = batch[j] => i = j
    /\ \A i \in 1 .. Len(free), j \in 1 .. g_log_count : free[i] # Ring[j]
    /\ \A i \in 1 .. Len(free), j \in 1 .. Len(batch) : free[i] # batch[j]
    /\ \A i \in 1 .. g_log_count, j \in 1 .. Len(batch) : Ring[i] # batch[j]
    /\ logger \notin {"write", "return"} => batch = <<>>
    /\ logger # "write" => rest = <<>>

\* The ring holds the lines accepted last, and no line was accepted twice.
LineInv ==
    /\ g_log_count <= Len(accepted)
    /\ \A i \in 1 .. g_log_count : data[Ring[i]] = accepted[Len(accepted) - g_log_count + i]
    /\ \A i \in 1 .. Len(accepted) :
          LET t == accepted[i][1]
          IN accepted[i][2] <= nlines[t] /\ (pc[t] = "enqueue" => accepted[i][2] < nlines[t])
    /\ \A i, j \in 1 .. Len(accepted) : accepted[i] = accepted[j] => i = j
    /\ \A t \in Threads : pc[t] = "enqueue" => nlines[t] > 0

OthersGone == \A t \in Threads \ {Main} : pc[t] = "gone"

\* One thread stops the logger, once; the logger thread leaves an empty ring;
\* and the others are gone only after the main thread has begun to shut down.
StopInv ==
    /\ LoggerAwake
    /\ \A t \in Threads : pc[t] = "stop" => g_logger_running /\ g_shutdown_done
    /\ \A t, u \in Threads : pc[t] = "stop" /\ pc[u] = "stop" => t = u
    /\ g_shutdown_done => \E t \in Threads : pc[t] \in {"stop", "join", "exit"}
    /\ g_logger_running => stopper = NoThread /\ logger \notin {"done", "none"}
    /\ ~g_logger_running => logger = "none" \/ stopper # NoThread
    /\ stopper # NoThread => /\ pc[stopper] \in {"join", "exit"}
                             /\ pc[stopper] = "exit" => logger = "done"
    /\ logger = "none" => g_log_count = 0 /\ \A t \in Threads : pc[t] # "enqueue"
    /\ logger = "done" => stopLen <= Len(accepted) - g_log_count /\ stopper # NoThread
    /\ \A t \in Threads : pc[t] = "gone" => t # Main /\ OthersGone
    /\ (\E t \in Threads : pc[t] = "gone") => pc[Main] \in {"shutdown", "stop", "join", "exit"}
    /\ \A t \in Threads : pc[t] = "join" => stopper = t
    /\ OthersGone /\ logger = "done" => g_log_count = 0
    /\ OthersGone /\ pc[Main] = "exit" => logger \in {"done", "none"}

IInv == TypeOK /\ BufferInv /\ LineInv /\ StopInv

\* Of the first d parts of all, those in l are lost and the others are in e, in
\* their order.
Accounted(all, d, e, l) ==
    /\ \A i \in 1 .. Len(e) : \E k \in 1 .. d : e[i] = all[k]
    /\ \A i, j \in 1 .. Len(e) : i < j =>
          \E k, m \in 1 .. d : k < m /\ e[i] = all[k] /\ e[j] = all[m]
    /\ \A k \in 1 .. d : all[k] \in l <=> ~\E i \in 1 .. Len(e) : e[i] = all[k]
    /\ \A p \in l : \E k \in 1 .. d : p = all[k]

\* The parts of the accepted lines that the logger thread is done with.
Handled == (Len(accepted) - g_log_count) * LineLen - Len(rest)

\* Those parts are written or lost; what is left of the batch comes next.
OrderInv ==
    /\ Handled \in Nat
    /\ \A i \in 1 .. Len(rest) : \E j \in 1 .. Len(batch) : rest[i][1] = batch[j]
    /\ \A i \in 1 .. Len(rest) :
          <<data[rest[i][1]], rest[i][2]>> = Parts(accepted)[Handled + i]
    /\ Accounted(Parts(accepted), Handled, stderr, lost)

----------------------------------------------------------------------------
(* Indices *)

\* An index that has not wrapped.
LEMMA Unwrapped ==
    ASSUME NEW P \in Nat \ {0}, NEW x \in 0 .. P - 1
    PROVE  x % P = x
OBVIOUS

\* An index that has wrapped once.
LEMMA Wrapped1 ==
    ASSUME NEW P \in Nat \ {0}, NEW x \in P .. 2 * P - 1
    PROVE  x % P = x - P
OBVIOUS

\* An index that has wrapped at most once.
LEMMA Wraps ==
    ASSUME NEW P \in Nat \ {0}, NEW x \in 0 .. 2 * P - 1
    PROVE  x % P = (IF x < P THEN x ELSE x - P) /\ x % P \in 0 .. P - 1
<1>1. CASE x < P
  <2>1. x \in 0 .. P - 1
    BY <1>1
  <2> QED
    BY <1>1, <2>1, Unwrapped, Zenon
<1>2. CASE x >= P
  <2>1. x \in P .. 2 * P - 1
    BY <1>2
  <2>2. x % P = x - P
    BY <2>1, Wrapped1, Zenon
  <2> QED
    BY <1>2, <2>1, <2>2
<1> QED
  BY <1>1, <1>2

\* Moving on from a wrapped index.
LEMMA WrapsOn ==
    ASSUME NEW P \in Nat \ {0}, NEW x \in Nat, NEW y \in Nat, x + y < 2 * P
    PROVE  ((x % P) + y) % P = (x + y) % P
<1>1. x \in 0 .. 2 * P - 1 /\ x + y \in 0 .. 2 * P - 1
  OBVIOUS
<1>2. x % P = (IF x < P THEN x ELSE x - P)
  BY <1>1, Wraps, Zenon
<1>3. CASE x < P
  BY <1>2, <1>3, Zenon
<1>4. CASE x >= P
  <2> DEFINE z == x + y - P
             w == x + y
  <2>1. (x % P) + y = z /\ z \in 0 .. P - 1 /\ w \in P .. 2 * P - 1
    BY <1>1, <1>2, <1>4
  <2> HIDE DEF z, w
  <2>2. z % P = z /\ w % P = w - P
    BY <2>1, Unwrapped, Wrapped1, Zenon
  <2> QED
    BY <2>1, <2>2 DEF z, w
<1> QED
  BY <1>3, <1>4

\* The line of a part is one of the sequence.
LEMMA PartsTyped ==
    ASSUME NEW S, NEW s \in Seq(S), NEW L \in Nat \ {0}, NEW i \in 1 .. Len(s) * L
    PROVE  ((i - 1) \div L) + 1 \in 1 .. Len(s) /\ ((i - 1) % L) + 1 \in 1 .. L
<1> DEFINE q == (i - 1) \div L
           r == (i - 1) % L
           n == Len(s)
<1>1. n \in Nat /\ n * L \in Nat
  OBVIOUS
<1> HIDE DEF n
<1>2. q \in Int /\ r \in 0 .. L - 1 /\ i - 1 = L * q + r
  BY <1>1 DEF n
<1> HIDE DEF q, r
<1>3. q >= 0
  BY <1>1, <1>2
<1>4. q < n
  <2>1. SUFFICES ASSUME q >= n
                 PROVE  FALSE
    BY <1>1, <1>2
  <2>2. L * q >= L * n
    BY <1>1, <1>2, <2>1
  <2> QED
    BY <1>1, <1>2, <2>2 DEF n
<1>5. q + 1 \in 1 .. n /\ r + 1 \in 1 .. L
  BY <1>1, <1>2, <1>3, <1>4
<1> QED
  BY <1>5, Zenon DEF q, r, n

\* The constants, one by one.
LEMMA Sizes ==
    /\ POOL_SIZE \in Nat \ {0} /\ BATCH_SIZE \in Nat \ {0}
    /\ MaxLines \in Nat \ {0} /\ LineLen \in Nat \ {0}
    /\ Main \in Threads /\ NoThread \notin Threads
BY LoggerConstants, Zenon DEF LoggerConstants

\* The ring is a sequence of buffers.
LEMMA RingTyped ==
    ASSUME TypeOK
    PROVE  /\ Ring \in Seq(Buffers) /\ Len(Ring) = g_log_count
           /\ \A i \in 1 .. g_log_count : Ring[i] = g_log_queue[(g_log_tail + i - 1) % POOL_SIZE]
<1>1. \A i \in 1 .. g_log_count : (g_log_tail + i - 1) % POOL_SIZE \in 0 .. POOL_SIZE - 1
  BY Sizes DEF TypeOK
<1>2. \A i \in 1 .. g_log_count : g_log_queue[(g_log_tail + i - 1) % POOL_SIZE] \in Buffers
  BY <1>1, Zenon DEF TypeOK
<1>3. g_log_count \in Nat
  BY Sizes DEF TypeOK
<1> QED
  BY <1>2, <1>3 DEF Ring

----------------------------------------------------------------------------
(* Types *)

\* The batch goes back as a whole: the stack has room for it.
LEMMA ReturnsAll ==
    ASSUME TypeOK, BufferInv, return_batch_to_pool
    PROVE  free' = free \o batch /\ free' \in Seq(Buffers) /\ Len(free') = Len(free) + Len(batch)
<1> DEFINE all == free \o batch
<1>1. all \in Seq(Buffers) /\ Len(all) = Len(free) + Len(batch) /\ Len(all) <= POOL_SIZE
  BY Sizes DEF TypeOK, BufferInv
<1>2. free' = IF Len(all) <= POOL_SIZE THEN all ELSE SubSeq(all, 1, POOL_SIZE)
  BY Zenon DEF return_batch_to_pool
<1> QED
  BY <1>1, <1>2, Zenon

\* The batch that is taken is the beginning of the ring.
LEMMA Takes ==
    ASSUME TypeOK, logger_take
    PROVE  \E n \in 1 .. g_log_count :
              /\ batch' = SubSeq(Ring, 1, n) /\ batch' \in Seq(Buffers) /\ Len(batch') = n
              /\ rest' = Parts(batch')
              /\ g_log_tail' = Wrapped(g_log_tail + n)
              /\ g_log_count' = g_log_count - n
<1> DEFINE n == IF g_log_count < BATCH_SIZE THEN g_log_count ELSE BATCH_SIZE
<1>1. n \in 1 .. g_log_count
  BY Sizes DEF logger_take, TypeOK
<1>2. /\ batch' = SubSeq(Ring, 1, n) /\ rest' = Parts(SubSeq(Ring, 1, n))
      /\ g_log_tail' = Wrapped(g_log_tail + n)
      /\ g_log_count' = g_log_count - n
  BY Zenon DEF logger_take
<1> HIDE DEF n
<1>3. SubSeq(Ring, 1, n) \in Seq(Buffers) /\ Len(SubSeq(Ring, 1, n)) = n
  <2>1. Ring \in Seq(Buffers) /\ n \in 1 .. Len(Ring)
    BY <1>1, RingTyped, Zenon
  <2> QED
    BY <2>1
<1> QED
  BY <1>1, <1>2, <1>3, Zenon

\* The parts of a sequence of buffers.
LEMMA PartsOfBuffers ==
    ASSUME NEW s \in Seq(Buffers)
    PROVE  Parts(s) \in Seq(Buffers \X (1 .. LineLen))
<1>1. Len(s) * LineLen \in Nat
  BY Sizes
<1>2. ASSUME NEW i \in 1 .. Len(s) * LineLen
      PROVE  <<s[((i - 1) \div LineLen) + 1], ((i - 1) % LineLen) + 1>> \in Buffers \X (1 .. LineLen)
  <2>1. ((i - 1) \div LineLen) + 1 \in 1 .. Len(s) /\ ((i - 1) % LineLen) + 1 \in 1 .. LineLen
    BY Sizes, PartsTyped, Zenon
  <2> QED
    BY <2>1
<1> QED
  BY <1>1, <1>2 DEF Parts

\* What was in the buffers of parts.
LEMMA ContentTyped ==
    ASSUME TypeOK, NEW s \in Seq(Buffers \X (1 .. LineLen))
    PROVE  Content(s) \in Seq(LineParts)
<1>1. ASSUME NEW i \in 1 .. Len(s)
      PROVE  <<data[s[i][1]], s[i][2]>> \in LineParts
  <2>1. s[i] \in Buffers \X (1 .. LineLen)
    OBVIOUS
  <2>2. s[i][1] \in Buffers /\ s[i][2] \in 1 .. LineLen
    BY <2>1, Zenon
  <2> QED
    BY <2>2, Zenon DEF TypeOK, LineParts
<1> QED
  BY <1>1 DEF Content

\* Taking the top of the free stack.
LEMMA PopsTop ==
    ASSUME NEW S, NEW s \in Seq(S), s # <<>>
    PROVE  LET r == SubSeq(s, 1, Len(s) - 1)
           IN /\ s[Len(s)] \in S /\ Len(s) \in Nat \ {0}
              /\ r \in Seq(S) /\ Len(r) = Len(s) - 1
              /\ \A i \in 1 .. Len(s) - 1 : r[i] = s[i]
<1>1. Len(s) \in Nat \ {0}
  OBVIOUS
<1>2. s[Len(s)] \in S
  BY <1>1
<1>3. PICK n \in Nat : n = Len(s) - 1
  BY <1>1
<1>4. n \in 0 .. Len(s)
  BY <1>1, <1>3
<1>5. /\ SubSeq(s, 1, n) \in Seq(S) /\ Len(SubSeq(s, 1, n)) = n
      /\ \A i \in 1 .. n : SubSeq(s, 1, n)[i] = s[i]
  BY <1>4
<1> QED
  BY <1>1, <1>2, <1>3, <1>4, <1>5, Zenon

\* Every step keeps the types.
LEMMA TypeStep ==
    ASSUME TypeOK, BufferInv, LineInv, Next
    PROVE  TypeOK'
<1> USE Sizes DEF producer, queue, consumer, flags, output
<1>1. ASSUME NEW t \in Threads, Log(t)
      PROVE  TypeOK'
  <2>1. pc[t] # "idle" => AfterLog(t) \in {"shutdown", "idle"}
    BY Zenon DEF AfterLog
  <2>2. CASE logger_log(t)
    <3>1. nlines' \in [Threads -> 0 .. MaxLines] /\ level' \in [Threads -> Levels]
      BY <2>2, SMTT(30) DEF logger_log, TypeOK
    <3> QED
      BY <2>2, <3>1, Zenon DEF logger_log, TypeOK
  <2>3. CASE try_enqueue_log(t)
    <3>1. free # <<>> /\ g_log_count < POOL_SIZE /\ nlines[t] \in 0 .. MaxLines
      BY <2>3, Zenon DEF try_enqueue_log, HasRoom, TypeOK
    <3>2. Top \in Buffers /\ free' \in Seq(Buffers) /\ Len(free') = Len(free) - 1
      BY <2>3, <3>1, PopsTop, Zenon DEF TypeOK, Top, try_enqueue_log
    <3>3. <<t, nlines[t]>> \in Lines
      BY <2>3, <3>1 DEF Lines, try_enqueue_log, LineInv
    <3>4. data' \in [Buffers -> Lines] /\ g_log_queue' \in [0 .. POOL_SIZE - 1 -> Buffers]
      <4>1. /\ data' = [data EXCEPT ![Top] = <<t, nlines[t]>>]
            /\ g_log_queue' = [g_log_queue EXCEPT ![Slot] = Top]
        BY <2>3, Zenon DEF try_enqueue_log
      <4>2. data \in [Buffers -> Lines] /\ g_log_queue \in [0 .. POOL_SIZE - 1 -> Buffers]
        BY Zenon DEF TypeOK
      <4> QED
        BY <3>2, <3>3, <4>1, <4>2, Zenon
    <3>5. g_log_head' \in 0 .. POOL_SIZE - 1 /\ g_log_count' \in 0 .. POOL_SIZE
      BY <2>3, <3>1, SMTT(30) DEF try_enqueue_log, TypeOK, Wrapped
    <3>6. accepted' \in Seq(Lines) /\ stopLen' \in 0 .. Len(accepted')
      BY <2>3, <3>3 DEF try_enqueue_log, TypeOK
    <3>7. /\ logger' \in {"lock", "wait", "write", "return", "done", "none"}
          /\ pc' \in [Threads -> {"idle", "enqueue", "fallback", "shutdown", "stop", "join",
                                  "exit", "gone"}]
      <4>1. /\ logger' \in {"lock", logger} /\ pc[t] = "enqueue"
            /\ pc' = [pc EXCEPT ![t] = AfterLog(t)]
        BY <2>3, Zenon DEF try_enqueue_log
      <4>2. AfterLog(t) \in {"shutdown", "idle"}
        BY <2>1, <4>1, Zenon
      <4> QED
        BY <4>1, <4>2, Zenon DEF TypeOK
    <3>8. free' \in Seq(Buffers) /\ Len(free') <= POOL_SIZE
      <4>1. Len(free) \in Nat /\ Len(free) <= POOL_SIZE
        BY DEF TypeOK
      <4> QED
        BY <3>2, <4>1
    <3>9. UNCHANGED <<nlines, level, g_log_tail, batch, rest, g_logger_running, g_shutdown_done,
                      stopper, halted, stderr, lost, g_dropped_logs>>
      BY <2>3, Zenon DEF try_enqueue_log
    <3> QED
      BY <3>4, <3>5, <3>6, <3>7, <3>8, <3>9, Zenon DEF TypeOK
  <2>4. CASE try_enqueue_log_full(t)
    BY <2>4, Zenon DEF try_enqueue_log_full, TypeOK
  <2>5. CASE fallback_write_log(t)
    BY <2>1, <2>5, SMTT(30) DEF fallback_write_log, TypeOK
  <2> QED
    BY <1>1, <2>2, <2>3, <2>4, <2>5, Zenon DEF Log
<1>2. ASSUME NEW t \in Threads, Shutdown(t)
      PROVE  TypeOK'
  <2>1. CASE logger_shutdown(t)
    BY <2>1, Zenon DEF logger_shutdown, TypeOK
  <2>2. CASE logger_shutdown_stop(t)
    <3>1. stopLen' \in 0 .. Len(accepted') /\ stopper' \in Threads \cup {NoThread}
      <4>1. Len(accepted) \in Nat
        BY DEF TypeOK
      <4> QED
        BY <2>2, <4>1 DEF logger_shutdown_stop
    <3>2. /\ logger' \in {"lock", "wait", "write", "return", "done", "none"}
          /\ {g_logger_running', g_shutdown_done', halted'} \subseteq BOOLEAN
      BY <2>2, Zenon DEF logger_shutdown_stop, TypeOK
    <3>3. pc' \in [Threads -> {"idle", "enqueue", "fallback", "shutdown", "stop", "join",
                               "exit", "gone"}]
      BY <2>2, Zenon DEF logger_shutdown_stop, TypeOK
    <3>4. UNCHANGED <<nlines, level, free, g_log_queue, g_log_head, g_log_tail, g_log_count,
                      data, accepted, batch, rest, stderr, lost, g_dropped_logs>>
      BY <2>2, Zenon DEF logger_shutdown_stop
    <3> QED
      BY <3>1, <3>2, <3>3, <3>4, Zenon DEF TypeOK
  <2>3. CASE logger_shutdown_join(t)
    BY <2>3, Zenon DEF logger_shutdown_join, TypeOK
  <2>4. CASE exit(t)
    BY <2>4, Zenon DEF exit, TypeOK
  <2> QED
    BY <1>2, <2>1, <2>2, <2>3, <2>4, Zenon DEF Shutdown
<1>3. CASE server_shutdown
  BY <1>3, Zenon DEF server_shutdown, TypeOK
<1>4. CASE logger_wait \/ logger_leave \/ spurious_wakeup
  BY <1>4, Zenon DEF logger_wait, logger_leave, spurious_wakeup, TypeOK
<1>5. CASE logger_take
  <2>1. PICK n \in 1 .. g_log_count :
              /\ batch' = SubSeq(Ring, 1, n) /\ batch' \in Seq(Buffers) /\ Len(batch') = n
              /\ rest' = Parts(batch')
              /\ g_log_tail' = Wrapped(g_log_tail + n)
              /\ g_log_count' = g_log_count - n
    BY <1>5, Takes, Zenon
  <2>2. rest' \in Seq(Buffers \X (1 .. LineLen))
    BY <2>1, PartsOfBuffers, Zenon
  <2>3. g_log_tail' \in 0 .. POOL_SIZE - 1 /\ g_log_count' \in 0 .. POOL_SIZE
    BY <2>1, SMTT(30) DEF TypeOK, Wrapped
  <2> QED
    BY <1>5, <2>1, <2>2, <2>3, Zenon DEF logger_take, TypeOK
<1>6. CASE write_batch_iovecs
  <2>1. PICK n \in 1 .. Len(rest) : /\ stderr' = stderr \o Content(SubSeq(rest, 1, n))
                                    /\ rest' = SubSeq(rest, n + 1, Len(rest))
    BY <1>6, Zenon DEF write_batch_iovecs, advance_iovecs
  <2>2. /\ SubSeq(rest, 1, n) \in Seq(Buffers \X (1 .. LineLen))
        /\ rest' \in Seq(Buffers \X (1 .. LineLen))
    <3> DEFINE T == Buffers \X (1 .. LineLen)
    <3>1. rest \in Seq(T)
      BY Zenon DEF TypeOK
    <3> HIDE DEF T
    <3>2. SubSeq(rest, 1, n) \in Seq(T) /\ SubSeq(rest, n + 1, Len(rest)) \in Seq(T)
      BY <3>1
    <3> QED
      BY <2>1, <3>2, Zenon DEF T
  <2>3. Content(SubSeq(rest, 1, n)) \in Seq(LineParts)
    BY <2>2, ContentTyped, Zenon
  <2>4. stderr' \in Seq(LineParts)
    BY <2>1, <2>3 DEF TypeOK
  <2> QED
    BY <1>6, <2>2, <2>4, Zenon DEF write_batch_iovecs, TypeOK
<1>7. CASE write_batch_iovecs_fails
  <2>1. Content(rest) \in Seq(LineParts)
    BY ContentTyped, Zenon DEF TypeOK
  <2>2. Range(Content(rest)) \subseteq LineParts
    BY <2>1 DEF Range
  <2>3. <<>> \in Seq(Buffers \X (1 .. LineLen))
    OBVIOUS
  <2> QED
    BY <1>7, <2>2, <2>3, Zenon DEF write_batch_iovecs_fails, TypeOK
<1>8. CASE return_batch_to_pool
  <2>1. free' \in Seq(Buffers) /\ Len(free') <= POOL_SIZE
    <3>1. Len(free) + g_log_count + Len(batch) = POOL_SIZE
      BY Zenon DEF BufferInv
    <3>2. Len(free) \in Nat /\ Len(batch) \in Nat /\ g_log_count \in Nat
      BY DEF TypeOK
    <3>3. free' \in Seq(Buffers) /\ Len(free') = Len(free) + Len(batch)
      BY <1>8, ReturnsAll, Zenon
    <3> QED
      BY <3>1, <3>2, <3>3
  <2>2. batch' \in Seq(Buffers)
    BY <1>8 DEF return_batch_to_pool
  <2> QED
    BY <1>8, <2>1, <2>2, Zenon DEF return_batch_to_pool, TypeOK
<1>9. CASE UNCHANGED vars
  BY <1>9, Zenon DEF vars, TypeOK
<1> QED
  BY <1>1, <1>2, <1>3, <1>4, <1>5, <1>6, <1>7, <1>8, <1>9, Zenon DEF Next, Logs

----------------------------------------------------------------------------
(* Buffers *)

\* A line that is accepted comes last in the ring, and overwrites no slot in
\* use.
LEMMA EnqueueRing ==
    ASSUME TypeOK, BufferInv, NEW t \in Threads, try_enqueue_log(t)
    PROVE  /\ g_log_count < POOL_SIZE /\ g_log_count' = g_log_count + 1
           /\ \A i \in 1 .. g_log_count : Ring'[i] = Ring[i]
           /\ Ring'[g_log_count + 1] = free[Len(free)]
           /\ g_log_head' = Wrapped(g_log_tail + g_log_count + 1)
<1> DEFINE c == g_log_count
           T == g_log_tail
           P == POOL_SIZE
<1>1. c \in 0 .. P - 1 /\ T \in 0 .. P - 1 /\ P \in Nat \ {0}
  BY Sizes DEF try_enqueue_log, HasRoom, TypeOK
<1>2. /\ g_log_queue' = [g_log_queue EXCEPT ![(T + c) % P] = free[Len(free)]]
      /\ g_log_count' = c + 1 /\ g_log_tail' = T
      /\ g_log_head' = (((T + c) % P) + 1) % P
  BY Zenon DEF try_enqueue_log, Slot, Top, BufferInv, Wrapped
<1>3. g_log_queue \in [0 .. P - 1 -> Buffers]
  BY Zenon DEF TypeOK
<1>4. Ring' = [i \in 1 .. c + 1 |-> g_log_queue'[(T + i - 1) % P]]
  BY <1>2 DEF Ring
<1>5. \A i \in 1 .. c : Ring[i] = g_log_queue[(T + i - 1) % P]
  BY Zenon DEF Ring
<1> HIDE DEF c, T, P
<1>6. PICK h : h = T + c
  BY Zenon
<1>7. h \in 0 .. 2 * P - 1 /\ h % P = (IF h < P THEN h ELSE h - P) /\ h % P \in 0 .. P - 1
  <2>1. h \in 0 .. 2 * P - 1
    BY <1>1, <1>6
  <2> QED
    BY <1>1, <2>1, Wraps, Zenon
<1>8. ASSUME NEW i \in 1 .. c
      PROVE  Ring'[i] = Ring[i]
  <2>1. PICK x : x = T + i - 1
    BY Zenon
  <2>2. x \in 0 .. 2 * P - 1 /\ x < h /\ h - x < P
    BY <1>1, <1>6, <2>1
  <2>3. x % P = (IF x < P THEN x ELSE x - P) /\ x % P \in 0 .. P - 1
    BY <1>1, <2>2, Wraps, Zenon
  <2>4. x % P # h % P
    BY <1>1, <1>7, <2>2, <2>3
  <2>5. g_log_queue'[x % P] = g_log_queue[x % P]
    BY <1>2, <1>3, <1>6, <2>3, <2>4, Zenon
  <2>6. Ring'[i] = g_log_queue'[x % P] /\ Ring[i] = g_log_queue[x % P]
    BY <1>1, <1>4, <1>5, <2>1, SMTT(20)
  <2> QED
    BY <2>5, <2>6, Zenon
<1>9. Ring'[c + 1] = free[Len(free)]
  <2>1. c + 1 \in 1 .. c + 1 /\ T + (c + 1) - 1 = h
    BY <1>1, <1>6
  <2>2. Ring'[c + 1] = g_log_queue'[h % P]
    BY <1>4, <2>1, Zenon
  <2> QED
    BY <1>2, <1>3, <1>6, <1>7, <2>2, Zenon
<1>10. (((T + c) % P) + 1) % P = (T + c + 1) % P
  <2>1. h \in Nat /\ h + 1 < 2 * P /\ 1 \in Nat
    BY <1>1, <1>6
  <2>2. ((h % P) + 1) % P = (h + 1) % P
    BY <1>1, <2>1, WrapsOn, Zenon
  <2> QED
    BY <1>6, <2>2, Zenon
<1> QED
  BY <1>1, <1>2, <1>8, <1>9, <1>10, SMTT(30) DEF c, T, P, Wrapped

\* Taking a batch moves the rest of the ring forward.
LEMMA TakeRing ==
    ASSUME TypeOK, BufferInv, NEW n \in 1 .. g_log_count,
           g_log_tail' = Wrapped(g_log_tail + n), g_log_count' = g_log_count - n,
           UNCHANGED <<g_log_queue, g_log_head>>
    PROVE  /\ \A i \in 1 .. g_log_count - n : Ring'[i] = Ring[n + i]
           /\ g_log_head' = Wrapped(g_log_tail' + g_log_count')
<1> DEFINE c == g_log_count
           T == g_log_tail
           P == POOL_SIZE
<1>1. c \in 0 .. P /\ T \in 0 .. P - 1 /\ P \in Nat \ {0} /\ n \in 1 .. c
  BY Sizes, Zenon DEF TypeOK
<1>2. g_log_tail' = (T + n) % P /\ g_log_count' = c - n /\ g_log_head' = (T + c) % P
  BY Zenon DEF Wrapped, BufferInv
<1>3. Ring' = [i \in 1 .. c - n |-> g_log_queue[(((T + n) % P) + i - 1) % P]]
  BY <1>2, Zenon DEF Ring
<1>4. \A i \in 1 .. c : Ring[i] = g_log_queue[(T + i - 1) % P]
  BY Zenon DEF Ring
<1> HIDE DEF c, T, P
<1>5. PICK x : x = T + n
  BY Zenon
<1>6. x \in Nat
  BY <1>1, <1>5
<1>7. ASSUME NEW i \in 1 .. c - n
      PROVE  Ring'[i] = Ring[n + i]
  <2>1. PICK y : y = i - 1
    BY Zenon
  <2>2. y \in Nat /\ x + y < 2 * P /\ x + y = T + (n + i) - 1 /\ n + i \in 1 .. c
    BY <1>1, <1>5, <2>1
  <2>3. ((x % P) + y) % P = (x + y) % P
    BY <1>1, <1>6, <2>2, WrapsOn, Zenon
  <2>4. x % P \in Int
    BY <1>1, <1>6
  <2>5. ((T + n) % P) + i - 1 = (x % P) + y
    BY <1>5, <2>1, <2>4, Zenon
  <2>6. Ring'[i] = g_log_queue[((x % P) + y) % P]
    BY <1>3, <2>5, Zenon
  <2>7. Ring[n + i] = g_log_queue[(x + y) % P]
    BY <1>4, <2>2, Zenon
  <2> QED
    BY <2>3, <2>6, <2>7, Zenon
<1>8. (T + c) % P = (((T + n) % P) + (c - n)) % P
  <2>1. PICK y : y = c - n
    BY Zenon
  <2>2. y \in Nat /\ x + y < 2 * P /\ x + y = T + c
    BY <1>1, <1>5, <2>1
  <2>3. ((x % P) + y) % P = (x + y) % P
    BY <1>1, <1>6, <2>2, WrapsOn, Zenon
  <2> QED
    BY <1>5, <2>1, <2>2, <2>3, Zenon
<1> QED
  BY <1>2, <1>7, <1>8, Zenon DEF c, T, P, Wrapped

\* A step that moves no buffer.
LEMMA BuffersStay ==
    ASSUME BufferInv,
           UNCHANGED <<free, g_log_queue, g_log_head, g_log_tail, g_log_count, batch>>,
           logger' \notin {"write", "return"} => batch = <<>>,
           logger' # "write" => rest' = <<>>
    PROVE  BufferInv'
<1>1. Ring' = Ring
  BY Zenon DEF Ring
<1> QED
  BY <1>1 DEF BufferInv, Wrapped

\* The top of the free stack moves to the end of the ring.
LEMMA BuffersEnqueued ==
    ASSUME TypeOK, BufferInv, NEW t \in Threads, try_enqueue_log(t)
    PROVE  BufferInv'
<1> DEFINE c == g_log_count
           f == Len(free)
           b == free[f]
<1>1. /\ c \in Nat /\ g_log_count' = c + 1
      /\ \A i \in 1 .. c : Ring'[i] = Ring[i]
      /\ Ring'[c + 1] = b
      /\ g_log_head' = Wrapped(g_log_tail + c + 1)
  BY EnqueueRing, Sizes, SMTT(30) DEF TypeOK
<1>2. free # <<>> /\ free \in Seq(Buffers) /\ free' = SubSeq(free, 1, Len(free) - 1)
  BY Zenon DEF try_enqueue_log, HasRoom, TypeOK
<1>3. /\ f \in Nat \ {0} /\ Len(free') = f - 1
      /\ \A i \in 1 .. f - 1 : free'[i] = free[i]
  BY <1>2, PopsTop, Zenon
<1>4. batch' = batch /\ rest' = rest /\ g_log_tail' = g_log_tail /\ Len(batch) \in Nat
  BY DEF try_enqueue_log, TypeOK
<1>5. logger' = logger \/ (logger = "wait" /\ logger' = "lock")
  BY Zenon DEF try_enqueue_log
<1> HIDE DEF c, f, b
<1>6. g_log_head' = Wrapped(g_log_tail' + g_log_count') /\ Len(free') + g_log_count' + Len(batch') = POOL_SIZE
  <2>1. f + c + Len(batch) = POOL_SIZE
    BY Zenon DEF BufferInv, f, c
  <2>2. g_log_tail + (c + 1) = g_log_tail + c + 1
    BY <1>1 DEF TypeOK
  <2> QED
    BY <1>1, <1>3, <1>4, <2>1, <2>2 DEF Wrapped
<1>7. ASSUME NEW x \in Buffers
      PROVE  \/ \E i \in 1 .. Len(free') : free'[i] = x
             \/ \E i \in 1 .. g_log_count' : Ring'[i] = x
             \/ \E i \in 1 .. Len(batch') : batch'[i] = x
  <2>1. \/ \E i \in 1 .. f : free[i] = x
        \/ \E i \in 1 .. c : Ring[i] = x
        \/ \E i \in 1 .. Len(batch) : batch[i] = x
    BY Zenon DEF BufferInv, f, c
  <2>2. CASE \E i \in 1 .. f : free[i] = x
    <3>1. PICK i \in 1 .. f : free[i] = x
      BY <2>2, Zenon
    <3>2. CASE i = f
      <4>1. c + 1 \in 1 .. g_log_count' /\ Ring'[c + 1] = x
        BY <1>1, <3>1, <3>2 DEF b
      <4> QED
        BY <4>1, Zenon
    <3>3. CASE i # f
      <4>1. i \in 1 .. Len(free') /\ free'[i] = x
        BY <1>3, <3>1, <3>3
      <4> QED
        BY <4>1, Zenon
    <3> QED
      BY <3>2, <3>3, Zenon
  <2>3. CASE \E i \in 1 .. c : Ring[i] = x
    <3>1. PICK i \in 1 .. c : Ring[i] = x
      BY <2>3, Zenon
    <3>2. i \in 1 .. g_log_count' /\ Ring'[i] = x
      BY <1>1, <3>1
    <3> QED
      BY <3>2, Zenon
  <2>4. CASE \E i \in 1 .. Len(batch) : batch[i] = x
    BY <1>4, <2>4, Zenon
  <2> QED
    BY <2>1, <2>2, <2>3, <2>4, Zenon
<1>8. \A i, j \in 1 .. Len(free') : free'[i] = free'[j] => i = j
  BY <1>3, SMTT(30) DEF BufferInv, f
<1>9. /\ \A i \in 1 .. c : b # Ring[i]
      /\ \A i \in 1 .. f - 1 : free[i] # b
      /\ \A i \in 1 .. Len(batch) : b # batch[i]
  BY <1>3 DEF BufferInv, f, c, b
<1>10. \A i \in 1 .. g_log_count' : i \in 1 .. c \/ i = c + 1
  BY <1>1
<1>11. \A i, j \in 1 .. g_log_count' : Ring'[i] = Ring'[j] => i = j
  <2>1. \A i, j \in 1 .. c : Ring[i] = Ring[j] => i = j
    BY Zenon DEF BufferInv, c
  <2>2. SUFFICES ASSUME NEW i \in 1 .. g_log_count', NEW j \in 1 .. g_log_count',
                        Ring'[i] = Ring'[j]
                 PROVE  i = j
    BY Zenon
  <2>3. CASE i \in 1 .. c /\ j \in 1 .. c
    BY <1>1, <2>1, <2>2, <2>3, Zenon
  <2>4. CASE i \in 1 .. c /\ j = c + 1
    BY <1>1, <1>9, <2>2, <2>4, Zenon
  <2>5. CASE i = c + 1 /\ j \in 1 .. c
    BY <1>1, <1>9, <2>2, <2>5, Zenon
  <2> QED
    BY <1>10, <2>3, <2>4, <2>5, Zenon
<1>12. \A i \in 1 .. Len(free'), j \in 1 .. g_log_count' : free'[i] # Ring'[j]
  <2>1. \A i \in 1 .. f - 1, j \in 1 .. c : free[i] # Ring[j]
    BY <1>3 DEF BufferInv, f, c
  <2> QED
    BY <1>1, <1>3, <1>9, <1>10, <2>1
<1>13. \A i \in 1 .. Len(free'), j \in 1 .. Len(batch') : free'[i] # batch'[j]
  BY <1>3, <1>4 DEF BufferInv, f
<1>14. \A i \in 1 .. g_log_count', j \in 1 .. Len(batch') : Ring'[i] # batch'[j]
  BY <1>1, <1>4, <1>9, <1>10 DEF BufferInv, c
<1>15. \A i, j \in 1 .. Len(batch') : batch'[i] = batch'[j] => i = j
  BY <1>4, SMTT(30) DEF BufferInv
<1>16. (logger' \notin {"write", "return"} => batch' = <<>>) /\ (logger' # "write" => rest' = <<>>)
  BY <1>4, <1>5, Zenon DEF BufferInv
<1> QED
  BY <1>6, <1>7, <1>8, <1>11, <1>12, <1>13, <1>14, <1>15, <1>16, Zenon DEF BufferInv

\* The beginning of the ring becomes the batch.
LEMMA BuffersTaken ==
    ASSUME TypeOK, BufferInv, logger_take
    PROVE  BufferInv'
<1>1. PICK n \in 1 .. g_log_count :
         /\ batch' = SubSeq(Ring, 1, n) /\ batch' \in Seq(Buffers) /\ Len(batch') = n
         /\ rest' = Parts(batch')
         /\ g_log_tail' = Wrapped(g_log_tail + n)
         /\ g_log_count' = g_log_count - n
  BY Takes, Zenon
<1> DEFINE c == g_log_count
<1>2. c \in Nat /\ n \in 1 .. c /\ n \in Nat /\ g_log_count' = c - n
  BY <1>1, Sizes DEF TypeOK
<1>3. UNCHANGED <<free, g_log_queue, g_log_head>> /\ logger = "lock" /\ logger' = "write"
  BY Zenon DEF logger_take
<1>4. /\ \A i \in 1 .. c - n : Ring'[i] = Ring[n + i]
      /\ g_log_head' = Wrapped(g_log_tail' + g_log_count')
  BY <1>1, <1>3, TakeRing, Zenon
<1>5. \A i \in 1 .. n : batch'[i] = Ring[i]
  <2>1. Ring \in Seq(Buffers) /\ n \in 1 .. Len(Ring)
    BY <1>1, RingTyped, Zenon
  <2> HIDE DEF Ring
  <2> QED
    BY <1>1, <2>1
<1>6. batch = <<>> /\ Len(free) \in Nat
  BY <1>3 DEF BufferInv, TypeOK
<1>7. Len(free) + c = POOL_SIZE
  BY <1>2, <1>6, SMTT(30) DEF BufferInv
<1>8. /\ \A i, j \in 1 .. Len(free) : free[i] = free[j] => i = j
      /\ \A i, j \in 1 .. c : Ring[i] = Ring[j] => i = j
      /\ \A i \in 1 .. Len(free), j \in 1 .. c : free[i] # Ring[j]
  BY Zenon DEF BufferInv
<1> HIDE DEF c
<1>9. Len(free') + g_log_count' + Len(batch') = POOL_SIZE
  BY <1>1, <1>2, <1>3, <1>6, <1>7
<1>10. ASSUME NEW x \in Buffers
       PROVE  \/ \E i \in 1 .. Len(free') : free'[i] = x
              \/ \E i \in 1 .. g_log_count' : Ring'[i] = x
              \/ \E i \in 1 .. Len(batch') : batch'[i] = x
  <2>1. (\E i \in 1 .. Len(free) : free[i] = x) \/ \E i \in 1 .. c : Ring[i] = x
    BY <1>6 DEF BufferInv, c
  <2>2. CASE \E i \in 1 .. Len(free) : free[i] = x
    BY <1>3, <2>2, Zenon
  <2>3. CASE \E i \in 1 .. c : Ring[i] = x
    <3>1. PICK i \in 1 .. c : Ring[i] = x
      BY <2>3, Zenon
    <3>2. CASE i <= n
      <4>1. i \in 1 .. n
        BY <1>2, <3>2
      <4> QED
        BY <1>1, <1>5, <3>1, <4>1, Zenon
    <3>3. CASE i > n
      <4>1. PICK j : j = i - n
        BY Zenon
      <4>2. j \in 1 .. c - n /\ n + j = i
        BY <1>2, <3>3, <4>1
      <4>3. Ring'[j] = x
        BY <1>4, <3>1, <4>2, Zenon
      <4> QED
        BY <1>2, <4>2, <4>3, Zenon
    <3> QED
      BY <1>2, <3>2, <3>3
  <2> QED
    BY <2>1, <2>2, <2>3, Zenon
<1>11. \A i \in 1 .. c - n : n + i \in 1 .. c /\ n + i \notin 1 .. n
  BY <1>2
<1>12. \A i \in 1 .. n : i \in 1 .. c
  BY <1>2
<1>13. \A i, j \in 1 .. g_log_count' : Ring'[i] = Ring'[j] => i = j
  BY <1>2, <1>4, <1>8, <1>11, SMTT(20)
<1>14. \A i, j \in 1 .. Len(batch') : batch'[i] = batch'[j] => i = j
  BY <1>1, <1>5, <1>8, <1>12
<1>15. \A i \in 1 .. Len(free'), j \in 1 .. g_log_count' : free'[i] # Ring'[j]
  BY <1>2, <1>3, <1>4, <1>8, <1>11
<1>16. \A i \in 1 .. Len(free'), j \in 1 .. Len(batch') : free'[i] # batch'[j]
  BY <1>1, <1>3, <1>5, <1>8, <1>12
<1>17. \A i \in 1 .. g_log_count', j \in 1 .. Len(batch') : Ring'[i] # batch'[j]
  BY <1>1, <1>2, <1>4, <1>5, <1>8, <1>11, <1>12
<1> QED
  BY <1>3, <1>4, <1>8, <1>9, <1>10, <1>13, <1>14, <1>15, <1>16, <1>17 DEF BufferInv

\* The batch goes back on the free stack.
LEMMA BuffersReturned ==
    ASSUME TypeOK, BufferInv, return_batch_to_pool
    PROVE  BufferInv'
<1> DEFINE f == Len(free)
           n == Len(batch)
<1>1. f \in Nat /\ n \in Nat /\ free \in Seq(Buffers) /\ batch \in Seq(Buffers)
  BY DEF TypeOK
<1>2. free' = free \o batch /\ Len(free') = f + n
  BY ReturnsAll, Zenon
<1>3. /\ batch' = <<>> /\ Len(batch') = 0 /\ rest' = rest /\ logger = "return" /\ logger' = "lock"
      /\ UNCHANGED <<g_log_queue, g_log_head, g_log_tail, g_log_count>>
  BY Zenon DEF return_batch_to_pool
<1>4. Ring' = Ring
  BY <1>3 DEF Ring
<1>5. /\ \A i \in 1 .. f : free'[i] = free[i]
      /\ \A i \in 1 .. n : free'[f + i] = batch[i]
  BY <1>1, <1>2
<1>6. \A i \in 1 .. f + n : i \in 1 .. f \/ (i - f \in 1 .. n /\ f + (i - f) = i)
  BY <1>1
<1> HIDE DEF f, n
<1>7. \A i \in 1 .. f + n : \/ i \in 1 .. f /\ free'[i] = free[i]
                            \/ i - f \in 1 .. n /\ free'[i] = batch[i - f]
  BY <1>5, <1>6, Zenon
<1>8. Len(free') + g_log_count' + Len(batch') = POOL_SIZE /\ rest' = <<>>
  BY <1>1, <1>2, <1>3, Sizes, SMTT(30) DEF BufferInv, TypeOK, f, n
<1>9. ASSUME NEW x \in Buffers
      PROVE  \/ \E i \in 1 .. Len(free') : free'[i] = x
             \/ \E i \in 1 .. g_log_count' : Ring'[i] = x
  <2>1. \/ \E i \in 1 .. f : free[i] = x
        \/ \E i \in 1 .. g_log_count : Ring[i] = x
        \/ \E i \in 1 .. n : batch[i] = x
    BY Zenon DEF BufferInv, f, n
  <2>2. CASE \E i \in 1 .. f : free[i] = x
    <3>1. PICK i \in 1 .. f : free[i] = x
      BY <2>2, Zenon
    <3>2. i \in 1 .. Len(free') /\ free'[i] = x
      BY <1>1, <1>2, <1>5, <3>1
    <3> QED
      BY <3>2, Zenon
  <2>3. CASE \E i \in 1 .. n : batch[i] = x
    <3>1. PICK i \in 1 .. n : batch[i] = x
      BY <2>3, Zenon
    <3>2. f + i \in 1 .. Len(free') /\ free'[f + i] = x
      BY <1>1, <1>2, <1>5, <3>1
    <3> QED
      BY <3>2, Zenon
  <2>4. CASE \E i \in 1 .. g_log_count : Ring[i] = x
    BY <1>3, <1>4, <2>4, Zenon
  <2> QED
    BY <2>1, <2>2, <2>3, <2>4, Zenon
<1>10. /\ \A i, j \in 1 .. f : free[i] = free[j] => i = j
       /\ \A i, j \in 1 .. n : batch[i] = batch[j] => i = j
       /\ \A i \in 1 .. f, j \in 1 .. n : free[i] # batch[j]
       /\ \A i \in 1 .. f, j \in 1 .. g_log_count : free[i] # Ring[j]
       /\ \A i \in 1 .. g_log_count, j \in 1 .. n : Ring[i] # batch[j]
  BY Zenon DEF BufferInv, f, n
<1>11. \A i, j \in 1 .. Len(free') : free'[i] = free'[j] => i = j
  <2>1. SUFFICES ASSUME NEW i \in 1 .. f + n, NEW j \in 1 .. f + n, free'[i] = free'[j]
                 PROVE  i = j
    BY <1>2, Zenon
  <2>2. CASE i \in 1 .. f /\ j \in 1 .. f
    BY <1>5, <1>10, <2>1, <2>2, Zenon
  <2>3. CASE i \in 1 .. f /\ j - f \in 1 .. n /\ free'[j] = batch[j - f]
    BY <1>5, <1>10, <2>1, <2>3
  <2>4. CASE j \in 1 .. f /\ i - f \in 1 .. n /\ free'[i] = batch[i - f]
    BY <1>5, <1>10, <2>1, <2>4, Zenon
  <2>5. CASE i - f \in 1 .. n /\ free'[i] = batch[i - f] /\ j - f \in 1 .. n /\ free'[j] = batch[j - f]
    <3>1. i - f = j - f
      BY <1>10, <2>1, <2>5, Zenon
    <3> QED
      BY <1>1, <3>1
  <2> QED
    BY <1>7, <2>2, <2>3, <2>4, <2>5, Zenon
<1>12. \A i \in 1 .. Len(free'), j \in 1 .. g_log_count' : free'[i] # Ring'[j]
  BY <1>2, <1>3, <1>4, <1>7, <1>10
<1>13. g_log_head' = Wrapped(g_log_tail' + g_log_count')
  BY <1>3, Zenon DEF BufferInv, Wrapped
<1>14. \A i, j \in 1 .. g_log_count' : Ring'[i] = Ring'[j] => i = j
  BY <1>3, <1>4 DEF BufferInv
<1> QED
  BY <1>3, <1>8, <1>9, <1>11, <1>12, <1>13, <1>14 DEF BufferInv

\* Every step keeps the buffers apart.
LEMMA BufferStep ==
    ASSUME TypeOK, BufferInv, Next
    PROVE  BufferInv'
<1> USE DEF producer, queue, consumer, flags, output
<1>1. ASSUME NEW t \in Threads, Log(t)
      PROVE  BufferInv'
  <2>1. CASE try_enqueue_log(t)
    BY <2>1, BuffersEnqueued, Zenon
  <2>2. CASE logger_log(t) \/ try_enqueue_log_full(t) \/ fallback_write_log(t)
    <3>1. UNCHANGED <<queue, consumer>>
      BY <2>2, Zenon DEF logger_log, try_enqueue_log_full, fallback_write_log
    <3> QED
      BY <3>1, BuffersStay, Zenon DEF BufferInv
  <2> QED
    BY <1>1, <2>1, <2>2, Zenon DEF Log
<1>2. ASSUME NEW t \in Threads, Shutdown(t)
      PROVE  BufferInv'
  <2>1. UNCHANGED <<queue, batch, rest>> /\ (logger' = logger \/ (logger = "wait" /\ logger' = "lock"))
    BY <1>2, Zenon DEF Shutdown, logger_shutdown, logger_shutdown_stop, logger_shutdown_join, exit
  <2> QED
    BY <2>1, BuffersStay, Zenon DEF BufferInv
<1>3. CASE server_shutdown
  BY <1>3, BuffersStay, Zenon DEF server_shutdown, BufferInv
<1>4. CASE logger_wait \/ logger_leave \/ spurious_wakeup
  <2>1. UNCHANGED <<queue, batch, rest>> /\ logger \in {"lock", "wait"}
    BY <1>4, Zenon DEF logger_wait, logger_leave, spurious_wakeup
  <2> QED
    BY <2>1, BuffersStay, Zenon DEF BufferInv
<1>5. CASE write_batch_iovecs \/ write_batch_iovecs_fails
  <2>1. /\ UNCHANGED <<queue, batch>> /\ logger' \in {"write", "return"}
        /\ logger' # "write" => rest' = <<>>
    BY <1>5, Zenon DEF write_batch_iovecs, write_batch_iovecs_fails
  <2> QED
    BY <2>1, BuffersStay, Zenon
<1>6. CASE UNCHANGED vars
  BY <1>6, BuffersStay, Zenon DEF vars, BufferInv
<1> QED
  BY <1>1, <1>2, <1>3, <1>4, <1>5, <1>6, BuffersTaken, BuffersReturned, Zenon DEF Next, Logs

----------------------------------------------------------------------------
(* Lines *)

\* An accepted line has a thread and a number.
LEMMA AcceptedTyped ==
    ASSUME TypeOK, NEW i \in 1 .. Len(accepted)
    PROVE  accepted[i][1] \in Threads /\ accepted[i][2] \in Nat
<1>1. accepted \in Seq(Lines)
  BY Zenon DEF TypeOK
<1>2. accepted[i] \in Lines
  BY <1>1
<1>3. accepted[i][1] \in Threads /\ accepted[i][2] \in 1 .. MaxLines
  BY <1>2, Zenon DEF Lines
<1> QED
  BY <1>3, Sizes

\* A step that accepts no line and takes none.
LEMMA LinesStay ==
    ASSUME LineInv, UNCHANGED <<g_log_queue, g_log_tail, g_log_count, data, accepted, nlines>>,
           \A t \in Threads : pc'[t] = "enqueue" => pc[t] = "enqueue", TypeOK
    PROVE  LineInv'
<1>1. Ring' = Ring
  BY Zenon DEF Ring
<1>2. \A i \in 1 .. Len(accepted) : accepted[i][1] \in Threads
  BY AcceptedTyped, Zenon
<1> QED
  BY <1>1, <1>2, Zenon DEF LineInv

\* A thread begins to log: its line has a number it has not used.
LEMMA LinesBegun ==
    ASSUME TypeOK, LineInv, NEW t \in Threads, logger_log(t)
    PROVE  LineInv'
<1>1. UNCHANGED <<g_log_queue, g_log_tail, g_log_count, data, accepted>>
  BY Zenon DEF logger_log, queue
<1>2. Ring' = Ring
  BY <1>1, Zenon DEF Ring
<1>3. /\ \A u \in Threads : u # t => nlines'[u] = nlines[u] /\ pc'[u] = pc[u]
      /\ nlines'[t] = nlines[t] + 1 /\ nlines[t] \in Nat
  BY Sizes DEF logger_log, TypeOK
<1>4. \A i \in 1 .. Len(accepted) : accepted[i][1] \in Threads /\ accepted[i][2] \in Nat
  BY AcceptedTyped, Zenon
<1>5. ASSUME NEW i \in 1 .. Len(accepted')
      PROVE  /\ accepted'[i][2] <= nlines'[accepted'[i][1]]
             /\ pc'[accepted'[i][1]] = "enqueue" => accepted'[i][2] < nlines'[accepted'[i][1]]
  <2>1. CASE accepted[i][1] = t
    BY <1>1, <1>3, <1>4, <2>1 DEF LineInv
  <2>2. CASE accepted[i][1] # t
    BY <1>1, <1>3, <1>4, <2>2, Zenon DEF LineInv
  <2> QED
    BY <2>1, <2>2, Zenon
<1>6. \A u \in Threads : pc'[u] = "enqueue" => nlines'[u] > 0
  <2>1. ASSUME NEW u \in Threads, pc'[u] = "enqueue"
        PROVE  nlines'[u] > 0
    BY <1>3, <2>1, SMTT(30) DEF LineInv
  <2> QED
    BY <2>1, Zenon
<1>7. /\ g_log_count' <= Len(accepted')
      /\ \A i \in 1 .. g_log_count' : data'[Ring'[i]] = accepted'[Len(accepted') - g_log_count' + i]
      /\ \A i, j \in 1 .. Len(accepted') : accepted'[i] = accepted'[j] => i = j
  BY <1>1, <1>2, Zenon DEF LineInv
<1> QED
  BY <1>5, <1>6, <1>7, Zenon DEF LineInv

\* A line is accepted: it is in no buffer of the ring yet, and its buffer was
\* free.
LEMMA LinesAccepted ==
    ASSUME TypeOK, BufferInv, LineInv, NEW t \in Threads, try_enqueue_log(t)
    PROVE  LineInv'
<1> DEFINE c == g_log_count
           a == Len(accepted)
           b == free[Len(free)]
           l == <<t, nlines[t]>>
<1>1. /\ c \in Nat /\ g_log_count' = c + 1
      /\ \A i \in 1 .. c : Ring'[i] = Ring[i]
      /\ Ring'[c + 1] = b
  BY EnqueueRing, Sizes, SMTT(20) DEF TypeOK
<1>2. free # <<>> /\ b \in Buffers /\ Len(free) \in Nat \ {0}
  <2>1. free # <<>> /\ free \in Seq(Buffers)
    BY Zenon DEF try_enqueue_log, HasRoom, TypeOK
  <2>2. free[Len(free)] \in Buffers /\ Len(free) \in Nat \ {0}
    BY <2>1, PopsTop, Zenon
  <2> QED
    BY <2>1, <2>2, Zenon
<1>3. data' = [data EXCEPT ![b] = l] /\ accepted' = Append(accepted, l) /\ nlines' = nlines
  BY Zenon DEF try_enqueue_log, Top
<1>4. pc[t] = "enqueue" /\ pc'[t] # "enqueue" /\ \A u \in Threads : u # t => pc'[u] = pc[u]
  BY Zenon DEF try_enqueue_log, AfterLog, TypeOK
<1>5. /\ a \in Nat /\ Len(accepted') = a + 1 /\ accepted'[a + 1] = l
      /\ \A i \in 1 .. a : accepted'[i] = accepted[i]
  BY <1>3, SMTT(30) DEF TypeOK
<1>6. \A i \in 1 .. c : Ring[i] # b /\ Ring[i] \in Buffers
  <2>1. Ring \in Seq(Buffers) /\ Len(Ring) = c
    BY RingTyped, Zenon
  <2>2. \A i \in 1 .. c : Ring[i] \in Buffers
    BY <2>1
  <2> QED
    BY <1>2, <2>2 DEF BufferInv
<1>7. /\ c <= a
      /\ \A i \in 1 .. c : data[Ring[i]] = accepted[a - c + i]
      /\ \A i, j \in 1 .. a : accepted[i] = accepted[j] => i = j
      /\ \A u \in Threads : pc[u] = "enqueue" => nlines[u] > 0
  BY Zenon DEF LineInv
<1>8. \A i \in 1 .. a : /\ accepted[i][1] \in Threads /\ accepted[i][2] \in Nat
                        /\ accepted[i][2] <= nlines[accepted[i][1]]
                        /\ pc[accepted[i][1]] = "enqueue" => accepted[i][2] < nlines[accepted[i][1]]
  BY AcceptedTyped, Zenon DEF LineInv
<1>9. \A i \in 1 .. a : accepted[i] # l
  <2>1. \A i \in 1 .. a : accepted[i][1] = t => accepted[i][2] # nlines[t]
    BY <1>4, <1>8, Sizes DEF TypeOK
  <2> QED
    BY <2>1
<1>10. data \in [Buffers -> Lines] /\ nlines[t] \in Nat
  BY Sizes DEF TypeOK
<1>11. l[1] = t /\ l[2] = nlines[t]
  BY Zenon
<1> HIDE DEF c, a, b, l
<1>12. data'[b] = l /\ \A i \in 1 .. c : data'[Ring[i]] = data[Ring[i]]
  BY <1>2, <1>3, <1>6, <1>10, Zenon
<1>13. \A i \in 1 .. a + 1 : i \in 1 .. a \/ i = a + 1
  BY <1>5
<1>14. ASSUME NEW i \in 1 .. c + 1
       PROVE  data'[Ring'[i]] = accepted'[(a + 1) - (c + 1) + i]
  <2>1. CASE i = c + 1
    <3>1. (a + 1) - (c + 1) + i = a + 1
      BY <1>1, <1>5, <2>1
    <3> QED
      BY <1>1, <1>5, <1>12, <2>1, <3>1, Zenon
  <2>2. CASE i # c + 1
    <3>1. i \in 1 .. c /\ (a + 1) - (c + 1) + i = a - c + i /\ a - c + i \in 1 .. a
      BY <1>1, <1>5, <1>7, <2>2
    <3> QED
      BY <1>1, <1>5, <1>7, <1>12, <3>1
  <2> QED
    BY <2>1, <2>2, Zenon
<1>15. ASSUME NEW i \in 1 .. a + 1
       PROVE  /\ accepted'[i][2] <= nlines'[accepted'[i][1]]
              /\ pc'[accepted'[i][1]] = "enqueue" => accepted'[i][2] < nlines'[accepted'[i][1]]
  <2>1. CASE i = a + 1
    BY <1>3, <1>4, <1>5, <1>10, <1>11, <2>1
  <2>2. CASE i \in 1 .. a
    <3>1. PICK u \in Threads : u = accepted[i][1]
      BY <1>8, <2>2, Zenon
    <3>2. /\ accepted[i][2] <= nlines[u]
          /\ pc[u] = "enqueue" => accepted[i][2] < nlines[u]
      BY <1>8, <2>2, <3>1, Zenon
    <3>3. pc'[u] = "enqueue" => pc[u] = "enqueue"
      BY <1>4, Zenon
    <3> QED
      BY <1>3, <1>5, <2>2, <3>1, <3>2, <3>3, Zenon
  <2> QED
    BY <1>13, <2>1, <2>2, Zenon
<1>16. ASSUME NEW i \in 1 .. a + 1, NEW j \in 1 .. a + 1, accepted'[i] = accepted'[j]
       PROVE  i = j
  <2>1. CASE i \in 1 .. a /\ j \in 1 .. a
    BY <1>5, <1>7, <1>16, <2>1, Zenon
  <2>2. CASE i = a + 1 /\ j \in 1 .. a
    BY <1>5, <1>9, <1>16, <2>2, Zenon
  <2>3. CASE i \in 1 .. a /\ j = a + 1
    BY <1>5, <1>9, <1>16, <2>3, Zenon
  <2> QED
    BY <1>13, <2>1, <2>2, <2>3, Zenon
<1>17. \A u \in Threads : pc'[u] = "enqueue" => nlines'[u] > 0
  BY <1>3, <1>4, <1>7, Zenon
<1>18. c + 1 <= a + 1
  BY <1>1, <1>5, <1>7
<1> QED
  BY <1>1, <1>5, <1>14, <1>15, <1>16, <1>17, <1>18, Zenon DEF LineInv

\* A batch is taken: the ring still holds the last lines.
LEMMA LinesTaken ==
    ASSUME TypeOK, BufferInv, LineInv, logger_take
    PROVE  LineInv'
<1>1. PICK n \in 1 .. g_log_count : /\ g_log_tail' = Wrapped(g_log_tail + n)
                                    /\ g_log_count' = g_log_count - n
  BY Takes, Zenon
<1> DEFINE c == g_log_count
           a == Len(accepted)
<1>2. UNCHANGED <<g_log_queue, g_log_head, data, accepted, nlines, pc>>
  BY Zenon DEF logger_take, producer
<1>3. \A i \in 1 .. c - n : Ring'[i] = Ring[n + i]
  BY <1>1, <1>2, TakeRing, Zenon
<1>4. c \in Nat /\ a \in Nat /\ n \in 1 .. c /\ c <= a
  BY <1>1, Sizes DEF TypeOK, LineInv
<1>5. \A i \in 1 .. c : data[Ring[i]] = accepted[a - c + i]
  BY Zenon DEF LineInv
<1> HIDE DEF c, a
<1>6. ASSUME NEW i \in 1 .. c - n
      PROVE  data'[Ring'[i]] = accepted'[a - (c - n) + i]
  <2>1. n + i \in 1 .. c /\ a - (c - n) + i = a - c + (n + i)
    BY <1>4
  <2> QED
    BY <1>2, <1>3, <1>5, <2>1, Zenon
<1>7. g_log_count' = c - n /\ Len(accepted') = a /\ c - n <= a
  BY <1>1, <1>2, <1>4 DEF c, a
<1> QED
  BY <1>2, <1>6, <1>7, Zenon DEF LineInv

\* Every step keeps the lines in order.
LEMMA LineStep ==
    ASSUME TypeOK, BufferInv, LineInv, Next
    PROVE  LineInv'
<1> USE DEF producer, queue, consumer, flags, output
<1>1. ASSUME NEW t \in Threads, Log(t)
      PROVE  LineInv'
  <2>1. CASE try_enqueue_log_full(t) \/ fallback_write_log(t)
    <3>1. UNCHANGED <<queue, nlines>>
      BY <2>1, Zenon DEF try_enqueue_log_full, fallback_write_log
    <3>2. \A u \in Threads : pc'[u] = "enqueue" => pc[u] = "enqueue"
      BY <2>1, Zenon DEF try_enqueue_log_full, fallback_write_log, AfterLog, TypeOK
    <3> QED
      BY <3>1, <3>2, LinesStay, Zenon
  <2> QED
    BY <1>1, <2>1, LinesBegun, LinesAccepted, Zenon DEF Log
<1>2. ASSUME NEW t \in Threads, Shutdown(t)
      PROVE  LineInv'
  <2>1. UNCHANGED <<queue, nlines>>
    BY <1>2, Zenon DEF Shutdown, logger_shutdown, logger_shutdown_stop, logger_shutdown_join, exit
  <2>2. \A u \in Threads : pc'[u] = "enqueue" => pc[u] = "enqueue"
    BY <1>2, Zenon DEF Shutdown, logger_shutdown, logger_shutdown_stop, logger_shutdown_join, exit, TypeOK
  <2> QED
    BY <2>1, <2>2, LinesStay, Zenon
<1>3. CASE server_shutdown
  <2>1. \A u \in Threads : pc'[u] = "enqueue" => pc[u] = "enqueue"
    BY <1>3, Zenon DEF server_shutdown
  <2> QED
    BY <1>3, <2>1, LinesStay, Zenon DEF server_shutdown
<1>4. CASE logger_wait \/ logger_leave \/ spurious_wakeup \/ write_batch_iovecs \/ write_batch_iovecs_fails
  <2>1. UNCHANGED <<queue, producer>>
    BY <1>4, Zenon DEF logger_wait, logger_leave, spurious_wakeup, write_batch_iovecs, write_batch_iovecs_fails
  <2> QED
    BY <2>1, LinesStay, Zenon
<1>5. CASE return_batch_to_pool
  BY <1>5, LinesStay, Zenon DEF return_batch_to_pool
<1>6. CASE UNCHANGED vars
  BY <1>6, LinesStay, Zenon DEF vars
<1> QED
  BY <1>1, <1>2, <1>3, <1>4, <1>5, <1>6, LinesTaken, Zenon DEF Next, Logs

----------------------------------------------------------------------------
(* Stopping *)

\* Every step of the logger thread keeps the order of the stop.
LEMMA StopLogs ==
    ASSUME TypeOK, StopInv, Logs \/ spurious_wakeup
    PROVE  StopInv'
<1>1. UNCHANGED <<pc, accepted, g_logger_running, g_shutdown_done, stopper, stopLen>>
  BY Zenon DEF Logs, logger_wait, logger_leave, logger_take, write_batch_iovecs, write_batch_iovecs_fails,
         return_batch_to_pool, spurious_wakeup, producer, queue, flags
<1>2. OthersGone' <=> OthersGone
  BY <1>1, Zenon DEF OthersGone
<1>3. g_log_count \in Nat /\ Len(accepted) \in Nat /\ stopLen <= Len(accepted) /\ stopLen \in Nat
  BY Sizes DEF TypeOK
<1>4. CASE logger_wait
  BY <1>1, <1>2, <1>4, Zenon DEF logger_wait, StopInv, LoggerAwake, queue
<1>5. CASE logger_leave
  BY <1>1, <1>2, <1>3, <1>5 DEF logger_leave, StopInv, LoggerAwake, queue
<1>6. CASE /\ logger \notin {"done", "none"}
           /\ logger' \notin {"wait", "done", "none"}
  BY <1>1, <1>2, <1>6, Zenon DEF StopInv, LoggerAwake
<1>7. CASE logger_take \/ write_batch_iovecs \/ write_batch_iovecs_fails \/ return_batch_to_pool
             \/ spurious_wakeup
  BY <1>6, <1>7, Zenon DEF logger_take, write_batch_iovecs, write_batch_iovecs_fails, return_batch_to_pool,
                    spurious_wakeup
<1> QED
  BY <1>4, <1>5, <1>7, Zenon DEF Logs

\* A thread that logs keeps it.  Who begins while the logger runs may be late:
\* its line is then accepted after the stop.
LEMMA StopLog ==
    ASSUME TypeOK, StopInv, NEW t \in Threads, Log(t)
    PROVE  StopInv'
<1>1. UNCHANGED <<g_logger_running, g_shutdown_done, stopper, stopLen>>
  BY Zenon DEF Log, logger_log, try_enqueue_log, try_enqueue_log_full, fallback_write_log, flags
<1>2. /\ pc[t] \in {"idle", "enqueue", "fallback"}
      /\ pc'[t] \in {"idle", "enqueue", "fallback", "shutdown"}
      /\ \A u \in Threads : u # t => pc'[u] = pc[u]
  BY Zenon DEF Log, logger_log, try_enqueue_log, try_enqueue_log_full, fallback_write_log, AfterLog, TypeOK
<1>3. Main \in Threads /\ NoThread \notin Threads
  BY Sizes, Zenon
<1>4. OthersGone' <=> OthersGone
  <2>1. t # Main => ~OthersGone /\ ~OthersGone'
    BY <1>2 DEF OthersGone
  <2>2. t = Main => (OthersGone' <=> OthersGone)
    BY <1>2, Zenon DEF OthersGone
  <2> QED
    BY <2>1, <2>2, Zenon
<1>5. g_log_count \in Nat /\ Len(accepted) \in Nat
  BY Sizes DEF TypeOK
<1>6. \A u \in Threads, l \in {"stop", "join", "exit", "gone"} : pc'[u] = l <=> pc[u] = l
  BY <1>2, Zenon
<1>7. /\ \A u \in Threads : pc'[u] = "stop" => g_logger_running' /\ g_shutdown_done'
      /\ \A u, v \in Threads : pc'[u] = "stop" /\ pc'[v] = "stop" => u = v
      /\ g_shutdown_done' => \E u \in Threads : pc'[u] \in {"stop", "join", "exit"}
      /\ \A u \in Threads : pc'[u] = "join" => stopper' = u
  BY <1>1, <1>6, Zenon DEF StopInv
<1>8. stopper # NoThread => stopper \in Threads /\ stopper # t /\ pc'[stopper] = pc[stopper]
  BY <1>2, Zenon DEF StopInv, TypeOK
<1>9. /\ \A u \in Threads : pc'[u] = "gone" => u # Main /\ OthersGone'
      /\ (\E u \in Threads : pc'[u] = "gone") => pc'[Main] \in {"shutdown", "stop", "join", "exit"}
  <2>1. (\E u \in Threads : pc[u] = "gone") => t # Main
    BY <1>2, Zenon DEF StopInv
  <2> QED
    BY <1>2, <1>3, <1>4, <1>6, <2>1, Zenon DEF StopInv
<1>10. pc'[Main] = "exit" <=> pc[Main] = "exit"
  BY <1>3, <1>6, Zenon
<1>11. CASE try_enqueue_log(t)
  <2>1. g_log_count' = g_log_count + 1 /\ Len(accepted') = Len(accepted) + 1 /\ pc[t] = "enqueue"
    BY <1>11 DEF try_enqueue_log, TypeOK
  <2>2. logger' = IF logger = "wait" /\ g_log_count = 0 THEN "lock" ELSE logger
    BY <1>5, <1>11 DEF try_enqueue_log, Wakes
  <2>3. logger' # "wait" /\ logger # "none"
    BY <2>1, <2>2, Zenon DEF StopInv, LoggerAwake
  <2>4. ~(OthersGone /\ logger = "done")
    <3>1. SUFFICES ASSUME OthersGone, logger = "done"
                   PROVE  FALSE
      BY Zenon
    <3>2. stopper \in Threads /\ pc[stopper] \in {"join", "exit"}
      BY <3>1, Zenon DEF StopInv, TypeOK
    <3>3. stopper = Main
      BY <3>1, <3>2 DEF OthersGone
    <3> QED
      BY <1>2, <1>3, <2>1, <3>1, <3>2, <3>3, Zenon DEF OthersGone
  <2>5. logger' = "done" <=> logger = "done"
    BY <2>2, Zenon
  <2>6. logger' = "done" => stopLen' <= Len(accepted') - g_log_count' /\ stopper' # NoThread
    BY <1>1, <1>5, <2>1, <2>5 DEF StopInv, TypeOK
  <2>7. pc'[t] # "enqueue" /\ logger' # "none"
    BY <1>11, <2>2, <2>3, Zenon DEF try_enqueue_log, AfterLog, TypeOK
  <2> QED
    <3>1. g_logger_running' => stopper' = NoThread /\ logger' \notin {"done", "none"}
      BY <1>1, <2>5, <2>7, Zenon DEF StopInv
    <3>2. ~g_logger_running' => logger' = "none" \/ stopper' # NoThread
      BY <1>1, <2>3, Zenon DEF StopInv
    <3>3. stopper' # NoThread => /\ pc'[stopper'] \in {"join", "exit"}
                                 /\ pc'[stopper'] = "exit" => logger' = "done"
      BY <1>1, <1>8, <2>5, Zenon DEF StopInv
    <3>4. OthersGone' /\ pc'[Main] = "exit" => logger' \in {"done", "none"}
      BY <1>4, <1>10, <2>3, <2>5, Zenon DEF StopInv
    <3> QED
      BY <1>4, <1>7, <1>9, <2>3, <2>4, <2>5, <2>6, <2>7, <3>1, <3>2, <3>3, <3>4, Zenon
         DEF StopInv, LoggerAwake
<1>12. CASE ~try_enqueue_log(t)
  <2>1. UNCHANGED <<g_log_count, accepted, logger>>
    BY <1>12, Zenon DEF Log, logger_log, try_enqueue_log_full, fallback_write_log, queue, consumer
  <2>2. pc'[t] = "enqueue" => g_logger_running
    BY <1>12, Zenon DEF Log, logger_log, try_enqueue_log_full, fallback_write_log, AfterLog, TypeOK
  <2> QED
    <3>1. stopper' # NoThread => /\ pc'[stopper'] \in {"join", "exit"}
                                 /\ pc'[stopper'] = "exit" => logger' = "done"
      BY <1>1, <1>8, <2>1, Zenon DEF StopInv
    <3>2. logger' = "none" => g_log_count' = 0 /\ \A u \in Threads : pc'[u] # "enqueue"
      BY <1>2, <2>1, <2>2, Zenon DEF StopInv
    <3>3. /\ OthersGone' /\ logger' = "done" => g_log_count' = 0
          /\ OthersGone' /\ pc'[Main] = "exit" => logger' \in {"done", "none"}
      BY <1>4, <1>10, <2>1, Zenon DEF StopInv
    <3>4. /\ LoggerAwake'
          /\ g_logger_running' => stopper' = NoThread /\ logger' \notin {"done", "none"}
          /\ ~g_logger_running' => logger' = "none" \/ stopper' # NoThread
          /\ logger' = "done" => stopLen' <= Len(accepted') - g_log_count' /\ stopper' # NoThread
      BY <1>1, <2>1, Zenon DEF StopInv, LoggerAwake
    <3> QED
      BY <1>7, <1>9, <3>1, <3>2, <3>3, <3>4, Zenon DEF StopInv
<1> QED
  BY <1>11, <1>12, Zenon

\* A thread that stops the logger keeps it.
LEMMA StopShutdown ==
    ASSUME TypeOK, StopInv, NEW t \in Threads, Shutdown(t)
    PROVE  StopInv'
<1>1. UNCHANGED <<g_log_count, accepted>>
  BY Zenon DEF Shutdown, logger_shutdown, logger_shutdown_stop, logger_shutdown_join, exit, queue
<1>2. Main \in Threads /\ NoThread \notin Threads
  BY Sizes, Zenon
<1>3. CASE exit(t)
  <2>1. UNCHANGED <<pc, logger, g_logger_running, g_shutdown_done, stopper, stopLen>>
    BY <1>3, Zenon DEF exit, producer, consumer
  <2> QED
    BY <1>1, <2>1, Zenon DEF StopInv, LoggerAwake, OthersGone
<1>4. ASSUME pc[t] \in {"shutdown", "stop", "join"}, pc'[t] \in {"stop", "join", "exit"},
             \A u \in Threads : u # t => pc'[u] = pc[u]
      PROVE  /\ OthersGone' <=> OthersGone
             /\ \A u \in Threads : pc'[u] = "gone" => u # Main /\ OthersGone'
             /\ (\E u \in Threads : pc'[u] = "gone") => pc'[Main] \in {"shutdown", "stop", "join", "exit"}
  <2>1. t # Main => ~OthersGone /\ ~OthersGone'
    BY <1>4, Zenon DEF OthersGone
  <2>2. t = Main => (OthersGone' <=> OthersGone)
    BY <1>4, Zenon DEF OthersGone
  <2>3. OthersGone' <=> OthersGone
    BY <2>1, <2>2, Zenon
  <2> QED
    BY <1>2, <1>4, <2>3, Zenon DEF StopInv
<1>5. CASE logger_shutdown(t)
  <2>1. /\ UNCHANGED <<logger, g_logger_running, stopper, stopLen>>
        /\ g_shutdown_done' = TRUE /\ pc[t] = "shutdown"
        /\ pc'[t] = IF ~g_shutdown_done /\ g_logger_running THEN "stop" ELSE "exit"
        /\ \A u \in Threads : u # t => pc'[u] = pc[u]
    BY <1>5, Zenon DEF logger_shutdown, consumer, TypeOK
  <2>2. OthersGone' <=> OthersGone
    BY <1>4, <2>1, Zenon
  <2>3. OthersGone /\ pc'[Main] = "exit" => logger \in {"done", "none"}
    <3>1. CASE t # Main
      BY <1>2, <2>1, <3>1, Zenon DEF StopInv
    <3>2. CASE t = Main /\ OthersGone /\ pc'[Main] = "exit"
      <4>1. ~g_shutdown_done
        BY <2>1, <3>2, Zenon DEF StopInv, OthersGone
      <4>2. ~g_logger_running
        BY <2>1, <3>2, <4>1, Zenon
      <4>3. stopper # NoThread => stopper \in Threads /\ pc[stopper] \in {"join", "exit"}
        BY Zenon DEF StopInv, TypeOK
      <4>4. stopper = NoThread
        BY <2>1, <3>2, <4>3, Zenon DEF OthersGone
      <4> QED
        BY <4>2, <4>4, Zenon DEF StopInv
    <3> QED
      BY <3>1, <3>2, Zenon
  <2>4. stopper # NoThread => stopper \in Threads /\ stopper # t
    BY <2>1, Zenon DEF StopInv, TypeOK
  <2>5. \A u \in Threads : pc'[u] = "stop" => g_logger_running'
    BY <2>1, Zenon DEF StopInv
  <2>6. \A u, v \in Threads : pc'[u] = "stop" /\ pc'[v] = "stop" => u = v
    BY <2>1, Zenon DEF StopInv
  <2> QED
    BY <1>1, <1>4, <2>1, <2>2, <2>3, <2>4, <2>5, <2>6, Zenon DEF StopInv, LoggerAwake
<1>6. CASE logger_shutdown_stop(t)
  <2>1. /\ UNCHANGED g_shutdown_done
        /\ g_logger_running' = FALSE /\ stopper' = t /\ stopLen' = Len(accepted)
        /\ pc[t] = "stop" /\ pc'[t] = "join"
        /\ \A u \in Threads : u # t => pc'[u] = pc[u]
        /\ logger' = IF logger = "wait" THEN "lock" ELSE logger
    BY <1>6, Zenon DEF logger_shutdown_stop, TypeOK
  <2>2. g_logger_running /\ stopper = NoThread /\ logger \notin {"done", "none"}
    BY <2>1, Zenon DEF StopInv
  <2>3. logger' \notin {"wait", "done", "none"}
    BY <2>1, <2>2, Zenon
  <2>4. OthersGone /\ pc[Main] = "exit" => FALSE
    BY <2>2, Zenon DEF StopInv
  <2>5. \A u \in Threads : pc'[u] # "stop" /\ (pc'[u] = "join" => u = t)
    BY <1>2, <2>1, <2>2, Zenon DEF StopInv
  <2> QED
    BY <1>1, <1>2, <1>4, <2>1, <2>3, <2>4, <2>5, Zenon DEF StopInv, LoggerAwake
<1>7. CASE logger_shutdown_join(t)
  <2>1. /\ UNCHANGED <<logger, g_logger_running, g_shutdown_done, stopper, stopLen>>
        /\ pc[t] = "join" /\ pc'[t] = "exit" /\ logger = "done"
        /\ \A u \in Threads : u # t => pc'[u] = pc[u]
    BY <1>7, Zenon DEF logger_shutdown_join, consumer, flags, TypeOK
  <2> QED
    BY <1>1, <1>2, <1>4, <2>1, Zenon DEF StopInv, LoggerAwake
<1> QED
  BY <1>3, <1>5, <1>6, <1>7, Zenon DEF Shutdown

\* The graceful shutdown begins when no thread has stopped the logger.
LEMMA StopServer ==
    ASSUME TypeOK, StopInv, server_shutdown
    PROVE  StopInv'
<1>1. UNCHANGED <<g_log_count, accepted, logger, g_logger_running, g_shutdown_done, stopper, stopLen>>
  BY Zenon DEF server_shutdown, queue, consumer, flags
<1>2. /\ \A t \in Threads : pc[t] = "idle"
      /\ \A t \in Threads : pc'[t] = IF t = Main THEN "shutdown" ELSE "gone"
  BY Zenon DEF server_shutdown
<1>3. Main \in Threads /\ ~g_shutdown_done /\ stopper = NoThread
  BY <1>2, Sizes, Zenon DEF StopInv, TypeOK
<1>4. OthersGone' /\ logger # "done"
  BY <1>2, <1>3, Zenon DEF OthersGone, StopInv
<1> QED
  BY <1>1, <1>2, <1>3, <1>4, Zenon DEF StopInv, LoggerAwake

\* Every step keeps the order of the stop.
LEMMA StopStep ==
    ASSUME TypeOK, StopInv, Next
    PROVE  StopInv'
<1>1. CASE UNCHANGED vars
  BY <1>1, Zenon DEF vars, producer, queue, consumer, flags, StopInv, LoggerAwake, OthersGone
<1> QED
  BY <1>1, StopLogs, StopLog, StopShutdown, StopServer, Zenon DEF Next

----------------------------------------------------------------------------
(* Order *)

\* The parts of a line follow one another, and so do the lines.
LEMMA QuotientOfPart ==
    ASSUME NEW L \in Nat \ {0}, NEW q \in Nat, NEW r \in 1 .. L
    PROVE  ((q * L + r) - 1) \div L = q /\ ((q * L + r) - 1) % L = r - 1
<1> DEFINE x == (q * L + r) - 1
           d == x \div L
           e == x % L
<1>1. q * L \in Nat /\ x \in Nat
  OBVIOUS
<1>2. d \in Int /\ e \in 0 .. L - 1 /\ x = L * d + e
  BY <1>1
<1>3. x = L * q + (r - 1)
  OBVIOUS
<1> HIDE DEF x, d, e
<1>4. L * (d - q) = (r - 1) - e
  BY <1>2, <1>3
<1>5. d = q
  <2>1. CASE d - q >= 1
    <3>1. L * (d - q) >= L
      BY <1>2, <2>1
    <3> QED
      BY <1>2, <1>4, <3>1
  <2>2. CASE d - q <= -1
    <3>1. L * (d - q) <= -L
      BY <1>2, <2>2
    <3> QED
      BY <1>2, <1>4, <3>1
  <2> QED
    BY <1>2, <2>1, <2>2
<1> QED
  BY <1>2, <1>3, <1>5 DEF x, d, e

\* Where a part of a line is among the parts of all.
LEMMA PartAt ==
    ASSUME NEW S, NEW s \in Seq(S), NEW q \in 0 .. Len(s) - 1, NEW r \in 1 .. LineLen
    PROVE  /\ q * LineLen + r \in 1 .. Len(s) * LineLen
           /\ Parts(s)[q * LineLen + r] = <<s[q + 1], r>>
<1> DEFINE L == LineLen
           i == q * L + r
<1>1. L \in Nat \ {0} /\ q \in Nat /\ Len(s) \in Nat /\ r \in 1 .. L /\ q + 1 <= Len(s)
  BY Sizes
<1> HIDE DEF L
<1>2. i \in 1 .. Len(s) * L
  <2>1. (q + 1) * L <= Len(s) * L
    BY <1>1
  <2>2. (q + 1) * L = q * L + L
    BY <1>1
  <2> QED
    BY <1>1, <2>1, <2>2
<1>3. (i - 1) \div L = q /\ (i - 1) % L = r - 1
  BY <1>1, QuotientOfPart, Zenon
<1>4. Parts(s)[i] = <<s[((i - 1) \div L) + 1], ((i - 1) % L) + 1>>
  BY <1>2, Zenon DEF Parts, L
<1>5. r - 1 + 1 = r
  BY <1>1
<1> QED
  BY <1>2, <1>3, <1>4, <1>5, Zenon DEF L

\* Which part of which line is at a place.
LEMMA PartOf ==
    ASSUME NEW S, NEW s \in Seq(S), NEW i \in 1 .. Len(s) * LineLen
    PROVE  \E q \in 0 .. Len(s) - 1, r \in 1 .. LineLen :
              i = q * LineLen + r /\ Parts(s)[i] = <<s[q + 1], r>>
<1> DEFINE L == LineLen
           q == (i - 1) \div L
           r == ((i - 1) % L) + 1
<1>1. L \in Nat \ {0} /\ Len(s) \in Nat
  BY Sizes
<1> HIDE DEF L
<1>2. q + 1 \in 1 .. Len(s) /\ r \in 1 .. L
  BY <1>1, PartsTyped, Zenon DEF L
<1>3. i - 1 \in Nat
  <2>1. Len(s) * L \in Nat
    BY <1>1
  <2>2. i \in 1 .. Len(s) * L
    BY Zenon DEF L
  <2> QED
    BY <2>1, <2>2
<1>4. q \in Int /\ i - 1 = L * q + ((i - 1) % L) /\ (i - 1) % L \in Int
  <2> DEFINE x == i - 1
  <2>1. x \in Nat
    BY <1>3
  <2> HIDE DEF x
  <2> DEFINE d == x \div L
             e == x % L
  <2>2. d \in Int /\ e \in Int /\ x = L * d + e
    BY <1>1, <2>1
  <2> QED
    BY <2>2, Zenon DEF x
<1>5. Parts(s)[i] = <<s[q + 1], r>>
  BY Zenon DEF Parts, L
<1> DEFINE e == (i - 1) % L
<1> HIDE DEF q, e
<1>6. q \in 0 .. Len(s) - 1
  BY <1>1, <1>2, <1>4
<1>7. i = q * L + r
  <2>1. L * q = q * L /\ L * q \in Int
    BY <1>1, <1>6
  <2>2. i - 1 = L * q + e /\ e \in Int /\ i \in Int /\ r = e + 1
    BY <1>3, <1>4 DEF e
  <2> HIDE DEF r
  <2> QED
    BY <2>1, <2>2
<1> QED
  BY <1>2, <1>5, <1>6, <1>7, Zenon DEF L

\* How many parts there are.
LEMMA PartsLen ==
    ASSUME NEW S, NEW s \in Seq(S)
    PROVE  /\ Len(s) * LineLen \in Nat
           /\ Parts(s) \in Seq(S \X (1 .. LineLen))
           /\ Len(Parts(s)) = Len(s) * LineLen
           /\ DOMAIN Parts(s) = 1 .. Len(s) * LineLen
<1>1. Len(s) \in Nat /\ LineLen \in Nat
  BY Sizes
<1>2. Len(s) * LineLen \in Nat
  BY <1>1
<1>3. ASSUME NEW i \in 1 .. Len(s) * LineLen
      PROVE  Parts(s)[i] \in S \X (1 .. LineLen)
  <2>1. PICK q \in 0 .. Len(s) - 1, r \in 1 .. LineLen : Parts(s)[i] = <<s[q + 1], r>>
    BY PartOf, Zenon
  <2>2. s[q + 1] \in S
    BY <1>1
  <2> QED
    BY <2>1, <2>2
<1>4. Parts(s) = [i \in 1 .. Len(s) * LineLen |-> Parts(s)[i]]
  BY Zenon DEF Parts
<1> DEFINE n == Len(s) * LineLen
           P == Parts(s)
<1> HIDE DEF n, P
<1>5. P = [i \in 1 .. n |-> P[i]] /\ n \in Nat /\ \A i \in 1 .. n : P[i] \in S \X (1 .. LineLen)
  BY <1>2, <1>3, <1>4, Zenon DEF n, P
<1>6. P \in Seq(S \X (1 .. LineLen)) /\ Len(P) = n /\ DOMAIN P = 1 .. n
  BY <1>5
<1> QED
  BY <1>2, <1>6, Zenon DEF n, P

\* No part is there twice unless a line is.
LEMMA PartsOnce ==
    ASSUME NEW S, NEW s \in Seq(S), \A i, j \in 1 .. Len(s) : s[i] = s[j] => i = j,
           NEW i \in 1 .. Len(s) * LineLen, NEW j \in 1 .. Len(s) * LineLen,
           Parts(s)[i] = Parts(s)[j]
    PROVE  i = j
<1>1. PICK q \in 0 .. Len(s) - 1, r \in 1 .. LineLen :
         i = q * LineLen + r /\ Parts(s)[i] = <<s[q + 1], r>>
  BY PartOf, ZenonT(40)
<1>2. PICK u \in 0 .. Len(s) - 1, v \in 1 .. LineLen :
         j = u * LineLen + v /\ Parts(s)[j] = <<s[u + 1], v>>
  BY PartOf, ZenonT(40)
<1>3. s[q + 1] = s[u + 1] /\ r = v
  BY <1>1, <1>2
<1>4. q + 1 \in 1 .. Len(s) /\ u + 1 \in 1 .. Len(s)
  OBVIOUS
<1>5. q + 1 = u + 1
  BY <1>3, <1>4, Zenon
<1>6. q = u
  BY <1>5
<1> QED
  BY <1>1, <1>2, <1>3, <1>6, Zenon

\* The parts of the lines that were there stay where they are.
LEMMA PartsAppended ==
    ASSUME NEW S, NEW s \in Seq(S), NEW x \in S, NEW i \in 1 .. Len(s) * LineLen
    PROVE  Parts(Append(s, x))[i] = Parts(s)[i]
<1>1. PICK q \in 0 .. Len(s) - 1, r \in 1 .. LineLen :
         i = q * LineLen + r /\ Parts(s)[i] = <<s[q + 1], r>>
  BY PartOf, Zenon
<1>2. /\ Append(s, x) \in Seq(S) /\ q \in 0 .. Len(Append(s, x)) - 1
      /\ Append(s, x)[q + 1] = s[q + 1]
  OBVIOUS
<1>3. Parts(Append(s, x))[q * LineLen + r] = <<Append(s, x)[q + 1], r>>
  BY <1>2, PartAt, Zenon
<1> QED
  BY <1>1, <1>2, <1>3, Zenon

\* The content of buffers that hold consecutive lines.
LEMMA PartsOfLines ==
    ASSUME NEW u \in Seq(Buffers), NEW s \in Seq(Lines), NEW m \in Nat, m + Len(u) <= Len(s),
           \A i \in 1 .. Len(u) : data[u[i]] = s[m + i],
           NEW j \in 1 .. Len(u) * LineLen
    PROVE  /\ m * LineLen + j \in 1 .. Len(s) * LineLen
           /\ <<data[Parts(u)[j][1]], Parts(u)[j][2]>> = Parts(s)[m * LineLen + j]
<1>1. PICK q \in 0 .. Len(u) - 1, r \in 1 .. LineLen :
         j = q * LineLen + r /\ Parts(u)[j] = <<u[q + 1], r>>
  BY PartOf, Zenon
<1> DEFINE h == m + q
<1>2. h \in 0 .. Len(s) - 1 /\ q + 1 \in 1 .. Len(u) /\ h + 1 = m + (q + 1)
  OBVIOUS
<1> HIDE DEF h
<1>3. /\ h * LineLen + r \in 1 .. Len(s) * LineLen
      /\ Parts(s)[h * LineLen + r] = <<s[h + 1], r>>
  BY <1>2, PartAt, Zenon
<1>4. h * LineLen + r = m * LineLen + j
  BY <1>1, Sizes DEF h
<1>5. s[h + 1] = data[u[q + 1]]
  BY <1>2, Zenon
<1>6. Parts(u)[j][1] = u[q + 1] /\ Parts(u)[j][2] = r
  BY <1>1
<1> QED
  BY <1>3, <1>4, <1>5, <1>6, Zenon

\* The next parts are written.
LEMMA AccountedWritten ==
    ASSUME NEW S, NEW e \in Seq(S), NEW w \in Seq(S), NEW d \in Nat, NEW all, NEW l,
           \A i, j \in 1 .. d + Len(w) : all[i] = all[j] => i = j,
           \A i \in 1 .. Len(w) : w[i] = all[d + i],
           Accounted(all, d, e, l)
    PROVE  Accounted(all, d + Len(w), e \o w, l)
<1> DEFINE n == Len(w)
           h == Len(e)
           f == e \o w
<1>1. /\ n \in Nat /\ h \in Nat /\ Len(f) = h + n
      /\ \A i \in 1 .. h : f[i] = e[i]
      /\ \A i \in 1 .. n : f[h + i] = w[i]
  OBVIOUS
<1>2. \A i \in 1 .. n : w[i] = all[d + i]
  BY Zenon
<1>a. \A i, j \in 1 .. d + n : all[i] = all[j] => i = j
  BY Zenon
<1>b. /\ \A i \in 1 .. h : \E k \in 1 .. d : e[i] = all[k]
      /\ \A i, j \in 1 .. h : i < j => \E k, m \in 1 .. d : k < m /\ e[i] = all[k] /\ e[j] = all[m]
      /\ \A k \in 1 .. d : all[k] \in l <=> ~\E i \in 1 .. h : e[i] = all[k]
      /\ \A p \in l : \E k \in 1 .. d : p = all[k]
  BY Zenon DEF Accounted
<1> HIDE DEF n, h, f
<1>3. \A i \in 1 .. h + n : i \in 1 .. h \/ \E j \in 1 .. n : i = h + j
  <2>1. ASSUME NEW i \in 1 .. h + n, i \notin 1 .. h
        PROVE  i - h \in 1 .. n /\ i = h + (i - h)
    BY <1>1, <2>1
  <2> QED
    BY <2>1, Zenon
<1>4. \A k \in 1 .. d + n : k \in 1 .. d \/ \E j \in 1 .. n : k = d + j
  <2>1. ASSUME NEW k \in 1 .. d + n, k \notin 1 .. d
        PROVE  k - d \in 1 .. n /\ k = d + (k - d)
    BY <1>1, <2>1
  <2> QED
    BY <2>1, Zenon
<1>5. /\ \A k \in 1 .. d : k \in 1 .. d + n /\ k \in Nat
      /\ \A j \in 1 .. n : d + j \in 1 .. d + n /\ h + j \in 1 .. h + n
      /\ \A k \in 1 .. d, j \in 1 .. n : k < d + j /\ k # d + j
      /\ \A i \in 1 .. h : i \in 1 .. h + n
      /\ \A i, j \in 1 .. n : h + i < h + j => d + i < d + j
      /\ \A i \in 1 .. h, j \in 1 .. n : ~(h + j < i)
  BY <1>1
<1>6. ASSUME NEW i \in 1 .. h + n
      PROVE  \E k \in 1 .. d + n : f[i] = all[k]
  <2>1. CASE i \in 1 .. h
    <3>1. PICK k \in 1 .. d : e[i] = all[k]
      BY <1>b, <2>1, Zenon
    <3> QED
      BY <1>1, <1>5, <2>1, <3>1, Zenon
  <2>2. CASE \E j \in 1 .. n : i = h + j
    BY <1>1, <1>2, <1>5, <2>2, ZenonT(30)
  <2> QED
    BY <1>3, <2>1, <2>2, Zenon
<1>7. ASSUME NEW i \in 1 .. h + n, NEW j \in 1 .. h + n, i < j
      PROVE  \E k, m \in 1 .. d + n : k < m /\ f[i] = all[k] /\ f[j] = all[m]
  <2>1. CASE i \in 1 .. h /\ j \in 1 .. h
    <3>1. PICK k \in 1 .. d, m \in 1 .. d : k < m /\ e[i] = all[k] /\ e[j] = all[m]
      BY <1>7, <1>b, <2>1, Zenon
    <3> QED
      BY <1>1, <1>5, <2>1, <3>1, Zenon
  <2>2. ASSUME i \in 1 .. h, NEW y \in 1 .. n, j = h + y
        PROVE  \E k, m \in 1 .. d + n : k < m /\ f[i] = all[k] /\ f[j] = all[m]
    <3>1. PICK k \in 1 .. d : e[i] = all[k]
      BY <1>b, <2>2, Zenon
    <3>2. k \in 1 .. d + n /\ d + y \in 1 .. d + n /\ k < d + y
      BY <1>5, Zenon
    <3>3. f[i] = all[k] /\ f[j] = all[d + y]
      BY <1>1, <1>2, <2>2, <3>1, Zenon
    <3> QED
      BY <3>2, <3>3, Zenon
  <2>3. ASSUME NEW x \in 1 .. n, i = h + x, NEW y \in 1 .. n, j = h + y
        PROVE  \E k, m \in 1 .. d + n : k < m /\ f[i] = all[k] /\ f[j] = all[m]
    <3>1. d + x \in 1 .. d + n /\ d + y \in 1 .. d + n /\ d + x < d + y
      BY <1>5, <1>7, <2>3, Zenon
    <3>2. f[i] = all[d + x] /\ f[j] = all[d + y]
      BY <1>1, <1>2, <2>3, Zenon
    <3> QED
      BY <3>1, <3>2, Zenon
  <2>4. ASSUME NEW x \in 1 .. n, i = h + x, j \in 1 .. h
        PROVE  FALSE
    BY <1>5, <1>7, <2>4, Zenon
  <2> QED
    BY <1>3, <2>1, <2>2, <2>3, <2>4, Zenon
<1>8. ASSUME NEW k \in 1 .. d + n
      PROVE  all[k] \in l <=> ~\E i \in 1 .. h + n : f[i] = all[k]
  <2>1. CASE k \in 1 .. d
    <3>1. ASSUME NEW i \in 1 .. h + n, f[i] = all[k]
          PROVE  \E j \in 1 .. h : e[j] = all[k]
      <4>1. CASE i \in 1 .. h
        BY <1>1, <3>1, <4>1, Zenon
      <4>2. ASSUME NEW x \in 1 .. n, i = h + x
            PROVE  FALSE
        <5>1. all[d + x] = all[k]
          BY <1>1, <1>2, <3>1, <4>2, Zenon
        <5> QED
          BY <1>5, <1>a, <2>1, <5>1, Zenon
      <4> QED
        BY <1>3, <4>1, <4>2, Zenon
    <3>2. ASSUME NEW j \in 1 .. h, e[j] = all[k]
          PROVE  j \in 1 .. h + n /\ f[j] = all[k]
      BY <1>1, <1>5, <3>2, Zenon
    <3> QED
      BY <1>b, <2>1, <3>1, <3>2, Zenon
  <2>2. ASSUME NEW x \in 1 .. n, k = d + x
        PROVE  all[k] \in l <=> ~\E i \in 1 .. h + n : f[i] = all[k]
    <3>1. f[h + x] = all[k] /\ h + x \in 1 .. h + n
      BY <1>1, <1>2, <1>5, <2>2, Zenon
    <3>2. all[k] \notin l
      <4>1. ASSUME all[k] \in l
            PROVE  FALSE
        <5>1. PICK m \in 1 .. d : all[k] = all[m]
          BY <1>b, <4>1, Zenon
        <5> QED
          BY <1>5, <1>a, <2>2, <5>1, Zenon
      <4> QED
        BY <4>1, Zenon
    <3> QED
      BY <3>1, <3>2, Zenon
  <2> QED
    BY <1>4, <2>1, <2>2, Zenon
<1>9. \A p \in l : \E k \in 1 .. d + n : p = all[k]
  BY <1>5, <1>b, Zenon
<1>10. Accounted(all, d + n, f, l)
  <2>1. /\ \A i \in 1 .. Len(f) : \E k \in 1 .. d + n : f[i] = all[k]
        /\ \A k \in 1 .. d + n : all[k] \in l <=> ~\E i \in 1 .. Len(f) : f[i] = all[k]
    BY <1>1, <1>6, <1>8, Zenon
  <2>2. ASSUME NEW i \in 1 .. Len(f), NEW j \in 1 .. Len(f), i < j
        PROVE  \E k, m \in 1 .. d + n : k < m /\ f[i] = all[k] /\ f[j] = all[m]
    <3>1. i \in 1 .. h + n /\ j \in 1 .. h + n
      BY <1>1, <2>2, Zenon
    <3> QED
      BY <1>7, <2>2, <3>1, Zenon
  <2> QED
    BY <1>9, <2>1, <2>2, Zenon DEF Accounted
<1> QED
  BY <1>10, Zenon DEF n, f

\* The next parts are lost.
LEMMA AccountedLost ==
    ASSUME NEW S, NEW e \in Seq(S), NEW n \in Nat, NEW d \in Nat, NEW all, NEW l, NEW g,
           \A i, j \in 1 .. d + n : all[i] = all[j] => i = j,
           \A p : p \in g <=> p \in l \/ \E i \in 1 .. n : p = all[d + i],
           Accounted(all, d, e, l)
    PROVE  Accounted(all, d + n, e, g)
<1> DEFINE h == Len(e)
<1>b. /\ \A i \in 1 .. h : \E k \in 1 .. d : e[i] = all[k]
      /\ \A i, j \in 1 .. h : i < j => \E k, m \in 1 .. d : k < m /\ e[i] = all[k] /\ e[j] = all[m]
      /\ \A k \in 1 .. d : all[k] \in l <=> ~\E i \in 1 .. h : e[i] = all[k]
      /\ \A p \in l : \E k \in 1 .. d : p = all[k]
  BY Zenon DEF Accounted
<1>1. \A p : p \in g <=> p \in l \/ \E i \in 1 .. n : p = all[d + i]
  BY Zenon
<1> HIDE DEF h
<1>4. \A k \in 1 .. d + n : k \in 1 .. d \/ \E j \in 1 .. n : k = d + j
  <2>1. ASSUME NEW k \in 1 .. d + n, k \notin 1 .. d
        PROVE  k - d \in 1 .. n /\ k = d + (k - d)
    BY <2>1
  <2> QED
    BY <2>1, Zenon
<1>5. /\ \A k \in 1 .. d : k \in 1 .. d + n
      /\ \A j \in 1 .. n : d + j \in 1 .. d + n
      /\ \A k \in 1 .. d, j \in 1 .. n : k # d + j
  OBVIOUS
<1>6. /\ \A i \in 1 .. h : \E k \in 1 .. d + n : e[i] = all[k]
      /\ \A p \in g : \E k \in 1 .. d + n : p = all[k]
  BY <1>1, <1>5, <1>b, Zenon
<1>7. ASSUME NEW i \in 1 .. h, NEW j \in 1 .. h, i < j
      PROVE  \E k, m \in 1 .. d + n : k < m /\ e[i] = all[k] /\ e[j] = all[m]
  <2>1. PICK k \in 1 .. d, m \in 1 .. d : k < m /\ e[i] = all[k] /\ e[j] = all[m]
    BY <1>7, <1>b, Zenon
  <2> QED
    BY <1>5, <2>1, Zenon
<1>8. ASSUME NEW k \in 1 .. d + n
      PROVE  all[k] \in g <=> ~\E i \in 1 .. h : e[i] = all[k]
  <2>1. CASE k \in 1 .. d
    <3>1. ~\E x \in 1 .. n : all[k] = all[d + x]
      BY <1>5, <2>1, Zenon
    <3> QED
      BY <1>1, <1>b, <2>1, <3>1, Zenon
  <2>2. ASSUME NEW x \in 1 .. n, k = d + x
        PROVE  all[k] \in g <=> ~\E i \in 1 .. h : e[i] = all[k]
    <3>1. ASSUME NEW i \in 1 .. h, e[i] = all[k]
          PROVE  FALSE
      <4>1. PICK m \in 1 .. d : e[i] = all[m]
        BY <1>b, Zenon
      <4> QED
        BY <1>5, <2>2, <3>1, <4>1, Zenon
    <3> QED
      BY <1>1, <2>2, <3>1, Zenon
  <2> QED
    BY <1>4, <2>1, <2>2, Zenon
<1> QED
  BY <1>6, <1>7, <1>8, Zenon DEF Accounted, h

\* More parts are to come.
LEMMA AccountedStays ==
    ASSUME NEW all, NEW more, NEW d, NEW e, NEW l,
           \A k \in 1 .. d : more[k] = all[k], Accounted(all, d, e, l)
    PROVE  Accounted(more, d, e, l)
<1>1. /\ \A i \in 1 .. Len(e) : \E k \in 1 .. d : e[i] = all[k]
      /\ \A i, j \in 1 .. Len(e) : i < j =>
            \E k, m \in 1 .. d : k < m /\ e[i] = all[k] /\ e[j] = all[m]
      /\ \A k \in 1 .. d : all[k] \in l <=> ~\E i \in 1 .. Len(e) : e[i] = all[k]
      /\ \A p \in l : \E k \in 1 .. d : p = all[k]
  BY Zenon DEF Accounted
<1>2. ASSUME NEW i \in 1 .. Len(e), NEW j \in 1 .. Len(e), i < j
      PROVE  \E k, m \in 1 .. d : k < m /\ e[i] = more[k] /\ e[j] = more[m]
  <2>1. PICK k \in 1 .. d, m \in 1 .. d : k < m /\ e[i] = all[k] /\ e[j] = all[m]
    BY <1>1, <1>2, Zenon
  <2>2. more[k] = all[k] /\ more[m] = all[m]
    BY Zenon
  <2> QED
    BY <2>1, <2>2, Zenon
<1>3. ASSUME NEW k \in 1 .. d
      PROVE  more[k] \in l <=> ~\E i \in 1 .. Len(e) : e[i] = more[k]
  <2>1. more[k] = all[k]
    BY Zenon
  <2> QED
    BY <1>1, <2>1, Zenon
<1>4. ASSUME NEW i \in 1 .. Len(e)
      PROVE  \E k \in 1 .. d : e[i] = more[k]
  <2>1. PICK k \in 1 .. d : e[i] = all[k]
    BY <1>1, Zenon
  <2>2. more[k] = all[k]
    BY Zenon
  <2> QED
    BY <2>1, <2>2, Zenon
<1>5. ASSUME NEW p \in l
      PROVE  \E k \in 1 .. d : p = more[k]
  <2>1. PICK k \in 1 .. d : p = all[k]
    BY <1>1, Zenon
  <2>2. more[k] = all[k]
    BY Zenon
  <2> QED
    BY <2>1, <2>2, Zenon
<1> QED
  BY <1>2, <1>3, <1>4, <1>5, Zenon DEF Accounted

\* No part of the accepted lines is there twice, and those that the logger
\* thread has or is done with are among them.
LEMMA OrderBounds ==
    ASSUME TypeOK, LineInv, OrderInv
    PROVE  LET all == Parts(accepted)
               N == Len(accepted) * LineLen
           IN /\ N \in Nat /\ all \in Seq(LineParts) /\ DOMAIN all = 1 .. N /\ Len(all) = N
              /\ \A i, j \in 1 .. N : all[i] = all[j] => i = j
              /\ Handled + Len(rest) = (Len(accepted) - g_log_count) * LineLen
              /\ Handled + Len(rest) <= N
              /\ Len(accepted) - g_log_count \in Nat
              /\ Handled \in Nat /\ Len(rest) \in Nat
<1> DEFINE a == Len(accepted)
           c == g_log_count
           L == LineLen
<1>1. accepted \in Seq(Lines) /\ a \in Nat /\ c \in Nat /\ c <= a /\ L \in Nat /\ Len(rest) \in Nat
  BY Sizes DEF TypeOK, LineInv
<1>2. \A i, j \in 1 .. a * L : Parts(accepted)[i] = Parts(accepted)[j] => i = j
  <2>1. \A i, j \in 1 .. Len(accepted) : accepted[i] = accepted[j] => i = j
    BY Zenon DEF LineInv
  <2> QED
    BY <1>1, <2>1, PartsOnce, Zenon
<1>3. /\ a * L \in Nat /\ Parts(accepted) \in Seq(LineParts) /\ Len(Parts(accepted)) = a * L
      /\ DOMAIN Parts(accepted) = 1 .. a * L
  BY <1>1, PartsLen, Zenon DEF LineParts
<1>4. Handled = (a - c) * L - Len(rest) /\ Handled \in Nat
  BY Zenon DEF Handled, OrderInv
<1> HIDE DEF a, c, L
<1>5. a - c \in Nat /\ (a - c) * L \in Nat /\ (a - c) * L <= a * L
  <2>1. PICK b \in Nat : a = c + b
    <3>1. a - c \in Nat /\ a = c + (a - c)
      BY <1>1
    <3> QED
      BY <3>1, Zenon
  <2>2. a - c = b /\ b * L \in Nat /\ c * L \in Nat /\ a * L = c * L + b * L
    BY <1>1, <2>1
  <2> QED
    BY <2>1, <2>2
<1>6. Handled + Len(rest) = (a - c) * L
  BY <1>1, <1>4, <1>5
<1>7. Handled + Len(rest) <= a * L
  BY <1>5, <1>6, Zenon
<1> QED
  BY <1>1, <1>2, <1>3, <1>4, <1>5, <1>6, <1>7, Zenon DEF a, c, L

\* A step that moves no line.
LEMMA OrderStays ==
    ASSUME OrderInv,
           UNCHANGED <<accepted, g_log_count, data, batch, rest, stderr, lost>>
    PROVE  OrderInv'
<1>1. Handled' = Handled /\ accepted' = accepted
  BY Zenon DEF Handled
<1>2. Accounted(Parts(accepted'), Handled', stderr', lost')
  BY <1>1, Zenon DEF OrderInv
<1>3. \A i \in 1 .. Len(rest') :
        <<data'[rest'[i][1]], rest'[i][2]>> = Parts(accepted')[Handled' + i]
  BY <1>1, Zenon DEF OrderInv
<1>4. \A i \in 1 .. Len(rest') : \E j \in 1 .. Len(batch') : rest'[i][1] = batch'[j]
  BY Zenon DEF OrderInv
<1>5. Handled' \in Nat
  BY <1>1, Zenon DEF OrderInv
<1> QED
  BY <1>2, <1>3, <1>4, <1>5, Zenon DEF OrderInv, Accounted, Parts

\* A line is accepted: it comes after all others, in a buffer that was free.
LEMMA OrderAccepted ==
    ASSUME TypeOK, BufferInv, LineInv, OrderInv, NEW t \in Threads, try_enqueue_log(t)
    PROVE  OrderInv'
<1> DEFINE all == Parts(accepted)
           N == Len(accepted) * LineLen
           b == free[Len(free)]
           l == <<t, nlines[t]>>
<1>1. UNCHANGED <<batch, rest, stderr, lost>>
  BY Zenon DEF try_enqueue_log, output
<1>2. data' = [data EXCEPT ![b] = l] /\ accepted' = Append(accepted, l)
  BY Zenon DEF try_enqueue_log, Top
<1>3. accepted \in Seq(Lines) /\ l \in Lines
  <2>1. accepted \in Seq(Lines) /\ nlines[t] \in 0 .. MaxLines
    BY Zenon DEF TypeOK
  <2>2. nlines[t] > 0
    BY Zenon DEF LineInv, try_enqueue_log
  <2>3. nlines[t] \in 1 .. MaxLines
    BY <2>1, <2>2, Sizes
  <2> QED
    BY <2>1, <2>3, Zenon DEF Lines
<1>4. Handled' = Handled
  <2>1. /\ Len(accepted) \in Nat /\ g_log_count \in Nat /\ Len(accepted') = Len(accepted) + 1
        /\ g_log_count' = g_log_count + 1
    <3>1. g_log_count' = g_log_count + 1
      BY EnqueueRing, Zenon
    <3> HIDE DEF l
    <3>2. Len(accepted) \in Nat /\ Len(accepted') = Len(accepted) + 1
      BY <1>2, <1>3
    <3> QED
      BY <3>1, <3>2, Sizes DEF TypeOK
  <2>2. Len(accepted') - g_log_count' = Len(accepted) - g_log_count
    BY <2>1
  <2> QED
    BY <1>1, <2>2, Zenon DEF Handled
<1>5. \A i \in 1 .. N : Parts(accepted')[i] = all[i]
  BY <1>2, <1>3, PartsAppended, Zenon
<1>6. Handled + Len(rest) <= N /\ Handled \in Nat /\ Len(rest) \in Nat /\ N \in Nat
  BY OrderBounds, Zenon
<1>7. /\ \A k \in 1 .. Handled : k \in 1 .. N
      /\ \A i \in 1 .. Len(rest) : Handled + i \in 1 .. N
  BY <1>6
<1>8. Accounted(Parts(accepted'), Handled, stderr, lost)
  <2>1. \A k \in 1 .. Handled : Parts(accepted')[k] = all[k]
    BY <1>5, <1>7, Zenon
  <2>2. Accounted(all, Handled, stderr, lost)
    BY Zenon DEF OrderInv
  <2> QED
    BY <2>1, <2>2, AccountedStays, Zenon
<1>9. ASSUME NEW i \in 1 .. Len(rest)
      PROVE  <<data'[rest[i][1]], rest[i][2]>> = Parts(accepted')[Handled + i]
  <2>1. PICK j \in 1 .. Len(batch) : rest[i][1] = batch[j]
    BY Zenon DEF OrderInv
  <2>2. batch[j] # b /\ batch[j] \in Buffers
    <3>1. free # <<>> /\ free \in Seq(Buffers) /\ batch \in Seq(Buffers)
      BY Zenon DEF try_enqueue_log, HasRoom, TypeOK
    <3>2. Len(free) \in Nat \ {0}
      BY <3>1, PopsTop, Zenon
    <3>3. Len(free) \in 1 .. Len(free)
      BY <3>2
    <3>4. batch[j] \in Buffers
      BY <3>1
    <3> QED
      BY <3>3, <3>4, Zenon DEF BufferInv
  <2>3. data'[batch[j]] = data[batch[j]]
    BY <1>2, <2>2, Zenon DEF TypeOK
  <2>4. <<data[rest[i][1]], rest[i][2]>> = all[Handled + i]
    BY Zenon DEF OrderInv
  <2> QED
    BY <1>5, <1>7, <2>1, <2>3, <2>4, Zenon
<1>10. \A i \in 1 .. Len(rest) : \E j \in 1 .. Len(batch) : rest[i][1] = batch[j]
  BY Zenon DEF OrderInv
<1> HIDE DEF all, N, b, l
<1> QED
  <2>1. Handled' \in Nat
    BY <1>4, <1>6, Zenon
  <2>2. \A i \in 1 .. Len(rest') : \E j \in 1 .. Len(batch') : rest'[i][1] = batch'[j]
    BY <1>1, <1>10, Zenon
  <2>3. \A i \in 1 .. Len(rest') :
          <<data'[rest'[i][1]], rest'[i][2]>> = Parts(accepted')[Handled' + i]
    BY <1>1, <1>4, <1>9, Zenon
  <2>4. Accounted(Parts(accepted'), Handled', stderr', lost')
    BY <1>1, <1>4, <1>8, Zenon
  <2> QED
    BY <2>1, <2>2, <2>3, <2>4, Zenon DEF OrderInv, Accounted, Parts

\* A batch is taken: its lines are the next ones.
LEMMA OrderTaken ==
    ASSUME TypeOK, BufferInv, LineInv, OrderInv, logger_take
    PROVE  OrderInv'
<1>1. PICK n \in 1 .. g_log_count :
         /\ batch' = SubSeq(Ring, 1, n) /\ batch' \in Seq(Buffers) /\ Len(batch') = n
         /\ rest' = Parts(batch') /\ g_log_count' = g_log_count - n
  BY Takes, Zenon
<1>2. UNCHANGED <<data, accepted, stderr, lost>> /\ rest = <<>>
  BY Zenon DEF logger_take, output, BufferInv
<1> DEFINE a == Len(accepted)
           c == g_log_count
           L == LineLen
           m == a - c
<1>3. a \in Nat /\ c \in Nat /\ c <= a /\ L \in Nat \ {0} /\ n \in 1 .. c
  BY Sizes DEF TypeOK, LineInv
<1>4. \A i \in 1 .. n : batch'[i] = Ring[i] /\ data[batch'[i]] = accepted[m + i]
  <2>1. Ring \in Seq(Buffers) /\ Len(Ring) = c
    BY RingTyped, Zenon
  <2>2. \A i \in 1 .. n : SubSeq(Ring, 1, n)[i] = Ring[i] /\ i \in 1 .. c
    BY <1>3, <2>1
  <2> QED
    BY <1>1, <2>2, Zenon DEF LineInv
<1>5. Len(rest') = n * L /\ Len(rest) = 0 /\ n * L \in Nat
  <2>1. Len(rest') = n * L /\ n * L \in Nat
    BY <1>1, PartsLen, Zenon
  <2> QED
    BY <1>2, <2>1
<1>6. Handled = m * L /\ m \in Nat
  <2>1. Handled = m * L - Len(rest) /\ m \in Nat
    BY <1>3 DEF Handled
  <2> QED
    BY <1>3, <1>5, <2>1
<1>7. Handled' = m * L
  <2>1. Handled' = (a - (c - n)) * L - n * L
    BY <1>1, <1>2, <1>5, Zenon DEF Handled
  <2>2. a - (c - n) = m + n /\ m \in Nat /\ n \in Nat
    BY <1>3
  <2> HIDE DEF m, a, c, L
  <2>3. (m + n) * L = m * L + n * L /\ m * L \in Nat
    BY <1>3, <2>2
  <2> QED
    BY <1>5, <2>1, <2>2, <2>3
<1>8. \A j \in 1 .. n * L :
         <<data[Parts(batch')[j][1]], Parts(batch')[j][2]>> = Parts(accepted)[m * L + j]
  <2>1. m \in Nat /\ m + Len(batch') <= Len(accepted)
    BY <1>1, <1>3
  <2>2. \A i \in 1 .. Len(batch') : data[batch'[i]] = accepted[m + i]
    BY <1>1, <1>4, Zenon
  <2>3. accepted \in Seq(Lines)
    BY Zenon DEF TypeOK
  <2> HIDE DEF m
  <2> QED
    BY <1>1, <2>1, <2>2, <2>3, PartsOfLines, Zenon
<1>9. ASSUME NEW i \in 1 .. n * L
      PROVE  \E j \in 1 .. n : rest'[i][1] = batch'[j]
  <2>1. i \in 1 .. Len(batch') * LineLen
    BY <1>1, Zenon
  <2>2. PICK q \in 0 .. Len(batch') - 1, r \in 1 .. L : Parts(batch')[i] = <<batch'[q + 1], r>>
    BY <1>1, <2>1, PartOf, Zenon
  <2>3. q + 1 \in 1 .. n /\ Parts(batch')[i][1] = batch'[q + 1]
    BY <1>1, <1>3, <2>2
  <2> QED
    BY <1>1, <2>3, Zenon
<1> HIDE DEF a, c, L, m
<1>10. Handled' = Handled
  BY <1>6, <1>7, Zenon
<1>11. Accounted(Parts(accepted'), Handled', stderr', lost')
  BY <1>2, <1>10, Zenon DEF OrderInv
<1>12. \A i \in 1 .. Len(rest') :
        <<data'[rest'[i][1]], rest'[i][2]>> = Parts(accepted')[Handled' + i]
  <2>1. \A i \in 1 .. n * L : <<data'[rest'[i][1]], rest'[i][2]>> = Parts(accepted')[m * L + i]
    BY <1>1, <1>2, <1>8, Zenon
  <2> QED
    BY <1>5, <1>7, <2>1, Zenon
<1>13. \A i \in 1 .. Len(rest') : \E j \in 1 .. Len(batch') : rest'[i][1] = batch'[j]
  <2>1. 1 .. Len(rest') = 1 .. n * L /\ 1 .. Len(batch') = 1 .. n
    BY <1>1, <1>5, Zenon
  <2> QED
    BY <1>9, <2>1, Zenon
<1>14. Handled' \in Nat
  BY <1>10, Zenon DEF OrderInv
<1> QED
  BY <1>11, <1>12, <1>13, <1>14, Zenon DEF OrderInv, Accounted, Parts

\* What the buffers hold, at each place.
LEMMA ContentAt ==
    ASSUME TypeOK, NEW s \in Seq(Buffers \X (1 .. LineLen))
    PROVE  /\ Content(s) \in Seq(LineParts) /\ Len(Content(s)) = Len(s)
           /\ \A i \in 1 .. Len(s) : Content(s)[i] = <<data[s[i][1]], s[i][2]>>
<1>1. Content(s) \in Seq(LineParts)
  BY ContentTyped, Zenon
<1>2. Content(s) = [i \in 1 .. Len(s) |-> Content(s)[i]] /\ Len(s) \in Nat
  <2>1. Content(s) = [i \in 1 .. Len(s) |-> Content(s)[i]]
    BY Zenon DEF Content
  <2> QED
    BY <2>1
<1>3. Len(Content(s)) = Len(s)
  BY <1>1, <1>2
<1>4. \A i \in 1 .. Len(s) : Content(s)[i] = <<data[s[i][1]], s[i][2]>>
  BY Zenon DEF Content
<1> QED
  BY <1>1, <1>3, <1>4, Zenon

\* A part of the batch is written, and the rest of it is next.
LEMMA OrderWritten ==
    ASSUME TypeOK, BufferInv, LineInv, OrderInv, write_batch_iovecs
    PROVE  OrderInv'
<1> DEFINE all == Parts(accepted)
           N == Len(accepted) * LineLen
           d == Handled
           h == Len(rest)
<1>1. PICK n \in 1 .. h : /\ stderr' = stderr \o Content(SubSeq(rest, 1, n))
                          /\ rest' = SubSeq(rest, n + 1, h)
  BY Zenon DEF write_batch_iovecs, advance_iovecs
<1>2. UNCHANGED <<data, accepted, lost, g_log_count, batch>>
  BY Zenon DEF write_batch_iovecs, queue
<1>3. /\ N \in Nat /\ \A i, j \in 1 .. N : all[i] = all[j] => i = j
      /\ d + h <= N /\ d \in Nat /\ h \in Nat
  BY OrderBounds, Zenon
<1>4. rest \in Seq(Buffers \X (1 .. LineLen)) /\ stderr \in Seq(LineParts)
  BY Zenon DEF TypeOK
<1> DEFINE s == SubSeq(rest, 1, n)
           w == Content(s)
<1>5. /\ s \in Seq(Buffers \X (1 .. LineLen)) /\ Len(s) = n /\ n \in Nat
      /\ \A i \in 1 .. n : s[i] = rest[i]
      /\ Len(rest') = h - n /\ \A i \in 1 .. h - n : rest'[i] = rest[n + i]
  BY <1>1, <1>4
<1> HIDE DEF s
<1>6. /\ w \in Seq(LineParts) /\ Len(w) = n
      /\ \A i \in 1 .. n : w[i] = <<data[s[i][1]], s[i][2]>>
  BY <1>5, ContentAt, Zenon
<1> HIDE DEF w
<1>7. /\ \A i \in 1 .. h : <<data[rest[i][1]], rest[i][2]>> = all[d + i]
      /\ \A i \in 1 .. h : \E j \in 1 .. Len(batch) : rest[i][1] = batch[j]
      /\ Accounted(all, d, stderr, lost)
  BY Zenon DEF OrderInv
<1>8. \A i \in 1 .. n : i \in 1 .. h /\ w[i] = all[d + i]
  <2>1. \A i \in 1 .. n : i \in 1 .. h
    BY <1>3
  <2> QED
    BY <1>5, <1>6, <1>7, <2>1, Zenon
<1>9. Handled' = d + n
  <2>1. d + h = (Len(accepted) - g_log_count) * LineLen
    BY OrderBounds, Zenon
  <2>2. Handled' = (d + h) - (h - n)
    BY <1>2, <1>5, <2>1, Zenon DEF Handled
  <2> HIDE DEF d, h
  <2> QED
    BY <1>3, <1>5, <2>2
<1> HIDE DEF all, N, d, h
<1>10. Accounted(all, d + n, stderr \o w, lost)
  <2>1. \A i, j \in 1 .. d + n : all[i] = all[j] => i = j
    <3>1. \A i \in 1 .. d + n : i \in 1 .. N
      BY <1>3, <1>5
    <3> QED
      BY <1>3, <3>1, Zenon
  <2>2. \A i \in 1 .. Len(w) : w[i] = all[d + i]
    BY <1>6, <1>8, Zenon
  <2>3. \A i, j \in 1 .. d + Len(w) : all[i] = all[j] => i = j
    BY <1>6, <2>1, Zenon
  <2>4. Accounted(all, d + Len(w), stderr \o w, lost)
    BY <1>3, <1>4, <1>6, <1>7, <2>2, <2>3, AccountedWritten, Zenon
  <2> QED
    BY <1>6, <2>4, Zenon
<1>11. Accounted(Parts(accepted'), Handled', stderr', lost')
  BY <1>1, <1>2, <1>9, <1>10, Zenon DEF all, w, s
<1>12. ASSUME NEW i \in 1 .. h - n
       PROVE  /\ <<data'[rest'[i][1]], rest'[i][2]>> = Parts(accepted')[Handled' + i]
              /\ \E j \in 1 .. Len(batch') : rest'[i][1] = batch'[j]
  <2>1. n + i \in 1 .. h /\ (d + n) + i = d + (n + i)
    BY <1>3, <1>5
  <2>2. rest'[i] = rest[n + i]
    BY <1>5, Zenon
  <2>3. <<data[rest[n + i][1]], rest[n + i][2]>> = all[(d + n) + i]
    BY <1>7, <2>1, Zenon
  <2>4. \E j \in 1 .. Len(batch) : rest[n + i][1] = batch[j]
    BY <1>7, <2>1, Zenon
  <2>5. all[(d + n) + i] = Parts(accepted')[Handled' + i]
    BY <1>2, <1>9, Zenon DEF all
  <2> QED
    BY <1>2, <2>2, <2>3, <2>4, <2>5, Zenon
<1>13. \A i \in 1 .. Len(rest') :
        <<data'[rest'[i][1]], rest'[i][2]>> = Parts(accepted')[Handled' + i]
  BY <1>5, <1>12, Zenon
<1>14. \A i \in 1 .. Len(rest') : \E j \in 1 .. Len(batch') : rest'[i][1] = batch'[j]
  BY <1>5, <1>12, Zenon
<1>15. Handled' \in Nat
  BY <1>3, <1>5, <1>9
<1> QED
  BY <1>11, <1>13, <1>14, <1>15, Zenon DEF OrderInv, Accounted, Parts

\* What is left of the batch is lost.
LEMMA OrderLost ==
    ASSUME TypeOK, BufferInv, LineInv, OrderInv, write_batch_iovecs_fails
    PROVE  OrderInv'
<1> DEFINE all == Parts(accepted)
           N == Len(accepted) * LineLen
           d == Handled
           h == Len(rest)
<1>1. lost' = lost \cup Range(Content(rest)) /\ rest' = <<>>
  BY Zenon DEF write_batch_iovecs_fails
<1>2. UNCHANGED <<data, accepted, stderr, g_log_count, batch>>
  BY Zenon DEF write_batch_iovecs_fails, queue
<1>3. /\ N \in Nat /\ \A i, j \in 1 .. N : all[i] = all[j] => i = j
      /\ d + h <= N /\ d \in Nat /\ h \in Nat
      /\ d + h = (Len(accepted) - g_log_count) * LineLen
  BY OrderBounds, Zenon
<1>4. stderr \in Seq(LineParts) /\ rest \in Seq(Buffers \X (1 .. LineLen))
  BY Zenon DEF TypeOK
<1>5. /\ \A i \in 1 .. h : <<data[rest[i][1]], rest[i][2]>> = all[d + i]
      /\ Accounted(all, d, stderr, lost)
  BY Zenon DEF OrderInv
<1>6. \A p : p \in lost' <=> p \in lost \/ \E i \in 1 .. h : p = all[d + i]
  <2>1. DOMAIN Content(rest) = 1 .. h /\ \A i \in 1 .. h : Content(rest)[i] = all[d + i]
    BY <1>5, Zenon DEF Content
  <2>2. \A p : p \in Range(Content(rest)) <=> \E i \in 1 .. h : p = Content(rest)[i]
    BY <2>1, Zenon DEF Range
  <2> QED
    BY <1>1, <2>1, <2>2, Zenon
<1>7. Handled' = d + h /\ 1 .. Len(rest') = {}
  <2>1. Len(rest') = 0 /\ 1 .. Len(rest') = {}
    BY <1>1
  <2>2. Handled' = (d + h) - 0
    BY <1>2, <1>3, <2>1, Zenon DEF Handled
  <2> HIDE DEF d, h
  <2> QED
    BY <1>3, <2>1, <2>2
<1> HIDE DEF all, N, d, h
<1>8. Accounted(all, d + h, stderr, lost')
  <2>1. \A i \in 1 .. d + h : i \in 1 .. N
    BY <1>3
  <2>2. \A i, j \in 1 .. d + h : all[i] = all[j] => i = j
    BY <1>3, <2>1, Zenon
  <2> QED
    BY <1>3, <1>4, <1>5, <1>6, <2>2, AccountedLost, Zenon
<1>9. Accounted(Parts(accepted'), Handled', stderr', lost')
  BY <1>2, <1>7, <1>8, Zenon DEF all
<1>10. Handled' \in Nat
  BY <1>3, <1>7
<1> QED
  BY <1>7, <1>9, <1>10, Zenon DEF OrderInv, Accounted, Parts

\* Every step keeps what is written and lost in order.
LEMMA OrderStep ==
    ASSUME TypeOK, BufferInv, LineInv, OrderInv, Next
    PROVE  OrderInv'
<1> USE DEF producer, queue, consumer, flags, output
<1>1. ASSUME NEW t \in Threads, Log(t)
      PROVE  OrderInv'
  <2>1. CASE logger_log(t) \/ try_enqueue_log_full(t) \/ fallback_write_log(t)
    <3>1. UNCHANGED <<queue, consumer, stderr, lost>>
      BY <2>1, Zenon DEF logger_log, try_enqueue_log_full, fallback_write_log
    <3> QED
      BY <3>1, OrderStays, Zenon
  <2> QED
    BY <1>1, <2>1, OrderAccepted, Zenon DEF Log
<1>2. ASSUME NEW t \in Threads, Shutdown(t)
      PROVE  OrderInv'
  <2>1. UNCHANGED <<queue, batch, rest, output>>
    BY <1>2, Zenon DEF Shutdown, logger_shutdown, logger_shutdown_stop, logger_shutdown_join, exit
  <2> QED
    BY <2>1, OrderStays, Zenon
<1>3. CASE server_shutdown
  BY <1>3, OrderStays, Zenon DEF server_shutdown
<1>4. CASE logger_wait \/ logger_leave \/ spurious_wakeup
  <2>1. UNCHANGED <<queue, batch, rest, output>>
    BY <1>4, Zenon DEF logger_wait, logger_leave, spurious_wakeup
  <2> QED
    BY <2>1, OrderStays, Zenon
<1>5. CASE return_batch_to_pool
  <2>1. rest = <<>> /\ rest' = <<>>
    BY <1>5, Zenon DEF return_batch_to_pool, BufferInv
  <2>2. UNCHANGED <<accepted, g_log_count, data, rest, stderr, lost>>
    BY <1>5, Zenon DEF return_batch_to_pool
  <2>3. Handled' = Handled
    BY <2>2, Zenon DEF Handled
  <2>4. 1 .. Len(rest') = {}
    BY <2>1
  <2>5. Accounted(Parts(accepted'), Handled', stderr', lost') /\ Handled' \in Nat
    BY <2>2, <2>3, Zenon DEF OrderInv
  <2> QED
    BY <2>4, <2>5, Zenon DEF OrderInv, Accounted, Parts
<1>6. CASE UNCHANGED vars
  BY <1>6, OrderStays, Zenon DEF vars
<1> QED
  BY <1>1, <1>2, <1>3, <1>4, <1>5, <1>6, OrderTaken, OrderWritten, OrderLost, Zenon
  DEF Next, Logs

\* What the buffers in the ring hold comes after what the logger thread has.
LEMMA OrderOfAll ==
    ASSUME TypeOK, LineInv, OrderInv
    PROVE  InOrder
<1> DEFINE all == Parts(accepted)
           N == Len(accepted) * LineLen
           d == Handled
           h == Len(rest)
           c == g_log_count
           m == Len(accepted) - c
           u == Content(rest)
           v == Content(Parts(Ring))
           w == u \o v
           sent == stderr \o u \o v
<1>1. /\ N \in Nat /\ all \in Seq(LineParts) /\ DOMAIN all = 1 .. N
      /\ \A i, j \in 1 .. N : all[i] = all[j] => i = j
      /\ d \in Nat /\ h \in Nat /\ d + h = m * LineLen /\ m \in Nat
  BY OrderBounds, Zenon
<1>2. /\ \A i \in 1 .. h : <<data[rest[i][1]], rest[i][2]>> = all[d + i]
      /\ Accounted(all, d, stderr, lost)
  BY Zenon DEF OrderInv
<1>3. /\ stderr \in Seq(LineParts) /\ rest \in Seq(Buffers \X (1 .. LineLen)) /\ accepted \in Seq(Lines)
      /\ Ring \in Seq(Buffers) /\ Len(Ring) = c
  BY RingTyped, Zenon DEF TypeOK
<1>4. c \in Nat /\ c <= Len(accepted) /\ Len(accepted) = m + c
  BY Sizes DEF TypeOK, LineInv
<1> DEFINE g == c * LineLen
<1>5. Parts(Ring) \in Seq(Buffers \X (1 .. LineLen)) /\ Len(Parts(Ring)) = g /\ g \in Nat
  BY <1>3, PartsLen, Zenon
<1>6. /\ u \in Seq(LineParts) /\ Len(u) = h /\ \A i \in 1 .. h : u[i] = all[d + i]
      /\ v \in Seq(LineParts) /\ Len(v) = g
      /\ \A i \in 1 .. g : v[i] = <<data[Parts(Ring)[i][1]], Parts(Ring)[i][2]>>
  <2>1. u \in Seq(LineParts) /\ Len(u) = h /\ \A i \in 1 .. h : u[i] = <<data[rest[i][1]], rest[i][2]>>
    BY <1>3, ContentAt, Zenon
  <2>2. /\ v \in Seq(LineParts) /\ Len(v) = Len(Parts(Ring))
        /\ \A i \in 1 .. Len(Parts(Ring)) : v[i] = <<data[Parts(Ring)[i][1]], Parts(Ring)[i][2]>>
    BY <1>5, ContentAt, Zenon
  <2> HIDE DEF u, v, g
  <2> QED
    BY <1>2, <1>5, <2>1, <2>2, Zenon
<1>7. \A i \in 1 .. g : v[i] = all[m * LineLen + i]
  <2>1. m + Len(Ring) <= Len(accepted) /\ m \in Nat
    BY <1>1, <1>3, <1>4
  <2>2. \A i \in 1 .. Len(Ring) : data[Ring[i]] = accepted[m + i]
    BY <1>3, Zenon DEF LineInv
  <2>3. \A i \in 1 .. Len(Ring) * LineLen :
           <<data[Parts(Ring)[i][1]], Parts(Ring)[i][2]>> = all[m * LineLen + i]
    <3> HIDE DEF m
    <3> QED
      BY <1>3, <2>1, <2>2, PartsOfLines, Zenon
  <2>4. 1 .. g = 1 .. Len(Ring) * LineLen
    BY <1>3, Zenon
  <2> HIDE DEF v, g
  <2> QED
    BY <1>6, <2>3, <2>4, Zenon
<1>8. N = d + h + g
  <2>1. Len(accepted) * LineLen = m * LineLen + c * LineLen
    <3>1. m \in Nat /\ c \in Nat /\ Len(accepted) = m + c /\ LineLen \in Nat
      BY <1>1, <1>4, Sizes, Zenon
    <3> HIDE DEF m
    <3>2. (m + c) * LineLen = m * LineLen + c * LineLen
      BY <3>1
    <3> QED
      BY <3>1, <3>2, Zenon
  <2> QED
    BY <1>1, <2>1, Zenon
<1> HIDE DEF all, N, d, h, c, m, u, v, g
<1>9. /\ w \in Seq(LineParts) /\ Len(w) = h + g
      /\ \A i \in 1 .. h : w[i] = u[i]
      /\ \A i \in 1 .. g : w[h + i] = v[i]
  <2>1. u \in Seq(LineParts) /\ Len(u) = h /\ v \in Seq(LineParts) /\ Len(v) = g
    BY <1>6, Zenon
  <2>2. w \in Seq(LineParts) /\ Len(w) = h + g
    BY <2>1
  <2>3. \A i \in 1 .. h : w[i] = u[i]
    BY <2>1
  <2>4. \A i \in 1 .. g : w[h + i] = v[i]
    BY <1>1, <1>5, <2>1, SMTT(20)
  <2> QED
    BY <2>2, <2>3, <2>4, Zenon
<1>10. ASSUME NEW i \in 1 .. h + g
       PROVE  w[i] = all[d + i]
  <2>1. CASE i \in 1 .. h
    BY <1>6, <1>9, <2>1, Zenon
  <2>2. CASE i \notin 1 .. h
    <3>1. i - h \in 1 .. g /\ i = h + (i - h) /\ (d + h) + (i - h) = d + i
      BY <1>1, <1>5, <2>2
    <3>2. w[i] = v[i - h]
      BY <1>9, <3>1, Zenon
    <3>3. v[i - h] = all[(d + h) + (i - h)]
      BY <1>1, <1>7, <3>1, Zenon
    <3> QED
      BY <3>1, <3>2, <3>3, Zenon
  <2> QED
    BY <2>1, <2>2, Zenon
<1>11. sent = stderr \o w /\ sent \in Seq(LineParts)
  <2>1. sent = stderr \o w
    <3>1. stderr \in Seq(LineParts) /\ u \in Seq(LineParts) /\ v \in Seq(LineParts)
      BY <1>3, <1>6, Zenon
    <3>2. (stderr \o u) \o v = stderr \o (u \o v)
      BY <3>1, SMTT(20)
    <3> QED
      BY <3>2, Zenon
  <2>2. stderr \o w \in Seq(LineParts)
    BY <1>3, <1>9
  <2> QED
    BY <2>1, <2>2, Zenon
<1> HIDE DEF w
<1>12. d + Len(w) = N
  BY <1>1, <1>5, <1>8, <1>9
<1>13. Accounted(all, N, stderr \o w, lost)
  <2>1. \A i \in 1 .. Len(w) : w[i] = all[d + i]
    BY <1>9, <1>10, Zenon
  <2>2. \A i, j \in 1 .. d + Len(w) : all[i] = all[j] => i = j
    BY <1>1, <1>12, Zenon
  <2>3. Accounted(all, d + Len(w), stderr \o w, lost)
    BY <1>1, <1>2, <1>3, <1>9, <2>1, <2>2, AccountedWritten, Zenon
  <2> QED
    BY <1>12, <2>3, Zenon
<1>14. Accounted(all, N, sent, lost)
  BY <1>11, <1>13, Zenon
<1>15. DOMAIN sent = 1 .. Len(sent)
  BY <1>11
<1> HIDE DEF sent
<1>16. IsInjective(all)
  BY <1>1, Zenon DEF IsInjective
<1>17. Range(sent) = Range(all) \ lost
  <2>1. \A p : p \in Range(sent) <=> \E i \in 1 .. Len(sent) : p = sent[i]
    BY <1>15, Zenon DEF Range
  <2>2. \A p : p \in Range(all) <=> \E k \in 1 .. N : p = all[k]
    BY <1>1, Zenon DEF Range
  <2>3. \A i \in 1 .. Len(sent) : \E k \in 1 .. N : sent[i] = all[k]
    BY <1>14, Zenon DEF Accounted
  <2>4. \A k \in 1 .. N : all[k] \in lost <=> ~\E i \in 1 .. Len(sent) : sent[i] = all[k]
    BY <1>14, Zenon DEF Accounted
  <2>5. ASSUME NEW p \in Range(sent)
        PROVE  p \in Range(all) /\ p \notin lost
    <3>1. PICK i \in 1 .. Len(sent) : p = sent[i]
      BY <2>1, Zenon
    <3>2. PICK k \in 1 .. N : sent[i] = all[k]
      BY <2>3, Zenon
    <3> QED
      BY <2>2, <2>4, <3>1, <3>2, Zenon
  <2>6. ASSUME NEW p \in Range(all), p \notin lost
        PROVE  p \in Range(sent)
    <3>1. PICK k \in 1 .. N : p = all[k]
      BY <2>2, Zenon
    <3> QED
      BY <2>1, <2>4, <2>6, <3>1, Zenon
  <2> QED
    BY <2>5, <2>6, Zenon
<1>18. ASSUME NEW i \in DOMAIN sent, NEW j \in DOMAIN sent, i < j
       PROVE  \E k, l \in DOMAIN all : k < l /\ all[k] = sent[i] /\ all[l] = sent[j]
  <2>1. i \in 1 .. Len(sent) /\ j \in 1 .. Len(sent)
    BY <1>15, Zenon
  <2>2. PICK k \in 1 .. N, l \in 1 .. N : k < l /\ sent[i] = all[k] /\ sent[j] = all[l]
    BY <1>14, <1>18, <2>1, Zenon DEF Accounted
  <2>3. k \in DOMAIN all /\ l \in DOMAIN all
    BY <1>1, Zenon
  <2> QED
    BY <2>2, <2>3, Zenon
<1> QED
  BY <1>16, <1>17, <1>18, Zenon DEF InOrder, all, sent, u, v


----------------------------------------------------------------------------
(* The theorems *)

\* What logger_init leaves.
LEMMA InitSound ==
    ASSUME Init
    PROVE  IInv
<1>1. /\ Len(free) = POOL_SIZE /\ free \in Seq(Buffers) /\ \A i \in Buffers : free[i] = i
      /\ g_log_count = 0 /\ batch = <<>> /\ accepted = <<>> /\ rest = <<>>
  BY Sizes, SMTT(30) DEF Init, Buffers
<1>2. TypeOK
  <2>1. data \in [Buffers -> Lines]
    BY Sizes DEF Init, Lines
  <2>2. g_log_queue \in [0 .. POOL_SIZE - 1 -> Buffers]
    BY Sizes DEF Init, Buffers
  <2>3. /\ batch \in Seq(Buffers) /\ rest \in Seq(Buffers \X (1 .. LineLen))
        /\ stderr \in Seq(LineParts) /\ accepted \in Seq(Lines) /\ stopLen \in 0 .. Len(accepted)
    BY DEF Init
  <2>4. /\ nlines \in [Threads -> 0 .. MaxLines] /\ level \in [Threads -> Levels]
        /\ g_log_head \in 0 .. POOL_SIZE - 1 /\ g_log_tail \in 0 .. POOL_SIZE - 1
        /\ g_log_count \in 0 .. POOL_SIZE /\ g_dropped_logs \in Nat
    BY Sizes DEF Init, Levels
  <2>5. Len(free) <= POOL_SIZE
    BY <1>1, Sizes
  <2> QED
    <3>1. /\ pc \in [Threads -> {"idle", "enqueue", "fallback", "shutdown", "stop", "join",
                                 "exit", "gone"}]
          /\ lost \subseteq LineParts /\ stopper \in Threads \cup {NoThread}
      BY Zenon DEF Init
    <3>2. logger \in {"lock", "wait", "write", "return", "done", "none"}
      <4>1. logger = "lock" \/ logger = "none"
        BY Zenon DEF Init
      <4> QED
        BY <4>1, Zenon
    <3>3. g_logger_running \in BOOLEAN /\ g_shutdown_done \in BOOLEAN /\ halted \in BOOLEAN
      BY Zenon DEF Init
    <3> QED
      BY <1>1, <2>1, <2>2, <2>3, <2>4, <2>5, <3>1, <3>2, <3>3, Zenon DEF TypeOK
<1>3. BufferInv
  <2>1. 0 % POOL_SIZE = 0
    BY Sizes
  <2>2. g_log_head = Wrapped(g_log_tail + g_log_count)
    BY <2>1 DEF Init, Wrapped
  <2>3. Len(free) + g_log_count + Len(batch) = POOL_SIZE
    BY <1>1, Sizes
  <2>4. \A b \in Buffers : b \in 1 .. Len(free) /\ free[b] = b
    BY <1>1, Zenon DEF Buffers
  <2>5. \A i, j \in 1 .. Len(free) : free[i] = free[j] => i = j
    BY <1>1, Zenon DEF Buffers
  <2>6. 1 .. g_log_count = {} /\ 1 .. Len(batch) = {}
    BY <1>1, SMTT(30)
  <2> QED
    BY <1>1, <2>2, <2>3, <2>4, <2>5, <2>6, Zenon DEF BufferInv
<1>4. LineInv
  <2>1. 1 .. g_log_count = {} /\ Len(accepted) = 0 /\ 1 .. Len(accepted) = {}
    BY <1>1, SMTT(30)
  <2> QED
    BY <1>1, <2>1 DEF LineInv, Init
<1>5. StopInv
  BY Sizes, Zenon DEF StopInv, LoggerAwake, OthersGone, Init
<1> QED
  BY <1>2, <1>3, <1>4, <1>5, Zenon DEF IInv

\* The places of the buffers, put one after the other.
LEMMA BuffersAllThere ==
    ASSUME TypeOK, BufferInv
    PROVE  OneBuffer
<1> DEFINE all == free \o Ring \o batch
           f == Len(free)
           c == g_log_count
           n == Len(batch)
<1>1. /\ free \in Seq(Buffers) /\ Ring \in Seq(Buffers) /\ batch \in Seq(Buffers) /\ Len(Ring) = c
      /\ f \in Nat /\ c \in Nat /\ n \in Nat
  BY RingTyped, Sizes, SMTT(30) DEF TypeOK
<1> HIDE DEF Ring
<1>2. all \in Seq(Buffers) /\ Len(all) = f + c + n
  BY <1>1
<1>3. /\ \A i \in 1 .. f : all[i] = free[i]
      /\ \A i \in 1 .. c : all[f + i] = Ring[i]
      /\ \A i \in 1 .. n : all[f + c + i] = batch[i]
  BY <1>1, SMTT(30)
<1>4. f + c + n = POOL_SIZE
  BY Zenon DEF BufferInv
<1> HIDE DEF all
<1>5. Range(all) \subseteq Buffers
  BY <1>2 DEF Range
<1>6. DOMAIN all = 1 .. f + c + n
  BY <1>2
<1>7. ASSUME NEW b \in Buffers
      PROVE  \E i \in DOMAIN all : all[i] = b
  <2>1. \/ \E i \in 1 .. f : free[i] = b
        \/ \E i \in 1 .. c : Ring[i] = b
        \/ \E i \in 1 .. n : batch[i] = b
    BY Zenon DEF BufferInv
  <2>2. ASSUME NEW i \in 1 .. f, free[i] = b
        PROVE  i \in DOMAIN all /\ all[i] = b
    BY <1>1, <1>3, <1>6, <2>2
  <2>3. ASSUME NEW i \in 1 .. c, Ring[i] = b
        PROVE  f + i \in DOMAIN all /\ all[f + i] = b
    BY <1>1, <1>3, <1>6, <2>3
  <2>4. ASSUME NEW i \in 1 .. n, batch[i] = b
        PROVE  f + c + i \in DOMAIN all /\ all[f + c + i] = b
    BY <1>1, <1>3, <1>6, <2>4
  <2> QED
    BY <2>1, <2>2, <2>3, <2>4, Zenon
<1>8. Range(all) = Buffers
  BY <1>5, <1>7, Zenon DEF Range
<1> QED
  BY <1>2, <1>4, <1>8, Zenon DEF OneBuffer, all

\* The inductive invariant holds in every state.
LEMMA Inductive == Spec => []IInv
<1>1. Init => IInv
  BY InitSound, Zenon
<1>2. IInv /\ [Next]_vars => IInv'
  <2> SUFFICES ASSUME IInv, [Next]_vars
               PROVE  IInv'
    BY Zenon
  <2>1. [Next]_vars => Next \/ UNCHANGED vars
    BY Zenon
  <2>2. CASE Next
    BY <2>2, TypeStep, BufferStep, LineStep, StopStep, Zenon DEF IInv
  <2>3. CASE UNCHANGED vars
    <3>1. TypeOK'
      BY <2>3, Zenon DEF vars, producer, queue, consumer, flags, output, IInv, TypeOK
    <3>2. BufferInv'
      BY <2>3, BuffersStay, Zenon DEF vars, queue, consumer, IInv, BufferInv
    <3>3. LineInv'
      BY <2>3, LinesStay, Zenon DEF vars, producer, queue, IInv
    <3>4. StopInv'
      BY <2>3 DEF vars, producer, queue, consumer, flags, IInv, StopInv, LoggerAwake, OthersGone
    <3> QED
      BY <3>1, <3>2, <3>3, <3>4, Zenon DEF IInv
  <2> QED
    BY <2>2, <2>3, Zenon
<1> QED
  BY <1>1, <1>2, PTL DEF Spec

\* For every number of threads, size of the pool and of a batch: each buffer is
\* in one place, and the logger thread never sleeps on a line or a stop.
THEOREM LoggerCorrect == Spec => []LoggerInv
<1>1. IInv => LoggerInv
  BY BuffersAllThere, Zenon DEF IInv, LoggerInv, StopInv
<1> QED
  BY <1>1, Inductive, PTL

\* For every number of threads, size of the pool and of a batch: when the
\* thread that stopped the logger returns from logger_shutdown, every line
\* accepted before the stop is written, and a graceful shutdown leaves none.
THEOREM ShutdownFlushes == Spec => []FlushInv
<1>1. IInv => FlushInv
  <2> SUFFICES ASSUME IInv
               PROVE  FlushInv
    BY Zenon
  <2> USE DEF IInv
  <2>1. /\ Ring \in Seq(Buffers) /\ Len(Ring) = g_log_count /\ g_log_count \in Nat
        /\ Len(accepted) \in Nat /\ stopLen \in Nat /\ stopLen <= Len(accepted)
    BY RingTyped, Sizes DEF TypeOK
  <2>2. logger # "write" => \A l \in Unwritten : \E i \in 1 .. g_log_count : l = data[Ring[i]]
    <3>1. SUFFICES ASSUME logger # "write", NEW l \in Unwritten
                   PROVE  \E i \in 1 .. g_log_count : l = data[Ring[i]]
      BY Zenon
    <3>2. rest = <<>>
      BY <3>1, Zenon DEF BufferInv
    <3>3. Range(rest) = {}
      BY <3>2 DEF Range
    <3>4. PICK b \in Range(Ring) : l = data[b]
      BY <3>1, <3>3, Zenon DEF Unwritten
    <3>5. PICK i \in DOMAIN Ring : b = Ring[i]
      BY <3>4, Zenon DEF Range
    <3>6. i \in 1 .. g_log_count
      BY <2>1, <3>5
    <3> QED
      BY <3>4, <3>5, <3>6, Zenon
  <2>3. StopFlushes
    <3>1. SUFFICES ASSUME NEW t \in Threads, pc[t] = "exit", stopper = t,
                          NEW i \in 1 .. stopLen, accepted[i] \in Unwritten
                   PROVE  FALSE
      BY Zenon DEF StopFlushes
    <3>2. logger = "done" /\ stopLen <= Len(accepted) - g_log_count
      BY <3>1, Sizes, Zenon DEF StopInv
    <3>3. PICK j \in 1 .. g_log_count : accepted[i] = data[Ring[j]]
      BY <2>2, <3>1, <3>2, Zenon
    <3>4. PICK k : k = Len(accepted) - g_log_count + j
      BY Zenon
    <3>5. k \in 1 .. Len(accepted) /\ k > stopLen /\ i \in 1 .. Len(accepted) /\ i <= stopLen
      BY <2>1, <3>1, <3>2, <3>4
    <3>6. accepted[i] = accepted[k]
      BY <3>3, <3>4, Zenon DEF LineInv
    <3>7. i = k
      BY <3>5, <3>6, Zenon DEF LineInv
    <3> QED
      BY <2>1, <3>5, <3>7
  <2>4. GracefulFlush
    <3>1. SUFFICES ASSUME pc[Main] = "exit", OthersGone
                   PROVE  Unwritten = {}
      BY Zenon DEF GracefulFlush, OthersGone
    <3>2. logger \in {"done", "none"} /\ g_log_count = 0
      BY <3>1, Zenon DEF StopInv
    <3>3. 1 .. g_log_count = {}
      BY <3>2
    <3> QED
      BY <2>2, <3>2, <3>3, Zenon
  <2> QED
    BY <2>3, <2>4, Zenon DEF FlushInv
<1> QED
  BY <1>1, Inductive, PTL

\* What the logger thread has written, lost and yet to write is accounted for
\* in every state.
LEMMA OrderInductive == Spec => [](IInv /\ OrderInv)
<1>1. Init => OrderInv
  <2> SUFFICES ASSUME Init
               PROVE  OrderInv
    BY Zenon
  <2>1. rest = <<>> /\ stderr = <<>> /\ lost = {} /\ accepted = <<>> /\ g_log_count = 0
    BY Zenon DEF Init
  <2>2. /\ Len(rest) = 0 /\ Len(stderr) = 0 /\ Len(accepted) - g_log_count = 0
        /\ 1 .. Len(rest) = {} /\ 1 .. Len(stderr) = {} /\ 1 .. 0 = {}
    BY <2>1
  <2>3. Handled = 0 * LineLen - 0
    BY <2>2, Zenon DEF Handled
  <2>4. Handled = 0
    BY <2>3, Sizes
  <2>5. Accounted(Parts(accepted), 0, stderr, lost)
    BY <2>1, <2>2, Zenon DEF Accounted
  <2> QED
    BY <2>2, <2>4, <2>5, Zenon DEF OrderInv
<1>2. IInv /\ OrderInv /\ [Next]_vars => OrderInv'
  <2>1. ASSUME IInv, OrderInv, Next
        PROVE  OrderInv'
    BY <2>1, OrderStep, Zenon DEF IInv
  <2>2. ASSUME OrderInv, UNCHANGED vars
        PROVE  OrderInv'
    BY <2>2, OrderStays, Zenon DEF vars, queue, consumer, output
  <2> QED
    BY <2>1, <2>2, Zenon
<1> QED
  BY <1>1, <1>2, Inductive, PTL DEF Spec

\* For every number of threads, size of the pool and of a batch, length of a
\* line and split of a write by the pipe: the lines leave in the order of the
\* critical sections that accepted them, each part once, and what is missing
\* is what a failing write lost.
THEOREM LinesInOrder == Spec => []InOrder
<1>1. IInv /\ OrderInv => InOrder
  BY OrderOfAll, Zenon DEF IInv
<1> QED
  BY <1>1, OrderInductive, PTL
=============================================================================
