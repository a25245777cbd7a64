-------------------------- MODULE CompletionQueue --------------------------
(***************************************************************************)
(* The way back from the workers to the reactors in lib/server.c: one list *)
(* of completed tasks per reactor behind a mutex, and an eventfd that only *)
(* the worker finding the list empty writes to ("coalescing").             *)
(*                                                                         *)
(* The append and the detach are critical sections, one step each.  The    *)
(* eventfd write follows the unlock of the append, and the eventfd read    *)
(* precedes the lock of the detach, so both are steps of their own.        *)
(***************************************************************************)
EXTENDS Threads

CONSTANT NoReactor    \* no reactor

ASSUME CompletionQueueConstants == NoReactor \notin Reactors

VARIABLES cq,         \* head .. tail of each reactor's list
          eventfd,    \* the counter of each reactor's eventfd
          writing,    \* the reactor whose eventfd a worker has yet to write to
          reactor,    \* where each reactor is: in its event loop ("loop") or
                      \* in reactor_eventfd_cb, before ("read") or after
                      \* ("batch") it detached the list
          batch       \* the tasks it detached and has not finished with

cqVars == <<cq, eventfd, writing, reactor, batch>>

CQTypeOK == /\ cq \in [Reactors -> Seq(Tasks)]
            /\ eventfd \in [Reactors -> Nat]
            /\ writing \in [Workers -> Reactors \cup {NoReactor}]
            /\ reactor \in [Reactors -> {"loop", "read", "batch"}]
            /\ batch \in [Reactors -> Seq(Tasks)]

CQInit == /\ cq = [r \in Reactors |-> <<>>]
          /\ eventfd = [r \in Reactors |-> 0]
          /\ writing = [w \in Workers |-> NoReactor]
          /\ reactor = [r \in Reactors |-> "loop"]
          /\ batch = [r \in Reactors |-> <<>>]

----------------------------------------------------------------------------
(* server_notify_task_done, on a worker *)

\* Mutant: every append writes.
server_notify_task_done_Always(w, r, t) ==
    /\ writing[w] = NoReactor
    /\ cq' = [cq EXCEPT ![r] = Append(@, t)]
    /\ writing' = [writing EXCEPT ![w] = r]
    /\ UNCHANGED <<eventfd, reactor, batch>>

\* The critical section: t is appended to the list of reactor r.
server_notify_task_done(w, r, t) ==
    /\ writing[w] = NoReactor
    /\ cq' = [cq EXCEPT ![r] = Append(@, t)]
    /\ writing' = [writing EXCEPT ![w] = IF cq[r] = <<>> THEN r ELSE NoReactor]
    /\ UNCHANGED <<eventfd, reactor, batch>>

\* The write to the eventfd, retried on EINTR until it succeeds.
eventfd_write(w) ==
    /\ writing[w] # NoReactor
    /\ eventfd' = [eventfd EXCEPT ![writing[w]] = @ + 1]
    /\ writing' = [writing EXCEPT ![w] = NoReactor]
    /\ UNCHANGED <<cq, reactor, batch>>

----------------------------------------------------------------------------
(* reactor_eventfd_cb, on a reactor *)

\* The loop calls back because the eventfd is readable; the counter is
\* read until it is 0.
eventfd_read(r) ==
    /\ reactor[r] = "loop"
    /\ eventfd[r] > 0
    /\ eventfd' = [eventfd EXCEPT ![r] = 0]
    /\ reactor' = [reactor EXCEPT ![r] = "read"]
    /\ UNCHANGED <<cq, writing, batch>>

\* The critical section: the whole list is detached.
detach(r) ==
    /\ reactor[r] = "read"
    /\ cq' = [cq EXCEPT ![r] = <<>>]
    /\ batch' = [batch EXCEPT ![r] = cq[r]]
    /\ reactor' = [reactor EXCEPT ![r] = IF cq[r] = <<>> THEN "loop" ELSE "batch"]
    /\ UNCHANGED <<eventfd, writing>>

\* Mutant: an iteration that does not advance to the next task.
next_completed_Stays(r) ==
    /\ reactor[r] = "batch"
    /\ UNCHANGED cqVars

\* One iteration of the loop over the detached tasks: the reactor answers or
\* cleans up the first one, and returns to its event loop after the last.
next_completed(r) ==
    /\ reactor[r] = "batch"
    /\ batch' = [batch EXCEPT ![r] = Tail(@)]
    /\ reactor' = [reactor EXCEPT ![r] = IF Tail(batch[r]) = <<>> THEN "loop" ELSE @]
    /\ UNCHANGED <<cq, eventfd, writing>>

----------------------------------------------------------------------------
\* The tasks on the way back, each once.
InQueue(r, t) == \/ \E i \in 1 .. Len(cq[r]) : cq[r][i] = t
                 \/ \E i \in 1 .. Len(batch[r]) : batch[r][i] = t

Callback(r) == eventfd_read(r) \/ detach(r) \/ next_completed(r)

CQNext == \/ \E w \in Workers, r \in Reactors, t \in Tasks :
                /\ \A x \in Reactors : ~InQueue(x, t)
                /\ server_notify_task_done(w, r, t)
          \/ \E w \in Workers : eventfd_write(w)
          \/ \E r \in Reactors : Callback(r)

CQSpec == CQInit /\ [][CQNext]_cqVars

\* Threads are scheduled, and an event loop serves a readable eventfd.
CQFairSpec == /\ CQSpec
              /\ \A w \in Workers : WF_cqVars(eventfd_write(w))
              /\ \A r \in Reactors : WF_cqVars(Callback(r))

----------------------------------------------------------------------------
(* Properties *)

\* The workers that have yet to write to reactor r's eventfd.
Writers(r) == {w \in Workers : writing[w] = r}

\* Coalescing neither loses a wakeup nor sends two: a list that is not empty
\* has exactly one wakeup on its way, be it a worker about to write, a counter
\* not yet read or a callback about to detach; an empty list has none.  So
\* the eventfd counter never exceeds 1 and its writes cannot fail with EAGAIN.
OneWakeup ==
    \A r \in Reactors :
       Cardinality(Writers(r)) + eventfd[r] + (IF reactor[r] = "read" THEN 1 ELSE 0)
         = IF cq[r] = <<>> THEN 0 ELSE 1

\* A reactor inside its callback's loop has a task left.
BatchInv == \A r \in Reactors : reactor[r] = "batch" => batch[r] # <<>>

\* The inductive invariant of the queues: every list has the one wakeup it
\* needs, and a callback that goes on has something to go on with.
CQInv == CQTypeOK /\ BatchInv /\ OneWakeup

\* Every completed task reaches its reactor's callback, however the writes,
\* reads, appends and detaches of the others interleave.
CompletionDelivered ==
    \A r \in Reactors, t \in Tasks : InQueue(r, t) ~> ~InQueue(r, t)
=============================================================================
