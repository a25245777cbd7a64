------------------------------ MODULE Threads ------------------------------
(* The threads of the server, and the task objects they hand to each other. *)
EXTENDS Integers, Sequences, FiniteSets

CONSTANTS Workers,    \* the worker threads of both pools
          Reactors,   \* the reactor threads
          Tasks       \* the http_task_t objects

ASSUME ThreadsConstants == IsFiniteSet(Workers) /\ IsFiniteSet(Reactors)
=============================================================================
