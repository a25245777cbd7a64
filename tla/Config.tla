------------------------------- MODULE Config -------------------------------
(***************************************************************************)
(* The configuration of lib/config.c and the sizes that are computed from  *)
(* it: the file apiserver.env is read into the environment, the settings   *)
(* are read from there with defaults and limits, and a later reload takes  *)
(* ACCESS_LOG from the file and nothing else.                              *)
(*                                                                         *)
(* The text of a variable is Absent (not set), Malformed (empty, or not a  *)
(* number) or the number it spells; a switch is "on" or "off".  API_URL    *)
(* stands for the required variables and JWT_SECRET for the secret ones.   *)
(***************************************************************************)
EXTENDS Integers

CONSTANTS Absent, Malformed,
          NoFile,        \* there is no apiserver.env
          Files,         \* what is in it at the start
          Edits,         \* what an operator may put into it later
          Envs,          \* the environments the process may be started in
          ULONG          \* the number of values of an unsigned long

Numbers == {"NUM_THREADS", "MAX_QUEUE_SIZE", "FAST_POOL_PERCENTAGE", "JWT_TIMEOUT_SECONDS"}
Secrets == {"JWT_SECRET"}
Required == {"API_URL", "JWT_SECRET", "JWT_TIMEOUT_SECONDS"}
Keys == Numbers \cup Secrets \cup Required \cup {"ACCESS_LOG"}

ASSUME ConfigConstants ==
    /\ ULONG \in Nat \ {0}
    /\ \A c \in Envs \cup (Files \ {NoFile}), k \in Numbers :
          c[k] \in {Absent, Malformed} \/ c[k] \in Int

VARIABLES file,           \* the content of apiserver.env
          env,            \* the environment of the process
          conf,           \* the settings the getters return
          is_first_load

configVars == <<file, env, conf, is_first_load>>

ConfigInit == /\ file \in Files
              /\ env \in Envs
              /\ conf = [num_threads |-> 0, max_queue_size |-> 10000,
                         fast_pool_percentage |-> 25, jwt_timeout_seconds |-> 3600,
                         jwt_secret |-> Absent, access_log |-> TRUE]
              /\ is_first_load = TRUE

----------------------------------------------------------------------------
(* Reading a variable *)

\* strtoul negates a number with a sign modulo the word and reports one that
\* does not fit.
OutOfRange(v) == v >= ULONG \/ v <= -ULONG

safe_strtoul_env(v, default, max) ==
    IF v \in {Absent, Malformed} THEN default
    ELSE IF OutOfRange(v) THEN default
    ELSE IF v % ULONG > max THEN max ELSE v % ULONG

\* strtol: half the word, and numbers keep their sign.
safe_strtol_env(v, default, min, max) ==
    IF v \in {Absent, Malformed} THEN default
    ELSE IF v >= ULONG \div 2 \/ v < -(ULONG \div 2) THEN default
    ELSE IF v < min THEN min ELSE IF v > max THEN max ELSE v

parse_boolean_env(v) == v # "off"

----------------------------------------------------------------------------
(* config_reload *)

\* load_env_file, at start-up: the file goes over the environment.
load_env_file(e) == IF file = NoFile THEN e
                    ELSE [k \in Keys |-> IF file[k] = Absent THEN e[k] ELSE file[k]]

\* The settings read from environment e.
apply_config_vars(e) ==
    [num_threads          |-> safe_strtoul_env(e["NUM_THREADS"], 0, 1024),
     max_queue_size       |-> safe_strtoul_env(e["MAX_QUEUE_SIZE"], 10000, 1000000),
     fast_pool_percentage |-> safe_strtoul_env(e["FAST_POOL_PERCENTAGE"], 25, 100),
     jwt_timeout_seconds  |-> safe_strtol_env(e["JWT_TIMEOUT_SECONDS"], 3600, 1, 2592000),
     jwt_secret           |-> e["JWT_SECRET"],
     access_log           |-> parse_boolean_env(e["ACCESS_LOG"])]

scrub_env_vars(e) == [k \in Keys |-> IF k \in Secrets THEN Absent ELSE e[k]]

MissingRequired == \E k \in Required : load_env_file(env)[k] = Absent

\* The first load, when nothing required is missing.
config_init == /\ is_first_load
               /\ ~MissingRequired
               /\ conf' = apply_config_vars(load_env_file(env))
               /\ env' = scrub_env_vars(load_env_file(env))
               /\ is_first_load' = FALSE
               /\ UNCHANGED file

\* Mutant: a reload reads the switch where the first load does.
config_reload_FromEnv == /\ ~is_first_load
                         /\ conf' = [conf EXCEPT !.access_log = parse_boolean_env(env["ACCESS_LOG"])]
                         /\ UNCHANGED <<file, env, is_first_load>>

\* A reload: the switch if the file has it, and the old setting if not.
config_reload == /\ ~is_first_load
                 /\ conf' = IF file = NoFile \/ file["ACCESS_LOG"] = Absent THEN conf
                            ELSE [conf EXCEPT !.access_log = parse_boolean_env(file["ACCESS_LOG"])]
                 /\ UNCHANGED <<file, env, is_first_load>>

\* An operator changes the file.
edit_file == /\ file' \in Edits \ {file}
             /\ UNCHANGED <<env, conf, is_first_load>>

----------------------------------------------------------------------------
(* The sizes *)

\* server_init_globals: the workers and the tasks for that many reactors.
bg_workers_count(c, reactors) == IF c.num_threads > 0 THEN c.num_threads ELSE reactors * 2

safe_q_size(c) == IF c.max_queue_size = 0 THEN 100000 ELSE c.max_queue_size

slab_size(c, reactors) == safe_q_size(c) * 2 + bg_workers_count(c, reactors) + 10000

\* Mutant: all the workers may be fast ones.
fast_workers_All(n, pct) == IF (n * pct) \div 100 = 0 THEN 1 ELSE (n * pct) \div 100

\* worker_pool_init: the split of n workers.
fast_workers(n, pct) ==
    LET f == IF (n * pct) \div 100 = 0 THEN 1 ELSE (n * pct) \div 100
    IN IF f = n /\ n > 1 THEN n - 1 ELSE f

slow_workers(n, pct) == IF n > fast_workers(n, pct) THEN n - fast_workers(n, pct) ELSE 1
=============================================================================
