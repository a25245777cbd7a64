----------------------------- MODULE MCStartup ------------------------------
(***************************************************************************)
(* Start-up on a small machine, with configuration files that sweep the    *)
(* texts of every number: missing, malformed, zero, one, negative, at and  *)
(* beyond the limits.                                                      *)
(***************************************************************************)
EXTENDS Startup

Complete == [NUM_THREADS |-> 3, MAX_QUEUE_SIZE |-> 1, FAST_POOL_PERCENTAGE |-> 50,
             JWT_TIMEOUT_SECONDS |-> 300, API_URL |-> 1, JWT_SECRET |-> 1, ACCESS_LOG |-> "off"]

Threads == {Absent, 0, 1, 2, 3, 5000}
Percentages == {Absent, 0, 33, 100}

MCFiles == {[Complete EXCEPT !["NUM_THREADS"] = n, !["FAST_POOL_PERCENTAGE"] = p] :
               n \in Threads, p \in Percentages}
           \cup {[Complete EXCEPT ![k] = v] : k \in Numbers, v \in {Absent, Malformed, 0, -2, ULONG}}
           \cup {[Complete EXCEPT !["JWT_SECRET"] = Malformed], NoFile}

Nothing == [k \in Keys |-> Absent]
MCEnvs == {Nothing, [Complete EXCEPT !["ACCESS_LOG"] = Absent]}

MCEdits == {[Complete EXCEPT !["NUM_THREADS"] = 9, !["ACCESS_LOG"] = "on"],
            [Complete EXCEPT !["MAX_QUEUE_SIZE"] = 0, !["ACCESS_LOG"] = Absent], NoFile}
=============================================================================
