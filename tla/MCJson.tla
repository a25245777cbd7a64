------------------------------- MODULE MCJson -------------------------------
(***************************************************************************)
(* The two edges of a request in one run: what comes in is validated, what *)
(* goes out is written.  The two share nothing; a behaviour is one of      *)
(* either.                                                                 *)
(***************************************************************************)
EXTENDS Validation, JsonText

\* The longs around the powers of ten, and the extreme ones.
MCLongs == {s * v : s \in {-1, 1}, v \in UNION {{10^n - 1, 10^n, 10^n + 1} : n \in 0..8}}
             \cup {-(2^29), 2^29 - 1, 123456789}

\* The values of columns: shorter and longer than the room of the column and
\* than the staging buffer, once they are escaped.
MCInts == {-1, 12}
MCDecimals == {<<>>, <<"1">>}
MCStrings == {<<>>, <<"a">>, <<"c">>, <<"a", "q", "a">>, <<"a", "a", "a", "a">>}

\* A request that was refused, and a number that was written.
Refused == /\ ctx = "prodget" /\ root = NotAnObject /\ i = 1 /\ outcome = "rejected"
           /\ bound = 0 /\ bound_text = <<>>
Written == /\ job = [t |-> "nan", size |-> 64] /\ pos = 1 /\ dest = <<"0">>
           /\ jb = Empty /\ rows = <<>> /\ returned = "true"

MCInit == (ValidInit /\ Written) \/ (Refused /\ TextInit)

MCNext == \/ ValidNext /\ UNCHANGED text_vars
          \/ TextNext /\ UNCHANGED valid_vars

MCSpec == MCInit /\ [][MCNext]_<<valid_vars, text_vars>>
=============================================================================
