--------------------------- MODULE RequestService ---------------------------
(***************************************************************************)
(* What the server promises the client of a request: it is answered at     *)
(* most once, on the spot or after a worker has run it, and it is dropped  *)
(* without an answer only when the client has gone.                        *)
(***************************************************************************)

CONSTANT Requests

VARIABLES state,      \* "new", "accepted", "answered" or "dropped"
          gone        \* the requests whose client has disconnected

serviceVars == <<state, gone>>

ServiceInit == /\ state = [q \in Requests |-> "new"]
               /\ gone = {}

\* q goes from one state to another.
Moves(q, from, to) == /\ state[q] = from
                      /\ state' = [state EXCEPT ![q] = to]
                      /\ UNCHANGED gone

Refuse(q) == Moves(q, "new", "answered")
Accept(q) == Moves(q, "new", "accepted")
Answer(q) == Moves(q, "accepted", "answered")
Drop(q) == q \in gone /\ Moves(q, "accepted", "dropped")

Leave(q) == /\ state[q] # "new"
            /\ gone' = gone \cup {q}
            /\ UNCHANGED state

ServiceNext == \E q \in Requests :
                  Refuse(q) \/ Accept(q) \/ Answer(q) \/ Drop(q) \/ Leave(q)

ServiceSpec == ServiceInit /\ [][ServiceNext]_serviceVars
=============================================================================
