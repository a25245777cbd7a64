------------------------- MODULE DbConnectionProofs -------------------------
(***************************************************************************)
(* Proofs about module DbConnection, for every set of databases and of     *)
(* handles: the handles of a thread stay sound whatever ODBC call fails    *)
(* and wherever a lost connection is noticed, and an error object belongs  *)
(* to the call that wrote it.                                              *)
(***************************************************************************)
EXTENDS DbConnection, TLAPS

----------------------------------------------------------------------------
(* The inductive invariant *)

\* The handles the thread has are the ones the driver has allocated, a
\* statement beside its own connection, and a handle that is free holds on to
\* nothing.  Without the destructor there is no connection to close.
Cached ==
    /\ \A d \in Dbs :
          /\ tl_hdbc[d] # NoHandle => tl_hdbc[d] \in live /\ owner[tl_hdbc[d]] = NoHandle
          /\ tl_hstmt[d] # NoHandle => /\ tl_hdbc[d] # NoHandle
                                       /\ tl_hstmt[d] \in live
                                       /\ owner[tl_hstmt[d]] = tl_hdbc[d]
    /\ \A d, e \in Dbs : tl_hdbc[d] = tl_hdbc[e] /\ tl_hdbc[d] # NoHandle => d = e
    /\ \A h \in live : \E d \in Dbs : h = tl_hdbc[d] \/ h = tl_hstmt[d]
    /\ \A h \in Handles \ live : owner[h] = NoHandle /\ dirty[h] = {}
    /\ ~registered => \A d \in Dbs : tl_hdbc[d] = NoHandle

\* Where a call uses its statement, and where it is on its way out.
Inside == {"bind", "columns", "execute", "fetch", "metadata", "bind_columns", "more", "destroy"}
Leaving == {"abandon", "failed", "return"}

\* The local variables of a call.  On the way out its statement is the
\* thread's, or has been freed and not been given out again.  Only that
\* statement has something to be cleaned up, and a lost connection is closed.
LocalInv ==
    /\ pc = "stmt" => tl_hdbc[db] # NoHandle
    /\ pc \in {"connect", "stmt"} => hstmt = NoHandle
    /\ pc \in Inside => hstmt # NoHandle /\ hstmt = tl_hstmt[db]
    /\ pc \in Leaving => \/ hstmt = tl_hstmt[db]
                         \/ hstmt \notin live /\ tl_hstmt[db] = NoHandle
    /\ pc \notin {"idle", "exited"} => meta = NoHandle \/ meta = hstmt
    /\ \A h \in Handles : dirty[h] # {} => pc \in Inside \cup Leaving /\ h = hstmt
    /\ lost => tl_hdbc[db] = NoHandle /\ pc \in Leaving \cup {"idle", "exited"}
    /\ pc = "exited" => live = {}

HandleInv == TypeOK /\ ~misuse /\ Cached /\ LocalInv

\* The native error of a fetching call is its own, and so is its error object.
ErrorInv ==
    op \in Fetching =>
       /\ pc # "exited" => native = own
       /\ pc # "columns"
       /\ pc \notin {"return", "idle", "exited"} => out_buf # "error"
       /\ pc \in {"return", "idle"} /\ ~ok => (out_buf = "error" <=> native)

\* A call that fetches nothing writes nothing.  One that fetches has written a
\* whole document if it succeeds, and never if it fails.
ResultInv ==
    /\ pc \in {"metadata", "bind_columns", "more", "destroy", "abandon", "failed"} => op \in Fetching
    /\ op \notin Fetching => out_buf = "empty"
    /\ op \in Ops
    /\ ok => pc \in {"return", "idle", "exited"} /\ (op \in Fetching => out_buf = "whole")
    /\ ~ok => out_buf # "whole"

----------------------------------------------------------------------------
(* Resetting a connection *)

\* The statements of a connection that is closed are the one cached beside it:
\* db_reset_connection frees nothing else and nothing twice.
LEMMA ResetFrees ==
    ASSUME DbConstants, TypeOK, Cached, db_reset_connection({db})
    PROVE  LET freed == {tl_hdbc[db], tl_hstmt[db]} \ {NoHandle}
           IN /\ live' = live \ freed
              /\ owner' = [h \in Handles |-> IF h \in freed THEN NoHandle ELSE owner[h]]
              /\ dirty' = [h \in Handles |-> IF h \in freed THEN {} ELSE dirty[h]]
              /\ misuse' = misuse
<1> DEFINE closed == {tl_hdbc[d] : d \in {db}} \ {NoHandle}
           freed == closed \cup ({tl_hstmt[d] : d \in {db}} \ {NoHandle})
           gone == freed \cup {s \in live : owner[s] \in closed}
<1>1. freed = {tl_hdbc[db], tl_hstmt[db]} \ {NoHandle}
  BY Zenon
<1>2. closed \subseteq {tl_hdbc[db]} /\ NoHandle \notin closed
  BY Zenon
<1>3. db \in Dbs /\ freed \subseteq live
  BY <1>1 DEF TypeOK, Cached
<1>4. ASSUME NEW s \in live, owner[s] \in closed
      PROVE  s \in freed
  <2>1. owner[s] = tl_hdbc[db] /\ tl_hdbc[db] # NoHandle
    BY <1>2, <1>4, Zenon
  <2>2. PICK d \in Dbs : s = tl_hdbc[d] \/ s = tl_hstmt[d]
    BY Zenon DEF Cached
  <2>3. s \in Handles /\ s # NoHandle
    BY Zenon DEF TypeOK, DbConstants
  <2>4. s = tl_hstmt[d] /\ owner[s] = tl_hdbc[d]
    BY <2>1, <2>2, <2>3, Zenon DEF Cached
  <2>5. d = db
    BY <1>3, <2>1, <2>4 DEF Cached
  <2> QED
    BY <1>1, <2>3, <2>4, <2>5, Zenon
<1>5. gone = freed
  BY <1>4, Zenon
<1>6. /\ live' = live \ gone
      /\ owner' = [h \in Handles |-> IF h \in gone THEN NoHandle ELSE owner[h]]
      /\ dirty' = [h \in Handles |-> IF h \in gone THEN {} ELSE dirty[h]]
      /\ misuse' = (misuse \/ ~(freed \subseteq live))
  BY Zenon DEF db_reset_connection
<1>7. misuse' = misuse
  BY <1>3, <1>6, Zenon DEF TypeOK
<1> HIDE DEF freed, gone, closed
<1> QED
  BY <1>1, <1>5, <1>6, <1>7, Zenon

\* After a reset the database has no handles, the other handles are as they
\* were, and the freed statement holds on to nothing.
LEMMA ResetOne ==
    ASSUME DbConstants, TypeOK, Cached, db_reset_connection({db}), UNCHANGED <<registered, db>>
    PROVE  /\ Cached'
           /\ tl_hdbc' \in [Dbs -> NoHandles] /\ tl_hstmt' \in [Dbs -> NoHandles]
           /\ live' \subseteq live
           /\ owner' \in [Handles -> NoHandles]
           /\ dirty' \in [Handles -> SUBSET {"cursor", "params", "columns"}]
           /\ misuse' = misuse
           /\ tl_hdbc'[db] = NoHandle /\ tl_hstmt'[db] = NoHandle
           /\ tl_hstmt[db] \notin live'
           /\ \A h \in Handles : dirty'[h] # {} => dirty[h] # {}
<1> DEFINE freed == {tl_hdbc[db], tl_hstmt[db]} \ {NoHandle}
<1>1. /\ live' = live \ freed
      /\ owner' = [h \in Handles |-> IF h \in freed THEN NoHandle ELSE owner[h]]
      /\ dirty' = [h \in Handles |-> IF h \in freed THEN {} ELSE dirty[h]]
      /\ misuse' = misuse
  BY ResetFrees, Zenon
<1>2. /\ tl_hdbc' = [d \in Dbs |-> IF d = db THEN NoHandle ELSE tl_hdbc[d]]
      /\ tl_hstmt' = [d \in Dbs |-> IF d = db THEN NoHandle ELSE tl_hstmt[d]]
  BY Zenon DEF db_reset_connection
<1>3. db \in Dbs /\ live \subseteq Handles /\ NoHandle \notin Handles
  BY Zenon DEF TypeOK, DbConstants
<1>4. ASSUME NEW d \in Dbs, d # db
      PROVE  tl_hdbc[d] \notin freed /\ tl_hstmt[d] \notin freed
  BY <1>3, <1>4 DEF Cached
<1>5. Cached'
  <2>1. ASSUME NEW d \in Dbs
        PROVE  /\ tl_hdbc'[d] # NoHandle => tl_hdbc'[d] \in live' /\ owner'[tl_hdbc'[d]] = NoHandle
               /\ tl_hstmt'[d] # NoHandle => /\ tl_hdbc'[d] # NoHandle
                                             /\ tl_hstmt'[d] \in live'
                                             /\ owner'[tl_hstmt'[d]] = tl_hdbc'[d]
    <3>1. CASE d = db
      BY <1>2, <3>1, Zenon
    <3>2. CASE d # db
      <4>1. tl_hdbc'[d] = tl_hdbc[d] /\ tl_hstmt'[d] = tl_hstmt[d]
        BY <1>2, <3>2, Zenon
      <4>2. tl_hdbc[d] \notin freed /\ tl_hstmt[d] \notin freed
        BY <1>4, <3>2, Zenon
      <4> HIDE DEF freed
      <4> QED
        BY <1>1, <1>3, <4>1, <4>2, Zenon DEF Cached
    <3> QED
      BY <3>1, <3>2, Zenon
  <2>2. \A d, e \in Dbs : tl_hdbc'[d] = tl_hdbc'[e] /\ tl_hdbc'[d] # NoHandle => d = e
    BY <1>2, Zenon DEF Cached
  <2>3. \A h \in live' : \E d \in Dbs : h = tl_hdbc'[d] \/ h = tl_hstmt'[d]
    BY <1>1, <1>2, <1>3, Zenon DEF Cached
  <2>4. \A h \in Handles \ live' : owner'[h] = NoHandle /\ dirty'[h] = {}
    <3> HIDE DEF freed
    <3> QED
      BY <1>1, Zenon DEF Cached
  <2>5. ~registered' => \A d \in Dbs : tl_hdbc'[d] = NoHandle
    BY <1>2, Zenon DEF Cached
  <2> QED
    BY <2>1, <2>2, <2>3, <2>4, <2>5, Zenon DEF Cached
<1>6. owner' \in [Handles -> NoHandles] /\ dirty' \in [Handles -> SUBSET {"cursor", "params", "columns"}]
  <2> HIDE DEF freed
  <2> QED
    BY <1>1, Zenon DEF TypeOK, NoHandles
<1>7. tl_hdbc' \in [Dbs -> NoHandles] /\ tl_hstmt' \in [Dbs -> NoHandles]
  BY <1>2, Zenon DEF TypeOK, NoHandles
<1>8. tl_hstmt[db] \notin live' /\ tl_hdbc'[db] = NoHandle /\ tl_hstmt'[db] = NoHandle
  BY <1>1, <1>2, <1>3, Zenon
<1>9. \A h \in Handles : dirty'[h] # {} => dirty[h] # {}
  <2> HIDE DEF freed
  <2> QED
    BY <1>1, Zenon
<1> QED
  BY <1>1, <1>5, <1>6, <1>7, <1>8, <1>9, Zenon

----------------------------------------------------------------------------
(* The kinds of steps a call makes on its statement *)

\* A call on the statement that succeeds.
LEMMA HoldsKeeps ==
    ASSUME DbConstants, HandleInv, pc \in Inside,
           NEW k \in {"cursor", "params", "columns"}, Holds(k),
           pc' \in Inside \cup {"return"}, meta' = meta,
           out_buf' \in {"empty", "partial", "whole", "error"}, ok' \in BOOLEAN
    PROVE  HandleInv'
<1>1. hstmt # NoHandle /\ hstmt = tl_hstmt[db] /\ db \in Dbs
  BY Zenon DEF HandleInv, LocalInv, TypeOK
<1>2. hstmt \in live /\ hstmt \in Handles
  BY <1>1, Zenon DEF HandleInv, Cached, TypeOK
<1>3. /\ dirty' = [dirty EXCEPT ![hstmt] = @ \cup {k}]
      /\ UNCHANGED <<tl_hdbc, tl_hstmt, live, owner, registered, op, db, hstmt, native, own, lost>>
  BY Zenon DEF Holds, cached, call
<1>4. ~misuse'
  BY <1>2, Zenon DEF Holds, Uses, HandleInv
<1>5. dirty' \in [Handles -> SUBSET {"cursor", "params", "columns"}]
  BY <1>2, <1>3, Zenon DEF HandleInv, TypeOK
<1>6. misuse' \in BOOLEAN
  BY Zenon DEF Holds, Uses
<1>7. TypeOK'
  BY <1>3, <1>5, <1>6, Zenon DEF HandleInv, TypeOK, Inside, NoHandles
<1>8. \A h \in Handles : h # hstmt => dirty'[h] = dirty[h]
  BY <1>3, Zenon DEF HandleInv, TypeOK
<1>9. Cached'
  BY <1>2, <1>3, <1>8 DEF HandleInv, Cached
<1>10. LocalInv'
  BY <1>1, <1>3, <1>8, Zenon DEF HandleInv, LocalInv, Inside, Leaving
<1> QED
  BY <1>4, <1>7, <1>9, <1>10, Zenon DEF HandleInv

\* A loop that ends.
LEMMA GoesKeeps ==
    ASSUME HandleInv, pc \in Inside, NEW l \in Inside \cup {"abandon"}, Goes(l),
           meta' \in {meta, hstmt}
    PROVE  HandleInv'
<1>1. /\ pc' = l
      /\ UNCHANGED <<tl_hdbc, tl_hstmt, live, owner, dirty, registered, op, db, hstmt,
                     native, own, lost, out_buf, ok, misuse>>
  BY Zenon DEF Goes, cached, driver, call
<1>2. TypeOK'
  BY <1>1, Zenon DEF HandleInv, TypeOK, Inside, NoHandles
<1>3. Cached'
  BY <1>1, Zenon DEF HandleInv, Cached
<1>4. LocalInv'
  BY <1>1, Zenon DEF HandleInv, LocalInv, Inside, Leaving
<1> QED
  BY <1>1, <1>2, <1>3, <1>4, Zenon DEF HandleInv

\* A call on the statement that fails: the connection is reset, or all is as
\* it was.
LEMMA ErrsKeeps ==
    ASSUME DbConstants, HandleInv, pc \in Inside, db_set_error(hstmt), pc' \in Leaving,
           UNCHANGED <<registered, call, hstmt, ok>>, meta' \in {meta, hstmt, NoHandle},
           out_buf' \in {"empty", "partial", "whole", "error"}
    PROVE  HandleInv'
<1>1. hstmt # NoHandle /\ hstmt = tl_hstmt[db] /\ db \in Dbs
  BY Zenon DEF HandleInv, LocalInv, TypeOK
<1>2. hstmt \in live /\ hstmt \in Handles
  BY <1>1, Zenon DEF HandleInv, Cached, TypeOK
<1>3. UNCHANGED <<registered, op, db, hstmt, ok>>
  BY Zenon DEF call
<1>4. native' \in BOOLEAN /\ own' \in BOOLEAN
  BY Zenon DEF db_set_error, Diagnostics
<1>5. CASE db_reset_connection({db}) /\ lost' = TRUE
  <2>1. /\ Cached'
        /\ tl_hdbc' \in [Dbs -> NoHandles] /\ tl_hstmt' \in [Dbs -> NoHandles]
        /\ live' \subseteq live
        /\ owner' \in [Handles -> NoHandles]
        /\ dirty' \in [Handles -> SUBSET {"cursor", "params", "columns"}]
        /\ misuse' = misuse
        /\ tl_hdbc'[db] = NoHandle /\ tl_hstmt'[db] = NoHandle
        /\ tl_hstmt[db] \notin live'
        /\ \A h \in Handles : dirty'[h] # {} => dirty[h] # {}
    BY <1>3, <1>5, ResetOne, Zenon DEF HandleInv
  <2>2. TypeOK'
    BY <1>3, <1>4, <1>5, <2>1, Zenon DEF HandleInv, TypeOK, Leaving, NoHandles
  <2>3. LocalInv'
    BY <1>1, <1>3, <1>5, <2>1, Zenon DEF HandleInv, LocalInv, Inside, Leaving
  <2> QED
    BY <2>1, <2>2, <2>3, Zenon DEF HandleInv
<1>6. CASE Uses(hstmt) /\ UNCHANGED <<cached, driver, lost>>
  <2>1. UNCHANGED <<tl_hdbc, tl_hstmt, live, owner, dirty, lost>>
    BY <1>6, Zenon DEF cached, driver
  <2>2. misuse' \in BOOLEAN /\ ~misuse'
    BY <1>2, <1>6, Zenon DEF Uses, HandleInv
  <2>3. TypeOK'
    BY <1>3, <1>4, <2>1, <2>2, Zenon DEF HandleInv, TypeOK, Leaving, NoHandles
  <2>4. Cached'
    BY <1>3, <2>1 DEF HandleInv, Cached
  <2>5. LocalInv'
    BY <1>1, <1>3, <2>1, Zenon DEF HandleInv, LocalInv, Inside, Leaving
  <2> QED
    BY <2>2, <2>3, <2>4, <2>5, Zenon DEF HandleInv
<1> QED
  BY <1>5, <1>6, Zenon DEF db_set_error

----------------------------------------------------------------------------
(* Every step keeps the handles sound *)

\* Making the connection and the statement of a call.
LEMMA OpeningKeeps ==
    ASSUME DbConstants, HandleInv,
           \/ begin \/ db_connect_cached \/ db_connect \/ db_connect_fails
           \/ db_alloc_stmt_cached \/ db_alloc_stmt \/ db_alloc_stmt_fails
    PROVE  HandleInv'
<1> USE DEF HandleInv
<1>1. db \in Dbs /\ live \subseteq Handles /\ NoHandle \notin Handles
  BY Zenon DEF TypeOK, DbConstants
<1>2. CASE begin
  <2>1. UNCHANGED <<tl_hdbc, tl_hstmt, live, owner, dirty, registered, misuse>>
    BY <1>2, Zenon DEF begin, cached, driver
  <2>2. native' \in BOOLEAN
    BY <1>2, Zenon DEF begin, fresh_error, TypeOK
  <2>3. TypeOK'
    BY <1>2, <2>1, <2>2, Zenon DEF begin, TypeOK, NoHandles
  <2>4. Cached'
    BY <2>1, Zenon DEF Cached
  <2>5. LocalInv'
    BY <1>2, <2>1, Zenon DEF begin, LocalInv, Inside, Leaving
  <2> QED
    BY <2>1, <2>3, <2>4, <2>5, Zenon
<1>3. CASE db_connect_cached
  <2>1. UNCHANGED <<tl_hdbc, tl_hstmt, live, owner, dirty, registered, op, db, hstmt, meta,
                    native, own, lost, out_buf, ok, misuse>>
    BY <1>3, Zenon DEF db_connect_cached, cached, driver, call
  <2>2. TypeOK'
    BY <1>3, <2>1, Zenon DEF db_connect_cached, TypeOK
  <2>3. Cached'
    BY <2>1, Zenon DEF Cached
  <2>4. LocalInv'
    BY <1>3, <2>1 DEF db_connect_cached, LocalInv, Inside, Leaving
  <2> QED
    BY <2>1, <2>2, <2>3, <2>4, Zenon
<1>4. CASE db_connect
  <2>1. PICK h \in Free : live' = live \cup {h} /\ tl_hdbc' = [tl_hdbc EXCEPT ![db] = h]
    BY <1>4, Zenon DEF db_connect
  <2>2. UNCHANGED <<tl_hstmt, owner, dirty, op, db, hstmt, meta, native, own, lost, out_buf,
                    ok, misuse>>
    BY <1>4, Zenon DEF db_connect, call
  <2>3. h \in Handles /\ h \notin live /\ h # NoHandle /\ owner[h] = NoHandle
    BY <1>1, <2>1, Zenon DEF Free, Cached
  <2>4. tl_hdbc[db] = NoHandle /\ tl_hstmt[db] = NoHandle
    BY <1>1, <1>4, Zenon DEF db_connect, Cached
  <2>5. tl_hdbc'[db] = h /\ \A d \in Dbs : d # db => tl_hdbc'[d] = tl_hdbc[d] /\ tl_hdbc[d] # h
    BY <1>1, <2>1, <2>3, Zenon DEF TypeOK, Cached
  <2>6. TypeOK'
    BY <1>1, <1>4, <2>1, <2>2, <2>3 DEF db_connect, TypeOK, NoHandles
  <2>7. Cached'
    BY <1>1, <1>4, <2>1, <2>2, <2>3, <2>4, <2>5 DEF db_connect, Cached
  <2>8. LocalInv'
    BY <1>4, <2>2, <2>3, <2>5 DEF db_connect, LocalInv, Inside, Leaving
  <2> QED
    BY <2>2, <2>6, <2>7, <2>8, Zenon
<1>5. CASE db_connect_fails
  <2>1. UNCHANGED <<tl_hdbc, tl_hstmt, live, owner, dirty, registered, op, db, hstmt, meta,
                    lost, out_buf, ok, misuse>>
    BY <1>5, Zenon DEF db_connect_fails, cached, driver, call
  <2>2. native' \in BOOLEAN /\ own' \in BOOLEAN /\ pc' \in {"failed", "return"}
    BY <1>5, Zenon DEF db_connect_fails, Diagnostics, Failure
  <2>3. TypeOK'
    BY <2>1, <2>2, Zenon DEF TypeOK
  <2>4. Cached'
    BY <2>1, Zenon DEF Cached
  <2>5. tl_hstmt[db] = NoHandle
    BY <1>1, <1>5, Zenon DEF db_connect_fails, Cached
  <2>6. LocalInv'
    BY <1>5, <2>1, <2>2, <2>5, Zenon DEF db_connect_fails, LocalInv, Inside, Leaving
  <2> QED
    BY <2>1, <2>3, <2>4, <2>6, Zenon
<1>6. CASE db_alloc_stmt_cached
  <2>1. UNCHANGED <<tl_hdbc, tl_hstmt, live, owner, dirty, registered, op, db, meta,
                    native, own, lost, out_buf, ok, misuse>>
    BY <1>6, Zenon DEF db_alloc_stmt_cached, cached, driver, call
  <2>2. TypeOK'
    BY <1>6, <2>1, Zenon DEF db_alloc_stmt_cached, TypeOK
  <2>3. Cached'
    BY <2>1, Zenon DEF Cached
  <2>4. LocalInv'
    BY <1>6, <2>1 DEF db_alloc_stmt_cached, LocalInv, Inside, Leaving
  <2> QED
    BY <2>1, <2>2, <2>3, <2>4, Zenon
<1>7. CASE db_alloc_stmt
  <2>1. PICK h \in Free : /\ live' = live \cup {h}
                          /\ owner' = [owner EXCEPT ![h] = tl_hdbc[db]]
                          /\ tl_hstmt' = [tl_hstmt EXCEPT ![db] = h]
                          /\ hstmt' = h
    BY <1>7, Zenon DEF db_alloc_stmt
  <2>2. UNCHANGED <<tl_hdbc, dirty, registered, op, db, meta, native, own, lost, out_buf, ok>>
    BY <1>7, Zenon DEF db_alloc_stmt, call
  <2>3. h \in Handles /\ h \notin live /\ h # NoHandle
    BY <1>1, <2>1, Zenon DEF Free
  <2>4. tl_hdbc[db] # NoHandle /\ tl_hdbc[db] \in live /\ hstmt = NoHandle
    BY <1>1, <1>7, Zenon DEF db_alloc_stmt, LocalInv, Cached
  <2>5. misuse' \in BOOLEAN /\ ~misuse'
    BY <1>7, <2>4, Zenon DEF db_alloc_stmt, Uses
  <2>6. /\ tl_hstmt'[db] = h
        /\ \A d \in Dbs : d # db => tl_hstmt'[d] = tl_hstmt[d]
        /\ \A d \in Dbs : d # db => tl_hstmt[d] # h
        /\ \A d \in Dbs : tl_hdbc[d] # h
    BY <1>1, <2>1, <2>3 DEF TypeOK, Cached
  <2>7. owner'[h] = tl_hdbc[db] /\ \A x \in Handles : x # h => owner'[x] = owner[x]
    BY <2>1, <2>3, Zenon DEF TypeOK
  <2>8. TypeOK'
    BY <1>1, <1>7, <2>1, <2>2, <2>3, <2>5 DEF db_alloc_stmt, TypeOK, NoHandles
  <2>9. Cached'
    <3>1. tl_hdbc[db] # NoHandle /\ tl_hstmt[db] = NoHandle
      BY <1>7, <2>4, Zenon DEF db_alloc_stmt
    <3> QED
      BY <1>1, <2>1, <2>2, <2>3, <2>6, <2>7, <3>1 DEF Cached
  <2>10. LocalInv'
    BY <1>7, <2>1, <2>2, <2>3, <2>4, <2>6 DEF db_alloc_stmt, LocalInv, Inside, Leaving
  <2> QED
    BY <2>5, <2>8, <2>9, <2>10, Zenon
<1>8. CASE db_alloc_stmt_fails
  <2>1. /\ db_reset_connection({db})
        /\ UNCHANGED <<registered, op, db, hstmt, meta, out_buf, ok>>
        /\ lost' \in BOOLEAN
    BY <1>8, Zenon DEF db_alloc_stmt_fails, call
  <2>2. native' \in BOOLEAN /\ own' \in BOOLEAN /\ pc' \in {"failed", "return"}
    BY <1>8, Zenon DEF db_alloc_stmt_fails, Diagnostics, Failure
  <2>3. /\ Cached'
        /\ tl_hdbc' \in [Dbs -> NoHandles] /\ tl_hstmt' \in [Dbs -> NoHandles]
        /\ live' \subseteq live
        /\ owner' \in [Handles -> NoHandles]
        /\ dirty' \in [Handles -> SUBSET {"cursor", "params", "columns"}]
        /\ misuse' = misuse
        /\ tl_hdbc'[db] = NoHandle /\ tl_hstmt'[db] = NoHandle
        /\ tl_hstmt[db] \notin live'
        /\ \A h \in Handles : dirty'[h] # {} => dirty[h] # {}
    BY <2>1, ResetOne, Zenon
  <2>4. TypeOK'
    BY <2>1, <2>2, <2>3, Zenon DEF TypeOK, NoHandles
  <2>5. LocalInv'
    BY <1>8, <2>1, <2>2, <2>3, Zenon DEF db_alloc_stmt_fails, LocalInv, Inside, Leaving
  <2> QED
    BY <2>3, <2>4, <2>5, Zenon
<1> QED
  BY <1>2, <1>3, <1>4, <1>5, <1>6, <1>7, <1>8, Zenon

\* The steps of a call on its statement: each is a success, the end of a loop
\* or a failure.
LEMMA UsingKeeps ==
    ASSUME DbConstants, HandleInv,
           \/ db_bind_param \/ bind_output_columns \/ execute
           \/ fetch_single_row \/ db_fetch_json_native
           \/ alloc_metadata_cols \/ odbc_bind_resultset_metadata \/ fetch_resultset_array
           \/ db_fetch_jsonm_native
    PROVE  HandleInv'
<1> DEFINE Outputs == {"empty", "partial", "whole", "error"}
<1>1. pc \in Inside
  BY Zenon DEF db_bind_param, bind_output_columns, execute, fetch_single_row, db_fetch_json_native,
         alloc_metadata_cols, odbc_bind_resultset_metadata, fetch_resultset_array,
         db_fetch_jsonm_native, Inside
<1>2. out_buf \in Outputs /\ ok \in BOOLEAN /\ op \in Ops
  BY Zenon DEF HandleInv, TypeOK
<1>3. ASSUME NEW k \in {"cursor", "params", "columns"}, Holds(k), pc' \in Inside \cup {"return"},
             meta' = meta, out_buf' \in Outputs, ok' \in BOOLEAN
      PROVE  HandleInv'
  BY <1>1, <1>3, HoldsKeeps, Zenon
<1>4. ASSUME NEW l \in Inside \cup {"abandon"}, Goes(l), meta' \in {meta, hstmt}
      PROVE  HandleInv'
  BY <1>1, <1>4, GoesKeeps, Zenon
<1>5. ASSUME NEW l \in Leaving, Errs(l), meta' \in {meta, hstmt, NoHandle}
      PROVE  HandleInv'
  <2>1. /\ db_set_error(hstmt) /\ pc' \in Leaving /\ out_buf' \in Outputs
        /\ UNCHANGED <<registered, call, hstmt, ok>>
    BY <1>2, <1>5, Zenon DEF Errs
  <2> QED
    BY <1>1, <1>5, <2>1, ErrsKeeps, Zenon
<1>6. Failure \in Leaving
  BY Zenon DEF Failure, Leaving
<1>7. CASE db_bind_param
  <2>1. meta' = meta /\ pc = "bind"
    BY <1>7, Zenon DEF db_bind_param
  <2>2. CASE Holds("params") /\ UNCHANGED <<pc, out_buf, ok>>
    BY <1>1, <1>2, <1>3, <2>1, <2>2, Zenon
  <2>3. CASE Goes(IF op = "single_row" THEN "columns" ELSE "execute")
    <3>1. (IF op = "single_row" THEN "columns" ELSE "execute") \in Inside
      BY Zenon DEF Inside
    <3> QED
      BY <1>4, <2>1, <2>3, <3>1, Zenon
  <2>4. CASE Errs(Failure)
    BY <1>5, <1>6, <2>1, <2>4, Zenon
  <2> QED
    BY <1>7, <2>2, <2>3, <2>4, Zenon DEF db_bind_param
<1>8. CASE bind_output_columns
  <2>1. meta' = meta
    BY <1>8, Zenon DEF bind_output_columns
  <2>2. CASE Holds("columns") /\ UNCHANGED <<pc, out_buf, ok>>
    BY <1>1, <1>2, <1>3, <2>1, <2>2, Zenon
  <2>3. CASE Goes("execute")
    BY <1>4, <2>1, <2>3, Zenon DEF Inside
  <2>4. CASE Errs("return")
    BY <1>5, <2>1, <2>4, Zenon DEF Leaving
  <2> QED
    BY <1>8, <2>2, <2>3, <2>4, Zenon DEF bind_output_columns
<1>9. CASE execute
  <2>1. meta' = meta
    BY <1>9, Zenon DEF execute
  <2>2. CASE /\ Holds("cursor")
             /\ pc' = CASE op \in {"json", "single_row"} -> "fetch"
                        [] op = "rs2json" -> "metadata"
                        [] op = "rs2json_m" -> "more"
                        [] op = "exec" -> "return"
             /\ ok' = (op = "exec")
             /\ UNCHANGED out_buf
    <3>1. pc' \in {"fetch", "metadata", "more", "return"}
      BY <1>2, <2>2, Zenon DEF Ops, Fetching
    <3>2. ok' \in BOOLEAN /\ out_buf' \in Outputs
      BY <1>2, <2>2, Zenon
    <3> QED
      BY <1>3, <2>1, <2>2, <3>1, <3>2, Zenon DEF Inside
  <2>3. CASE Errs(Failure)
    BY <1>5, <1>6, <2>1, <2>3, Zenon
  <2> QED
    BY <1>9, <2>2, <2>3, Zenon DEF execute
<1>10. CASE fetch_single_row
  <2>1. meta' = meta
    BY <1>10, Zenon DEF fetch_single_row
  <2>2. CASE Holds("cursor") /\ pc' = "return" /\ ok' = TRUE /\ UNCHANGED out_buf
    BY <1>2, <1>3, <2>1, <2>2, Zenon
  <2>3. CASE Errs("return")
    BY <1>5, <2>1, <2>3, Zenon DEF Leaving
  <2> QED
    BY <1>10, <2>2, <2>3, Zenon DEF fetch_single_row
<1>11. CASE db_fetch_json_native
  <2>1. meta' = meta
    BY <1>11, Zenon DEF db_fetch_json_native
  <2>2. CASE Holds("cursor") /\ out_buf' = "partial" /\ UNCHANGED <<pc, ok>>
    BY <1>1, <1>2, <1>3, <2>1, <2>2, Zenon
  <2>3. CASE Holds("cursor") /\ out_buf' = "whole" /\ ok' = TRUE /\ pc' = "return"
    BY <1>3, <2>1, <2>3, Zenon
  <2>4. CASE Errs("failed")
    BY <1>5, <2>1, <2>4, Zenon DEF Leaving
  <2> QED
    BY <1>11, <2>2, <2>3, <2>4, Zenon DEF db_fetch_json_native
<1>12. CASE alloc_metadata_cols
  <2>1. CASE Goes("destroy") /\ UNCHANGED meta
    BY <1>4, <2>1, Zenon DEF Inside
  <2>2. CASE Goes("bind_columns") /\ meta' = hstmt
    BY <1>4, <2>2, Zenon DEF Inside
  <2>3. CASE Goes("abandon") /\ meta' = hstmt
    BY <1>4, <2>3, Zenon
  <2>4. CASE Errs("abandon") /\ meta' \in {hstmt, NoHandle}
    BY <1>5, <2>4, Zenon DEF Leaving
  <2> QED
    BY <1>12, <2>1, <2>2, <2>3, <2>4, Zenon DEF alloc_metadata_cols
<1>13. CASE odbc_bind_resultset_metadata
  <2>1. meta' = meta
    BY <1>13, Zenon DEF odbc_bind_resultset_metadata
  <2>2. CASE Holds("columns") /\ pc' \in {"bind_columns", "fetch"} /\ UNCHANGED <<out_buf, ok>>
    BY <1>2, <1>3, <2>1, <2>2, Zenon DEF Inside
  <2>3. CASE Errs("abandon")
    BY <1>5, <2>1, <2>3, Zenon DEF Leaving
  <2> QED
    BY <1>13, <2>2, <2>3, Zenon DEF odbc_bind_resultset_metadata
<1>14. CASE fetch_resultset_array
  <2>1. meta' = meta
    BY <1>14, Zenon DEF fetch_resultset_array
  <2>2. CASE Holds("cursor") /\ out_buf' = "partial" /\ UNCHANGED <<pc, ok>>
    BY <1>1, <1>2, <1>3, <2>1, <2>2, Zenon
  <2>3. CASE Holds("cursor") /\ pc' = "destroy" /\ UNCHANGED <<out_buf, ok>>
    BY <1>2, <1>3, <2>1, <2>3, Zenon DEF Inside
  <2>4. CASE db_set_error(hstmt) /\ out_buf' = "partial" /\ pc' = "abandon"
             /\ UNCHANGED <<registered, call, hstmt, ok>>
    <3>1. pc' \in Leaving
      BY <2>4, Zenon DEF Leaving
    <3> QED
      BY <1>1, <2>1, <2>4, <3>1, ErrsKeeps, Zenon
  <2> QED
    BY <1>14, <2>2, <2>3, <2>4, Zenon DEF fetch_resultset_array
<1>15. CASE db_fetch_jsonm_native
  <2>1. meta' = meta
    BY <1>15, Zenon DEF db_fetch_jsonm_native
  <2>2. CASE Holds("cursor") /\ pc' = "metadata" /\ out_buf' = "partial" /\ UNCHANGED ok
    BY <1>2, <1>3, <2>1, <2>2, Zenon DEF Inside
  <2>3. CASE Holds("cursor") /\ pc' = "return" /\ out_buf' = "whole" /\ ok' = TRUE
    BY <1>3, <2>1, <2>3, Zenon
  <2>4. CASE Errs("failed")
    BY <1>5, <2>1, <2>4, Zenon DEF Leaving
  <2> QED
    BY <1>15, <2>2, <2>3, <2>4, Zenon DEF db_fetch_jsonm_native
<1> QED
  BY <1>7, <1>8, <1>9, <1>10, <1>11, <1>12, <1>13, <1>14, <1>15, Zenon

\* A statement that is valid is one the driver has allocated.
LEMMA ValidIsLive ==
    ASSUME Cached, NEW h, db_is_valid_stmt(h)
    PROVE  h \in live
BY Zenon DEF db_is_valid_stmt, Cached

\* The way out of a call.
LEMMA ClosingKeeps ==
    ASSUME DbConstants, HandleInv, metadata_destroy \/ check_error \/ db_cleanup_stmt
    PROVE  HandleInv'
<1> USE DEF HandleInv
<1>1. CASE metadata_destroy
  <2>1. /\ UNCHANGED <<tl_hdbc, tl_hstmt, live, owner, registered, op, db, hstmt, native, own, lost>>
        /\ meta' = NoHandle
    BY <1>1, Zenon DEF metadata_destroy, cached, call
  <2>2. /\ misuse' \in BOOLEAN /\ ~misuse'
        /\ dirty' \in [Handles -> SUBSET {"cursor", "params", "columns"}]
        /\ \A h \in Handles : dirty'[h] \subseteq dirty[h]
    <3>1. CASE db_is_valid_stmt(meta) /\ Uses(meta) /\ dirty' = [dirty EXCEPT ![meta] = @ \ {"columns"}]
      <4>1. meta \in live
        BY <3>1, ValidIsLive, Zenon
      <4>2. meta \in Handles
        BY <4>1, Zenon DEF TypeOK
      <4>3. misuse' \in BOOLEAN /\ ~misuse'
        BY <3>1, <4>1, Zenon DEF Uses
      <4> QED
        BY <3>1, <4>2, <4>3, Zenon DEF TypeOK
    <3>2. CASE UNCHANGED <<dirty, misuse>>
      BY <3>2, Zenon DEF TypeOK
    <3> QED
      BY <1>1, <3>1, <3>2, Zenon DEF metadata_destroy
  <2>3. \/ pc = "abandon" /\ pc' = "failed" /\ UNCHANGED <<out_buf, ok>>
        \/ pc = "destroy" /\ pc' = "return" /\ out_buf' = "whole" /\ ok' = TRUE
        \/ pc = "destroy" /\ pc' = "more" /\ UNCHANGED <<out_buf, ok>>
    BY <1>1, Zenon DEF metadata_destroy
  <2>4. TypeOK'
    BY <2>1, <2>2, <2>3, Zenon DEF TypeOK, NoHandles
  <2>5. Cached'
    BY <2>1, <2>2, Zenon DEF Cached
  <2>6. LocalInv'
    BY <2>1, <2>2, <2>3, Zenon DEF LocalInv, Inside, Leaving
  <2> QED
    BY <2>2, <2>4, <2>5, <2>6, Zenon
<1>2. CASE check_error
  <2>1. UNCHANGED <<tl_hdbc, tl_hstmt, live, owner, dirty, registered, op, db, hstmt, meta,
                    native, own, lost, ok, misuse>>
    BY <1>2, Zenon DEF check_error, cached, driver, call
  <2>2. TypeOK'
    BY <1>2, <2>1, Zenon DEF check_error, TypeOK
  <2>3. Cached'
    BY <2>1, Zenon DEF Cached
  <2>4. LocalInv'
    BY <1>2, <2>1 DEF check_error, LocalInv, Inside, Leaving
  <2> QED
    BY <2>1, <2>2, <2>3, <2>4, Zenon
<1>3. CASE db_cleanup_stmt
  <2>1. /\ UNCHANGED <<tl_hdbc, tl_hstmt, live, owner, registered, op, db, hstmt, meta, native,
                       own, lost, out_buf, ok>>
        /\ pc = "return" /\ pc' = "idle" /\ db \in Dbs
    BY <1>3, Zenon DEF db_cleanup_stmt, cached, call, TypeOK
  <2>2. /\ misuse' \in BOOLEAN /\ ~misuse'
        /\ dirty' \in [Handles -> SUBSET {"cursor", "params", "columns"}]
        /\ \A h \in Handles : dirty'[h] = {}
    <3>1. \A h \in Handles : h # hstmt => dirty[h] = {}
      BY Zenon DEF LocalInv
    <3>2. CASE db_is_valid_stmt(hstmt) /\ Uses(hstmt) /\ dirty' = [dirty EXCEPT ![hstmt] = Cleaned(@)]
      <4>1. hstmt \in live
        BY <3>2, ValidIsLive, Zenon
      <4>2. hstmt \in Handles
        BY <4>1, Zenon DEF TypeOK
      <4>3. misuse' \in BOOLEAN /\ ~misuse'
        BY <3>2, <4>1, Zenon DEF Uses
      <4> QED
        BY <3>1, <3>2, <4>2, <4>3, Zenon DEF TypeOK, Cleaned
    <3>3. CASE ~db_is_valid_stmt(hstmt) /\ UNCHANGED <<dirty, misuse>>
      <4>1. hstmt = NoHandle \/ hstmt \notin live
        BY <2>1, <3>3, Zenon DEF db_is_valid_stmt, LocalInv, Leaving
      <4>2. \A h \in Handles : dirty[h] = {}
        BY <3>1, <4>1 DEF Cached, DbConstants
      <4> QED
        BY <3>3, <4>2, Zenon DEF TypeOK
    <3> QED
      BY <1>3, <3>2, <3>3, Zenon DEF db_cleanup_stmt
  <2>3. TypeOK'
    BY <2>1, <2>2, Zenon DEF TypeOK, NoHandles
  <2>4. Cached'
    BY <2>1, <2>2, Zenon DEF Cached
  <2>5. LocalInv'
    BY <2>1, <2>2, Zenon DEF LocalInv, Inside, Leaving
  <2> QED
    BY <2>2, <2>3, <2>4, <2>5, Zenon
<1> QED
  BY <1>1, <1>2, <1>3, Zenon

\* The end of the thread: every handle the driver has is one of the thread's,
\* so the destructor leaves none.
LEMMA ExitKeeps ==
    ASSUME DbConstants, HandleInv, tl_hdbc_destructor
    PROVE  HandleInv'
<1> USE DEF HandleInv
<1>1. /\ UNCHANGED <<registered, op, db, hstmt, meta, native, own, lost, out_buf, ok>>
      /\ pc = "idle" /\ pc' = "exited"
  BY Zenon DEF tl_hdbc_destructor, call
<1>2. \A h \in Handles : dirty[h] = {}
  BY <1>1, Zenon DEF LocalInv, Inside, Leaving
<1>3. CASE registered /\ db_reset_connection(Dbs)
  <2> DEFINE freed == ({tl_hdbc[d] : d \in Dbs} \ {NoHandle})
                      \cup ({tl_hstmt[d] : d \in Dbs} \ {NoHandle})
             gone == freed \cup {s \in live : owner[s] \in ({tl_hdbc[d] : d \in Dbs} \ {NoHandle})}
  <2>1. /\ live' = live \ gone
        /\ owner' = [h \in Handles |-> IF h \in gone THEN NoHandle ELSE owner[h]]
        /\ dirty' = [h \in Handles |-> IF h \in gone THEN {} ELSE dirty[h]]
        /\ misuse' = (misuse \/ ~(freed \subseteq live))
    BY <1>3, Zenon DEF db_reset_connection
  <2>2. /\ tl_hdbc' = [d \in Dbs |-> NoHandle]
        /\ tl_hstmt' = [d \in Dbs |-> NoHandle]
    BY <1>3, Zenon DEF db_reset_connection
  <2>3. freed \subseteq live
    BY DEF Cached
  <2>4. live \subseteq freed
    BY DEF Cached, TypeOK, DbConstants
  <2>5. freed \subseteq gone
    BY Zenon
  <2> HIDE DEF gone, freed
  <2>6. live' = {} /\ misuse' \in BOOLEAN /\ ~misuse'
    BY <2>1, <2>3, <2>4, <2>5, Zenon
  <2>7. \A h \in Handles : owner'[h] = NoHandle /\ dirty'[h] = {}
    BY <1>2, <2>1, <2>4, <2>5, Zenon DEF Cached
  <2>8. TypeOK'
    BY <1>1, <2>1, <2>2, <2>6, Zenon DEF TypeOK, NoHandles
  <2>9. Cached'
    BY <2>2, <2>6, <2>7, Zenon DEF Cached
  <2>10. LocalInv'
    BY <1>1, <2>2, <2>6, <2>7, Zenon DEF LocalInv, Inside, Leaving, TypeOK
  <2> QED
    BY <2>6, <2>8, <2>9, <2>10, Zenon
<1>4. CASE ~registered /\ UNCHANGED <<cached, driver, misuse>>
  <2>1. UNCHANGED <<tl_hdbc, tl_hstmt, live, owner, dirty, misuse>>
    BY <1>4, Zenon DEF cached, driver
  <2>2. live = {}
    BY <1>4 DEF Cached, TypeOK, DbConstants
  <2>3. TypeOK'
    BY <1>1, <2>1, Zenon DEF TypeOK
  <2>4. Cached'
    BY <1>1, <2>1, Zenon DEF Cached
  <2>5. LocalInv'
    BY <1>1, <2>1, <2>2, Zenon DEF LocalInv, Inside, Leaving
  <2> QED
    BY <2>1, <2>3, <2>4, <2>5, Zenon
<1> QED
  BY <1>3, <1>4, Zenon DEF tl_hdbc_destructor

\* A step that changes nothing.
LEMMA StutterKeeps ==
    ASSUME HandleInv, UNCHANGED vars
    PROVE  HandleInv'
BY DEF HandleInv, TypeOK, Cached, LocalInv, vars, cached, driver, call, NoHandles, Inside, Leaving

\* Before the first call the thread has no handle.
LEMMA InitSound ==
    ASSUME Init
    PROVE  HandleInv
<1>1. TypeOK
  BY Zenon DEF Init, TypeOK, NoHandles, Ops
<1>2. Cached
  BY Zenon DEF Init, Cached
<1>3. LocalInv
  BY Zenon DEF Init, LocalInv, Inside, Leaving
<1> QED
  BY <1>1, <1>2, <1>3, Zenon DEF HandleInv, Init

\* What the inductive invariant says between calls.
LEMMA SoundBetweenCalls ==
    ASSUME DbConstants, HandleInv
    PROVE  DbInv
<1> USE DEF HandleInv
<1>1. HandlesPaired
  <2>1. \A d \in Dbs : tl_hstmt[d] # NoHandle => owner[tl_hstmt[d]] = tl_hdbc[d]
    BY Zenon DEF Cached
  <2>2. live = {h \in Handles : \E d \in Dbs : h \in {tl_hdbc[d], tl_hstmt[d]}}
    BY DEF Cached, TypeOK, DbConstants
  <2> QED
    BY <2>1, <2>2, Zenon DEF HandlesPaired, LocalInv
<1>2. StatementsClean
  BY Zenon DEF StatementsClean, LocalInv, Inside, Leaving
<1>3. LostIsForgotten
  BY Zenon DEF LostIsForgotten, LocalInv
<1> QED
  BY <1>1, <1>2, <1>3, Zenon DEF DbInv, HandlesLive

\* For any set of databases and of handles, and whatever ODBC call fails: no
\* call is made on a freed handle, and between calls the handles of a thread
\* are paired, clean, without leaks, and none of them is known to be lost.
THEOREM DbCorrect ==
    ASSUME DbConstants
    PROVE  Spec => []DbInv
<1>1. Init => HandleInv
  BY InitSound, Zenon
<1>2. HandleInv /\ [Next]_vars => HandleInv'
  <2> SUFFICES ASSUME HandleInv, [Next]_vars
               PROVE  HandleInv'
    BY Zenon
  <2>1. CASE begin \/ CallStep \/ db_cleanup_stmt \/ tl_hdbc_destructor
    BY <2>1, OpeningKeeps, UsingKeeps, ClosingKeeps, ExitKeeps, Zenon DEF CallStep
  <2>2. CASE UNCHANGED vars
    BY <2>2, StutterKeeps, Zenon
  <2> QED
    BY <2>1, <2>2, Zenon DEF Next
<1>3. HandleInv => DbInv
  BY SoundBetweenCalls, Zenon
<1> QED
  BY <1>1, <1>2, <1>3, PTL DEF Spec

----------------------------------------------------------------------------
(* Whose error it is *)

\* What the steps that can fail do to the two error flags: they stay equal.
LEMMA DiagnosticsAgree ==
    ASSUME Diagnostics, native = own
    PROVE  native' = own'
BY DEF Diagnostics

\* A step of a fetching call keeps its error its own.
LEMMA ErrorStep ==
    ASSUME ErrorInv, Next
    PROVE  ErrorInv'
<1>1. CASE begin
  BY <1>1, Zenon DEF begin, fresh_error, ErrorInv
<1>2. CASE tl_hdbc_destructor
  BY <1>2, Zenon DEF tl_hdbc_destructor, ErrorInv
<1>3. CASE pc = "exited" /\ UNCHANGED vars
  BY <1>3, Zenon DEF vars, call, ErrorInv
<1>4. CASE db_cleanup_stmt
  BY <1>4, Zenon DEF db_cleanup_stmt, call, ErrorInv
<1>5. CASE check_error
  BY <1>5, Zenon DEF check_error, call, ErrorInv
<1>6. CASE metadata_destroy
  BY <1>6, Zenon DEF metadata_destroy, call, ErrorInv
<1>7. CASE CallStep /\ ~check_error /\ ~metadata_destroy
  <2> SUFFICES ASSUME op' \in Fetching
               PROVE  ErrorInv'
    BY Zenon DEF ErrorInv
  <2>1. op' = op
    BY <1>7, Zenon DEF CallStep, db_connect_cached, db_connect, db_connect_fails, db_alloc_stmt_cached,
         db_alloc_stmt, db_alloc_stmt_fails, db_bind_param, bind_output_columns, execute,
         fetch_single_row, db_fetch_json_native, alloc_metadata_cols, odbc_bind_resultset_metadata,
         fetch_resultset_array, db_fetch_jsonm_native, Holds, Goes, Errs, call
  <2>2. op \in Fetching /\ op \notin {"single_row", "exec"}
    BY <2>1, Zenon DEF Fetching
  <2>3. CASE db_connect_cached \/ db_connect \/ db_alloc_stmt_cached \/ db_alloc_stmt
    BY <2>2, <2>3, Zenon DEF db_connect_cached, db_connect, db_alloc_stmt_cached, db_alloc_stmt, ErrorInv
  <2>4. CASE db_connect_fails \/ db_alloc_stmt_fails
    <3>1. Diagnostics /\ pc' = "failed" /\ out_buf' = out_buf /\ pc \in {"connect", "stmt"}
      BY <2>2, <2>4, Zenon DEF db_connect_fails, db_alloc_stmt_fails, Failure
    <3> QED
      BY <2>2, <3>1, DiagnosticsAgree, Zenon DEF ErrorInv
  <2>5. CASE /\ \E l \in {"failed", "abandon"} : db_set_error(hstmt) /\ pc' = l
             /\ pc \notin {"columns", "return", "idle", "exited"}
             /\ out_buf' \in {out_buf, "partial"}
    <3>1. native' = own' /\ pc' \in {"failed", "abandon"}
      BY <2>2, <2>5, DiagnosticsAgree, Zenon DEF db_set_error, ErrorInv
    <3> QED
      BY <2>2, <2>5, <3>1, Zenon DEF ErrorInv
  <2>6. CASE /\ UNCHANGED <<native, own>>
             /\ pc \notin {"columns", "return", "idle", "exited"}
             /\ out_buf' \in {out_buf, "partial"}
             /\ pc' \notin {"columns", "return", "idle", "exited"}
    BY <2>2, <2>6, Zenon DEF ErrorInv
  <2>7. CASE /\ UNCHANGED <<native, own>>
             /\ pc \notin {"columns", "return", "idle", "exited"}
             /\ ok' = TRUE /\ pc' = "return"
    BY <2>2, <2>7, Zenon DEF ErrorInv
  <2>8. CASE db_bind_param
    BY <2>2, <2>5, <2>6, <2>8, Zenon DEF db_bind_param, Holds, Goes, Errs, Failure
  <2>9. CASE bind_output_columns
    BY <2>2, <2>9, Zenon DEF bind_output_columns, ErrorInv
  <2>10. CASE execute
    <3>1. op \in {"json", "rs2json", "rs2json_m"}
      BY <2>2, Zenon DEF Fetching
    <3>2. CASE Errs(Failure)
      BY <2>2, <2>5, <2>10, <3>2, Zenon DEF execute, Errs, Failure
    <3>3. CASE Holds("cursor") /\ out_buf' = out_buf
               /\ pc' \in {"fetch", "metadata", "more"}
      BY <2>6, <2>10, <3>3, Zenon DEF execute, Holds
    <3> QED
      BY <2>10, <3>1, <3>2, <3>3, Zenon DEF execute
  <2>11. CASE fetch_single_row
    BY <2>2, <2>11, Zenon DEF fetch_single_row
  <2>12. CASE db_fetch_json_native
    BY <2>5, <2>6, <2>7, <2>12, Zenon DEF db_fetch_json_native, Holds, Errs
  <2>13. CASE alloc_metadata_cols
    BY <2>5, <2>6, <2>13, Zenon DEF alloc_metadata_cols, Goes, Errs
  <2>14. CASE odbc_bind_resultset_metadata
    BY <2>5, <2>6, <2>14, Zenon DEF odbc_bind_resultset_metadata, Holds, Errs
  <2>15. CASE fetch_resultset_array
    BY <2>5, <2>6, <2>15, Zenon DEF fetch_resultset_array, Holds
  <2>16. CASE db_fetch_jsonm_native
    BY <2>5, <2>6, <2>7, <2>16, Zenon DEF db_fetch_jsonm_native, Holds, Errs
  <2> QED
    BY <1>7, <2>3, <2>4, <2>8, <2>9, <2>10, <2>11, <2>12, <2>13, <2>14, <2>15, <2>16, Zenon DEF CallStep
<1> QED
  BY <1>1, <1>2, <1>3, <1>4, <1>5, <1>6, <1>7, Zenon DEF Next

\* For any set of databases and of handles: the error object a fetching call
\* returns stands for a native error of that call, and such an error is always
\* returned, whichever step met it.
THEOREM ErrorsAreOwn == Spec => []ErrorIsOwn
<1>1. Init => ErrorInv
  BY Zenon DEF Init, ErrorInv, Fetching
<1>2. ErrorInv /\ [Next]_vars => ErrorInv'
  <2>1. ErrorInv /\ UNCHANGED vars => ErrorInv'
    BY DEF ErrorInv, vars, call
  <2> QED
    BY <2>1, ErrorStep, Zenon
<1>3. ErrorInv => ErrorIsOwn
  BY DEF ErrorInv, ErrorIsOwn
<1> QED
  BY <1>1, <1>2, <1>3, PTL DEF Spec

----------------------------------------------------------------------------
(* What a call has written *)

\* The steps of a call do not change which call it is.
LEMMA CallStays ==
    ASSUME CallStep
    PROVE  op' = op /\ db' = db
BY Zenon DEF CallStep, db_connect_cached, db_connect, db_connect_fails, db_alloc_stmt_cached,
       db_alloc_stmt, db_alloc_stmt_fails, db_bind_param, bind_output_columns, execute,
       fetch_single_row, db_fetch_json_native, alloc_metadata_cols, odbc_bind_resultset_metadata,
       fetch_resultset_array, metadata_destroy, db_fetch_jsonm_native, check_error,
       Holds, Goes, Errs, call

\* Every step keeps the output and the result of a call in step.
LEMMA ResultStep ==
    ASSUME ResultInv, Next
    PROVE  ResultInv'
<1>1. CASE begin
  BY <1>1, Zenon DEF begin, ResultInv
<1>2. CASE tl_hdbc_destructor \/ db_cleanup_stmt
  <2>1. UNCHANGED <<op, out_buf, ok>> /\ pc' \in {"exited", "idle"}
    BY <1>2, Zenon DEF tl_hdbc_destructor, db_cleanup_stmt, call
  <2> QED
    BY <2>1, Zenon DEF ResultInv
<1>3. CASE pc = "exited" /\ UNCHANGED vars
  BY <1>3, Zenon DEF vars, call, ResultInv
<1>4. CASE CallStep
  <2>1. op' = op
    BY <1>4, CallStays, Zenon
  <2>2. CASE /\ pc \notin {"return", "idle", "exited"}
             /\ UNCHANGED <<out_buf, ok>>
             /\ pc' \in {"metadata", "bind_columns", "more", "destroy", "abandon", "failed"}
                   => op \in Fetching
    BY <2>1, <2>2, Zenon DEF ResultInv
  <2>3. CASE /\ pc \notin {"return", "idle", "exited"} /\ op \in Fetching
             /\ out_buf' \in {"partial", "error"} /\ ok' = ok
    BY <2>1, <2>3, Zenon DEF ResultInv
  <2>4. CASE op \in Fetching /\ out_buf' = "whole" /\ ok' = TRUE /\ pc' = "return"
    BY <2>1, <2>4, Zenon DEF ResultInv
  <2>5. CASE /\ pc \notin {"return", "idle", "exited"} /\ op \notin Fetching
             /\ ok' = TRUE /\ pc' = "return" /\ out_buf' = out_buf
    BY <2>1, <2>5, Zenon DEF ResultInv
  <2>6. CASE db_connect_cached \/ db_connect \/ db_connect_fails \/ db_alloc_stmt_cached
             \/ db_alloc_stmt \/ db_alloc_stmt_fails
    BY <2>2, <2>6, Zenon DEF db_connect_cached, db_connect, db_connect_fails,
       db_alloc_stmt_cached, db_alloc_stmt, db_alloc_stmt_fails, Failure
  <2>7. CASE db_bind_param \/ bind_output_columns
    BY <2>2, <2>7, Zenon DEF db_bind_param, bind_output_columns, Holds, Goes, Errs, Failure
  <2>8. CASE execute
    <3>1. ASSUME Errs(Failure)
          PROVE  ResultInv'
      BY <2>2, <2>8, <3>1, Zenon DEF execute, Errs, Failure
    <3>2. CASE op = "exec" /\ pc' = "return" /\ ok' = TRUE /\ out_buf' = out_buf
      BY <2>5, <2>8, <3>2, Zenon DEF execute, Fetching
    <3>3. CASE /\ op # "exec" /\ ok' = FALSE /\ out_buf' = out_buf
               /\ pc' = CASE op \in {"json", "single_row"} -> "fetch"
                          [] op = "rs2json" -> "metadata"
                          [] op = "rs2json_m" -> "more"
                          [] op = "exec" -> "return"
      <4>0. pc = "execute"
        BY <2>8, Zenon DEF execute
      <4>1. op \in {"json", "rs2json", "rs2json_m", "single_row", "exec"}
        BY Zenon DEF ResultInv, Ops, Fetching
      <4>2. CASE op = "json" \/ op = "single_row"
        <5>1. pc' = "fetch"
          BY <3>3, <4>2
        <5> QED
          BY <2>1, <3>3, <4>0, <5>1, Zenon DEF ResultInv
      <4>3. CASE op = "rs2json" \/ op = "rs2json_m"
        BY <2>1, <3>3, <4>0, <4>3, Zenon DEF ResultInv, Fetching
      <4> QED
        BY <3>3, <4>1, <4>2, <4>3, Zenon
    <3>4. ASSUME ~Errs(Failure)
          PROVE  /\ ok' = (op = "exec") /\ out_buf' = out_buf
                 /\ pc' = CASE op \in {"json", "single_row"} -> "fetch"
                            [] op = "rs2json" -> "metadata"
                            [] op = "rs2json_m" -> "more"
                            [] op = "exec" -> "return"
                 /\ op = "exec" => pc' = "return"
      <4>1. /\ ok' = (op = "exec") /\ out_buf' = out_buf
            /\ pc' = CASE op \in {"json", "single_row"} -> "fetch"
                       [] op = "rs2json" -> "metadata"
                       [] op = "rs2json_m" -> "more"
                       [] op = "exec" -> "return"
        BY <2>8, <3>4, Zenon DEF execute
      <4>2. op = "exec" => pc' = "return"
        BY <4>1
      <4> QED
        BY <4>1, <4>2, Zenon
    <3>5. (op = "exec") = TRUE \/ (op # "exec" /\ (op = "exec") = FALSE)
      OBVIOUS
    <3> QED
      BY <3>1, <3>2, <3>3, <3>4, <3>5, Zenon
  <2>9. CASE fetch_single_row
    BY <2>2, <2>5, <2>9, Zenon DEF fetch_single_row, Errs, Fetching
  <2>10. CASE db_fetch_json_native
    BY <2>2, <2>3, <2>4, <2>10, Zenon DEF db_fetch_json_native, Errs, Fetching
  <2>11. CASE alloc_metadata_cols
    BY <2>2, <2>11, Zenon DEF alloc_metadata_cols, Goes, Errs, ResultInv
  <2>12. CASE odbc_bind_resultset_metadata
    BY <2>2, <2>12, Zenon DEF odbc_bind_resultset_metadata, Errs, ResultInv
  <2>13. CASE fetch_resultset_array
    BY <2>2, <2>3, <2>13, Zenon DEF fetch_resultset_array, Fetching
  <2>14. CASE metadata_destroy
    BY <2>2, <2>4, <2>14, Zenon DEF metadata_destroy, ResultInv
  <2>15. CASE db_fetch_jsonm_native
    BY <2>2, <2>3, <2>4, <2>15, Zenon DEF db_fetch_jsonm_native, Errs, ResultInv
  <2>16. CASE check_error
    BY <2>2, <2>3, <2>16, Zenon DEF check_error, ResultInv
  <2> QED
    BY <1>4, <2>6, <2>7, <2>8, <2>9, <2>10, <2>11, <2>12, <2>13, <2>14, <2>15, <2>16, Zenon DEF CallStep
<1> QED
  BY <1>1, <1>2, <1>3, <1>4, Zenon DEF Next

\* For any set of databases and of handles: a call that reports success has
\* written the whole of what it fetches, and one that fails never passes for
\* it (db_execute_and_fetch, db_query_single_row, db_exec).
THEOREM ResultsWhole == Spec => []ResultInv
<1>1. Init => ResultInv
  <2>1. "exec" \in Ops
    BY Zenon DEF Ops
  <2> QED
    BY <2>1, Zenon DEF Init, ResultInv
<1>2. ResultInv /\ [Next]_vars => ResultInv'
  <2>1. ResultInv /\ UNCHANGED vars => ResultInv'
    BY DEF ResultInv, vars, call
  <2> QED
    BY <2>1, ResultStep, Zenon
<1> QED
  BY <1>1, <1>2, PTL DEF Spec
=============================================================================
