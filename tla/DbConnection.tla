---------------------------- MODULE DbConnection ----------------------------
(***************************************************************************)
(* The database access of lib/dbapi.c on one worker thread.  The thread    *)
(* keeps, for each database, a connection handle and one statement handle  *)
(* for reuse.  Any ODBC call may fail; a failure whose diagnostics say that*)
(* the connection is lost makes db_set_error free both handles under the   *)
(* feet of the functions that still hold the statement in a local          *)
(* variable.  The driver may give a freed handle out again.                *)
(*                                                                         *)
(* Every ODBC call that can fail is a step; rows and columns are left out, *)
(* except for whether the output holds a whole document, a part of one, or *)
(* an error object.                                                        *)
(***************************************************************************)
EXTENDS Integers

CONSTANTS Dbs,        \* the DbConnectionIds
          Handles,    \* the handles the driver gives out
          NoHandle    \* SQL_NULL_HDBC, SQL_NULL_HSTMT

\* NoHandle is none of the handles.
DbConstants == NoHandle \notin Handles

Fetching == {"json", "rs2json", "rs2json_m"}   \* through db_execute_and_fetch
Ops == Fetching \cup {"single_row", "exec"}

VARIABLES tl_hdbc, tl_hstmt,  \* the thread's handles
          live,               \* driver: the allocated handles
          owner,              \* driver: the connection of each statement
          dirty,              \* driver: what a statement holds on to
          registered,         \* whether the thread's destructor is set
          pc, op, db,         \* the call being made
          hstmt, meta,        \* its local statement, and meta.hstmt
          native,             \* tl_last_native_error >= 50000
          own,                \* history: whether this call met such an error
          lost,               \* history: whether it met a lost connection
          out_buf, ok,        \* what it wrote, and its result
          misuse              \* a handle was used that is not allocated

driver == <<live, owner, dirty>>
cached == <<tl_hdbc, tl_hstmt>>
call == <<op, db>>
vars == <<cached, driver, registered, pc, call, hstmt, meta, native, own, lost,
          out_buf, ok, misuse>>

NoHandles == Handles \cup {NoHandle}

TypeOK ==
    /\ tl_hdbc \in [Dbs -> NoHandles] /\ tl_hstmt \in [Dbs -> NoHandles]
    /\ live \subseteq Handles
    /\ owner \in [Handles -> NoHandles]
    /\ dirty \in [Handles -> SUBSET {"cursor", "params", "columns"}]
    /\ pc \in {"idle", "connect", "stmt", "bind", "columns", "execute", "fetch", "metadata",
               "bind_columns", "more", "destroy", "abandon", "failed", "return", "exited"}
    /\ op \in Ops /\ db \in Dbs
    /\ {hstmt, meta} \subseteq NoHandles
    /\ {registered, native, own, lost, ok, misuse} \subseteq BOOLEAN
    /\ out_buf \in {"empty", "partial", "whole", "error"}

Init == /\ tl_hdbc = [d \in Dbs |-> NoHandle] /\ tl_hstmt = [d \in Dbs |-> NoHandle]
        /\ live = {} /\ registered = FALSE
        /\ owner = [h \in Handles |-> NoHandle]
        /\ dirty = [h \in Handles |-> {}]
        /\ pc = "idle" /\ op = "exec" /\ db \in Dbs
        /\ hstmt = NoHandle /\ meta = NoHandle
        /\ native = FALSE /\ own = FALSE /\ lost = FALSE
        /\ out_buf = "empty" /\ ok = FALSE /\ misuse = FALSE

----------------------------------------------------------------------------
(* The driver, and the error path *)

\* SQLAllocHandle: any handle not in use, a freed one included.
Free == Handles \ live

\* An ODBC call on handle h.
Uses(h) == misuse' = (misuse \/ h \notin live)

\* The handles of the databases ds are freed; a connection's statements go
\* with it.
db_reset_connection(ds) ==
    LET closed == {tl_hdbc[d] : d \in ds} \ {NoHandle}
        freed == closed \cup ({tl_hstmt[d] : d \in ds} \ {NoHandle})
        gone == freed \cup {s \in live : owner[s] \in closed}
    IN /\ tl_hdbc' = [d \in Dbs |-> IF d \in ds THEN NoHandle ELSE tl_hdbc[d]]
       /\ tl_hstmt' = [d \in Dbs |-> IF d \in ds THEN NoHandle ELSE tl_hstmt[d]]
       /\ live' = live \ gone
       /\ owner' = [h \in Handles |-> IF h \in gone THEN NoHandle ELSE owner[h]]
       /\ dirty' = [h \in Handles |-> IF h \in gone THEN {} ELSE dirty[h]]
       /\ misuse' = (misuse \/ ~(freed \subseteq live))

\* The diagnostics may hold a native error for the client.
Diagnostics == \E n \in BOOLEAN : native' = (native \/ n) /\ own' = (own \/ n)

\* db_set_error after a failed call on handle h: if the diagnostics say that
\* the connection is lost, it is reset.
db_set_error(h) ==
    /\ Diagnostics
    /\ \/ /\ h \in live
          /\ db_reset_connection({db})
          /\ lost' = TRUE
       \/ /\ Uses(h)
          /\ UNCHANGED <<cached, driver, lost>>

----------------------------------------------------------------------------
(* db_prepare_and_bind *)

\* Mutant: the error of an earlier call is not forgotten.
fresh_error_Not(o) == native

\* db_execute_and_fetch forgets the error of an earlier call.
fresh_error(o) == IF o \in Fetching THEN FALSE ELSE native

\* A handler makes a call.
begin ==
    /\ pc = "idle"
    /\ op' \in Ops /\ db' \in Dbs
    /\ native' = fresh_error(op')
    /\ own' = FALSE /\ lost' = FALSE /\ out_buf' = "empty" /\ ok' = FALSE
    /\ hstmt' = NoHandle /\ meta' = NoHandle
    /\ pc' = "connect"
    /\ UNCHANGED <<cached, driver, registered, misuse>>

\* Where the error paths of the two kinds of calls lead.
Failure == IF op \in Fetching THEN "failed" ELSE "return"

db_connect_cached ==
    /\ pc = "connect" /\ tl_hdbc[db] # NoHandle
    /\ pc' = "stmt"
    /\ UNCHANGED <<cached, driver, registered, call, hstmt, meta, native, own,
                   lost, out_buf, ok, misuse>>

db_connect ==
    /\ pc = "connect" /\ tl_hdbc[db] = NoHandle
    /\ \E h \in Free : /\ live' = live \cup {h}
                       /\ tl_hdbc' = [tl_hdbc EXCEPT ![db] = h]
    /\ registered' = TRUE
    /\ pc' = "stmt"
    /\ UNCHANGED <<tl_hstmt, owner, dirty, call, hstmt, meta, native, own, lost, out_buf,
                   ok, misuse>>

\* No connection string, no handle, or no connection: the handle, if there
\* was one, is freed again before the function returns.
db_connect_fails ==
    /\ pc = "connect" /\ tl_hdbc[db] = NoHandle
    /\ Diagnostics
    /\ pc' = Failure
    /\ UNCHANGED <<cached, driver, registered, call, hstmt, meta, lost, out_buf,
                   ok, misuse>>

db_alloc_stmt_cached ==
    /\ pc = "stmt" /\ tl_hstmt[db] # NoHandle
    /\ hstmt' = tl_hstmt[db]
    /\ pc' = "bind"
    /\ UNCHANGED <<cached, driver, registered, call, meta, native, own, lost,
                   out_buf, ok, misuse>>

db_alloc_stmt ==
    /\ pc = "stmt" /\ tl_hstmt[db] = NoHandle
    /\ \E h \in Free : /\ live' = live \cup {h}
                       /\ owner' = [owner EXCEPT ![h] = tl_hdbc[db]]
                       /\ tl_hstmt' = [tl_hstmt EXCEPT ![db] = h]
                       /\ hstmt' = h
    /\ Uses(tl_hdbc[db])
    /\ pc' = "bind"
    /\ UNCHANGED <<tl_hdbc, dirty, registered, call, meta, native, own, lost,
                   out_buf, ok>>

\* db_set_error, and the connection is reset in any case.
db_alloc_stmt_fails ==
    /\ pc = "stmt" /\ tl_hstmt[db] = NoHandle
    /\ Diagnostics
    /\ lost' \in BOOLEAN
    /\ db_reset_connection({db})
    /\ pc' = Failure
    /\ UNCHANGED <<registered, call, hstmt, meta, out_buf, ok>>

\* A call on the local statement succeeds and leaves k to be cleaned up.
Holds(k) == /\ dirty' = [dirty EXCEPT ![hstmt] = @ \cup {k}]
            /\ Uses(hstmt)
            /\ UNCHANGED <<cached, live, owner, registered, call, hstmt, native,
                           own, lost>>

\* It fails.
Errs(l) == /\ db_set_error(hstmt)
           /\ pc' = l
           /\ UNCHANGED <<registered, call, hstmt, out_buf, ok>>

\* A loop ends.
Goes(l) == /\ pc' = l
           /\ UNCHANGED <<cached, driver, registered, call, hstmt, native, own, lost,
                          out_buf, ok, misuse>>

\* A step of the loop over the parameters: one is bound, all are, or one
\* cannot be.
db_bind_param ==
    /\ pc = "bind"
    /\ UNCHANGED meta
    /\ \/ Holds("params") /\ UNCHANGED <<pc, out_buf, ok>>
       \/ Goes(IF op = "single_row" THEN "columns" ELSE "execute")
       \/ Errs(Failure)

----------------------------------------------------------------------------
(* db_query_single_row, db_exec and db_execute_and_fetch *)

bind_output_columns ==
    /\ pc = "columns"
    /\ UNCHANGED meta
    /\ \/ Holds("columns") /\ UNCHANGED <<pc, out_buf, ok>>
       \/ Goes("execute")
       \/ Errs("return")

\* SQLExecDirect.  SQL_NO_DATA is a success of db_exec and db_query_single_row,
\* and a failure of db_execute_and_fetch.
execute ==
    /\ pc = "execute"
    /\ UNCHANGED meta
    /\ \/ /\ Holds("cursor")
          /\ pc' = CASE op \in {"json", "single_row"} -> "fetch"
                     [] op = "rs2json" -> "metadata"
                     [] op = "rs2json_m" -> "more"
                     [] op = "exec" -> "return"
          /\ ok' = (op = "exec")
          /\ UNCHANGED out_buf
       \/ Errs(Failure)

\* The row of db_query_single_row, or none.
fetch_single_row ==
    /\ pc = "fetch" /\ op = "single_row"
    /\ UNCHANGED meta
    /\ \/ Holds("cursor") /\ pc' = "return" /\ ok' = TRUE /\ UNCHANGED out_buf
       \/ Errs("return")

\* The loop of db_fetch_json_native: a row is written, it was the last, or it
\* cannot be fetched.
db_fetch_json_native ==
    /\ pc = "fetch" /\ op = "json"
    /\ UNCHANGED meta
    /\ \/ Holds("cursor") /\ out_buf' = "partial" /\ UNCHANGED <<pc, ok>>
       \/ Holds("cursor") /\ out_buf' = "whole" /\ ok' = TRUE /\ pc' = "return"
       \/ Errs("failed")

\* The columns are described: there are none, there are some, memory for them
\* is short, or a call fails before or after meta has the statement.
alloc_metadata_cols ==
    /\ pc = "metadata"
    /\ \/ op = "rs2json" /\ Goes("destroy") /\ UNCHANGED meta
       \/ Goes("bind_columns") /\ meta' = hstmt
       \/ Goes("abandon") /\ meta' = hstmt
       \/ Errs("abandon") /\ meta' \in {hstmt, NoHandle}

\* The loop of odbc_bind_resultset_metadata.
odbc_bind_resultset_metadata ==
    /\ pc = "bind_columns"
    /\ UNCHANGED meta
    /\ \/ Holds("columns") /\ pc' \in {"bind_columns", "fetch"} /\ UNCHANGED <<out_buf, ok>>
       \/ Errs("abandon")

\* The loop of fetch_resultset_array.
fetch_resultset_array ==
    /\ pc = "fetch" /\ op \in {"rs2json", "rs2json_m"}
    /\ UNCHANGED meta
    /\ \/ Holds("cursor") /\ out_buf' = "partial" /\ UNCHANGED <<pc, ok>>
       \/ Holds("cursor") /\ pc' = "destroy" /\ UNCHANGED <<out_buf, ok>>
       \/ /\ db_set_error(hstmt)
          /\ out_buf' = "partial"
          /\ pc' = "abandon"
          /\ UNCHANGED <<registered, call, hstmt, ok>>

\* Mutant: any statement is valid.
db_is_valid_stmt_Any(h) == h # NoHandle

\* Whether the thread still has statement h.
db_is_valid_stmt(h) == h # NoHandle /\ \E d \in Dbs : tl_hstmt[d] = h

\* fetch_resultset_array returns; the columns are unbound if the statement is
\* still there.
metadata_destroy ==
    /\ pc \in {"destroy", "abandon"}
    /\ \/ /\ db_is_valid_stmt(meta)
          /\ dirty' = [dirty EXCEPT ![meta] = @ \ {"columns"}]
          /\ Uses(meta)
       \/ ~db_is_valid_stmt(meta) /\ UNCHANGED <<dirty, misuse>>
    /\ meta' = NoHandle
    /\ \/ pc = "abandon" /\ pc' = "failed" /\ UNCHANGED <<out_buf, ok>>
       \/ /\ pc = "destroy" /\ op = "rs2json"
          /\ pc' = "return" /\ out_buf' = "whole" /\ ok' = TRUE
       \/ /\ pc = "destroy" /\ op = "rs2json_m"
          /\ pc' = "more" /\ UNCHANGED <<out_buf, ok>>
    /\ UNCHANGED <<cached, live, owner, registered, call, hstmt, native, own, lost>>

\* The loop of db_fetch_jsonm_native over the result sets, those without
\* columns left out.
db_fetch_jsonm_native ==
    /\ pc = "more"
    /\ UNCHANGED meta
    /\ \/ Holds("cursor") /\ pc' = "metadata" /\ out_buf' = "partial" /\ UNCHANGED ok
       \/ Holds("cursor") /\ pc' = "return" /\ out_buf' = "whole" /\ ok' = TRUE
       \/ Errs("failed")

\* check_error: a native error replaces whatever was written.
check_error ==
    /\ pc = "failed"
    /\ out_buf' = IF native THEN "error" ELSE out_buf
    /\ pc' = "return"
    /\ UNCHANGED <<cached, driver, registered, call, hstmt, meta, native, own, lost,
                   ok, misuse>>

\* What is left after SQL_CLOSE, SQL_RESET_PARAMS and SQL_UNBIND.
Cleaned(ks) == {}

\* The call returns; the statement is cleaned up if it is still there.
db_cleanup_stmt ==
    /\ pc = "return"
    /\ \/ /\ db_is_valid_stmt(hstmt)
          /\ dirty' = [dirty EXCEPT ![hstmt] = Cleaned(@)]
          /\ Uses(hstmt)
       \/ ~db_is_valid_stmt(hstmt) /\ UNCHANGED <<dirty, misuse>>
    /\ pc' = "idle"
    /\ UNCHANGED <<cached, live, owner, registered, call, hstmt, meta, native, own,
                   lost, out_buf, ok>>

\* The worker thread ends.
tl_hdbc_destructor ==
    /\ pc = "idle"
    /\ \/ registered /\ db_reset_connection(Dbs)
       \/ ~registered /\ UNCHANGED <<cached, driver, misuse>>
    /\ pc' = "exited"
    /\ UNCHANGED <<registered, call, hstmt, meta, native, own, lost, out_buf, ok>>

----------------------------------------------------------------------------
\* The steps of a call, between begin and db_cleanup_stmt.
CallStep ==
        \/ db_connect_cached \/ db_connect \/ db_connect_fails
        \/ db_alloc_stmt_cached \/ db_alloc_stmt \/ db_alloc_stmt_fails
        \/ db_bind_param \/ bind_output_columns \/ execute
        \/ fetch_single_row \/ db_fetch_json_native
        \/ alloc_metadata_cols \/ odbc_bind_resultset_metadata \/ fetch_resultset_array \/ metadata_destroy
        \/ db_fetch_jsonm_native \/ check_error

Next == \/ begin \/ CallStep \/ db_cleanup_stmt
        \/ tl_hdbc_destructor
        \/ pc = "exited" /\ UNCHANGED vars

Spec == Init /\ [][Next]_vars

----------------------------------------------------------------------------
(* Properties *)

\* No ODBC call is made on a freed handle, although db_set_error may free the
\* statement while its callers hold it: every clean-up on the way out asks
\* db_is_valid_stmt first.
HandlesLive == ~misuse

\* Between calls a cached statement belongs to the connection cached beside
\* it, both are allocated, and nothing else is: no path leaks a handle or
\* keeps half of a pair.
HandlesPaired ==
    pc \in {"idle", "exited"} =>
       /\ \A d \in Dbs : tl_hstmt[d] # NoHandle => owner[tl_hstmt[d]] = tl_hdbc[d]
       /\ live = {h \in Handles : \E d \in Dbs : h \in {tl_hdbc[d], tl_hstmt[d]}}
       /\ pc = "exited" => live = {}

\* Between calls no statement holds an open cursor, a bound parameter or a
\* bound column: those point into the stack of a call that has returned.
StatementsClean == pc \in {"idle", "exited"} => \A h \in Handles : dirty[h] = {}

\* A call that met a lost connection leaves none behind, so the next one
\* reconnects.
LostIsForgotten == pc = "idle" /\ lost => tl_hdbc[db] = NoHandle

\* The handles of a thread are sound, whatever call has failed and wherever: in
\* use only while they live, in pairs, clean between calls, and none that is
\* known to be lost is kept.
DbInv == TypeOK /\ HandlesLive /\ HandlesPaired /\ StatementsClean /\ LostIsForgotten

\* The error object the client gets stands for an error of this very call, and
\* a native error of this call is never hidden by what was fetched before it.
ErrorIsOwn == pc = "idle" /\ op \in Fetching /\ ~ok => (out_buf = "error" <=> own)
=============================================================================
