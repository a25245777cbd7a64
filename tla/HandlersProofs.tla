--------------------------- MODULE HandlersProofs ---------------------------
(***************************************************************************)
(* Proofs about module HttpClient, and about module Handlers, in which a   *)
(* thread's HTTP client and its database connections take turns: whatever  *)
(* the client and the connections promise by themselves, they promise to   *)
(* handlers; and whatever goes wrong in whichever step of a handler, its   *)
(* reply is whole or a failure.                                            *)
(*                                                                         *)
(* The second needs three things.  Every handler is well formed: what may  *)
(* go wrong does so before the document is begun, but for the calls that   *)
(* add to it.  A document is the pieces of its steps, of which those of    *)
(* the first few are a beginning.  And a handler that runs is on its track *)
(* or over (ReplyInv), which a call of dbapi.c keeps because of what it    *)
(* leaves in the buffer when it returns (ResultInv of DbConnectionProofs). *)
(***************************************************************************)
EXTENDS Handlers, Induction, TLAPS

DBP == INSTANCE DbConnectionProofs WITH Dbs <- {DB_0, DB_1}, pc <- dbpc

----------------------------------------------------------------------------
(* HttpClient *)

\* The invariant but for the freeing of the handle, which is proved by itself:
\* the two need nothing of each other.
HttpCore == TypeOK /\ BufferFits /\ Stages /\ WholeBody

\* The initial state satisfies the invariant.
LEMMA InvInit == Init => HttpCore
<1> SUFFICES ASSUME Init PROVE HttpCore
    OBVIOUS
<1>1. tls \in BOOLEAN /\ alive \in BOOLEAN /\ mem \in BOOLEAN /\ headers \in BOOLEAN
    BY Zenon DEF Init
<1>2. TypeOK
    BY <1>1 DEF Init, TypeOK, Codes
<1>3. BufferFits /\ Stages /\ WholeBody
    BY DEF Init, BufferFits, Stages, WholeBody
<1>4. QED
    BY <1>2, <1>3 DEF HttpCore

\* The growth of the buffer makes room for the bytes and their terminator.
LEMMA GrowthSuffices ==
  ASSUME NEW cap \in Nat, NEW n \in Nat
  PROVE  LET c == IF req_cap(n) > cap THEN new_cap(cap, req_cap(n)) ELSE cap
         IN c \in Nat /\ n < c
  BY DEF req_cap, new_cap

\* Every step keeps the invariant.
LEMMA InvNext == HttpCore /\ [Next]_vars => HttpCore'
<1> SUFFICES ASSUME HttpCore, [Next]_vars PROVE HttpCore'
    OBVIOUS
<1> USE HttpClientConstants DEF HttpCore, Codes, chunk
<1>1. CASE http_client_init_thread
  <2>1. tls' \in BOOLEAN /\ alive' \in BOOLEAN
      BY <1>1, Zenon DEF http_client_init_thread, get_thread_curl, TypeOK
  <2>2. QED
      BY <1>1, <2>1 DEF http_client_init_thread, TypeOK, BufferFits, Stages, WholeBody
<1>2. CASE http_client_cleanup_thread
    BY <1>2, Zenon DEF http_client_cleanup_thread, TypeOK, BufferFits, Stages,
                WholeBody
<1>3. CASE build_request_url
    BY <1>3 DEF build_request_url, TypeOK, BufferFits, Stages, WholeBody
<1>4. CASE setup_curl_request
  <2>1. tls' \in BOOLEAN /\ alive' \in BOOLEAN
      BY <1>4, Zenon DEF setup_curl_request, get_thread_curl, TypeOK
  <2>2. opts' \in {{}, {"write"}} /\ UNCHANGED <<headers, sent, http_code>>
      BY <1>4 DEF setup_curl_request, Stages
  <2>3. \/ /\ opts' = {"write"} /\ mem' = TRUE /\ size' = 0 /\ capacity' = CHUNK_SIZE
           /\ pc' = "headers" /\ UNCHANGED result
        \/ /\ opts' = {} /\ pc' = "return" /\ result' = "null"
           /\ UNCHANGED <<mem, size, capacity>>
      BY <1>4 DEF setup_curl_request, Stages
  <2>4. pc = "setup"
      BY <1>4 DEF setup_curl_request
  <2>5. TypeOK'
    <3>1. mem' \in BOOLEAN
        BY <2>3, Zenon DEF TypeOK
    <3>2. QED
        BY <2>1, <2>2, <2>3, <3>1 DEF TypeOK
  <2>6. BufferFits'
    <3>1. 0 < CHUNK_SIZE /\ 0 <= MAX_PAYLOAD
        OBVIOUS
    <3>2. QED
        BY <2>3, <3>1, Zenon DEF BufferFits
  <2>7. Stages'
      BY <2>2, <2>3, <2>4 DEF Stages, TypeOK
  <2>8. WholeBody'
      BY <2>3 DEF WholeBody
  <2>9. QED
      BY <2>5, <2>6, <2>7, <2>8
<1>5. CASE curl_slist_append
    BY <1>5 DEF curl_slist_append, opts_without_headers, TypeOK, BufferFits, Stages, WholeBody
<1>6. CASE curl_easy_perform
    BY <1>6 DEF curl_easy_perform, TypeOK, BufferFits, Stages, WholeBody
<1>7. CASE over_limit
    BY <1>7 DEF over_limit, Aborts, opts_after_perform, TypeOK, BufferFits, Stages, WholeBody
<1>8. CASE write_memory_cb
  <2>1. PICK n \in 0..MaxPiece :
              /\ size + n <= MAX_PAYLOAD
              /\ sent' = sent + n
              /\ size' = size + n
              /\ capacity' = IF req_cap(size + n) > capacity
                             THEN new_cap(capacity, req_cap(size + n)) ELSE capacity
      BY <1>8 DEF write_memory_cb
  <2>2. capacity' \in Nat /\ size' < capacity'
      BY <2>1, GrowthSuffices DEF TypeOK
  <2>3. QED
      BY <1>8, <2>1, <2>2 DEF write_memory_cb, TypeOK, BufferFits, Stages, WholeBody
<1>9. CASE out_of_memory
  <2>1. PICK n \in 0..MaxPiece : sent' = sent + n
      BY <1>9 DEF out_of_memory
  <2>2. TypeOK'
    <3>1. mem' \in BOOLEAN
        BY <1>9, Zenon DEF out_of_memory
    <3>2. QED
        BY <1>9, <2>1, <3>1 DEF out_of_memory, Aborts, opts_after_perform, TypeOK
  <2>3. BufferFits' /\ Stages' /\ WholeBody'
      BY <1>9 DEF out_of_memory, Aborts, opts_after_perform, TypeOK, BufferFits, Stages,
                  WholeBody
  <2>4. QED
      BY <2>2, <2>3
<1>10. CASE transfer_fails
    BY <1>10 DEF transfer_fails, Aborts, opts_after_perform, TypeOK, BufferFits, Stages,
                 WholeBody
<1>11. CASE do_http_request
    BY <1>11 DEF do_http_request, opts_after_perform, TypeOK, BufferFits, Stages, WholeBody
<1>12. CASE request_returns
    BY <1>12, Zenon DEF request_returns, TypeOK, BufferFits, Stages, WholeBody
<1>13. CASE UNCHANGED vars
    BY <1>13 DEF vars, TypeOK, BufferFits, Stages, WholeBody
<1>14. QED
    BY <1>1, <1>2, <1>3, <1>4, <1>5, <1>6, <1>7, <1>8, <1>9, <1>10, <1>11, <1>12, <1>13
       DEF Next

\* Every step keeps the key and the handle in agreement.
LEMMA FreedNext == TypeOK /\ FreedOnce /\ [Next]_vars => FreedOnce'
<1> SUFFICES ASSUME TypeOK, FreedOnce, [Next]_vars PROVE FreedOnce'
    OBVIOUS
<1> USE DEF FreedOnce
<1>0. tls \in BOOLEAN /\ alive \in BOOLEAN
    BY DEF TypeOK
<1>1. CASE http_client_init_thread
    BY <1>0, <1>1, Zenon DEF http_client_init_thread, get_thread_curl
<1>2. CASE http_client_cleanup_thread
    BY <1>0, <1>2, Zenon DEF http_client_cleanup_thread
<1>3. CASE setup_curl_request
    BY <1>0, <1>3, Zenon DEF setup_curl_request, get_thread_curl
<1>4. CASE UNCHANGED <<tls, alive>> /\ (pc' = "exited" => pc = "exited")
    BY <1>4, Zenon
<1>5. QED
  <2>1. ASSUME build_request_url \/ curl_slist_append \/ curl_easy_perform \/ over_limit
               \/ write_memory_cb \/ out_of_memory \/ transfer_fails \/ do_http_request
               \/ request_returns \/ UNCHANGED vars
        PROVE  UNCHANGED <<tls, alive>> /\ (pc' = "exited" => pc = "exited")
      BY <2>1 DEF build_request_url, curl_slist_append, curl_easy_perform, over_limit,
                  write_memory_cb, out_of_memory, transfer_fails, do_http_request,
                  request_returns, Aborts, vars, chunk
  <2>2. QED
      BY <1>1, <1>2, <1>3, <1>4, <2>1 DEF Next

\* The client keeps its invariant.
THEOREM HttpClientCorrect == Spec => []HttpInv
<1>1. Init => HttpInv
  <2>1. Init => FreedOnce
      BY Zenon DEF Init, FreedOnce
  <2>2. QED
      BY <2>1, InvInit DEF HttpCore, HttpInv
<1>2. HttpInv /\ [Next]_vars => HttpInv'
    BY InvNext, FreedNext DEF HttpCore, HttpInv
<1>3. QED
    BY <1>1, <1>2, PTL DEF Spec

\* write_memory_cb never writes past the buffer, nor keeps more than the limit.
THEOREM BufferNeverOverflows == Spec => []BufferFits
<1>1. HttpInv => BufferFits
    BY DEF HttpInv
<1>2. QED
    BY <1>1, HttpClientCorrect, PTL

\* No path out of a request leaves the handle a pointer into it.
THEOREM HandleIsClean == Spec => []NothingDangles
<1>1. HttpInv => NothingDangles
    BY DEF HttpInv, Stages, NothingDangles
<1>2. QED
    BY <1>1, HttpClientCorrect, PTL

\* A body that is returned is all that was sent.
THEOREM BodiesAreWhole == Spec => []WholeBody
<1>1. HttpInv => WholeBody
    BY DEF HttpInv
<1>2. QED
    BY <1>1, HttpClientCorrect, PTL

\* The explicit clean-up and the key's destructor never free the handle twice,
\* and one of them does.
THEOREM HandleFreedOnce == Spec => []FreedOnce
<1>1. HttpInv => FreedOnce
    BY DEF HttpInv
<1>2. QED
    BY <1>1, HttpClientCorrect, PTL

----------------------------------------------------------------------------
(* Handlers: the client *)

\* The steps of a handler that are no calls leave the client and the databases
\* alone.
LEMMA StepsWithoutCall ==
    ASSUME \/ handler_called \/ handler_returns \/ set_status \/ evbuffer_add \/ tries
           \/ append_remote_json_response \/ login_and_get_token \/ update_jwt_cache
           \/ handle_login_success \/ handle_login_failure
    PROVE  NoCall
BY Zenon DEF handler_called, handler_returns, set_status, evbuffer_add, tries,
             append_remote_json_response, login_and_get_token, update_jwt_cache,
             handle_login_success, handle_login_failure

\* Every step of a thread is a step of its HTTP client, or none of it.
LEMMA HttpStepOrStutter == [HandlersNext]_allvars => [Next]_vars
<1> SUFFICES ASSUME [HandlersNext]_allvars PROVE [Next]_vars
  OBVIOUS
<1>1. ASSUME http_client_init_thread \/ http_client_cleanup_thread \/ build_request_url
             \/ setup_curl_request \/ curl_slist_append \/ curl_easy_perform \/ over_limit
             \/ write_memory_cb \/ out_of_memory \/ transfer_fails \/ do_http_request
             \/ request_returns
      PROVE  [Next]_vars
  BY <1>1, Zenon DEF Next
<1>2. CASE thread_starts
  BY <1>1, <1>2, Zenon DEF thread_starts
<1>3. CASE thread_ends
  BY <1>1, <1>3, Zenon DEF thread_ends
<1>4. CASE http_call
  BY <1>1, <1>4, Zenon DEF http_call
<1>5. CASE http_step
  BY <1>1, <1>5, Zenon DEF http_step
<1>6. CASE http_returns
  BY <1>1, <1>6, Zenon DEF http_returns
<1>7. CASE thread_exits \/ db_call \/ db_step \/ db_returns
  BY <1>7, Zenon DEF thread_exits, db_call, db_step, db_returns
<1>8. CASE \/ handler_called \/ handler_returns \/ set_status \/ evbuffer_add \/ tries
           \/ append_remote_json_response \/ login_and_get_token \/ update_jwt_cache
           \/ handle_login_success \/ handle_login_failure
  <2>1. NoCall
    BY <1>8, StepsWithoutCall, Zenon
  <2> QED
    BY <2>1, Zenon DEF NoCall
<1>9. CASE UNCHANGED allvars
  BY <1>9, Zenon DEF allvars
<1> QED
  BY <1>2, <1>3, <1>4, <1>5, <1>6, <1>7, <1>8, <1>9, Zenon DEF HandlersNext

\* The client keeps its promises to handlers, whichever of them run on the
\* thread and in whatever order (do_http_request and its callbacks).
THEOREM ClientServesHandlers == HandlersSpec => []HttpInv
<1>1. HandlersInit => Init
  BY Zenon DEF HandlersInit
<1>2. HandlersSpec => Spec
  BY <1>1, HttpStepOrStutter, PTL DEF HandlersSpec, Spec
<1> QED
  BY <1>2, HttpClientCorrect, PTL

----------------------------------------------------------------------------
(* Handlers: the databases *)

\* The actions of module DbConnection and of the module of its proofs are the
\* same, whatever they are called.
LEMMA DbActions ==
    /\ DB!begin => DBP!begin
    /\ DB!CallStep => DBP!CallStep
    /\ DB!db_cleanup_stmt => DBP!db_cleanup_stmt
    /\ DB!tl_hdbc_destructor => DBP!tl_hdbc_destructor
<1> USE DEF DB!cached, DBP!cached, DB!driver, DBP!driver, DB!call, DBP!call, DB!Fetching,
            DBP!Fetching, DB!Ops, DBP!Ops, DB!Free, DBP!Free, DB!Uses, DBP!Uses,
            DB!Diagnostics, DBP!Diagnostics, DB!db_reset_connection,
            DBP!db_reset_connection, DB!db_set_error, DBP!db_set_error, DB!fresh_error,
            DBP!fresh_error, DB!Failure, DBP!Failure, DB!Holds, DBP!Holds, DB!Errs,
            DBP!Errs, DB!Goes, DBP!Goes, DB!db_is_valid_stmt, DBP!db_is_valid_stmt,
            DB!Cleaned, DBP!Cleaned
<1>1. DB!begin => DBP!begin
  BY Zenon DEF DB!begin, DBP!begin
<1>2. DB!db_cleanup_stmt => DBP!db_cleanup_stmt
  BY Zenon DEF DB!db_cleanup_stmt, DBP!db_cleanup_stmt
<1>3. DB!tl_hdbc_destructor => DBP!tl_hdbc_destructor
  BY Zenon DEF DB!tl_hdbc_destructor, DBP!tl_hdbc_destructor
<1>4. DB!db_connect_cached => DBP!db_connect_cached
  BY Zenon DEF DB!db_connect_cached, DBP!db_connect_cached
<1>5. DB!db_connect => DBP!db_connect
  BY Zenon DEF DB!db_connect, DBP!db_connect
<1>6. DB!db_connect_fails => DBP!db_connect_fails
  BY Zenon DEF DB!db_connect_fails, DBP!db_connect_fails
<1>7. DB!db_alloc_stmt_cached => DBP!db_alloc_stmt_cached
  BY Zenon DEF DB!db_alloc_stmt_cached, DBP!db_alloc_stmt_cached
<1>8. DB!db_alloc_stmt => DBP!db_alloc_stmt
  BY Zenon DEF DB!db_alloc_stmt, DBP!db_alloc_stmt
<1>9. DB!db_alloc_stmt_fails => DBP!db_alloc_stmt_fails
  BY Zenon DEF DB!db_alloc_stmt_fails, DBP!db_alloc_stmt_fails
<1>10. DB!db_bind_param => DBP!db_bind_param
  BY Zenon DEF DB!db_bind_param, DBP!db_bind_param
<1>11. DB!bind_output_columns => DBP!bind_output_columns
  BY Zenon DEF DB!bind_output_columns, DBP!bind_output_columns
<1>12. DB!execute => DBP!execute
  BY Zenon DEF DB!execute, DBP!execute
<1>13. DB!fetch_single_row => DBP!fetch_single_row
  BY Zenon DEF DB!fetch_single_row, DBP!fetch_single_row
<1>14. DB!db_fetch_json_native => DBP!db_fetch_json_native
  BY Zenon DEF DB!db_fetch_json_native, DBP!db_fetch_json_native
<1>15. DB!alloc_metadata_cols => DBP!alloc_metadata_cols
  BY Zenon DEF DB!alloc_metadata_cols, DBP!alloc_metadata_cols
<1>16. DB!odbc_bind_resultset_metadata => DBP!odbc_bind_resultset_metadata
  BY Zenon DEF DB!odbc_bind_resultset_metadata, DBP!odbc_bind_resultset_metadata
<1>17. DB!fetch_resultset_array => DBP!fetch_resultset_array
  BY Zenon DEF DB!fetch_resultset_array, DBP!fetch_resultset_array
<1>18. DB!metadata_destroy => DBP!metadata_destroy
  BY Zenon DEF DB!metadata_destroy, DBP!metadata_destroy
<1>19. DB!db_fetch_jsonm_native => DBP!db_fetch_jsonm_native
  BY Zenon DEF DB!db_fetch_jsonm_native, DBP!db_fetch_jsonm_native
<1>20. DB!check_error => DBP!check_error
  BY Zenon DEF DB!check_error, DBP!check_error
<1> QED
  BY <1>1, <1>2, <1>3, <1>4, <1>5, <1>6, <1>7, <1>8, <1>9, <1>10, <1>11, <1>12, <1>13,
     <1>14, <1>15, <1>16, <1>17, <1>18, <1>19, <1>20, Zenon DEF DB!CallStep, DBP!CallStep

\* Every step of a thread is a step of its database access, or none of it.
LEMMA DbStepOrStutter == [HandlersNext]_allvars => [DBP!Next]_DBP!vars
<1> SUFFICES ASSUME [HandlersNext]_allvars PROVE [DBP!Next]_DBP!vars
  OBVIOUS
<1>1. UNCHANGED dbvars => UNCHANGED DBP!vars
  BY Zenon DEF dbvars, DBP!vars, DBP!cached, DBP!driver, DBP!call
<1>2. ASSUME DBP!begin \/ DBP!CallStep \/ DBP!db_cleanup_stmt \/ DBP!tl_hdbc_destructor
      PROVE  DBP!Next
  BY <1>2, Zenon DEF DBP!Next
<1>3. CASE db_call
  BY <1>2, <1>3, DbActions, Zenon DEF db_call
<1>4. CASE db_step
  BY <1>2, <1>4, DbActions, Zenon DEF db_step
<1>5. CASE db_returns
  BY <1>2, <1>5, DbActions, Zenon DEF db_returns
<1>6. CASE thread_exits
  BY <1>2, <1>6, DbActions, Zenon DEF thread_exits
<1>7. CASE thread_starts \/ thread_ends \/ http_call \/ http_step \/ http_returns
  BY <1>1, <1>7, Zenon DEF thread_starts, thread_ends, http_call, http_step, http_returns
<1>8. CASE \/ handler_called \/ handler_returns \/ set_status \/ evbuffer_add \/ tries
           \/ append_remote_json_response \/ login_and_get_token \/ update_jwt_cache
           \/ handle_login_success \/ handle_login_failure
  <2>1. NoCall
    BY <1>8, StepsWithoutCall, Zenon
  <2> QED
    BY <1>1, <2>1, Zenon DEF NoCall
<1>9. CASE UNCHANGED allvars
  BY <1>1, <1>9, Zenon DEF allvars
<1> QED
  BY <1>3, <1>4, <1>5, <1>6, <1>7, <1>8, <1>9, Zenon DEF HandlersNext

\* A thread's database access starts as module DbConnection says, and goes on so.
LEMMA HandlersUseDb == HandlersSpec => DBP!Spec
<1>1. HandlersInit => DBP!Init
  BY Zenon DEF HandlersInit, DB!Init, DBP!Init
<1> QED
  BY <1>1, DbStepOrStutter, PTL DEF HandlersSpec, DBP!Spec

\* The handles of a thread's databases are sound whichever handlers the thread
\* runs, on two databases, between requests to other services, and wherever a
\* handler gives up (the calls of lib/dbapi.c by src/handlers.c and lib/totp.c).
THEOREM DatabasesServeHandlers == HandlersSpec => []DbInv
<1>1. DBP!DbConstants
  BY HandlersConstants, Zenon DEF DB!DbConstants, DBP!DbConstants
<1>2. DBP!Spec => []DBP!DbInv
  BY <1>1, DBP!DbCorrect
<1>3. DBP!DbInv => DbInv
  BY Zenon DEF DbInv, DB!DbInv, DBP!DbInv, DB!TypeOK, DBP!TypeOK, DB!NoHandles, DBP!NoHandles,
               DB!Ops, DBP!Ops, DB!Fetching, DBP!Fetching,
               DB!HandlesLive, DBP!HandlesLive, DB!HandlesPaired, DBP!HandlesPaired,
               DB!StatementsClean, DBP!StatementsClean, DB!LostIsForgotten, DBP!LostIsForgotten
<1> QED
  BY <1>2, <1>3, HandlersUseDb, PTL

\* The error object in a handler's reply stands for an error of the very call
\* that wrote it, whichever calls the thread made before (check_error).
THEOREM HandlersReportOwnErrors == HandlersSpec => []ErrorIsOwn
<1>1. DBP!ErrorIsOwn => ErrorIsOwn
  BY Zenon DEF ErrorIsOwn, DB!ErrorIsOwn, DBP!ErrorIsOwn, DB!Fetching, DBP!Fetching
<1> QED
  BY <1>1, DBP!ErrorsAreOwn, HandlersUseDb, PTL

----------------------------------------------------------------------------
(* Handlers: their steps *)

\* A step that adds to the document, one that makes the reply a success if
\* nothing comes after it, and a step whose failure is one of the reply.
Adds(s) == s.do \in {"add", "remote"} \/ (s.do = "db" /\ s.op \in DB!Fetching)
Succeeds(s) == s.do = "login" \/ (s.do = "status" /\ s.status = 200)
Refuses(s) == s.status \notin {0, 200}

\* What a handler adds to its document.
Texts == {"status", "version", "sysinfo", "metrics", "svg", "uuid", "secret", "token", "file",
          "first", "second", "closed", "remote", "whole"}

\* Nothing is added before step k of handler h.
Bare(h, k) == \A j \in 1 .. k - 1 : ~Adds(h[j])

\* Step k of handler h decides that its reply is a success.
Final(h, k) == /\ Succeeds(h[k])
               /\ \A j \in k + 1 .. Len(h) : h[j].do \notin {"status", "login"}

\* What may go wrong does so before the document is begun, but for the calls
\* that add to it; a token is the last thing added, after a login and with no
\* other request since; and the steps that look for a token skip nothing but
\* requests.
WellFormedStep(h, k) ==
    LET s == h[k]
    IN /\ s.do = "add" => s.text \in Texts
       /\ s.do = "add" /\ s.text = "token" => k = Len(h) /\ \E j \in 1 .. k - 1 : h[j].do = "login"
       /\ s.do = "try" =>
             /\ Bare(h, k)
             /\ \/ Refuses(s) /\ s.pieces \in {<<>>, <<"bad_encoding">>}
                \/ h = coordinator3_handler /\ s.status = 200 /\ s.pieces = <<"nothing">>
       /\ s.do = "db" => Refuses(s) /\ (s.op \in DB!Fetching \/ Bare(h, k))
       /\ s.do = "login" => Bare(h, k) /\ \A j \in k + 1 .. Len(h) : h[j].do # "http"
       /\ s.do = "cached" =>
             k + 3 <= Len(h) /\ \A j \in k + 1 .. k + 3 : h[j].do \in {"http", "granted"}
       /\ s.do = "granted" => k + 1 <= Len(h) /\ h[k + 1].do = "http"

WellFormed(h) == /\ Len(h) \in Nat
                 /\ \A k \in 1 .. Len(h) : WellFormedStep(h, k)
                 /\ \E k \in 1 .. Len(h) : Final(h, k)

\* The kinds of steps that need nothing else of their handler.
LEMMA PlainSteps ==
    ASSUME NEW h, NEW k
    PROVE  /\ h[k].do \in {"status", "http", "remote"} => WellFormedStep(h, k)
           /\ h[k].do = "add" /\ h[k].text \in Texts /\ h[k].text # "token" => WellFormedStep(h, k)
           /\ h[k].do = "try" /\ Bare(h, k) /\ Refuses(h[k])
                 /\ h[k].pieces \in {<<>>, <<"bad_encoding">>} => WellFormedStep(h, k)
           /\ h[k].do = "db" /\ Refuses(h[k]) /\ (h[k].op \in DB!Fetching \/ Bare(h, k))
                 => WellFormedStep(h, k)
<1>1. h[k].do \in {"status", "http", "remote"} => WellFormedStep(h, k)
  BY Zenon DEF WellFormedStep
<1>2. h[k].do = "add" /\ h[k].text \in Texts /\ h[k].text # "token" => WellFormedStep(h, k)
  BY Zenon DEF WellFormedStep
<1>3. h[k].do = "try" /\ Bare(h, k) /\ Refuses(h[k])
         /\ h[k].pieces \in {<<>>, <<"bad_encoding">>} => WellFormedStep(h, k)
  BY Zenon DEF WellFormedStep
<1>4. h[k].do = "db" /\ Refuses(h[k]) /\ (h[k].op \in DB!Fetching \/ Bare(h, k))
         => WellFormedStep(h, k)
  BY Zenon DEF WellFormedStep
<1> QED
  BY <1>1, <1>2, <1>3, <1>4, Zenon

\* A handler that only answers with a text.
LEMMA SimpleForm ==
    ASSUME NEW t \in Texts, t # "token"
    PROVE  WellFormed(<<Status(200), Add(t)>>)
<1> DEFINE h == <<Status(200), Add(t)>>
<1>1. h = <<Status(200), Add(t)>>
  BY Zenon
<1>2. /\ h[1] = Status(200) /\ h[2] = Add(t)
  OBVIOUS
<1>3. /\ Len(h) = 2 /\ Len(h) \in Nat /\ 1 \in 1 .. Len(h)
      /\ \A k \in 1 .. Len(h) : k = 1 \/ k = 2
  OBVIOUS
<1> HIDE DEF h
<1>4. h[1].do = "status" /\ Succeeds(h[1])
  BY <1>2 DEF Status, Succeeds
<1>5. h[2].do = "add" /\ h[2].text \in Texts /\ h[2].text # "token"
  BY <1>2 DEF Add, Texts
<1>6. WellFormedStep(h, 1)
  BY <1>4, PlainSteps, Zenon
<1>7. WellFormedStep(h, 2)
  BY <1>5, PlainSteps, Zenon
<1>8. Final(h, 1)
  BY <1>3, <1>4, <1>5 DEF Final
<1>9. WellFormed(h)
  BY <1>3, <1>6, <1>7, <1>8, Zenon DEF WellFormed
<1> QED
  BY <1>1, <1>9, Zenon

\* A handler that makes one call of dbapi.c.
LEMMA QueryForm ==
    ASSUME NEW o, NEW d
    PROVE  WellFormed(Query(o, d))
<1> DEFINE h == <<Status(200), Call(o, d, 500)>>
<1>1. h = Query(o, d)
  BY DEF Query
<1>2. /\ h[1] = Status(200) /\ h[2] = Call(o, d, 500)
  OBVIOUS
<1>3. /\ Len(h) = 2 /\ Len(h) \in Nat /\ 1 \in 1 .. Len(h)
      /\ \A k \in 1 .. Len(h) : k = 1 \/ k = 2
  OBVIOUS
<1> HIDE DEF h
<1>4. h[1].do = "status" /\ Succeeds(h[1])
  BY <1>2 DEF Status, Succeeds
<1>5. h[2].do = "db" /\ Refuses(h[2])
  BY <1>2 DEF Call, Refuses
<1>6. Bare(h, 2)
  BY <1>4 DEF Bare, Adds, DB!Fetching
<1>7. WellFormedStep(h, 1)
  BY <1>4, PlainSteps, Zenon
<1>8. WellFormedStep(h, 2)
  BY <1>5, <1>6, PlainSteps, Zenon
<1>9. Final(h, 1)
  BY <1>3, <1>4, <1>5 DEF Final
<1>10. WellFormed(h)
  BY <1>3, <1>7, <1>8, <1>9, Zenon DEF WellFormed
<1> QED
  BY <1>1, <1>10, Zenon

\* rsysinfo.
LEMMA RsysinfoForm == WellFormed(rsysinfo_handler)
<1> DEFINE h == <<Status(200), Request, Remote>>
<1>1. h = rsysinfo_handler
  BY DEF rsysinfo_handler
<1>2. /\ h[1] = Status(200) /\ h[2] = Request
      /\ h[3] = Remote
  OBVIOUS
<1>3. /\ Len(h) = 3 /\ Len(h) \in Nat /\ 1 \in 1 .. Len(h)
      /\ \A k \in 1 .. Len(h) : k = 1 \/ k = 2 \/ k = 3
  OBVIOUS
<1> HIDE DEF h
<1>4. h[1].do = "status" /\ Succeeds(h[1])
  BY <1>2 DEF Status, Succeeds
<1>5. h[2].do = "http"
  BY <1>2 DEF Request
<1>6. h[3].do = "remote"
  BY <1>2 DEF Remote
<1>7. WellFormedStep(h, 1)
  BY <1>4, PlainSteps, Zenon
<1>8. WellFormedStep(h, 2)
  BY <1>5, PlainSteps, Zenon
<1>9. WellFormedStep(h, 3)
  BY <1>6, PlainSteps, Zenon
<1>10. Final(h, 1)
  BY <1>3, <1>4, <1>5, <1>6 DEF Final
<1>11. WellFormed(h)
  BY <1>3, <1>7, <1>8, <1>9, <1>10, Zenon DEF WellFormed
<1> QED
  BY <1>1, <1>11, Zenon

\* rcustomer.
LEMMA RcustomerForm == WellFormed(rcustomer_handler)
<1> DEFINE h == <<Status(200), Cached, Request, Granted, Request, Remote>>
<1>1. h = rcustomer_handler
  BY DEF rcustomer_handler, customer_service_get_info
<1>2. /\ h[1] = Status(200) /\ h[2] = Cached
      /\ h[3] = Request /\ h[4] = Granted
      /\ h[5] = Request /\ h[6] = Remote
  OBVIOUS
<1>3. /\ Len(h) = 6 /\ Len(h) \in Nat /\ 1 \in 1 .. Len(h)
      /\ \A k \in 1 .. Len(h) : k = 1 \/ k = 2 \/ k = 3 \/ k = 4 \/ k = 5 \/ k = 6
  OBVIOUS
<1> HIDE DEF h
<1>4. h[1].do = "status" /\ Succeeds(h[1])
  BY <1>2 DEF Status, Succeeds
<1>5. h[2].do = "cached"
  BY <1>2 DEF Cached
<1>6. h[3].do = "http"
  BY <1>2 DEF Request
<1>7. h[4].do = "granted"
  BY <1>2 DEF Granted
<1>8. h[5].do = "http"
  BY <1>2 DEF Request
<1>9. h[6].do = "remote"
  BY <1>2 DEF Remote
<1>10. WellFormedStep(h, 1)
  BY <1>4, PlainSteps, Zenon
<1>11. WellFormedStep(h, 2)
  BY <1>1, <1>3, <1>4, <1>5, <1>6, <1>7, <1>8, <1>9 DEF WellFormedStep
<1>12. WellFormedStep(h, 3)
  BY <1>6, PlainSteps, Zenon
<1>13. WellFormedStep(h, 4)
  BY <1>1, <1>3, <1>4, <1>5, <1>6, <1>7, <1>8, <1>9 DEF WellFormedStep
<1>14. WellFormedStep(h, 5)
  BY <1>8, PlainSteps, Zenon
<1>15. WellFormedStep(h, 6)
  BY <1>9, PlainSteps, Zenon
<1>16. Final(h, 1)
  BY <1>3, <1>4, <1>5, <1>6, <1>7, <1>8, <1>9 DEF Final
<1>17. WellFormed(h)
  BY <1>3, <1>10, <1>11, <1>12, <1>13, <1>14, <1>15, <1>16, Zenon DEF WellFormed
<1> QED
  BY <1>1, <1>17, Zenon

\* getqr.
LEMMA GetqrForm == WellFormed(getqr_handler)
<1> DEFINE h == <<Call("single_row", DB_0, 500), Try(404, <<>>), Try(500, <<>>),
                Add("svg"), Status(200)>>
<1>1. h = getqr_handler
  BY DEF getqr_handler, totp_generate_svg, get_secret
<1>2. /\ h[1] = Call("single_row", DB_0, 500) /\ h[2] = Try(404, <<>>)
      /\ h[3] = Try(500, <<>>) /\ h[4] = Add("svg")
      /\ h[5] = Status(200)
  OBVIOUS
<1>3. /\ Len(h) = 5 /\ Len(h) \in Nat /\ 5 \in 1 .. Len(h)
      /\ \A k \in 1 .. Len(h) : k = 1 \/ k = 2 \/ k = 3 \/ k = 4 \/ k = 5
  OBVIOUS
<1> HIDE DEF h
<1>4. h[1].do = "db" /\ h[1].op = "single_row" /\ Refuses(h[1])
  BY <1>2 DEF Call, Refuses
<1>5. h[2].do = "try" /\ Refuses(h[2]) /\ h[2].pieces \in {<<>>, <<"bad_encoding">>}
  BY <1>2 DEF Try, Refuses
<1>6. h[3].do = "try" /\ Refuses(h[3]) /\ h[3].pieces \in {<<>>, <<"bad_encoding">>}
  BY <1>2 DEF Try, Refuses
<1>7. h[4].do = "add" /\ h[4].text \in Texts /\ h[4].text # "token"
  BY <1>2 DEF Add, Texts
<1>8. h[5].do = "status" /\ Succeeds(h[5])
  BY <1>2 DEF Status, Succeeds
<1>9. Bare(h, 1)
  BY DEF Bare
<1>10. Bare(h, 2)
  BY <1>4 DEF Bare, Adds, DB!Fetching
<1>11. Bare(h, 3)
  BY <1>4, <1>5 DEF Bare, Adds, DB!Fetching
<1>12. WellFormedStep(h, 1)
  BY <1>4, <1>9, PlainSteps, Zenon
<1>13. WellFormedStep(h, 2)
  BY <1>5, <1>10, PlainSteps, Zenon
<1>14. WellFormedStep(h, 3)
  BY <1>6, <1>11, PlainSteps, Zenon
<1>15. WellFormedStep(h, 4)
  BY <1>7, PlainSteps, Zenon
<1>16. WellFormedStep(h, 5)
  BY <1>8, PlainSteps, Zenon
<1>17. Final(h, 5)
  BY <1>3, <1>8 DEF Final
<1>18. WellFormed(h)
  BY <1>3, <1>12, <1>13, <1>14, <1>15, <1>16, <1>17, Zenon DEF WellFormed
<1> QED
  BY <1>1, <1>18, Zenon

\* verifytotp.
LEMMA VerifytotpForm == WellFormed(verifytotp_handler)
<1> DEFINE h == <<Call("single_row", DB_0, 401), Try(401, <<>>), Try(401, <<>>),
                Status(200), Add("status")>>
<1>1. h = verifytotp_handler
  BY DEF verifytotp_handler, is_valid_totp, get_secret
<1>2. /\ h[1] = Call("single_row", DB_0, 401) /\ h[2] = Try(401, <<>>)
      /\ h[3] = Try(401, <<>>) /\ h[4] = Status(200)
      /\ h[5] = Add("status")
  OBVIOUS
<1>3. /\ Len(h) = 5 /\ Len(h) \in Nat /\ 4 \in 1 .. Len(h)
      /\ \A k \in 1 .. Len(h) : k = 1 \/ k = 2 \/ k = 3 \/ k = 4 \/ k = 5
  OBVIOUS
<1> HIDE DEF h
<1>4. h[1].do = "db" /\ h[1].op = "single_row" /\ Refuses(h[1])
  BY <1>2 DEF Call, Refuses
<1>5. h[2].do = "try" /\ Refuses(h[2]) /\ h[2].pieces \in {<<>>, <<"bad_encoding">>}
  BY <1>2 DEF Try, Refuses
<1>6. h[3].do = "try" /\ Refuses(h[3]) /\ h[3].pieces \in {<<>>, <<"bad_encoding">>}
  BY <1>2 DEF Try, Refuses
<1>7. h[4].do = "status" /\ Succeeds(h[4])
  BY <1>2 DEF Status, Succeeds
<1>8. h[5].do = "add" /\ h[5].text \in Texts /\ h[5].text # "token"
  BY <1>2, SMTT(20) DEF Add, Texts
<1>9. Bare(h, 1)
  BY DEF Bare
<1>10. Bare(h, 2)
  BY <1>4 DEF Bare, Adds, DB!Fetching
<1>11. Bare(h, 3)
  BY <1>4, <1>5 DEF Bare, Adds, DB!Fetching
<1>12. WellFormedStep(h, 1)
  BY <1>4, <1>9, PlainSteps, Zenon
<1>13. WellFormedStep(h, 2)
  BY <1>5, <1>10, PlainSteps, Zenon
<1>14. WellFormedStep(h, 3)
  BY <1>6, <1>11, PlainSteps, Zenon
<1>15. WellFormedStep(h, 4)
  BY <1>7, PlainSteps, Zenon
<1>16. WellFormedStep(h, 5)
  BY <1>8, PlainSteps, Zenon
<1>17. Final(h, 4)
  BY <1>3, <1>7, <1>8 DEF Final
<1>18. WellFormed(h)
  BY <1>3, <1>12, <1>13, <1>14, <1>15, <1>16, <1>17, Zenon DEF WellFormed
<1> QED
  BY <1>1, <1>18, Zenon

\* secretb32.
LEMMA Secretb32Form == WellFormed(secretb32_handler)
<1> DEFINE h == <<Status(200), Try(500, <<>>), Add("secret")>>
<1>1. h = secretb32_handler
  BY DEF secretb32_handler, totp_generate_base32_secret
<1>2. /\ h[1] = Status(200) /\ h[2] = Try(500, <<>>)
      /\ h[3] = Add("secret")
  OBVIOUS
<1>3. /\ Len(h) = 3 /\ Len(h) \in Nat /\ 1 \in 1 .. Len(h)
      /\ \A k \in 1 .. Len(h) : k = 1 \/ k = 2 \/ k = 3
  OBVIOUS
<1> HIDE DEF h
<1>4. h[1].do = "status" /\ Succeeds(h[1])
  BY <1>2 DEF Status, Succeeds
<1>5. h[2].do = "try" /\ Refuses(h[2]) /\ h[2].pieces \in {<<>>, <<"bad_encoding">>}
  BY <1>2 DEF Try, Refuses
<1>6. h[3].do = "add" /\ h[3].text \in Texts /\ h[3].text # "token"
  BY <1>2 DEF Add, Texts
<1>7. Bare(h, 2)
  BY <1>4 DEF Bare, Adds, DB!Fetching
<1>8. WellFormedStep(h, 1)
  BY <1>4, PlainSteps, Zenon
<1>9. WellFormedStep(h, 2)
  BY <1>5, <1>7, PlainSteps, Zenon
<1>10. WellFormedStep(h, 3)
  BY <1>6, PlainSteps, Zenon
<1>11. Final(h, 1)
  BY <1>3, <1>4, <1>5, <1>6, SMTT(20) DEF Final
<1>12. WellFormed(h)
  BY <1>3, <1>8, <1>9, <1>10, <1>11, Zenon DEF WellFormed
<1> QED
  BY <1>1, <1>12, Zenon

\* login.
LEMMA LoginForm == WellFormed(login_handler)
<1> DEFINE h == <<Request, Authenticated, Try(500, <<>>), Add("token")>>
<1>1. h = login_handler
  BY DEF login_handler, login_service_authenticate
<1>2. /\ h[1] = Request /\ h[2] = Authenticated
      /\ h[3] = Try(500, <<>>) /\ h[4] = Add("token")
  OBVIOUS
<1>3. /\ Len(h) = 4 /\ Len(h) \in Nat /\ 2 \in 1 .. Len(h)
      /\ \A k \in 1 .. Len(h) : k = 1 \/ k = 2 \/ k = 3 \/ k = 4
  OBVIOUS
<1> HIDE DEF h
<1>4. h[1].do = "http"
  BY <1>2 DEF Request
<1>5. h[2].do = "login" /\ Succeeds(h[2])
  BY <1>2 DEF Authenticated, Succeeds
<1>6. h[3].do = "try" /\ Refuses(h[3]) /\ h[3].pieces \in {<<>>, <<"bad_encoding">>}
  BY <1>2 DEF Try, Refuses
<1>7. h[4].do = "add" /\ h[4].text \in Texts /\ h[4].text = "token"
  BY <1>2 DEF Add, Texts
<1>8. Bare(h, 2)
  BY <1>4 DEF Bare, Adds, DB!Fetching
<1>9. Bare(h, 3)
  BY <1>4, <1>5 DEF Bare, Adds, DB!Fetching
<1>10. WellFormedStep(h, 1)
  BY <1>4, PlainSteps, Zenon
<1>11. WellFormedStep(h, 2)
  BY <1>1, <1>3, <1>4, <1>5, <1>6, <1>7, <1>8, SMTT(20) DEF WellFormedStep
<1>12. WellFormedStep(h, 3)
  BY <1>6, <1>9, PlainSteps, Zenon
<1>13. WellFormedStep(h, 4)
  BY <1>1, <1>3, <1>4, <1>5, <1>6, <1>7, SMTT(20) DEF WellFormedStep
<1>14. Final(h, 2)
  BY <1>3, <1>5, <1>6, <1>7 DEF Final
<1>15. WellFormed(h)
  BY <1>3, <1>10, <1>11, <1>12, <1>13, <1>14, Zenon DEF WellFormed
<1> QED
  BY <1>1, <1>15, Zenon

\* upload.
LEMMA UploadForm == WellFormed(upload_handler)
<1> DEFINE h == <<Status(500), Try(500, <<>>), Try(400, <<"bad_encoding">>),
                Try(500, <<>>), Status(200), Add("file")>>
<1>1. h = upload_handler
  BY DEF upload_handler
<1>2. /\ h[1] = Status(500) /\ h[2] = Try(500, <<>>)
      /\ h[3] = Try(400, <<"bad_encoding">>) /\ h[4] = Try(500, <<>>)
      /\ h[5] = Status(200) /\ h[6] = Add("file")
  OBVIOUS
<1>3. /\ Len(h) = 6 /\ Len(h) \in Nat /\ 5 \in 1 .. Len(h)
      /\ \A k \in 1 .. Len(h) : k = 1 \/ k = 2 \/ k = 3 \/ k = 4 \/ k = 5 \/ k = 6
  OBVIOUS
<1> HIDE DEF h
<1>4. h[1].do = "status"
  BY <1>2 DEF Status
<1>5. h[2].do = "try" /\ Refuses(h[2]) /\ h[2].pieces \in {<<>>, <<"bad_encoding">>}
  BY <1>2 DEF Try, Refuses
<1>6. h[3].do = "try" /\ Refuses(h[3]) /\ h[3].pieces \in {<<>>, <<"bad_encoding">>}
  BY <1>2 DEF Try, Refuses
<1>7. h[4].do = "try" /\ Refuses(h[4]) /\ h[4].pieces \in {<<>>, <<"bad_encoding">>}
  BY <1>2 DEF Try, Refuses
<1>8. h[5].do = "status" /\ Succeeds(h[5])
  BY <1>2 DEF Status, Succeeds
<1>9. h[6].do = "add" /\ h[6].text \in Texts /\ h[6].text # "token"
  BY <1>2 DEF Add, Texts
<1>10. Bare(h, 2)
  BY <1>4 DEF Bare, Adds, DB!Fetching
<1>11. Bare(h, 3)
  BY <1>4, <1>5 DEF Bare, Adds, DB!Fetching
<1>12. Bare(h, 4)
  BY <1>4, <1>5, <1>6 DEF Bare, Adds, DB!Fetching
<1>13. WellFormedStep(h, 1)
  BY <1>4, PlainSteps, Zenon
<1>14. WellFormedStep(h, 2)
  BY <1>5, <1>10, PlainSteps, Zenon
<1>15. WellFormedStep(h, 3)
  BY <1>6, <1>11, PlainSteps, Zenon
<1>16. WellFormedStep(h, 4)
  BY <1>7, <1>12, PlainSteps, Zenon
<1>17. WellFormedStep(h, 5)
  BY <1>8, PlainSteps, Zenon
<1>18. WellFormedStep(h, 6)
  BY <1>9, PlainSteps, Zenon
<1>19. Final(h, 5)
  BY <1>3, <1>8, <1>9 DEF Final
<1>20. WellFormed(h)
  BY <1>3, <1>13, <1>14, <1>15, <1>16, <1>17, <1>18, <1>19, Zenon DEF WellFormed
<1> QED
  BY <1>1, <1>20, Zenon

\* coordinator2.
LEMMA Coordinator2Form == WellFormed(coordinator2_handler)
<1> DEFINE h == <<Status(200), Add("first"), Call("rs2json", DB_0, 500),
                Add("second"), Call("json", DB_1, 500), Add("closed")>>
<1>1. h = coordinator2_handler
  BY DEF coordinator2_handler
<1>2. /\ h[1] = Status(200) /\ h[2] = Add("first")
      /\ h[3] = Call("rs2json", DB_0, 500) /\ h[4] = Add("second")
      /\ h[5] = Call("json", DB_1, 500) /\ h[6] = Add("closed")
  OBVIOUS
<1>3. /\ Len(h) = 6 /\ Len(h) \in Nat /\ 1 \in 1 .. Len(h)
      /\ \A k \in 1 .. Len(h) : k = 1 \/ k = 2 \/ k = 3 \/ k = 4 \/ k = 5 \/ k = 6
  OBVIOUS
<1> HIDE DEF h
<1>4. h[1].do = "status" /\ Succeeds(h[1])
  BY <1>2 DEF Status, Succeeds
<1>5. h[2].do = "add" /\ h[2].text \in Texts /\ h[2].text # "token"
  BY <1>2 DEF Add, Texts
<1>6. h[3].do = "db" /\ h[3].op = "rs2json" /\ Refuses(h[3]) /\ h[3].op \in DB!Fetching
  BY <1>2 DEF Call, Refuses, DB!Fetching
<1>7. h[4].do = "add" /\ h[4].text \in Texts /\ h[4].text # "token"
  BY <1>2 DEF Add, Texts
<1>8. h[5].do = "db" /\ h[5].op = "json" /\ Refuses(h[5]) /\ h[5].op \in DB!Fetching
  BY <1>2 DEF Call, Refuses, DB!Fetching
<1>9. h[6].do = "add" /\ h[6].text \in Texts /\ h[6].text # "token"
  BY <1>2 DEF Add, Texts
<1>10. WellFormedStep(h, 1)
  BY <1>4, PlainSteps, Zenon
<1>11. WellFormedStep(h, 2)
  BY <1>5, PlainSteps, Zenon
<1>12. WellFormedStep(h, 3)
  BY <1>6, PlainSteps, Zenon
<1>13. WellFormedStep(h, 4)
  BY <1>7, PlainSteps, Zenon
<1>14. WellFormedStep(h, 5)
  BY <1>8, PlainSteps, Zenon
<1>15. WellFormedStep(h, 6)
  BY <1>9, PlainSteps, Zenon
<1>16. Final(h, 1)
  BY <1>3, <1>4, <1>5, <1>6, <1>7, <1>8, <1>9, SMTT(20) DEF Final
<1>17. WellFormed(h)
  BY <1>3, <1>10, <1>11, <1>12, <1>13, <1>14, <1>15, <1>16, Zenon DEF WellFormed
<1> QED
  BY <1>1, <1>17, Zenon

\* coordinator3.
LEMMA Coordinator3Form == WellFormed(coordinator3_handler)
<1> DEFINE h == <<Status(200), Call("single_row", DB_0, 500),
                Try(200, <<"nothing">>), Call("json", DB_1, 500)>>
<1>1. h = coordinator3_handler
  BY DEF coordinator3_handler
<1>2. /\ h[1] = Status(200) /\ h[2] = Call("single_row", DB_0, 500)
      /\ h[3] = Try(200, <<"nothing">>) /\ h[4] = Call("json", DB_1, 500)
  OBVIOUS
<1>3. /\ Len(h) = 4 /\ Len(h) \in Nat /\ 1 \in 1 .. Len(h)
      /\ \A k \in 1 .. Len(h) : k = 1 \/ k = 2 \/ k = 3 \/ k = 4
  OBVIOUS
<1> HIDE DEF h
<1>4. h[1].do = "status" /\ Succeeds(h[1])
  BY <1>2 DEF Status, Succeeds
<1>5. h[2].do = "db" /\ h[2].op = "single_row" /\ Refuses(h[2])
  BY <1>2 DEF Call, Refuses
<1>6. h[3].do = "try" /\ h[3].status = 200 /\ h[3].pieces = <<"nothing">>
  BY <1>2 DEF Try, Refuses
<1>7. h[4].do = "db" /\ h[4].op = "json" /\ Refuses(h[4]) /\ h[4].op \in DB!Fetching
  BY <1>2 DEF Call, Refuses, DB!Fetching
<1>8. Bare(h, 2)
  BY <1>4 DEF Bare, Adds, DB!Fetching
<1>9. Bare(h, 3)
  BY <1>4, <1>5 DEF Bare, Adds, DB!Fetching
<1>10. WellFormedStep(h, 1)
  BY <1>4, PlainSteps, Zenon
<1>11. WellFormedStep(h, 2)
  BY <1>5, <1>8, PlainSteps, Zenon
<1>12. WellFormedStep(h, 3)
  BY <1>1, <1>3, <1>4, <1>5, <1>6, <1>7, <1>9 DEF WellFormedStep
<1>13. WellFormedStep(h, 4)
  BY <1>7, PlainSteps, Zenon
<1>14. Final(h, 1)
  BY <1>3, <1>4, <1>5, <1>6, <1>7 DEF Final
<1>15. WellFormed(h)
  BY <1>3, <1>10, <1>11, <1>12, <1>13, <1>14, Zenon DEF WellFormed
<1> QED
  BY <1>1, <1>15, Zenon

\* Every endpoint's handler is well formed.
LEMMA HandlersWellFormed == \A h \in endpoint_handlers : WellFormed(h)
<1>1. \A t \in {"status", "version", "sysinfo", "metrics", "uuid"} : t \in Texts /\ t # "token"
  BY DEF Texts
<1>2. \A t \in {"status", "version", "sysinfo", "metrics", "uuid"} :
         WellFormed(<<Status(200), Add(t)>>)
  BY <1>1, SimpleForm
<1>3. /\ WellFormed(ping_handler) /\ WellFormed(version_handler) /\ WellFormed(sysinfo_handler)
      /\ WellFormed(metrics_handler) /\ WellFormed(uuid_handler)
  BY <1>2 DEF ping_handler, version_handler, sysinfo_handler, metrics_handler, uuid_handler
<1>4. exec_handler = Query("exec", DB_0)
  BY Zenon DEF exec_handler, Query
<1>5. /\ WellFormed(customer_handler) /\ WellFormed(sales_handler) /\ WellFormed(shippers_handler)
      /\ WellFormed(products_handler) /\ WellFormed(employee_handler) /\ WellFormed(prodget_handler)
      /\ WellFormed(supplier_handler) /\ WellFormed(customers_handler)
      /\ WellFormed(sales_pgsql_handler) /\ WellFormed(gasto_handler)
      /\ WellFormed(customerget_handler) /\ WellFormed(emp_orders_handler)
      /\ WellFormed(emp_ordersj_handler) /\ WellFormed(dummy_handler)
      /\ WellFormed(coordinator_handler) /\ WellFormed(exec_handler)
  BY <1>4, QueryForm, Zenon
     DEF customer_handler, sales_handler, shippers_handler, products_handler, employee_handler,
         prodget_handler, supplier_handler, customers_handler, sales_pgsql_handler, gasto_handler,
         customerget_handler, emp_orders_handler, emp_ordersj_handler, dummy_handler,
         coordinator_handler
<1> QED
  BY <1>3, <1>5, RsysinfoForm, RcustomerForm, GetqrForm, VerifytotpForm, Secretb32Form, LoginForm,
     UploadForm, Coordinator2Form, Coordinator3Form, Zenon
     DEF endpoint_handlers

----------------------------------------------------------------------------
(* Handlers: their documents *)

\* A step of a handler adds one piece, or none.
LEMMA ExtendedGrows ==
    ASSUME NEW p \in Seq(Texts), NEW s, s.do = "add" => s.text \in Texts
    PROVE  /\ Extended(p, s) \in Seq(Texts)
           /\ ~Adds(s) => Extended(p, s) = p
           /\ Adds(s) => Len(Extended(p, s)) = Len(p) + 1
           /\ Len(p) <= Len(Extended(p, s))
           /\ \A i \in 1 .. Len(p) : Extended(p, s)[i] = p[i]
<1>1. "remote" \in Texts /\ "whole" \in Texts
  BY DEF Texts
<1>2. CASE ~Adds(s)
  <2>1. Extended(p, s) = p
    BY <1>2, Zenon DEF Extended, Adds
  <2> QED
    BY <1>2, <2>1
<1>3. CASE Adds(s)
  <2>1. \E t \in Texts : Extended(p, s) = Append(p, t)
    BY <1>1, <1>3, Zenon DEF Extended, Adds
  <2>2. PICK t \in Texts : Extended(p, s) = Append(p, t)
    BY <2>1, Zenon
  <2> QED
    BY <1>3, <2>2
<1> QED
  BY <1>2, <1>3, Zenon

\* The pieces of a document, step by step.
LEMMA PiecesUnfold ==
    ASSUME NEW h, WellFormed(h)
    PROVE  /\ Pieces(h) \in [0 .. Len(h) -> Seq(Texts)]
           /\ Pieces(h)[0] = <<>>
           /\ \A k \in 1 .. Len(h) : Pieces(h)[k] = Extended(Pieces(h)[k - 1], h[k])
<1> DEFINE N == Len(h)
           G == [k \in 1 .. N |-> [p \in Seq(Texts) |-> Extended(p, h[k])]]
           Def(f) == f = [k \in 0 .. N |-> IF k = 0 THEN <<>> ELSE Extended(f[k - 1], h[k])]
<1>1. N \in Nat /\ \A k \in 1 .. N : h[k].do = "add" => h[k].text \in Texts
  BY Zenon DEF WellFormed, WellFormedStep
<1>2. \A k \in 1 .. N : \A p \in Seq(Texts) : Extended(p, h[k]) \in Seq(Texts)
  BY <1>1, ExtendedGrows, Zenon
<1>3. G \in Steps(Seq(Texts), N)
  BY <1>2, Zenon DEF Steps
<1>4. <<>> \in Seq(Texts)
  OBVIOUS
<1> HIDE DEF G
<1>5. PICK f \in [0 .. N -> Seq(Texts)] : f[0] = <<>> /\ \A n \in 1 .. N : f[n] = G[n][f[n - 1]]
  <2>1. Takes(Seq(Texts), N, <<>>, G)
    BY <1>1, <1>3, <1>4, Recursion, Zenon
  <2> QED
    BY <2>1, Zenon DEF Takes
<1> USE DEF G
<1>6. \A k \in 1 .. N : k - 1 \in 0 .. N /\ k \in 0 .. N /\ k # 0
  BY <1>1
<1>7. \A k \in 0 .. N : k # 0 => k \in 1 .. N
  BY <1>1
<1>8. \A k \in 1 .. N : f[k] = Extended(f[k - 1], h[k])
  BY <1>5, <1>6, Zenon
<1>9. Def(f)
  BY <1>5, <1>7, <1>8, Zenon
<1>10. Pieces(h) = CHOOSE g : Def(g)
  BY Zenon DEF Pieces
<1> HIDE DEF Def
<1>11. Def(Pieces(h))
  BY <1>9, <1>10, Zenon
<1> DEFINE P == Pieces(h)
<1> HIDE DEF P
<1>12. Def(P)
  BY <1>11, Zenon DEF P
<1>13. P = [k \in 0 .. N |-> IF k = 0 THEN <<>> ELSE Extended(P[k - 1], h[k])]
  BY <1>12, Zenon DEF Def
<1>14. 0 \in 0 .. N
  BY <1>1
<1>15. P[0] = <<>>
  BY <1>13, <1>14, Zenon
<1>16. \A k \in 1 .. N : P[k] = Extended(P[k - 1], h[k])
  BY <1>6, <1>13, Zenon
<1> DEFINE T == {k \in 0 .. N : P[k] \notin Seq(Texts)}
<1>17. T = {}
  <2>1. SUFFICES ASSUME T # {} PROVE FALSE
    BY Zenon
  <2>2. T \in SUBSET Nat
    BY <1>1
  <2>3. PICK n \in T : \A m \in T : n <= m
    BY <2>1, <2>2, Least, Zenon
  <2>4. n # 0 /\ n \in 0 .. N
    BY <1>4, <1>15, <2>3, Zenon
  <2>5. n \in 1 .. N /\ n - 1 \in 0 .. N /\ ~(n <= n - 1)
    BY <2>4, <1>1
  <2>6. P[n - 1] \in Seq(Texts)
    BY <2>3, <2>5, Zenon
  <2>7. P[n] \in Seq(Texts)
    BY <1>2, <1>16, <2>5, <2>6, Zenon
  <2> QED
    BY <2>3, <2>7, Zenon
<1>18. P \in [0 .. N -> Seq(Texts)]
  <2>1. \A k \in 0 .. N : P[k] \in Seq(Texts)
    BY <1>17, Zenon
  <2>2. P = [k \in 0 .. N |-> P[k]]
    BY <1>13, Zenon
  <2> QED
    BY <2>1, <2>2, Zenon
<1> QED
  BY <1>15, <1>16, <1>18, Zenon DEF P

\* What a document is after a step is where it begins after a later one.
LEMMA PiecesGrow ==
    ASSUME NEW h, WellFormed(h), NEW j \in 0 .. Len(h), NEW k \in j .. Len(h)
    PROVE  /\ Len(Pieces(h)[j]) <= Len(Pieces(h)[k])
           /\ \A i \in 1 .. Len(Pieces(h)[j]) : Pieces(h)[k][i] = Pieces(h)[j][i]
<1> DEFINE N == Len(h)
           P == Pieces(h)
           Begins(n) == Len(P[j]) <= Len(P[n]) /\ \A i \in 1 .. Len(P[j]) : P[n][i] = P[j][i]
           T == {n \in j .. N : ~Begins(n)}
<1>1. N \in Nat /\ \A n \in 1 .. N : h[n].do = "add" => h[n].text \in Texts
  BY Zenon DEF WellFormed, WellFormedStep
<1>2. P \in [0 .. N -> Seq(Texts)] /\ \A n \in 1 .. N : P[n] = Extended(P[n - 1], h[n])
  BY PiecesUnfold, Zenon
<1> HIDE DEF P, N
<1>3. T = {}
  <2>1. SUFFICES ASSUME T # {} PROVE FALSE
    BY Zenon
  <2>2. T \in SUBSET Nat
    BY <1>1 DEF N
  <2>3. PICK n \in T : \A m \in T : n <= m
    BY <2>1, <2>2, Least, Zenon
  <2>4. n \in j .. N
    BY <2>3, Zenon
  <2>5. Begins(j)
    BY <1>2 DEF N
  <2>6. n # j
    BY <2>3, <2>5, Zenon
  <2>7. n - 1 \in j .. N /\ n - 1 \in 0 .. N /\ n \in 1 .. N /\ ~(n <= n - 1)
    BY <1>1, <2>4, <2>6 DEF N
  <2>8. Begins(n - 1)
    BY <2>3, <2>7, Zenon
  <2>9. P[n - 1] \in Seq(Texts) /\ P[j] \in Seq(Texts)
    BY <1>2, <2>7, Zenon DEF N
  <2>10. P[n] = Extended(P[n - 1], h[n])
    BY <1>2, <2>7, Zenon
  <2>11. /\ P[n] \in Seq(Texts) /\ Len(P[n - 1]) <= Len(P[n])
         /\ \A i \in 1 .. Len(P[n - 1]) : P[n][i] = P[n - 1][i]
    <3>1. h[n].do = "add" => h[n].text \in Texts
      BY <1>1, <2>7, Zenon
    <3>2. /\ Extended(P[n - 1], h[n]) \in Seq(Texts)
          /\ Len(P[n - 1]) <= Len(Extended(P[n - 1], h[n]))
          /\ \A i \in 1 .. Len(P[n - 1]) : Extended(P[n - 1], h[n])[i] = P[n - 1][i]
      BY <2>9, <3>1, ExtendedGrows, Zenon
    <3> QED
      BY <2>10, <3>2, Zenon
  <2>12. Begins(n)
    <3> DEFINE p == P[j]
               q == P[n - 1]
               r == P[n]
    <3> HIDE DEF p, q, r
    <3>1. p \in Seq(Texts) /\ q \in Seq(Texts) /\ r \in Seq(Texts)
      BY <2>9, <2>11, Zenon DEF p, q, r
    <3>2. Len(p) <= Len(q) /\ Len(q) <= Len(r)
      BY <2>8, <2>11, Zenon DEF p, q, r
    <3>3. /\ \A i \in 1 .. Len(p) : q[i] = p[i]
          /\ \A i \in 1 .. Len(q) : r[i] = q[i]
      BY <2>8, <2>11, Zenon DEF p, q, r
    <3>4. Len(p) <= Len(r) /\ \A i \in 1 .. Len(p) : r[i] = p[i]
      BY <3>1, <3>2, <3>3
    <3> QED
      BY <3>4, Zenon DEF p, r
  <2> QED
    BY <2>3, <2>12, Zenon
<1>4. k \in j .. N
  BY DEF N
<1>5. Begins(k)
  BY <1>3, <1>4, Zenon
<1> QED
  BY <1>5, Zenon DEF P

\* Before a step that adds a piece, the pieces are a beginning of the document
\* that is not all of it.
LEMMA PiecesBegin ==
    ASSUME NEW h, WellFormed(h), NEW a \in 1 .. Len(h), Adds(h[a])
    PROVE  \E k \in 0 .. (Len(Document(h)) - 1) : Pieces(h)[a - 1] = SubSeq(Document(h), 1, k)
<1> DEFINE p == Pieces(h)[a - 1]
           q == Pieces(h)[a]
           d == Document(h)
<1>1. Len(h) \in Nat /\ (h[a].do = "add" => h[a].text \in Texts)
  BY Zenon DEF WellFormed, WellFormedStep
<1>2. a - 1 \in 0 .. Len(h) /\ a \in a - 1 .. Len(h) /\ a \in 0 .. Len(h) /\ Len(h) \in a .. Len(h)
      /\ Len(h) \in a - 1 .. Len(h) /\ Len(h) \in 0 .. Len(h)
  BY <1>1
<1>3. p \in Seq(Texts) /\ d \in Seq(Texts) /\ q = Extended(p, h[a])
  BY <1>2, PiecesUnfold, Zenon DEF Document
<1>4. Len(q) = Len(p) + 1
  BY <1>1, <1>3, ExtendedGrows, Zenon
<1>5. Len(q) <= Len(d)
  BY <1>2, PiecesGrow, Zenon DEF Document
<1>6. \A i \in 1 .. Len(p) : d[i] = p[i]
  BY <1>2, PiecesGrow, Zenon DEF Document
<1> HIDE DEF p, q, d
<1>7. Len(p) \in 0 .. (Len(d) - 1)
  BY <1>3, <1>4, <1>5
<1>8. p = SubSeq(d, 1, Len(p))
  BY <1>3, <1>6, <1>7
<1> QED
  BY <1>7, <1>8, Zenon DEF p, d

----------------------------------------------------------------------------
(* Handlers: what is in the reply *)

\* Nothing has failed yet: the buffer holds the pieces of the steps so far, a
\* step that decides on a success has been heard, and so has the provider if
\* a login was taken for good.  There is no token before it is added.
Success(s) == s = 200

TokenAdded(h, a) == \E k \in 1 .. a - 1 : h[k].do = "add" /\ h[k].text = "token"

OnTrack(h, a, b, s, code) ==
    /\ b = Pieces(h)[a - 1]
    /\ \A k \in 1 .. a - 1 : Final(h, k) => Success(s)
    /\ \A k \in 1 .. a - 1 : h[k].do = "login" => code = "answer"
    /\ Bare(h, a) => b = <<>>
    /\ TokenAdded(h, a) \/ \A i \in 1 .. Len(b) : b[i] # "token"

\* A beginning of the document, alone or with a part of what came next.
Beginning(h, b) ==
    \E k \in 0 .. (Len(Document(h)) - 1) :
       LET beginning == SubSeq(Document(h), 1, k)
       IN b = beginning \/ b = Append(beginning, "partial")

\* The handler gave up, or found nothing.
Over(h, b, s) ==
    \/ Success(s) /\ h = coordinator3_handler /\ b = <<"nothing">>
    \/ /\ s \notin {0, 200} /\ b # <<"token">>
       /\ b \in {<<>>, <<"error">>, <<"provider_error">>, <<"bad_encoding">>} \/ Beginning(h, b)

\* The numbers of the steps up to the next one.
LEMMA StepsSoFar ==
    ASSUME NEW n \in Nat, NEW a \in 1 .. n
    PROVE  /\ a \in Nat /\ a - 1 \in 0 .. n /\ a \in 0 .. n /\ (a + 1) - 1 = a
           /\ \A k \in 1 .. a - 1 : k \in 1 .. n /\ k \in 1 .. a /\ a \in k + 1 .. n /\ k # n
           /\ \A k \in 1 .. a : k = a \/ k \in 1 .. a - 1
           /\ a \in 1 .. a
OBVIOUS

\* Nothing was added before a handler starts.
LEMMA OnTrackStarts ==
    ASSUME NEW h, WellFormed(h), NEW s, NEW code
    PROVE  OnTrack(h, 1, <<>>, s, code)
<1>1. 1 .. 1 - 1 = {} /\ 1 - 1 = 0 /\ 1 .. Len(<<>>) = {}
  OBVIOUS
<1>2. Pieces(h)[0] = <<>>
  BY PiecesUnfold, Zenon
<1> QED
  BY <1>1, <1>2, Zenon DEF OnTrack

\* No request comes after a login.
LEMMA NoRequestSince ==
    ASSUME NEW h, WellFormed(h), NEW k \in 1 .. Len(h), h[k].do = "login", NEW a \in k + 1 .. Len(h)
    PROVE  h[a].do # "http"
<1>1. WellFormedStep(h, k)
  BY Zenon DEF WellFormed
<1> QED
  BY <1>1, Zenon DEF WellFormedStep

\* A step that works keeps the handler on its track.
LEMMA OnTrackStep ==
    ASSUME NEW h, WellFormed(h), NEW a \in 1 .. Len(h), NEW b, NEW s, NEW code,
           OnTrack(h, a, b, s, code), NEW t, NEW c,
           t = s \/ h[a].do \in {"status", "login"}, Final(h, a) => Success(t),
           c = code \/ h[a].do = "http", h[a].do = "login" => c = "answer"
    PROVE  OnTrack(h, a + 1, Extended(b, h[a]), t, c)
<1> DEFINE e == Extended(b, h[a])
<1>0. Len(h) \in Nat /\ WellFormedStep(h, a)
  BY Zenon DEF WellFormed
<1>1. /\ a \in Nat /\ a - 1 \in 0 .. Len(h) /\ a \in 0 .. Len(h) /\ (a + 1) - 1 = a
      /\ \A k \in 1 .. a - 1 : k \in 1 .. Len(h) /\ k \in 1 .. a /\ a \in k + 1 .. Len(h)
      /\ \A k \in 1 .. a : k = a \/ k \in 1 .. a - 1
      /\ a \in 1 .. a
  BY <1>0, StepsSoFar, Zenon
<1>2. b = Pieces(h)[a - 1] /\ b \in Seq(Texts) /\ Pieces(h)[a] = e
  BY <1>1, PiecesUnfold, Zenon DEF OnTrack
<1>3. /\ e \in Seq(Texts) /\ (~Adds(h[a]) => e = b) /\ (Adds(h[a]) => Len(e) = Len(b) + 1)
      /\ Len(b) <= Len(e) /\ \A i \in 1 .. Len(b) : e[i] = b[i]
  <2>1. h[a].do = "add" => h[a].text \in Texts
    BY <1>0, Zenon DEF WellFormedStep
  <2> QED
    BY <1>2, <2>1, ExtendedGrows, Zenon
<1>4. ASSUME NEW k \in 1 .. a, Final(h, k)
      PROVE  Success(t)
  <2>1. CASE k = a
    BY <1>4, <2>1, Zenon
  <2>2. CASE k \in 1 .. a - 1
    <3>1. h[a].do \notin {"status", "login"}
      BY <1>1, <1>4, <2>2, Zenon DEF Final
    <3> QED
      BY <1>4, <2>2, <3>1, Zenon DEF OnTrack
  <2> QED
    BY <1>1, <2>1, <2>2, Zenon
<1>5. ASSUME NEW k \in 1 .. a, h[k].do = "login"
      PROVE  c = "answer"
  <2>1. CASE k = a
    BY <1>5, <2>1, Zenon
  <2>2. CASE k \in 1 .. a - 1
    <3>1. h[a].do # "http"
      BY <1>1, <1>5, <2>2, NoRequestSince, Zenon
    <3> QED
      BY <1>5, <2>2, <3>1, Zenon DEF OnTrack
  <2> QED
    BY <1>1, <2>1, <2>2, Zenon
<1>6. Bare(h, a + 1) => e = <<>>
  <2>1. Bare(h, a + 1) => Bare(h, a) /\ ~Adds(h[a])
    BY <1>1, Zenon DEF Bare
  <2> QED
    BY <1>3, <2>1, Zenon DEF OnTrack
<1>7. TokenAdded(h, a + 1) \/ \A i \in 1 .. Len(e) : e[i] # "token"
  <2>1. TokenAdded(h, a) => TokenAdded(h, a + 1)
    BY <1>1, Zenon DEF TokenAdded
  <2>2. CASE \A i \in 1 .. Len(b) : b[i] # "token"
    <3>1. CASE ~Adds(h[a])
      BY <1>3, <2>2, <3>1, Zenon
    <3>2. CASE Adds(h[a])
      <4>1. PICK x : e = Append(b, x) /\ (x = "token" => h[a].do = "add" /\ h[a].text = "token")
        <5>1. "remote" # "token" /\ "whole" # "token"
          BY Zenon
        <5>2. \/ h[a].do = "add" /\ e = Append(b, h[a].text)
              \/ e = Append(b, "remote") \/ e = Append(b, "whole")
          BY <3>2, Zenon DEF Extended, Adds
        <5> QED
          BY <5>1, <5>2, Zenon
      <4>2. x = "token" => TokenAdded(h, a + 1)
        BY <1>1, <4>1, Zenon DEF TokenAdded
      <4>3. \A i \in 1 .. Len(e) : i \in 1 .. Len(b) \/ e[i] = x
        BY <1>2, <1>3, <3>2, <4>1, SMTT(20)
      <4> QED
        BY <1>3, <2>2, <4>2, <4>3, Zenon
    <3> QED
      BY <3>1, <3>2, Zenon
  <2> QED
    BY <2>1, <2>2, Zenon DEF OnTrack
<1> HIDE DEF e
<1>8. OnTrack(h, a + 1, e, t, c)
  BY <1>1, <1>2, <1>4, <1>5, <1>6, <1>7, Zenon DEF OnTrack
<1> QED
  BY <1>8, Zenon DEF e

\* A step that adds nothing and decides nothing.
LEMMA OnTrackIdle ==
    ASSUME NEW h, WellFormed(h), NEW a \in 1 .. Len(h), NEW b, NEW s, NEW code,
           OnTrack(h, a, b, s, code), ~Adds(h[a]), h[a].do \notin {"status", "login"}
    PROVE  OnTrack(h, a + 1, b, s, code)
<1>1. ~Final(h, a)
  BY Zenon DEF Final, Succeeds
<1>2. Extended(b, h[a]) = b
  BY Zenon DEF Extended, Adds
<1> QED
  BY <1>1, <1>2, OnTrackStep, Zenon

\* A request comes before any login.
LEMMA OnTrackRequest ==
    ASSUME NEW h, WellFormed(h), NEW a \in 1 .. Len(h), NEW b, NEW s, NEW code,
           OnTrack(h, a, b, s, code), h[a].do = "http", NEW c
    PROVE  OnTrack(h, a, b, s, c)
<1>1. \A k \in 1 .. a - 1 : k \in 1 .. Len(h) /\ a \in k + 1 .. Len(h)
  BY StepsSoFar, Zenon DEF WellFormed
<1>2. \A k \in 1 .. a - 1 : h[k].do # "login"
  BY <1>1, NoRequestSince, Zenon
<1> QED
  BY <1>2, Zenon DEF OnTrack

\* There is no token in the buffer while there are steps to come.
LEMMA NoTokenYet ==
    ASSUME NEW h, WellFormed(h), NEW a \in 1 .. Len(h), NEW b, NEW s, NEW code,
           OnTrack(h, a, b, s, code)
    PROVE  b \in Seq(Texts) /\ \A i \in 1 .. Len(b) : b[i] # "token"
<1>1. Len(h) \in Nat
  BY Zenon DEF WellFormed
<1>2. /\ a - 1 \in 0 .. Len(h)
      /\ \A k \in 1 .. a - 1 : k \in 1 .. Len(h) /\ k # Len(h)
  BY <1>1, StepsSoFar, Zenon
<1>3. b \in Seq(Texts)
  BY <1>2, PiecesUnfold, Zenon DEF OnTrack
<1>4. ~TokenAdded(h, a)
  BY <1>2, Zenon DEF TokenAdded, WellFormed, WellFormedStep
<1> QED
  BY <1>3, <1>4, Zenon DEF OnTrack

\* A call that fails leaves nothing, its error alone, or the beginning of the
\* document.
LEMMA CallFails ==
    ASSUME NEW h, WellFormed(h), NEW a \in 1 .. Len(h), NEW b, NEW s, NEW code,
           OnTrack(h, a, b, s, code), h[a].do = "db",
           NEW got \in {"empty", "partial", "error"}, h[a].op \notin DB!Fetching => got = "empty"
    PROVE  Over(h, after_call(b, got), h[a].status)
<1> DEFINE e == after_call(b, got)
<1>1. h[a].status \notin {0, 200} /\ (h[a].op \in DB!Fetching \/ Bare(h, a))
  <2>1. WellFormedStep(h, a)
    BY Zenon DEF WellFormed
  <2> QED
    BY <2>1, Zenon DEF WellFormedStep, Refuses
<1>2. b \in Seq(Texts) /\ \A i \in 1 .. Len(b) : b[i] # "token"
  BY NoTokenYet, Zenon
<1>3. \/ e = <<"error">> \/ e = b \/ (h[a].op \in DB!Fetching /\ e = Append(b, "partial"))
  BY Zenon DEF after_call
<1> HIDE DEF e
<1>4. e # <<"token">>
  <2>1. ASSUME b = <<"token">>
        PROVE  FALSE
    <3>1. 1 \in 1 .. Len(b) /\ b[1] = "token"
      BY <2>1
    <3> QED
      BY <1>2, <3>1, Zenon
  <2>2. ASSUME Append(b, "partial") = <<"token">>
        PROVE  FALSE
    <3>1. Append(b, "partial")[Len(b) + 1] = "partial" /\ Len(Append(b, "partial")) = Len(b) + 1
      BY <1>2
    <3>2. Len(b) + 1 = 1
      BY <2>2, <3>1, SMTT(20)
    <3>3. <<"token">>[1] = "partial"
      BY <2>2, <3>1, <3>2, Zenon
    <3>4. <<"token">>[1] = "token"
      OBVIOUS
    <3> QED
      BY <3>3, <3>4, Zenon
  <2> QED
    BY <1>3, <2>1, <2>2
<1>5. e \in {<<>>, <<"error">>} \/ Beginning(h, e)
  <2>1. CASE Bare(h, a)
    <3>1. b = <<>>
      BY <2>1, Zenon DEF OnTrack
    <3>2. CASE h[a].op \in DB!Fetching
      <4>1. PICK k \in 0 .. (Len(Document(h)) - 1) : b = SubSeq(Document(h), 1, k)
        BY <3>2, PiecesBegin, Zenon DEF Adds, OnTrack
      <4> QED
        BY <1>3, <4>1, Zenon DEF Beginning
    <3>3. CASE h[a].op \notin DB!Fetching
      BY <1>3, <3>1, <3>3, Zenon
    <3> QED
      BY <3>2, <3>3, Zenon
  <2>2. CASE h[a].op \in DB!Fetching
    <3>1. PICK k \in 0 .. (Len(Document(h)) - 1) : b = SubSeq(Document(h), 1, k)
      BY <2>2, PiecesBegin, Zenon DEF Adds, OnTrack
    <3> QED
      BY <1>3, <3>1, Zenon DEF Beginning
  <2> QED
    BY <1>1, <2>1, <2>2, Zenon
<1> QED
  BY <1>1, <1>4, <1>5, Zenon DEF Over, e

\* A handler that gives up before it adds anything.
LEMMA TryFails ==
    ASSUME NEW h, WellFormed(h), NEW a \in 1 .. Len(h), NEW b, NEW s, NEW code,
           OnTrack(h, a, b, s, code), h[a].do = "try"
    PROVE  Over(h, b \o h[a].pieces, h[a].status)
<1>1. /\ Bare(h, a)
      /\ \/ Refuses(h[a]) /\ h[a].pieces \in {<<>>, <<"bad_encoding">>}
         \/ h = coordinator3_handler /\ h[a].status = 200 /\ h[a].pieces = <<"nothing">>
  <2>1. WellFormedStep(h, a)
    BY Zenon DEF WellFormed
  <2> QED
    BY <2>1, Zenon DEF WellFormedStep
<1>2. b = <<>>
  BY <1>1, Zenon DEF OnTrack
<1>3. /\ <<>> \o <<>> = <<>> /\ <<>> \o <<"bad_encoding">> = <<"bad_encoding">>
      /\ <<>> \o <<"nothing">> = <<"nothing">>
      /\ <<>> # <<"token">> /\ <<"bad_encoding">> # <<"token">>
  OBVIOUS
<1>4. CASE h = coordinator3_handler /\ h[a].status = 200 /\ h[a].pieces = <<"nothing">>
  BY <1>2, <1>3, <1>4, Zenon DEF Over, Success
<1>5. CASE Refuses(h[a]) /\ h[a].pieces \in {<<>>, <<"bad_encoding">>}
  <2>1. b \o h[a].pieces \in {<<>>, <<"bad_encoding">>} /\ b \o h[a].pieces # <<"token">>
    BY <1>2, <1>3, <1>5, Zenon
  <2> QED
    BY <1>5, <2>1, Zenon DEF Over, Refuses
<1> QED
  BY <1>1, <1>4, <1>5, Zenon

\* The provider refuses, or cannot be asked.
LEMMA LoginFails ==
    ASSUME NEW h, WellFormed(h), NEW a \in 1 .. Len(h), NEW b, NEW s, NEW code,
           OnTrack(h, a, b, s, code), h[a].do = "login", NEW t, t \notin {0, 200}
    PROVE  Over(h, Append(b, "provider_error"), t)
<1>1. Bare(h, a)
  <2>1. WellFormedStep(h, a)
    BY Zenon DEF WellFormed
  <2> QED
    BY <2>1, Zenon DEF WellFormedStep
<1>2. b = <<>>
  BY <1>1, Zenon DEF OnTrack
<1>3. Append(<<>>, "provider_error") = <<"provider_error">> /\ <<"provider_error">> # <<"token">>
  OBVIOUS
<1> QED
  BY <1>2, <1>3, Zenon DEF Over

\* What the status of a request may be.
LEMMA StatusesOf ==
    ASSUME NEW c \in Codes
    PROVE  /\ 200 \in StatusOf(c) => c = "answer"
           /\ \A x \in StatusOf(c) \ {200} : (IF x = 0 THEN 500 ELSE x) \notin {0, 200}
<1>1. CASE c = "answer"
  <2>1. StatusOf(c) = {200, 302, 401, 503}
    BY <1>1 DEF StatusOf
  <2> QED
    BY <1>1, <2>1
<1>2. CASE c = "unavailable"
  <2>1. StatusOf(c) = {503}
    BY <1>2 DEF StatusOf
  <2> QED
    BY <1>2, <2>1
<1>3. CASE c = "internal"
  <2>1. StatusOf(c) = {500}
    BY <1>3 DEF StatusOf
  <2> QED
    BY <1>3, <2>1
<1>4. CASE c = "unset"
  <2>1. StatusOf(c) = {0}
    BY <1>4 DEF StatusOf
  <2> QED
    BY <1>4, <2>1
<1> QED
  BY <1>1, <1>2, <1>3, <1>4, Zenon DEF Codes

\* A handler without a token skips the requests it would be for.
LEMMA Skips ==
    ASSUME NEW h, WellFormed(h), NEW a \in 1 .. Len(h), NEW b, NEW s, NEW code,
           OnTrack(h, a, b, s, code), h[a].do \in {"cached", "granted"}
    PROVE  /\ a + 1 \in 1 .. Len(h) + 1 /\ a + 2 \in 1 .. Len(h) + 1
           /\ OnTrack(h, a + 1, b, s, code) /\ OnTrack(h, a + 2, b, s, code)
           /\ h[a].do = "cached" => /\ a + 3 \in 1 .. Len(h) + 1 /\ a + 4 \in 1 .. Len(h) + 1
                                    /\ OnTrack(h, a + 3, b, s, code)
                                    /\ OnTrack(h, a + 4, b, s, code)
<1> DEFINE Idle(k) == k \in 1 .. Len(h) /\ ~Adds(h[k]) /\ h[k].do \notin {"status", "login"}
<1>0. Len(h) \in Nat /\ WellFormedStep(h, a)
  BY Zenon DEF WellFormed
<1>1. \A k \in 1 .. Len(h) : h[k].do \in {"cached", "granted", "http"} => Idle(k)
  BY Zenon DEF Adds
<1>2. ASSUME NEW k, Idle(k), OnTrack(h, k, b, s, code)
      PROVE  OnTrack(h, k + 1, b, s, code)
  BY <1>2, OnTrackIdle, Zenon
<1>3. CASE h[a].do = "granted"
  <2>1. a + 1 <= Len(h) /\ h[a + 1].do = "http"
    BY <1>0, <1>3, Zenon DEF WellFormedStep
  <2>2. /\ a + 1 \in 1 .. Len(h) /\ a + 1 \in 1 .. Len(h) + 1 /\ a + 2 \in 1 .. Len(h) + 1
        /\ (a + 1) + 1 = a + 2
    BY <1>0, <2>1
  <2>3. Idle(a) /\ Idle(a + 1)
    BY <1>1, <1>3, <2>1, <2>2, Zenon
  <2> HIDE DEF Idle
  <2>4. OnTrack(h, a + 1, b, s, code)
    BY <1>2, <2>3, Zenon
  <2>5. OnTrack(h, (a + 1) + 1, b, s, code)
    BY <1>2, <2>3, <2>4, Zenon
  <2> QED
    BY <1>3, <2>2, <2>4, <2>5, Zenon
<1>4. CASE h[a].do = "cached"
  <2>1. a + 3 <= Len(h) /\ \A j \in a + 1 .. a + 3 : h[j].do \in {"http", "granted"}
    BY <1>0, <1>4, Zenon DEF WellFormedStep
  <2>2. /\ \A k \in {1, 2, 3} : a + k \in 1 .. Len(h) /\ a + k \in a + 1 .. a + 3
        /\ \A k \in {1, 2, 3, 4} : a + k \in 1 .. Len(h) + 1
        /\ (a + 1) + 1 = a + 2 /\ (a + 2) + 1 = a + 3 /\ (a + 3) + 1 = a + 4
    BY <1>0, <2>1
  <2>3. Idle(a)
    BY <1>1, <1>4, Zenon
  <2>4. \A k \in {1, 2, 3} : h[a + k].do \in {"http", "granted"}
    BY <2>1, <2>2, Zenon
  <2>5. \A k \in {1, 2, 3} : Idle(a + k)
    BY <1>1, <2>2, <2>4, Zenon
  <2> HIDE DEF Idle
  <2>6. Idle(a + 1) /\ Idle(a + 2) /\ Idle(a + 3)
    BY <2>5
  <2>7. OnTrack(h, a + 1, b, s, code)
    BY <1>2, <2>3, Zenon
  <2>8. OnTrack(h, a + 2, b, s, code)
    BY <1>2, <2>2, <2>6, <2>7, Zenon
  <2>9. OnTrack(h, a + 3, b, s, code)
    BY <1>2, <2>2, <2>6, <2>8, Zenon
  <2>10. OnTrack(h, a + 4, b, s, code)
    BY <1>2, <2>2, <2>6, <2>9, Zenon
  <2> QED
    BY <2>2, <2>7, <2>8, <2>9, <2>10, SMTT(20)
<1> QED
  BY <1>3, <1>4, Zenon

\* The inductive invariant of a reply: a handler that is running is on its
\* track, or it is over.
ReplyInv ==
    stage # "free" =>
       /\ handler \in endpoint_handlers /\ at \in 1 .. Len(handler) + 1
       /\ stage \in {"run", "db", "http"}
       /\ stage = "db" => at <= Len(handler) /\ step.do = "db" /\ op = step.op
       /\ stage = "http" => at <= Len(handler) /\ step.do = "http"
       /\ \/ OnTrack(handler, at, buf, status, http_code)
          \/ stage = "run" /\ at = Len(handler) + 1 /\ Over(handler, buf, status)

\* A handler with steps to come is on its track.
LEMMA Running ==
    ASSUME ReplyInv, stage # "free", at <= Len(handler)
    PROVE  /\ handler \in endpoint_handlers /\ WellFormed(handler) /\ Len(handler) \in Nat
           /\ at \in 1 .. Len(handler) /\ at + 1 \in 1 .. Len(handler) + 1
           /\ Len(handler) + 1 \in 1 .. Len(handler) + 1
           /\ OnTrack(handler, at, buf, status, http_code)
<1>1. handler \in endpoint_handlers /\ at \in 1 .. Len(handler) + 1
  BY Zenon DEF ReplyInv
<1>2. WellFormed(handler)
  BY <1>1, HandlersWellFormed, Zenon
<1>3. Len(handler) \in Nat
  BY <1>2, Zenon DEF WellFormed
<1>4. /\ at \in 1 .. Len(handler) /\ at + 1 \in 1 .. Len(handler) + 1 /\ at # Len(handler) + 1
      /\ Len(handler) + 1 \in 1 .. Len(handler) + 1
  BY <1>1, <1>3
<1>5. OnTrack(handler, at, buf, status, http_code)
  BY <1>4, Zenon DEF ReplyInv
<1> QED
  BY <1>1, <1>2, <1>3, <1>4, <1>5, Zenon

\* Where a step leaves the handler.
LEMMA Moves ==
    ASSUME stage' = "run", handler' = handler, handler \in endpoint_handlers,
           at' \in 1 .. Len(handler) + 1,
           \/ OnTrack(handler, at', buf', status', http_code')
           \/ at' = Len(handler) + 1 /\ Over(handler, buf', status')
    PROVE  ReplyInv'
<1>1. /\ handler' \in endpoint_handlers /\ at' \in 1 .. Len(handler') + 1
      /\ stage' \in {"run", "db", "http"}
      /\ \/ OnTrack(handler', at', buf', status', http_code')
         \/ stage' = "run" /\ at' = Len(handler') + 1 /\ Over(handler', buf', status')
  BY Zenon
<1>2. stage' # "db" /\ stage' # "http"
  BY Zenon
<1> QED
  BY <1>1, <1>2, Zenon DEF ReplyInv, OnTrack, Over, Beginning

\* The steps that are no calls.
LEMMA ReplyPlain ==
    ASSUME ReplyInv, set_status \/ evbuffer_add \/ append_remote_json_response
    PROVE  ReplyInv'
<1> DEFINE h == handler
<1>1. /\ stage = "run" /\ stage' = "run" /\ handler' = handler /\ at <= Len(handler) /\ at' = at + 1
      /\ http_code' = http_code /\ buf' = Extended(buf, h[at])
  BY Zenon DEF set_status, evbuffer_add, append_remote_json_response, AtStep, Goes, NoCall, vars,
               step, Extended
<1>2. /\ status' = status \/ h[at].do = "status"
      /\ Final(h, at) => Success(status')
      /\ h[at].do # "login"
  BY Zenon DEF set_status, evbuffer_add, append_remote_json_response, AtStep, step, Final,
               Succeeds, Success
<1>3. stage # "free"
  BY <1>1, Zenon
<1>4. /\ h \in endpoint_handlers /\ WellFormed(h)
      /\ at \in 1 .. Len(h) /\ at + 1 \in 1 .. Len(h) + 1
      /\ OnTrack(h, at, buf, status, http_code)
  BY <1>1, <1>3, Running, Zenon
<1>5. OnTrack(h, at + 1, buf', status', http_code')
  BY <1>1, <1>2, <1>4, OnTrackStep, Zenon
<1> QED
  BY <1>1, <1>4, <1>5, Moves, Zenon

\* What may fail on its own.
LEMMA ReplyTries ==
    ASSUME ReplyInv, tries
    PROVE  ReplyInv'
<1> DEFINE h == handler
<1>1. /\ stage = "run" /\ stage' = "run" /\ handler' = handler /\ at <= Len(handler)
      /\ http_code' = http_code /\ h[at].do = "try"
  BY Zenon DEF tries, AtStep, Goes, Ends, NoCall, vars, step
<1>2. \/ at' = at + 1 /\ buf' = buf /\ status' = status
      \/ at' = Len(h) + 1 /\ buf' = buf \o h[at].pieces /\ status' = h[at].status
  BY Zenon DEF tries, Goes, Ends, step
<1>3. /\ h \in endpoint_handlers /\ WellFormed(h)
      /\ at \in 1 .. Len(h) /\ at + 1 \in 1 .. Len(h) + 1
      /\ Len(h) + 1 \in 1 .. Len(h) + 1 /\ OnTrack(h, at, buf, status, http_code)
  BY <1>1, Running, Zenon
<1>4. OnTrack(h, at + 1, buf, status, http_code)
  <2>1. ~Adds(h[at]) /\ h[at].do \notin {"status", "login"}
    BY <1>1, Zenon DEF Adds
  <2> QED
    BY <1>3, <2>1, OnTrackIdle, Zenon
<1>5. Over(h, buf \o h[at].pieces, h[at].status)
  BY <1>1, <1>3, TryFails, Zenon
<1>6. CASE at' = at + 1 /\ buf' = buf /\ status' = status
  BY <1>1, <1>3, <1>4, <1>6, Moves, Zenon
<1>7. CASE at' = Len(h) + 1 /\ buf' = buf \o h[at].pieces /\ status' = h[at].status
  BY <1>1, <1>3, <1>5, <1>7, Moves, Zenon
<1> QED
  BY <1>2, <1>6, <1>7, Zenon

\* The steps that look for a token of the customer service.
LEMMA ReplySkips ==
    ASSUME ReplyInv, login_and_get_token \/ update_jwt_cache
    PROVE  ReplyInv'
<1> DEFINE h == handler
<1>1. /\ stage = "run" /\ stage' = "run" /\ handler' = handler /\ at <= Len(handler)
      /\ http_code' = http_code /\ buf' = buf /\ status' = status
      /\ h[at].do \in {"cached", "granted"}
      /\ \/ at' = at + 1 \/ at' = at + 2
         \/ h[at].do = "cached" /\ (at' = at + 3 \/ at' = at + 4)
  BY Zenon DEF login_and_get_token, update_jwt_cache, AtStep, Goes, NoCall, vars, step
<1>2. /\ h \in endpoint_handlers /\ WellFormed(h) /\ at \in 1 .. Len(h)
      /\ OnTrack(h, at, buf, status, http_code)
  BY <1>1, Running, Zenon
<1>3. at' \in 1 .. Len(h) + 1 /\ OnTrack(h, at', buf, status, http_code)
  BY <1>1, <1>2, Skips, Zenon
<1> QED
  BY <1>1, <1>2, <1>3, Moves, Zenon

\* The login.
LEMMA ReplyLogin ==
    ASSUME ReplyInv, http_code \in Codes, handle_login_success \/ handle_login_failure
    PROVE  ReplyInv'
<1> DEFINE h == handler
<1>1. /\ stage = "run" /\ stage' = "run" /\ handler' = handler /\ at <= Len(handler)
      /\ http_code' = http_code /\ h[at].do = "login"
  BY Zenon DEF handle_login_success, handle_login_failure, AtStep, Goes, Ends, NoCall, vars, step
<1>2. /\ h \in endpoint_handlers /\ WellFormed(h)
      /\ at \in 1 .. Len(h) /\ at + 1 \in 1 .. Len(h) + 1
      /\ Len(h) + 1 \in 1 .. Len(h) + 1 /\ OnTrack(h, at, buf, status, http_code)
  BY <1>1, Running, Zenon
<1>3. CASE handle_login_success
  <2>1. http_code = "answer"
    BY <1>3, StatusesOf, SMT DEF handle_login_success
  <2>2. at' = at + 1 /\ buf' = Extended(buf, h[at]) /\ Success(status')
    BY <1>1, <1>3, Zenon DEF handle_login_success, Goes, Extended, Success
  <2>3. OnTrack(h, at + 1, Extended(buf, h[at]), status', http_code)
    BY <1>1, <1>2, <2>1, <2>2, OnTrackStep, Zenon
  <2> QED
    BY <1>1, <1>2, <2>2, <2>3, Moves, Zenon
<1>4. CASE handle_login_failure
  <2>1. PICK code \in StatusOf(http_code) \ {200} : status' = IF code = 0 THEN 500 ELSE code
    BY <1>4, Zenon DEF handle_login_failure
  <2>2. status' \notin {0, 200}
    BY <2>1, StatusesOf, SMT
  <2>3. at' = Len(h) + 1 /\ buf' = Append(buf, "provider_error")
    BY <1>4, Zenon DEF handle_login_failure, Ends
  <2>4. Over(h, buf', status')
    BY <1>1, <1>2, <2>2, <2>3, LoginFails, Zenon
  <2> QED
    BY <1>1, <1>2, <2>3, <2>4, Moves, Zenon
<1> QED
  BY <1>3, <1>4, Zenon

\* The requests of a handler.
LEMMA ReplyRequests ==
    ASSUME ReplyInv, http_call \/ http_step \/ http_returns
    PROVE  ReplyInv'
<1> DEFINE h == handler
<1>1. /\ stage # "free" /\ at <= Len(h) /\ h[at].do = "http"
      /\ handler' = handler /\ buf' = buf /\ status' = status /\ stage' \in {"run", "http"}
      /\ \/ stage' = "http" /\ at' = at
         \/ stage' = "run" /\ at' = at + 1
  BY Zenon DEF http_call, http_step, http_returns, AtStep, step, ReplyInv
<1>2. /\ h \in endpoint_handlers /\ WellFormed(h)
      /\ at \in 1 .. Len(h) /\ at + 1 \in 1 .. Len(h) + 1
      /\ at \in 1 .. Len(h) + 1 /\ OnTrack(h, at, buf, status, http_code)
  BY <1>1, Running, Zenon DEF ReplyInv
<1>3. OnTrack(h, at, buf, status, http_code')
  BY <1>1, <1>2, OnTrackRequest, Zenon
<1>4. CASE stage' = "run" /\ at' = at + 1
  <2>1. OnTrack(h, at + 1, buf, status, http_code')
    <3>1. ~Adds(h[at]) /\ h[at].do \notin {"status", "login"}
      BY <1>1, Zenon DEF Adds
    <3> QED
      BY <1>2, <1>3, <3>1, OnTrackIdle, Zenon
  <2> QED
    BY <1>1, <1>2, <1>4, <2>1, Moves, Zenon
<1>5. CASE stage' = "http" /\ at' = at
  <2>1. /\ handler' \in endpoint_handlers /\ at' \in 1 .. Len(handler') + 1
        /\ at' <= Len(handler') /\ handler'[at'].do = "http"
        /\ OnTrack(handler', at', buf', status', http_code')
    BY <1>1, <1>2, <1>3, <1>5, Zenon
  <2> QED
    BY <1>5, <2>1, Zenon DEF ReplyInv, step, OnTrack
<1> QED
  BY <1>1, <1>4, <1>5, Zenon

\* The calls of dbapi.c.
LEMMA ReplyCalls ==
    ASSUME ReplyInv, db_call \/ db_step
    PROVE  ReplyInv'
<1> DEFINE h == handler
<1>1. /\ stage # "free" /\ at <= Len(h) /\ h[at].do = "db" /\ stage' = "db" /\ op' = h[at].op
      /\ handler' = handler /\ at' = at /\ buf' = buf /\ status' = status /\ http_code' = http_code
  <2>1. CASE db_call
    BY <2>1, Zenon DEF db_call, AtStep, step, vars
  <2>2. CASE db_step
    <3>1. op' = op
      BY <2>2, DbActions, DBP!CallStays, Zenon DEF db_step
    <3> QED
      BY <2>2, <3>1, Zenon DEF db_step, ReplyInv, step, vars
  <2> QED
    BY <2>1, <2>2, Zenon
<1>2. h \in endpoint_handlers /\ OnTrack(h, at, buf, status, http_code) /\ at \in 1 .. Len(h) + 1
  BY <1>1, Running, Zenon DEF ReplyInv
<1>3. /\ handler' \in endpoint_handlers /\ at' \in 1 .. Len(handler') + 1
      /\ at' <= Len(handler') /\ handler'[at'].do = "db" /\ op' = handler'[at'].op
      /\ OnTrack(handler', at', buf', status', http_code')
  BY <1>1, <1>2, Zenon
<1> QED
  BY <1>1, <1>3, Zenon DEF ReplyInv, step, OnTrack

\* A call returns.
LEMMA ReplyReturns ==
    ASSUME ReplyInv, DBP!TypeOK, DBP!ResultInv, db_returns
    PROVE  ReplyInv'
<1> DEFINE h == handler
<1>1. /\ stage = "db" /\ stage' = "run" /\ at <= Len(h) /\ h[at].do = "db" /\ op = h[at].op
      /\ handler' = handler /\ http_code' = http_code /\ buf' = after_call(buf, out_buf)
  BY Zenon DEF db_returns, ReplyInv, step, vars
<1>2. /\ h \in endpoint_handlers /\ WellFormed(h)
      /\ at \in 1 .. Len(h) /\ at + 1 \in 1 .. Len(h) + 1
      /\ Len(h) + 1 \in 1 .. Len(h) + 1 /\ OnTrack(h, at, buf, status, http_code)
  BY <1>1, Running, Zenon
<1>3. DBP!Fetching = DB!Fetching
  BY Zenon DEF DBP!Fetching, DB!Fetching
<1>4. /\ op \notin DB!Fetching => out_buf = "empty"
      /\ ok => (op \in DB!Fetching => out_buf = "whole")
      /\ ~ok => out_buf \in {"empty", "partial", "error"}
  BY <1>3, Zenon DEF DBP!ResultInv, DBP!TypeOK
<1>5. CASE ok /\ at' = at + 1 /\ status' = status
  <2>1. buf' = Extended(buf, h[at])
    BY <1>1, <1>4, <1>5, Zenon DEF after_call, Extended
  <2>2. ~Final(h, at) /\ h[at].do # "login"
    BY <1>1, Zenon DEF Final, Succeeds
  <2>3. OnTrack(h, at + 1, Extended(buf, h[at]), status, http_code)
    BY <1>2, <2>2, OnTrackStep, Zenon
  <2> QED
    BY <1>1, <1>2, <1>5, <2>1, <2>3, Moves, Zenon
<1>6. CASE ~ok /\ at' = Len(h) + 1 /\ status' = h[at].status
  <2>1. Over(h, after_call(buf, out_buf), h[at].status)
    BY <1>1, <1>2, <1>4, <1>6, CallFails, Zenon
  <2> QED
    BY <1>1, <1>2, <1>6, <2>1, Moves, Zenon
<1>7. \/ ok /\ at' = at + 1 /\ status' = status
      \/ ~ok /\ at' = Len(h) + 1 /\ status' = h[at].status
  BY Zenon DEF db_returns, failure_status, step
<1> QED
  BY <1>5, <1>6, <1>7, Zenon

\* Every step keeps the invariant of a reply.
LEMMA ReplyNext ==
    ASSUME ReplyInv, http_code \in Codes, DBP!TypeOK, DBP!ResultInv, [HandlersNext]_allvars
    PROVE  ReplyInv'
<1>1. CASE set_status \/ evbuffer_add \/ append_remote_json_response
  BY <1>1, ReplyPlain, Zenon
<1>2. CASE tries
  BY <1>2, ReplyTries, Zenon
<1>3. CASE login_and_get_token \/ update_jwt_cache
  BY <1>3, ReplySkips, Zenon
<1>4. CASE handle_login_success \/ handle_login_failure
  BY <1>4, ReplyLogin, Zenon
<1>5. CASE http_call \/ http_step \/ http_returns
  BY <1>5, ReplyRequests, Zenon
<1>6. CASE db_call \/ db_step
  BY <1>6, ReplyCalls, Zenon
<1>7. CASE db_returns
  BY <1>7, ReplyReturns, Zenon
<1>8. CASE handler_called
  <2>1. /\ stage' = "run" /\ handler' \in endpoint_handlers /\ at' = 1 /\ buf' = <<>>
    BY <1>8, Zenon DEF handler_called
  <2>2. WellFormed(handler')
    BY <2>1, HandlersWellFormed, Zenon
  <2>3. at' \in 1 .. Len(handler') + 1
    <3>1. Len(handler') \in Nat
      BY <2>2, Zenon DEF WellFormed
    <3> QED
      BY <2>1, <3>1
  <2>4. OnTrack(handler', at', buf', status', http_code')
    BY <2>1, <2>2, OnTrackStarts, Zenon
  <2> QED
    BY <2>1, <2>3, <2>4, Zenon DEF ReplyInv, OnTrack
<1>9. CASE handler_returns
  BY <1>9, Zenon DEF handler_returns, ReplyInv
<1>10. CASE thread_starts \/ thread_ends \/ thread_exits \/ UNCHANGED allvars
  <2>1. UNCHANGED <<stage, handler, at, buf, status, http_code>> /\ (stage = "db" => op' = op)
    <3>1. CASE thread_starts \/ thread_ends
      BY <3>1, Zenon DEF thread_starts, thread_ends, http_client_init_thread,
                         http_client_cleanup_thread, dbvars
    <3>2. CASE thread_exits
      BY <3>2, Zenon DEF thread_exits, DB!tl_hdbc_destructor, DB!call, vars
    <3>3. CASE UNCHANGED allvars
      BY <3>3, Zenon DEF allvars, vars, dbvars
    <3> QED
      BY <1>10, <3>1, <3>2, <3>3, Zenon
  <2> QED
    BY <2>1, Zenon DEF ReplyInv, OnTrack, Over, Beginning, step
<1> QED
  BY <1>1, <1>2, <1>3, <1>4, <1>5, <1>6, <1>7, <1>8, <1>9, <1>10, Zenon DEF HandlersNext

\* Every handler that runs is on its track or over.
LEMMA RepliesOnTrack == HandlersSpec => []ReplyInv
<1>1. HandlersInit => ReplyInv
  BY Zenon DEF HandlersInit, ReplyInv
<1>2. HttpInv => http_code \in Codes
  BY Zenon DEF HttpInv, TypeOK
<1>3. DBP!DbConstants
  BY HandlersConstants, Zenon DEF DB!DbConstants, DBP!DbConstants
<1>4. DBP!Spec => []DBP!DbInv
  BY <1>3, DBP!DbCorrect
<1>5. DBP!DbInv => DBP!TypeOK
  BY Zenon DEF DBP!DbInv
<1>6. ReplyInv /\ HttpInv /\ DBP!DbInv /\ DBP!ResultInv /\ [HandlersNext]_allvars => ReplyInv'
  BY <1>2, <1>5, ReplyNext, Zenon
<1> QED
  BY <1>1, <1>4, <1>6, ClientServesHandlers, HandlersUseDb, DBP!ResultsWhole, PTL DEF HandlersSpec

\* A reply of 200 carries the whole document of its handler, or the empty object
\* of one that found nothing; every path sets a status; and a token is given
\* out only for an answer of the provider (src/handlers.c).
THEOREM RepliesAreWhole == HandlersSpec => []RepliesInv
<1>1. ReplyInv => RepliesInv
  <2> SUFFICES ASSUME ReplyInv, Returned PROVE RepliesInv
    BY Zenon DEF RepliesInv, WholeOnSuccess, LoginVouched
  <2> DEFINE h == handler
  <2>1. h \in endpoint_handlers /\ at \in 1 .. Len(h) + 1 /\ at > Len(h)
    BY Zenon DEF ReplyInv, Returned
  <2>2. WellFormed(h) /\ Len(h) \in Nat
    BY <2>1, HandlersWellFormed, Zenon DEF WellFormed
  <2>3. at = Len(h) + 1 /\ at - 1 = Len(h)
    BY <2>1, <2>2
  <2>4. CASE OnTrack(h, at, buf, status, http_code)
    <3>1. PICK k \in 1 .. Len(h) : Final(h, k)
      BY <2>2, Zenon DEF WellFormed
    <3>2. Success(status) /\ buf = Document(h)
      BY <2>3, <2>4, <3>1, Zenon DEF OnTrack, Document
    <3>3. buf = <<"token">> => http_code = "answer"
      <4>1. SUFFICES ASSUME buf = <<"token">> PROVE http_code = "answer"
        BY Zenon
      <4>2. 1 \in 1 .. Len(buf) /\ buf[1] = "token"
        BY <4>1
      <4>3. TokenAdded(h, at)
        BY <2>4, <4>2, Zenon DEF OnTrack
      <4>4. PICK n \in 1 .. Len(h) : h[n].do = "add" /\ h[n].text = "token"
        BY <2>3, <4>3, Zenon DEF TokenAdded
      <4>5. PICK j \in 1 .. n - 1 : h[j].do = "login"
        BY <2>2, <4>4, Zenon DEF WellFormed, WellFormedStep
      <4>6. j \in 1 .. at - 1
        BY <2>2, <2>3
      <4> QED
        BY <2>4, <4>5, <4>6, Zenon DEF OnTrack
    <3>4. status = 200 /\ status # 0
      BY <3>2 DEF Success
    <3> QED
      BY <3>2, <3>3, <3>4, Zenon DEF RepliesInv, WholeOnSuccess, LoginVouched
  <2>5. CASE Over(h, buf, status)
    <3>1. <<"nothing">> # <<"token">>
      OBVIOUS
    <3>2. CASE Success(status) /\ h = coordinator3_handler /\ buf = <<"nothing">>
      <4>1. status # 0
        BY <3>2 DEF Success
      <4> QED
        BY <3>1, <3>2, <4>1, Zenon DEF RepliesInv, WholeOnSuccess, LoginVouched
    <3>3. CASE status \notin {0, 200} /\ buf # <<"token">>
      BY <3>3, Zenon DEF RepliesInv, WholeOnSuccess, LoginVouched
    <3> QED
      BY <2>5, <3>2, <3>3, Zenon DEF Over
  <2> QED
    BY <2>4, <2>5, Zenon DEF ReplyInv, Returned
<1> QED
  BY <1>1, RepliesOnTrack, PTL

\* A reply that is not 200 carries nothing, one error object alone, or the
\* beginning of a document, wherever its handler failed and in whichever of its
\* calls (after_call; src/handlers.c).
THEOREM FailuresAreClean == HandlersSpec => []FailuresInv
<1>1. ReplyInv => FailuresInv
  <2> SUFFICES ASSUME ReplyInv, Returned, status # 200
               PROVE  \/ buf \in {<<>>, <<"error">>, <<"provider_error">>, <<"bad_encoding">>}
                      \/ Beginning(handler, buf)
    BY Zenon DEF FailuresInv, Beginning
  <2> DEFINE h == handler
  <2>0. ~Success(status)
    BY Zenon DEF Success
  <2>1. h \in endpoint_handlers /\ at \in 1 .. Len(h) + 1 /\ at > Len(h)
    BY Zenon DEF ReplyInv, Returned
  <2>2. WellFormed(h) /\ Len(h) \in Nat
    BY <2>1, HandlersWellFormed, Zenon DEF WellFormed
  <2>3. at = Len(h) + 1 /\ at - 1 = Len(h)
    BY <2>1, <2>2
  <2>4. PICK k \in 1 .. Len(h) : Final(h, k)
    BY <2>2, Zenon DEF WellFormed
  <2>5. ~OnTrack(h, at, buf, status, http_code)
    BY <2>0, <2>3, <2>4, Zenon DEF OnTrack
  <2>6. Over(h, buf, status)
    BY <2>5, Zenon DEF ReplyInv, Returned
  <2> QED
    BY <2>0, <2>6, Zenon DEF Over
<1> QED
  BY <1>1, RepliesOnTrack, PTL
=============================================================================
