------------------------------ MODULE Handlers ------------------------------
(***************************************************************************)
(* The handlers of src/handlers.c as one worker thread runs them, one      *)
(* request after the other, together with the thread's HTTP client and its *)
(* database connections: what a handler leaves in the task's buffer and in *)
(* its status, whichever of the calls it makes fails, and wherever.        *)
(*                                                                         *)
(* A handler is the sequence of its steps.  The buffer holds the pieces    *)
(* that were added to it.  Parameters, rows and wording are left out; the  *)
(* checks of a request before its handler runs are in module Pipeline.     *)
(***************************************************************************)
EXTENDS HttpClient, Sequences

CONSTANTS DB_0, DB_1, Handles, NoHandle

VARIABLES tl_hdbc, tl_hstmt, live, owner, dirty, registered, dbpc, op, db, hstmt, meta,
          native, own, lost, out_buf, ok, misuse

DB == INSTANCE DbConnection WITH Dbs <- {DB_0, DB_1}, pc <- dbpc

ASSUME HandlersConstants == DB_0 # DB_1 /\ DB!DbConstants

VARIABLES stage,    \* "free", "run", or in a call: "db" or "http"
          handler,  \* the steps of the handler
          at,       \* the step it is at
          buf,      \* task->worker_buf: the pieces in it
          status    \* task->status_code

dbvars == <<tl_hdbc, tl_hstmt, live, owner, dirty, registered, dbpc, op, db, hstmt, meta,
            native, own, lost, out_buf, ok, misuse>>
allvars == <<vars, dbvars, stage, handler, at, buf, status>>

----------------------------------------------------------------------------
(* The steps of handlers *)

\* The status is set; a piece is added to the buffer.
Status(s) == [do |-> "status", status |-> s]
Add(text) == [do |-> "add", text |-> text]

\* Something that may fail: the handler ends with that status and pieces.
Try(s, pieces) == [do |-> "try", status |-> s, pieces |-> pieces]

\* A call of dbapi.c; if it returns false the handler ends with that status.
Call(o, d, s) == [do |-> "db", op |-> o, db |-> d, status |-> s]

\* A request of http_client.c, and what is made of its answer.
Request == [do |-> "http"]
Remote == [do |-> "remote"]
Authenticated == [do |-> "login"]

\* customer.c: whether a token is cached, and whether a new one was granted.
\* Both lead to the step of the answer if there is no token.
Cached == [do |-> "cached"]
Granted == [do |-> "granted"]

----------------------------------------------------------------------------
(* The handlers.  An error status is set as the handler returns.  Left out *)
(* are two answers 400 that the pipeline makes impossible: rcustomer's for *)
(* a missing id, which its schema requires, and getqr's for a missing user, *)
(* whom the token names. *)

Query(o, d) == <<Status(200), Call(o, d, 500)>>

\* totp.c, login.c and customer.c, as their handlers call them.
get_secret(failed, none) == <<Call("single_row", DB_0, failed), Try(none, <<>>)>>
totp_generate_svg == get_secret(500, 404) \o <<Try(500, <<>>), Add("svg"), Status(200)>>
is_valid_totp == get_secret(401, 401) \o <<Try(401, <<>>)>>
totp_generate_base32_secret == <<Try(500, <<>>)>>
login_service_authenticate == <<Request>>
customer_service_get_info == <<Cached, Request, Granted, Request>>

ping_handler == <<Status(200), Add("status")>>
version_handler == <<Status(200), Add("version")>>
sysinfo_handler == <<Status(200), Add("sysinfo")>>
metrics_handler == <<Status(200), Add("metrics")>>
rsysinfo_handler == <<Status(200), Request, Remote>>
rcustomer_handler == <<Status(200)>> \o customer_service_get_info \o <<Remote>>
customer_handler == Query("json", DB_0)
sales_handler == Query("json", DB_0)
shippers_handler == Query("json", DB_0)
products_handler == Query("json", DB_0)
getqr_handler == totp_generate_svg
verifytotp_handler == is_valid_totp \o <<Status(200), Add("status")>>
uuid_handler == <<Status(200), Add("uuid")>>
secretb32_handler == <<Status(200)>> \o totp_generate_base32_secret \o <<Add("secret")>>
login_handler == login_service_authenticate \o <<Authenticated, Try(500, <<>>), Add("token")>>
employee_handler == Query("rs2json", DB_0)
prodget_handler == Query("rs2json", DB_0)
supplier_handler == Query("rs2json", DB_0)
customers_handler == Query("json", DB_0)
sales_pgsql_handler == Query("json", DB_1)
gasto_handler == Query("rs2json", DB_0)
customerget_handler == Query("rs2json_m", DB_0)
emp_orders_handler == Query("rs2json_m", DB_0)
emp_ordersj_handler == Query("json", DB_1)
dummy_handler == Query("rs2json", DB_0)
coordinator_handler == Query("rs2json_m", DB_0)

\* The directory, the size, the memory; the encoding; the file and its bytes.
upload_handler == <<Status(500), Try(500, <<>>), Try(400, <<"bad_encoding">>), Try(500, <<>>),
                    Status(200), Add("file")>>

coordinator2_handler == <<Status(200), Add("first"), Call("rs2json", DB_0, 500), Add("second"),
                          Call("json", DB_1, 500), Add("closed")>>

\* No such employee is a success with an empty object.
coordinator3_handler == <<Status(200), Call("single_row", DB_0, 500), Try(200, <<"nothing">>),
                          Call("json", DB_1, 500)>>

\* An application may also change something, and answer with nothing.
exec_handler == <<Status(200), Call("exec", DB_0, 500)>>

endpoint_handlers ==
    {ping_handler, version_handler, sysinfo_handler, metrics_handler, rsysinfo_handler,
     rcustomer_handler, customer_handler, sales_handler, shippers_handler, products_handler,
     getqr_handler, verifytotp_handler, uuid_handler, secretb32_handler, login_handler,
     employee_handler, prodget_handler, supplier_handler, customers_handler,
     sales_pgsql_handler, upload_handler, gasto_handler, customerget_handler,
     emp_orders_handler, emp_ordersj_handler, dummy_handler, coordinator_handler,
     coordinator2_handler, coordinator3_handler, exec_handler}

HandlersInit ==
    /\ Init /\ DB!Init /\ db = DB_0
    /\ stage = "free" /\ handler = <<>> /\ at = 1 /\ buf = <<>> /\ status = 0

----------------------------------------------------------------------------
(* The thread runs a handler *)

step == handler[at]
AtStep(kind) == stage = "run" /\ at <= Len(handler) /\ step.do = kind
Goes(k) == at' = at + k /\ UNCHANGED <<stage, handler>>
Ends == at' = Len(handler) + 1 /\ UNCHANGED <<stage, handler>>
NoCall == UNCHANGED <<vars, dbvars>>

\* worker_process_task calls the handler of a request, with a clean task.
handler_called ==
    /\ stage = "free" /\ pc = "idle"
    /\ stage' = "run" /\ handler' \in endpoint_handlers
    /\ at' = 1 /\ buf' = <<>> /\ status' = 0
    /\ NoCall

set_status == AtStep("status") /\ status' = step.status /\ Goes(1) /\ NoCall /\ UNCHANGED buf

evbuffer_add == AtStep("add") /\ buf' = Append(buf, step.text) /\ Goes(1) /\ NoCall /\ UNCHANGED status

\* It works, or the handler is over.
tries ==
    /\ AtStep("try")
    /\ \/ Goes(1) /\ UNCHANGED <<buf, status>>
       \/ Ends /\ buf' = buf \o step.pieces /\ status' = step.status
    /\ NoCall

----------------------------------------------------------------------------
(* Calls of dbapi.c *)

db_call ==
    /\ AtStep("db")
    /\ DB!begin /\ op' = step.op /\ db' = step.db
    /\ stage' = "db"
    /\ UNCHANGED <<vars, handler, at, buf, status>>

db_step == stage = "db" /\ DB!CallStep /\ UNCHANGED <<vars, stage, handler, at, buf, status>>

\* Mutant: the error object follows what is in the buffer.
after_call_Appends(pieces, got) == IF got = "empty" THEN pieces ELSE Append(pieces, got)

\* What a call leaves in the buffer: its rows after what was there, or an
\* error object, before which the whole buffer is drained.
after_call(pieces, got) ==
    IF got = "error" THEN <<"error">> ELSE IF got = "empty" THEN pieces ELSE Append(pieces, got)

\* Mutant: the handler does not look at the result of its call.
failure_status_Ignored(s) == status

failure_status(s) == s

db_returns ==
    /\ stage = "db" /\ DB!db_cleanup_stmt
    /\ stage' = "run"
    /\ buf' = after_call(buf, out_buf)
    /\ \/ ok /\ at' = at + 1 /\ UNCHANGED status
       \/ ~ok /\ at' = Len(handler) + 1 /\ status' = failure_status(step.status)
    /\ UNCHANGED <<vars, handler>>

----------------------------------------------------------------------------
(* Requests of http_client.c *)

http_call == /\ AtStep("http") /\ build_request_url
             /\ stage' = "http"
             /\ UNCHANGED <<dbvars, handler, at, buf, status>>

http_step ==
    /\ stage = "http"
    /\ \/ setup_curl_request \/ curl_slist_append \/ curl_easy_perform \/ over_limit
       \/ write_memory_cb \/ out_of_memory \/ transfer_fails \/ do_http_request
    /\ UNCHANGED <<dbvars, stage, handler, at, buf, status>>

http_returns == /\ stage = "http" /\ request_returns
                /\ stage' = "run" /\ at' = at + 1
                /\ UNCHANGED <<dbvars, handler, buf, status>>

\* append_remote_json_response: the remote status and data, which may be null.
append_remote_json_response ==
    /\ AtStep("remote")
    /\ buf' = Append(buf, "remote")
    /\ Goes(1) /\ NoCall /\ UNCHANGED status

\* login_and_get_token: a token is cached, is asked for, or is not asked for so
\* soon after a failure.
login_and_get_token ==
    /\ AtStep("cached")
    /\ Goes(1) \/ Goes(3) \/ Goes(4)
    /\ NoCall /\ UNCHANGED <<buf, status>>

\* execute_login_request has its answer: a token, or none.
update_jwt_cache ==
    /\ AtStep("granted")
    /\ \/ http_code = "answer" /\ result = "body" /\ Goes(1)
       \/ Goes(2)
    /\ NoCall /\ UNCHANGED <<buf, status>>

\* What http_code may be after a request: the status of the answer, which is
\* left open, or one of the client's own.
StatusOf(code) == CASE code = "answer" -> {200, 302, 401, 503}
                    [] code = "unavailable" -> {503}
                    [] code = "internal" -> {500}
                    [] code = "unset" -> {0}

\* jwt_create comes next, and may fail.
handle_login_success == /\ AtStep("login") /\ 200 \in StatusOf(http_code)
                        /\ status' = 200
                        /\ Goes(1) /\ NoCall /\ UNCHANGED buf

handle_login_failure == /\ AtStep("login")
                        /\ \E code \in StatusOf(http_code) \ {200} :
                              status' = IF code = 0 THEN 500 ELSE code
                        /\ buf' = Append(buf, "provider_error")
                        /\ Ends /\ NoCall

----------------------------------------------------------------------------
(* The thread *)

\* The handler has returned: its reply is sent.
handler_returns ==
    /\ stage = "run" /\ at > Len(handler)
    /\ stage' = "free" /\ handler' = <<>> /\ at' = 1 /\ buf' = <<>> /\ status' = 0
    /\ NoCall

thread_starts == http_client_init_thread /\ UNCHANGED <<dbvars, stage, handler, at, buf, status>>

thread_ends == /\ stage = "free" /\ http_client_cleanup_thread
               /\ UNCHANGED <<dbvars, stage, handler, at, buf, status>>

\* The destructors of the thread's keys run after its function.
thread_exits == /\ pc = "exited" /\ DB!tl_hdbc_destructor
                /\ UNCHANGED <<vars, stage, handler, at, buf, status>>

HandlersNext ==
    \/ thread_starts \/ thread_ends \/ thread_exits
    \/ handler_called \/ handler_returns
    \/ set_status \/ evbuffer_add \/ tries
    \/ db_call \/ db_step \/ db_returns
    \/ http_call \/ http_step \/ http_returns
    \/ append_remote_json_response \/ login_and_get_token \/ update_jwt_cache
    \/ handle_login_success \/ handle_login_failure
    \/ dbpc = "exited" /\ UNCHANGED allvars

HandlersSpec == HandlersInit /\ [][HandlersNext]_allvars

----------------------------------------------------------------------------
(* Properties *)

Returned == stage = "run" /\ at > Len(handler)

\* The pieces of a document, and what step s of its handler adds to them.
Extended(pieces, s) ==
    IF s.do = "add" THEN Append(pieces, s.text)
    ELSE IF s.do = "remote" THEN Append(pieces, "remote")
    ELSE IF s.do = "db" /\ s.op \in DB!Fetching THEN Append(pieces, "whole")
    ELSE pieces

\* The pieces after each step of handler h, when none fails.
Pieces(h) ==
    LET pieces[k \in 0..Len(h)] == IF k = 0 THEN <<>> ELSE Extended(pieces[k - 1], h[k])
    IN pieces

\* The whole document of a handler.
Document(h) == Pieces(h)[Len(h)]

\* A reply of 200 carries the whole document of its handler, or the empty object
\* of one that found nothing: no call that failed half-way, and none whose
\* error was dealt with, is taken for a success.
WholeOnSuccess ==
    Returned /\ status = 200 =>
       buf = Document(handler) \/ (handler = coordinator3_handler /\ buf = <<"nothing">>)

\* A login gives out a token only if the provider answered this very request.
LoginVouched == Returned /\ buf = <<"token">> => http_code = "answer" /\ status = 200

\* Every handler sets a status on every path, a success is whole, and a token
\* is vouched for.
RepliesInv == /\ Returned => status # 0
              /\ WholeOnSuccess /\ LoginVouched

\* A reply that is not 200 carries nothing, or one error object with nothing
\* before or after it, or the beginning of a document: an error of the second
\* of two databases takes back what the first one gave.
FailuresInv ==
    Returned /\ status # 200 =>
       \/ buf \in {<<>>, <<"error">>, <<"provider_error">>, <<"bad_encoding">>}
       \/ \E k \in 0..(Len(Document(handler)) - 1) :
             LET beginning == SubSeq(Document(handler), 1, k)
             IN buf = beginning \/ buf = Append(beginning, "partial")

\* The handles of the thread's databases are sound; see DbConnection.
DbInv == DB!DbInv

\* An error object stands for an error of the call that wrote it; see
\* DbConnection.
ErrorIsOwn == DB!ErrorIsOwn
=============================================================================
