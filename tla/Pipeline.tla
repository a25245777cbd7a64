------------------------------ MODULE Pipeline ------------------------------
(***************************************************************************)
(* What one request goes through: the checks api_middleware_wrapper makes  *)
(* on the reactor (lib/server.c), the checks, the handler and the clean-up *)
(* of worker_process_task on a worker (lib/worker_pool.c), and the reply   *)
(* process_completed_task builds back on the reactor.  The worker keeps    *)
(* the user, the content type, the error and the request id of the request *)
(* at hand in thread-local variables (lib/context.c, lib/thread_error.c,   *)
(* lib/logger.c), which outlive the request, so one worker serves one      *)
(* request after the other here.                                           *)
(*                                                                         *)
(* A request is what its checks make of it.  A thread-local holds the      *)
(* number of the request its value came from, 0 when it is empty; the user *)
(* is the one that the request's token names.                              *)
(*                                                                         *)
(* Tokens are those of lib/jwt.c: the login handler creates one, clients   *)
(* present it later, and the worker verifies it.  A token has an age in    *)
(* place of its times of issue and expiry.                                 *)
(***************************************************************************)
EXTENDS Integers

CONSTANTS MaxRequests,   \* bound: requests told apart; the next one reuses the first's number
          Users,         \* names that fit task->username
          WideUsers,     \* names of as many characters that take more bytes than fit
          NoUser,
          JWT_TIMEOUT    \* config_get_jwt_timeout_seconds()

ASSUME PipelineConstants == /\ MaxRequests \in Nat \ {0, 1}
                            /\ NoUser \notin Users \cup WideUsers
                            /\ JWT_TIMEOUT \in Nat

\* The kinds of routes the table of main.c has.
Routes == {[method |-> "GET",  schema |-> FALSE, auth |-> "NONE"],
           [method |-> "GET",  schema |-> FALSE, auth |-> "API_KEY"],
           [method |-> "GET",  schema |-> FALSE, auth |-> "JWT"],
           [method |-> "POST", schema |-> TRUE,  auth |-> "NONE"],
           [method |-> "POST", schema |-> TRUE,  auth |-> "JWT"]}

\* The only route where a POST needs no token.
login_route == [method |-> "POST", schema |-> TRUE, auth |-> "NONE"]

\* A token that was signed here; what else a client may send in its place.  An
\* age beyond the timeout is as good as any other.
Ages == 0 .. JWT_TIMEOUT + 1
Signed == [form : {"signed"}, user : Users \cup WideUsers, age : Ages]
NoToken == [form |-> "none", user |-> NoUser, age |-> 0]
BadToken == [form |-> "bad", user |-> NoUser, age |-> 0]
Tokens == Signed \cup {NoToken, BadToken}

\* What a client may send: an origin that is allowed, or none, or another; a
\* method, a telemetry key, a bearer token, and with a POST a body.
Messages(tokens) ==
    {m \in [origin : {"allowed", "other"}, method : {"GET", "POST", "OPTIONS"},
            key : BOOLEAN, token : tokens,
            body : {"not JSON type", "empty", "malformed", "rejected", "valid"}] :
        m.method # "POST" => m.body = "empty"}

VARIABLES n,                 \* the number of the request being served
          route, msg,        \* it
          pc,                \* where it is
          cancelled,         \* whether its client has gone
          status,            \* task->status_code
          worker_buf,        \* whether the task's buffer holds something
          parsed_body,       \* what the body was parsed to
          out_content_type,  \* whose content type the reply will have
          tl_user, tl_content_type, tl_err, tl_request_id,
          err_level,         \* tl_err_level
          logged,            \* the requests the worker logged an error for: the
                             \* id on the line and whose error it was
          reply,             \* the status and whether there is a body
          issued             \* the token that a login gave out last

task == <<status, worker_buf, parsed_body, out_content_type>>
locals == <<tl_user, tl_content_type, tl_err, tl_request_id, err_level>>
vars == <<n, route, msg, pc, cancelled, task, locals, logged, reply, issued>>

Owner == 0 .. MaxRequests
Statuses == {0, 200, 204, 400, 401, 403, 405, 500, 503}
NoReply == [status |-> 0, body |-> FALSE]

TypeOK == /\ n \in Owner
          /\ route \in Routes /\ msg \in Messages(Tokens)
          /\ pc \in {"idle", "middleware", "jwt", "payload", "validation", "handler",
                     "finish", "completed"}
          /\ cancelled \in BOOLEAN
          /\ status \in Statuses /\ worker_buf \in BOOLEAN
          /\ parsed_body \in {"none", "rejected", "valid"}
          /\ out_content_type \in Owner
          /\ {tl_content_type, tl_err, tl_request_id} \subseteq Owner
          /\ tl_user \in Users \cup {NoUser}
          /\ issued \in Signed \cup {NoToken}
          /\ err_level \in {"NONE", "WARN", "ERROR"}
          /\ logged \subseteq Owner \X Owner
          /\ reply \in [status : Statuses, body : BOOLEAN]

Init == /\ n = 0 /\ pc = "idle" /\ cancelled = FALSE
        /\ route = [method |-> "GET", schema |-> FALSE, auth |-> "NONE"]
        /\ msg = [origin |-> "allowed", method |-> "GET", key |-> FALSE, token |-> NoToken,
                  body |-> "empty"]
        /\ issued = NoToken
        /\ status = 0 /\ worker_buf = FALSE /\ parsed_body = "none" /\ out_content_type = 0
        /\ tl_user = NoUser /\ tl_content_type = 0 /\ tl_err = 0 /\ tl_request_id = 0
        /\ err_level = "NONE" /\ logged = {} /\ reply = NoReply

----------------------------------------------------------------------------
(* api_middleware_wrapper, on the reactor *)

\* Time passes for a token.
Older(t) == IF t.form = "signed" /\ t.age <= JWT_TIMEOUT THEN [t EXCEPT !.age = @ + 1] ELSE t

\* A request arrives, maybe later; task_pool_alloc will hand out a clean task.
arrives ==
    /\ pc = "idle"
    /\ n' = (n % MaxRequests) + 1
    /\ issued' \in {issued, Older(issued)}
    /\ route' \in Routes /\ msg' \in Messages({issued', NoToken, BadToken})
    /\ pc' = "middleware" /\ cancelled' = FALSE
    /\ status' = 0 /\ worker_buf' = FALSE /\ parsed_body' = "none" /\ out_content_type' = 0
    /\ logged' = {} /\ reply' = NoReply
    /\ UNCHANGED locals

\* The reactor answers by itself.
Answer(s, b) == /\ reply' = [status |-> s, body |-> b]
                /\ pc' = "idle"
                /\ UNCHANGED <<n, route, msg, cancelled, task, locals, logged, issued>>

server_validate_cors_fails == msg.origin = "other"

method_not_allowed == msg.method # route.method

validate_telemetry_api_key_fails == route.auth = "API_KEY" /\ ~msg.key

api_middleware_wrapper_answers ==
    /\ pc = "middleware"
    /\ \/ server_validate_cors_fails /\ Answer(403, TRUE)
       \/ /\ ~server_validate_cors_fails
          /\ \/ msg.method = "OPTIONS" /\ Answer(204, FALSE)
             \/ msg.method # "OPTIONS" /\ method_not_allowed /\ Answer(405, TRUE)
             \/ /\ msg.method # "OPTIONS" /\ ~method_not_allowed
                /\ validate_telemetry_api_key_fails
                /\ Answer(403, TRUE)

\* No task, a full queue, or a header that does not fit the task.
server_enqueue_task_refuses ==
    /\ pc = "middleware"
    /\ ~server_validate_cors_fails /\ msg.method # "OPTIONS"
    /\ ~method_not_allowed /\ ~validate_telemetry_api_key_fails
    /\ Answer(503, TRUE) \/ Answer(400, TRUE)

\* A worker has the task and sets the id its log lines will have.  By then
\* time may have passed in the queue, and the client may be gone.
server_enqueue_task ==
    /\ pc = "middleware"
    /\ ~server_validate_cors_fails /\ msg.method # "OPTIONS"
    /\ ~method_not_allowed /\ ~validate_telemetry_api_key_fails
    /\ \/ pc' = "jwt" /\ tl_request_id' = n /\ cancelled' = FALSE
       \/ pc' = "completed" /\ cancelled' = TRUE /\ UNCHANGED tl_request_id
    /\ \/ UNCHANGED <<msg, issued>>
       \/ issued' = Older(issued) /\ msg' = [msg EXCEPT !.token = Older(@)]
    /\ UNCHANGED <<n, route, task, tl_user, tl_content_type, tl_err, err_level,
                   logged, reply>>

----------------------------------------------------------------------------
(* worker_process_task, on the worker *)

\* A check fails: the status and the body of the reply are set here.
Fails(s) == /\ status' = s /\ worker_buf' = TRUE
            /\ pc' = "finish"

\* context_set: the thread's variables are set from a token, or emptied.
context_set(user) == tl_user' = user

\* Mutant: a token expires one second early.
jwt_expired_Early(t) == t.age >= JWT_TIMEOUT

\* now > exp
jwt_expired(t) == t.age > JWT_TIMEOUT

\* The form, the algorithm and the signature, then the expiry, then whether the
\* name fits.
jwt_verify(t) == CASE t.form # "signed" -> "JWT_ERR_INVALID"
                   [] t.form = "signed" /\ jwt_expired(t) -> "JWT_ERR_EXPIRED"
                   [] t.form = "signed" /\ ~jwt_expired(t) ->
                         IF t.user \in WideUsers THEN "JWT_ERR_INVALID" ELSE "JWT_OK"

worker_process_jwt ==
    /\ pc = "jwt"
    /\ \/ /\ route.auth # "JWT"
          /\ context_set(NoUser)
          /\ pc' = "payload"
          /\ UNCHANGED <<status, worker_buf>>
       \/ /\ route.auth = "JWT" /\ jwt_verify(msg.token) # "JWT_OK"
          /\ Fails(401)
          /\ UNCHANGED tl_user
       \/ /\ route.auth = "JWT" /\ jwt_verify(msg.token) = "JWT_OK"
          /\ context_set(msg.token.user)
          /\ pc' = "payload"
          /\ UNCHANGED <<status, worker_buf>>
    /\ UNCHANGED <<n, route, msg, cancelled, parsed_body, out_content_type,
                   tl_content_type, tl_err, tl_request_id, err_level, logged, reply, issued>>

\* Only a POST has a payload.  The parser may also be out of memory.
worker_process_payload ==
    /\ pc = "payload"
    /\ \/ /\ msg.method # "POST"
          /\ pc' = "validation"
          /\ UNCHANGED <<status, worker_buf, parsed_body>>
       \/ /\ msg.method = "POST" /\ msg.body \in {"rejected", "valid"}
          /\ parsed_body' = msg.body
          /\ pc' = "validation"
          /\ UNCHANGED <<status, worker_buf>>
       \/ /\ msg.method = "POST" /\ msg.body \notin {"rejected", "valid"}
          /\ Fails(400)
          /\ UNCHANGED parsed_body
       \/ /\ msg.method = "POST" /\ msg.body \notin {"not JSON type", "empty"}
          /\ Fails(503)
          /\ UNCHANGED parsed_body
    /\ UNCHANGED <<n, route, msg, cancelled, out_content_type, locals, logged, reply, issued>>

\* Mutant: a body that the schema rejects is let through.
validate_json_fails_Never == FALSE

validate_json_fails == route.schema /\ parsed_body = "rejected"

worker_process_validation ==
    /\ pc = "validation"
    /\ \/ validate_json_fails /\ Fails(400)
       \/ ~validate_json_fails /\ pc' = "handler" /\ UNCHANGED <<status, worker_buf>>
    /\ UNCHANGED <<n, route, msg, cancelled, parsed_body, out_content_type, locals,
                   logged, reply, issued>>

context_set_content_type == tl_content_type' = n

set_thread_error == tl_err' = n /\ err_level' \in {"WARN", "ERROR"}

\* jwt_create, for a name that the provider of logins knows.
jwt_create(user) == [form |-> "signed", user |-> user, age |-> 0]

\* The handler sets a status; a successful login gives out a token.  It may write a body, set the content type of the
\* reply, and leave a warning or an error of a service it called.
handler ==
    /\ pc = "handler"
    /\ \/ status' \in {200, 400, 401, 500} /\ worker_buf' \in BOOLEAN /\ UNCHANGED issued
       \/ /\ route = login_route
          /\ issued' \in {jwt_create(u) : u \in Users \cup WideUsers}
          /\ status' = 200 /\ worker_buf' = TRUE
    /\ context_set_content_type \/ UNCHANGED tl_content_type
    /\ set_thread_error \/ UNCHANGED <<tl_err, err_level>>
    /\ out_content_type' = tl_content_type'
    /\ pc' = "finish"
    /\ UNCHANGED <<n, route, msg, cancelled, parsed_body, tl_user, tl_request_id, logged,
                   reply>>

\* Mutant: the content type survives the request.
context_clear_Partly == tl_user' = NoUser /\ UNCHANGED tl_content_type

context_clear == tl_user' = NoUser /\ tl_content_type' = 0

clear_thread_error == tl_err' = 0 /\ err_level' = "NONE"

\* The error is logged under the request's id, and the thread's variables are
\* cleared.
worker_process_task_ends ==
    /\ pc = "finish"
    /\ logged' = IF err_level # "NONE" THEN {<<tl_request_id, tl_err>>}
                 ELSE IF status >= 500 THEN {<<tl_request_id, n>>} ELSE {}
    /\ clear_thread_error
    /\ tl_request_id' = 0
    /\ context_clear
    /\ pc' = "completed"
    /\ UNCHANGED <<n, route, msg, cancelled, task, reply, issued>>

----------------------------------------------------------------------------
(* reactor_eventfd_cb, back on the reactor *)

\* Mutant: an error keeps its status but gets no body.
send_http_reply_Bare == [status |-> status, body |-> worker_buf]

\* The worker's buffer is the body; an error without one gets a default body.
send_http_reply == [status |-> status, body |-> worker_buf \/ status >= 400]

process_completed_task ==
    /\ pc = "completed" /\ ~cancelled
    /\ reply' = send_http_reply
    /\ pc' = "idle"
    /\ UNCHANGED <<n, route, msg, cancelled, task, locals, logged, issued>>

cleanup_cancelled_task ==
    /\ pc = "completed" /\ cancelled
    /\ pc' = "idle"
    /\ UNCHANGED <<n, route, msg, cancelled, task, locals, logged, reply, issued>>

----------------------------------------------------------------------------
Next == \/ arrives
        \/ api_middleware_wrapper_answers \/ server_enqueue_task_refuses
        \/ server_enqueue_task
        \/ worker_process_jwt \/ worker_process_payload \/ worker_process_validation
        \/ handler \/ worker_process_task_ends
        \/ process_completed_task \/ cleanup_cancelled_task

Spec == Init /\ [][Next]_vars

----------------------------------------------------------------------------
(* Properties *)

\* A handler runs with the user of its own request, or none if its route has
\* no token, and starts without a content type or an error: nothing of an
\* earlier request is left on the worker, however that one ended.
Isolated ==
    pc = "handler" => /\ tl_user = IF route.auth = "JWT" THEN msg.token.user ELSE NoUser
                      /\ tl_content_type = 0
                      /\ tl_err = 0 /\ err_level = "NONE"

\* An error is logged under the id of the request that met it, whether a check,
\* the handler or a service it called reported it, and the reply's content
\* type is its own handler's.
OwnErrors == logged \subseteq {<<n, n>>} /\ out_content_type \in {0, n}

\* Nothing of a request gets into another one through the thread-locals of the
\* worker that serves both.
PipelineInv == TypeOK /\ Isolated /\ OwnErrors

\* A handler only sees a request that passed every check of its route, made on
\* two threads: origin, method, telemetry key, token, and the schema of the
\* body, which worker_process_validation skips when there is no body.
Guarded ==
    pc = "handler" => /\ msg.origin # "other" /\ msg.method = route.method
                      /\ route.auth = "API_KEY" => msg.key
                      /\ route.auth = "JWT" => msg.token.form = "signed"
                      /\ route.schema => parsed_body = "valid"

\* A token opens the routes that need one from the login that gave it out until
\* the timeout is over, and no longer, wherever the request waited: no user
\* whose name fits is refused before, and none runs a handler after.
TokenIsHonoured ==
    LET good == msg.token.form = "signed" /\ msg.token.age \in 0 .. JWT_TIMEOUT
    IN route.auth = "JWT" =>
          /\ pc = "handler" => good /\ tl_user = msg.token.user
          /\ pc = "finish" /\ tl_user = NoUser => ~good \/ msg.token.user \in WideUsers

\* The reply to a request that was served has a status, and an error reply has
\* a body, whichever of the two threads found the error.
ReplyComplete ==
    pc = "idle" /\ n # 0 /\ ~cancelled
      => reply.status # 0 /\ (reply.status >= 400 => reply.body)
=============================================================================
