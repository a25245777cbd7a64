--------------------------- MODULE RequestProofs ---------------------------
(***************************************************************************)
(* Proofs about a request on its way to its handler: the checks of module  *)
(* Pipeline, the contexts of module Validation, and the cache of the token *)
(* that handlers share, of module JwtCache.                                *)
(***************************************************************************)
EXTENDS Pipeline, Validation, JwtCache, FiniteSetTheorems, Induction

----------------------------------------------------------------------------
(* Pipeline: the invariant of a request on its way *)

Served == {"jwt", "payload", "validation", "handler", "finish"}

\* What the reactor has checked of a request that a worker has.
PassedMiddleware == /\ msg.origin # "other" /\ msg.method = route.method
                    /\ route.auth = "API_KEY" => msg.key

\* Whether the token is one that opens a route.
Good == msg.token.form = "signed" /\ msg.token.age \in 0 .. JWT_TIMEOUT

\* What the thread-locals hold while the worker serves the request, and what
\* they hold in between: nothing.
LocalsInv ==
    /\ pc \notin Served => tl_user = NoUser
    /\ pc # "finish" => tl_content_type = 0 /\ tl_err = 0 /\ err_level = "NONE"
    /\ pc \in Served => tl_request_id = n
    /\ pc = "jwt" => tl_user = NoUser
    /\ pc \in {"payload", "validation", "handler"} =>
          /\ route.auth # "JWT" => tl_user = NoUser
          /\ route.auth = "JWT" => Good /\ tl_user = msg.token.user
    /\ pc = "finish" => /\ tl_content_type \in {0, n}
                        /\ err_level # "NONE" => tl_err = n
                        /\ route.auth = "JWT" /\ tl_user = NoUser
                              => ~Good \/ msg.token.user \in WideUsers

\* How far the request has been checked.
ChecksInv ==
    /\ pc \in Served => PassedMiddleware
    /\ pc \in {"validation", "handler"} /\ msg.method = "POST" =>
          parsed_body \in {"rejected", "valid"}
    /\ pc = "handler" /\ route.schema => parsed_body = "valid"

\* What becomes of its error, its content type, its status and its reply.
ResultInv ==
    /\ logged \subseteq {<<n, n>>}
    /\ out_content_type \in {0, n}
    /\ cancelled => pc \in {"completed", "idle"}
    /\ pc = "finish" => status # 0
    /\ pc = "completed" /\ ~cancelled => status # 0
    /\ ReplyComplete

RequestInv == TypeOK /\ LocalsInv /\ ChecksInv /\ ResultInv

\* A token that has aged is still one.
LEMMA OlderIsToken ==
    ASSUME NEW t \in Tokens
    PROVE  Older(t) \in Tokens /\ (t # BadToken => Older(t) \in Signed \cup {NoToken})
<1>1. CASE t \in Signed
  <2>1. t.age \in Ages /\ t.form = "signed"
    BY <1>1, Zenon DEF Signed
  <2>2. Older(t) \in Signed
    BY <1>1, <2>1, PipelineConstants DEF Older, Signed, Ages
  <2> QED
    BY <2>2, Zenon DEF Tokens
<1>2. CASE t \in {NoToken, BadToken}
  BY <1>2 DEF Older, Tokens, NoToken, BadToken
<1> QED
  BY <1>1, <1>2, Zenon DEF Tokens

\* What a request consists of.
LEMMA MessageFields ==
    ASSUME NEW S, NEW m \in Messages(S)
    PROVE  /\ m.token \in S /\ m.key \in BOOLEAN
           /\ m.method \in {"GET", "POST", "OPTIONS"}
           /\ \A T : m.token \in T => m \in Messages(T)
           /\ \A T : \A t \in T : [m EXCEPT !.token = t] \in Messages(T)
BY Zenon DEF Messages

\* The status of a task can be compared.
LEMMA StatusesAreNumbers == Statuses \subseteq Nat
BY DEF Statuses

\* A check that fails, or not, leaves the task a status and a buffer.
LEMMA StatusTyped ==
    ASSUME TypeOK, NEW s \in Statuses,
           UNCHANGED <<status, worker_buf>> \/ (status' = s /\ worker_buf' = TRUE)
    PROVE  status' \in Statuses /\ worker_buf' \in BOOLEAN
BY Zenon DEF TypeOK

\* Before the first request nothing is left on the worker.
LEMMA RequestInit == Init => RequestInv
<1> SUFFICES ASSUME Init PROVE RequestInv
  BY Zenon
<1>1. TypeOK
  <2>1. route \in Routes /\ msg \in Messages(Tokens)
    BY Zenon DEF Init, Routes, Messages, Tokens
  <2>2. 0 \in Owner /\ 0 \in Statuses
    BY PipelineConstants DEF Owner, Statuses
  <2>3. NoReply \in [status : Statuses, body : BOOLEAN]
    BY <2>2, Zenon DEF NoReply
  <2> QED
    BY <2>1, <2>2, <2>3, Zenon DEF Init, TypeOK
<1>2. LocalsInv /\ ChecksInv
  BY Zenon DEF Init, LocalsInv, ChecksInv, Served
<1>3. ResultInv
  BY Zenon DEF Init, ResultInv, ReplyComplete
<1> QED
  BY <1>1, <1>2, <1>3, Zenon DEF RequestInv

\* The next request finds nothing of the one before.
LEMMA RequestArrives == ASSUME RequestInv, arrives PROVE RequestInv'
<1>1. n' \in Owner /\ n' # 0
  BY PipelineConstants DEF RequestInv, TypeOK, arrives, Owner
<1>2. issued' \in Signed \cup {NoToken}
  <2>1. issued \in Tokens /\ issued # BadToken
    BY DEF RequestInv, TypeOK, Tokens, Signed, BadToken, NoToken
  <2> QED
    BY <2>1, OlderIsToken, Zenon DEF RequestInv, TypeOK, arrives
<1>3. msg' \in Messages(Tokens)
  BY <1>2, MessageFields DEF arrives, Tokens
<1>4. TypeOK'
  <2>1. 0 \in Owner /\ 0 \in Statuses
    BY PipelineConstants DEF Owner, Statuses
  <2>2. NoReply \in [status : Statuses, body : BOOLEAN]
    BY <2>1, Zenon DEF NoReply
  <2> QED
    BY <1>1, <1>2, <1>3, <2>1, <2>2, Zenon DEF RequestInv, TypeOK, arrives, locals
<1>5. LocalsInv' /\ ChecksInv'
  BY Zenon DEF RequestInv, LocalsInv, ChecksInv, Served, arrives, locals
<1>6. ResultInv'
  BY Zenon DEF ResultInv, ReplyComplete, arrives
<1> QED
  BY <1>4, <1>5, <1>6, Zenon DEF RequestInv

\* The reactor answers by itself, with a status, and with a body if it is an
\* error.
LEMMA RequestAnswered ==
    ASSUME RequestInv, pc = "middleware", pc' = "idle",
           UNCHANGED <<n, route, msg, cancelled, task, locals, logged, issued>>,
           reply' \in [status : Statuses \ {0}, body : BOOLEAN],
           reply'.status >= 400 => reply'.body
    PROVE  RequestInv'
<1>1. TypeOK'
  BY DEF RequestInv, TypeOK, task, locals
<1>2. LocalsInv' /\ ChecksInv'
  BY Zenon DEF RequestInv, LocalsInv, ChecksInv, Served, task, locals
<1>3. ResultInv'
  BY Zenon DEF RequestInv, ResultInv, ReplyComplete, task, locals
<1> QED
  BY <1>1, <1>2, <1>3, Zenon DEF RequestInv

\* A request is handed to the worker, or its client has gone.
LEMMA RequestEnqueued == ASSUME RequestInv, server_enqueue_task PROVE RequestInv'
<1>1. msg \in Messages(Tokens) /\ msg' \in Messages(Tokens) /\ issued' \in Signed \cup {NoToken}
  <2>1. msg \in Messages(Tokens) /\ issued \in Tokens /\ issued # BadToken
    BY DEF RequestInv, TypeOK, Tokens, Signed, BadToken, NoToken
  <2>2. Older(msg.token) \in Tokens /\ Older(issued) \in Signed \cup {NoToken}
    BY <2>1, OlderIsToken, MessageFields, Zenon
  <2> QED
    BY <2>1, <2>2, MessageFields DEF server_enqueue_task, RequestInv, TypeOK
<1>2. TypeOK'
  BY <1>1, Zenon DEF RequestInv, TypeOK, server_enqueue_task, task
<1>3. msg'.origin = msg.origin /\ msg'.method = msg.method /\ msg'.key = msg.key
  BY <1>1, Zenon DEF server_enqueue_task, Messages
<1>4. LocalsInv'
  BY Zenon DEF RequestInv, LocalsInv, Served, server_enqueue_task, task
<1>5. ChecksInv'
  BY <1>1, <1>3, Zenon DEF RequestInv, TypeOK, ChecksInv, PassedMiddleware, Served, server_enqueue_task, task,
     server_validate_cors_fails, method_not_allowed, validate_telemetry_api_key_fails
<1>6. ResultInv'
  BY Zenon DEF RequestInv, ResultInv, ReplyComplete, server_enqueue_task, task
<1> QED
  BY <1>2, <1>4, <1>5, <1>6, Zenon DEF RequestInv

\* A token that jwt_verify accepts is good, and its user's name fits; one that
\* it refuses is not, or the name does not fit.
LEMMA VerifiedIsGood ==
    ASSUME TypeOK
    PROVE  /\ jwt_verify(msg.token) = "JWT_OK" => Good /\ msg.token.user \in Users
           /\ jwt_verify(msg.token) # "JWT_OK" => ~Good \/ msg.token.user \in WideUsers
<1>1. msg.token \in Tokens
  BY MessageFields, Zenon DEF TypeOK
<1>2. CASE msg.token \in Signed
  <2>1. msg.token.form = "signed" /\ msg.token.age \in 0 .. JWT_TIMEOUT + 1
        /\ msg.token.user \in Users \cup WideUsers
    BY <1>2, Zenon DEF Signed, Ages
  <2>2. jwt_expired(msg.token) <=> ~Good
    BY <2>1, PipelineConstants DEF jwt_expired, Good
  <2>3. jwt_verify(msg.token) = IF jwt_expired(msg.token) THEN "JWT_ERR_EXPIRED"
                                ELSE IF msg.token.user \in WideUsers THEN "JWT_ERR_INVALID"
                                ELSE "JWT_OK"
    BY <2>1, Zenon DEF jwt_verify
  <2> QED
    BY <2>1, <2>2, <2>3, Zenon
<1>3. CASE msg.token.form # "signed"
  <2>1. jwt_verify(msg.token) = "JWT_ERR_INVALID"
    BY <1>3, Zenon DEF jwt_verify
  <2> QED
    BY <1>3, <2>1, Zenon DEF Good
<1> QED
  BY <1>1, <1>2, <1>3 DEF Tokens, NoToken, BadToken

\* The worker verifies the token.
LEMMA RequestJwt == ASSUME RequestInv, worker_process_jwt PROVE RequestInv'
<1>1. /\ jwt_verify(msg.token) = "JWT_OK" => Good /\ msg.token.user \in Users
      /\ jwt_verify(msg.token) # "JWT_OK" => ~Good \/ msg.token.user \in WideUsers
  BY VerifiedIsGood, Zenon DEF RequestInv
<1>2. TypeOK'
  <2>1. 401 \in Statuses
    BY DEF Statuses
  <2>2. \/ UNCHANGED <<status, worker_buf>>
        \/ status' = 401 /\ worker_buf' = TRUE
    BY Zenon DEF worker_process_jwt, Fails
  <2>3. tl_user' \in Users \cup {NoUser}
    BY <1>1, Zenon DEF RequestInv, TypeOK, worker_process_jwt, context_set
  <2>4. status' \in Statuses /\ worker_buf' \in BOOLEAN
    BY <2>1, <2>2, StatusTyped, Zenon DEF RequestInv
  <2>5. /\ pc' \in {"payload", "finish"}
        /\ UNCHANGED <<n, route, msg, cancelled, parsed_body, out_content_type,
                       tl_content_type, tl_err, tl_request_id, err_level, logged, reply, issued>>
    BY Zenon DEF worker_process_jwt, Fails
  <2>6. pc' \in {"idle", "middleware", "jwt", "payload", "validation", "handler",
                "finish", "completed"}
    BY <2>5, Zenon
  <2> QED
    BY <2>3, <2>4, <2>5, <2>6, Zenon DEF RequestInv, TypeOK, locals
<1>3. LocalsInv'
  BY <1>1, Zenon DEF RequestInv, LocalsInv, Served, Good, worker_process_jwt, Fails, context_set
<1>4. ChecksInv'
  BY Zenon DEF RequestInv, ChecksInv, PassedMiddleware, Served, worker_process_jwt, Fails
<1>5. ResultInv'
  BY DEF RequestInv, ResultInv, ReplyComplete, worker_process_jwt, Fails
<1> QED
  BY <1>2, <1>3, <1>4, <1>5, Zenon DEF RequestInv

\* The user of a route that needs a token is somebody, once it is verified.
LEMMA UserIsSomebody ==
    ASSUME RequestInv, pc \in {"payload", "validation", "handler"}, route.auth = "JWT"
    PROVE  tl_user # NoUser
<1>1. msg.token \in Tokens /\ msg.token.form = "signed" /\ tl_user = msg.token.user
  BY MessageFields, Zenon DEF RequestInv, TypeOK, LocalsInv, Good
<1>2. msg.token \in Signed
  BY <1>1 DEF Tokens, NoToken, BadToken
<1> QED
  BY <1>1, <1>2, PipelineConstants, Zenon DEF Signed

\* The worker takes the body apart.
LEMMA RequestPayload == ASSUME RequestInv, worker_process_payload PROVE RequestInv'
<1>1. TypeOK'
  <2>1. 400 \in Statuses /\ 503 \in Statuses
    BY DEF Statuses
  <2>2. \/ UNCHANGED <<status, worker_buf>>
        \/ status' = 400 /\ worker_buf' = TRUE
        \/ status' = 503 /\ worker_buf' = TRUE
    BY Zenon DEF worker_process_payload, Fails
  <2>3. parsed_body' \in {"none", "rejected", "valid"}
    BY Zenon DEF RequestInv, TypeOK, worker_process_payload
  <2>4. status' \in Statuses /\ worker_buf' \in BOOLEAN
    BY <2>1, <2>2, StatusTyped, Zenon DEF RequestInv
  <2>5. /\ pc' \in {"validation", "finish"}
        /\ UNCHANGED <<n, route, msg, cancelled, out_content_type, locals, logged, reply, issued>>
    BY Zenon DEF worker_process_payload, Fails
  <2>6. pc' \in {"idle", "middleware", "jwt", "payload", "validation", "handler",
                "finish", "completed"}
    BY <2>5, Zenon
  <2> QED
    BY <2>3, <2>4, <2>5, <2>6, Zenon DEF RequestInv, TypeOK, locals
<1>2. LocalsInv'
  <2>1. UNCHANGED <<n, route, msg, locals>> /\ pc = "payload" /\ pc' \in {"validation", "finish"}
    BY Zenon DEF worker_process_payload, Fails
  <2>2. route.auth = "JWT" => tl_user # NoUser
    BY <2>1, UserIsSomebody, Zenon
  <2> QED
    BY <2>1, <2>2, Zenon DEF RequestInv, LocalsInv, Served, Good, locals
<1>3. ChecksInv'
  BY Zenon DEF RequestInv, ChecksInv, PassedMiddleware, Served, worker_process_payload, Fails
<1>4. ResultInv'
  <2>1. /\ pc = "payload" /\ pc' \in {"validation", "finish"}
        /\ UNCHANGED <<n, cancelled, logged, out_content_type, reply>>
    BY Zenon DEF worker_process_payload, Fails
  <2>2. \/ pc' = "validation"
        \/ status' = 400
        \/ status' = 503
    BY Zenon DEF worker_process_payload, Fails
  <2>3. pc' = "finish" => status' # 0
    BY <2>2
  <2> QED
    BY <2>1, <2>3, Zenon DEF RequestInv, ResultInv, ReplyComplete
<1> QED
  BY <1>1, <1>2, <1>3, <1>4, Zenon DEF RequestInv

\* The worker applies the schema.
LEMMA RequestValidated == ASSUME RequestInv, worker_process_validation PROVE RequestInv'
<1>1. TypeOK'
  <2>1. 400 \in Statuses
    BY DEF Statuses
  <2>2. \/ UNCHANGED <<status, worker_buf>>
        \/ status' = 400 /\ worker_buf' = TRUE
    BY Zenon DEF worker_process_validation, Fails
  <2>3. status' \in Statuses /\ worker_buf' \in BOOLEAN
    BY <2>1, <2>2, StatusTyped, Zenon DEF RequestInv
  <2>4. /\ pc' \in {"handler", "finish"}
        /\ UNCHANGED <<n, route, msg, cancelled, parsed_body, out_content_type, locals,
                       logged, reply, issued>>
    BY Zenon DEF worker_process_validation, Fails
  <2>5. pc' \in {"idle", "middleware", "jwt", "payload", "validation", "handler",
                "finish", "completed"}
    BY <2>4, Zenon
  <2> QED
    BY <2>3, <2>4, <2>5, Zenon DEF RequestInv, TypeOK, locals
<1>2. LocalsInv'
  <2>1. UNCHANGED <<n, route, msg, locals>> /\ pc = "validation" /\ pc' \in {"handler", "finish"}
    BY Zenon DEF worker_process_validation, Fails
  <2> QED
    BY <2>1, UserIsSomebody, Zenon DEF RequestInv, LocalsInv, Served, Good, locals
<1>3. ChecksInv'
  <2>1. route.schema => route.method = "POST"
    BY DEF RequestInv, TypeOK, Routes
  <2> QED
    BY <2>1, Zenon DEF RequestInv, ChecksInv, PassedMiddleware, Served, worker_process_validation, Fails,
       validate_json_fails
<1>4. ResultInv'
  BY DEF RequestInv, ResultInv, ReplyComplete, worker_process_validation, Fails
<1> QED
  BY <1>1, <1>2, <1>3, <1>4, Zenon DEF RequestInv

\* The handler runs.
LEMMA RequestHandled == ASSUME RequestInv, handler PROVE RequestInv'
<1>1. status' \in Statuses \ {0} /\ worker_buf' \in BOOLEAN
  <2>1. status' \in {200, 400, 401, 500} /\ worker_buf' \in BOOLEAN
    BY ZenonT(30) DEF handler
  <2> QED
    BY <2>1 DEF Statuses
<1>2. issued' \in Signed \cup {NoToken}
  <2>1. \A u \in Users \cup WideUsers : jwt_create(u) \in Signed
    BY PipelineConstants DEF jwt_create, Signed, Ages
  <2> QED
    BY <2>1 DEF RequestInv, TypeOK, handler
<1>3. /\ tl_content_type' \in {0, n} /\ out_content_type' = tl_content_type'
      /\ \/ tl_err' = n /\ err_level' \in {"WARN", "ERROR"}
         \/ tl_err' = 0 /\ err_level' = "NONE"
      /\ pc = "handler" /\ pc' = "finish"
  BY Zenon DEF RequestInv, LocalsInv, handler, context_set_content_type, set_thread_error
<1>4. TypeOK'
  <2>1. n \in Owner /\ 0 \in Owner
    BY PipelineConstants DEF RequestInv, TypeOK, Owner
  <2> QED
    BY <1>1, <1>2, <1>3, <2>1 DEF RequestInv, TypeOK, handler
<1>5. LocalsInv'
  BY <1>3, UserIsSomebody, Zenon DEF RequestInv, LocalsInv, Served, handler
<1>6. ChecksInv'
  BY Zenon DEF RequestInv, ChecksInv, PassedMiddleware, Served, handler
<1>7. ResultInv'
  BY <1>1, <1>3 DEF RequestInv, ResultInv, ReplyComplete, handler
<1> QED
  BY <1>4, <1>5, <1>6, <1>7, Zenon DEF RequestInv

\* The worker logs the error and clears its variables.
LEMMA RequestEnds == ASSUME RequestInv, worker_process_task_ends PROVE RequestInv'
<1>1. logged' \subseteq {<<n, n>>}
  BY Zenon DEF RequestInv, LocalsInv, Served, worker_process_task_ends
<1>2. /\ tl_user' = NoUser /\ tl_content_type' = 0 /\ tl_err' = 0 /\ tl_request_id' = 0
      /\ err_level' = "NONE" /\ pc = "finish" /\ pc' = "completed"
  BY Zenon DEF worker_process_task_ends, clear_thread_error, context_clear
<1>3. TypeOK'
  <2>1. n \in Owner /\ 0 \in Owner
    BY PipelineConstants DEF RequestInv, TypeOK, Owner
  <2> QED
    BY <1>1, <1>2, <2>1 DEF RequestInv, TypeOK, worker_process_task_ends, task
<1>4. LocalsInv' /\ ChecksInv'
  BY <1>2, Zenon DEF LocalsInv, ChecksInv, Served
<1>5. ResultInv'
  BY <1>1, <1>2, Zenon DEF RequestInv, ResultInv, ReplyComplete, worker_process_task_ends, task
<1> QED
  BY <1>3, <1>4, <1>5, Zenon DEF RequestInv

\* The reactor sends the reply the worker left.
LEMMA RequestReplied == ASSUME RequestInv, process_completed_task PROVE RequestInv'
<1>1. reply' \in [status : Statuses, body : BOOLEAN]
  <2>1. status \in Statuses /\ (worker_buf \/ status >= 400) \in BOOLEAN
    BY Zenon DEF RequestInv, TypeOK
  <2> QED
    BY <2>1, Zenon DEF process_completed_task, send_http_reply
<1>2. reply'.status = status /\ status # 0 /\ (status >= 400 => reply'.body)
  BY Zenon DEF RequestInv, ResultInv, process_completed_task, send_http_reply
<1>3. TypeOK'
  BY <1>1, Zenon DEF RequestInv, TypeOK, process_completed_task, task, locals
<1>4. LocalsInv' /\ ChecksInv'
  BY Zenon DEF RequestInv, LocalsInv, ChecksInv, Served, process_completed_task, task, locals
<1>5. ResultInv'
  BY <1>2, Zenon DEF RequestInv, ResultInv, ReplyComplete, process_completed_task, task, locals
<1> QED
  BY <1>3, <1>4, <1>5, Zenon DEF RequestInv

\* Nobody waits for the reply.
LEMMA RequestCancelled == ASSUME RequestInv, cleanup_cancelled_task PROVE RequestInv'
BY Zenon DEF RequestInv, TypeOK, LocalsInv, ChecksInv, ResultInv, ReplyComplete, Served,
   cleanup_cancelled_task, task, locals

\* Every step keeps the invariant.
LEMMA RequestStep == RequestInv /\ [Next]_vars => RequestInv'
<1> SUFFICES ASSUME RequestInv, [Next]_vars PROVE RequestInv'
  BY Zenon
<1>1. CASE api_middleware_wrapper_answers \/ server_enqueue_task_refuses
  <2>1. /\ pc = "middleware" /\ pc' = "idle"
        /\ UNCHANGED <<n, route, msg, cancelled, task, locals, logged, issued>>
    BY <1>1, Zenon DEF api_middleware_wrapper_answers, server_enqueue_task_refuses, Answer
  <2>2. \/ \E s \in {403, 405, 503, 400} : reply' = [status |-> s, body |-> TRUE]
        \/ \E s \in {204} : reply' = [status |-> s, body |-> FALSE]
    BY <1>1 DEF api_middleware_wrapper_answers, server_enqueue_task_refuses, Answer
  <2>3. {403, 405, 503, 400} \subseteq Statuses \ {0} /\ 204 \in Statuses \ {0}
    BY DEF Statuses
  <2>4. reply' \in [status : Statuses \ {0}, body : BOOLEAN]
    <3>1. PICK s \in Statuses \ {0} : \/ reply' = [status |-> s, body |-> TRUE]
                                      \/ reply' = [status |-> s, body |-> FALSE]
      BY <2>2, <2>3
    <3>2. CASE reply' = [status |-> s, body |-> TRUE]
      BY <3>2, Zenon
    <3>3. CASE reply' = [status |-> s, body |-> FALSE]
      BY <3>3, Zenon
    <3> QED
      BY <3>1, <3>2, <3>3, Zenon
  <2>5. reply'.status >= 400 => reply'.body
    BY <2>2
  <2> QED
    BY <2>1, <2>4, <2>5, RequestAnswered, Zenon
<1>2. CASE UNCHANGED vars
  <2> USE <1>2 DEF vars, RequestInv, task, locals
  <2>1. TypeOK'
    <3>1. /\ n' = n /\ route' = route /\ msg' = msg /\ pc' = pc /\ cancelled' = cancelled
          /\ logged' = logged /\ reply' = reply /\ issued' = issued
      BY Zenon
    <3>2. /\ status' = status /\ worker_buf' = worker_buf /\ parsed_body' = parsed_body
          /\ out_content_type' = out_content_type
      BY Zenon
    <3>3. /\ tl_user' = tl_user /\ tl_content_type' = tl_content_type /\ tl_err' = tl_err
          /\ tl_request_id' = tl_request_id /\ err_level' = err_level
      BY Zenon
    <3>4. TypeOK
      BY Zenon
    <3> QED
      BY ONLY <3>1, <3>2, <3>3, <3>4, ZenonT(30) DEF TypeOK
  <2>2. LocalsInv' /\ ChecksInv'
    BY Zenon DEF LocalsInv, ChecksInv, Served, Good, PassedMiddleware
  <2>3. ResultInv'
    BY DEF ResultInv, ReplyComplete
  <2> QED
    BY <2>1, <2>2, <2>3, Zenon
<1> QED
  BY <1>1, <1>2, RequestArrives, RequestEnqueued, RequestJwt, RequestPayload, RequestValidated,
     RequestHandled, RequestEnds, RequestReplied, RequestCancelled, Zenon DEF Next

----------------------------------------------------------------------------
(* Pipeline: the theorems *)

\* Whatever the number of requests and whoever sends them, every step of
\* api_middleware_wrapper, worker_process_task and process_completed_task keeps
\* the invariant of a request on its way.
THEOREM RequestsCorrect == Spec => []RequestInv
BY RequestInit, RequestStep, PTL DEF Spec

\* Nothing of a request gets into another one through the thread-locals of the
\* worker that serves both, however the requests end.
THEOREM RequestsIsolated == Spec => []PipelineInv
<1>1. RequestInv => PipelineInv
  BY Zenon DEF RequestInv, LocalsInv, ResultInv, PipelineInv, Isolated, OwnErrors
<1> QED
  BY <1>1, RequestsCorrect, PTL

\* A handler only sees a request that passed every check of its route, those on
\* the reactor and those on the worker.
THEOREM HandlersGuarded == Spec => []Guarded
<1>1. RequestInv => Guarded
  BY Zenon DEF RequestInv, LocalsInv, ChecksInv, PassedMiddleware, Served, Good, Guarded
<1> QED
  BY <1>1, RequestsCorrect, PTL

\* For every timeout, a token opens the routes that need one until its timeout
\* is over and no longer, wherever the request waited.
THEOREM TokensHonoured == Spec => []TokenIsHonoured
<1>1. RequestInv => TokenIsHonoured
  BY Zenon DEF RequestInv, LocalsInv, Good, TokenIsHonoured
<1> QED
  BY <1>1, RequestsCorrect, PTL

\* The reply to a request that was served has a status, and an error reply has
\* a body, whichever of the two threads found the error.
THEOREM RepliesComplete == Spec => []ReplyComplete
<1>1. RequestInv => ReplyComplete
  BY Zenon DEF RequestInv, ResultInv
<1> QED
  BY <1>1, RequestsCorrect, PTL

----------------------------------------------------------------------------
(* Validation: the invariant of the loop *)

Passed(k) == field_passes(root[Schema[ctx][k].name], Schema[ctx][k])

\* The fields before the one at hand have passed; a request is rejected at a
\* field that has not, or after the last one, by the validator of the whole.
LoopInv ==
    /\ ctx \in Contexts /\ root \in Payloads(ctx)
    /\ i \in 1..(Len(Schema[ctx]) + 1)
    /\ outcome \in {"running", "accepted", "rejected"}
    /\ bound \in IntMin..IntMax /\ bound_text \in Texts
    /\ root = NotAnObject => i = 1 /\ outcome # "accepted"
    /\ \A k \in 1..(i - 1) : Passed(k)
    /\ outcome = "accepted" => /\ i = Len(Schema[ctx]) + 1
                               /\ ctx = "sales" => sales_invariant_validator(root)
                               /\ ctx = "employee" => bound = int(root.id.v)
                               /\ bound_text = handler_text(ctx, root)
    /\ outcome # "accepted" => bound_text = <<>>
    /\ outcome = "rejected" /\ root # NotAnObject =>
          \/ i <= Len(Schema[ctx]) /\ ~Passed(i)
          \/ i > Len(Schema[ctx]) /\ ctx = "sales"

\* How many fields the contexts have.
LEMMA SchemaLength ==
    /\ Contexts = {"customer", "verifytotp", "customers", "sales", "employee", "prodget"}
    /\ \A c \in Contexts : Len(Schema[c]) = IF c = "sales" THEN 2 ELSE 1
<1>1. Contexts = {"customer", "verifytotp", "customers", "sales", "employee", "prodget"}
  BY Zenon DEF Schema, Contexts
<1>2. /\ Len(Schema["customer"]) = 1 /\ Len(Schema["verifytotp"]) = 1
      /\ Len(Schema["customers"]) = 1 /\ Len(Schema["sales"]) = 2
      /\ Len(Schema["employee"]) = 1 /\ Len(Schema["prodget"]) = 1
  BY Zenon DEF Schema, CustomerSchema, VerifyTotpSchema, CustomersSchema, SalesSchema,
     EmployeeSchema, ProdgetSchema
<1> QED
  BY <1>1, <1>2, Zenon

\* The range of an int.
LEMMA IntRange == /\ IntMin \in Int /\ IntMax \in Int /\ IntMin <= 0 /\ IntMax >= 0
                  /\ IntMax - IntMin + 1 = 2^IntBits /\ 2^IntBits \in Nat \ {0}
                  /\ MaxId \in 1 .. IntMax - 1
BY ValidationConstants DEF IntMin, IntMax

\* A remainder.
LEMMA Remainder ==
    ASSUME NEW P \in Nat \ {0}, NEW x \in Int
    PROVE  x % P \in 0 .. P - 1 /\ (x \in 0 .. P - 1 => x % P = x)
OBVIOUS

\* A conversion to int ends up in its range, and changes nothing that was in it.
LEMMA IntInRange ==
    ASSUME NEW x \in Int
    PROVE  int(x) \in IntMin..IntMax /\ (x \in IntMin..IntMax => int(x) = x)
<1>1. PICK y \in Int : y = x - IntMin
  BY IntRange
<1>2. PICK P \in Nat \ {0} : P = 2^IntBits
  BY IntRange, Zenon
<1>3. y % P \in 0 .. P - 1 /\ (y \in 0 .. P - 1 => y % P = y)
  BY Remainder, Zenon
<1>4. int(x) = (y % P) + IntMin
  BY <1>1, <1>2, Zenon DEF int
<1> QED
  BY <1>1, <1>2, <1>3, <1>4, IntRange

\* The messages of the contexts.
LEMMA PayloadFields ==
    /\ FieldsOf("sales") = {"start_date", "end_date"}
    /\ FieldsOf("customers") = {"filter"} /\ FieldsOf("verifytotp") = {"totp"}
    /\ FieldsOf("customer") = {"id"} /\ FieldsOf("employee") = {"id"} /\ FieldsOf("prodget") = {"id"}
<1>1. \A c \in Contexts : FieldsOf(c) = {Schema[c][k].name : k \in 1 .. Len(Schema[c])}
  <2>1. ASSUME NEW c \in Contexts PROVE DOMAIN Schema[c] = 1 .. Len(Schema[c])
    <3>1. PICK z \in {1, 2} : z = Len(Schema[c])
      BY SchemaLength, Zenon
    <3> QED
      BY SchemaLength DEF Schema, CustomerSchema, VerifyTotpSchema, CustomersSchema, SalesSchema,
         EmployeeSchema, ProdgetSchema
  <2> QED
    BY <2>1, Zenon DEF FieldsOf
<1>2. \A c \in Contexts \ {"sales"} : FieldsOf(c) = {Schema[c][1].name}
  BY <1>1, SchemaLength
<1>3. FieldsOf("sales") = {Schema["sales"][1].name, Schema["sales"][2].name}
  BY <1>1, SchemaLength
<1>4. /\ Schema["sales"][1].name = "start_date" /\ Schema["sales"][2].name = "end_date"
      /\ Schema["customers"][1].name = "filter" /\ Schema["verifytotp"][1].name = "totp"
      /\ Schema["customer"][1].name = "id" /\ Schema["employee"][1].name = "id"
      /\ Schema["prodget"][1].name = "id"
  BY Zenon DEF Schema, SalesSchema, CustomersSchema, VerifyTotpSchema, CustomerSchema, EmployeeSchema, ProdgetSchema, Field
<1> QED
  BY <1>2, <1>3, <1>4, SchemaLength, Zenon

\* A message that is an object has the fields of its context.
LEMMA PayloadDomain ==
    ASSUME NEW c \in Contexts, NEW r \in Payloads(c), r # NotAnObject
    PROVE  /\ DOMAIN r = FieldsOf(c)
           /\ c = "sales" => r.start_date \in Dates \cup NoDates /\ r.end_date \in EndDates
           /\ c # "sales" => r \in [FieldsOf(c) -> Ints \cup Strings \cup Odd]
BY PayloadFields, Zenon DEF Payloads

\* The integer that a handler binds is one.
LEMMA BindsInteger ==
    ASSUME NEW c \in {"employee", "prodget"}, NEW r \in Payloads(c), r # NotAnObject,
           field_passes(r[Schema[c][1].name], Schema[c][1])
    PROVE  r.id.t = "int" /\ r.id.v \in Int
<1>1. Schema[c][1].name = "id" /\ Schema[c][1].type = "INT" /\ Schema[c][1].is_required
  <2>1. /\ Schema["employee"][1].name = "id" /\ Schema["employee"][1].type = "INT"
        /\ Schema["employee"][1].is_required
    BY Zenon DEF Schema, EmployeeSchema, Field
  <2>2. /\ Schema["prodget"][1].name = "id" /\ Schema["prodget"][1].type = "INT"
        /\ Schema["prodget"][1].is_required
    BY Zenon DEF Schema, ProdgetSchema, Field
  <2> QED
    BY <2>1, <2>2, Zenon
<1>2. r.id.t = "int"
  BY <1>1, Zenon DEF field_passes, Absent, TYPE_VALIDATOR_MAP, validate_type_int
<1>3. r.id \in Ints \cup Strings \cup Odd
  BY PayloadDomain, PayloadFields, SchemaLength
<1>4. r.id \in Ints
  <2>1. \A x \in Strings \cup Odd : x.t # "int"
    BY DEF Strings, Odd, Missing
  <2> QED
    BY <1>2, <1>3, <2>1, Zenon
<1>5. PICK x \in -Long..Long : r.id = [t |-> "int", v |-> x]
  BY <1>4, Zenon DEF Ints
<1> QED
  BY <1>2, <1>5, ValidationConstants

----------------------------------------------------------------------------
(* Validation: strings *)

Bytes == {"alpha", "digit", "lead", "cont", "nul"}

\* A text is a function on an interval.
LEMMA TextFunction ==
    ASSUME NEW s \in Texts
    PROVE  /\ Len(s) \in 0 .. MaxBytes /\ Len(s) \in Nat /\ DOMAIN s = 1 .. Len(s)
           /\ s \in [1 .. Len(s) -> Bytes]
<1>1. PICK z \in 0..MaxBytes : s \in [1..z -> Bytes]
  BY DEF Texts, Bytes
<1>2. Len(s) = z /\ z \in Nat
  BY <1>1, ValidationConstants
<1> QED
  BY <1>1, <1>2, Zenon

\* No text at all is one.
LEMMA EmptyText == <<>> \in Texts
<1>1. <<>> \in [1 .. 0 -> Bytes] /\ 0 \in 0 .. MaxBytes
  BY ValidationConstants
<1> QED
  BY <1>1, Zenon DEF Texts, Bytes

\* What C reads of a string is an interval: up to the first NUL, or all of it.
LEMMA VisibleInterval ==
    ASSUME NEW s \in Texts
    PROVE  /\ \E len \in 0 .. Len(s) : Visible(s) = 1 .. len
           /\ Visible(s) \subseteq 1 .. Len(s) /\ Len(s) \in 0 .. MaxBytes
           /\ \A k \in Visible(s) : s[k] \in Bytes \ {"nul"}
<1>1. /\ Len(s) \in 0 .. MaxBytes /\ Len(s) \in Nat /\ DOMAIN s = 1 .. Len(s)
      /\ s \in [1 .. Len(s) -> Bytes]
  BY TextFunction, Zenon
<1> DEFINE T == {k \in 1 .. Len(s) : s[k] = "nul"}
<1>2. ASSUME T = {} PROVE \E len \in 0 .. Len(s) : Visible(s) = 1 .. len
  <2>1. \A k \in 1 .. Len(s) : \A j \in 1 .. k : j \in 1 .. Len(s)
    BY <1>1
  <2>2. \A j \in 1 .. Len(s) : s[j] # "nul"
    BY <1>2, Zenon
  <2>3. Visible(s) = 1 .. Len(s)
    BY <1>1, <2>1, <2>2, Zenon DEF Visible
  <2>4. Len(s) \in 0 .. Len(s)
    BY <1>1
  <2> QED
    BY <2>3, <2>4, Zenon
<1>3. ASSUME T # {} PROVE \E len \in 0 .. Len(s) : Visible(s) = 1 .. len
  <2>1. T \in SUBSET Nat
    BY <1>1
  <2>2. PICK len \in T : \A m \in T : len <= m
    BY <1>3, <2>1, Least, Zenon
  <2>3. len \in 1 .. Len(s) /\ s[len] = "nul"
    BY <2>2, Zenon
  <2>4. \A k \in 1 .. (len - 1) : k \in 1 .. Len(s) /\ \A j \in 1 .. k : j \in 1 .. Len(s) /\ j < len
    BY <1>1, <2>3
  <2>5. \A j \in 1 .. Len(s) : j < len => j \notin T
    BY <1>1, <2>2, <2>3
  <2>6. \A k \in 1 .. (len - 1) : k \in Visible(s)
    BY <1>1, <2>4, <2>5, Zenon DEF Visible
  <2>7. \A k \in 1 .. Len(s) : k \in 1 .. (len - 1) \/ len \in 1 .. k
    BY <1>1, <2>3
  <2>8. \A k \in Visible(s) : k \in 1 .. Len(s) /\ ~(len \in 1 .. k)
    BY <1>1, <2>3, Zenon DEF Visible
  <2>9. Visible(s) = 1 .. (len - 1)
    BY <2>6, <2>7, <2>8, Zenon
  <2>10. len - 1 \in 0 .. Len(s)
    BY <1>1, <2>3
  <2> QED
    BY <2>9, <2>10, Zenon
<1>4. \A k \in Visible(s) : k \in 1 .. Len(s) /\ s[k] # "nul"
  <2>1. \A k \in 1 .. Len(s) : k \in 1 .. k
    BY <1>1
  <2> QED
    BY <1>1, <2>1, Zenon DEF Visible
<1>5. \A k \in Visible(s) : s[k] \in Bytes \ {"nul"}
  BY <1>1, <1>4, Zenon
<1> QED
  BY <1>1, <1>2, <1>3, <1>4, <1>5, Zenon

\* The C string of a text is a text.
LEMMA CStringText ==
    ASSUME NEW v, v.s \in Texts
    PROVE  json_object_get_string(v) \in Texts
<1>1. PICK len \in 0 .. Len(v.s) : Visible(v.s) = 1 .. len
  BY VisibleInterval, Zenon
<1>2. len \in 0 .. MaxBytes
  BY TextFunction, ValidationConstants
<1>3. \A k \in Visible(v.s) : v.s[k] \in Bytes
  BY VisibleInterval, Zenon
<1>4. json_object_get_string(v) \in [1 .. len -> Bytes]
  BY <1>1, <1>3, Zenon DEF json_object_get_string
<1> QED
  BY <1>2, <1>4, Zenon DEF Texts, Bytes

\* A value of type string is a text.
LEMMA StringValue ==
    ASSUME NEW v \in Ints \cup Strings \cup Odd, v.t = "string"
    PROVE  v.s \in Texts /\ ~IsDateShaped(v)
<1>1. \A x \in Ints \cup Odd : x.t # "string"
  BY DEF Ints, Odd, Missing
<1>2. PICK s \in Texts : v = [t |-> "string", s |-> s]
  BY <1>1, Zenon DEF Strings
<1> QED
  BY <1>2, Zenon DEF IsDateShaped

\* What passes a field for a string, unless it may be absent and is.
LEMMA PassedString ==
    ASSUME NEW v \in Ints \cup Strings \cup Odd, NEW f, f.type = "STRING",
           f.is_required = TRUE \/ ~Absent(v), field_passes(v, f)
    PROVE  v.t = "string" /\ v.s \in Texts /\ custom_validator(v, f)
<1>1. ~Absent(v) /\ TYPE_VALIDATOR_MAP(v, f) /\ custom_validator(v, f)
  BY Zenon DEF field_passes
<1>2. validate_type_string(v, f)
  BY <1>1, Zenon DEF TYPE_VALIDATOR_MAP
<1>3. v.t = "string"
  BY <1>2, Zenon DEF validate_type_string
<1> QED
  BY <1>1, <1>3, StringValue, Zenon

\* AllOf leaves only one C string.
Every(class) == [k \in 1..IdLen |-> class]

\* A string whose bytes are all of one class, as C reads it.
LEMMA AllOfClass ==
    ASSUME NEW v, v.s \in Texts, NEW class, class # "nul", AllOf(v, class)
    PROVE  json_object_get_string(v) = Every(class)
<1>1. Cardinality(Visible(v.s)) = IdLen /\ \A k \in 1 .. IdLen : v.s[k] = class
  BY Zenon DEF AllOf, strlen
<1>2. PICK len \in Nat : Visible(v.s) = 1 .. len
  <2>1. PICK len \in 0 .. Len(v.s) : Visible(v.s) = 1 .. len
    BY VisibleInterval, Zenon
  <2>2. len \in Nat
    BY TextFunction
  <2> QED
    BY <2>1, <2>2, Zenon
<1>3. Cardinality(1 .. len) = len
  BY FS_Interval
<1>4. Visible(v.s) = 1 .. IdLen
  BY <1>1, <1>2, <1>3, Zenon
<1> QED
  BY <1>1, <1>4, Zenon DEF json_object_get_string, Every

\* The string that the handler of an accepted request takes is a text.
LEMMA BindsText ==
    ASSUME NEW c \in Contexts, NEW r \in Payloads(c), r # NotAnObject,
           c # "sales" => field_passes(r[Schema[c][1].name], Schema[c][1])
    PROVE  handler_text(c, r) \in Texts
<1>1. CASE c = "customer"
  <2>1. /\ Schema["customer"][1].name = "id" /\ Schema["customer"][1].type = "STRING"
        /\ Schema["customer"][1].is_required = TRUE
    BY Zenon DEF Schema, CustomerSchema, Field
  <2>2. r.id \in Ints \cup Strings \cup Odd
    BY <1>1, PayloadDomain, PayloadFields
  <2>3. json_object_get_string(r.id) \in Texts
    BY <1>1, <2>1, <2>2, PassedString, CStringText, Zenon
  <2> QED
    BY <1>1, <2>3 DEF handler_text
<1>2. CASE c = "verifytotp"
  <2>1. /\ Schema["verifytotp"][1].name = "totp" /\ Schema["verifytotp"][1].type = "STRING"
        /\ Schema["verifytotp"][1].is_required = TRUE
    BY Zenon DEF Schema, VerifyTotpSchema, Field
  <2>2. r.totp \in Ints \cup Strings \cup Odd
    BY <1>2, PayloadDomain, PayloadFields
  <2>3. json_object_get_string(r.totp) \in Texts
    BY <1>2, <2>1, <2>2, PassedString, CStringText, Zenon
  <2> QED
    BY <1>2, <2>3 DEF handler_text
<1>3. CASE c = "customers"
  <2>1. Schema["customers"][1].name = "filter" /\ Schema["customers"][1].type = "STRING"
    BY Zenon DEF Schema, CustomersSchema, Field
  <2>2. r.filter \in Ints \cup Strings \cup Odd
    BY <1>3, PayloadDomain, PayloadFields
  <2>3. ~Absent(r.filter) => json_object_get_string(r.filter) \in Texts
    BY <1>3, <2>1, <2>2, PassedString, CStringText, Zenon
  <2> QED
    BY <1>3, <2>3, EmptyText DEF handler_text
<1>4. CASE c \notin {"customer", "verifytotp", "customers"}
  BY <1>4, EmptyText DEF handler_text
<1> QED
  BY <1>1, <1>2, <1>3, <1>4, Zenon

----------------------------------------------------------------------------
(* Validation: the loop *)

\* A request that arrives has not been looked at.
LEMMA LoopInit == ValidInit => LoopInv
<1> SUFFICES ASSUME ValidInit PROVE LoopInv
  BY Zenon
<1>1. Len(Schema[ctx]) \in {1, 2}
  BY SchemaLength, Zenon DEF ValidInit
<1> QED
  BY <1>1, EmptyText, IntRange DEF ValidInit, LoopInv

\* Every step of validate_json keeps the invariant of its loop.
LEMMA LoopStep == LoopInv /\ [ValidNext]_valid_vars => LoopInv'
<1> SUFFICES ASSUME LoopInv, [ValidNext]_valid_vars PROVE LoopInv'
  BY Zenon
<1>1. Len(Schema[ctx]) \in {1, 2} /\ i \in 1 .. Len(Schema[ctx]) + 1
  BY SchemaLength, Zenon DEF LoopInv
<1>2. CASE validate_root
  BY <1>2, Zenon DEF validate_root, LoopInv, Passed
<1>3. CASE validate_field
  <2>1. /\ outcome = "running" /\ root # NotAnObject /\ i <= Len(Schema[ctx])
        /\ UNCHANGED <<ctx, root, bound, bound_text>>
        /\ \/ Passed(i) /\ i' = i + 1 /\ outcome' = outcome
           \/ ~Passed(i) /\ outcome' = "rejected" /\ i' = i
    BY <1>3, Zenon DEF validate_field, Advance, Passed
  <2>2. \A k : Passed(k)' <=> Passed(k)
    BY <2>1, Zenon DEF Passed
  <2>3. CASE Passed(i) /\ i' = i + 1 /\ outcome' = outcome
    <3>1. \A k \in 1..(i' - 1) : k = i \/ k \in 1..(i - 1)
      BY <1>1, <2>3
    <3>2. \A k \in 1..(i' - 1) : Passed(k)'
      BY <2>2, <2>3, <3>1, Zenon DEF LoopInv
    <3>3. i' \in 1..(Len(Schema[ctx]) + 1)
      BY <1>1, <2>1, <2>3
    <3> QED
      BY <2>1, <2>3, <3>2, <3>3, Zenon DEF LoopInv
  <2>4. CASE ~Passed(i) /\ outcome' = "rejected" /\ i' = i
    <3>1. \A k \in 1..(i' - 1) : Passed(k)'
      BY <2>2, <2>4, Zenon DEF LoopInv
    <3> QED
      BY <2>1, <2>2, <2>4, <3>1, Zenon DEF LoopInv
  <2> QED
    BY <2>1, <2>3, <2>4, Zenon
<1>4. CASE validate_json_ends
  <2>1. /\ outcome = "running" /\ i = Len(Schema[ctx]) + 1 /\ i > Len(Schema[ctx])
        /\ UNCHANGED <<ctx, root, i>>
    BY <1>1, <1>4 DEF validate_json_ends
  <2>2. root # NotAnObject
    <3>1. root = NotAnObject => i = 1
      BY Zenon DEF LoopInv
    <3>2. PICK z \in {1, 2} : z = Len(Schema[ctx])
      BY <1>1, Zenon
    <3>3. i = z + 1
      BY <2>1, <3>2, Zenon
    <3>4. i # 1
      BY <3>3
    <3> QED
      BY <3>1, <3>4, Zenon
  <2>3. \A k : Passed(k)' <=> Passed(k)
    BY <2>1, Zenon DEF Passed
  <2>4. Passed(1)
    <3>1. PICK z \in {1, 2} : z = Len(Schema[ctx])
      BY <1>1, Zenon
    <3>2. i = z + 1
      BY <2>1, <3>1, Zenon
    <3>3. 1 \in 1..(i - 1)
      BY <3>2
    <3> QED
      BY <3>3, Zenon DEF LoopInv
  <2>5. CASE ctx = "sales" /\ outcome' = "rejected" /\ bound' = bound /\ bound_text' = bound_text
    BY <2>1, <2>2, <2>3, <2>5, Zenon DEF LoopInv
  <2>6. CASE /\ ctx = "sales" => sales_invariant_validator(root)
             /\ outcome' = "accepted"
             /\ bound' = handler_int(ctx, root)
             /\ bound_text' = handler_text(ctx, root)
    <3>1. bound' \in IntMin..IntMax /\ (ctx = "employee" => bound' = int(root.id.v))
      <4>1. ctx \in {"employee", "prodget"} => int(root.id.v) \in IntMin..IntMax
        BY <2>2, <2>4, BindsInteger, IntInRange, Zenon DEF LoopInv, Passed
      <4>2. 0 \in IntMin..IntMax
        BY IntRange
      <4> QED
        BY <2>6, <4>1, <4>2, Zenon DEF handler_int
    <3>2. ctx = "sales" => sales_invariant_validator(root)'
      BY <2>1, <2>6, Zenon
    <3>3. bound_text' \in Texts /\ bound_text' = handler_text(ctx', root')
      BY <2>1, <2>2, <2>4, <2>6, BindsText, Zenon DEF LoopInv, Passed
    <3> QED
      BY <2>1, <2>2, <2>3, <2>6, <3>1, <3>2, <3>3, Zenon DEF LoopInv
  <2> QED
    BY <1>4, <2>5, <2>6, Zenon DEF validate_json_ends
<1>5. CASE over \/ UNCHANGED valid_vars
  BY <1>5, Zenon DEF over, valid_vars, LoopInv, Passed
<1> QED
  BY <1>2, <1>3, <1>4, <1>5, Zenon DEF ValidNext

----------------------------------------------------------------------------
(* Validation: what the loop gives the handlers *)

\* The field of a context with one.
LEMMA OnlyField ==
    ASSUME LoopInv, ctx # "sales", root # NotAnObject,
           NEW name, Schema[ctx][1].name = name, FieldsOf(ctx) = {name}
    PROVE  /\ root[name] \in Ints \cup Strings \cup Odd
           /\ outcome = "accepted" => field_passes(root[name], Schema[ctx][1])
           /\ outcome = "rejected" => ~field_passes(root[name], Schema[ctx][1])
<1>1. ctx \in Contexts /\ root \in Payloads(ctx)
  BY Zenon DEF LoopInv
<1>2. root \in [FieldsOf(ctx) -> Ints \cup Strings \cup Odd]
  BY <1>1, PayloadDomain, Zenon
<1>3. Len(Schema[ctx]) = 1 /\ i \in 1..(Len(Schema[ctx]) + 1)
  BY <1>1, SchemaLength, Zenon DEF LoopInv
<1>4. outcome = "accepted" => i = Len(Schema[ctx]) + 1 /\ \A k \in 1..(i - 1) : Passed(k)
  BY Zenon DEF LoopInv
<1>5. outcome = "rejected" => i <= Len(Schema[ctx]) /\ ~Passed(i)
  BY Zenon DEF LoopInv
<1>6. (outcome = "accepted" => Passed(1)) /\ (outcome = "rejected" => ~Passed(1))
  BY <1>3, <1>4, <1>5
<1> QED
  BY <1>2, <1>6, Zenon DEF Passed

\* The ids and codes that handlers get.
LEMMA LoopRequired == LoopInv => RequiredIsThere
<1> SUFFICES ASSUME LoopInv PROVE RequiredIsThere
  BY Zenon
<1>1. outcome = "accepted" => root # NotAnObject
  BY Zenon DEF LoopInv
<1>2. ASSUME ctx = "customer", outcome = "accepted"
      PROVE  root.id.t = "string" /\ bound_text = [k \in 1..IdLen |-> "alpha"]
  <2> DEFINE f == Schema["customer"][1]
  <2>1. /\ f.name = "id" /\ f.type = "STRING" /\ f.is_required = TRUE
        /\ f.custom_validator = "customer_id"
    BY Zenon DEF Schema, CustomerSchema, Field
  <2> HIDE DEF f
  <2>2. root["id"] \in Ints \cup Strings \cup Odd /\ field_passes(root["id"], f)
    BY <1>1, <1>2, <2>1, OnlyField, PayloadFields, Zenon DEF f
  <2>3. root.id.t = "string" /\ root.id.s \in Texts /\ custom_validator(root.id, f)
    BY <2>1, <2>2, PassedString, Zenon
  <2>4. AllOf(root.id, "alpha")
    BY <2>1, <2>3 DEF custom_validator
  <2>5. json_object_get_string(root.id) = Every("alpha")
    BY <2>3, <2>4, AllOfClass
  <2>6. bound_text = json_object_get_string(root.id)
    BY <1>2 DEF LoopInv, handler_text
  <2> QED
    BY <2>3, <2>5, <2>6, Zenon DEF Every
<1>3. ASSUME ctx = "verifytotp", outcome = "accepted"
      PROVE  root.totp.t = "string" /\ bound_text = [k \in 1..IdLen |-> "digit"]
  <2> DEFINE f == Schema["verifytotp"][1]
  <2>1. /\ f.name = "totp" /\ f.type = "STRING" /\ f.is_required = TRUE
        /\ f.custom_validator = "totp"
    BY Zenon DEF Schema, VerifyTotpSchema, Field
  <2> HIDE DEF f
  <2>2. root["totp"] \in Ints \cup Strings \cup Odd /\ field_passes(root["totp"], f)
    BY <1>1, <1>3, <2>1, OnlyField, PayloadFields, Zenon DEF f
  <2>3. root.totp.t = "string" /\ root.totp.s \in Texts /\ custom_validator(root.totp, f)
    BY <2>1, <2>2, PassedString, Zenon
  <2>4. AllOf(root.totp, "digit")
    BY <2>1, <2>3 DEF custom_validator
  <2>5. json_object_get_string(root.totp) = Every("digit")
    BY <2>3, <2>4, AllOfClass
  <2>6. bound_text = json_object_get_string(root.totp)
    BY <1>3 DEF LoopInv, handler_text
  <2> QED
    BY <2>3, <2>5, <2>6, Zenon DEF Every
<1> QED
  BY <1>2, <1>3, Zenon DEF RequiredIsThere

\* The characters C counts are those of the C string, and no more than the
\* bytes json-c counts.
LEMMA CharactersCounted ==
    ASSUME NEW v, v.s \in Texts
    PROVE  LET len == Cardinality(Characters(json_object_get_string(v)))
           IN len = utf8_strlen(v) /\ len \in Nat /\ len <= json_object_get_string_len(v)
<1> DEFINE C == Characters(json_object_get_string(v))
<1>1. /\ Visible(v.s) \subseteq 1 .. Len(v.s) /\ \A k \in Visible(v.s) : v.s[k] \in Bytes \ {"nul"}
      /\ Len(v.s) \in Nat
  BY VisibleInterval, TextFunction, Zenon
<1>2. C = {k \in Visible(v.s) : v.s[k] # "cont"}
  BY <1>1 DEF Characters, json_object_get_string, Bytes
<1>3. IsFiniteSet(1 .. Len(v.s)) /\ Cardinality(1 .. Len(v.s)) = Len(v.s)
  <2>1. PICK z \in Nat : z = Len(v.s)
    BY <1>1, Zenon
  <2>2. IsFiniteSet(1 .. z) /\ Cardinality(1 .. z) = z
    BY FS_Interval
  <2> QED
    BY <2>1, <2>2, Zenon
<1>4. C \subseteq 1 .. Len(v.s)
  BY <1>1, <1>2, Zenon
<1> HIDE DEF C
<1>5. Cardinality(C) \in Nat /\ Cardinality(C) <= Cardinality(1 .. Len(v.s))
  BY <1>3, <1>4, FS_Subset, FS_CardinalityType, Zenon
<1> QED
  BY <1>2, <1>3, <1>5, Zenon DEF utf8_strlen, json_object_get_string_len, C

\* The length of a string without a validator of its own.
LEMMA LoopLength == LoopInv => LengthInCharacters
<1> SUFFICES ASSUME LoopInv, ctx = "customers", root # NotAnObject, outcome # "running"
             PROVE  /\ outcome = "accepted" <=>
                          \/ Absent(root.filter)
                          \/ /\ root.filter.t = "string"
                             /\ Cardinality(Characters(json_object_get_string(root.filter))) <= IdLen
                    /\ Cardinality(Characters(bound_text)) <= IdLen
                    /\ \A k \in DOMAIN bound_text : /\ bound_text[k] = root.filter.s[k]
                                                    /\ bound_text[k] # "nul"
  BY Zenon DEF LengthInCharacters
<1> DEFINE f == Schema["customers"][1]
           v == root.filter
           len == Cardinality(Characters(json_object_get_string(v)))
<1>1. /\ f.name = "filter" /\ f.type = "STRING" /\ f.is_required = FALSE
      /\ f.custom_validator = "none" /\ f.max_len = IdLen
  BY Zenon DEF Schema, CustomersSchema, Field
<1> HIDE DEF f
<1>2. /\ v \in Ints \cup Strings \cup Odd
      /\ outcome = "accepted" => field_passes(v, f)
      /\ outcome = "rejected" => ~field_passes(v, f)
  BY <1>1, OnlyField, PayloadFields, Zenon DEF f
<1>3. outcome = "accepted" <=> field_passes(v, f)
  BY <1>2, Zenon DEF LoopInv
<1>4. /\ outcome = "accepted" /\ ~Absent(v) => bound_text = json_object_get_string(v)
      /\ outcome # "accepted" \/ Absent(v) => bound_text = <<>>
  BY DEF LoopInv, handler_text
<1> HIDE DEF v
<1>5. field_passes(v, f) <=> Absent(v) \/ validate_type_string(v, f)
  <2>1. custom_validator(v, f)
    BY <1>1 DEF custom_validator
  <2>2. TYPE_VALIDATOR_MAP(v, f) <=> validate_type_string(v, f)
    BY <1>1, Zenon DEF TYPE_VALIDATOR_MAP
  <2> QED
    BY <1>1, <2>1, <2>2, Zenon DEF field_passes
<1>6. validate_type_string(v, f) => v.t = "string"
  BY Zenon DEF validate_type_string
<1>7. v.t = "string" => v.s \in Texts
  BY <1>2, StringValue, Zenon
<1>8. IdLen \in Nat /\ IdLen > 0
  BY ValidationConstants
<1>9. ASSUME v.t = "string"
      PROVE  validate_type_string(v, f) <=> len <= IdLen
  <2>1. len = utf8_strlen(v) /\ len \in Nat /\ len <= json_object_get_string_len(v)
    BY <1>7, <1>9, CharactersCounted, Zenon
  <2>2. json_object_get_string_len(v) \in Nat
    BY <1>7, <1>9, TextFunction, Zenon DEF json_object_get_string_len
  <2> HIDE DEF len
  <2> QED
    BY <1>1, <1>8, <1>9, <2>1, <2>2 DEF validate_type_string
<1>10. outcome = "accepted" <=> Absent(v) \/ (v.t = "string" /\ len <= IdLen)
  BY <1>3, <1>5, <1>6, <1>9, Zenon
<1>11. Cardinality(Characters(bound_text)) <= IdLen
  <2>1. CASE outcome = "accepted" /\ ~Absent(v)
    BY <1>4, <1>10, <2>1, Zenon
  <2>2. CASE outcome # "accepted" \/ Absent(v)
    <3>1. Characters(<<>>) = {}
      BY DEF Characters
    <3>2. Cardinality(Characters(<<>>)) = 0
      BY <3>1, FS_EmptySet, Zenon
    <3> QED
      BY <1>4, <1>8, <2>2, <3>2
  <2> QED
    BY <2>1, <2>2, Zenon
<1>12. ASSUME NEW k \in DOMAIN bound_text
       PROVE  bound_text[k] = v.s[k] /\ bound_text[k] # "nul"
  <2>1. CASE outcome = "accepted" /\ ~Absent(v)
    <3>1. bound_text = [j \in Visible(v.s) |-> v.s[j]] /\ v.s \in Texts
      BY <1>4, <1>7, <1>10, <2>1, Zenon DEF json_object_get_string
    <3>2. \A j \in Visible(v.s) : v.s[j] # "nul"
      BY <3>1, VisibleInterval, Zenon
    <3> QED
      BY <1>12, <3>1, <3>2, Zenon
  <2>2. CASE outcome # "accepted" \/ Absent(v)
    BY <1>4, <1>12, <2>2
  <2> QED
    BY <2>1, <2>2, Zenon
<1> QED
  BY <1>10, <1>11, <1>12, Zenon DEF v

\* The employee id that is bound.
LEMMA LoopCapped == LoopInv => CappedIsExact
<1> SUFFICES ASSUME LoopInv, ctx = "employee", outcome = "accepted"
             PROVE  bound = root.id.v /\ bound \in 1..MaxId
  BY Zenon DEF CappedIsExact
<1> DEFINE f == Schema["employee"][1]
           v == root.id
<1>1. /\ f.name = "id" /\ f.type = "INT" /\ f.is_required = TRUE
      /\ f.has_min = TRUE /\ f.min_int = 1 /\ f.has_max = TRUE /\ f.max_int = MaxId
  BY Zenon DEF Schema, EmployeeSchema, Field
<1> HIDE DEF f
<1>2. root # NotAnObject /\ ctx \in {"employee", "prodget"} /\ root \in Payloads(ctx)
  BY Zenon DEF LoopInv
<1>3. field_passes(v, f)
  BY <1>1, <1>2, OnlyField, PayloadFields, Zenon DEF f
<1>4. v.v \in Int
  BY <1>1, <1>2, <1>3, BindsInteger, Zenon DEF f
<1>5. bound = int(v.v)
  BY Zenon DEF LoopInv
<1> HIDE DEF v
<1>6. validate_type_int(v, f)
  BY <1>1, <1>3, Zenon DEF field_passes, Absent, TYPE_VALIDATOR_MAP
<1>7. ~(json_object_get_int(v) < 1) /\ ~(json_object_get_int(v) > MaxId)
  BY <1>1, <1>6, Zenon DEF validate_type_int
<1>8. v.v \in 1 .. MaxId
  BY <1>4, <1>7, IntRange DEF json_object_get_int
<1>9. v.v \in IntMin .. IntMax
  BY <1>8, IntRange
<1>10. int(v.v) = v.v
  BY <1>4, <1>9, IntInRange, Zenon
<1> QED
  BY <1>5, <1>8, <1>10, Zenon DEF v

----------------------------------------------------------------------------
(* Validation: dates *)

\* The years before March, in days.
YearStart(a) == 365 * a + a \div 4 - a \div 100 + a \div 400

\* A year that is a leap year has a day more.
LEMMA LeapDay ==
    ASSUME NEW y \in Nat
    PROVE  /\ YearStart(y) \in Int /\ YearStart(y - 1) \in Int
           /\ YearStart(y) - YearStart(y - 1) = IF is_leap(y) THEN 366 ELSE 365
BY DEF YearStart, is_leap

\* The table of months.
LEMMA MonthTable ==
    /\ days_in_month[1] = 31 /\ days_in_month[2] = 28 /\ days_in_month[3] = 31
    /\ days_in_month[4] = 30 /\ days_in_month[5] = 31 /\ days_in_month[6] = 30
    /\ days_in_month[7] = 31 /\ days_in_month[8] = 31 /\ days_in_month[9] = 30
    /\ days_in_month[10] = 31 /\ days_in_month[11] = 30 /\ days_in_month[12] = 31
BY Zenon DEF days_in_month

\* How far it is from a day to the first of the next month.
LEMMA NextMonth ==
    ASSUME NEW y \in Nat, NEW m \in 1..12, NEW d \in Int
    PROVE  /\ DayNumber(y, m, d) \in Int
           /\ (IF m = 12 THEN DayNumber(y + 1, 1, 1) ELSE DayNumber(y, m + 1, 1)) - DayNumber(y, m, d)
                = (IF m = 2 /\ is_leap(y) THEN 29 ELSE days_in_month[m]) + 1 - d
<1>1. YearStart(y) \in Int /\ YearStart(y - 1) \in Int
  BY LeapDay, Zenon
<1>2. CASE m = 1
  <2>1. DayNumber(y, 2, 1) - DayNumber(y, 1, d) = 32 - d /\ DayNumber(y, 1, d) \in Int
    BY <1>1 DEF DayNumber, YearStart
  <2> QED
    BY <1>2, <2>1, MonthTable
<1>3. CASE m = 2
  <2>1. /\ DayNumber(y, 2, d) = YearStart(y - 1) + 337 + d
        /\ DayNumber(y, 3, 1) = YearStart(y) + 1
    BY DEF DayNumber, YearStart
  <2>2. YearStart(y) - YearStart(y - 1) = IF is_leap(y) THEN 366 ELSE 365
    BY LeapDay, Zenon
  <2> QED
    BY <1>1, <1>3, <2>1, <2>2, MonthTable
<1>4. CASE m = 3
  <2>1. DayNumber(y, 4, 1) - DayNumber(y, 3, d) = 32 - d /\ DayNumber(y, 3, d) \in Int
    BY <1>1 DEF DayNumber, YearStart
  <2> QED
    BY <1>4, <2>1, MonthTable
<1>5. CASE m = 4
  <2>1. DayNumber(y, 5, 1) - DayNumber(y, 4, d) = 31 - d /\ DayNumber(y, 4, d) \in Int
    BY <1>1 DEF DayNumber, YearStart
  <2> QED
    BY <1>5, <2>1, MonthTable
<1>6. CASE m = 5
  <2>1. DayNumber(y, 6, 1) - DayNumber(y, 5, d) = 32 - d /\ DayNumber(y, 5, d) \in Int
    BY <1>1 DEF DayNumber, YearStart
  <2> QED
    BY <1>6, <2>1, MonthTable
<1>7. CASE m = 6
  <2>1. DayNumber(y, 7, 1) - DayNumber(y, 6, d) = 31 - d /\ DayNumber(y, 6, d) \in Int
    BY <1>1 DEF DayNumber, YearStart
  <2> QED
    BY <1>7, <2>1, MonthTable
<1>8. CASE m = 7
  <2>1. DayNumber(y, 8, 1) - DayNumber(y, 7, d) = 32 - d /\ DayNumber(y, 7, d) \in Int
    BY <1>1 DEF DayNumber, YearStart
  <2> QED
    BY <1>8, <2>1, MonthTable
<1>9. CASE m = 8
  <2>1. DayNumber(y, 9, 1) - DayNumber(y, 8, d) = 32 - d /\ DayNumber(y, 8, d) \in Int
    BY <1>1 DEF DayNumber, YearStart
  <2> QED
    BY <1>9, <2>1, MonthTable
<1>10. CASE m = 9
  <2>1. DayNumber(y, 10, 1) - DayNumber(y, 9, d) = 31 - d /\ DayNumber(y, 9, d) \in Int
    BY <1>1 DEF DayNumber, YearStart
  <2> QED
    BY <1>10, <2>1, MonthTable
<1>11. CASE m = 10
  <2>1. DayNumber(y, 11, 1) - DayNumber(y, 10, d) = 32 - d /\ DayNumber(y, 10, d) \in Int
    BY <1>1 DEF DayNumber, YearStart
  <2> QED
    BY <1>11, <2>1, MonthTable
<1>12. CASE m = 11
  <2>1. DayNumber(y, 12, 1) - DayNumber(y, 11, d) = 31 - d /\ DayNumber(y, 11, d) \in Int
    BY <1>1 DEF DayNumber, YearStart
  <2> QED
    BY <1>12, <2>1, MonthTable
<1>13. CASE m = 12
  <2>1. DayNumber(y, 12, d) = YearStart(y) + 275 + d
    BY DEF DayNumber, YearStart
  <2>2. DayNumber(y + 1, 1, 1) = YearStart(y) + 307
    BY DEF DayNumber, YearStart
  <2> QED
    BY <1>1, <1>13, <2>1, <2>2, MonthTable
<1> QED
  BY <1>2, <1>3, <1>4, <1>5, <1>6, <1>7, <1>8, <1>9, <1>10, <1>11, <1>12, <1>13

\* The days of a month, by the table and by the calendar.
LEMMA MonthDays ==
    ASSUME NEW y \in Nat, NEW m \in 1..12, NEW d \in Int, d >= 1
    PROVE  IsDay(y, m, d) <=> d <= IF m = 2 /\ is_leap(y) THEN 29 ELSE days_in_month[m]
<1> DEFINE last == IF m = 2 /\ is_leap(y) THEN 29 ELSE days_in_month[m]
           next == IF m = 12 THEN DayNumber(y + 1, 1, 1) ELSE DayNumber(y, m + 1, 1)
<1>1. next - DayNumber(y, m, d) = last + 1 - d /\ DayNumber(y, m, d) \in Int
  BY NextMonth, Zenon
<1>2. last \in Int
  BY MonthTable
<1>3. next \in Int
  <2>1. CASE m = 12
    BY <2>1, NextMonth
  <2>2. CASE m # 12
    <3>1. PICK x \in 1..12 : x = m + 1
      BY <2>2
    <3>2. DayNumber(y, x, 1) \in Int
      BY DEF DayNumber
    <3> QED
      BY <2>2, <3>1, <3>2, Zenon
  <2> QED
    BY <2>1, <2>2, Zenon
<1> HIDE DEF last, next
<1>4. DayNumber(y, m, d) < next <=> d <= last
  BY <1>1, <1>2, <1>3
<1> QED
  BY <1>4, Zenon DEF IsDay, last, next

\* Two digits compare as the number they make, and so do four.
LEMMA TwoDigits ==
    ASSUME NEW x \in Nat, NEW z \in Nat
    PROVE  /\ x \div 10 < z \div 10 => x < z
           /\ x \div 10 = z \div 10 /\ x % 10 < z % 10 => x < z
           /\ x \div 10 = z \div 10 /\ x % 10 = z % 10 => x = z
OBVIOUS

\* Numbers of four digits are ordered as their digits are.
LEMMA FourDigits ==
    ASSUME NEW x \in Nat, NEW z \in Nat
    PROVE  /\ x \div 1000 < z \div 1000 => x < z
           /\ x \div 1000 = z \div 1000 =>
                /\ (x \div 100) % 10 < (z \div 100) % 10 => x < z
                /\ (x \div 100) % 10 = (z \div 100) % 10 =>
                     /\ (x \div 10) % 10 < (z \div 10) % 10 => x < z
                     /\ (x \div 10) % 10 = (z \div 10) % 10 =>
                          /\ x % 10 < z % 10 => x < z
                          /\ x % 10 = z % 10 => x = z
OBVIOUS

\* Comparing the characters compares year, month and day.
LEMMA StrcmpOrder ==
    ASSUME NEW a, NEW b, a.y \in Nat, a.m \in Nat, a.d \in Nat,
           b.y \in Nat, b.m \in Nat, b.d \in Nat, strcmp_less(a, b)
    PROVE  \/ a.y < b.y
           \/ a.y = b.y /\ a.m < b.m
           \/ a.y = b.y /\ a.m = b.m /\ a.d < b.d
<1> DEFINE A == Digits(a)
           B == Digits(b)
<1>1. PICK k \in 1..8 : A[k] < B[k] /\ \A j \in 1..(k - 1) : A[j] = B[j]
  BY Zenon DEF strcmp_less
<1>2. /\ A[1] = a.y \div 1000 /\ A[2] = (a.y \div 100) % 10 /\ A[3] = (a.y \div 10) % 10
      /\ A[4] = a.y % 10 /\ A[5] = a.m \div 10 /\ A[6] = a.m % 10
      /\ A[7] = a.d \div 10 /\ A[8] = a.d % 10
  BY Zenon DEF Digits
<1>3. /\ B[1] = b.y \div 1000 /\ B[2] = (b.y \div 100) % 10 /\ B[3] = (b.y \div 10) % 10
      /\ B[4] = b.y % 10 /\ B[5] = b.m \div 10 /\ B[6] = b.m % 10
      /\ B[7] = b.d \div 10 /\ B[8] = b.d % 10
  BY Zenon DEF Digits
<1> HIDE DEF A, B
<1>4. CASE k \in 1..4
  <2>1. \/ A[1] < B[1]
        \/ A[1] = B[1] /\ A[2] < B[2]
        \/ A[1] = B[1] /\ A[2] = B[2] /\ A[3] < B[3]
        \/ A[1] = B[1] /\ A[2] = B[2] /\ A[3] = B[3] /\ A[4] < B[4]
    BY <1>1, <1>4
  <2>2. a.y < b.y
    <3>1. PICK x \in Nat, z \in Nat : x = a.y /\ z = b.y
      BY Zenon
    <3>2. x < z
      BY <1>2, <1>3, <2>1, <3>1, FourDigits
    <3> QED
      BY <3>1, <3>2, Zenon
  <2> QED
    BY <2>2, Zenon
<1>5. CASE k \in 5..8
  <2>1. A[1] = B[1] /\ A[2] = B[2] /\ A[3] = B[3] /\ A[4] = B[4]
    BY <1>1, <1>5
  <2>2. a.y = b.y
    <3>1. PICK x \in Nat, z \in Nat : x = a.y /\ z = b.y
      BY Zenon
    <3>2. /\ x \div 1000 = z \div 1000 /\ (x \div 100) % 10 = (z \div 100) % 10
          /\ (x \div 10) % 10 = (z \div 10) % 10 /\ x % 10 = z % 10
      BY <1>2, <1>3, <2>1, <3>1
    <3>3. x = z
      BY <3>2
    <3> QED
      BY <3>1, <3>3, Zenon
  <2>3. \/ A[5] < B[5]
        \/ A[5] = B[5] /\ A[6] < B[6]
        \/ A[5] = B[5] /\ A[6] = B[6] /\ A[7] < B[7]
        \/ A[5] = B[5] /\ A[6] = B[6] /\ A[7] = B[7] /\ A[8] < B[8]
    BY <1>1, <1>5
  <2>4. a.m < b.m \/ (a.m = b.m /\ a.d < b.d)
    <3>1. PICK x \in Nat, z \in Nat, u \in Nat, w \in Nat :
             x = a.m /\ z = b.m /\ u = a.d /\ w = b.d
      BY Zenon
    <3>2. x < z \/ (x = z /\ u < w)
      BY <1>2, <1>3, <2>3, <3>1, TwoDigits
    <3> QED
      BY <3>1, <3>2, Zenon
  <2> QED
    BY <2>2, <2>4, Zenon
<1>6. k \in 1..4 \/ k \in 5..8
  BY <1>1
<1> QED
  BY <1>4, <1>5, <1>6, Zenon

\* The fields of a date.
LEMMA DateFields ==
    /\ \A v \in Dates : /\ v.t = "string" /\ IsDateShaped(v)
                        /\ v.y \in Nat /\ v.m \in 0..13 /\ v.d \in 0..32
    /\ \A v \in Odd : ~IsDateShaped(v) /\ v.t # "string"
    /\ \A v \in NoDates : ~IsDateShaped(v)
<1>1. \A y \in Years : y \in Nat
  <2>1. Years \subseteq 0..LastYear
    BY ValidationConstants, Zenon
  <2> QED
    BY <2>1
<1>2. ASSUME NEW v \in Dates
      PROVE  /\ v.t = "string" /\ IsDateShaped(v)
             /\ v.y \in Nat /\ v.m \in 0..13 /\ v.d \in 0..32
  <2>1. PICK y \in Years, m \in 0..13, d \in 0..32 : v = [t |-> "string", y |-> y, m |-> m, d |-> d]
    BY SMTT(30) DEF Dates
  <2> QED
    BY <1>1, <2>1, SMTT(30) DEF IsDateShaped
<1>3. ASSUME NEW v \in Odd PROVE ~IsDateShaped(v) /\ v.t # "string"
  BY <1>3 DEF Odd, Missing, IsDateShaped
<1>4. ASSUME NEW v \in NoDates PROVE ~IsDateShaped(v)
  BY <1>3, <1>4, SMTT(20) DEF NoDates, IsDateShaped
<1> QED
  BY <1>2, <1>3, <1>4, Zenon

\* A date that validate_date_string_fast accepts is a day of the calendar from
\* 1900 to 2199, and the other way round.
LEMMA DateIsDay ==
    ASSUME NEW v \in Dates
    PROVE  validate_date_string_fast(v) <=> IsDay(v.y, v.m, v.d) /\ v.y >= 1900 /\ v.y <= 2199
<1>1. IsDateShaped(v) /\ v.y \in Nat /\ v.m \in 0..13 /\ v.d \in 0..32
  BY DateFields, Zenon
<1>2. CASE v.m \in 1..12 /\ v.d >= 1
  <2>1. PICK y \in Nat, m \in 1..12, d \in Int : y = v.y /\ m = v.m /\ d = v.d /\ d >= 1
    BY <1>1, <1>2, SMTT(20)
  <2>2. IsDay(y, m, d) <=> d <= IF m = 2 /\ is_leap(y) THEN 29 ELSE days_in_month[m]
    BY <2>1, MonthDays, Zenon
  <2> QED
    BY <1>1, <1>2, <2>1, <2>2 DEF validate_date_string_fast
<1>3. CASE ~(v.m \in 1..12 /\ v.d >= 1)
  BY <1>1, <1>3 DEF validate_date_string_fast, IsDay
<1> QED
  BY <1>2, <1>3, Zenon

\* The first days of the months come in order.
LEMMA MonthStarts ==
    ASSUME NEW y \in Nat, NEW m \in 1..12, NEW l \in 1..12, m < l
    PROVE  DayNumber(y, m + 1, 1) <= DayNumber(y, l, 1)
<1>1. YearStart(y) \in Int /\ YearStart(y - 1) \in Int /\ YearStart(y) - YearStart(y - 1) >= 365
  BY LeapDay
<1>2. \A x \in 3..12 : DayNumber(y, x, 1) = YearStart(y) + (153 * (x - 3) + 2) \div 5 + 1
  BY DEF DayNumber, YearStart
<1>3. /\ DayNumber(y, 1, 1) = YearStart(y - 1) + 307
      /\ DayNumber(y, 2, 1) = YearStart(y - 1) + 338
  BY DEF DayNumber, YearStart
<1>4. \A x \in 3..12 : DayNumber(y, x, 1) >= YearStart(y) + 1
  BY <1>1, <1>2
<1>5. CASE m = 1
  <2>1. CASE l = 2
    BY <1>1, <1>3, <1>5, <2>1
  <2>2. CASE l \in 3..12
    <3>1. DayNumber(y, l, 1) >= YearStart(y) + 1
      BY <1>4, <2>2, Zenon
    <3> QED
      BY <1>1, <1>2, <1>3, <1>5, <2>2, <3>1
  <2> QED
    BY <1>5, <2>1, <2>2
<1>6. CASE m >= 2
  <2>1. PICK x \in 3..12 : x = m + 1
    BY <1>6
  <2>2. l \in 3..12 /\ x <= l
    BY <1>6, <2>1
  <2>3. (153 * (x - 3) + 2) \div 5 <= (153 * (l - 3) + 2) \div 5
    BY <2>2
  <2> QED
    BY <1>1, <1>2, <2>1, <2>2, <2>3
<1> QED
  BY <1>5, <1>6

\* A day comes before every day of a later month, of a later year.
LEMMA DayOrder ==
    ASSUME NEW y \in Nat, NEW m \in 1..12, NEW d \in Int, IsDay(y, m, d),
           NEW l \in 1..12, NEW e \in Int, e >= 1
    PROVE  /\ m < l => DayNumber(y, m, d) < DayNumber(y, l, e)
           /\ DayNumber(y, m, d) >= DayNumber(y, 1, 1)
           /\ DayNumber(y, m, d) < DayNumber(y + 1, 1, 1)
<1>1. /\ \A x \in 1..12 : DayNumber(y, x, 1) \in Int /\ DayNumber(y, x, e) = DayNumber(y, x, 1) + e - 1
      /\ DayNumber(y, m, d) = DayNumber(y, m, 1) + d - 1 /\ DayNumber(y + 1, 1, 1) \in Int
  BY DEF DayNumber
<1>2. d >= 1 /\ DayNumber(y, m, d) < IF m = 12 THEN DayNumber(y + 1, 1, 1) ELSE DayNumber(y, m + 1, 1)
  BY Zenon DEF IsDay
<1>3. ASSUME m < l PROVE DayNumber(y, m, d) < DayNumber(y, l, e)
  <2>1. DayNumber(y, m + 1, 1) <= DayNumber(y, l, 1) /\ m + 1 \in 1..12 /\ m # 12
    BY <1>3, MonthStarts
  <2> QED
    BY <1>1, <1>2, <2>1
<1>4. DayNumber(y, m, d) >= DayNumber(y, 1, 1)
  <2>1. DayNumber(y, m, 1) >= DayNumber(y, 1, 1)
    <3>1. CASE m = 1
      BY <1>1, <3>1
    <3>2. CASE m > 1
      <4>1. DayNumber(y, 2, 1) <= DayNumber(y, m, 1)
        BY <3>2, MonthStarts
      <4>2. DayNumber(y, 1, 1) < DayNumber(y, 2, 1)
        BY DEF DayNumber
      <4> QED
        BY <1>1, <4>1, <4>2
    <3> QED
      BY <3>1, <3>2
  <2> QED
    BY <1>1, <1>2, <2>1
<1>5. DayNumber(y, m, d) < DayNumber(y + 1, 1, 1)
  <2>1. CASE m = 12
    BY <1>2, <2>1, Zenon
  <2>2. CASE m < 12
    <3>1. DayNumber(y, m + 1, 1) <= DayNumber(y, 12, 1) /\ m + 1 \in 1..12
      BY <2>2, MonthStarts
    <3>2. DayNumber(y, 12, 1) < DayNumber(y + 1, 1, 1)
      BY SMTT(20) DEF DayNumber
    <3> QED
      BY <1>1, <1>2, <2>2, <3>1, <3>2
  <2> QED
    BY <2>1, <2>2
<1> QED
  BY <1>3, <1>4, <1>5, Zenon

\* What the two fields of sales pass.
LEMMA StartPasses ==
    ASSUME NEW v \in Dates \cup NoDates
    PROVE  field_passes(v, Schema["sales"][1])
              <=> IsDateShaped(v) /\ IsDay(v.y, v.m, v.d) /\ v.y \in 1994..2199
<1> DEFINE f == Schema["sales"][1]
<1>1. f.type = "DATE" /\ f.is_required = TRUE /\ f.custom_validator = "sales_start"
  BY Zenon DEF Schema, SalesSchema, Field
<1> HIDE DEF f
<1>2. field_passes(v, f) =>
         v.t = "string" /\ validate_date_string_fast(v) /\ v.y > 1993
  BY <1>1 DEF field_passes, Absent, TYPE_VALIDATOR_MAP, custom_validator
<1>3. v.t = "string" /\ IsDateShaped(v) /\ validate_date_string_fast(v) /\ v.y > 1993
         => field_passes(v, f)
  BY <1>1, SMTT(20) DEF field_passes, Absent, check_field_empty, TYPE_VALIDATOR_MAP, custom_validator
<1>4. CASE v \in NoDates
  BY <1>2, <1>4, DateFields DEF f, validate_date_string_fast
<1>5. CASE v \in Dates
  <2>1. v.t = "string" /\ IsDateShaped(v) /\ v.y \in Nat
    BY <1>5, DateFields, Zenon
  <2>2. validate_date_string_fast(v) <=> IsDay(v.y, v.m, v.d) /\ v.y >= 1900 /\ v.y <= 2199
    BY <1>5, DateIsDay, SMTT(20)
  <2> QED
    BY <1>2, <1>3, <2>1, <2>2 DEF f
<1> QED
  BY <1>4, <1>5, Zenon

\* An end date that passes is a day within its bounds.
LEMMA EndPasses ==
    ASSUME NEW v \in EndDates, field_passes(v, Schema["sales"][2])
    PROVE  v \in Dates /\ IsDay(v.y, v.m, v.d) /\ v.y \in 1900..1996
<1> DEFINE f == Schema["sales"][2]
<1>1. f.type = "DATE" /\ f.is_required = TRUE /\ f.custom_validator = "sales_end"
  BY Zenon DEF Schema, SalesSchema, Field
<1> HIDE DEF f
<1>2. field_passes(v, f)
  BY Zenon DEF f
<1>3. ~Absent(v) /\ validate_date_string_fast(v) /\ v.y < 1997
  BY <1>1, <1>2 DEF field_passes, TYPE_VALIDATOR_MAP, custom_validator
<1>4. v \in Dates
  BY <1>3 DEF EndDates, Missing, Absent
<1> QED
  BY <1>3, <1>4, DateFields, DateIsDay

\* The fields of a message of sales.
LEMMA SalesFields ==
    ASSUME ctx = "sales", root # NotAnObject, root \in Payloads(ctx)
    PROVE  /\ root.start_date \in Dates \cup NoDates /\ root.end_date \in EndDates
           /\ Passed(1) <=> field_passes(root.start_date, Schema["sales"][1])
           /\ Passed(2) <=> field_passes(root.end_date, Schema["sales"][2])
<1>1. Schema["sales"][1].name = "start_date" /\ Schema["sales"][2].name = "end_date"
  BY Zenon DEF Schema, SalesSchema, Field
<1>2. root \in [start_date : Dates \cup NoDates, end_date : EndDates]
  BY Zenon DEF Payloads
<1>3. root.start_date \in Dates \cup NoDates /\ root.end_date \in EndDates
  BY <1>2, Zenon
<1> QED
  BY <1>1, <1>3, Zenon DEF Passed

\* The loop invariant gives the dates that are days.
LEMMA LoopCalendar == LoopInv => CalendarDays
<1> SUFFICES ASSUME LoopInv, ctx = "sales", root # NotAnObject
             PROVE  LET v == root.start_date
                        good == IsDateShaped(v) /\ IsDay(v.y, v.m, v.d) /\ v.y \in 1994..2199
                    IN /\ i > 1 => good
                       /\ outcome = "rejected" /\ i = 1 => ~good
  BY SMTT(20) DEF CalendarDays
<1> DEFINE v == root.start_date
           good == IsDateShaped(v) /\ IsDay(v.y, v.m, v.d) /\ v.y \in 1994..2199
<1>1. Passed(1) <=> good
  <2>1. v \in Dates \cup NoDates /\ (Passed(1) <=> field_passes(v, Schema["sales"][1]))
    BY SalesFields, Zenon DEF LoopInv
  <2> QED
    BY <2>1, StartPasses
<1> HIDE DEF good
<1>2. /\ i \in 1..3 /\ \A k \in 1..(i - 1) : Passed(k)
      /\ outcome = "rejected" => (i <= 2 /\ ~Passed(i)) \/ i > 2
  <2>1. Len(Schema["sales"]) = 2
    BY SchemaLength, Zenon
  <2> QED
    BY <2>1 DEF LoopInv
<1>3. i > 1 => Passed(1)
  BY <1>2
<1>4. outcome = "rejected" /\ i = 1 => ~Passed(1)
  BY <1>2
<1>5. (i > 1 => good) /\ (outcome = "rejected" /\ i = 1 => ~good)
  BY <1>1, <1>3, <1>4, Zenon
<1> QED
  BY <1>5, Zenon DEF good

\* The three years there are.
From1994(y) == y >= 1994
To1996(y) == y <= 1996
Within(p, q) == DayNumber(1994, 1, 1) <= p /\ q <= DayNumber(1996, 12, 31)

\* Days from 1994 on and up to 1996 are within those years, and in the order of
\* their years.
LEMMA ThreeYears ==
    ASSUME NEW y \in Nat, NEW z \in Nat, NEW p \in Int, NEW q \in Int,
           From1994(y), To1996(z), y <= z,
           p >= DayNumber(y, 1, 1), p < DayNumber(y + 1, 1, 1),
           q >= DayNumber(z, 1, 1), q < DayNumber(z + 1, 1, 1)
    PROVE  Within(p, q) /\ (y < z => p < q)
<1>1. /\ DayNumber(1994, 1, 1) = 728235 /\ DayNumber(1995, 1, 1) = 728600
      /\ DayNumber(1996, 1, 1) = 728965 /\ DayNumber(1997, 1, 1) = 729331
      /\ DayNumber(1996, 12, 31) = 729330
  BY DEF DayNumber
<1>2. y \in {1994, 1995, 1996} /\ z \in {1994, 1995, 1996}
  BY DEF From1994, To1996
<1>3. y + 1 \in {1995, 1996, 1997} /\ z + 1 \in {1995, 1996, 1997}
  BY <1>2
<1> QED
  BY <1>1, <1>2, <1>3, SMTT(20) DEF Within

\* Days in order of their years, months and days.
LEMMA RangeForward ==
    ASSUME NEW y \in Nat, NEW m \in 1..12, NEW d \in Int, IsDay(y, m, d), From1994(y),
           NEW z \in Nat, NEW l \in 1..12, NEW e \in Int, IsDay(z, l, e), To1996(z),
           y < z \/ (y = z /\ m < l) \/ (y = z /\ m = l /\ d < e)
    PROVE  /\ DayNumber(y, m, d) < DayNumber(z, l, e)
           /\ Within(DayNumber(y, m, d), DayNumber(z, l, e))
<1>1. DayNumber(y, m, d) \in Int /\ DayNumber(z, l, e) \in Int
  BY NextMonth, Zenon
<1>2. d >= 1 /\ e >= 1 /\ y <= z
  <2>1. d >= 1 /\ e >= 1
    BY Zenon DEF IsDay
  <2>2. y <= z
    OBVIOUS
  <2> QED
    BY <2>1, <2>2, Zenon
<1>3. /\ m < l => DayNumber(y, m, d) < DayNumber(y, l, e)
      /\ DayNumber(y, m, d) >= DayNumber(y, 1, 1)
      /\ DayNumber(y, m, d) < DayNumber(y + 1, 1, 1)
  BY <1>2, DayOrder, Zenon
<1>4. DayNumber(z, l, e) >= DayNumber(z, 1, 1) /\ DayNumber(z, l, e) < DayNumber(z + 1, 1, 1)
  BY <1>2, DayOrder, Zenon
<1>5. Within(DayNumber(y, m, d), DayNumber(z, l, e)) /\ (y < z => DayNumber(y, m, d) < DayNumber(z, l, e))
  BY <1>1, <1>2, <1>3, <1>4, ThreeYears, Zenon
<1>6. DayNumber(y, m, d) < DayNumber(z, l, e)
  <2>1. CASE y < z
    BY <1>5, <2>1, Zenon
  <2>2. CASE y = z /\ m < l
    BY <1>3, <2>2, Zenon
  <2>3. CASE y = z /\ m = l /\ d < e
    <3>1. DayNumber(y, m, d) < DayNumber(y, m, e)
      BY <2>3 DEF DayNumber
    <3> QED
      BY <2>3, <3>1, Zenon
  <2> QED
    BY <2>1, <2>2, <2>3, Zenon
<1> QED
  BY <1>5, <1>6, Zenon

\* The loop invariant gives the order of two dates.
LEMMA LoopChronological == LoopInv => Chronological
<1> SUFFICES ASSUME LoopInv, ctx = "sales", outcome = "accepted"
             PROVE  LET a == root.start_date
                        b == root.end_date
                    IN /\ DayNumber(a.y, a.m, a.d) < DayNumber(b.y, b.m, b.d)
                       /\ Within(DayNumber(a.y, a.m, a.d), DayNumber(b.y, b.m, b.d))
  BY DEF Chronological, Within
<1>1. root # NotAnObject /\ root \in Payloads(ctx) /\ sales_invariant_validator(root)
  BY Zenon DEF LoopInv
<1>2. i = 3 /\ \A k \in 1..(i - 1) : Passed(k)
  <2>1. Len(Schema["sales"]) = 2
    BY SchemaLength, Zenon
  <2> QED
    BY <2>1 DEF LoopInv
<1>3. Passed(1) /\ Passed(2)
  BY <1>2
<1>4. PICK a \in Dates \cup NoDates, b \in EndDates :
         /\ a = root.start_date /\ b = root.end_date
         /\ field_passes(a, Schema["sales"][1]) /\ field_passes(b, Schema["sales"][2])
  BY <1>1, <1>3, SalesFields, Zenon
<1>5. IsDateShaped(a) /\ IsDay(a.y, a.m, a.d) /\ From1994(a.y)
  BY <1>4, StartPasses DEF From1994
<1>6. a \in Dates
  BY <1>4, <1>5, DateFields, Zenon
<1>7. b \in Dates /\ IsDay(b.y, b.m, b.d) /\ To1996(b.y)
  BY <1>4, EndPasses DEF To1996
<1>8. strcmp_less(a, b)
  BY <1>1, <1>4, Zenon DEF sales_invariant_validator
<1>9. /\ a.y \in Nat /\ a.m \in 0..13 /\ a.d \in 0..32
      /\ b.y \in Nat /\ b.m \in 0..13 /\ b.d \in 0..32
  BY <1>6, <1>7, DateFields, Zenon
<1>10. a.m \in Nat /\ a.d \in Nat /\ b.m \in Nat /\ b.d \in Nat /\ a.d \in Int /\ b.d \in Int
  BY <1>9
<1>11. a.m \in 1..12 /\ b.m \in 1..12
  BY <1>5, <1>7, Zenon DEF IsDay
<1>12. a.y < b.y \/ (a.y = b.y /\ a.m < b.m) \/ (a.y = b.y /\ a.m = b.m /\ a.d < b.d)
  BY <1>8, <1>9, <1>10, StrcmpOrder, Zenon
<1>13. /\ DayNumber(a.y, a.m, a.d) < DayNumber(b.y, b.m, b.d)
       /\ Within(DayNumber(a.y, a.m, a.d), DayNumber(b.y, b.m, b.d))
  BY <1>5, <1>7, <1>9, <1>10, <1>11, <1>12, RangeForward, Zenon
<1> QED
  BY <1>4, <1>13, Zenon

\* The loop invariant includes the types.
LEMMA LoopTyped == LoopInv => ValidTypeOK
BY PayloadDomain, Zenon DEF LoopInv, ValidTypeOK

\* Validation accepts the requests that the contexts of the handlers describe,
\* strings with a NUL in them included, and the handlers get what was
\* validated, whatever the width of an int, the lengths and the bounds
\* (validate_json and the validators of lib/validation.c).
THEOREM RequestsValidated == ValidSpec => []ValidInv
<1>1. LoopInv => ValidInv
  BY LoopTyped, LoopRequired, LoopLength, LoopCapped, Zenon DEF ValidInv
<1> QED
  BY <1>1, LoopInit, LoopStep, PTL DEF ValidSpec

\* A date accepted by validate_date_string_fast is a day of the calendar and no
\* day is refused, and an accepted range runs forward in time, for every set of
\* years of four digits.
THEOREM DatesValidated == ValidSpec => []DatesInv
<1>1. LoopInv => DatesInv
  BY LoopCalendar, LoopChronological, Zenon DEF DatesInv
<1> QED
  BY <1>1, LoopInit, LoopStep, PTL DEF ValidSpec

----------------------------------------------------------------------------
(* JwtCache: single flight, and no lost wakeup, for every number of workers *)

\* The replies of the login request are numbers, so that they can be compared.
LEMMA RepliesAreNumbers == FAILED \in Replies /\ NO_TOKEN \in Replies /\ Replies \subseteq Int
BY JwtCacheConstants DEF Replies, FAILED, NO_TOKEN

\* Initially there is no leader, no follower, the flag is down.
LEMMA JwtInitial == JwtInit => JwtInv
<1> SUFFICES ASSUME JwtInit PROVE JwtInv
  BY Zenon
<1>1. ttl \in 0 .. MaxTTL /\ backoff \in 0 .. BACKOFF
  BY JwtCacheConstants DEF JwtInit
<1>2. JwtTypeOK
  BY <1>1, RepliesAreNumbers, Zenon DEF JwtInit, JwtTypeOK
<1>3. \A w \in Workers : at[w] = "idle"
  BY Zenon DEF JwtInit
<1>4. Leaders = {}
  BY <1>3, Zenon DEF Leaders
<1>5. ~jwt_is_refreshing
  BY Zenon DEF JwtInit
<1>6. QED
  BY <1>2, <1>3, <1>4, <1>5, Zenon DEF JwtInv, OneLeader, FollowerHasLeader

\* A step of a worker that neither becomes nor ceases to be a leader, nor goes
\* to sleep, and leaves the flag alone, keeps leaders and followers in order.
LEMMA KeepsLeaders ==
    ASSUME JwtInv, NEW w \in Workers, NEW l \in {"idle", "lock", "call", "refused"},
           at[w] \notin {"login", "update"},
           Goto(w, l), jwt_is_refreshing' = jwt_is_refreshing
    PROVE  OneLeader' /\ FollowerHasLeader'
<1>1. at' = [at EXCEPT ![w] = l] /\ at \in [Workers -> {"idle", "lock", "wait", "login",
                                                        "update", "call", "refused"}]
  BY Zenon DEF Goto, JwtInv, JwtTypeOK
<1>2. \A x \in Workers : at'[x] = IF x = w THEN l ELSE at[x]
  BY <1>1, Zenon
<1>3. Leaders' = Leaders
  BY <1>2, Zenon DEF Leaders
<1>4. QED
  BY <1>2, <1>3, Zenon DEF JwtInv, OneLeader, FollowerHasLeader

\* Every step keeps the invariant.
LEMMA JwtStep == JwtInv /\ [JwtNext]_jwt_vars => JwtInv'
<1> SUFFICES ASSUME JwtInv, [JwtNext]_jwt_vars PROVE JwtInv'
  BY Zenon
<1> USE JwtCacheConstants, RepliesAreNumbers
<1>1. CASE time
  BY <1>1 DEF time, JwtInv, JwtTypeOK, OneLeader, FollowerHasLeader, Leaders
<1>2. ASSUME NEW w \in Workers, customer_service_get_info(w) PROVE JwtInv'
  <2>1. JwtTypeOK'
    BY <1>2, Zenon DEF JwtInv, JwtTypeOK, customer_service_get_info, Goto
  <2>2. QED
    BY <1>2, <2>1, KeepsLeaders, Zenon DEF JwtInv, customer_service_get_info
<1>3. ASSUME NEW w \in Workers, token_cached(w) PROVE JwtInv'
  <2>1. JwtTypeOK'
    BY <1>3, Zenon DEF JwtInv, JwtTypeOK, token_cached, Goto
  <2>2. QED
    BY <1>3, <2>1, KeepsLeaders, Zenon DEF JwtInv, token_cached
<1>4. ASSUME NEW w \in Workers, token_wait(w) PROVE JwtInv'
  <2>1. JwtTypeOK'
    BY <1>4, Zenon DEF JwtInv, JwtTypeOK, token_wait, Goto
  <2>2. \A x \in Workers : at'[x] = IF x = w THEN "wait" ELSE at[x]
    BY <1>4, Zenon DEF JwtInv, JwtTypeOK, token_wait, Goto
  <2>3. Leaders' = Leaders
    BY <1>4, <2>2, Zenon DEF Leaders, token_wait
  <2>4. OneLeader'
    BY <1>4, <2>3, Zenon DEF JwtInv, OneLeader, token_wait
  <2>5. FollowerHasLeader'
    BY <1>4, <2>3, Zenon DEF JwtInv, OneLeader, FollowerHasLeader, token_wait
  <2>6. QED
    BY <2>1, <2>4, <2>5, Zenon DEF JwtInv
<1>5. ASSUME NEW w \in Workers, token_backoff(w) PROVE JwtInv'
  <2>1. JwtTypeOK'
    BY <1>5, Zenon DEF JwtInv, JwtTypeOK, token_backoff, Goto
  <2>2. QED
    BY <1>5, <2>1, KeepsLeaders, Zenon DEF JwtInv, token_backoff
<1>6. ASSUME NEW w \in Workers, token_lead(w) PROVE JwtInv'
  <2>1. JwtTypeOK'
    BY <1>6, Zenon DEF JwtInv, JwtTypeOK, token_lead, Goto
  <2>2. \A x \in Workers : at'[x] = IF x = w THEN "login" ELSE at[x]
    BY <1>6, Zenon DEF JwtInv, JwtTypeOK, token_lead, Goto
  <2>3. Leaders = {} /\ jwt_is_refreshing'
    BY <1>6, Zenon DEF JwtInv, OneLeader, token_lead
  <2>4. Leaders' = {w}
    BY <2>2, <2>3, Zenon DEF Leaders
  <2>5. QED
    BY <2>1, <2>3, <2>4, Zenon DEF JwtInv, OneLeader, FollowerHasLeader
<1>7. ASSUME NEW w \in Workers, execute_login_request(w) PROVE JwtInv'
  <2>1. PICK r \in Replies : answer' = [answer EXCEPT ![w] = r]
    BY <1>7, Zenon DEF execute_login_request
  <2>2. JwtTypeOK'
    BY <1>7, <2>1, Zenon DEF JwtInv, JwtTypeOK, execute_login_request, Goto
  <2>3. \A x \in Workers : at'[x] = IF x = w THEN "update" ELSE at[x]
    BY <1>7, Zenon DEF JwtInv, JwtTypeOK, execute_login_request, Goto
  <2>4. Leaders' = Leaders
    BY <1>7, <2>3, Zenon DEF Leaders, execute_login_request
  <2>5. QED
    BY <1>7, <2>2, <2>3, <2>4, Zenon
       DEF JwtInv, OneLeader, FollowerHasLeader, execute_login_request
<1>8. ASSUME NEW w \in Workers, token_update(w) PROVE JwtInv'
  <2>1. token' \in BOOLEAN /\ ttl' \in 0 .. MaxTTL /\ backoff' \in 0 .. BACKOFF
    <3>1. CASE answer[w] = FAILED /\ Failed
      BY <3>1 DEF JwtInv, JwtTypeOK, Failed
    <3>2. CASE answer[w] # FAILED /\ update_jwt_cache(answer[w])
      <4>1. answer[w] = NO_TOKEN \/ answer[w] \in 0 .. MaxTTL
        BY <3>2, Zenon DEF JwtInv, JwtTypeOK, Replies
      <4>2. QED
        BY <3>2, <4>1 DEF JwtInv, JwtTypeOK, update_jwt_cache
    <3>3. QED
      BY <1>8, <3>1, <3>2, Zenon DEF token_update
  <2>2. PICK l \in {"call", "idle"} : broadcast(w, l)
    BY <1>8, Zenon DEF token_update
  <2>3. \A x \in Workers : at'[x] = IF x = w THEN l ELSE IF at[x] = "wait" THEN "lock" ELSE at[x]
    BY <2>2, Zenon DEF broadcast
  <2>4. JwtTypeOK'
    BY <1>8, <2>1, <2>2, Zenon DEF JwtInv, JwtTypeOK, token_update, broadcast
  <2>5. Leaders = {w}
    BY <1>8, Zenon DEF JwtInv, OneLeader, Leaders, token_update
  <2>6. Leaders' = {} /\ ~jwt_is_refreshing'
    BY <1>8, <2>3, <2>5, Zenon DEF Leaders, token_update
  <2>7. FollowerHasLeader'
    BY <2>3, Zenon DEF FollowerHasLeader
  <2>8. QED
    BY <2>4, <2>6, <2>7, Zenon DEF JwtInv, OneLeader
<1>9. ASSUME NEW w \in Workers, spurious_wakeup(w) PROVE JwtInv'
  <2>1. JwtTypeOK'
    BY <1>9, Zenon DEF JwtInv, JwtTypeOK, spurious_wakeup, Goto
  <2>2. QED
    BY <1>9, <2>1, KeepsLeaders, Zenon DEF JwtInv, spurious_wakeup
<1>10. ASSUME NEW w \in Workers, customer_request(w) PROVE JwtInv'
  <2>1. JwtTypeOK'
    BY <1>10, Zenon DEF JwtInv, JwtTypeOK, customer_request, Goto
  <2>2. QED
    BY <1>10, <2>1, KeepsLeaders, Zenon DEF JwtInv, customer_request
<1>11. ASSUME NEW w \in Workers, invalidate(w) PROVE JwtInv'
  <2>1. JwtTypeOK'
    BY <1>11, Zenon DEF JwtInv, JwtTypeOK, invalidate, Goto
  <2>2. QED
    BY <1>11, <2>1, KeepsLeaders, Zenon DEF JwtInv, invalidate
<1>12. CASE UNCHANGED jwt_vars
  BY <1>12, Zenon DEF jwt_vars, JwtInv, JwtTypeOK, OneLeader, FollowerHasLeader, Leaders
<1>13. QED
  BY <1>1, <1>2, <1>3, <1>4, <1>5, <1>6, <1>7, <1>8, <1>9, <1>10, <1>11, <1>12, Zenon
     DEF JwtNext, login_and_get_token

\* For every number of workers, login_and_get_token and the invalidation of
\* customer_service_get_info keep the invariant of the token cache.
THEOREM JwtCacheCorrect == JwtSpec => []JwtInv
BY JwtInitial, JwtStep, PTL DEF JwtSpec

\* For every number of workers, at most one thread logs in at a time, and
\* jwt_is_refreshing says whether one does.
THEOREM SingleFlight == JwtSpec => []OneLeader
<1>1. JwtInv => OneLeader
  BY Zenon DEF JwtInv
<1>2. QED
  BY <1>1, JwtCacheCorrect, PTL

\* For every number of workers, no follower sleeps without a leader that will
\* broadcast.
THEOREM NoFollowerIsLost == JwtSpec => []FollowerHasLeader
<1>1. JwtInv => FollowerHasLeader
  BY Zenon DEF JwtInv
<1>2. QED
  BY <1>1, JwtCacheCorrect, PTL
=============================================================================
