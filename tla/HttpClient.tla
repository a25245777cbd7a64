----------------------------- MODULE HttpClient -----------------------------
(***************************************************************************)
(* The HTTP client of lib/http_client.c on one worker thread: a curl handle*)
(* kept for the thread's life, and for each request a buffer that grows as *)
(* the body arrives, a list of headers and an error buffer, all of which   *)
(* live on the stack of the call while the handle points to them.          *)
(*                                                                         *)
(* Any allocation may fail, the transfer may fail at any point, and        *)
(* libcurl delivers the body in pieces of any size.                        *)
(***************************************************************************)
EXTENDS Integers

CONSTANTS CHUNK_SIZE,    \* HTTP_CLIENT_CHUNK_SIZE
          MAX_PAYLOAD,   \* config_get_max_payload_size()
          MaxPiece       \* libcurl's largest piece

ASSUME HttpClientConstants == /\ CHUNK_SIZE \in Nat \ {0}
                              /\ MAX_PAYLOAD \in Nat
                              /\ MaxPiece \in Nat

VARIABLES tls,        \* the thread's key holds the handle
          alive,      \* external: the handle exists
          opts,       \* external: the options that point into a call's stack
          pc,         \* where the thread is
          mem,        \* chunk.memory is allocated
          size, capacity,
          headers,    \* the header list is allocated
          sent,       \* external: the bytes of the body delivered so far
          http_code,  \* what the caller finds in its variable
          result      \* "none", "null" or "body"

chunk == <<mem, size, capacity>>
vars == <<tls, alive, opts, chunk, headers, pc, sent, http_code, result>>

\* http_code: 0 as the caller set it, 500, 503, or the server's.
Codes == {"unset", "internal", "unavailable", "answer"}

TypeOK == /\ tls \in BOOLEAN /\ alive \in BOOLEAN
          /\ opts \subseteq {"write", "error", "headers"}
          /\ pc \in {"new", "idle", "setup", "headers", "perform", "transfer", "return", "exited"}
          /\ mem \in BOOLEAN /\ headers \in BOOLEAN
          /\ size \in Nat /\ capacity \in Nat /\ sent \in Nat
          /\ http_code \in Codes
          /\ result \in {"none", "null", "body"}

Init == /\ tls = FALSE /\ alive = FALSE /\ opts = {} /\ pc = "new"
        /\ mem = FALSE /\ size = 0 /\ capacity = 0 /\ headers = FALSE
        /\ sent = 0 /\ http_code = "unset" /\ result = "none"

----------------------------------------------------------------------------
(* The thread's handle *)

\* get_thread_curl: the handle is there, is made, or cannot be.
get_thread_curl(made) == /\ made \in {tls, TRUE}
                         /\ tls' = made
                         /\ alive' = (alive \/ made)

\* The worker starts.
http_client_init_thread ==
    /\ pc = "new" /\ pc' = "idle"
    /\ \E made \in BOOLEAN : get_thread_curl(made)
    /\ UNCHANGED <<opts, chunk, headers, sent, http_code, result>>

\* The worker ends: the key is cleared, and the handle freed if the key held it.
http_client_cleanup_thread ==
    /\ pc = "idle" /\ pc' = "exited"
    /\ tls' = FALSE
    /\ alive' = (alive /\ ~tls)
    /\ UNCHANGED <<opts, chunk, headers, sent, http_code, result>>

----------------------------------------------------------------------------
(* One request *)

\* perform_http_request is called; the URL may be too long.
build_request_url ==
    /\ pc = "idle"
    /\ size' = 0 /\ capacity' = 0 /\ sent' = 0
    /\ \/ pc' = "setup" /\ http_code' = "unset" /\ result' = "none"
       \/ pc' = "return" /\ http_code' = "internal" /\ result' = "null"
    /\ UNCHANGED <<tls, alive, opts, mem, headers>>

\* setup_curl_request: the handle is reset, the buffer allocated and given to it.
setup_curl_request ==
    /\ pc = "setup"
    /\ \E made \in BOOLEAN :
          /\ get_thread_curl(made)
          /\ \/ /\ made
                /\ opts' = {"write"}
                /\ mem' = TRUE /\ size' = 0 /\ capacity' = CHUNK_SIZE
                /\ pc' = "headers" /\ UNCHANGED result
             \/ /\ opts' = IF made THEN {} ELSE opts
                /\ pc' = "return" /\ result' = "null"
                /\ UNCHANGED chunk
    /\ UNCHANGED <<headers, sent, http_code>>

\* CURLOPT_WRITEDATA is cleared when the headers cannot be allocated.
opts_without_headers(o) == o \ {"write"}

\* The header list is allocated, or a part of it is.
curl_slist_append ==
    /\ pc = "headers"
    /\ \/ /\ headers' \in BOOLEAN
          /\ opts' = IF headers' THEN opts \cup {"headers"} ELSE opts
          /\ pc' = "perform" /\ UNCHANGED result
       \/ /\ headers' \in BOOLEAN
          /\ opts' = opts_without_headers(opts)
          /\ pc' = "return" /\ result' = "null"
    /\ UNCHANGED <<tls, alive, chunk, sent, http_code>>

\* curl_easy_perform starts, with the error buffer set.
curl_easy_perform ==
    /\ pc = "perform" /\ pc' = "transfer"
    /\ opts' = opts \cup {"error"}
    /\ UNCHANGED <<tls, alive, chunk, headers, sent, http_code, result>>

\* What is taken back from the handle after a transfer.
opts_after_perform == opts \ {"headers", "error", "write"}

\* The transfer fails: by itself, or because the callback took less than it
\* was given.
Aborts == /\ pc' = "return"
          /\ opts' = opts_after_perform
          /\ http_code' = "unavailable" /\ result' = "null"
          /\ UNCHANGED <<tls, alive, headers>>

\* Mutant: room for the bytes, and none for the terminator.
req_cap_Exact(new_size) == new_size

req_cap(new_size) == new_size + 1

\* The buffer doubles, or grows to what is needed.
new_cap(cap, req) == IF cap * 2 < req THEN req ELSE cap * 2

\* write_memory_cb: the piece would exceed the limit.
over_limit ==
    /\ pc = "transfer"
    /\ \E n \in 0..MaxPiece : size + n > MAX_PAYLOAD /\ sent' = sent + n
    /\ Aborts
    /\ UNCHANGED chunk

\* write_memory_cb: the piece is appended, in a larger buffer if need be.
write_memory_cb ==
    /\ pc = "transfer"
    /\ \E n \in 0..MaxPiece :
          /\ size + n <= MAX_PAYLOAD
          /\ sent' = sent + n
          /\ size' = size + n
          /\ capacity' = IF req_cap(size + n) > capacity
                         THEN new_cap(capacity, req_cap(size + n)) ELSE capacity
    /\ UNCHANGED <<tls, alive, opts, mem, headers, pc, http_code, result>>

\* write_memory_cb: the larger buffer cannot be had, and the old one goes.
out_of_memory ==
    /\ pc = "transfer"
    /\ \E n \in 0..MaxPiece : /\ size + n <= MAX_PAYLOAD
                              /\ req_cap(size + n) > capacity
                              /\ sent' = sent + n
    /\ mem' = FALSE /\ size' = 0 /\ capacity' = 0
    /\ Aborts

\* The network fails, or a timeout strikes.
transfer_fails ==
    /\ pc = "transfer"
    /\ Aborts
    /\ UNCHANGED <<chunk, sent>>

\* The answer is complete: it is parsed or copied, unless it is empty or is
\* no JSON.
do_http_request ==
    /\ pc = "transfer" /\ pc' = "return"
    /\ opts' = opts_after_perform
    /\ http_code' = "answer"
    /\ \/ size > 0 /\ mem /\ result' = "body"
       \/ result' = "null"
    /\ UNCHANGED <<tls, alive, chunk, headers, sent>>

\* The cleanups of the call's locals run and the caller looks at the result.
request_returns ==
    /\ pc = "return" /\ pc' = "idle"
    /\ mem' = FALSE /\ headers' = FALSE
    /\ size' = 0 /\ capacity' = 0 /\ sent' = 0
    /\ UNCHANGED <<tls, alive, opts, http_code, result>>

----------------------------------------------------------------------------
Next == \/ http_client_init_thread \/ http_client_cleanup_thread
        \/ build_request_url \/ setup_curl_request \/ curl_slist_append
        \/ curl_easy_perform \/ over_limit \/ write_memory_cb \/ out_of_memory
        \/ transfer_fails \/ do_http_request \/ request_returns
        \/ pc = "exited" /\ UNCHANGED vars

Spec == Init /\ [][Next]_vars

----------------------------------------------------------------------------
(* Properties *)

\* The bytes received and their terminator fit in the buffer, whatever the
\* pieces were, and never exceed the limit on payloads.
BufferFits == mem => size < capacity /\ size <= MAX_PAYLOAD

\* Once a request has returned, and while the thread is between two of them,
\* the handle points to nothing on the stack and the request's memory is
\* freed, on every path.
NothingDangles == /\ pc \in {"return", "idle", "exited"} => opts = {}
                  /\ pc \in {"idle", "exited"} => ~mem /\ ~headers

\* A request that returns a body returns all of it, with the server's status:
\* a body cut by the limit or by a failure is never parsed.
WholeBody == pc \in {"return", "idle"} /\ result = "body" =>
                size = sent /\ http_code = "answer"

\* What holds at each stage of a request.
Stages ==
    /\ pc \in {"new", "idle", "setup", "return", "exited"} => opts = {}
    /\ pc \in {"new", "idle", "setup", "exited"} => ~mem /\ ~headers
    /\ pc = "headers" => opts = {"write"} /\ ~headers
    /\ pc = "new" => result = "none"
    /\ pc = "setup" => size = 0 /\ sent = 0
    /\ pc \in {"headers", "perform", "transfer"} => mem /\ size = sent

\* The key and the handle agree, so that exactly one of the explicit clean-up
\* and the key's destructor frees the handle.
FreedOnce == /\ tls = alive
             /\ pc = "exited" => ~alive

\* The inductive invariant of the client: the buffer fits, nothing is left in
\* the handle between requests, a returned body is whole, and the handle is
\* freed once.
HttpInv == TypeOK /\ BufferFits /\ Stages /\ WholeBody /\ FreedOnce
=============================================================================
