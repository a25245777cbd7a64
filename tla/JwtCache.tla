------------------------------ MODULE JwtCache ------------------------------
(***************************************************************************)
(* The token cache of src/customer.c.  Worker threads that call the remote *)
(* customer service share one token.  The thread that finds it missing or  *)
(* expired logs in to the service for everyone (the leader); the others    *)
(* sleep on a condition variable until it has finished (the followers).    *)
(*                                                                         *)
(* A critical section of jwt_cache_lock is one step and a remote call is   *)
(* one step.  Times are kept relative to now: how long the token is still  *)
(* valid (expires_at), and how long the back-off after a failed login      *)
(* still lasts (last_failed_auth + 5).                                     *)
(***************************************************************************)
EXTENDS Integers, FiniteSets

CONSTANTS Workers,   \* the worker threads
          MaxTTL,    \* the longest a token is valid
          BACKOFF    \* how long logins are refused after a failed one

ASSUME JwtCacheConstants == MaxTTL \in Nat /\ BACKOFF \in Nat \ {0}

\* What the login request comes back with: nothing, a reply without a token
\* that fits, or a token and the time it is still valid.
FAILED == -2
NO_TOKEN == -1
Replies == {FAILED, NO_TOKEN} \cup 0 .. MaxTTL

VARIABLES token,               \* whether cache->token is not empty
          ttl,                 \* cache->expires_at - now, 0 once past
          backoff,             \* cache->last_failed_auth + 5 - now, 0 once past
          jwt_is_refreshing,
          at,                  \* where each worker is
          answer               \* what its login came back with

jwt_vars == <<token, ttl, backoff, jwt_is_refreshing, at, answer>>

JwtTypeOK == /\ token \in BOOLEAN
             /\ ttl \in 0 .. MaxTTL
             /\ backoff \in 0 .. BACKOFF
             /\ jwt_is_refreshing \in BOOLEAN
             /\ at \in [Workers -> {"idle", "lock", "wait", "login", "update",
                                    "call", "refused"}]
             /\ answer \in [Workers -> Replies]

JwtInit == /\ token = FALSE
           /\ ttl = 0
           /\ backoff = 0
           /\ jwt_is_refreshing = FALSE
           /\ at = [w \in Workers |-> "idle"]
           /\ answer = [w \in Workers |-> FAILED]

Goto(w, l) == at' = [at EXCEPT ![w] = l]

\* A second goes by.
time == /\ ttl' = IF ttl = 0 THEN 0 ELSE ttl - 1
        /\ backoff' = IF backoff = 0 THEN 0 ELSE backoff - 1
        /\ UNCHANGED <<token, jwt_is_refreshing, at, answer>>

----------------------------------------------------------------------------
(* login_and_get_token *)

\* A handler calls customer_service_get_info.
customer_service_get_info(w) ==
    /\ at[w] = "idle"
    /\ Goto(w, "lock")
    /\ UNCHANGED <<token, ttl, backoff, jwt_is_refreshing, answer>>

\* Whether the cached token may be used.
Cached == token /\ ttl > 0

token_cached(w) ==
    /\ at[w] = "lock" /\ Cached
    /\ Goto(w, "call")
    /\ UNCHANGED <<token, ttl, backoff, jwt_is_refreshing, answer>>

token_wait(w) ==
    /\ at[w] = "lock" /\ ~Cached /\ jwt_is_refreshing
    /\ Goto(w, "wait")
    /\ UNCHANGED <<token, ttl, backoff, jwt_is_refreshing, answer>>

\* pthread_cond_wait may return unasked.
spurious_wakeup(w) ==
    /\ at[w] = "wait"
    /\ Goto(w, "lock")
    /\ UNCHANGED <<token, ttl, backoff, jwt_is_refreshing, answer>>

token_backoff(w) ==
    /\ at[w] = "lock" /\ ~Cached /\ ~jwt_is_refreshing /\ backoff > 0
    /\ Goto(w, "idle")
    /\ UNCHANGED <<token, ttl, backoff, jwt_is_refreshing, answer>>

\* Mutant: the leader does not say that it is one.
token_lead_NoFlag(w) ==
    /\ at[w] = "lock" /\ ~Cached /\ ~jwt_is_refreshing /\ backoff = 0
    /\ Goto(w, "login")
    /\ UNCHANGED <<token, ttl, backoff, jwt_is_refreshing, answer>>

token_lead(w) ==
    /\ at[w] = "lock" /\ ~Cached /\ ~jwt_is_refreshing /\ backoff = 0
    /\ jwt_is_refreshing' = TRUE
    /\ Goto(w, "login")
    /\ UNCHANGED <<token, ttl, backoff, answer>>

\* The lock is not held during the login.
execute_login_request(w) ==
    /\ at[w] = "login"
    /\ \E r \in Replies : answer' = [answer EXCEPT ![w] = r]
    /\ Goto(w, "update")
    /\ UNCHANGED <<token, ttl, backoff, jwt_is_refreshing>>

\* A failed login leaves the cached token alone.
Failed == backoff' = BACKOFF /\ UNCHANGED <<token, ttl>>

\* Otherwise the cached token is replaced, or only removed, and the back-off
\* is over.  expires_at is left alone when there is no token to take it from.
update_jwt_cache(r) ==
    /\ backoff' = 0
    /\ token' = (r # NO_TOKEN)
    /\ ttl' = IF r = NO_TOKEN THEN ttl ELSE r

\* Mutant: the followers are not woken.
broadcast_Not(w, l) == Goto(w, l)

\* The leader wakes every follower and leaves.
broadcast(w, l) ==
    at' = [x \in Workers |-> IF x = w THEN l ELSE IF at[x] = "wait" THEN "lock" ELSE at[x]]

\* The second critical section of the leader.  It takes whatever token is in
\* the cache, an expired one after a failed login.
token_update(w) ==
    /\ at[w] = "update"
    /\ \/ answer[w] = FAILED /\ Failed
       \/ answer[w] # FAILED /\ update_jwt_cache(answer[w])
    /\ jwt_is_refreshing' = FALSE
    /\ broadcast(w, IF token' THEN "call" ELSE "idle")
    /\ answer' = [answer EXCEPT ![w] = FAILED]

----------------------------------------------------------------------------
(* The rest of customer_service_get_info *)

\* The customer request with the token; only a 401 reply concerns the cache.
customer_request(w) ==
    /\ at[w] = "call"
    /\ Goto(w, "idle") \/ Goto(w, "refused")
    /\ UNCHANGED <<token, ttl, backoff, jwt_is_refreshing, answer>>

\* The cache is emptied, be it of the refused token or of a newer one.
invalidate(w) ==
    /\ at[w] = "refused"
    /\ token' = FALSE
    /\ Goto(w, "idle")
    /\ UNCHANGED <<ttl, backoff, jwt_is_refreshing, answer>>

----------------------------------------------------------------------------
login_and_get_token(w) ==
    \/ token_cached(w) \/ token_wait(w) \/ token_backoff(w) \/ token_lead(w)
    \/ execute_login_request(w) \/ token_update(w)

JwtNext == \/ time
           \/ \E w \in Workers : \/ customer_service_get_info(w)
                                 \/ login_and_get_token(w)
                                 \/ spurious_wakeup(w)
                                 \/ customer_request(w)
                                 \/ invalidate(w)

JwtSpec == JwtInit /\ [][JwtNext]_jwt_vars

\* A worker that has entered login_and_get_token is scheduled, and the http
\* client's timeouts end every login request.
JwtFairSpec == JwtSpec /\ \A w \in Workers : WF_jwt_vars(login_and_get_token(w))

----------------------------------------------------------------------------
(* Properties *)

\* The workers that are logging in or about to update the cache.
Leaders == {w \in Workers : at[w] \in {"login", "update"}}

\* Single flight: whoever finds the token missing, expired or refused, and
\* whenever, no two threads log in at the same time, and the flag says
\* whether one does.  So no late reply overwrites a newer token.
OneLeader == /\ jwt_is_refreshing <=> Leaders # {}
             /\ \A v, w \in Leaders : v = w

\* No lost wakeup: a follower sleeps only while a leader is at work, that will
\* broadcast.
FollowerHasLeader == \A w \in Workers : at[w] = "wait" => Leaders # {}

\* The inductive invariant of the cache: the flag, the one leader and the
\* followers that rely on it.
JwtInv == JwtTypeOK /\ OneLeader /\ FollowerHasLeader

\* Every follower is woken, whatever the login comes back with.
FollowerWakes == \A w \in Workers : at[w] = "wait" ~> at[w] # "wait"
=============================================================================
