----------------------------- MODULE OrderPath -----------------------------
(***************************************************************************)
(* POST /orders through two services: the api's middlewares (metrics with  *)
(* chaos, then the limiter: shared/autosre_shared/app.py), its handler and *)
(* its breaker (api/main.py), the call of POST /validate by                *)
(* HTTPServiceClient, and the same middlewares and the handler of auth     *)
(* (auth/main.py).                                                         *)
(*                                                                         *)
(* Every layer is entered through an await, so each is a step of its own.  *)
(* The breaker is the record of BreakerRecord; a limiter is the bucket of  *)
(* TokenBucket, which RateLimiter implements.  To auth the whole api is    *)
(* one client: propagation_headers has no X-Forwarded-For.                 *)
(*                                                                         *)
(* Chaos may be reconfigured between any two requests, so what it does to  *)
(* one is a choice.  So is what an order brings along: its client, a body  *)
(* the schema refuses, a token auth's schema refuses, a valid or an        *)
(* invalid token.  auth's own breaker guards a wait that never fails and   *)
(* stays closed.                                                           *)
(***************************************************************************)
EXTENDS BreakerRecord, FiniteSets

CONSTANTS
  Orders,       \* slots for orders in progress at the same time
  Clients,      \* the clients they come from
  Rate, Burst,  \* of both limiters, in tokens: RATE_LIMIT_RPS, _BURST
  CallTimeout   \* ticks a call of auth may take

ASSUME OrderConfig ==
  /\ IsFiniteSet(Orders)
  /\ Rate \in Nat \ {0} /\ Burst \in Nat
  /\ CallTimeout \in Nat /\ CallTimeout < RecoveryTimeout

VARIABLES
  stage,        \* the layer of the api each order has reached: "chaos",
                \* "limiter", "handler", "calling" auth, "working"; "none"
  answer,       \* the status it was last answered with
  tokens,       \* the api's buckets
  rec,          \* the api's breaker
  age,          \* ticks each call of auth has taken
  auth,         \* the layer of auth each call has reached, or its reply
  auth_tokens,  \* auth's bucket for the api
  \* History, read by the properties only:
  reached,      \* the order was seen by auth
  verdict,      \* what auth found about its token
  auth_failed   \* auth has injected an error, or not answered in time

orderVars == <<stage, answer>>
callVars  == <<age, auth, auth_tokens, reached, verdict, auth_failed>>
pathVars  == <<orderVars, tokens, rec, callVars>>

----------------------------------------------------------------------------
Replies == {"valid", "invalid", "error"}

Shed == {"422", "429", "500", "503"}

\* The limiters, at a cost of one token a request.
Bucket == INSTANCE TokenBucket WITH Cost <- 1
AuthBucket == INSTANCE TokenBucket WITH Clients <- {"api"}, Cost <- 1, tokens <- auth_tokens

Init ==
  /\ stage = [o \in Orders |-> "none"]
  /\ answer = [o \in Orders |-> "none"]
  /\ Bucket!Init
  /\ rec = InitRecord
  /\ age = [o \in Orders |-> 0]
  /\ auth = [o \in Orders |-> "none"]
  /\ AuthBucket!Init
  /\ reached = [o \in Orders |-> FALSE]
  /\ verdict = [o \in Orders |-> "none"]
  /\ auth_failed = FALSE

----------------------------------------------------------------------------
(***************************************************************************)
(* The api.                                                                *)
(***************************************************************************)

\* PrometheusMiddleware up to the chaos hook.  An o is a slot, which the next
\* order takes when nothing of the last one is left in either service.
Arrive(o) ==
  /\ stage[o] = "none" /\ auth[o] = "none"
  /\ stage' = [stage EXCEPT ![o] = "chaos"]
  /\ answer' = [answer EXCEPT ![o] = "none"]
  /\ reached' = [reached EXCEPT ![o] = FALSE]
  /\ verdict' = [verdict EXCEPT ![o] = "none"]
  /\ UNCHANGED <<tokens, rec, age, auth, auth_tokens, auth_failed>>

\* The response passes the middlewares.
Respond(o, status) ==
  /\ stage' = [stage EXCEPT ![o] = "none"]
  /\ answer' = [answer EXCEPT ![o] = status]

GoOn(o, next) ==
  /\ stage' = [stage EXCEPT ![o] = next]
  /\ UNCHANGED answer

\* apply_request_chaos has returned, after a delay or at once.
ApplyChaos(o) ==
  /\ stage[o] = "chaos"
  /\ GoOn(o, "limiter") \/ Respond(o, "500")
  /\ UNCHANGED <<tokens, rec, callVars>>

\* Mutant: a request over the limit waits for a token.
LimitWaits(o, c) ==
  /\ stage[o] = "limiter"
  /\ Bucket!Pay(c)
  /\ GoOn(o, "handler")
  /\ UNCHANGED <<rec, callVars>>

\* RateLimitMiddleware, for the client _client_key finds.
Limit(o, c) ==
  /\ stage[o] = "limiter"
  /\ \/ Bucket!Pay(c) /\ GoOn(o, "handler")
     \/ tokens[c] < 1 /\ Respond(o, "429") /\ UNCHANGED tokens
  /\ UNCHANGED <<rec, callVars>>

\* The call of auth is sent.
Send(o) ==
  /\ auth' = [auth EXCEPT ![o] = "sent"]
  /\ UNCHANGED <<age, auth_tokens, reached, verdict, auth_failed>>

\* Mutant: the call is started before the breaker is asked.
HandleSendsFirst(o) ==
  /\ stage[o] = "handler"
  /\ \/ Respond(o, "422") /\ UNCHANGED <<rec, callVars>>
     \/ Rejects(rec) /\ Respond(o, "503") /\ Send(o) /\ UNCHANGED rec
     \/ ~Rejects(rec) /\ rec' = Allowed(rec) /\ GoOn(o, "calling") /\ Send(o)
  /\ UNCHANGED tokens

\* create_order up to the await of the breaker's call: 422 for a body the
\* schema refuses, 503 from an open breaker.
Handle(o) ==
  /\ stage[o] = "handler"
  /\ \/ Respond(o, "422") /\ UNCHANGED <<rec, callVars>>
     \/ Rejects(rec) /\ Respond(o, "503") /\ UNCHANGED <<rec, callVars>>
     \/ ~Rejects(rec) /\ rec' = Allowed(rec) /\ GoOn(o, "calling") /\ Send(o)
  /\ UNCHANGED tokens

\* The call is over for the api.
HangUp(o, left) ==
  /\ auth' = [auth EXCEPT ![o] = left]
  /\ age' = [age EXCEPT ![o] = 0]
  /\ UNCHANGED <<auth_tokens, reached, verdict>>

\* Mutant: the handler does not look at what auth found.
ReceiveUnread(o) ==
  /\ stage[o] = "calling"
  /\ \/ auth[o] = "error" /\ rec' = Failed(rec) /\ Respond(o, "502")
     \/ auth[o] \in {"valid", "invalid"} /\ rec' = Succeeded(rec) /\ GoOn(o, "working")
  /\ HangUp(o, "none")
  /\ UNCHANGED <<tokens, auth_failed>>

\* auth's reply arrives: raise_for_status makes any status from 400 on a
\* failure of the call.
Receive(o) ==
  /\ stage[o] = "calling"
  /\ \/ auth[o] = "error" /\ rec' = Failed(rec) /\ Respond(o, "502")
     \/ auth[o] = "invalid" /\ rec' = Succeeded(rec) /\ Respond(o, "401")
     \/ auth[o] = "valid" /\ rec' = Succeeded(rec) /\ GoOn(o, "working")
  /\ HangUp(o, "none")
  /\ UNCHANGED <<tokens, auth_failed>>

\* The client gives up: no connection, a timeout, a reply that is no JSON.
\* auth may go on with what it has received.
GiveUp(o) ==
  /\ stage[o] = "calling"
  /\ rec' = Failed(rec)
  /\ Respond(o, "502")
  /\ HangUp(o, IF auth[o] \in Replies THEN "none" ELSE auth[o])
  /\ auth_failed' = TRUE
  /\ UNCHANGED tokens

\* The order is created.
Create(o) ==
  /\ stage[o] = "working"
  /\ Respond(o, "200")
  /\ UNCHANGED <<tokens, rec, callVars>>

----------------------------------------------------------------------------
(***************************************************************************)
(* auth.                                                                   *)
(***************************************************************************)

\* A reply goes to the call that is waiting for it, or nowhere.
Reply(o, r) == auth' = [auth EXCEPT ![o] = IF stage[o] = "calling" THEN r ELSE "none"]

AuthGoesOn(o, next) == auth' = [auth EXCEPT ![o] = next]

\* The request reaches auth, or is gone with the connection.
AuthArrive(o) ==
  /\ auth[o] = "sent"
  /\ \/ AuthGoesOn(o, "chaos") /\ reached' = [reached EXCEPT ![o] = TRUE]
     \/ stage[o] # "calling" /\ AuthGoesOn(o, "none") /\ UNCHANGED reached
  /\ UNCHANGED <<orderVars, tokens, rec, age, auth_tokens, verdict, auth_failed>>

AuthApplyChaos(o) ==
  /\ auth[o] = "chaos"
  /\ \/ AuthGoesOn(o, "limiter") /\ UNCHANGED auth_failed
     \/ Reply(o, "error") /\ auth_failed' = TRUE
  /\ UNCHANGED <<orderVars, tokens, rec, age, auth_tokens, reached, verdict>>

AuthLimit(o) ==
  /\ auth[o] = "limiter"
  /\ \/ AuthBucket!Pay("api") /\ AuthGoesOn(o, "validating")
     \/ auth_tokens["api"] < 1 /\ Reply(o, "error") /\ UNCHANGED auth_tokens
  /\ UNCHANGED <<orderVars, tokens, rec, age, reached, verdict, auth_failed>>

\* validate: 422 for a token the schema refuses, else what the backend finds.
AuthValidate(o) ==
  /\ auth[o] = "validating"
  /\ \/ Reply(o, "error") /\ UNCHANGED verdict
     \/ \E v \in {"valid", "invalid"} : Reply(o, v) /\ verdict' = [verdict EXCEPT ![o] = v]
  /\ UNCHANGED <<orderVars, tokens, rec, age, auth_tokens, reached, auth_failed>>

----------------------------------------------------------------------------
Calling == {o \in Orders : stage[o] = "calling"}

\* Mutant: HTTPServiceClient is built without a timeout.
TickNoTimeout ==
  /\ rec' = Aged(rec)
  /\ Bucket!Refill /\ AuthBucket!Refill
  /\ UNCHANGED <<orderVars, age, auth, reached, verdict, auth_failed>>

\* Time passes, but not past the timeout of a call.
Tick ==
  /\ \A o \in Calling : age[o] < CallTimeout
  /\ age' = [o \in Orders |-> IF o \in Calling THEN age[o] + 1 ELSE age[o]]
  /\ rec' = Aged(rec)
  /\ Bucket!Refill /\ AuthBucket!Refill
  /\ UNCHANGED <<orderVars, auth, reached, verdict, auth_failed>>

ApiStep(o) ==
  ApplyChaos(o) \/ (\E c \in Clients : Limit(o, c)) \/ Handle(o) \/ Receive(o) \/ GiveUp(o) \/ Create(o)

AuthStep(o) == AuthArrive(o) \/ AuthApplyChaos(o) \/ AuthLimit(o) \/ AuthValidate(o)

Next ==
  \/ \E o \in Orders : Arrive(o) \/ ApiStep(o) \/ AuthStep(o)
  \/ Tick

Spec == Init /\ [][Next]_pathVars

\* Sleeps and calls are bounded and the api's event loop runs what is ready.
\* Nothing is assumed of auth.
LiveSpec == Spec /\ \A o \in Orders : WF_pathVars(ApiStep(o))

\* The breaker of the api, with the calls of auth that it let through.
Contract ==
  INSTANCE BreakerContract WITH
    Callers <- Orders,
    phase <- IF rec.state # "open" THEN rec.state
             ELSE IF rec.opened_for = RecoveryTimeout THEN "ready" ELSE "cooling",
    calls <- Calling,
    wins  <- rec.success_count

----------------------------------------------------------------------------
(***************************************************************************)
(* Properties.                                                             *)
(***************************************************************************)

\* An order that the api sheds (429, 503), that chaos fails (500) or that is
\* malformed (422) puts no load on auth, then or later.
ShedStaysOut == \A o \in Orders : answer[o] \in Shed => auth[o] = "none" /\ ~reached[o]

\* The api never creates an order whose token auth did not find valid, and calls
\* a token invalid only if auth did: no refusal, injected error or missing reply
\* is taken for a verdict.
AnswersFollowAuth ==
  \A o \in Orders : /\ answer[o] = "200" => verdict[o] = "valid"
                    /\ answer[o] = "401" => verdict[o] = "invalid"

\* Behind its middlewares, with replies lost and late, the breaker still keeps
\* its contract towards auth.
CallsFollowContract == Contract!Spec

\* Every order is answered, whatever auth and chaos do.
EveryOrderAnswered == \A o \in Orders : stage[o] # "none" ~> stage[o] = "none"

\* docs/runbooks/circuit-breaker-open.md: an open breaker "means a *dependency*
\* is failing".
OpenMeansAuthFails == rec.state = "open" => auth_failed

============================================================================
