------------------------------ MODULE Pipeline ------------------------------
(***************************************************************************)
(* What create_service_app (shared/autosre_shared/app.py) puts around the  *)
(* handlers of a service, with the api's handlers inside: request context, *)
(* security headers, metrics with chaos, the limiter, the router; the      *)
(* system endpoints, the control plane and POST /orders.                   *)
(*                                                                         *)
(* A request suspends where it is delayed by chaos, where BaseHTTPMiddle-  *)
(* ware hands it to the next layer (limiter, handler), while auth is       *)
(* called and during the simulated work; a step is what happens between    *)
(* two of these.  The limiter is the bucket of TokenBucket, the breaker    *)
(* the one of BreakerContract: modules of their own show that the code     *)
(* implements both.  Whether chaos fails a request while errors are        *)
(* configured is a choice here; Chaos has the accumulator.                 *)
(*                                                                         *)
(* A string stands for every path that is treated like it: "/ready" and    *)
(* "/docs" for themselves, "/health" also for /breaker and /rate-limit,    *)
(* which only read, "/chaos" and "/failures" for what is below them, "/"   *)
(* for a path without a route.                                             *)
(***************************************************************************)
EXTENDS Integers, FiniteSets

CONSTANTS
  Requests,       \* requests that may be in progress at a time
  Tasks,          \* background tasks of chaos
  Headers,        \* the X-Request-ID and X-Correlation-ID a request brings
  Rate, Burst     \* of the limiter

Absent == ""

ASSUME PipelineConfig ==
  /\ IsFiniteSet(Requests) /\ Requests \cap Tasks = {}
  /\ Rate \in Nat \ {0} /\ Burst \in Nat
  /\ \A h \in Headers : DOMAIN h = {"request_id", "correlation_id"}

VARIABLES
  at,             \* where a request is suspended, "idle" if there is none
  path,           \* the path of each request
  brought,        \* its headers
  context,        \* request_id_var and correlation_id_var of every task
  sent,           \* the X-Correlation-ID its call of auth was sent with
  latency_on,     \* latency_enabled, with a delay
  errors,         \* "off", "zero" (enabled at a rate of 0), "on"
  owner,          \* the request whose headers started a background task
  phase, calls, wins,  \* the breaker
  tokens,         \* the limiter's buckets
  in_progress,    \* http_requests_in_progress
  reply           \* the answer given by this step

requestVars == <<at, path, brought, context, sent, owner>>
chaosVars   == <<latency_on, errors>>
breakerVars == <<phase, calls, wins>>
pipelineVars == <<requestVars, chaosVars, breakerVars, tokens, in_progress, reply>>

----------------------------------------------------------------------------
Business == {"/orders", "/"}
ControlPlane == {"/ready", "/health", "/docs", "/metrics", "/chaos", "/failures"}
Paths == Business \cup ControlPlane

\* Mutant: the table of chaos names no prefixes.
ChaosExemptExact == {"/ready", "/health", "/docs", "/metrics"}

\* _CONTROL_PATHS and _CONTROL_PREFIXES of chaos
ChaosExempt == {"/ready", "/health", "/docs", "/metrics", "/chaos", "/failures"}

\* _EXCLUDE_EXACT and _EXCLUDE_PREFIXES of the limiter
LimitExempt == {"/", "/ready", "/health", "/docs", "/metrics", "/chaos", "/failures"}

\* _client_key: all requests come from one client.
Client == "client"

Bucket == INSTANCE TokenBucket WITH Clients <- {Client}, Cost <- 1
Breaker == INSTANCE BreakerContract WITH Callers <- Requests, SuccessThreshold <- 1

\* request_id and correlation_id: an empty header counts as none, an id is
\* generated, and the correlation id is the request's own if none came along.
Ids(r, h) ==
  LET rid == IF h.request_id = Absent THEN r ELSE h.request_id IN
  [request_id |-> rid,
   correlation_id |-> IF h.correlation_id = Absent THEN rid ELSE h.correlation_id]

NoHeaders == [request_id |-> Absent, correlation_id |-> Absent]

\* The defaults of the context variables.
NoIds == [request_id |-> "-", correlation_id |-> "-"]

\* The ids JsonFormatter writes into the log lines of a task.
Logged(x) == context[x]

\* propagation_headers
Propagated(ids) == IF ids.correlation_id = "-" THEN Absent ELSE ids.correlation_id

----------------------------------------------------------------------------
(***************************************************************************)
(* Answers.                                                                *)
(***************************************************************************)
NoReply == [by |-> "nobody"]

\* A response passes the metrics, the security headers and the request context,
\* which adds the ids.
Response(p, by, status) ==
  [by |-> by, path |-> p, status |-> status,
   headers |-> {"ids", "security"} \cup (IF p = "/docs" THEN {} ELSE {"csp"})]

\* An exception passes all of them, and the server outside answers without the
\* headers.
Unhandled(p) ==
  [by |-> "server", path |-> p, status |-> "500", headers |-> {}]

Measured(p) == IF p = "/metrics" THEN 0 ELSE 1

\* Mutant: the gauge comes down after call_next, not in a finally clause.
FinishUnlessRaised(r, answer) ==
  /\ reply' = answer
  /\ at' = [at EXCEPT ![r] = "idle"]
  /\ context' = [context EXCEPT ![r] = NoIds]
  /\ sent' = [sent EXCEPT ![r] = Absent]
  /\ in_progress' = IF answer.by = "server" THEN in_progress ELSE in_progress - Measured(path[r])
  /\ path' = [path EXCEPT ![r] = "/"]
  /\ brought' = [brought EXCEPT ![r] = NoHeaders]
  /\ UNCHANGED owner

\* A request is over: the finally clauses of metrics and request context.
Finish(r, answer) ==
  /\ reply' = answer
  /\ at' = [at EXCEPT ![r] = "idle"]
  /\ context' = [context EXCEPT ![r] = NoIds]
  /\ sent' = [sent EXCEPT ![r] = Absent]
  /\ in_progress' = in_progress - Measured(path[r])
  /\ path' = [path EXCEPT ![r] = "/"]
  /\ brought' = [brought EXCEPT ![r] = NoHeaders]
  /\ UNCHANGED owner

Respond(r, by, status) == Finish(r, Response(path[r], by, status))

GoOn(r, next) ==
  /\ at' = [at EXCEPT ![r] = next]
  /\ reply' = NoReply
  /\ UNCHANGED <<path, brought, context, sent, owner, in_progress>>

----------------------------------------------------------------------------
Init ==
  /\ at = [r \in Requests |-> "idle"]
  /\ path = [r \in Requests |-> "/"]
  /\ brought = [r \in Requests |-> NoHeaders]
  /\ context = [x \in Requests \cup Tasks |-> NoIds]
  /\ sent = [r \in Requests |-> Absent]
  /\ owner = [t \in Tasks |-> NoIds]
  /\ latency_on = FALSE
  /\ errors = "off"
  /\ Breaker!Init
  /\ Bucket!Init
  /\ in_progress = 0
  /\ reply = NoReply

\* apply_request_chaos
Delays(p) == p \notin ChaosExempt /\ latency_on
MayInject(p) == p \notin ChaosExempt /\ errors = "on"

\* Mutant: the ids are kept in module globals.
EnterGlobal(r, p, h, next) ==
  /\ at' = [at EXCEPT ![r] = next]
  /\ path' = [path EXCEPT ![r] = p]
  /\ brought' = [brought EXCEPT ![r] = h]
  /\ context' = [x \in Requests \cup Tasks |-> Ids(r, h)]
  /\ in_progress' = in_progress + Measured(p)
  /\ reply' = NoReply
  /\ UNCHANGED <<sent, owner>>

\* The request context is set, the request counted as in progress.
Enter(r, p, h, next) ==
  /\ at' = [at EXCEPT ![r] = next]
  /\ path' = [path EXCEPT ![r] = p]
  /\ brought' = [brought EXCEPT ![r] = h]
  /\ context' = [context EXCEPT ![r] = Ids(r, h)]
  /\ in_progress' = in_progress + Measured(p)
  /\ reply' = NoReply
  /\ UNCHANGED <<sent, owner>>

\* A request arrives: delayed, handed to the limiter, or failed by chaos and
\* answered at once.
Arrive(r, p, h) ==
  /\ at[r] = "idle"
  /\ \/ Delays(p) /\ Enter(r, p, h, "delay")
     \/ ~Delays(p) /\ Enter(r, p, h, "limiter")
     \/ /\ ~Delays(p) /\ MayInject(p)
        /\ reply' = Response(p, "chaos", "500")
        /\ UNCHANGED <<requestVars, in_progress>>
  /\ UNCHANGED <<chaosVars, breakerVars, tokens>>

\* Mutant: whether to fail the request is decided before the delay.
WakeDecided(r) ==
  /\ at[r] = "delay"
  /\ GoOn(r, "limiter") \/ Respond(r, "chaos", "500")
  /\ UNCHANGED <<chaosVars, breakerVars, tokens>>

\* The delay is over.
Wake(r) ==
  /\ at[r] = "delay"
  /\ \/ GoOn(r, "limiter")
     \/ MayInject(path[r]) /\ Respond(r, "chaos", "500")
  /\ UNCHANGED <<chaosVars, breakerVars, tokens>>

\* RateLimitMiddleware.dispatch
Limit(r) ==
  /\ at[r] = "limiter"
  /\ \/ path[r] \in LimitExempt /\ GoOn(r, "handler") /\ UNCHANGED tokens
     \/ path[r] \notin LimitExempt /\ Bucket!Pay(Client) /\ GoOn(r, "handler")
     \/ /\ path[r] \notin LimitExempt /\ tokens[Client] < 1
        /\ Respond(r, "limiter", "429")
        /\ UNCHANGED tokens
  /\ UNCHANGED <<chaosVars, breakerVars>>

----------------------------------------------------------------------------
(***************************************************************************)
(* The handlers.                                                           *)
(***************************************************************************)
Handling(r, p) == at[r] = "handler" /\ path[r] = p

\* Routes that only read, and no route at all.
Read(r) ==
  /\ \/ \E p \in {"/health", "/docs", "/metrics"} : Handling(r, p) /\ Respond(r, "handler", "200")
     \/ Handling(r, "/") /\ Respond(r, "handler", "404")
  /\ UNCHANGED <<chaosVars, breakerVars, tokens>>

\* readiness_check of the api: breaker.state is not OPEN.
BreakerOpen == phase \in {"cooling", "ready"}

IsReady == errors = "off" /\ ~BreakerOpen

\* GET /ready
Ready(r) ==
  /\ Handling(r, "/ready")
  /\ Respond(r, "handler", IF IsReady THEN "200" ELSE "503")
  /\ UNCHANGED <<chaosVars, breakerVars, tokens>>

\* GET and DELETE /failures: the file may not be there to be opened.
Failures(r) ==
  /\ Handling(r, "/failures")
  /\ Respond(r, "handler", "200") \/ Finish(r, Unhandled("/failures"))
  /\ UNCHANGED <<chaosVars, breakerVars, tokens>>

\* A payload the schemas of the control plane refuse.
Refuse(r) ==
  /\ Handling(r, "/chaos")
  /\ Respond(r, "handler", "422")
  /\ UNCHANGED <<chaosVars, breakerVars, tokens>>

\* POST /chaos/latency, /errors, /reset
Configure(r) ==
  /\ Handling(r, "/chaos")
  /\ Respond(r, "handler", "200")
  /\ \/ latency_on' \in BOOLEAN /\ UNCHANGED errors
     \/ errors' \in {"off", "zero", "on"} /\ UNCHANGED latency_on
     \/ latency_on' = FALSE /\ errors' = "off"
  /\ UNCHANGED <<breakerVars, tokens>>

\* POST /chaos/cpu, /memory: the task runs on in a copy of the context.
Trigger(r, t) ==
  /\ Handling(r, "/chaos") /\ owner[t] = NoIds
  /\ reply' = Response("/chaos", "handler", "200")
  /\ at' = [at EXCEPT ![r] = "idle"]
  /\ context' = [context EXCEPT ![t] = context[r], ![r] = NoIds]
  /\ owner' = [owner EXCEPT ![t] = Ids(r, brought[r])]
  /\ in_progress' = in_progress - 1
  /\ path' = [path EXCEPT ![r] = "/"]
  /\ brought' = [brought EXCEPT ![r] = NoHeaders]
  /\ UNCHANGED <<sent, chaosVars, breakerVars, tokens>>

\* The task writes its last log line and ends.
TaskEnds(t) ==
  /\ owner[t] # NoIds
  /\ context' = [context EXCEPT ![t] = NoIds]
  /\ owner' = [owner EXCEPT ![t] = NoIds]
  /\ reply' = NoReply
  /\ UNCHANGED <<at, path, brought, sent, chaosVars, breakerVars, tokens, in_progress>>

\* CircuitBreakerOpenError, turned into an answer by its exception handler.
RejectOpen(r) == phase = "cooling" /\ Respond(r, "breaker", "503") /\ UNCHANGED breakerVars

\* create_order up to the call of auth.
Order(r) ==
  /\ Handling(r, "/orders")
  /\ \/ Respond(r, "handler", "422") /\ UNCHANGED breakerVars
     \/ RejectOpen(r)
     \/ /\ Breaker!LetThrough(r) \/ Breaker!StartTrial(r)
        /\ at' = [at EXCEPT ![r] = "calling"]
        /\ sent' = [sent EXCEPT ![r] = Propagated(context[r])]
        /\ reply' = NoReply
        /\ UNCHANGED <<path, brought, context, owner, in_progress>>
  /\ UNCHANGED <<chaosVars, tokens>>

\* create_order from the end of the call on.
Called(r) ==
  /\ at[r] = "calling"
  /\ \/ /\ Breaker!ComeBack(r) \/ Breaker!WinTrial(r)
        /\ GoOn(r, "working") \/ Respond(r, "handler", "401")
     \/ /\ Breaker!ComeBack(r) \/ Breaker!Trip(r)
        /\ Respond(r, "handler", "502")
  /\ UNCHANGED <<chaosVars, tokens>>

Create(r) ==
  /\ at[r] = "working"
  /\ Respond(r, "handler", "200")
  /\ UNCHANGED <<chaosVars, breakerVars, tokens>>

\* Time passes.
Tick ==
  /\ Bucket!Refill
  /\ Breaker!CooledDown \/ UNCHANGED breakerVars
  /\ reply' = NoReply
  /\ UNCHANGED <<requestVars, chaosVars, in_progress>>

Handle(r) ==
  \/ Read(r) \/ Ready(r) \/ Failures(r) \/ Refuse(r) \/ Configure(r) \/ (\E t \in Tasks : Trigger(r, t))
  \/ Order(r) \/ Called(r) \/ Create(r)

Next ==
  \/ \E r \in Requests :
       (\E p \in Paths, h \in Headers : Arrive(r, p, h)) \/ Wake(r) \/ Limit(r) \/ Handle(r)
  \/ \E t \in Tasks : TaskEnds(t)
  \/ Tick

Spec == Init /\ [][Next]_pipelineVars

----------------------------------------------------------------------------
(***************************************************************************)
(* Properties.                                                             *)
(***************************************************************************)

Active == {r \in Requests : at[r] # "idle"}

\* http_requests_in_progress is true: it is the number of requests in progress
\* other than scrapes, wherever each of them is suspended, whichever layer
\* answered the ones before and whether a handler raised or not.
MetricsTruthful ==
  in_progress = Cardinality({r \in Active : path[r] # "/metrics"})

\* What the call of auth for r carries: the correlation id of r.  The exception
\* is a client that brings the id "-", the default of the context variable,
\* which propagation_headers takes for none: nothing is sent then, and auth
\* makes up an id of its own.
SentOwnId(r) ==
  LET cid == Ids(r, brought[r]).correlation_id IN
  sent[r] = cid \/ (cid = "-" /\ sent[r] = Absent)

\* A request can be followed: while others come and go, its log lines and those
\* of the tasks it left behind carry its own ids, auth is sent its correlation
\* id unless that is "-" (docs/operations.md promises it of every request), and
\* every answer but the server's own 500 brings the ids back.
AnswersTraceable ==
  /\ \A r \in Active : Logged(r) = Ids(r, brought[r])
  /\ \A t \in Tasks : Logged(t) = owner[t]
  /\ \A r \in Active : at[r] = "calling" => SentOwnId(r)
  /\ reply.by \notin {"nobody", "server"} =>
       {"ids", "security"} \subseteq reply.headers

\* Whatever chaos is configured and however empty the bucket, the control
\* plane answers by its handlers: it is not delayed, failed or limited, so chaos
\* can always be switched off and readiness and metrics always be read.
ControlPlaneOpen ==
  /\ \A r \in Active : path[r] \in ControlPlane => at[r] \in {"limiter", "handler"}
  /\ reply # NoReply /\ reply.path \in ControlPlane => reply.by \in {"handler", "server"}

\* A request is failed on purpose, by chaos or by the breaker, only at a time
\* when GET /ready calls the service degraded, also if the configuration has
\* changed since it arrived.
FailsOnlyDegraded == [][reply'.by \in {"chaos", "breaker"} => ~IsReady]_pipelineVars

=============================================================================
