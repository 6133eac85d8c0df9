----------------------------- MODULE ApiServer -----------------------------
(***************************************************************************)
(* The api service in Go: main (cmd/api/main.go), Server.Run with its      *)
(* graceful shutdown (internal/server/server.go), and POST /orders under   *)
(* the deadlines of the server, the router and the client of auth.         *)
(*                                                                         *)
(* Handlers share nothing; what ties them together is time.  A request     *)
(* reads its body, calls auth and works, and each stage has a limit of its *)
(* own.  http.TimeoutHandler runs the handler in a goroutine and waits for *)
(* it, for the end of the request's context, or for its own deadline.  The *)
(* context ends early when net/http cannot read from the connection any    *)
(* more: the client is gone, or the read deadline has passed, which the    *)
(* read in the background meets while auth is called.  The client then has *)
(* a 503 and the handler goes on by itself.  The deadline of TimeoutHandler*)
(* has no action: NeverTimesOut shows that no request lives long enough.   *)
(***************************************************************************)
EXTENDS Integers, FiniteSets

CONSTANTS
  Requests,         \* requests that may have a handler at a time
  \* In ticks:
  ReadTimeout,      \* readTimeout of the server: headers and body
  AuthTimeout,      \* of the http.Client of auth
  WorkTicks,        \* simulatedWork, rounded up
  RequestTimeout,   \* requestTimeout of the router
  ShutdownTimeout   \* shutdownTimeout

ASSUME ServerConfig ==
  /\ IsFiniteSet(Requests)
  /\ {ReadTimeout, AuthTimeout, WorkTicks, RequestTimeout, ShutdownTimeout} \subseteq Nat

\* 15 s, 5 s and 10 to 50 ms against 30 s, each a constant of another package.
ASSUME DeadlinesAddUp == ReadTimeout + AuthTimeout + WorkTicks < RequestTimeout

VARIABLES
  stage,       \* what the handler of each request is doing
  spent,       \* ticks it has spent on that
  serving,     \* requests TimeoutHandler has not returned from
  age,         \* ticks since the server began to read each of them
  cancelled,   \* requests whose context is cancelled
  listener,    \* "open", "failed", or "closed" by Shutdown
  err_sent,    \* the error of ListenAndServe is in errCh
  signalled,   \* the context is done
  run,         \* where Run is: "select", "shutdown", then "ok" or "error"
  draining,    \* ticks since Shutdown was called
  exit,        \* the exit code, "none" while main runs
  \* History, read by the properties only:
  cut          \* requests that were in progress when the process ended

requestVars == <<stage, spent, serving, age, cancelled>>
serverVars  == <<listener, err_sent, signalled, run, draining, exit, cut>>
apiVars     == <<requestVars, serverVars>>

----------------------------------------------------------------------------
\* "none": no handler; "done": it returned and TimeoutHandler has not seen it.
Stages == {"none", "body", "auth", "work", "done"}

Busy == {r \in Requests : stage[r] # "none"}

\* Mutant: the client of auth is built without a timeout.
LimitNoAuthTimeout(s) ==
  CASE s = "body" -> ReadTimeout
    [] s = "auth" -> RequestTimeout
    [] s = "work" -> WorkTicks
    [] s = "done" -> 0

\* What a stage may take: the body is cut off by the server's read deadline,
\* the call by the client's timeout, and the work by its timer; TimeoutHandler
\* is waiting for a handler that is done.
Limit(s) ==
  CASE s = "body" -> ReadTimeout
    [] s = "auth" -> AuthTimeout
    [] s = "work" -> WorkTicks
    [] s = "done" -> 0

Init ==
  /\ stage = [r \in Requests |-> "none"]
  /\ spent = [r \in Requests |-> 0]
  /\ serving = {} /\ cancelled = {}
  /\ age = [r \in Requests |-> 0]
  /\ listener = "open" /\ err_sent = FALSE /\ signalled = FALSE
  /\ run = "select" /\ draining = 0
  /\ exit = "none" /\ cut = {}

----------------------------------------------------------------------------
(***************************************************************************)
(* A request.                                                              *)
(***************************************************************************)
Accept(r) ==
  /\ listener = "open"
  /\ stage[r] = "none" /\ r \notin serving
  /\ stage' = [stage EXCEPT ![r] = "body"]
  /\ serving' = serving \cup {r}
  /\ cancelled' = cancelled \ {r}
  /\ UNCHANGED <<spent, age, serverVars>>

\* The handler goes on to s.  If it is done and TimeoutHandler has already
\* answered, what it wrote is dropped and its goroutine ends.
Becomes(r, s) ==
  /\ stage' = [stage EXCEPT ![r] = IF s = "done" /\ r \notin serving THEN "none" ELSE s]
  /\ spent' = [spent EXCEPT ![r] = 0]
  /\ UNCHANGED <<serving, age, cancelled, serverVars>>

\* The body is decoded and valid; or 422, also when it could not be read.
DecodeBody(r) == stage[r] = "body" /\ \E s \in {"auth", "done"} : Becomes(r, s)

\* Validate returns: the order goes on, or 401, or 502 for any error, the
\* cancellation of the context included.
Validate(r) == stage[r] = "auth" /\ \E s \in {"work", "done"} : Becomes(r, s)

\* 200; or nothing is written, because the context was cancelled.
Create(r) == stage[r] = "work" /\ Becomes(r, "done")

\* The handler panics and Recover, inside Timeout, writes a 500.
Panic(r) == stage[r] \in {"body", "auth", "work"} /\ Becomes(r, "done")

\* A read from the connection fails, of the body or in the background: the
\* client is gone at any time, or it is there and the read deadline passes.
\* Nothing reads in the background while a chunked body is not read to its
\* end, so the context may also outlive the read deadline.
CancelContext(r) ==
  /\ r \in serving /\ r \notin cancelled
  /\ cancelled' = cancelled \cup {r}
  /\ UNCHANGED <<stage, spent, serving, age, serverVars>>

\* TimeoutHandler returns, either with what the handler wrote (an empty 200 if
\* it wrote nothing) or, the context being cancelled, with a 503 and without
\* the handler; when both are ready the select takes either.
TimeoutHandlerReturns(r, withHandler) ==
  /\ r \in serving
  /\ IF withHandler THEN stage[r] = "done" ELSE r \in cancelled
  /\ serving' = serving \ {r}
  /\ age' = [age EXCEPT ![r] = 0]
  /\ stage' = [stage EXCEPT ![r] = IF @ = "done" THEN "none" ELSE @]
  /\ UNCHANGED <<spent, cancelled, serverVars>>

Handler(r) == DecodeBody(r) \/ Validate(r) \/ Create(r)

Answer(r) == \E withHandler \in BOOLEAN : TimeoutHandlerReturns(r, withHandler)

----------------------------------------------------------------------------
(***************************************************************************)
(* Run and main.                                                           *)
(***************************************************************************)
\* SIGINT or SIGTERM
Signal ==
  /\ ~signalled
  /\ signalled' = TRUE
  /\ UNCHANGED <<requestVars, listener, err_sent, run, draining, exit, cut>>

\* Mutant: the goroutine of ListenAndServe only logs its error.
ListenFailsQuietly ==
  /\ listener = "open"
  /\ listener' = "failed"
  /\ UNCHANGED <<requestVars, err_sent, signalled, run, draining, exit, cut>>

\* ListenAndServe returns an error other than ErrServerClosed.
ListenFails ==
  /\ listener = "open"
  /\ listener' = "failed" /\ err_sent' = TRUE
  /\ UNCHANGED <<requestVars, signalled, run, draining, exit, cut>>

\* The two cases of the select; if both are ready either may be taken.
SelectErr ==
  /\ run = "select" /\ err_sent
  /\ err_sent' = FALSE
  /\ run' = "error"
  /\ UNCHANGED <<requestVars, listener, signalled, draining, exit, cut>>

SelectDone ==
  /\ run = "select" /\ signalled
  /\ run' = "shutdown"
  /\ listener' = IF listener = "open" THEN "closed" ELSE listener
  /\ UNCHANGED <<requestVars, err_sent, signalled, draining, exit, cut>>

\* Mutant: the error of Shutdown is logged and dropped.
ShutdownReturnsNil ==
  /\ run = "shutdown"
  /\ serving = {} \/ draining = ShutdownTimeout
  /\ run' = "ok"
  /\ UNCHANGED <<requestVars, listener, err_sent, signalled, draining, exit, cut>>

\* Shutdown has waited for every request that has no answer yet, or until its
\* deadline.  It does not wait for handlers TimeoutHandler has given up.
ShutdownReturns ==
  /\ run = "shutdown"
  /\ \/ serving = {} /\ run' = "ok"
     \/ serving # {} /\ draining = ShutdownTimeout /\ run' = "error"
  /\ UNCHANGED <<requestVars, listener, err_sent, signalled, draining, exit, cut>>

\* main ends, and the process with it.
Exit ==
  /\ run \in {"ok", "error"} /\ exit = "none"
  /\ exit' = IF run = "ok" THEN "0" ELSE "1"
  /\ cut' = serving
  /\ UNCHANGED <<requestVars, listener, err_sent, signalled, run, draining>>

\* Time passes, but not past the limit of a stage or of the shutdown.
Tick ==
  /\ exit = "none"
  /\ \A r \in Busy : spent[r] < Limit(stage[r])
  /\ run = "shutdown" => draining < ShutdownTimeout
  /\ spent' = [r \in Requests |-> IF r \in Busy THEN spent[r] + 1 ELSE 0]
  /\ age' = [r \in Requests |-> IF r \in serving THEN age[r] + 1 ELSE 0]
  /\ draining' = IF run = "shutdown" THEN draining + 1 ELSE draining
  /\ UNCHANGED <<stage, serving, cancelled, listener, err_sent, signalled, run, exit, cut>>

Main == SelectErr \/ SelectDone \/ ShutdownReturns \/ Exit

Next ==
  /\ exit = "none"
  /\ \/ \E r \in Requests : Accept(r) \/ Handler(r) \/ Panic(r) \/ CancelContext(r) \/ Answer(r)
     \/ Signal \/ ListenFails \/ Main \/ Tick

Spec == Init /\ [][Next]_apiVars

\* Time passes, goroutines that can run do, and every stage of a handler is
\* ended by its limit.
LiveSpec ==
  /\ Spec
  /\ WF_apiVars(Tick) /\ WF_apiVars(Main)
  /\ \A r \in Requests : /\ WF_apiVars(Handler(r) /\ exit = "none")
                          /\ WF_apiVars(Answer(r) /\ exit = "none")

----------------------------------------------------------------------------
(***************************************************************************)
(* Properties.                                                             *)
(***************************************************************************)

\* The limits of the stages, constants of three packages, add up to less than
\* the router's requestTimeout: no request is ever answered because that
\* deadline has passed, not even one whose body arrives at the last moment and
\* whose call to auth times out.  (TimeoutHandler may still answer for the
\* handler, when the context is cancelled.)
NeverTimesOut == \A r \in serving : age[r] < RequestTimeout

\* The exit code is honest: after 0 no request was cut off, and 1 means that the
\* listener failed or that the requests outlasted the shutdown.
ExitCodeHonest ==
  /\ exit = "0" => cut = {}
  /\ exit = "1" => listener = "failed" \/ draining = ShutdownTimeout

\* A signal or a failed listener ends the process, whatever the requests are
\* waiting for.
ServerStops == (signalled \/ listener = "failed") ~> exit # "none"

============================================================================
