# A TLA+ verification of Auto-SRE

Auto-SRE is a small microservice platform for practising reliability
engineering: three FastAPI services (api, auth, worker) over a shared Python
library, a Go port of the api service, a Go network daemon, and Prometheus,
Grafana and Alertmanager around them. This directory models the part of it in
which state, time and concurrency meet, model-checks it with TLC on small
instances, and proves the main results with TLAPS for every value of the
constants.

## 1. The system

### Inventory

Paths are relative to `src/`; `shared/` stands for `shared/autosre_shared/`.

| Component | State | Operations | Hard parts |
|---|---|---|---|
| Circuit breaker (`shared/resilience/circuit_breaker.py`) | a record (state, failure and success counts, time of opening), a gauge, two counters | `allow`, `record_success`, `record_failure`, wrapped around an awaited call by `protect`/`call`; `snapshot` | many handlers between `_enter` and `_exit`; outcomes recorded in another state than the call started in; timeouts; log writes that fail |
| Rate limiter (`shared/resilience/rate_limiter.py`) | per client: tokens left and when | `consume`, `check`, the middleware's answer | lazy refill, fractions, rounding of `Retry-After`, a rate of zero |
| Chaos controller (`shared/chaos.py`) | configuration of latency and errors, error accumulator, CPU flag, memory accounting, gauges, background tasks | five `POST /chaos/...` endpoints; `apply_request_chaos`; two kinds of task | a trigger only schedules; resets between start and end of a task; requests asleep across a reconfiguration |
| Failure store (`shared/storage/failure_store.py`) | a file of JSON lines that outlives the process | `write_event`, `read_events`, `clear_events`, `record_event` | torn appends, a full disk, a restart in the middle |
| Worker (`worker/main.py`) and the lifespan (`shared/app.py`) | job loop, its counters, `service_up` | startup, one job, shutdown | cancellation at any await, error decisions shared with the requests |
| Request pipeline (`shared/app.py`, `shared/observability/`, `shared/context.py`, `shared/logging.py`) | metrics of requests in progress and done, context variables of every task | request context, security headers, metrics with chaos, limiter, handler, in this order; `/health`, `/ready`, `/metrics` | early returns and exceptions of every layer; ids that must not mix while requests interleave; the control plane behind the middlewares it controls |
| api and auth (`api/main.py`, `auth/main.py`, `shared/clients/service_client.py`) | none but the above | `POST /orders` calls `POST /validate` through a breaker, auth calls its identity provider through another | one service's limiter seen as a failure by the other's breaker |
| Network daemon, Go (`cmd/network-daemon`, `internal/prober`, `pkg/netcheck`) | probe counters | rounds of DNS, TCP and HTTP checks | shutdown against a pending tick, one deadline for three checks |
| api service, Go (`cmd/api`, `internal/...`) | requests in progress, the listener | the order handler again; `Run` and its shutdown | five deadlines in four packages; a signal against a failing listener |
| Configuration (`internal/config`, `shared/envcheck.py`) | none | conversion and validation at start | the order of the two |

Components meet in three ways: a request passes the pipeline (context, headers,
metrics and chaos, limiter, handler) on one event loop, and suspends at every `await`; the
breaker, the limiter, chaos and the worker all write to the failure store,
best effort; the worker's job loop reads the same `ChaosState` as the requests
of its service.

What makes each component correct is stated by the properties of section 3.

### Modules

| Module | Models | Notes |
|---|---|---|
| `BreakerRecord` | the critical sections of `CircuitBreaker`, as operators from records to records | shared by `CircuitBreaker` and `OrderPath` |
| `CircuitBreaker` | one breaker used by any number of handlers | extends `BreakerRecord` |
| `BreakerContract` | what a breaker promises, abstractly | refined by `CircuitBreaker` |
| `RateLimiter` | the limiter with its lazily refilled buckets | |
| `TokenBucket` | a bucket refilled at every tick | refined by `RateLimiter` |
| `Chaos` | the chaos controller of one service | |
| `Worker` | the worker's loop and lifespan around it | extends `Chaos`; the run of both |
| `FailureStore` | the failure log on disk | |
| `Pipeline` | all that `create_service_app` puts around the handlers of a service | instances `TokenBucket` and `BreakerContract` as its limiter and its breaker |
| `OrderPath` | `POST /orders` through the pipelines of api and auth | extends `BreakerRecord`; instances `TokenBucket` twice and `BreakerContract` |
| `NetworkDaemon` | the prober, the metrics server and `main` of the Go daemon | |
| `ApiServer` | the Go api service: `main`, `Run`, `POST /orders` under its deadlines | |
| `Startup` | how a Python service reads its environment | |
| `CircuitBreakerProofs`, `RateLimiterProofs`, `WorkerProofs`, `FailureStoreProofs`, `PipelineProofs`, `OrderPathProofs`, `NetworkDaemonProofs`, `ApiServerProofs` | theorems and proofs about the module of the same name | `WorkerProofs` is also about `Chaos`, which `Worker` extends |
| `MC*` | instances for TLC | the constants are in the `.cfg` files |

## 2. How state and actions correspond to the code

**Atomicity.** The Python services are asyncio programs: a handler runs without
interruption between two awaits, so one action is what happens between two
awaits. In the breaker these are `_enter` (`Admit`, `Reject`) and `_exit`
(`Succeed`, `Fail`); in the limiter a whole request, because `dispatch` decides
before it awaits; in chaos an endpoint, the part of `apply_request_chaos`
before its sleep (`Delay`, or all of it in `PassThrough`), the part after it
(`Resume`), and the two halves of each background task. The locks in the code
(`threading.Lock`) are never held across an await and add nothing to this.

**Breaker.** `rec` is the stored record. `opened_for` stands for
`clock() - opened_at` cut off at the recovery timeout, and `failure_count` is
cut off at the threshold; the code only compares both, so no case is lost.
`Announce` is `_set_state` and the `record_event` that follows it outside the
lock. The failure log is not the breaker's own: it is on a volume and outlives the
process, a write may fail or join a fragment another write left (`FailureStore`
has that in detail), and `DELETE /failures` empties it (`ClearEvents`). `logged` is
therefore the event of this process's newest transition if `/failures` still
shows it, and `"none"` otherwise; after a restart the newest line may well be the
last process's `opened`. `Cancel` is a handler cancelled inside the call:
`CancelledError` is not among `expected_exceptions`, so neither outcome is
recorded. A call takes at most `CallTimeout` ticks, fewer than the recovery
timeout: `HTTPServiceClient` gives every phase of a request 5 seconds against
30 (api), the simulated identity provider answers in 0.08 seconds against 20
(auth). That the breaker depends on this is a result, not only an assumption:
the mutant `TickNoTimeout` shows a late success closing the breaker.

**Limiter.** Tokens are counted in units so that fractional rates are integers:
a request costs `Cost` units and a tick refills `Rate` of them. The rounding of
the limiter's floats is not modelled. `Accept` and `Deny` are the two outcomes of
`dispatch`, both with the save of the bucket. `Deny` answers 500 when the rate
is zero, because `math.ceil(float("inf"))` raises.

**Chaos.** Rates are in units of `1/Whole`. The accumulator of the errors is a
float, and at 10% ten additions of 0.1 give 0.9999999999999999 and no error: an
addition may be off by up to `Eps` units (`RoundedSums`), within what rounding to
nearest guarantees. `memory_blocks` says how many blocks
of a size are in the list: `list.remove` compares bytearrays by content, and
blocks of one size are equal, so a task may remove another's block. A size of 0
is a request of less than one byte, which the payload's check admits. The
control plane's log lines, `chaos_events_total` and the latency histogram are
left out: nothing reads them.

**Worker.** `job` says where `_job_loop` is suspended. Cancelling raises
`CancelledError` there, past `except Exception`, into the `finally` clause,
which counts the job as a success, the status it started out with. The server
enters the shutdown part of the lifespan when the requests in progress are
answered; background tasks go on until the process exits (`Exit`), which ends
them and brings everything but the failure log back to its initial value for the
next process. `unreported` is how far `worker_jobs_processed_total` lags behind
the jobs begun; its label is left out.

**Failure store.** The file is a sequence of terminated lines and what follows
the last newline; `Collect` is the loop of `read_events` over both. An append
that is cut off leaves a fragment or a whole event
without its newline, and the next append joins it; a line of two writes never
parses. The lock makes the three operations atomic towards each other. Every
service has a volume of its own in `docker-compose.yml`, so there is one writer.

**Pipeline.** `at` says where a request is suspended: in the delay of chaos, on
its way into the limiter or the handler (`BaseHTTPMiddleware` hands it over to a
task), in the call of auth, in the simulated work. `Arrive` is everything from
the request context to the first of these: ids are chosen (`Ids`: an empty
header counts as none, the correlation id defaults to the request id) and put
into the context variables, the gauge goes up, chaos decides. `Respond` is a
response on its way out through the metrics, the security headers and the
context; `Unhandled` an exception on the same way, which is answered by the
server with a 500 outside the stack, without ids and headers. `context` has an entry for
every task: `create_task` copies it, so a background workload keeps the ids of
the request that triggered it. Paths stand for classes (the module's header says
which), and both tables of exempt paths are written out. The limiter and the
breaker are the abstract `TokenBucket` and `BreakerContract`, which the detailed
modules are proved to implement; in this way the pipeline is checked against
every behaviour of theirs without their clocks. `reply` is the answer given by
the last step, if it gave one.

**Order path.** `stage` is the layer of the api an order has reached, `auth` the
layer of auth its call has reached or the reply on its way back. `Arrive` leads
to the chaos hook, `ApplyChaos` past it, `Limit` through the limiter, `Handle`
(`create_order` up to the call), `Receive` or `GiveUp` (its end) and `Create`
through the handler. `create_service_app` adds the limiter before the
metrics, and the middleware added last is the outermost, so chaos comes before
the limiter. A client that gives up leaves auth at work on the call; its reply
then goes nowhere. That is how httpx treats the connection and is built into the
model: an element of `Orders` is a slot, each reply belongs to the order in its
slot, and the slot is used again when nothing of that order is left. The rates of
both limiters are positive; what a rate of zero does is in `RateLimiter`. `age` is the time a call has taken, bounded by the timeout of
`HTTPServiceClient`. What chaos does, whose order it is and what it contains are
choices.

**Network daemon.** `prober` says where `Run` is; `target` and `check` are the
check in progress, `left` what remains of the target's deadline, `doomed` why it
will fail. `EndCheck` is the end of a check with `record` and the step to the
next check, target or round. `SelectTick` and `SelectDone` are the two cases of
the `select`: when both are ready either may be taken. `main` waits for the
context, then for `Shutdown` (a scrape in progress holds it up to its own
deadline, also after the listener has failed), then for the prober. The end of the process ends the model, so its
run does not check for deadlock; the same holds for `ApiServer` and `Startup`.

**Go api.** A request reads its body, calls auth and works; `spent` is the time
in the stage, `age` the time since it was accepted. `Limit` is what a stage may
take: the server's read deadline, the timeout of the client of auth, the timer of
the work. `http.TimeoutHandler` runs the handler in a goroutine of its own and
waits for its end or for the end of the request's context. `CancelContext` ends
the context early: net/http does so when a read from the connection fails, be it
that the client is gone or that the read deadline has passed, in the body or in
the background read during the call of auth. `TimeoutHandlerReturns` is the answer,
with the handler or, after a cancellation, as a 503 without it; in the second case
the handler goes on until its stage ends and what it writes is dropped. `serving`
are the requests not answered yet, for which `Shutdown` waits; `stage` follows the
handlers, the abandoned ones included. `Panic` is a handler that panics into
`Recover`, inside `Timeout`. `run` is where `Run` is: `SelectErr` and `SelectDone`
are the cases of its `select`, `ShutdownReturns` the end of
`http.Server.Shutdown`, with every request answered or at its deadline; `Exit` is
the end of `main`, which cuts off what is still open. The deadline of
`TimeoutHandler` itself and the write deadline have no action, because
`NeverTimesOut` shows that no request lives that long.

**Startup.** A variable is unset, empty, a number or something else. The steps
are the casts at import, `validate_env`, the port, and the limiter that is built
with the middlewares at the server's first event. The first three end the process
if they raise. The last does not: uvicorn, with its default `lifespan="auto"`,
takes an exception there for an application without a lifespan and goes on
serving, and Starlette tries to build the stack again for every request, each of
which is answered 500 (`"broken"`).

## 3. The runs

Twelve runs: eight pass, four show a disagreement between the code and what the
repository says of it.

| Run | Instance | Shows |
|---|---|---|
| `breaker` | 3 callers, thresholds 3 and 2, recovery 3 ticks, calls up to 2 | `RecordConsistent`, `StreakTrips`, `TripsOnStreak`, `ClosesOnTrials`, `FailFast`, `CooldownBounded`, `ObserversAgree`, the refinement `ContractRefined`, and `RecoversOnceHealthy` |
| `limiter` | 2 clients, burst 7, cost 3, rate 1, 2 ticks a second, 6 ticks | `WindowBound`, `RetryAfterHonest`, the refinement `LazyRefillExact` |
| `worker` | chaos with the job loop: 2 tasks, 1 request, sizes 0, 1, 2 under a cap of 3, rates 0, 5/6 and 1, additions off by up to 1/6, windows of 3 | `GaugesFollowState`, `NoPhantomWork`, `ErrorsEvenlySpread` with jobs and requests interleaved, `JobsCountedOnce`, `WorkloadsEnd`, `ShutdownEnds`, `JobsKeepComing` |
| `failure_store` | 6 events of 2 sources, limits -1 to 3 | `ReadInOrder`, `LossBounded`, `LimitTakesNewest` |
| `order_path` | 2 orders of 2 clients, burst 1, rate 1, thresholds 2 and 2, recovery 2 ticks, calls up to 1 | `ShedStaysOut`, `AnswersFollowAuth`, the refinement `CallsFollowContract`, `EveryOrderAnswered` |
| `network_daemon` | a slow target before a healthy one, deadline 2 ticks, 3 rounds, 1 scrape | `RoundsComplete`, `NoCollateral`, `StopEnds` |
| `pipeline` | 2 requests on any of 8 paths with 3 kinds of headers, 1 background task, burst 1 | `MetricsTruthful`, `AnswersTraceable`, `ControlPlaneOpen`, `FailsOnlyDegraded` |
| `api_server` | 2 requests, the code's deadlines in ticks of 5 seconds (read 3, auth 1, request 6, shutdown 2) | `NeverTimesOut`, `ExitCodeHonest`, `ServerStops` |
| `breaker_open_total` | 2 callers | violated: a failure that arrives while the breaker is open counts as an opening |
| `chaos_memory_cap` | 2 tasks | violated: two triggers pass the cap before the first task starts |
| `order_path_open` | as `order_path` | violated: answers 422 and 429 of a healthy auth open the api's breaker |
| `startup_env` | 3 services, every environment | violated: variables are converted before they are validated, and empty ones pass the validation and fail later, or leave a service that answers 500 |

**Bounds.** A failure threshold of 3 with three callers lets a streak be
interrupted, completed by late failures, and leave a call in flight; two
successes close the breaker, so one success is a partial trial; the recovery
timeout of 3 against calls of 2 leaves room for a failure that postpones the
trial. Burst 7, cost 3 and rate 1 make a remainder in every division the limiter
does, and 6 ticks let an empty bucket pay again twice over. Two tasks are what
it takes to overlap, to remove each other's block and to straddle a reset; a rate
of 5/6 with additions off by 1/6 leaves every rest there can be within three
decisions, and one of 6/6 must leave none. Six
events hold two torn writes with events before, between and after them.
Two clients with a burst of one fill two buckets of the api and
overdraw the one that auth keeps for both, and two orders are a call that was
given up, with auth still at work on it, and the next one. Three rounds are the first one, one that starts from the ticker
and one that is started by a tick after the stop; with the slow target first,
everything it could cost the healthy one is reached.
Two requests in the pipeline are one that sleeps, calls or works and one that
reconfigures chaos, takes the token or sets its own ids under it; the headers
are none, both, and the one value that the code treats as no id. The api server
uses the deadlines of the code, so its bounds are exact up to the tick.
Prometheus counters saturate at `CounterCap`; nothing in the program reads them.

**Fairness.** `CircuitBreaker!LiveSpec` assumes that time passes, that clients
keep sending requests and that a caller's call returns if it is made again and
again (strong fairness: single calls may still fail or be cancelled). Without
traffic nothing moves an open breaker, because the half-open transition is made
by `allow`: the repository's advice that the breaker "recovers on its own"
(`docs/runbooks/circuit-breaker-open.md`) rests on such traffic. In `Worker` the
fair actions are the ends of sleeps and threads whose lengths the payloads
bound, and the exit of a server whose lifespan is over; requests and control
calls are never assumed to come. `OrderPath` assumes that the api's event loop
runs what is ready and that a call ends by its timeout; nothing is assumed of
auth. In `NetworkDaemon` goroutines that can run do, and `SelectDone` is
strongly fair, because Go's `select` picks uniformly among the cases that are
ready: a ticker cannot keep winning against a context that is done. (`MaxRounds`
bounds the ticks that can win, so on this instance weak fairness would do; the
assumption is the one the unbounded daemon rests on.) `ApiServer` assumes that
time passes, that `main` and `TimeoutHandler` run when they can and that a handler
goes on when its stage is over, at the latest at the limit. `JobsKeepComing`
promises a new job again and again to a worker that stays up, and so also that
every pause and every job before it ends.

**What else came out.** A few disagreements are visible in the model without a
run of their own: `POST /chaos/reset` clears the accounting while the running
tasks still hold their blocks (the README says it frees the memory); a request
delayed across a change of configuration is recorded in the histogram with the
new delay; a job cancelled by a shutdown is counted as a success;
`GET /failures?limit=0` returns everything, as `LastN` has it. The first of two
overlapping CPU burns to end clears the flag and the gauge of both
(`FinishCpu`): no property catches that, since flag and gauge still agree and
`NoPhantomWork` claims only that a burn which is reported exists. With
`RATE_LIMIT_RPS=0` a rejection raises in `math.ceil(inf)` and becomes a 500
(`Deny`). The docstring of `RequestContextMiddleware` says that the ids are
echoed on the response; the server's own 500 for an exception has none, and a
correlation id of `-` is echoed and logged but not passed on, because
`propagation_headers` takes it for the default of the context variable; auth then
makes up an id of its own, where `docs/operations.md` says that "api → auth shares
one correlation ID". `AnswersTraceable` names this exception. `/ready` of the
api stays degraded after an outage until an order arrives, because only `allow`
leaves the open state. `/` is exempt from the limiter and not from chaos. In the
Go api, `Run` "returns the first fatal error, or nil on a clean shutdown", but
when a signal and the listener's error are both ready, `select` may take the
signal and `Run` returns nil; and the deadline of `http.TimeoutHandler`, for which
the write deadline leaves room, never passes: its 503 is sent only when the context
is cancelled. The work of an order is to "abandon quietly if the client went away"
(`internal/handlers/orders.go:76`), but the context also ends at the read deadline,
15 seconds after the request began, with the client waiting; if `TimeoutHandler`
then finds the handler done before it looks at the context, the client gets an
empty 200 and no order. `LoadService` documents "defaults < YAML
file < environment", but sets the listen address from `PORT` or its default and
never from the file.
`docs/architecture/README.md` puts the limiter before the metrics and chaos,
while the code runs it behind them: a request that chaos fails takes no token,
and a 429 is measured. The comment at `internal/prober/prober.go:38` says that
targets are probed "until ctx is done"; a round may be started after that, and
the rest of any round is recorded as failures of healthy targets, which is why
`NoCollateral` speaks of failures only up to the stop. `time.NewTicker` panics
for an interval that is not positive, which `LoadNetwork` lets through.

## 4. The proofs

Every invariant, action property and refinement that a passing run checks is
also a theorem: what the run shows on its instance holds for any number of
callers, clients, requests, tasks, orders or targets, and for all timeouts,
thresholds, rates and sizes that satisfy the named assumptions. TLC evaluates
these in each run, and has checked every inductive invariant below on the
instance of its run before it was proved. The assumptions say that numbers are
numbers and sets that are counted are finite, and these things more:

- `CallTimeout < RecoveryTimeout` (`CallConfig`, `OrderConfig`): the code's 5
  seconds against 30;
- `DeadlinesAddUp` (`ApiServer`): the read deadline, the timeout of the call of
  auth and the work are together less than the router's deadline, 15 + 5 + 0.05
  seconds against 30. Four packages set these constants and none of them knows
  of the sum; the theorem needs nothing else of them;
- an addition of the error accumulator is off by at most `Eps`, which may be any
  number (`ChaosConfig`), and the limiter's rate is positive in `Pipeline` and
  `OrderPath`;
- a plan of the network daemon has a target, and each target a check
  (`DaemonConfig`);
- requests and background tasks are different things (`PipelineConfig`).

**Circuit breaker** (`CircuitBreakerProofs`). The inductive invariant is
`IInv == TypeOK /\ RecordConsistent /\ CountIsStreak /\ Draining /\ Trial /\
ObserversAgree`. None of the interesting properties is inductive alone:

- `CountIsStreak` ties `failure_count` to the failures recorded since the last
  success, which gives `StreakTrips` and `TripsOnStreak`;
- `Draining` relates the clock to the calls still in flight: while the breaker
  is open the stale calls are as old as the time since the trip, and the
  countdown can only have been restarted by one of them. It yields
  `CooldownBounded`, `FailFast`, and that no stale call is left when the trial
  begins. This is where `CallTimeout < RecoveryTimeout` is needed;
- `Trial` says that in half-open every call in flight is fresh and
  `success_count` is the number of their successes, from which
  `ClosesOnTrials` follows.

`ImplementsContract` proves the refinement of `BreakerContract` step by step
from the same invariant; `cooling` and `ready` split the open state by the clock.

**Rate limiter** (`RateLimiterProofs`). `LInv == TypeOK /\ Ledger /\
PromiseBacked`. `Ledger` is the accounting identity behind `WindowBound`: for
every instant a window can start at, what was spent since plus what is in the
bucket is at most a full bucket plus the refill. `PromiseBacked` says that the
level will have reached one token by the promised time. `ImplementsTokenBucket`
shows that a lazily refilled bucket is one that is refilled at every tick.

**Chaos and worker** (`WorkerProofs`). `ChaosInv == TypeOK /\ SizesAsked /\
SpreadCarried /\ GaugesFollowState /\ NoPhantomWork`, and `WorkerInv` adds
`JobsCountedOnce`. `ErrorsEvenlySpread` is a consequence of `SpreadCarried`: what
was asked for in a window, less what was injected, is in the accumulator, up to
the rest it started with and `Eps` for every decision; at a rate of 100% every
decision of the window is an error, because a rounded sum is never below the rate. `NoPhantomWork` needs two accounts. The blocks of a
size are compared with the tasks that hold one by counting a set that gains or
loses a member (`FS_AddElement`, `FS_RemoveElement`); `memory_bytes` is compared
with a sum over all sizes, and `BytesChange` says how one block changes it.
`ChaosInvariant` holds of the controller of every service, the other theorems of
the worker, whose loop makes decisions with the same accumulator and whose exit
leads back to `Init`.

**Failure store** (`FailureStoreProofs`). `StoreInv == Typed /\ SettledInOrder /\
TailNotStored /\ LossPaid`, about the events of the terminated lines. A torn write
has been counted but may not have cost anything yet, so `LossBounded` alone is not
inductive; `LossPaid` keeps that debt apart. `TailNotStored` is why an event that
reached the disk without its newline may be spoilt by the next write without a
loss of its own: its write never returned. The link
between the reader's loop and the writers is `CollectAppend`.
`LimitAlwaysTakesNewest` covers every limit, as Python slices it.

**Pipeline** (`PipelineProofs`). `PipelineInv` is the three invariants with
`RequestsFormed` and, in `AnswerFormed`, which answers there are. There is one
lemma for each way a request moves (`EnterKeeps`, `GoOnKeeps`, `FinishKeeps`) and
the layers and handlers use those. The breaker and the limiter appear only as
guards, so the theorems hold whatever they decide. `FailsAlwaysDegraded` is an
action property and needs no invariant.

**Order path** (`OrderPathProofs`). `PathInv` follows each order through both
services (`OrderFacts`) and says of the breaker that the calls which are out while
it is open are at least as old as the opening (`BreakerFacts`). From the second part
`OrdersFollowContract` shows, action by action, that the calls refine
`BreakerContract`: a trial never meets a call from before.

**Network daemon** (`NetworkDaemonProofs`). `DaemonInv == TypeOK /\
RoundsComplete /\ NoCollateral /\ TicksBounded /\ DoomExplained`. The counters are
bounded by the rounds and the rounds by the ticks; that a healthy target is not
blamed rests on its own deadline not having moved when a check begins.

**Go api** (`ApiServerProofs`). `ServerInv` charges the age of a request that is
being served to the stages its handler has been through (`StagesCharged`), from which `NeverTimesOut` follows
by `DeadlinesAddUp`, and keeps what `Run` knew when it returned (`RunKnows`): once
the listener is closed no request is accepted, so a drained server stays drained
until `main` exits.

**Induction over data.** Two definitions are recursive functions: the sum
`BytesOf` and the loop `Collect`. What they compute is proved by induction over
the natural numbers with the property written as a set (`NatSet`, from the
existence of a least element), since the library's induction theorems take an
operator the provers cannot instantiate.

**Only model-checked.** The liveness properties, because fairness and `ENABLED`
are out of the prover's reach: `RecoversOnceHealthy`, `WorkloadsEnd`,
`ShutdownEnds`, `JobsKeepComing`, `EveryOrderAnswered`, `StopEnds`, `ServerStops`.
The four violated properties are counterexamples and need no proof.

## 5. Mutants

Each property of a passing run has a mutant: an operator placed before the
definition it distorts, introduced by `\* Mutant:`. It is a change a plausible
bug would make (a reset left out, a comparison off by one, a missing timeout),
and replacing the definition by it makes TLC find the property violated.
`PROJECT.json` lists the pairs.

## 6. Plan

Done: the circuit breaker with its contract, the limiter with its bucket, chaos
with the worker, the failure store, the request pipeline, the order path, the
network daemon, the Go api service, the start of the Python services; proofs of
all their safety properties. Next, in this order:

1. How far the memory cap can be exceeded: `MemoryCapped` is violated, and a bound
   on what running tasks hold, by the number of tasks that may be scheduled at a
   time, would say what the code does guarantee.
2. The liveness arguments as safety: for each liveness property the measure that
   every fair step decreases, as an action property and a theorem.

## 7. Not modelled

Prometheus rules, Grafana dashboards, Alertmanager routes, the static frontend,
container and CI files are data for other programs, and
`scripts/validate_observability.py` is a linter of theirs. The Go configuration
is one sequential read before anything runs. Of the Go api only the order route
has stages; its other routes answer at once. Inside net/http the model has the
deadlines, the cancellation of a request's context, whatever its cause, and the
two ways in which `TimeoutHandler` returns; not what a response contains.
auth's breaker around the simulated identity provider guards a wait that never
fails. Durations, labels and histograms of the metrics are left out, and so are
counters where no property speaks of them. Growth of the limiter's table of
clients is outside a model with a fixed set of clients. Floating point rounding
in the limiter is abstracted by rational units; in the error accumulator of chaos it
is a choice within `Eps`.
