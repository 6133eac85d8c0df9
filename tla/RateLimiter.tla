---------------------------- MODULE RateLimiter ----------------------------
(***************************************************************************)
(* The per-client token bucket behind RateLimitMiddleware                  *)
(* (shared/autosre_shared/resilience/rate_limiter.py).                     *)
(*                                                                         *)
(* A bucket is only brought up to date when its client sends a request: it *)
(* keeps the tokens left and the time of that request.  consume runs under *)
(* a lock and dispatch does not await before its answer is decided, so a   *)
(* request is one step.  Tokens are counted in units, Cost of them to a    *)
(* token, and refilled by Rate units a tick, which makes fractional rates  *)
(* integers; float rounding is not modelled.  Requests on the excluded     *)
(* control paths never reach the limiter.  The line a rejection writes to  *)
(* the failure log is left out: its write may fail, and nothing here reads *)
(* it.                                                                     *)
(***************************************************************************)
EXTENDS Integers

CONSTANTS
  Clients,          \* what _client_key returns
  Rate,             \* units refilled in a tick (requests_per_second)
  Burst,            \* capacity in units (burst_capacity)
  Cost,             \* units a request costs (tokens=1.0)
  TicksPerSecond,
  MaxClock,         \* bound on the clock
  CounterCap        \* Prometheus counters are followed up to this value

ASSUME LimiterConfig ==
  /\ Rate \in Nat
  /\ Burst \in Nat
  /\ Cost \in Nat \ {0}
  /\ TicksPerSecond \in Nat \ {0}
  /\ MaxClock \in Nat
  /\ CounterCap \in Nat

VARIABLES
  now,               \* time.monotonic
  known,             \* the keys of _buckets
  cur, last,         \* _buckets[k], for the known clients
  requests_total,    \* rate_limit_requests_total
  rejections_total,  \* rate_limit_rejections_total
  reply,             \* what the last request was answered with
  \* History, read by the properties only:
  spent,             \* units each client has spent
  spent_at,          \* units each client had spent when a tick began
  promise            \* when a rejected client was told to come back

limiterVars == <<now, known, cur, last, requests_total, rejections_total, reply,
                 spent, spent_at, promise>>

NoPromise == -1

----------------------------------------------------------------------------
UpTo(n, cap) == IF n < cap THEN n + 1 ELSE n

\* Mutant: the capacity is not applied to what was refilled.
LevelUncapped(k) ==
  IF k \in known THEN cur[k] + (now - last[k]) * Rate ELSE Burst

\* Tokens of k's bucket brought up to date; a new client starts full.
Level(k) ==
  IF k \in known /\ cur[k] + (now - last[k]) * Rate < Burst
    THEN cur[k] + (now - last[k]) * Rate
    ELSE Burst

Ceil(a, b) == (a + b - 1) \div b

\* Mutant: the seconds are rounded down.
RetryAfterFloor(level) ==
  LET s == (Cost - level) \div (Rate * TicksPerSecond) IN IF s < 1 THEN 1 ELSE s

\* The Retry-After header: whole seconds, at least one.
RetryAfter(level) ==
  LET s == Ceil(Cost - level, Rate * TicksPerSecond) IN IF s < 1 THEN 1 ELSE s

----------------------------------------------------------------------------
Init ==
  /\ now = 0
  /\ known = {}
  /\ cur = [k \in Clients |-> 0]
  /\ last = [k \in Clients |-> 0]
  /\ requests_total = 0
  /\ rejections_total = 0
  /\ reply = "none"
  /\ spent = [k \in Clients |-> 0]
  /\ spent_at = [k \in Clients |-> [t \in 0..MaxClock |-> 0]]
  /\ promise = [k \in Clients |-> NoPromise]

\* Mutant: the refill is credited without moving the bucket's timestamp.
SaveKeepsTime(k, level) ==
  /\ known' = known \cup {k}
  /\ cur' = [cur EXCEPT ![k] = level]
  /\ last' = IF k \in known THEN last ELSE [last EXCEPT ![k] = now]

\* _buckets[key] = (cur, now)
Save(k, level) ==
  /\ known' = known \cup {k}
  /\ cur' = [cur EXCEPT ![k] = level]
  /\ last' = [last EXCEPT ![k] = now]

\* Mutant: any fraction of a token will do.
AcceptFraction(k) ==
  /\ Level(k) > 0
  /\ Save(k, Level(k) - Cost)
  /\ reply' = "passed"
  /\ requests_total' = UpTo(requests_total, CounterCap)
  /\ spent' = [spent EXCEPT ![k] = @ + Cost]
  /\ promise' = [promise EXCEPT ![k] = NoPromise]
  /\ UNCHANGED <<now, rejections_total, spent_at>>

\* A request whose client has a token left goes on to the handler.
Accept(k) ==
  /\ Level(k) >= Cost
  /\ Save(k, Level(k) - Cost)
  /\ reply' = "passed"
  /\ requests_total' = UpTo(requests_total, CounterCap)
  /\ spent' = [spent EXCEPT ![k] = @ + Cost]
  /\ promise' = [promise EXCEPT ![k] = NoPromise]
  /\ UNCHANGED <<now, rejections_total, spent_at>>

\* A request whose client has none is answered 429.  With a rate of zero
\* retry_after is inf, and math.ceil(inf) raises before the answer is built.
Deny(k) ==
  /\ Level(k) < Cost
  /\ Save(k, Level(k))
  /\ reply' = IF Rate = 0 THEN "500" ELSE "429"
  /\ requests_total' = UpTo(requests_total, CounterCap)
  /\ rejections_total' = UpTo(rejections_total, CounterCap)
  /\ promise' = [promise EXCEPT ![k] =
       IF Rate = 0 THEN NoPromise ELSE now + RetryAfter(Level(k)) * TicksPerSecond]
  /\ UNCHANGED <<now, spent, spent_at>>

Tick ==
  /\ now < MaxClock
  /\ now' = now + 1
  /\ spent_at' = [k \in Clients |-> [spent_at[k] EXCEPT ![now + 1] = spent[k]]]
  /\ UNCHANGED <<known, cur, last, requests_total, rejections_total, reply, spent, promise>>

Next == Tick \/ \E k \in Clients : Accept(k) \/ Deny(k)

Spec == Init /\ [][Next]_limiterVars

Eager == INSTANCE TokenBucket WITH tokens <- [k \in Clients |-> Level(k)]

----------------------------------------------------------------------------
(***************************************************************************)
(* Properties.                                                             *)
(***************************************************************************)

\* Every variable has its type; a bucket never holds more than the burst.
TypeOK ==
  /\ now \in 0..MaxClock
  /\ known \subseteq Clients
  /\ cur \in [Clients -> 0..Burst]
  /\ last \in [Clients -> 0..now]
  /\ requests_total \in 0..CounterCap
  /\ rejections_total \in 0..CounterCap
  /\ reply \in {"none", "passed", "429", "500"}
  /\ spent \in [Clients -> Nat]
  /\ spent_at \in [Clients -> [0..MaxClock -> Nat]]
  /\ promise \in [Clients -> Nat \cup {NoPromise}]

\* In every window of time, wherever it starts, a client spends no more than
\* a full bucket and what is refilled in the window: bursts cannot be chained
\* by timing requests around the refills.
WindowBound ==
  \A k \in Clients : \A t \in 0..now :
    spent[k] - spent_at[k][t] <= Burst + (now - t) * Rate

\* A client that was answered 429 and stays away for Retry-After seconds is
\* let through, as long as the bucket can hold one token at all.
RetryAfterHonest ==
  Burst >= Cost =>
    \A k \in Clients :
      promise[k] # NoPromise /\ now >= promise[k] => Level(k) >= Cost

\* Crediting the refill lazily, at the next request, is the same as crediting
\* it tick by tick.
LazyRefillExact == Eager!Spec

============================================================================
