--------------------------- MODULE CircuitBreaker ---------------------------
(***************************************************************************)
(* One CircuitBreaker shared by the request handlers of a service: the     *)
(* "auth" breaker of api/main.py, or "identity-provider" of auth/main.py.  *)
(* A handler runs breaker.call(f): _enter, await f, _exit.  The services   *)
(* are asyncio programs and nothing inside _enter or _exit awaits, so each *)
(* of the two is one step; between them any number of other handlers run,  *)
(* and the outcome of a call is recorded in whatever state the breaker has *)
(* reached by then.                                                        *)
(*                                                                         *)
(* A transition also sets the state gauge and appends an event to the      *)
(* failure log.  record_event is best effort: the write may fail, or join  *)
(* a fragment an earlier crash left in the file, without the breaker       *)
(* noticing.  The log outlives the process and an operator may clear it,   *)
(* so what is followed is the line about its newest transition that this   *)
(* process added and a reader still finds.                                 *)
(***************************************************************************)
EXTENDS BreakerRecord

CONSTANTS
  Callers,       \* request handlers that may be inside breaker.call
  CallTimeout,   \* ticks one protected call may take
  CounterCap     \* Prometheus counters are followed up to this value

\* The protected calls are bounded by timeouts shorter than the recovery
\* timeout: the httpx client gives every phase of a request 5s (api, against
\* 30s) and the identity provider answers in DEP_LATENCY (auth, against 20s).
ASSUME CallConfig ==
  /\ CallTimeout \in Nat
  /\ CallTimeout < RecoveryTimeout
  /\ CounterCap \in Nat

VARIABLES
  rec,               \* the record in the BreakerStore
  gauge,             \* circuit_breaker_state
  open_total,        \* circuit_breaker_open_total
  rejections_total,  \* circuit_breaker_rejections_total
  inflight,          \* callers suspended inside the protected call
  age,               \* ticks each of them has been there
  logged,            \* this process's newest event, if /failures shows it
  \* History, read by the properties only:
  fresh,             \* callers in flight admitted since the last trip
  fresh_wins,        \* successes of such callers since the last trip
  streak,            \* failures recorded since the last recorded success
  since_trip         \* ticks since the breaker last became open

cbVars == <<rec, gauge, open_total, rejections_total, inflight, age,
            logged, fresh, fresh_wins, streak, since_trip>>

----------------------------------------------------------------------------
\* _STATE_VALUE
StateValue(s) == IF s = "closed" THEN 0 ELSE IF s = "open" THEN 1 ELSE 2

\* The event each state is announced with.
EventOf(s) == IF s = "open" THEN "opened" ELSE s

\* The longest an open breaker can stay open, in ticks.
MaxOpen == RecoveryTimeout + CallTimeout

UpTo(n, cap) == IF n < cap THEN n + 1 ELSE n

\* record_event: appended as a line of its own; or not to be read, because
\* the store raised (which is swallowed) or the line joined a torn one.
RecordEvent(e) == logged' \in {e, "none"}

\* Mutant: the state is assigned without the gauge.
AnnounceNoGauge(s) == RecordEvent(EventOf(s)) /\ UNCHANGED gauge

\* _set_state followed, outside the lock, by record_event.
Announce(s) == gauge' = StateValue(s) /\ RecordEvent(EventOf(s))

Quiet == UNCHANGED <<gauge, logged>>

Leave(c) ==
  /\ inflight' = inflight \ {c}
  /\ age' = [age EXCEPT ![c] = 0]

----------------------------------------------------------------------------
\* CircuitBreaker.__init__ over a new InMemoryStore.
Init ==
  /\ rec = InitRecord
  /\ gauge = StateValue("closed")
  /\ open_total = 0
  /\ rejections_total = 0
  /\ inflight = {}
  /\ age = [c \in Callers |-> 0]
  /\ logged = "none"
  /\ fresh = {}
  /\ fresh_wins = 0
  /\ streak = 0
  /\ since_trip = 0

\* Mutant: a rejected request pushes the recovery further away.
RejectPostpones(c) ==
  /\ c \notin inflight
  /\ Rejects(rec)
  /\ rec' = [rec EXCEPT !.opened_for = 0]
  /\ rejections_total' = UpTo(rejections_total, CounterCap)
  /\ UNCHANGED <<gauge, open_total, inflight, age, logged,
                 fresh, fresh_wins, streak, since_trip>>

\* _enter when allow() is False: count the rejection, raise
\* CircuitBreakerOpenError.
Reject(c) ==
  /\ c \notin inflight
  /\ Rejects(rec)
  /\ rejections_total' = UpTo(rejections_total, CounterCap)
  /\ UNCHANGED <<rec, gauge, open_total, inflight, age, logged,
                 fresh, fresh_wins, streak, since_trip>>

\* _enter when allow() is True: the first call after the recovery timeout
\* moves the breaker to half_open, the others leave the record alone.
Admit(c) ==
  /\ c \notin inflight
  /\ ~Rejects(rec)
  /\ rec' = Allowed(rec)
  /\ IF rec.state = "open" THEN Announce("half_open") ELSE Quiet
  /\ inflight' = inflight \cup {c}
  /\ fresh' = fresh \cup {c}
  /\ UNCHANGED <<open_total, rejections_total, age, fresh_wins, streak, since_trip>>

\* The call returned: _exit(failed=False).
Succeed(c) ==
  /\ c \in inflight
  /\ rec' = Succeeded(rec)
  /\ IF Closes(rec) THEN Announce("closed") ELSE Quiet
  /\ Leave(c)
  /\ fresh' = fresh \ {c}
  /\ fresh_wins' = IF c \in fresh THEN UpTo(fresh_wins, SuccessThreshold) ELSE fresh_wins
  /\ streak' = 0
  /\ UNCHANGED <<open_total, rejections_total, since_trip>>

\* The call raised an expected exception: _exit(failed=True).
Fail(c) ==
  /\ c \in inflight
  /\ rec' = Failed(rec)
  /\ IF Opens(rec)
       THEN Announce("open") /\ open_total' = UpTo(open_total, CounterCap)
       ELSE Quiet /\ UNCHANGED open_total
  /\ Leave(c)
  /\ streak' = UpTo(streak, FailureThreshold)
  /\ IF Opens(rec) /\ rec.state # "open"
       THEN fresh' = {} /\ fresh_wins' = 0 /\ since_trip' = 0
       ELSE fresh' = fresh \ {c} /\ UNCHANGED <<fresh_wins, since_trip>>
  /\ UNCHANGED rejections_total

\* The handler was cancelled while it waited: CancelledError is not an
\* Exception, so protect() records neither outcome.
Cancel(c) ==
  /\ c \in inflight
  /\ Leave(c)
  /\ fresh' = fresh \ {c}
  /\ UNCHANGED <<rec, gauge, open_total, rejections_total, logged,
                 fresh_wins, streak, since_trip>>

\* Mutant: the dependency's client has no timeout.
TickNoTimeout ==
  /\ rec' = Aged(rec)
  /\ age' = [c \in Callers |-> IF c \in inflight THEN UpTo(age[c], CallTimeout) ELSE age[c]]
  /\ since_trip' = UpTo(since_trip, MaxOpen)
  /\ UNCHANGED <<gauge, open_total, rejections_total, inflight, logged,
                 fresh, fresh_wins, streak>>

\* The monotonic clock; it cannot pass a call's timeout before the call ends.
Tick ==
  /\ \A c \in inflight : age[c] < CallTimeout
  /\ rec' = Aged(rec)
  /\ age' = [c \in Callers |-> IF c \in inflight THEN age[c] + 1 ELSE age[c]]
  /\ since_trip' = UpTo(since_trip, MaxOpen)
  /\ UNCHANGED <<gauge, open_total, rejections_total, inflight, logged,
                 fresh, fresh_wins, streak>>

\* DELETE /failures: clear_events.
ClearEvents ==
  /\ logged' = "none"
  /\ UNCHANGED <<rec, gauge, open_total, rejections_total, inflight, age,
                 fresh, fresh_wins, streak, since_trip>>

Enter(c) == Reject(c) \/ Admit(c)

Next ==
  \/ \E c \in Callers : Enter(c) \/ Succeed(c) \/ Fail(c) \/ Cancel(c)
  \/ Tick
  \/ ClearEvents

Spec == Init /\ [][Next]_cbVars

\* A dependency that answers: time passes and no caller is cut off for ever
\* before its call returns.
DependencyAnswers == WF_cbVars(Tick) /\ \A c \in Callers : SF_cbVars(Succeed(c))

\* ... and clients that keep sending requests.
Traffic == \A c \in Callers : WF_cbVars(Enter(c))

LiveSpec == Spec /\ DependencyAnswers /\ Traffic

----------------------------------------------------------------------------
\* What the users of a breaker rely on, with the clock folded into the phase.
Contract ==
  INSTANCE BreakerContract WITH
    phase <- IF rec.state # "open" THEN rec.state
             ELSE IF rec.opened_for = RecoveryTimeout THEN "ready" ELSE "cooling",
    calls <- inflight,
    wins  <- rec.success_count

----------------------------------------------------------------------------
(***************************************************************************)
(* Properties.                                                             *)
(***************************************************************************)

\* Every variable has its type.
TypeOK ==
  /\ rec \in Record
  /\ gauge \in 0..2
  /\ open_total \in 0..CounterCap
  /\ rejections_total \in 0..CounterCap
  /\ inflight \subseteq Callers
  /\ age \in [Callers -> 0..CallTimeout]
  /\ logged \in {"none", "opened", "half_open", "closed"}
  /\ fresh \subseteq inflight
  /\ fresh_wins \in 0..SuccessThreshold
  /\ streak \in 0..FailureThreshold
  /\ since_trip \in 0..MaxOpen

\* The counters of the record agree with its state whatever order outcomes
\* arrive in: a closed breaker is below its threshold and not dated, an open
\* one is dated and carries no trial successes into its next trial, and a
\* trial that has enough successes has ended.
RecordConsistent ==
  /\ rec.state = "closed" =>
       /\ rec.failure_count < FailureThreshold
       /\ rec.success_count = 0
       /\ rec.opened_for = NoTime
  /\ rec.state = "open" => rec.success_count = 0 /\ rec.opened_for # NoTime
  /\ rec.state = "half_open" =>
       rec.success_count < SuccessThreshold /\ rec.opened_for = RecoveryTimeout

\* record_failure trips a closed breaker only on failure_threshold failures
\* recorded in a row: a success in between, of any caller, starts the count
\* again.
TripsOnStreak ==
  [][rec.state = "closed" /\ rec'.state = "open" =>
       streak' = FailureThreshold]_cbVars

\* A closed breaker never sits on failure_threshold consecutive failures.
StreakTrips == rec.state = "closed" => streak < FailureThreshold

\* A half_open breaker is closed only by success_threshold calls admitted
\* after it opened: a late success of a call from before the outage never
\* counts as a successful trial.
ClosesOnTrials ==
  [][rec.state = "half_open" /\ rec'.state = "closed" =>
       fresh_wins' >= SuccessThreshold]_cbVars

\* From the moment the breaker opens no request reaches the dependency for a
\* full recovery timeout, however many late outcomes come in meanwhile.
FailFast ==
  [][rec.state = "open" /\ since_trip < RecoveryTimeout =>
       inflight' \subseteq inflight]_cbVars

\* Late failures restart the countdown of an open breaker (opened_at is
\* written again), but only calls already in flight can do so: what
\* /breaker/status shows as seconds_until_half_open never promises a trial
\* later than RecoveryTimeout + CallTimeout after the breaker opened.
CooldownBounded ==
  rec.state = "open" => since_trip + SecondsUntilHalfOpen(rec) <= MaxOpen

\* Whoever looks at the breaker from outside sees one story: the gauge shows
\* the state, and so does the event of the newest transition wherever
\* /failures shows that event.  It need not: the write may have failed or been
\* spoilt, the log may have been cleared since, and after a restart the newest
\* line may be an earlier process's "opened" while the breaker is closed.
ObserversAgree ==
  /\ gauge = StateValue(rec.state)
  /\ logged # "none" => logged = EventOf(rec.state)

\* Once calls stop failing the breaker ends up closed for good.
RecoversOnceHealthy ==
  <>[][~\E c \in Callers : Fail(c)]_cbVars => <>[](rec.state = "closed")

\* The breaker implements its contract.
ContractRefined == Contract!Spec

\* README.md, metrics: circuit_breaker_open_total counts "Transitions to OPEN".
OpenTotalCountsTransitions ==
  [][open_total' # open_total => rec.state # "open" /\ rec'.state = "open"]_cbVars

=============================================================================
