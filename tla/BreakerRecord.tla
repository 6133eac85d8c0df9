--------------------------- MODULE BreakerRecord ---------------------------
(***************************************************************************)
(* The record of a circuit breaker and what each critical section of       *)
(* class CircuitBreaker does to it (shared/autosre_shared/resilience/      *)
(* circuit_breaker.py).  Every `with self._lock` block is one operator     *)
(* from records to records; the modules that use a breaker turn them into  *)
(* actions.                                                                *)
(*                                                                         *)
(* Two fields are abstracted without losing a case of the code:            *)
(*   opened_for     stands for clock() - opened_at, saturated at           *)
(*                  recovery_timeout (the code only ever compares the two, *)
(*                  in allow and snapshot), NoTime for opened_at = None;   *)
(*   failure_count  saturates at failure_threshold (only compared with it).*)
(***************************************************************************)
EXTENDS Integers

CONSTANTS
  FailureThreshold,   \* failure_threshold, 5 in both services
  RecoveryTimeout,    \* recovery_timeout in ticks, 30s (api) and 20s (auth)
  SuccessThreshold    \* success_threshold, 2 in both services

ASSUME BreakerConfig ==
  /\ FailureThreshold \in Nat \ {0}
  /\ RecoveryTimeout \in Nat
  /\ SuccessThreshold \in Nat \ {0}

BreakerState == {"closed", "open", "half_open"}

NoTime == -1

Record ==
  [state         : BreakerState,
   failure_count : 0..FailureThreshold,
   success_count : 0..SuccessThreshold,
   opened_for    : {NoTime} \cup (0..RecoveryTimeout)]

InitRecord ==
  [state |-> "closed", failure_count |-> 0, success_count |-> 0,
   opened_for |-> NoTime]

----------------------------------------------------------------------------
\* Elapsed time as allow computes it; (opened_at or 0.0) makes None long ago.
Elapsed(r) ==
  IF r.opened_for = NoTime THEN RecoveryTimeout ELSE r.opened_for

Rejects(r) == r.state = "open" /\ Elapsed(r) < RecoveryTimeout

\* The record after allow() returned True.
Allowed(r) ==
  IF r.state = "open"
    THEN [r EXCEPT !.state = "half_open", !.success_count = 0]
    ELSE r

\* Mutant: success_count is compared before it is incremented, and with >.
ClosesTooLate(r) == r.state = "half_open" /\ r.success_count > SuccessThreshold

Closes(r) ==
  r.state = "half_open" /\ r.success_count + 1 >= SuccessThreshold

\* Mutant: the reset of failure_count is missing.
SucceededKeepsCount(r) ==
  IF Closes(r) THEN InitRecord
  ELSE IF r.state = "half_open" THEN [r EXCEPT !.success_count = @ + 1]
  ELSE r

\* Mutant: a success in any other state than half_open starts the record anew.
SucceededClosesAnyway(r) ==
  IF r.state = "half_open" /\ ~Closes(r)
    THEN [r EXCEPT !.success_count = @ + 1]
    ELSE InitRecord

\* Mutant: a late success also forgets opened_at.
SucceededForgetsOpening(r) ==
  IF Closes(r) THEN InitRecord
  ELSE IF r.state = "half_open" THEN [r EXCEPT !.success_count = @ + 1]
  ELSE [r EXCEPT !.failure_count = 0, !.opened_for = NoTime]

\* record_success
Succeeded(r) ==
  IF Closes(r) THEN InitRecord
  ELSE IF r.state = "half_open" THEN [r EXCEPT !.success_count = @ + 1]
  ELSE [r EXCEPT !.failure_count = 0]

\* The failure count that record_failure compares with the threshold.
CountedFailures(r) ==
  IF r.state = "half_open" \/ r.failure_count = FailureThreshold
    THEN r.failure_count
    ELSE r.failure_count + 1

\* Mutant: failure_count is compared before it is incremented.
OpensTooLate(r) == r.state = "half_open" \/ r.failure_count >= FailureThreshold

Opens(r) == r.state = "half_open" \/ CountedFailures(r) >= FailureThreshold

\* Mutant: a failed trial leaves success_count as it is.
FailedKeepsTrial(r) ==
  [state         |-> IF Opens(r) THEN "open" ELSE r.state,
   failure_count |-> CountedFailures(r),
   success_count |-> r.success_count,
   opened_for    |-> IF Opens(r) THEN 0 ELSE r.opened_for]

\* record_failure
Failed(r) ==
  [state         |-> IF Opens(r) THEN "open" ELSE r.state,
   failure_count |-> CountedFailures(r),
   success_count |-> IF r.state = "half_open" THEN 0 ELSE r.success_count,
   opened_for    |-> IF Opens(r) THEN 0 ELSE r.opened_for]

\* One tick of the monotonic clock, as the record sees it.
Aged(r) ==
  IF r.opened_for \in 0..(RecoveryTimeout - 1)
    THEN [r EXCEPT !.opened_for = @ + 1]
    ELSE r

\* snapshot()["seconds_until_half_open"]
SecondsUntilHalfOpen(r) ==
  IF r.state = "open" /\ r.opened_for # NoTime
    THEN RecoveryTimeout - r.opened_for
    ELSE NoTime

============================================================================
