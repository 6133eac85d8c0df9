----------------------- MODULE CircuitBreakerProofs -----------------------
(***************************************************************************)
(* Proofs about CircuitBreaker for every set of callers, every threshold   *)
(* and every pair of timeouts with CallTimeout < RecoveryTimeout.          *)
(*                                                                         *)
(* The heart of the argument is Draining: the calls in flight while the    *)
(* breaker is open were all admitted before it opened, so they are at      *)
(* least as old as the outage, and since a call cannot outlive CallTimeout *)
(* none is left when the recovery timeout has passed.                      *)
(***************************************************************************)
EXTENDS CircuitBreaker, TLAPS

\* In the closed state the record's counter is the true streak.
CountIsStreak == rec.state = "closed" => streak = rec.failure_count

\* An open breaker: its calls are older than the outage, none of them is
\* fresh, and opened_at may have been rewritten only while they drained.
Draining ==
  rec.state = "open" =>
    /\ fresh = {}
    /\ \A c \in inflight : since_trip <= age[c]
    /\ rec.opened_for <= since_trip
    /\ rec.opened_for = RecoveryTimeout \/ since_trip <= rec.opened_for + CallTimeout

\* A trial: every call in flight was admitted for it and every success counts.
Trial ==
  rec.state = "half_open" =>
    /\ fresh = inflight
    /\ rec.success_count <= fresh_wins

IInv == TypeOK /\ RecordConsistent /\ CountIsStreak /\ Draining /\ Trial /\ ObserversAgree

----------------------------------------------------------------------------
\* The critical sections of the breaker keep the record well-typed.
LEMMA RecordOps ==
  ASSUME NEW r \in Record
  PROVE  /\ Allowed(r) \in Record
         /\ Failed(r) \in Record
         /\ Aged(r) \in Record
         /\ (r.state = "half_open" => r.success_count < SuccessThreshold)
              => Succeeded(r) \in Record
<1>1. Allowed(r) \in Record
  <2>1. [r EXCEPT !.state = "half_open"] \in Record
    BY DEF Record, BreakerState
  <2>2. ASSUME NEW q \in Record PROVE [q EXCEPT !.success_count = 0] \in Record
    BY BreakerConfig DEF Record
  <2> QED
    BY <2>1, <2>2 DEF Allowed
<1> USE BreakerConfig DEF Record, BreakerState, NoTime
<1>2. Failed(r) \in Record
  BY DEF Failed, Opens, CountedFailures
<1>3. Aged(r) \in Record
  BY DEF Aged
<1>4. ASSUME r.state = "half_open" => r.success_count < SuccessThreshold
      PROVE  Succeeded(r) \in Record
  BY <1>4 DEF Succeeded, Closes, InitRecord
<1> QED
  BY <1>1, <1>2, <1>3, <1>4

\* What a step that announces a transition leaves in the gauge and the log.
LEMMA AnnounceTyped ==
  ASSUME NEW s \in BreakerState, TypeOK, Announce(s)
  PROVE  /\ gauge' \in 0..2
         /\ logged' \in {"none", "opened", "half_open", "closed"}
<1>1. gauge' \in 0..2
  BY DEF Announce, StateValue
<1>2. EventOf(s) \in {"opened", "half_open", "closed"}
  BY DEF EventOf, BreakerState
<1>3. logged' \in {"none", "opened", "half_open", "closed"}
  BY <1>2 DEF Announce, RecordEvent
<1> QED
  BY <1>1, <1>3

\* The same for a step that announces nothing.
LEMMA QuietTyped ==
  ASSUME TypeOK, Quiet
  PROVE  /\ gauge' \in 0..2
         /\ logged' \in {"none", "opened", "half_open", "closed"}
  BY DEF Quiet, TypeOK

\* A new breaker satisfies the invariant.
LEMMA InitIInv == Init => IInv
<1> SUFFICES ASSUME Init PROVE IInv
  OBVIOUS
<1> USE BreakerConfig, CallConfig
<1>1. rec \in Record
  BY DEF Init, InitRecord, Record, BreakerState, NoTime
<1>2. TypeOK
  BY <1>1 DEF Init, TypeOK, StateValue, MaxOpen
<1>3. RecordConsistent /\ CountIsStreak /\ Draining /\ Trial /\ ObserversAgree
  BY DEF Init, InitRecord, RecordConsistent, CountIsStreak, Draining, Trial, ObserversAgree
<1> QED
  BY <1>2, <1>3 DEF IInv

\* An open breaker that no longer rejects has no call left in flight.
LEMMA Drained ==
  ASSUME IInv, rec.state = "open", ~Rejects(rec)
  PROVE  inflight = {} /\ rec.opened_for = RecoveryTimeout
<1>1. rec.opened_for = RecoveryTimeout
  BY BreakerConfig DEF IInv, TypeOK, RecordConsistent, Record, Rejects, Elapsed, NoTime
<1>2. ASSUME NEW c \in inflight PROVE FALSE
  <2>1. since_trip <= age[c] /\ RecoveryTimeout <= since_trip
    BY <1>1 DEF IInv, Draining
  <2>2. age[c] \in 0..CallTimeout /\ since_trip \in 0..MaxOpen
    BY DEF IInv, TypeOK
  <2> QED
    BY <2>1, <2>2, BreakerConfig, CallConfig DEF MaxOpen
<1> QED
  BY <1>1, <1>2

----------------------------------------------------------------------------
\* A rejection changes nothing the invariant speaks of.
LEMMA RejectStep ==
  ASSUME IInv, NEW c \in Callers, Reject(c)
  PROVE  IInv'
  BY CallConfig
     DEF IInv, Reject, UpTo, TypeOK, RecordConsistent, CountIsStreak, Draining,
         Trial, ObserversAgree

\* Admitting a call, with or without the move to half_open.
LEMMA AdmitStep ==
  ASSUME IInv, NEW c \in Callers, Admit(c)
  PROVE  IInv'
<1>1. TypeOK'
  <2>1. /\ gauge' \in 0..2
        /\ logged' \in {"none", "opened", "half_open", "closed"}
    BY AnnounceTyped, QuietTyped DEF IInv, Admit, BreakerState
  <2>2. rec' \in Record
    BY RecordOps DEF IInv, TypeOK, Admit
  <2> QED
    BY <2>1, <2>2 DEF IInv, TypeOK, Admit
<1>2. CASE rec.state = "open"
  <2>1. inflight = {} /\ rec.opened_for = RecoveryTimeout
    BY <1>2, Drained DEF Admit
  <2>2. fresh = {}
    BY <1>2 DEF IInv, Draining
  <2>3. rec' = [rec EXCEPT !.state = "half_open", !.success_count = 0]
    BY <1>2 DEF Admit, Allowed
  <2>4. rec'.state = "half_open" /\ rec'.success_count = 0
        /\ rec'.opened_for = RecoveryTimeout
    BY <2>1, <2>3 DEF IInv, TypeOK, Record
  <2>5. Announce("half_open")
    BY <1>2 DEF Admit
  <2>6. ObserversAgree'
    BY <2>4, <2>5 DEF Announce, RecordEvent, ObserversAgree, StateValue, EventOf
  <2>7. RecordConsistent'
    BY <2>4, BreakerConfig DEF RecordConsistent
  <2>8. Trial'
    BY <2>1, <2>2, <2>4 DEF Trial, Admit, IInv, TypeOK
  <2> QED
    BY <1>1, <2>4, <2>6, <2>7, <2>8 DEF IInv, CountIsStreak, Draining
<1>3. CASE rec.state # "open"
  <2>1. rec' = rec /\ Quiet
    BY <1>3 DEF Admit, Allowed
  <2> QED
    BY <1>1, <1>3, <2>1
       DEF IInv, Admit, Quiet, RecordConsistent, CountIsStreak, Draining, Trial, ObserversAgree
<1> QED
  BY <1>2, <1>3

\* A recorded success.
LEMMA SucceedStep ==
  ASSUME IInv, NEW c \in Callers, Succeed(c)
  PROVE  IInv'
<1> USE BreakerConfig, CallConfig
<1>1. rec \in Record /\ RecordConsistent
  BY DEF IInv, TypeOK
<1>2. TypeOK'
  <2>1. /\ gauge' \in 0..2
        /\ logged' \in {"none", "opened", "half_open", "closed"}
    BY AnnounceTyped, QuietTyped DEF IInv, Succeed, BreakerState
  <2>2. rec' \in Record
    BY <1>1, RecordOps DEF Succeed, RecordConsistent
  <2> QED
    BY <2>1, <2>2 DEF IInv, TypeOK, Succeed, UpTo, Leave
<1>3. CASE Closes(rec)
  <2>1. rec' = InitRecord /\ Announce("closed") /\ streak' = 0
    BY <1>3 DEF Succeed, Succeeded
  <2> QED
    BY <1>2, <2>1
       DEF IInv, Announce, RecordEvent, InitRecord, RecordConsistent, CountIsStreak,
           Draining, Trial, ObserversAgree, StateValue, EventOf
<1>4. CASE rec.state = "half_open" /\ ~Closes(rec)
  <2>1. rec' = [rec EXCEPT !.success_count = @ + 1] /\ Quiet
    BY <1>4 DEF Succeed, Succeeded
  <2>2. rec'.state = "half_open" /\ rec'.success_count = rec.success_count + 1
        /\ rec'.opened_for = rec.opened_for
    BY <1>1, <1>4, <2>1 DEF Record
  <2>3. rec.success_count + 1 < SuccessThreshold
    BY <1>1, <1>4 DEF Closes, Record
  <2>4. RecordConsistent' /\ CountIsStreak' /\ Draining'
    BY <1>1, <1>4, <2>2, <2>3 DEF RecordConsistent, CountIsStreak, Draining
  <2>5. Trial'
    <3>1. fresh = inflight /\ rec.success_count <= fresh_wins
      BY <1>4 DEF IInv, Trial
    <3>2. fresh' = inflight'
      BY <3>1 DEF Succeed, Leave
    <3>3. fresh_wins' = UpTo(fresh_wins, SuccessThreshold)
      BY <3>1 DEF Succeed
    <3>4. rec.success_count \in Nat /\ fresh_wins \in Nat
      BY <1>1 DEF IInv, TypeOK, Record
    <3> QED
      BY <2>2, <2>3, <3>1, <3>2, <3>3, <3>4 DEF Trial, UpTo
  <2>6. ObserversAgree'
    BY <1>4, <2>1, <2>2 DEF IInv, ObserversAgree, Quiet
  <2> QED
    BY <1>2, <2>4, <2>5, <2>6 DEF IInv
<1>5. CASE rec.state # "half_open"
  <2>1. rec' = [rec EXCEPT !.failure_count = 0] /\ Quiet
    BY <1>5 DEF Succeed, Succeeded, Closes
  <2>2. rec'.state = rec.state /\ rec'.success_count = rec.success_count
        /\ rec'.opened_for = rec.opened_for /\ rec'.failure_count = 0
    BY <1>1, <2>1 DEF Record
  <2>3. RecordConsistent' /\ CountIsStreak' /\ Trial'
    BY <1>1, <1>5, <2>2 DEF RecordConsistent, CountIsStreak, Trial, Succeed
  <2>4. Draining'
    BY <2>2 DEF IInv, TypeOK, Draining, Succeed, Leave
  <2>5. ObserversAgree'
    BY <2>1, <2>2 DEF IInv, ObserversAgree, Quiet
  <2> QED
    BY <1>2, <2>3, <2>4, <2>5 DEF IInv
<1> QED
  BY <1>3, <1>4, <1>5

\* A recorded failure: it opens the breaker, restarts the countdown of an
\* open one, or only counts.
LEMMA FailStep ==
  ASSUME IInv, NEW c \in Callers, Fail(c)
  PROVE  IInv'
<1> USE BreakerConfig, CallConfig
<1>1. rec \in Record /\ RecordConsistent
  BY DEF IInv, TypeOK
<1>2. TypeOK'
  <2>1. rec' \in Record
    BY <1>1, RecordOps DEF Fail
  <2>2. /\ gauge' \in 0..2
        /\ logged' \in {"none", "opened", "half_open", "closed"}
    BY AnnounceTyped, QuietTyped DEF IInv, Fail, BreakerState
  <2> QED
    BY <2>1, <2>2 DEF IInv, TypeOK, Fail, UpTo, Leave, MaxOpen
<1>3. CASE Opens(rec)
  <2>1. rec'.state = "open" /\ rec'.opened_for = 0 /\ rec'.success_count = 0
    BY <1>1, <1>3 DEF Fail, Failed, RecordConsistent, Record, BreakerState
  <2>2. Announce("open")
    BY <1>3 DEF Fail
  <2>3. RecordConsistent' /\ CountIsStreak' /\ Trial'
    BY <2>1 DEF RecordConsistent, CountIsStreak, Trial, NoTime
  <2>4. ObserversAgree'
    BY <2>1, <2>2 DEF Announce, RecordEvent, ObserversAgree, StateValue, EventOf
  <2>5. CASE rec.state = "open"
    <3>1. since_trip' = since_trip /\ fresh' = fresh \ {c} /\ Leave(c)
      BY <2>5 DEF Fail
    <3>2. since_trip <= age[c] /\ age[c] <= CallTimeout /\ since_trip \in Nat
      BY <2>5 DEF IInv, TypeOK, Draining, Fail, MaxOpen
    <3>3. \A d \in inflight' : since_trip' <= age'[d]
      BY <2>5, <3>1 DEF IInv, TypeOK, Draining, Leave
    <3>4. fresh' = {}
      BY <2>5, <3>1 DEF IInv, Draining
    <3>5. age[c] \in Nat
      BY DEF IInv, TypeOK
    <3>6. since_trip' <= CallTimeout /\ 0 <= since_trip'
      BY <3>1, <3>2, <3>5
    <3> QED
      BY <1>2, <2>1, <2>3, <2>4, <3>3, <3>4, <3>6 DEF IInv, Draining
  <2>6. CASE rec.state # "open"
    <3>1. since_trip' = 0 /\ fresh' = {}
      BY <1>3, <2>6 DEF Fail
    <3>2. \A d \in inflight' : 0 <= age'[d]
      BY <1>2 DEF TypeOK
    <3> QED
      BY <1>2, <2>1, <2>3, <2>4, <3>1, <3>2 DEF IInv, Draining
  <2> QED
    BY <2>5, <2>6
<1>4. CASE ~Opens(rec)
  <2>1. rec'.state = rec.state /\ rec'.failure_count = rec.failure_count + 1
        /\ rec'.success_count = rec.success_count /\ rec'.opened_for = rec.opened_for
    BY <1>1, <1>4 DEF Fail, Failed, Opens, CountedFailures, Record
  <2>2. rec.state # "half_open" /\ rec.failure_count + 1 < FailureThreshold
    BY <1>1, <1>4 DEF Opens, CountedFailures, Record
  <2>3. Quiet /\ since_trip' = since_trip /\ fresh' = fresh \ {c} /\ Leave(c)
        /\ streak' = UpTo(streak, FailureThreshold)
    BY <1>4 DEF Fail
  <2>4. RecordConsistent' /\ Trial'
    BY <1>1, <2>1, <2>2 DEF RecordConsistent, Trial
  <2>5. CountIsStreak'
    BY <1>1, <2>1, <2>2, <2>3 DEF IInv, CountIsStreak, UpTo, Record
  <2>6. Draining'
    BY <2>1, <2>3 DEF IInv, TypeOK, Draining, Leave
  <2>7. ObserversAgree'
    BY <2>1, <2>3 DEF IInv, ObserversAgree, Quiet
  <2> QED
    BY <1>2, <2>4, <2>5, <2>6, <2>7 DEF IInv
<1> QED
  BY <1>3, <1>4

\* A cancelled handler leaves the record as it was.
LEMMA CancelStep ==
  ASSUME IInv, NEW c \in Callers, Cancel(c)
  PROVE  IInv'
<1>1. TypeOK'
  BY CallConfig DEF IInv, TypeOK, Cancel, Leave
<1>2. Draining'
  BY DEF IInv, TypeOK, Draining, Cancel, Leave
<1>3. RecordConsistent' /\ CountIsStreak' /\ ObserversAgree'
  BY DEF IInv, RecordConsistent, CountIsStreak, ObserversAgree, Cancel
<1>4. Trial'
  BY DEF IInv, Trial, Cancel, Leave
<1> QED
  BY <1>1, <1>2, <1>3, <1>4 DEF IInv

\* A tick ages the outage and the calls of its drain alike.
LEMMA TickStep ==
  ASSUME IInv, Tick
  PROVE  IInv'
<1> USE BreakerConfig, CallConfig
<1>1. rec \in Record /\ RecordConsistent /\ since_trip \in 0..MaxOpen
      /\ age \in [Callers -> 0..CallTimeout] /\ inflight \subseteq Callers
  BY DEF IInv, TypeOK
<1>2. /\ rec'.state = rec.state
      /\ rec'.failure_count = rec.failure_count
      /\ rec'.success_count = rec.success_count
      /\ rec'.opened_for = IF rec.opened_for \in 0..(RecoveryTimeout - 1)
                             THEN rec.opened_for + 1 ELSE rec.opened_for
  BY <1>1 DEF Tick, Aged, Record
<1>3. TypeOK'
  <2>1. rec' \in Record
    BY <1>1, RecordOps DEF Tick
  <2>2. age' \in [Callers -> 0..CallTimeout]
    BY <1>1 DEF Tick
  <2>3. since_trip' \in 0..MaxOpen
    BY <1>1 DEF Tick, UpTo, MaxOpen
  <2> QED
    BY <2>1, <2>2, <2>3 DEF IInv, TypeOK, Tick
<1>4. RecordConsistent'
  BY <1>1, <1>2 DEF RecordConsistent, NoTime
<1>5. CountIsStreak' /\ Trial' /\ ObserversAgree'
  BY <1>2 DEF IInv, CountIsStreak, Trial, ObserversAgree, Tick
<1>6. Draining'
  <2>1. SUFFICES ASSUME rec.state = "open" PROVE Draining'
    BY <1>2 DEF Draining
  <2>2. rec.opened_for \in 0..RecoveryTimeout
    BY <1>1, <2>1 DEF RecordConsistent, Record, NoTime
  <2>3. /\ fresh = {}
        /\ \A c \in inflight : since_trip <= age[c]
        /\ rec.opened_for <= since_trip
        /\ rec.opened_for = RecoveryTimeout \/ since_trip <= rec.opened_for + CallTimeout
    BY <2>1 DEF IInv, Draining
  <2>4. fresh' = {} /\ inflight' = inflight
    BY <2>3 DEF Tick
  <2>5. \A c \in inflight' : since_trip' <= age'[c]
    BY <1>1, <2>3, <2>4 DEF Tick, UpTo, MaxOpen
  <2>6. rec'.opened_for <= since_trip'
    BY <1>1, <1>2, <2>2, <2>3 DEF Tick, UpTo, MaxOpen
  <2>7. rec'.opened_for = RecoveryTimeout \/ since_trip' <= rec'.opened_for + CallTimeout
    BY <1>1, <1>2, <2>2, <2>3 DEF Tick, UpTo, MaxOpen
  <2> QED
    BY <2>4, <2>5, <2>6, <2>7 DEF Draining
<1> QED
  BY <1>3, <1>4, <1>5, <1>6 DEF IInv

\* Clearing the failure log touches nothing else.
LEMMA ClearStep ==
  ASSUME IInv, ClearEvents
  PROVE  IInv'
  BY DEF IInv, ClearEvents, TypeOK, RecordConsistent, CountIsStreak, Draining,
         Trial, ObserversAgree

\* Every step of every handler preserves the invariant.
LEMMA NextIInv == IInv /\ [Next]_cbVars => IInv'
<1> SUFFICES ASSUME IInv, [Next]_cbVars PROVE IInv'
  OBVIOUS
<1>1. CASE UNCHANGED cbVars
  BY <1>1
     DEF cbVars, IInv, TypeOK, RecordConsistent, CountIsStreak, Draining, Trial, ObserversAgree
<1>2. ASSUME NEW c \in Callers, Enter(c) \/ Succeed(c) \/ Fail(c) \/ Cancel(c)
      PROVE  IInv'
  BY <1>2, RejectStep, AdmitStep, SucceedStep, FailStep, CancelStep DEF Enter
<1>3. CASE Tick
  BY <1>3, TickStep
<1>4. CASE ClearEvents
  BY <1>4, ClearStep
<1> QED
  BY <1>1, <1>2, <1>3, <1>4 DEF Next

\* The inductive invariant holds in every reachable state.
THEOREM InvariantHolds == Spec => []IInv
  BY InitIInv, NextIInv, PTL DEF Spec

----------------------------------------------------------------------------
\* Every variable of the breaker keeps its type.
THEOREM TypeCorrect == Spec => []TypeOK
<1>1. IInv => TypeOK
  BY DEF IInv
<1> QED
  BY <1>1, InvariantHolds, PTL

\* The record is consistent after outcomes in any order.
THEOREM RecordStaysConsistent == Spec => []RecordConsistent
<1>1. IInv => RecordConsistent
  BY DEF IInv
<1> QED
  BY <1>1, InvariantHolds, PTL

\* failure_threshold failures in a row never leave the breaker closed.
THEOREM StreakAlwaysTrips == Spec => []StreakTrips
<1>1. IInv => StreakTrips
  BY DEF IInv, CountIsStreak, RecordConsistent, StreakTrips
<1> QED
  BY <1>1, InvariantHolds, PTL

\* Late failures delay the trial by CallTimeout at most.
THEOREM CooldownIsBounded == Spec => []CooldownBounded
<1>1. IInv => CooldownBounded
  BY BreakerConfig, CallConfig
     DEF IInv, TypeOK, RecordConsistent, Draining, CooldownBounded,
         SecondsUntilHalfOpen, Record, NoTime, MaxOpen
<1> QED
  BY <1>1, InvariantHolds, PTL

\* The gauge shows the state, and so does the event of the newest transition
\* wherever a reader of the log still finds it: after failed and spoilt
\* writes, and after any number of clears.
THEOREM ObserversAlwaysAgree == Spec => []ObserversAgree
<1>1. IInv => ObserversAgree
  BY DEF IInv
<1> QED
  BY <1>1, InvariantHolds, PTL

\* A closed breaker opens on failure_threshold consecutive failures only.
THEOREM TripsOnlyOnStreak == Spec => TripsOnStreak
<1>1. IInv /\ [Next]_cbVars =>
        [rec.state = "closed" /\ rec'.state = "open" => streak' = FailureThreshold]_cbVars
  <2> SUFFICES ASSUME IInv, Next, rec.state = "closed", rec'.state = "open"
               PROVE  streak' = FailureThreshold
    BY DEF cbVars
  <2>1. rec \in Record /\ streak = rec.failure_count /\ rec.failure_count < FailureThreshold
    BY DEF IInv, TypeOK, CountIsStreak, RecordConsistent
  <2>2. PICK c \in Callers : Fail(c)
    BY <2>1
       DEF Next, Enter, Reject, Admit, Allowed, Succeed, Succeeded, Closes, Cancel,
           Tick, Aged, ClearEvents, Record
  <2>3. CountedFailures(rec) >= FailureThreshold
    BY <2>1, <2>2 DEF Fail, Failed, Opens
  <2> QED
    BY <2>1, <2>2, <2>3, BreakerConfig DEF Fail, CountedFailures, UpTo, Record
<1> QED
  BY <1>1, InvariantHolds, PTL DEF Spec, TripsOnStreak

\* A trial is won by calls admitted after the breaker opened.
THEOREM ClosesOnlyOnTrials == Spec => ClosesOnTrials
<1>1. IInv /\ [Next]_cbVars =>
        [rec.state = "half_open" /\ rec'.state = "closed" =>
           fresh_wins' >= SuccessThreshold]_cbVars
  <2> SUFFICES ASSUME IInv, Next, rec.state = "half_open", rec'.state = "closed"
               PROVE  fresh_wins' >= SuccessThreshold
    BY DEF cbVars
  <2>1. rec \in Record /\ fresh = inflight /\ rec.success_count <= fresh_wins
        /\ fresh_wins \in 0..SuccessThreshold
    BY DEF IInv, TypeOK, Trial
  <2>2. PICK c \in Callers : Succeed(c)
    BY <2>1
       DEF Next, Enter, Reject, Admit, Allowed, Fail, Failed, Opens, Cancel, Tick, Aged,
           ClearEvents, Record
  <2>3. rec.success_count + 1 >= SuccessThreshold
    BY <2>1, <2>2 DEF Succeed, Succeeded, Closes, Record
  <2>4. fresh_wins' = UpTo(fresh_wins, SuccessThreshold)
    BY <2>1, <2>2 DEF Succeed
  <2> QED
    BY <2>1, <2>3, <2>4, BreakerConfig DEF UpTo, Record
<1> QED
  BY <1>1, InvariantHolds, PTL DEF Spec, ClosesOnTrials

\* No call gets through during the recovery timeout.
THEOREM FailsFast == Spec => FailFast
<1>1. IInv /\ [Next]_cbVars =>
        [rec.state = "open" /\ since_trip < RecoveryTimeout =>
           inflight' \subseteq inflight]_cbVars
  <2> SUFFICES ASSUME IInv, Next, rec.state = "open", since_trip < RecoveryTimeout
               PROVE  inflight' \subseteq inflight
    BY DEF cbVars
  <2>1. rec \in Record /\ rec.opened_for <= since_trip /\ rec.opened_for # NoTime
        /\ since_trip \in 0..MaxOpen
    BY DEF IInv, TypeOK, Draining, RecordConsistent
  <2>2. Rejects(rec)
    BY <2>1, BreakerConfig, CallConfig DEF Rejects, Elapsed, Record, NoTime, MaxOpen
  <2> QED
    BY <2>2 DEF Next, Enter, Reject, Admit, Succeed, Fail, Cancel, Leave, Tick, ClearEvents
<1> QED
  BY <1>1, InvariantHolds, PTL DEF Spec, FailFast

----------------------------------------------------------------------------
\* The initial state is one of the contract's.
LEMMA RefineInit == Init => Contract!Init
  BY DEF Init, InitRecord, Contract!Init

\* Every step is a step of the contract or leaves its variables alone.
LEMMA RefineNext ==
  ASSUME IInv, [Next]_cbVars
  PROVE  [Contract!Next]_(Contract!contractVars)
<1> USE BreakerConfig, CallConfig
<1>0. rec \in Record /\ RecordConsistent /\ NoTime = -1
  BY DEF IInv, TypeOK, NoTime
<1>1. CASE UNCHANGED cbVars
  BY <1>1 DEF cbVars, Contract!contractVars
<1>2. ASSUME NEW c \in Callers, Reject(c) PROVE UNCHANGED Contract!contractVars
  BY <1>2 DEF Reject, Contract!contractVars
<1>3. ASSUME NEW c \in Callers, Admit(c) PROVE Contract!LetThrough(c) \/ Contract!StartTrial(c)
  <2>1. CASE rec.state = "open"
    <3>1. inflight = {} /\ rec.opened_for = RecoveryTimeout
      BY <1>3, <2>1, Drained DEF Admit
    <3>2. rec'.state = "half_open" /\ rec'.success_count = 0
      BY <1>0, <1>3, <2>1 DEF Admit, Allowed, Record
    <3>3. inflight' = {c}
      BY <1>3, <3>1 DEF Admit
    <3> QED
      BY <2>1, <3>1, <3>2, <3>3 DEF Contract!StartTrial
  <2>2. CASE rec.state # "open"
    <3>1. rec' = rec /\ rec.state \in {"closed", "half_open"}
      BY <1>0, <1>3, <2>2 DEF Admit, Allowed, Record, BreakerState
    <3> QED
      BY <1>3, <3>1 DEF Admit, Contract!LetThrough
  <2> QED
    BY <2>1, <2>2
<1>4. ASSUME NEW c \in Callers, Succeed(c) PROVE Contract!WinTrial(c) \/ Contract!ComeBack(c)
  <2>1. CASE rec.state = "half_open"
    <3>1. rec'.state = (IF rec.success_count + 1 < SuccessThreshold THEN "half_open" ELSE "closed")
          /\ rec'.success_count =
               (IF rec.success_count + 1 < SuccessThreshold THEN rec.success_count + 1 ELSE 0)
      BY <1>0, <1>4, <2>1 DEF Succeed, Succeeded, Closes, InitRecord, Record
    <3> QED
      BY <1>4, <2>1, <3>1 DEF Succeed, Leave, Contract!WinTrial
  <2>2. CASE rec.state # "half_open"
    <3>1. rec'.state = rec.state /\ rec'.success_count = rec.success_count
          /\ rec'.opened_for = rec.opened_for
      BY <1>0, <1>4, <2>2 DEF Succeed, Succeeded, Closes, Record
    <3> QED
      BY <1>4, <3>1 DEF Succeed, Leave, Contract!ComeBack
  <2> QED
    BY <2>1, <2>2
<1>5. ASSUME NEW c \in Callers, Fail(c) PROVE Contract!Trip(c) \/ Contract!ComeBack(c)
  <2>1. c \in inflight /\ inflight' = inflight \ {c}
    BY <1>5 DEF Fail, Leave
  <2>2. CASE Opens(rec)
    <3>1. rec'.state = "open" /\ rec'.opened_for = 0 /\ rec'.success_count = 0
      BY <1>0, <1>5, <2>2 DEF Fail, Failed, RecordConsistent, Record, BreakerState
    <3>2. 0 # RecoveryTimeout
      OBVIOUS
    <3>3. CASE rec.state = "open"
      <4>1. Rejects(rec)
        BY <2>1, <3>3, Drained
      <4>2. rec.opened_for # RecoveryTimeout /\ rec.success_count = 0
        BY <1>0, <3>3, <4>1 DEF Rejects, Elapsed, RecordConsistent, Record
      <4> QED
        BY <2>1, <3>1, <3>2, <3>3, <4>2 DEF Contract!ComeBack
    <3>4. CASE rec.state # "open"
      <4>1. rec.state \in {"closed", "half_open"}
        BY <1>0, <3>4 DEF Record, BreakerState
      <4> QED
        BY <2>1, <3>1, <3>2, <3>4, <4>1 DEF Contract!Trip
    <3> QED
      BY <3>3, <3>4
  <2>3. CASE ~Opens(rec)
    <3>1. rec'.state = rec.state /\ rec'.success_count = rec.success_count
          /\ rec'.opened_for = rec.opened_for
      BY <1>0, <1>5, <2>3 DEF Fail, Failed, Opens, Record
    <3> QED
      BY <2>1, <3>1 DEF Contract!ComeBack
  <2> QED
    BY <2>2, <2>3
<1>6. ASSUME NEW c \in Callers, Cancel(c) PROVE Contract!ComeBack(c)
  BY <1>6 DEF Cancel, Leave, Contract!ComeBack
<1>7. ASSUME Tick PROVE Contract!CooledDown \/ UNCHANGED Contract!contractVars
  <2>1. rec'.state = rec.state /\ rec'.success_count = rec.success_count
    BY <1>0, <1>7 DEF Tick, Aged, Record
  <2>2. CASE rec.state = "open" /\ rec.opened_for # RecoveryTimeout
             /\ rec'.opened_for = RecoveryTimeout
    <3>1. rec'.state = "open" /\ ~Rejects(rec)'
      BY <2>1, <2>2 DEF Rejects, Elapsed
    <3>2. IInv'
      BY <1>7, TickStep
    <3>3. inflight' = {}
      <4>1. \A c \in inflight' : since_trip' <= age'[c] /\ rec'.opened_for <= since_trip'
        BY <3>1, <3>2 DEF IInv, Draining
      <4>2. \A c \in inflight' : age'[c] \in 0..CallTimeout /\ since_trip' \in 0..MaxOpen
        BY <3>2 DEF IInv, TypeOK
      <4> QED
        BY <2>2, <4>1, <4>2 DEF MaxOpen
    <3>4. inflight' = inflight
      BY <1>7 DEF Tick
    <3> QED
      BY <2>1, <2>2, <3>3, <3>4 DEF Contract!CooledDown
  <2>3. CASE ~(rec.state = "open" /\ rec.opened_for # RecoveryTimeout
               /\ rec'.opened_for = RecoveryTimeout)
    <3>1. rec.state = "open" =>
            (rec'.opened_for = RecoveryTimeout <=> rec.opened_for = RecoveryTimeout)
      BY <1>0, <1>7, <2>3 DEF Tick, Aged, Record
    <3> QED
      BY <1>7, <2>1, <3>1 DEF Tick, Contract!contractVars
  <2> QED
    BY <2>2, <2>3
<1>8. ASSUME ClearEvents PROVE UNCHANGED Contract!contractVars
  BY <1>8 DEF ClearEvents, Contract!contractVars
<1> QED
  BY <1>1, <1>2, <1>3, <1>4, <1>5, <1>6, <1>7, <1>8 DEF Next, Enter, Contract!Next

\* The breaker implements BreakerContract: no call from before an outage is
\* left when the trial that may end it begins.
THEOREM ImplementsContract == Spec => ContractRefined
<1>1. IInv /\ [Next]_cbVars => [Contract!Next]_(Contract!contractVars)
  BY RefineNext
<1> QED
  BY <1>1, RefineInit, InvariantHolds, PTL DEF Spec, ContractRefined, Contract!Spec

===========================================================================
