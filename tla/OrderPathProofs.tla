-------------------------- MODULE OrderPathProofs --------------------------
(***************************************************************************)
(* Proofs about OrderPath for any number of orders and clients and for     *)
(* every configuration of the limiters and the breaker in which a call of  *)
(* auth times out before the breaker recovers.                             *)
(*                                                                         *)
(* OrderFacts follows one order through both services: a reply is only     *)
(* there for a call that waits for it, and an order that is at work or     *)
(* answered by anything but a failed call has nothing left in auth.        *)
(* BreakerFacts is what the refinement needs: every call that is out while *)
(* the breaker is open is older than the opening, so all of them have      *)
(* timed out by the time a trial may begin.                                *)
(***************************************************************************)
EXTENDS OrderPath, TLAPS

Stages == {"none", "chaos", "limiter", "handler", "calling", "working"}
AuthStages == {"none", "sent", "chaos", "limiter", "validating"} \cup Replies
Answers == {"none", "200", "401", "502"} \cup Shed

PathTyped ==
  /\ stage \in [Orders -> Stages]
  /\ answer \in [Orders -> Answers]
  /\ auth \in [Orders -> AuthStages]
  /\ reached \in [Orders -> BOOLEAN]
  /\ verdict \in [Orders -> {"none", "valid", "invalid"}]
  /\ age \in [Orders -> 0..CallTimeout]
  /\ rec \in Record

OrderFacts(o) ==
  /\ stage[o] \in {"chaos", "limiter", "handler"} => auth[o] = "none" /\ ~reached[o]
  /\ stage[o] = "working" => auth[o] = "none" /\ verdict[o] = "valid"
  /\ answer[o] # "none" => stage[o] = "none"
  /\ answer[o] \in Shed => auth[o] = "none" /\ ~reached[o]
  /\ answer[o] = "200" => auth[o] = "none" /\ verdict[o] = "valid"
  /\ answer[o] = "401" => auth[o] = "none" /\ verdict[o] = "invalid"
  /\ auth[o] \in Replies => stage[o] = "calling"
  /\ auth[o] \in {"valid", "invalid"} => verdict[o] = auth[o]

BreakerFacts ==
  /\ rec.state = "closed" => rec.success_count = 0
  /\ rec.state = "open" =>
       /\ rec.success_count = 0
       /\ rec.opened_for # NoTime
       /\ \A o \in Calling : rec.opened_for <= age[o]

PathInv == PathTyped /\ (\A o \in Orders : OrderFacts(o)) /\ BreakerFacts

----------------------------------------------------------------------------
\* Nothing has arrived and the breaker is closed.
LEMMA PathInit == Init => PathInv
<1> SUFFICES ASSUME Init PROVE PathInv
  OBVIOUS
<1>1. rec \in Record /\ rec.state = "closed" /\ rec.success_count = 0
  BY BreakerConfig DEF Init, InitRecord, Record, BreakerState, NoTime
<1>2. age \in [Orders -> 0..CallTimeout]
  BY OrderConfig DEF Init
<1>3. PathTyped
  BY <1>1, <1>2 DEF Init, PathTyped, Stages, AuthStages, Answers
<1>4. ASSUME NEW o \in Orders PROVE OrderFacts(o)
  BY <1>4 DEF Init, OrderFacts, Shed, Replies
<1>5. BreakerFacts
  BY <1>1 DEF BreakerFacts
<1> QED
  BY <1>3, <1>4, <1>5 DEF PathInv

----------------------------------------------------------------------------
(***************************************************************************)
(* What the operators on the record do, as the breaker's contract sees it. *)
(***************************************************************************)

\* allow() lets a request through that finds the cooldown over.
LEMMA AllowedIs ==
  ASSUME PathInv, ~Rejects(rec)
  PROVE  /\ Allowed(rec) \in Record
         /\ rec.state # "open" => Allowed(rec) = rec
         /\ rec.state = "open" =>
              /\ rec.opened_for = RecoveryTimeout
              /\ Calling = {}
              /\ Allowed(rec).state = "half_open" /\ Allowed(rec).success_count = 0
<1> USE BreakerConfig, OrderConfig
<1>1. rec \in Record
  BY DEF PathInv, PathTyped
<1>2. Allowed(rec) \in Record /\ (rec.state # "open" => Allowed(rec) = rec)
  <2>1. [rec EXCEPT !.state = "half_open"] \in Record
    BY <1>1 DEF Record, BreakerState
  <2>2. ASSUME NEW r \in Record PROVE [r EXCEPT !.success_count = 0] \in Record
    BY DEF Record
  <2> QED
    BY <1>1, <2>1, <2>2 DEF Allowed
<1>3. ASSUME rec.state = "open"
      PROVE  rec.opened_for = RecoveryTimeout /\ Calling = {}
             /\ Allowed(rec).state = "half_open" /\ Allowed(rec).success_count = 0
  <2>1. rec.opened_for = RecoveryTimeout
    BY <1>1, <1>3 DEF Rejects, Elapsed, Record, PathInv, BreakerFacts
  <2>2. Calling = {}
    <3> SUFFICES ASSUME NEW o \in Calling PROVE FALSE
      OBVIOUS
    <3>1. rec.opened_for <= age[o] /\ age[o] \in 0..CallTimeout
      BY <1>3 DEF PathInv, PathTyped, BreakerFacts, Calling
    <3> QED
      BY <2>1, <3>1
  <2> QED
    BY <1>1, <1>3, <2>1, <2>2 DEF Allowed, Record
<1> QED
  BY <1>2, <1>3

\* record_success
LEMMA SucceededIs ==
  ASSUME rec \in Record
  PROVE  /\ Succeeded(rec) \in Record
         /\ rec.state # "half_open" =>
              /\ Succeeded(rec).state = rec.state
              /\ Succeeded(rec).success_count = rec.success_count
              /\ Succeeded(rec).opened_for = rec.opened_for
         /\ rec.state = "half_open" /\ rec.success_count + 1 < SuccessThreshold =>
              /\ Succeeded(rec).state = "half_open"
              /\ Succeeded(rec).success_count = rec.success_count + 1
         /\ rec.state = "half_open" /\ ~(rec.success_count + 1 < SuccessThreshold) =>
              Succeeded(rec).state = "closed" /\ Succeeded(rec).success_count = 0
  BY BreakerConfig DEF Succeeded, Closes, InitRecord, Record, BreakerState, NoTime

\* record_failure
LEMMA FailedIs ==
  ASSUME rec \in Record
  PROVE  /\ Failed(rec) \in Record
         /\ Opens(rec) =>
              /\ Failed(rec).state = "open" /\ Failed(rec).opened_for = 0
              /\ Failed(rec).success_count =
                   IF rec.state = "half_open" THEN 0 ELSE rec.success_count
         /\ ~Opens(rec) =>
              /\ rec.state # "half_open"
              /\ Failed(rec).state = rec.state
              /\ Failed(rec).success_count = rec.success_count
              /\ Failed(rec).opened_for = rec.opened_for
  BY BreakerConfig DEF Failed, Opens, CountedFailures, Record, BreakerState, NoTime

\* A tick
LEMMA AgedIs ==
  ASSUME rec \in Record
  PROVE  /\ Aged(rec) \in Record
         /\ Aged(rec).state = rec.state
         /\ Aged(rec).success_count = rec.success_count
         /\ Aged(rec).opened_for =
              IF rec.opened_for \in 0..(RecoveryTimeout - 1) THEN rec.opened_for + 1 ELSE rec.opened_for
  BY BreakerConfig DEF Aged, Record, BreakerState, NoTime

----------------------------------------------------------------------------
(***************************************************************************)
(* Steps of the api and of auth.                                           *)
(***************************************************************************)

\* The orders other than o keep their facts.
LEMMA OthersKeep ==
  ASSUME PathInv, NEW o \in Orders, NEW q \in Orders, q # o,
         stage'[q] = stage[q], answer'[q] = answer[q], auth'[q] = auth[q],
         reached'[q] = reached[q], verdict'[q] = verdict[q]
  PROVE  OrderFacts(q)'
  BY DEF PathInv, OrderFacts

\* A step that leaves the breaker and the set of calls alone.
LEMMA BreakerAlone ==
  ASSUME PathInv, rec' = rec, age' = age, Calling' = Calling
  PROVE  BreakerFacts'
  BY DEF PathInv, BreakerFacts

\* An order arrives; nothing is left of the one before it.
LEMMA ArriveKeeps ==
  ASSUME PathInv, NEW o \in Orders, Arrive(o)
  PROVE  PathInv'
<1>1. PathTyped'
  BY DEF PathInv, PathTyped, Arrive, Stages, Answers
<1>2. ASSUME NEW q \in Orders PROVE OrderFacts(q)'
  <2>1. CASE q # o
    BY <2>1, OthersKeep DEF Arrive, PathInv, PathTyped
  <2>2. CASE q = o
    BY <2>2 DEF Arrive, PathInv, PathTyped, OrderFacts, Shed, Replies
  <2> QED
    BY <2>1, <2>2
<1>3. Calling' = Calling
  BY DEF Arrive, PathInv, PathTyped, Calling
<1> QED
  BY <1>1, <1>2, <1>3, BreakerAlone DEF PathInv, Arrive

\* An order goes on or is answered by a layer before the call.
LEMMA BeforeCallKeeps ==
  ASSUME PathInv, NEW o \in Orders, stage[o] \in {"chaos", "limiter", "handler"},
         \/ \E next \in {"limiter", "handler"} : GoOn(o, next)
         \/ \E status \in Shed : Respond(o, status),
         UNCHANGED <<rec, callVars>>
  PROVE  PathInv'
<1> USE DEF callVars
<1>1. PathTyped'
  BY DEF PathInv, PathTyped, GoOn, Respond, Stages, Answers
<1>2. ASSUME NEW q \in Orders PROVE OrderFacts(q)'
  <2>1. CASE q # o
    BY <2>1, OthersKeep DEF GoOn, Respond, PathInv, PathTyped
  <2>2. CASE q = o
    BY <2>2 DEF GoOn, Respond, PathInv, PathTyped, OrderFacts, Shed, Replies
  <2> QED
    BY <2>1, <2>2
<1>3. Calling' = Calling
  BY DEF GoOn, Respond, PathInv, PathTyped, Calling
<1> QED
  BY <1>1, <1>2, <1>3, BreakerAlone DEF PathInv

\* allow() returned True and the call is sent.
LEMMA CallKeeps ==
  ASSUME PathInv, NEW o \in Orders, stage[o] = "handler",
         ~Rejects(rec), rec' = Allowed(rec), GoOn(o, "calling"), Send(o)
  PROVE  PathInv'
<1>1. PathTyped'
  BY AllowedIs DEF PathInv, PathTyped, GoOn, Send, Stages, AuthStages
<1>2. ASSUME NEW q \in Orders PROVE OrderFacts(q)'
  <2>1. CASE q # o
    BY <2>1, OthersKeep DEF GoOn, Send, PathInv, PathTyped
  <2>2. CASE q = o
    BY <2>2 DEF GoOn, Send, PathInv, PathTyped, OrderFacts, Shed, Replies
  <2> QED
    BY <2>1, <2>2
<1>3. BreakerFacts'
  <2>1. rec'.state # "open"
    BY AllowedIs
  <2>2. rec'.state = "closed" => rec' = rec
    BY AllowedIs
  <2> QED
    BY <2>1, <2>2 DEF PathInv, BreakerFacts
<1> QED
  BY <1>1, <1>2, <1>3 DEF PathInv

\* Fewer calls are out, after a success or a failure: what is known of the
\* others stays true.
LEMMA OutcomeKeeps ==
  ASSUME PathInv, rec' = Succeeded(rec) \/ rec' = Failed(rec),
         Calling' \subseteq Calling, age' \in [Orders -> 0..CallTimeout],
         \A q \in Calling' : age'[q] = age[q]
  PROVE  rec' \in Record /\ BreakerFacts'
<1>1. rec \in Record /\ rec.state \in BreakerState
  BY DEF PathInv, PathTyped, Record
<1>2. CASE rec' = Succeeded(rec)
  BY <1>1, <1>2, SucceededIs DEF PathInv, BreakerFacts, BreakerState
<1>3. CASE rec' = Failed(rec) /\ Opens(rec)
  <2>1. rec' \in Record /\ rec'.state = "open" /\ rec'.opened_for = 0 /\ rec'.success_count = 0
    BY <1>1, <1>3, FailedIs DEF PathInv, BreakerFacts, BreakerState
  <2>2. \A q \in Calling' : 0 <= age'[q]
    BY DEF Calling
  <2> QED
    BY <2>1, <2>2 DEF BreakerFacts, NoTime
<1>4. CASE rec' = Failed(rec) /\ ~Opens(rec)
  BY <1>1, <1>4, FailedIs DEF PathInv, BreakerFacts
<1> QED
  BY <1>2, <1>3, <1>4

\* auth's reply arrives.
LEMMA ReceiveKeeps ==
  ASSUME PathInv, NEW o \in Orders, Receive(o)
  PROVE  PathInv'
<1>1. /\ stage'[o] \in {"none", "working"} /\ age' \in [Orders -> 0..CallTimeout]
      /\ \A q \in Orders : q # o => stage'[q] = stage[q] /\ age'[q] = age[q]
  BY OrderConfig DEF PathInv, PathTyped, Receive, HangUp, GoOn, Respond
<1>2. Calling' \subseteq Calling /\ \A q \in Calling' : age'[q] = age[q]
  BY <1>1 DEF Calling
<1>3. rec' \in Record /\ BreakerFacts'
  BY <1>1, <1>2, OutcomeKeeps DEF Receive
<1>4. PathTyped'
  BY <1>1, <1>3 DEF PathInv, PathTyped, Receive, HangUp, GoOn, Respond, Stages, AuthStages, Answers
<1>5. ASSUME NEW q \in Orders PROVE OrderFacts(q)'
  <2>1. CASE q # o
    BY <2>1, OthersKeep DEF Receive, HangUp, GoOn, Respond, PathInv, PathTyped
  <2>2. CASE q = o
    BY <2>2 DEF Receive, HangUp, GoOn, Respond, PathInv, PathTyped, OrderFacts, Shed, Replies
  <2> QED
    BY <2>1, <2>2
<1> QED
  BY <1>3, <1>4, <1>5 DEF PathInv

\* The client gives up, and auth may go on.
LEMMA GiveUpKeeps ==
  ASSUME PathInv, NEW o \in Orders, GiveUp(o)
  PROVE  PathInv'
<1>1. /\ stage'[o] = "none" /\ age' \in [Orders -> 0..CallTimeout]
      /\ \A q \in Orders : q # o => stage'[q] = stage[q] /\ age'[q] = age[q]
  BY OrderConfig DEF PathInv, PathTyped, GiveUp, HangUp, Respond
<1>2. Calling' \subseteq Calling /\ \A q \in Calling' : age'[q] = age[q]
  BY <1>1 DEF Calling
<1>3. rec' \in Record /\ BreakerFacts'
  BY <1>1, <1>2, OutcomeKeeps DEF GiveUp
<1>4. PathTyped'
  BY <1>1, <1>3 DEF PathInv, PathTyped, GiveUp, HangUp, Respond, Stages, AuthStages, Answers
<1>5. ASSUME NEW q \in Orders PROVE OrderFacts(q)'
  <2>1. CASE q # o
    BY <2>1, OthersKeep DEF GiveUp, HangUp, Respond, PathInv, PathTyped
  <2>2. CASE q = o
    BY <2>2 DEF GiveUp, HangUp, Respond, PathInv, PathTyped, OrderFacts, Shed, Replies, AuthStages
  <2> QED
    BY <2>1, <2>2
<1> QED
  BY <1>3, <1>4, <1>5 DEF PathInv

\* The order is created.
LEMMA CreateKeeps ==
  ASSUME PathInv, NEW o \in Orders, Create(o)
  PROVE  PathInv'
<1> USE DEF callVars
<1>1. PathTyped'
  BY DEF PathInv, PathTyped, Create, Respond, Stages, Answers
<1>2. ASSUME NEW q \in Orders PROVE OrderFacts(q)'
  <2>1. CASE q # o
    BY <2>1, OthersKeep DEF Create, Respond, PathInv, PathTyped
  <2>2. CASE q = o
    BY <2>2 DEF Create, Respond, PathInv, PathTyped, OrderFacts, Shed, Replies
  <2> QED
    BY <2>1, <2>2
<1>3. Calling' = Calling
  BY DEF Create, Respond, PathInv, PathTyped, Calling
<1> QED
  BY <1>1, <1>2, <1>3, BreakerAlone DEF PathInv, Create

\* Whatever auth does, the api's side of the order stays as it is.
LEMMA AuthKeeps ==
  ASSUME PathInv, NEW o \in Orders, AuthStep(o)
  PROVE  PathInv'
<1> USE DEF orderVars
<1>1. stage' = stage /\ answer' = answer /\ rec' = rec /\ age' = age
  BY DEF AuthStep, AuthArrive, AuthApplyChaos, AuthLimit, AuthValidate
<1>2. auth[o] \in {"sent", "chaos", "limiter", "validating"}
  BY DEF AuthStep, AuthArrive, AuthApplyChaos, AuthLimit, AuthValidate
<1>3. PathTyped'
  <2>1. auth' \in [Orders -> AuthStages]
    BY DEF AuthStep, AuthArrive, AuthApplyChaos, AuthLimit, AuthValidate, AuthGoesOn, Reply,
           PathInv, PathTyped, AuthStages, Replies
  <2>2. reached' \in [Orders -> BOOLEAN] /\ verdict' \in [Orders -> {"none", "valid", "invalid"}]
    BY DEF AuthStep, AuthArrive, AuthApplyChaos, AuthLimit, AuthValidate, PathInv, PathTyped
  <2> QED
    BY <1>1, <2>1, <2>2 DEF PathInv, PathTyped
<1>4. ASSUME NEW q \in Orders PROVE OrderFacts(q)'
  <2>1. CASE q # o
    BY <1>1, <2>1, OthersKeep
    DEF AuthStep, AuthArrive, AuthApplyChaos, AuthLimit, AuthValidate, AuthGoesOn, Reply,
        PathInv, PathTyped
  <2>2. CASE q = o
    <3>1. /\ stage[o] \notin {"chaos", "limiter", "handler", "working"}
          /\ answer[o] \notin Shed \cup {"200", "401"}
      BY <1>2 DEF PathInv, OrderFacts
    <3>2. /\ auth'[o] \in Replies => stage[o] = "calling"
          /\ auth'[o] \in {"valid", "invalid"} => verdict'[o] = auth'[o]
      BY DEF AuthStep, AuthArrive, AuthApplyChaos, AuthLimit, AuthValidate, AuthGoesOn, Reply,
             PathInv, PathTyped, Replies
    <3> QED
      BY <1>1, <2>2, <3>1, <3>2 DEF PathInv, OrderFacts
  <2> QED
    BY <2>1, <2>2
<1>5. Calling' = Calling
  BY <1>1 DEF Calling
<1> QED
  BY <1>1, <1>3, <1>4, <1>5, BreakerAlone DEF PathInv

\* Time passes: calls age no slower than the breaker cools down.
LEMMA TickKeeps ==
  ASSUME PathInv, Tick
  PROVE  PathInv'
<1> USE OrderConfig DEF orderVars
<1>1. stage' = stage /\ answer' = answer /\ auth' = auth /\ reached' = reached
      /\ verdict' = verdict /\ rec' = Aged(rec) /\ Calling' = Calling
  BY DEF Tick, Calling
<1>2. rec \in Record
  BY DEF PathInv, PathTyped
<1>3. age' \in [Orders -> 0..CallTimeout] /\ \A o \in Calling : age'[o] = age[o] + 1
  BY DEF PathInv, PathTyped, Tick, Calling
<1>4. PathTyped'
  BY <1>1, <1>2, <1>3, AgedIs DEF PathInv, PathTyped
<1>5. ASSUME NEW q \in Orders PROVE OrderFacts(q)'
  BY <1>1 DEF PathInv, OrderFacts
<1>6. BreakerFacts'
  <2>1. /\ rec'.state = rec.state /\ rec'.success_count = rec.success_count
        /\ rec'.opened_for =
             IF rec.opened_for \in 0..(RecoveryTimeout - 1) THEN rec.opened_for + 1 ELSE rec.opened_for
    BY <1>1, <1>2, AgedIs
  <2>2. rec.opened_for \in {NoTime} \cup (0..RecoveryTimeout) /\ NoTime = -1
    BY <1>2 DEF Record, NoTime
  <2>3. \A o \in Calling : age[o] \in Nat
    BY DEF PathInv, PathTyped, Calling
  <2> QED
    BY <1>1, <1>3, <2>1, <2>2, <2>3, BreakerConfig DEF PathInv, BreakerFacts
<1> QED
  BY <1>4, <1>5, <1>6 DEF PathInv

\* Every step preserves the invariant.
LEMMA PathStep ==
  ASSUME PathInv, [Next]_pathVars
  PROVE  PathInv'
<1>1. ASSUME NEW o \in Orders, ApplyChaos(o) PROVE PathInv'
  BY <1>1, BeforeCallKeeps DEF ApplyChaos, Shed
<1>2. ASSUME NEW o \in Orders, NEW c \in Clients, Limit(o, c) PROVE PathInv'
  BY <1>2, BeforeCallKeeps DEF Limit, Shed
<1>3. ASSUME NEW o \in Orders, Handle(o) PROVE PathInv'
  BY <1>3, BeforeCallKeeps, CallKeeps DEF Handle, Shed
<1>4. CASE UNCHANGED pathVars
  BY <1>4 DEF pathVars, orderVars, callVars, PathInv, PathTyped, OrderFacts, BreakerFacts, Calling
<1> QED
  BY <1>1, <1>2, <1>3, <1>4, ArriveKeeps, ReceiveKeeps, GiveUpKeeps, CreateKeeps, AuthKeeps, TickKeeps
  DEF Next, ApiStep

\* The inductive invariant of the order path, for any number of orders.
THEOREM PathInvariant == Spec => []PathInv
  BY PathInit, PathStep, PTL DEF Spec

\* An order the api sheds never reaches auth, not even later.
THEOREM ShedAlwaysStaysOut == Spec => []ShedStaysOut
<1>1. PathInv => ShedStaysOut
  BY DEF PathInv, OrderFacts, ShedStaysOut
<1> QED
  BY <1>1, PathInvariant, PTL

\* An order is created, or refused for its token, only by what auth found about
\* this order: late replies are never taken for the answer to another one.
THEOREM AnswersAlwaysFollowAuth == Spec => []AnswersFollowAuth
<1>1. PathInv => AnswersFollowAuth
  BY DEF PathInv, OrderFacts, AnswersFollowAuth
<1> QED
  BY <1>1, PathInvariant, PTL

----------------------------------------------------------------------------
(***************************************************************************)
(* The breaker behind its middlewares implements BreakerContract.          *)
(***************************************************************************)

\* A call ends: a step of the contract, by what it meant for the record.
LEMMA RefineOutcome ==
  ASSUME PathInv, NEW o \in Calling, Calling' = Calling \ {o},
         rec' = Succeeded(rec) \/ rec' = Failed(rec)
  PROVE  Contract!WinTrial(o) \/ Contract!Trip(o) \/ Contract!ComeBack(o)
<1> USE BreakerConfig, OrderConfig
<1>0. rec \in Record /\ rec.state \in BreakerState /\ rec.success_count \in Int
  BY DEF PathInv, PathTyped, Record
<1>1. rec.state = "open" => rec.opened_for # RecoveryTimeout
  BY <1>0 DEF PathInv, PathTyped, BreakerFacts, Record, Calling
<1>2. CASE rec' = Succeeded(rec) /\ rec.state = "half_open"
  BY <1>0, <1>2, SucceededIs DEF Contract!WinTrial
<1>3. CASE rec' = Succeeded(rec) /\ rec.state # "half_open"
  BY <1>0, <1>3, SucceededIs DEF Contract!ComeBack
<1>4. CASE rec' = Failed(rec) /\ Opens(rec)
  <2>1. rec'.state = "open" /\ rec'.opened_for = 0 /\ rec'.success_count = 0
    BY <1>0, <1>4, FailedIs DEF PathInv, BreakerFacts, BreakerState
  <2>2. 0 # RecoveryTimeout
    OBVIOUS
  <2>3. CASE rec.state = "open"
    <3>1. rec.opened_for # RecoveryTimeout /\ rec.success_count = 0
      BY <1>1, <2>3 DEF PathInv, BreakerFacts
    <3> QED
      BY <2>1, <2>2, <2>3, <3>1 DEF Contract!ComeBack
  <2>4. CASE rec.state # "open"
    <3>1. rec.state \in {"closed", "half_open"}
      BY <1>0, <2>4 DEF BreakerState
    <3> QED
      BY <2>1, <2>2, <2>4, <3>1 DEF Contract!Trip
  <2> QED
    BY <2>3, <2>4
<1>5. CASE rec' = Failed(rec) /\ ~Opens(rec)
  BY <1>0, <1>5, FailedIs DEF Contract!ComeBack
<1> QED
  BY <1>2, <1>3, <1>4, <1>5

\* A call is sent: it is let through, or starts the trial.
LEMMA RefineCall ==
  ASSUME PathInv, NEW o \in Orders, stage[o] = "handler",
         ~Rejects(rec), rec' = Allowed(rec), GoOn(o, "calling")
  PROVE  Contract!LetThrough(o) \/ Contract!StartTrial(o)
<1>1. o \notin Calling /\ Calling' = Calling \cup {o}
  BY DEF PathInv, PathTyped, GoOn, Calling
<1>2. CASE rec.state = "open"
  BY <1>1, <1>2, AllowedIs DEF Contract!StartTrial
<1>3. CASE rec.state # "open"
  <2>1. rec.state \in {"closed", "half_open"} /\ rec' = rec
    BY <1>3, AllowedIs DEF PathInv, PathTyped, Record, BreakerState
  <2> QED
    BY <1>1, <1>3, <2>1 DEF Contract!LetThrough
<1> QED
  BY <1>2, <1>3

\* Time passes: the cooldown may end, and then no call is out.
LEMMA RefineTick ==
  ASSUME PathInv, Tick
  PROVE  Contract!CooledDown \/ UNCHANGED Contract!contractVars
<1> USE BreakerConfig, OrderConfig
<1>1. rec \in Record /\ rec' = Aged(rec) /\ Calling' = Calling
  BY DEF PathInv, PathTyped, Tick, Calling, orderVars
<1>2. rec'.state = rec.state /\ rec'.success_count = rec.success_count
  BY <1>1, AgedIs
<1>3. CASE rec.state = "open" /\ rec.opened_for # RecoveryTimeout /\ rec'.opened_for = RecoveryTimeout
  <2>1. PathInv'
    BY TickKeeps
  <2>2. \A o \in Calling' : rec'.opened_for <= age'[o] /\ age'[o] \in 0..CallTimeout
    BY <1>2, <1>3, <2>1 DEF PathInv, PathTyped, BreakerFacts, Calling
  <2>3. Calling' = {}
    BY <1>3, <2>2
  <2> QED
    BY <1>1, <1>2, <1>3, <2>3 DEF Contract!CooledDown
<1>4. CASE ~(rec.state = "open" /\ rec.opened_for # RecoveryTimeout /\ rec'.opened_for = RecoveryTimeout)
  <2>1. rec.state = "open" =>
          (rec'.opened_for = RecoveryTimeout <=> rec.opened_for = RecoveryTimeout)
    BY <1>1, <1>4, AgedIs
  <2> QED
    BY <1>1, <1>2, <2>1 DEF Contract!contractVars
<1> QED
  BY <1>3, <1>4

\* Every step is a step of the contract or leaves its variables alone.
LEMMA RefineNext ==
  ASSUME PathInv, [Next]_pathVars
  PROVE  [Contract!Next]_(Contract!contractVars)
<1>1. ASSUME rec' = rec, Calling' = Calling PROVE UNCHANGED Contract!contractVars
  BY <1>1 DEF Contract!contractVars
<1> USE DEF callVars, orderVars
<1>2. ASSUME NEW o \in Orders, Arrive(o) PROVE rec' = rec /\ Calling' = Calling
  BY <1>2 DEF Arrive, PathInv, PathTyped, Calling
<1>3. ASSUME NEW o \in Orders, ApplyChaos(o) PROVE rec' = rec /\ Calling' = Calling
  BY <1>3 DEF ApplyChaos, GoOn, Respond, PathInv, PathTyped, Calling
<1>4. ASSUME NEW o \in Orders, NEW c \in Clients, Limit(o, c) PROVE rec' = rec /\ Calling' = Calling
  BY <1>4 DEF Limit, GoOn, Respond, PathInv, PathTyped, Calling
<1>5. ASSUME NEW o \in Orders, Handle(o)
      PROVE  (rec' = rec /\ Calling' = Calling) \/ Contract!LetThrough(o) \/ Contract!StartTrial(o)
  <2>1. CASE ~Rejects(rec) /\ rec' = Allowed(rec) /\ GoOn(o, "calling")
    BY <1>5, <2>1, RefineCall DEF Handle
  <2>2. CASE (Respond(o, "422") \/ Respond(o, "503")) /\ rec' = rec
    BY <1>5, <2>2 DEF Handle, Respond, PathInv, PathTyped, Calling
  <2> QED
    BY <1>5, <2>1, <2>2 DEF Handle
<1>6. ASSUME NEW o \in Orders, Receive(o) \/ GiveUp(o)
      PROVE  Contract!WinTrial(o) \/ Contract!Trip(o) \/ Contract!ComeBack(o)
  <2>1. o \in Calling /\ Calling' = Calling \ {o}
    BY <1>6 DEF Receive, GiveUp, GoOn, Respond, PathInv, PathTyped, Calling
  <2>2. rec' = Succeeded(rec) \/ rec' = Failed(rec)
    BY <1>6 DEF Receive, GiveUp
  <2> QED
    BY <2>1, <2>2, RefineOutcome
<1>7. ASSUME NEW o \in Orders, Create(o) PROVE rec' = rec /\ Calling' = Calling
  BY <1>7 DEF Create, Respond, PathInv, PathTyped, Calling
<1>8. ASSUME NEW o \in Orders, AuthStep(o) PROVE rec' = rec /\ Calling' = Calling
  BY <1>8 DEF AuthStep, AuthArrive, AuthApplyChaos, AuthLimit, AuthValidate, Calling
<1>9. CASE UNCHANGED pathVars
  BY <1>9 DEF pathVars, Contract!contractVars, Calling
<1> QED
  BY <1>1, <1>2, <1>3, <1>4, <1>5, <1>6, <1>7, <1>8, <1>9, RefineTick
  DEF Next, ApiStep, Contract!Next

\* Behind the middlewares, with replies of auth lost and late, the breaker of
\* the api keeps BreakerContract.
THEOREM OrdersFollowContract == Spec => CallsFollowContract
<1>1. Init => Contract!Init
  BY DEF Init, InitRecord, Calling, Contract!Init
<1>2. PathInv /\ [Next]_pathVars => [Contract!Next]_(Contract!contractVars)
  BY RefineNext
<1> QED
  BY <1>1, <1>2, PathInvariant, PTL DEF Spec, CallsFollowContract, Contract!Spec

===========================================================================
