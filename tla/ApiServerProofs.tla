-------------------------- MODULE ApiServerProofs --------------------------
(***************************************************************************)
(* Proofs about ApiServer for every set of requests and all deadlines that *)
(* add up.                                                                 *)
(*                                                                         *)
(* Neither property is inductive.  For NeverTimesOut the age of a request  *)
(* has to be charged to the stages it has been through (StagesCharged);    *)
(* ExitCodeHonest needs what Run knew when it returned to be still true    *)
(* when main exits: nobody is accepted once the listener is closed, so the *)
(* requests that had drained stay away (RunKnows).                         *)
(***************************************************************************)
EXTENDS ApiServer, TLAPS

\* The limits of the stages before s.
Earlier(s) ==
  CASE s = "body" -> 0
    [] s = "auth" -> ReadTimeout
    [] s = "work" -> ReadTimeout + AuthTimeout
    [] s = "done" -> ReadTimeout + AuthTimeout + WorkTicks

ServerTyped ==
  /\ stage \in [Requests -> Stages]
  /\ spent \in [Requests -> Nat]
  /\ age \in [Requests -> Nat]
  /\ serving \subseteq Requests
  /\ draining \in 0..ShutdownTimeout
  /\ listener \in {"open", "failed", "closed"}
  /\ err_sent \in BOOLEAN
  /\ run \in {"select", "shutdown", "ok", "error"}
  /\ exit \in {"none", "0", "1"}

\* A handler is within the limit of its stage; a request that is served has a
\* handler, and is no older than this stage and the limits of the stages before.
Charged(r) ==
  /\ stage[r] # "none" => spent[r] <= Limit(stage[r])
  /\ r \notin serving => age[r] = 0 /\ stage[r] # "done"
  /\ r \in serving => stage[r] # "none" /\ age[r] <= Earlier(stage[r]) + spent[r]
  /\ stage[r] = "none" => spent[r] = 0

StagesCharged == \A r \in Requests : Charged(r)

\* What the place Run has reached says about the listener and the requests.
RunKnows ==
  /\ err_sent => listener = "failed"
  /\ run \in {"shutdown", "ok"} => listener # "open"
  /\ run = "ok" => serving = {}
  /\ run = "error" => listener = "failed" \/ draining = ShutdownTimeout

\* What main took from Run.
ExitKnows ==
  /\ exit = "0" => cut = {}
  /\ exit = "1" => run = "error"

ServerInv == ServerTyped /\ StagesCharged /\ RunKnows /\ ExitKnows

----------------------------------------------------------------------------
\* The deadlines are numbers of ticks.
LEMMA DeadlinesTyped ==
  /\ ReadTimeout \in Nat /\ AuthTimeout \in Nat /\ WorkTicks \in Nat
  /\ RequestTimeout \in Nat /\ ShutdownTimeout \in Nat
  BY ServerConfig

\* The limits, and where each leads.
LEMMA LimitsAddUp ==
  /\ Limit("body") \in Nat /\ Limit("auth") \in Nat /\ Limit("work") \in Nat
  /\ Limit("done") = 0
  /\ Earlier("body") = 0
  /\ Earlier("auth") = Earlier("body") + Limit("body")
  /\ Earlier("work") = Earlier("auth") + Limit("auth")
  /\ Earlier("done") = Earlier("work") + Limit("work")
  /\ Earlier("done") < RequestTimeout
  BY DeadlinesTyped, DeadlinesAddUp DEF Limit, Earlier

\* Nothing has happened yet.
LEMMA ServerInit == Init => ServerInv
<1> SUFFICES ASSUME Init PROVE ServerInv
  OBVIOUS
<1>1. ServerTyped
  <2>1. stage \in [Requests -> Stages] /\ spent \in [Requests -> Nat] /\ age \in [Requests -> Nat]
    BY DEF Init, Stages
  <2>2. draining \in 0..ShutdownTimeout
    BY DeadlinesTyped DEF Init
  <2> QED
    BY <2>1, <2>2 DEF Init, ServerTyped
<1>2. StagesCharged
  BY DEF Init, StagesCharged, Charged
<1>3. RunKnows /\ ExitKnows
  BY DEF Init, RunKnows, ExitKnows
<1> QED
  BY <1>1, <1>2, <1>3 DEF ServerInv

\* A request that is accepted starts with nothing on its account.
LEMMA AcceptKeeps ==
  ASSUME ServerInv, NEW r \in Requests, Accept(r)
  PROVE  ServerInv'
<1> USE LimitsAddUp
<1>1. ServerTyped'
  BY DEF ServerInv, ServerTyped, Accept, Stages, serverVars
<1>2. StagesCharged'
  <2> SUFFICES ASSUME NEW q \in Requests PROVE Charged(q)'
    BY DEF StagesCharged
  <2>1. CASE q # r
    BY <2>1 DEF ServerInv, ServerTyped, StagesCharged, Charged, Accept
  <2>2. CASE q = r
    BY <2>2 DEF ServerInv, ServerTyped, StagesCharged, Charged, Accept
  <2> QED
    BY <2>1, <2>2
<1>3. RunKnows' /\ ExitKnows'
  BY DEF ServerInv, RunKnows, ExitKnows, Accept, serverVars
<1> QED
  BY <1>1, <1>2, <1>3 DEF ServerInv

\* A handler that moves on is charged for the stages it leaves.
LEMMA BecomesKeeps ==
  ASSUME ServerInv, NEW r \in Requests, NEW s \in Stages, Becomes(r, s),
         stage[r] # "none", s # "none",
         Earlier(stage[r]) + Limit(stage[r]) <= Earlier(s)
  PROVE  ServerInv'
<1> USE LimitsAddUp
<1>1. ServerTyped'
  BY DEF ServerInv, ServerTyped, Becomes, serverVars, Stages
<1>2. StagesCharged'
  <2> SUFFICES ASSUME NEW q \in Requests PROVE Charged(q)'
    BY DEF StagesCharged
  <2>1. CASE q # r
    BY <2>1 DEF ServerInv, ServerTyped, StagesCharged, Charged, Becomes
  <2>2. CASE q = r /\ r \notin serving
    <3>1. spent'[q] = 0 /\ age'[q] = 0 /\ q \notin serving'
          /\ stage'[q] = (IF s = "done" THEN "none" ELSE s)
      BY <2>2 DEF ServerInv, ServerTyped, StagesCharged, Charged, Becomes
    <3>2. s \in {"body", "auth", "work", "done"} /\ Limit(s) \in Nat
      BY DEF Stages
    <3> QED
      BY <3>1, <3>2 DEF Charged
  <2>3. CASE q = r /\ r \in serving
    <3>1. /\ stage'[q] = s /\ spent'[q] = 0 /\ age'[q] = age[r] /\ age[r] \in Nat
          /\ q \in serving' /\ stage[r] \in Stages /\ spent[r] \in Nat
      BY <2>3 DEF ServerInv, ServerTyped, Becomes
    <3>2. s \in {"body", "auth", "work", "done"} /\ Limit(s) \in Nat /\ Earlier(s) \in Nat
      BY DEF Stages
    <3>3. stage[r] \in {"body", "auth", "work", "done"}
          /\ Limit(stage[r]) \in Nat /\ Earlier(stage[r]) \in Nat
      BY <3>1 DEF Stages
    <3>4. spent[r] <= Limit(stage[r]) /\ age[r] <= Earlier(stage[r]) + spent[r]
      BY <2>3 DEF ServerInv, StagesCharged, Charged
    <3>5. age[r] <= Earlier(s)
      BY <3>1, <3>2, <3>3, <3>4
    <3> QED
      BY <3>1, <3>2, <3>5 DEF Charged
  <2> QED
    BY <2>1, <2>2, <2>3
<1>3. RunKnows' /\ ExitKnows'
  BY DEF ServerInv, RunKnows, ExitKnows, Becomes, serverVars
<1> QED
  BY <1>1, <1>2, <1>3 DEF ServerInv

\* The client has an answer; the handler may still be at work.
LEMMA AnswerKeeps ==
  ASSUME ServerInv, NEW r \in Requests, Answer(r)
  PROVE  ServerInv'
<1> USE LimitsAddUp DEF Answer, TimeoutHandlerReturns
<1>1. ServerTyped'
  BY DEF ServerInv, ServerTyped, Stages, serverVars
<1>2. StagesCharged'
  <2> SUFFICES ASSUME NEW q \in Requests PROVE Charged(q)'
    BY DEF StagesCharged
  <2>1. CASE q # r
    BY <2>1 DEF ServerInv, ServerTyped, StagesCharged, Charged
  <2>2. CASE q = r
    <3>1. /\ q \notin serving' /\ age'[q] = 0 /\ spent'[q] = spent[r] /\ spent[r] \in Nat
          /\ stage'[q] = (IF stage[r] = "done" THEN "none" ELSE stage[r])
      BY <2>2 DEF ServerInv, ServerTyped
    <3>2. stage[r] # "none" /\ spent[r] <= Limit(stage[r])
      BY DEF ServerInv, StagesCharged, Charged
    <3> QED
      BY <3>1, <3>2 DEF Charged
  <2> QED
    BY <2>1, <2>2
<1>3. RunKnows' /\ ExitKnows'
  BY DEF ServerInv, RunKnows, ExitKnows, serverVars
<1> QED
  BY <1>1, <1>2, <1>3 DEF ServerInv

\* Nobody's stage has run out when time passes.
LEMMA TickKeeps ==
  ASSUME ServerInv, Tick
  PROVE  ServerInv'
<1> USE LimitsAddUp, DeadlinesTyped
<1>1. ServerTyped'
  BY DEF ServerInv, ServerTyped, Tick
<1>2. StagesCharged'
  <2> SUFFICES ASSUME NEW q \in Requests PROVE Charged(q)'
    BY DEF StagesCharged
  <2>0. Charged(q) /\ stage' = stage /\ serving' = serving
        /\ stage[q] \in Stages /\ spent[q] \in Nat /\ age[q] \in Nat
    BY DEF ServerInv, ServerTyped, StagesCharged, Tick
  <2>1. age'[q] = IF q \in serving THEN age[q] + 1 ELSE 0
    BY DEF Tick
  <2>2. CASE q \notin Busy
    <3>1. stage[q] = "none" /\ spent'[q] = 0 /\ q \notin serving
      BY <2>0, <2>2 DEF Tick, Busy, Charged
    <3> QED
      BY <2>0, <2>1, <3>1 DEF Charged
  <2>3. CASE q \in Busy
    <3>1. spent'[q] = spent[q] + 1 /\ spent[q] < Limit(stage[q])
      BY <2>3 DEF Tick
    <3>2. stage[q] \in {"body", "auth", "work", "done"}
      BY <2>0, <2>3 DEF Busy, Stages
    <3>3. Limit(stage[q]) \in Nat /\ Earlier(stage[q]) \in Nat
      BY <3>2
    <3> QED
      BY <2>0, <2>1, <3>1, <3>2, <3>3 DEF Charged
  <2> QED
    BY <2>2, <2>3
<1>3. RunKnows'
  BY DEF ServerInv, ServerTyped, RunKnows, Tick
<1>4. ExitKnows'
  BY DEF ServerInv, ExitKnows, Tick
<1> QED
  BY <1>1, <1>2, <1>3, <1>4 DEF ServerInv

\* Every step preserves the invariant.
LEMMA ServerStep ==
  ASSUME ServerInv, [Next]_apiVars
  PROVE  ServerInv'
<1> USE DEF ServerInv
<1>1. ASSUME NEW r \in Requests, Accept(r) PROVE ServerInv'
  BY <1>1, AcceptKeeps
<1>m. /\ Earlier("body") + Limit("body") <= Earlier("auth")
      /\ Earlier("auth") + Limit("auth") <= Earlier("work")
      /\ \A s \in {"body", "auth", "work"} : Earlier(s) + Limit(s) <= Earlier("done")
  BY LimitsAddUp
<1>2. ASSUME NEW r \in Requests, DecodeBody(r) PROVE ServerInv'
  BY <1>2, <1>m, BecomesKeeps DEF DecodeBody, Stages
<1>3. ASSUME NEW r \in Requests, Validate(r) PROVE ServerInv'
  BY <1>3, <1>m, BecomesKeeps DEF Validate, Stages
<1>4. ASSUME NEW r \in Requests, Create(r) \/ Panic(r) PROVE ServerInv'
  BY <1>4, <1>m, BecomesKeeps DEF Create, Panic, Stages
<1>c. ASSUME NEW r \in Requests, CancelContext(r) PROVE ServerInv'
  BY <1>c DEF CancelContext, serverVars, ServerTyped, StagesCharged, Charged, RunKnows, ExitKnows
<1>a. ASSUME NEW r \in Requests, Answer(r) PROVE ServerInv'
  BY <1>a, AnswerKeeps
<1>5. CASE Signal
  BY <1>5 DEF Signal, ServerTyped, StagesCharged, Charged, RunKnows, ExitKnows, requestVars
<1>6. CASE ListenFails
  BY <1>6 DEF ListenFails, ServerTyped, StagesCharged, Charged, RunKnows, ExitKnows, requestVars
<1>7. CASE SelectErr /\ exit = "none"
  BY <1>7 DEF SelectErr, ServerTyped, StagesCharged, Charged, RunKnows, ExitKnows, requestVars
<1>8. CASE SelectDone /\ exit = "none"
  BY <1>8 DEF SelectDone, ServerTyped, StagesCharged, Charged, RunKnows, ExitKnows, requestVars
<1>9. CASE ShutdownReturns /\ exit = "none"
  BY <1>9 DEF ShutdownReturns, ServerTyped, StagesCharged, Charged, RunKnows, ExitKnows, requestVars
<1>10. CASE Exit
  BY <1>10 DEF Exit, ServerTyped, StagesCharged, Charged, RunKnows, ExitKnows, requestVars
<1>11. CASE Tick
  BY <1>11, TickKeeps
<1>12. CASE UNCHANGED apiVars
  BY <1>12 DEF apiVars, requestVars, serverVars, ServerTyped, StagesCharged,
              Charged, RunKnows, ExitKnows
<1> QED
  BY <1>1, <1>2, <1>3, <1>4, <1>c, <1>a, <1>5, <1>6, <1>7, <1>8, <1>9, <1>10, <1>11, <1>12
  DEF Next, Handler, Main

\* The inductive invariant of the api server, for any number of requests.
THEOREM ServerInvariant == Spec => []ServerInv
  BY ServerInit, ServerStep, PTL DEF Spec

\* The router's deadline never passes: those of the server, the client and the
\* timer end every request before it, for any deadlines that add up and
\* whatever contexts are cancelled.
THEOREM HandlersAnswerInTime == Spec => []NeverTimesOut
<1>1. ServerInv => NeverTimesOut
  <2> SUFFICES ASSUME ServerInv, NEW r \in serving PROVE age[r] < RequestTimeout
    BY DEF NeverTimesOut
  <2>0. r \in Requests
    BY DEF ServerInv, ServerTyped
  <2>1. stage[r] \in Stages /\ spent[r] \in Nat /\ age[r] \in Nat
    BY <2>0 DEF ServerInv, ServerTyped
  <2>2. stage[r] # "none" /\ spent[r] <= Limit(stage[r]) /\ age[r] <= Earlier(stage[r]) + spent[r]
    BY <2>0 DEF ServerInv, StagesCharged, Charged
  <2>3. stage[r] \in {"body", "auth", "work", "done"}
    BY <2>1, <2>2 DEF Stages
  <2>4. Earlier(stage[r]) + Limit(stage[r]) <= Earlier("done")
    BY <2>3, LimitsAddUp
  <2> QED
    BY <2>1, <2>2, <2>3, <2>4, LimitsAddUp, DeadlinesTyped
<1> QED
  BY <1>1, ServerInvariant, PTL

\* An exit code of 0 means that no request was cut off, 1 that the listener
\* failed or the requests outlasted the shutdown, in every order of signals,
\* listener failures and requests.
THEOREM ExitCodeAlwaysHonest == Spec => []ExitCodeHonest
<1>1. ServerInv => ExitCodeHonest
  BY DEF ServerInv, RunKnows, ExitKnows, ExitCodeHonest
<1> QED
  BY <1>1, ServerInvariant, PTL

===========================================================================
