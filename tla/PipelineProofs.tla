--------------------------- MODULE PipelineProofs ---------------------------
(***************************************************************************)
(* Proofs about Pipeline, for any number of requests and background tasks, *)
(* any headers and any limiter.                                            *)
(*                                                                         *)
(* The properties of an answer speak of the path, the layer and the status *)
(* it was given by, so the invariant says in AnswerFormed which answers    *)
(* there are.  With it the three invariants of the pipeline are inductive  *)
(* together: that a request in the hands of auth is sent its correlation   *)
(* id rests on its context being its own, and that no answer to the        *)
(* control plane comes from another layer rests on where such a request    *)
(* may wait.  The breaker and the limiter only choose between steps.       *)
(***************************************************************************)
EXTENDS Pipeline, FiniteSetTheorems, TLAPS

Places == {"idle", "delay", "limiter", "handler", "calling", "working"}

Layers == {"chaos", "limiter", "breaker", "handler"}
Statuses == {"200", "401", "404", "422", "429", "500", "502", "503"}

\* What is known of each request and task.
RequestsFormed ==
  /\ at \in [Requests -> Places]
  /\ path \in [Requests -> Paths]
  /\ DOMAIN brought = Requests /\ DOMAIN sent = Requests
  /\ DOMAIN context = Requests \cup Tasks
  /\ DOMAIN owner = Tasks

\* Answers are responses or the server's own, and somebody gives them.
AnswerFormed(answer) ==
  \/ \E p \in Paths, status \in Statuses, by \in Layers :
       answer = Response(p, by, status)
  \/ \E p \in Paths \ {"/metrics"} : answer = Unhandled(p)

PipelineInv ==
  /\ RequestsFormed
  /\ reply = NoReply \/ AnswerFormed(reply)
  /\ MetricsTruthful /\ AnswersTraceable /\ ControlPlaneOpen

\* The requests the gauge counts.
Measuring == {r \in Active : path[r] # "/metrics"}

\* There are finitely many requests to count.
LEMMA MeasuringFinite == IsFiniteSet(Measuring) /\ Cardinality(Measuring) \in Nat
<1>1. Measuring \subseteq Requests
  BY DEF Measuring, Active
<1> QED
  BY <1>1, FS_Subset, FS_CardinalityType, PipelineConfig

\* The gauge by the name of the set.
LEMMA Gauge == MetricsTruthful <=> in_progress = Cardinality(Measuring)
  BY DEF MetricsTruthful, Measuring

\* Every answer but the server's own brings what it should.
LEMMA AnswersCarry ==
  ASSUME NEW answer, AnswerFormed(answer)
  PROVE  /\ answer # NoReply
         /\ answer.by # "server" => {"ids", "security"} \subseteq answer.headers
<1>1. CASE \E p \in Paths, status \in Statuses, by \in Layers :
             answer = Response(p, by, status)
  <2>1. PICK p \in Paths, status \in Statuses, by \in Layers :
             answer = Response(p, by, status)
    BY <1>1
  <2>2. answer.by # "nobody" /\ NoReply.by = "nobody"
    BY <2>1 DEF Response, NoReply, Layers
  <2>3. {"ids", "security"} \subseteq answer.headers
    BY <2>1 DEF Response
  <2> QED
    BY <2>2, <2>3
<1>2. CASE \E p \in Paths \ {"/metrics"} : answer = Unhandled(p)
  <2>1. PICK p \in Paths \ {"/metrics"} : answer = Unhandled(p)
    BY <1>2
  <2>2. answer.by = "server" /\ NoReply.by = "nobody"
    BY <2>1 DEF Unhandled, NoReply
  <2> QED
    BY <2>2
<1> QED
  BY <1>1, <1>2 DEF AnswerFormed

----------------------------------------------------------------------------
(***************************************************************************)
(* The ways a request moves.                                               *)
(***************************************************************************)

\* It is handed to the next layer, or goes on in its handler.
LEMMA GoOnKeeps ==
  ASSUME PipelineInv, NEW r \in Requests, at[r] # "idle",
         NEW next \in {"limiter", "handler", "working"}, GoOn(r, next),
         path[r] \in ControlPlane => next # "working"
  PROVE  PipelineInv'
<1>1. /\ at \in [Requests -> Places] /\ RequestsFormed
      /\ at' = [at EXCEPT ![r] = next] /\ reply' = NoReply
      /\ UNCHANGED <<path, brought, context, sent, owner, in_progress>>
  BY DEF PipelineInv, RequestsFormed, GoOn
<1>2. at'[r] = next /\ \A q \in Requests : q # r => at'[q] = at[q]
  BY <1>1
<1>3. RequestsFormed'
  BY <1>1 DEF RequestsFormed, Places
<1>4. Active' = Active /\ Measuring' = Measuring
  BY <1>1, <1>2 DEF Active, Measuring
<1>5. NoReply.by = "nobody"
  BY DEF NoReply
<1>6. MetricsTruthful'
  <2>1. in_progress' = Cardinality(Measuring')
    BY <1>1, <1>4, Gauge DEF PipelineInv
  <2> QED
    BY <1>1, <2>1 DEF MetricsTruthful, Measuring
<1>7. AnswersTraceable'
  BY <1>1, <1>2, <1>4, <1>5 DEF PipelineInv, AnswersTraceable, SentOwnId, Logged
<1>8. ControlPlaneOpen'
  BY <1>1, <1>2, <1>4 DEF PipelineInv, ControlPlaneOpen
<1> QED
  BY <1>1, <1>3, <1>6, <1>7, <1>8 DEF PipelineInv

\* It is answered and over.
LEMMA FinishKeeps ==
  ASSUME PipelineInv, NEW r \in Requests, at[r] # "idle",
         NEW answer, AnswerFormed(answer), answer.path = path[r],
         path[r] \in ControlPlane => answer.by \in {"handler", "server"},
         Finish(r, answer)
  PROVE  PipelineInv'
<1>1. /\ RequestsFormed /\ at \in [Requests -> Places] /\ path \in [Requests -> Paths]
      /\ at' = [at EXCEPT ![r] = "idle"] /\ path' = [path EXCEPT ![r] = "/"]
      /\ context' = [context EXCEPT ![r] = NoIds]
      /\ sent' = [sent EXCEPT ![r] = Absent] /\ brought' = [brought EXCEPT ![r] = NoHeaders]
      /\ in_progress' = in_progress - Measured(path[r])
      /\ reply' = answer /\ owner' = owner
  BY DEF PipelineInv, RequestsFormed, Finish
<1>2. /\ at'[r] = "idle" /\ \A q \in Requests : q # r => at'[q] = at[q]
      /\ \A q \in Requests : q # r => path'[q] = path[q]
  BY <1>1
<1>3. /\ \A q \in Requests : q # r => brought'[q] = brought[q] /\ sent'[q] = sent[q]
      /\ \A x \in Requests \cup Tasks : x # r => context'[x] = context[x]
  BY <1>1 DEF RequestsFormed
<1>4. RequestsFormed'
  BY <1>1 DEF RequestsFormed, Places, Paths, Business
<1>5. Active' = Active \ {r} /\ r \in Active
  BY <1>2 DEF Active
<1>6. /\ answer # NoReply
      /\ answer.by # "server" => {"ids", "security"} \subseteq answer.headers
  BY AnswersCarry
<1>7. MetricsTruthful'
  <2>1. in_progress = Cardinality(Measuring)
    BY Gauge DEF PipelineInv
  <2>2. Measuring' = Measuring \ {r}
    BY <1>2, <1>5 DEF Measuring, Active
  <2>3. in_progress' = Cardinality(Measuring')
    <3>1. CASE path[r] = "/metrics"
      <4>1. Measuring' = Measuring /\ Measured(path[r]) = 0
        BY <2>2, <3>1 DEF Measuring, Measured
      <4> QED
        BY <1>1, <2>1, <4>1, MeasuringFinite
    <3>2. CASE path[r] # "/metrics"
      <4>1. r \in Measuring /\ Measured(path[r]) = 1
        BY <1>5, <3>2 DEF Measuring, Measured
      <4>2. Cardinality(Measuring \ {r}) = Cardinality(Measuring) - 1
        BY <4>1, MeasuringFinite, FS_RemoveElement
      <4> QED
        BY <1>1, <2>1, <2>2, <4>1, <4>2
    <3> QED
      BY <3>1, <3>2
  <2> QED
    BY <1>1, <1>6, <2>3 DEF MetricsTruthful, Measuring
<1>8. AnswersTraceable'
  <2>1. \A t \in Tasks : t # r /\ t \in Requests \cup Tasks
    BY PipelineConfig
  <2>2. \A q \in Active' : q \in Requests /\ q # r /\ q \in Active
    BY <1>5 DEF Active
  <2>3. \A q \in Active' : context'[q] = Ids(q, brought'[q])
    BY <1>3, <2>2 DEF PipelineInv, AnswersTraceable, Logged
  <2>4. \A t \in Tasks : context'[t] = owner'[t]
    BY <1>1, <1>3, <2>1 DEF PipelineInv, AnswersTraceable, Logged
  <2>5. \A q \in Active' : at'[q] = "calling" => SentOwnId(q)'
    BY <1>2, <1>3, <2>2 DEF PipelineInv, AnswersTraceable, SentOwnId
  <2> QED
    BY <1>1, <1>6, <2>3, <2>4, <2>5 DEF AnswersTraceable, Logged
<1>9. ControlPlaneOpen'
  BY <1>1, <1>2, <1>5 DEF PipelineInv, ControlPlaneOpen, Active
<1> QED
  BY <1>1, <1>4, <1>7, <1>8, <1>9 DEF PipelineInv

\* A response made by a layer.
LEMMA RespondKeeps ==
  ASSUME PipelineInv, NEW r \in Requests, at[r] # "idle",
         NEW by \in Layers, NEW status \in Statuses,
         path[r] \in ControlPlane => by = "handler",
         Respond(r, by, status)
  PROVE  PipelineInv'
<1> DEFINE answer == Response(path[r], by, status)
<1>1. path[r] \in Paths
  BY DEF PipelineInv, RequestsFormed
<1>2. AnswerFormed(answer)
  BY <1>1 DEF AnswerFormed
<1>3. answer.path = path[r] /\ answer.by = by
  BY DEF Response
<1>4. Finish(r, answer)
  BY DEF Respond
<1> HIDE DEF answer
<1> QED
  BY <1>2, <1>3, <1>4, FinishKeeps

\* A step that moves no request.
LEMMA NobodyMoves ==
  ASSUME PipelineInv, UNCHANGED <<requestVars, in_progress>>, reply' \in {reply, NoReply}
  PROVE  PipelineInv'
<1> USE DEF requestVars
<1>1. RequestsFormed'
  BY DEF PipelineInv, RequestsFormed
<1>2. NoReply.by = "nobody"
  BY DEF NoReply
<1>3. MetricsTruthful' /\ AnswersTraceable' /\ ControlPlaneOpen'
  <2>1. CASE reply' = reply
    BY <2>1 DEF PipelineInv, MetricsTruthful, AnswersTraceable, SentOwnId,
         ControlPlaneOpen, Active, Logged
  <2>2. CASE reply' = NoReply
    BY <1>2, <2>2 DEF PipelineInv, MetricsTruthful, AnswersTraceable, SentOwnId,
         ControlPlaneOpen, Active, Logged
  <2> QED
    BY <2>1, <2>2
<1>4. reply' = NoReply \/ AnswerFormed(reply)'
  BY DEF PipelineInv, AnswerFormed
<1> QED
  BY <1>1, <1>3, <1>4 DEF PipelineInv

\* A request comes in, to be delayed only off the control plane.
LEMMA EnterKeeps ==
  ASSUME PipelineInv, NEW r \in Requests, at[r] = "idle", NEW p \in Paths, NEW h,
         NEW next \in {"delay", "limiter"}, next = "delay" => p \notin ControlPlane,
         Enter(r, p, h, next)
  PROVE  PipelineInv'
<1>1. /\ RequestsFormed /\ at \in [Requests -> Places] /\ path \in [Requests -> Paths]
      /\ at' = [at EXCEPT ![r] = next] /\ path' = [path EXCEPT ![r] = p]
      /\ context' = [context EXCEPT ![r] = Ids(r, h)]
      /\ brought' = [brought EXCEPT ![r] = h] /\ sent' = sent
      /\ in_progress' = in_progress + Measured(p)
      /\ reply' = NoReply /\ owner' = owner
  BY DEF PipelineInv, RequestsFormed, Enter
<1>2. /\ at'[r] = next /\ \A q \in Requests : q # r => at'[q] = at[q]
      /\ path'[r] = p /\ \A q \in Requests : q # r => path'[q] = path[q]
  BY <1>1
<1>3. /\ brought'[r] = h /\ \A q \in Requests : q # r => brought'[q] = brought[q]
      /\ context'[r] = Ids(r, h)
      /\ \A x \in Requests \cup Tasks : x # r => context'[x] = context[x]
  BY <1>1 DEF RequestsFormed
<1>4. RequestsFormed'
  BY <1>1 DEF RequestsFormed, Places
<1>5. Active' = Active \cup {r} /\ r \notin Active
  BY <1>2 DEF Active
<1>6. NoReply.by = "nobody"
  BY DEF NoReply
<1>7. MetricsTruthful'
  <2>1. in_progress = Cardinality(Measuring)
    BY Gauge DEF PipelineInv
  <2>2. in_progress' = Cardinality(Measuring')
    <3>1. CASE p = "/metrics"
      <4>1. Measuring' = Measuring /\ Measured(p) = 0
        BY <1>2, <1>5, <3>1 DEF Measuring, Measured, Active
      <4> QED
        BY <1>1, <2>1, <4>1, MeasuringFinite
    <3>2. CASE p # "/metrics"
      <4>1. Measuring' = Measuring \cup {r} /\ r \notin Measuring /\ Measured(p) = 1
        BY <1>2, <1>5, <3>2 DEF Measuring, Measured, Active
      <4>2. Cardinality(Measuring \cup {r}) = Cardinality(Measuring) + 1
        BY <4>1, MeasuringFinite, FS_AddElement
      <4> QED
        BY <1>1, <2>1, <4>1, <4>2
    <3> QED
      BY <3>1, <3>2
  <2> QED
    BY <1>1, <2>2 DEF MetricsTruthful, Measuring
<1>8. AnswersTraceable'
  <2>1. \A t \in Tasks : t # r /\ t \in Requests \cup Tasks
    BY PipelineConfig
  <2>2. \A q \in Active' : q \in Requests /\ (q # r => q \in Active)
    BY <1>5 DEF Active
  <2>3. \A q \in Active' : context'[q] = Ids(q, brought'[q])
    BY <1>3, <2>2 DEF PipelineInv, AnswersTraceable, Logged
  <2>4. \A t \in Tasks : context'[t] = owner'[t]
    BY <1>1, <1>3, <2>1 DEF PipelineInv, AnswersTraceable, Logged
  <2>5. \A q \in Active' : at'[q] = "calling" => SentOwnId(q)'
    BY <1>1, <1>2, <1>3, <2>2 DEF PipelineInv, AnswersTraceable, SentOwnId
  <2> QED
    BY <1>1, <1>6, <2>3, <2>4, <2>5 DEF AnswersTraceable, Logged
<1>9. ControlPlaneOpen'
  BY <1>1, <1>2, <1>5 DEF PipelineInv, ControlPlaneOpen, Active
<1> QED
  BY <1>1, <1>4, <1>7, <1>8, <1>9 DEF PipelineInv

\* A request comes in, is delayed or handed on, or failed by chaos at once.
LEMMA ArriveKeeps ==
  ASSUME PipelineInv, NEW r \in Requests, NEW p \in Paths, NEW h, Arrive(r, p, h)
  PROVE  PipelineInv'
<1>1. at[r] = "idle" /\ ChaosExempt = ControlPlane
  BY DEF Arrive, ChaosExempt, ControlPlane
<1>2. CASE Delays(p) /\ Enter(r, p, h, "delay")
  BY <1>1, <1>2, EnterKeeps DEF Delays
<1>3. CASE Enter(r, p, h, "limiter")
  BY <1>1, <1>3, EnterKeeps
<1>4. CASE /\ ~Delays(p) /\ MayInject(p)
           /\ reply' = Response(p, "chaos", "500")
           /\ UNCHANGED <<requestVars, in_progress>>
  <2> USE DEF requestVars
  <2>1. AnswerFormed(reply')
    BY <1>4 DEF AnswerFormed, Layers, Statuses
  <2>2. /\ reply' # NoReply
        /\ reply'.by # "server" => {"ids", "security"} \subseteq reply'.headers
    BY <2>1, AnswersCarry
  <2>3. reply'.path = p /\ p \notin ControlPlane
    BY <1>1, <1>4 DEF Response, MayInject
  <2>4. RequestsFormed'
    BY <1>4 DEF PipelineInv, RequestsFormed
  <2>5. MetricsTruthful' /\ AnswersTraceable' /\ ControlPlaneOpen'
    BY <1>4, <2>2, <2>3 DEF PipelineInv, MetricsTruthful, AnswersTraceable, SentOwnId,
         ControlPlaneOpen, Active, Logged
  <2>6. AnswerFormed(reply)'
    BY <2>1 DEF AnswerFormed
  <2> QED
    BY <2>4, <2>5, <2>6 DEF PipelineInv
<1> QED
  BY <1>2, <1>3, <1>4 DEF Arrive

\* Only business requests were delayed.
LEMMA WakeKeeps ==
  ASSUME PipelineInv, NEW r \in Requests, Wake(r)
  PROVE  PipelineInv'
<1>1. at[r] = "delay" /\ path[r] \notin ControlPlane
  BY DEF Wake, PipelineInv, ControlPlaneOpen, Active
<1>2. CASE GoOn(r, "limiter")
  BY <1>1, <1>2, GoOnKeeps
<1>3. CASE Respond(r, "chaos", "500")
  BY <1>1, <1>3, RespondKeeps DEF Layers, Statuses
<1> QED
  BY <1>2, <1>3 DEF Wake

\* The limiter leaves the control plane alone.
LEMMA LimitKeeps ==
  ASSUME PipelineInv, NEW r \in Requests, Limit(r)
  PROVE  PipelineInv'
<1>1. at[r] = "limiter" /\ ControlPlane \subseteq LimitExempt
  BY DEF Limit, ControlPlane, LimitExempt
<1>2. CASE GoOn(r, "handler")
  BY <1>1, <1>2, GoOnKeeps
<1>3. CASE path[r] \notin LimitExempt /\ Respond(r, "limiter", "429")
  BY <1>1, <1>3, RespondKeeps DEF Layers, Statuses
<1> QED
  BY <1>2, <1>3 DEF Limit

----------------------------------------------------------------------------
(***************************************************************************)
(* The handlers.                                                           *)
(***************************************************************************)

\* The routes of the system and of the control plane that leave no task.
LEMMA RoutesKeep ==
  ASSUME PipelineInv, NEW r \in Requests,
         Read(r) \/ Ready(r) \/ Failures(r) \/ Refuse(r) \/ Configure(r)
  PROVE  PipelineInv'
<1>1. at[r] = "handler"
  BY DEF Read, Ready, Failures, Refuse, Configure, Handling
<1>2. CASE \E status \in Statuses : Respond(r, "handler", status)
  BY <1>1, <1>2, RespondKeeps DEF Layers
<1>3. CASE path[r] = "/failures" /\ Finish(r, Unhandled("/failures"))
  <2>1. AnswerFormed(Unhandled("/failures"))
    BY DEF AnswerFormed, Paths, ControlPlane
  <2>2. Unhandled("/failures").path = path[r] /\ Unhandled("/failures").by = "server"
    BY <1>3 DEF Unhandled
  <2> QED
    BY <1>1, <1>3, <2>1, <2>2, FinishKeeps
<1> QED
  BY <1>2, <1>3 DEF Read, Ready, Failures, Refuse, Configure, Handling, Statuses

\* A background task is started with a copy of the context.
LEMMA TriggerKeeps ==
  ASSUME PipelineInv, NEW r \in Requests, NEW t \in Tasks, Trigger(r, t)
  PROVE  PipelineInv'
<1> DEFINE answer == Response("/chaos", "handler", "200")
<1>0. at[r] = "handler" /\ path[r] = "/chaos" /\ r # t
  BY PipelineConfig DEF Trigger, Handling
<1>1. /\ RequestsFormed /\ at \in [Requests -> Places] /\ path \in [Requests -> Paths]
      /\ at' = [at EXCEPT ![r] = "idle"] /\ path' = [path EXCEPT ![r] = "/"]
      /\ context' = [context EXCEPT ![t] = context[r], ![r] = NoIds]
      /\ brought' = [brought EXCEPT ![r] = NoHeaders] /\ sent' = sent
      /\ owner' = [owner EXCEPT ![t] = Ids(r, brought[r])]
      /\ in_progress' = in_progress - 1
      /\ reply' = answer
  BY DEF PipelineInv, RequestsFormed, Trigger
<1>2. /\ at'[r] = "idle" /\ \A q \in Requests : q # r => at'[q] = at[q]
      /\ \A q \in Requests : q # r => path'[q] = path[q]
  BY <1>1
<1>3. /\ \A q \in Requests : q # r => brought'[q] = brought[q]
      /\ owner'[t] = Ids(r, brought[r]) /\ \A u \in Tasks : u # t => owner'[u] = owner[u]
      /\ context'[t] = context[r]
      /\ \A x \in Requests \cup Tasks : x # r /\ x # t => context'[x] = context[x]
  BY <1>0, <1>1 DEF RequestsFormed
<1>4. RequestsFormed'
  BY <1>1 DEF RequestsFormed, Places, Paths, Business
<1>5. Active' = Active \ {r} /\ r \in Active
  BY <1>0, <1>2 DEF Active
<1>6. AnswerFormed(answer)
  BY DEF AnswerFormed, Paths, ControlPlane, Layers, Statuses
<1>7. /\ answer # NoReply
      /\ answer.by # "server" => {"ids", "security"} \subseteq answer.headers
      /\ answer.by = "handler"
  <2>1. answer.by = "handler"
    BY DEF Response
  <2> HIDE DEF answer
  <2> QED
    BY <1>6, <2>1, AnswersCarry
<1> HIDE DEF answer
<1>8. MetricsTruthful'
  <2>1. in_progress = Cardinality(Measuring)
    BY Gauge DEF PipelineInv
  <2>2. Measuring' = Measuring \ {r} /\ r \in Measuring
    BY <1>0, <1>2, <1>5 DEF Measuring, Active
  <2>3. in_progress' = Cardinality(Measuring')
    BY <1>1, <2>1, <2>2, MeasuringFinite, FS_RemoveElement
  <2> QED
    BY <1>1, <1>7, <2>3 DEF MetricsTruthful, Measuring
<1>9. AnswersTraceable'
  <2>1. \A u \in Tasks : u # r /\ u \in Requests \cup Tasks
    BY PipelineConfig
  <2>2. \A q \in Active' : q \in Requests /\ q # r /\ q # t /\ q \in Active
    BY <1>5, PipelineConfig DEF Active
  <2>3. \A q \in Active' : context'[q] = Ids(q, brought'[q])
    BY <1>3, <2>2 DEF PipelineInv, AnswersTraceable, Logged
  <2>4. \A u \in Tasks : context'[u] = owner'[u]
    BY <1>3, <1>5, <2>1 DEF PipelineInv, AnswersTraceable, Logged
  <2>5. \A q \in Active' : at'[q] = "calling" => SentOwnId(q)'
    BY <1>1, <1>2, <1>3, <2>2 DEF PipelineInv, AnswersTraceable, SentOwnId
  <2> QED
    BY <1>1, <1>7, <2>3, <2>4, <2>5 DEF AnswersTraceable, Logged
<1>10. ControlPlaneOpen'
  BY <1>1, <1>2, <1>5, <1>7 DEF PipelineInv, ControlPlaneOpen, Active
<1>11. AnswerFormed(reply)'
  BY <1>1, <1>6 DEF AnswerFormed
<1> QED
  BY <1>4, <1>8, <1>9, <1>10, <1>11 DEF PipelineInv

\* A task takes its copy of the context with it.
LEMMA TaskEndsKeeps ==
  ASSUME PipelineInv, NEW t \in Tasks, TaskEnds(t)
  PROVE  PipelineInv'
<1>1. /\ RequestsFormed
      /\ context' = [context EXCEPT ![t] = NoIds] /\ owner' = [owner EXCEPT ![t] = NoIds]
      /\ reply' = NoReply
      /\ UNCHANGED <<at, path, brought, sent, in_progress>>
  BY DEF PipelineInv, TaskEnds
<1>2. /\ context'[t] = NoIds /\ owner'[t] = NoIds
      /\ \A x \in Requests \cup Tasks : x # t => context'[x] = context[x]
      /\ \A u \in Tasks : u # t => owner'[u] = owner[u]
  BY <1>1 DEF RequestsFormed
<1>3. RequestsFormed'
  BY <1>1 DEF RequestsFormed
<1>4. NoReply.by = "nobody" /\ \A q \in Requests : q # t
  BY PipelineConfig DEF NoReply
<1>5. MetricsTruthful' /\ ControlPlaneOpen'
  BY <1>1 DEF PipelineInv, MetricsTruthful, ControlPlaneOpen, Active
<1>6. AnswersTraceable'
  BY <1>1, <1>2, <1>4 DEF PipelineInv, AnswersTraceable, SentOwnId, Active, Logged
<1> QED
  BY <1>1, <1>3, <1>5, <1>6 DEF PipelineInv

\* POST /orders, before, during and after the call of auth.
LEMMA OrderKeeps ==
  ASSUME PipelineInv, NEW r \in Requests, Order(r)
  PROVE  PipelineInv'
<1>1. at[r] = "handler" /\ path[r] = "/orders" /\ path[r] \notin ControlPlane
  BY DEF Order, Handling, ControlPlane
<1>2. CASE Respond(r, "handler", "422")
  BY <1>1, <1>2, RespondKeeps DEF Layers, Statuses
<1>3. CASE RejectOpen(r)
  BY <1>1, <1>3, RespondKeeps DEF RejectOpen, Layers, Statuses
<1>4. CASE /\ at' = [at EXCEPT ![r] = "calling"]
           /\ sent' = [sent EXCEPT ![r] = Propagated(context[r])]
           /\ reply' = NoReply
           /\ UNCHANGED <<path, brought, context, owner, in_progress>>
  <2>1. RequestsFormed /\ at \in [Requests -> Places]
    BY DEF PipelineInv, RequestsFormed
  <2>2. /\ at'[r] = "calling" /\ \A q \in Requests : q # r => at'[q] = at[q]
        /\ sent'[r] = Propagated(context[r])
        /\ \A q \in Requests : q # r => sent'[q] = sent[q]
    BY <1>4, <2>1 DEF RequestsFormed
  <2>3. RequestsFormed'
    BY <1>4, <2>1 DEF RequestsFormed, Places
  <2>4. Active' = Active /\ r \in Active /\ NoReply.by = "nobody"
    BY <1>1, <2>2 DEF Active, NoReply
  <2>5. MetricsTruthful'
    BY <1>4, <2>4 DEF PipelineInv, MetricsTruthful
  <2>6. AnswersTraceable'
    BY <1>4, <2>2, <2>4 DEF PipelineInv, AnswersTraceable, SentOwnId, Propagated, Logged, Active
  <2>7. ControlPlaneOpen'
    BY <1>1, <1>4, <2>2, <2>4 DEF PipelineInv, ControlPlaneOpen, Active
  <2> QED
    BY <1>4, <2>3, <2>5, <2>6, <2>7 DEF PipelineInv
<1> QED
  BY <1>2, <1>3, <1>4 DEF Order

\* Nothing of the control plane calls auth.
LEMMA CallKeeps ==
  ASSUME PipelineInv, NEW r \in Requests, Called(r) \/ Create(r)
  PROVE  PipelineInv'
<1>1. at[r] \in {"calling", "working"} /\ path[r] \notin ControlPlane
  BY DEF Called, Create, PipelineInv, ControlPlaneOpen, Active
<1>2. CASE GoOn(r, "working")
  BY <1>1, <1>2, GoOnKeeps
<1>3. CASE \E status \in Statuses : Respond(r, "handler", status)
  BY <1>1, <1>3, RespondKeeps DEF Layers
<1> QED
  BY <1>2, <1>3 DEF Called, Create, Statuses

----------------------------------------------------------------------------
(***************************************************************************)
(* Theorems.                                                               *)
(***************************************************************************)

\* Nobody is there yet.
LEMMA PipelineStarts == Init => PipelineInv
<1> SUFFICES ASSUME Init PROVE PipelineInv
  OBVIOUS
<1>1. RequestsFormed
  BY DEF Init, RequestsFormed, Places, Paths, Business
<1>2. Active = {} /\ Measuring = {}
  BY DEF Init, Active, Measuring
<1>3. reply = NoReply /\ NoReply.by = "nobody"
  BY DEF Init, NoReply
<1>4. MetricsTruthful
  <2>1. Cardinality(Measuring) = 0
    BY <1>2, FS_EmptySet
  <2> QED
    BY <1>3, <2>1, Gauge DEF Init
<1>5. AnswersTraceable
  BY <1>2, <1>3 DEF Init, AnswersTraceable, Logged
<1>6. ControlPlaneOpen
  BY <1>2, <1>3 DEF ControlPlaneOpen
<1> QED
  BY <1>1, <1>3, <1>4, <1>5, <1>6 DEF PipelineInv

\* Every step of the application.
LEMMA PipelineStep ==
  ASSUME PipelineInv, [Next]_pipelineVars
  PROVE  PipelineInv'
<1>1. ASSUME NEW r \in Requests, NEW p \in Paths, NEW h \in Headers, Arrive(r, p, h)
      PROVE  PipelineInv'
  BY <1>1, ArriveKeeps
<1>2. ASSUME NEW r \in Requests, Wake(r) \/ Limit(r) PROVE PipelineInv'
  BY <1>2, WakeKeeps, LimitKeeps
<1>3. ASSUME NEW r \in Requests, Handle(r) PROVE PipelineInv'
  BY <1>3, RoutesKeep, TriggerKeeps, OrderKeeps, CallKeeps DEF Handle
<1>4. ASSUME NEW t \in Tasks, TaskEnds(t) PROVE PipelineInv'
  BY <1>4, TaskEndsKeeps
<1>5. CASE Tick
  BY <1>5, NobodyMoves DEF Tick
<1>6. CASE UNCHANGED pipelineVars
  BY <1>6, NobodyMoves DEF pipelineVars
<1> QED
  BY <1>1, <1>2, <1>3, <1>4, <1>5, <1>6 DEF Next

\* The invariant of a service's application.
THEOREM PipelineInvariant == Spec => []PipelineInv
  BY PipelineStarts, PipelineStep, PTL DEF Spec

\* The gauge counts the requests in progress, however many are suspended
\* wherever.
THEOREM MetricsAlwaysTruthful == Spec => []MetricsTruthful
<1>1. PipelineInv => MetricsTruthful
  BY DEF PipelineInv
<1> QED
  BY <1>1, PipelineInvariant, PTL

\* No request, no task and no call of auth ever carries the ids of another, and
\* a call carries its own unless that is "-".
THEOREM AnswersAlwaysTraceable == Spec => []AnswersTraceable
<1>1. PipelineInv => AnswersTraceable
  BY DEF PipelineInv
<1> QED
  BY <1>1, PipelineInvariant, PTL

\* Neither chaos nor the limiter ever closes the control plane.
THEOREM ControlPlaneAlwaysOpen == Spec => []ControlPlaneOpen
<1>1. PipelineInv => ControlPlaneOpen
  BY DEF PipelineInv
<1> QED
  BY <1>1, PipelineInvariant, PTL

\* Chaos and the breaker fail requests only while /ready says degraded: the
\* decision is taken in the step that answers, after any delay.
THEOREM FailsAlwaysDegraded == Spec => FailsOnlyDegraded
<1> DEFINE A == reply'.by \in {"chaos", "breaker"} => ~IsReady
<1>0. NoReply.by = "nobody" /\ \A p : Unhandled(p).by = "server"
  BY DEF NoReply, Unhandled
<1>1. \A p, by, status : Response(p, by, status).by = by
  BY DEF Response
<1>2. ASSUME NEW r \in Requests, NEW by \in {"handler", "limiter"}, NEW status, Respond(r, by, status)
      PROVE  A
  BY <1>1, <1>2 DEF Respond, Finish
<1>3. ASSUME reply' = NoReply PROVE A
  BY <1>0, <1>3
<1>4. ASSUME NEW r \in Requests, NEW next, GoOn(r, next) PROVE A
  BY <1>3, <1>4 DEF GoOn
<1>5. ASSUME errors = "on" PROVE ~IsReady
  BY <1>5 DEF IsReady
<1>6. ASSUME NEW r \in Requests, NEW p \in Paths, NEW h \in Headers, Arrive(r, p, h)
      PROVE  A
  BY <1>3, <1>5, <1>6 DEF Arrive, Enter, MayInject
<1>7. ASSUME NEW r \in Requests, Wake(r) PROVE A
  BY <1>4, <1>5, <1>7 DEF Wake, MayInject
<1>8. ASSUME NEW r \in Requests, Limit(r) PROVE A
  BY <1>2, <1>4, <1>8 DEF Limit
<1>9. ASSUME NEW r \in Requests, Handle(r) PROVE A
  <2>1. CASE Read(r) \/ Ready(r) \/ Refuse(r) \/ Configure(r) \/ Create(r)
    BY <1>2, <2>1 DEF Read, Ready, Refuse, Configure, Create
  <2>2. CASE Failures(r)
    BY <1>0, <1>2, <2>2 DEF Failures, Finish
  <2>3. CASE \E t \in Tasks : Trigger(r, t)
    BY <1>1, <2>3 DEF Trigger
  <2>4. CASE Order(r)
    <3>1. ASSUME RejectOpen(r) PROVE ~IsReady
      BY <3>1 DEF RejectOpen, IsReady, BreakerOpen
    <3> QED
      BY <1>2, <1>3, <2>4, <3>1 DEF Order
  <2>5. CASE Called(r)
    BY <1>2, <1>4, <2>5 DEF Called
  <2> QED
    BY <1>9, <2>1, <2>2, <2>3, <2>4, <2>5 DEF Handle
<1>10. ASSUME NEW t \in Tasks, TaskEnds(t) PROVE A
  BY <1>3, <1>10 DEF TaskEnds
<1>11. ASSUME Tick PROVE A
  BY <1>3, <1>11 DEF Tick
<1>12. [Next]_pipelineVars => [A]_pipelineVars
  BY <1>6, <1>7, <1>8, <1>9, <1>10, <1>11 DEF Next
<1> QED
  BY <1>12, PTL DEF Spec, FailsOnlyDegraded

=============================================================================
