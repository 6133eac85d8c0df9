------------------------------- MODULE Worker -------------------------------
(***************************************************************************)
(* The worker service (worker/main.py): a job loop that runs beside the    *)
(* HTTP side of the service, shares its ChaosState with it, is started by  *)
(* the application's lifespan and cancelled by it (shared/autosre_shared/  *)
(* app.py).  A step is what the loop does between two awaits.              *)
(*                                                                         *)
(* Every process starts with everything but the failure log at its initial *)
(* value.                                                                  *)
(***************************************************************************)
EXTENDS Chaos

VARIABLES
  service_up,   \* the gauge
  job,          \* where the loop is suspended: "none" (no task), "created",
                \* "delayed", "working", in the "pause" between jobs; "ended"
  cancelling,   \* _shutdown has called task.cancel()
  unreported    \* jobs begun less the jobs worker_jobs_processed_total counts

workerVars == <<service_up, job, cancelling, unreported>>
allVars == <<chaosVars, workerVars>>

----------------------------------------------------------------------------
WorkerInit ==
  /\ Init
  /\ service_up = 0
  /\ job = "none"
  /\ cancelling = FALSE
  /\ unreported = 0

\* lifespan up to its yield: service_up.set(1), _startup.
Startup ==
  /\ service_up = 0 /\ job = "none"
  /\ service_up' = 1
  /\ job' = "created"
  /\ UNCHANGED <<chaosVars, cancelling, unreported>>

\* The finally clause of _process_job.
Report == unreported' = unreported - 1

\* A job decided: the rest of chaos is left alone.
DecideError(fails) ==
  /\ ShouldInjectError(fails)
  /\ UNCHANGED <<latencyVars, cpu_running, memoryVars, chaos_active, sleeping, task>>

\* Mutant: an injected failure leaves _process_job before it is counted.
DecideUncounted(begun) ==
  \E fails \in BOOLEAN :
    /\ DecideError(fails)
    /\ job' = IF fails THEN "pause" ELSE "working"
    /\ unreported' = unreported + begun

\* Mutant: an injected failure is counted and ends the loop.
DecideEscapes(begun) ==
  \E fails \in BOOLEAN :
    /\ DecideError(fails)
    /\ job' = IF fails THEN "ended" ELSE "working"
    /\ unreported' = unreported + begun - Flag(fails)

\* The rest of a job's first step: an injected failure ends it and is counted
\* by the finally clause, else it works.
Decide(begun) ==
  \E fails \in BOOLEAN :
    /\ DecideError(fails)
    /\ job' = IF fails THEN "pause" ELSE "working"
    /\ unreported' = unreported + begun - Flag(fails)

\* A new job, delayed or not.
BeginJob ==
  /\ job \in {"created", "pause"}
  /\ ~cancelling
  /\ IF latency_enabled /\ latency_seconds > 0
       THEN /\ job' = "delayed"
            /\ unreported' = unreported + 1
            /\ UNCHANGED chaosVars
       ELSE Decide(1)
  /\ UNCHANGED <<service_up, cancelling>>

\* The injected delay of a job is over.
ResumeJob ==
  /\ job = "delayed"
  /\ ~cancelling
  /\ Decide(0)
  /\ UNCHANGED <<service_up, cancelling>>

\* The work of a job is done.
FinishJob ==
  /\ job = "working"
  /\ ~cancelling
  /\ job' = "pause"
  /\ Report
  /\ UNCHANGED <<chaosVars, service_up, cancelling>>

\* lifespan after its yield: _shutdown cancels the loop and waits for it.  The
\* server enters it once the requests in progress are answered.
Shutdown ==
  /\ service_up = 1 /\ ~cancelling
  /\ \A r \in Requests : sleeping[r] = 0
  /\ cancelling' = TRUE
  /\ UNCHANGED <<chaosVars, service_up, job, unreported>>

\* Mutant: the loop treats the cancellation as a failed job and goes on.
LoopSwallowsCancel ==
  /\ cancelling /\ job \notin {"none", "ended"}
  /\ job' = "pause"
  /\ IF job \in {"delayed", "working"} THEN Report ELSE UNCHANGED unreported
  /\ UNCHANGED <<chaosVars, service_up, cancelling>>

\* CancelledError is raised where the loop is suspended.  Inside a job it
\* passes `except Exception`, and the finally clause counts the job with the
\* status it started out with.
LoopCancelled ==
  /\ cancelling /\ job \notin {"none", "ended"}
  /\ job' = "ended"
  /\ IF job \in {"delayed", "working"} THEN Report ELSE UNCHANGED unreported
  /\ UNCHANGED <<chaosVars, service_up, cancelling>>

\* The end of the lifespan: service_up.set(0).
Stopped ==
  /\ cancelling /\ job = "ended" /\ service_up = 1
  /\ service_up' = 0
  /\ UNCHANGED <<chaosVars, job, cancelling, unreported>>

\* The process exits, and its background tasks with it.
Exit ==
  /\ service_up = 0 /\ job = "ended"
  /\ latency_enabled' = FALSE /\ latency_seconds' = 0
  /\ error_enabled' = FALSE /\ error_rate' = 0 /\ error_accumulator' = 0
  /\ decisions' = 0 /\ demand' = 0 /\ injected' = 0
  /\ cpu_running' = FALSE
  /\ memory_bytes' = 0 /\ memory_blocks' = [n \in Sizes |-> 0]
  /\ chaos_active' = [m \in Modes |-> 0]
  /\ sleeping' = [r \in Requests |-> 0]
  /\ task' = [t \in Tasks |-> NoTask]
  /\ job' = "none"
  /\ cancelling' = FALSE
  /\ unreported' = 0
  /\ UNCHANGED service_up

Loop == BeginJob \/ ResumeJob \/ FinishJob \/ LoopCancelled

\* Requests are served between startup and shutdown; background tasks go on
\* until the process exits.
WorkerNext ==
  \/ /\ service_up = 1 /\ ~cancelling
     /\ Next
     /\ UNCHANGED workerVars
  \/ /\ cancelling
     /\ \E t \in Tasks : Progress(t)
     /\ UNCHANGED workerVars
  \/ Startup \/ Loop \/ Shutdown \/ Stopped \/ Exit

\* Sleeps, burning threads and hold times are bounded, the event loop runs what
\* is ready, and a server whose lifespan is over exits.
WorkerSpec ==
  /\ WorkerInit /\ [][WorkerNext]_allVars
  /\ WF_allVars(Loop) /\ WF_allVars(Stopped) /\ WF_allVars(Exit)
  /\ \A t \in Tasks : WF_allVars(Progress(t) /\ UNCHANGED workerVars)

----------------------------------------------------------------------------
(***************************************************************************)
(* Properties.                                                             *)
(***************************************************************************)

\* Every job that begins is counted exactly once, as it ends, whether it
\* succeeds, fails by injection or is cut off by a shutdown.
JobsCountedOnce == unreported = IF job \in {"delayed", "working"} THEN 1 ELSE 0

\* A shutdown ends: the loop is cancelled wherever it is and the service
\* reports itself down.
ShutdownEnds == cancelling ~> service_up = 0

\* Whatever chaos is configured, a service that is not shut down begins one
\* job after another: the loop neither dies of a job nor gets stuck in one.
JobsKeepComing ==
  <>[](service_up = 1 /\ ~cancelling) => []<><<BeginJob>>_allVars

=============================================================================
