--------------------------- MODULE NetworkDaemon ---------------------------
(***************************************************************************)
(* The network daemon (cmd/network-daemon/main.go): the goroutine of       *)
(* Prober.Run (internal/prober/prober.go), which probes the targets one    *)
(* after the other with the checks of pkg/netcheck, the HTTP server that   *)
(* is scraped for the counters, and main, which stops both.                *)
(*                                                                         *)
(* A check starts as the one before it ends.  It runs under the deadline   *)
(* of its target and under the context of the daemon, and one that starts  *)
(* after either is over fails at once.  Checks of healthy targets take     *)
(* less than a tick; the others may take any time and fail.  Latencies,    *)
(* the histogram of lookups and the counter of connections follow          *)
(* requests and are left out.                                              *)
(***************************************************************************)
EXTENDS Integers, Sequences

CONSTANTS
  Plan,        \* the checks of each target, in the order of cfg.Targets
  Healthy,     \* the targets that answer at once, as indices of Plan
  Timeout,     \* cfg.Timeout in ticks
  MaxRounds,   \* rounds of probes that are followed
  MaxScrapes   \* scrapes that may be in progress at a time

ASSUME DaemonConfig ==
  /\ Plan \in Seq(Seq({"dns", "tcp", "http"})) /\ Plan # <<>>
  /\ \A i \in 1..Len(Plan) : Plan[i] # <<>>
  /\ Healthy \subseteq 1..Len(Plan)
  /\ Timeout \in Nat \ {0}
  /\ MaxRounds \in Nat \ {0}
  /\ MaxScrapes \in Nat

VARIABLES
  stopping,   \* the context of the daemon is done
  prober,     \* "probing", "select" or "returned"
  target,     \* index of the target that is probed
  check,      \* index of its check that is running
  left,       \* ticks left to the deadline of the target
  doomed,     \* how the check fails at once: "no", "timeout" or "cancelled"
  pending,    \* a tick is waiting in the channel of the ticker
  rounds,     \* rounds begun
  requests, failures, timeouts,   \* network_*_total
  server,     \* "serving", "closing", "closed" or "failed"
  scrapes,    \* requests in progress
  main        \* "waiting", "closing", "joining" or "exited"

probeVars == <<prober, target, check, left, doomed, rounds>>
counters  == <<requests, failures, timeouts>>
mainVars  == <<server, scrapes, main>>
daemonVars == <<stopping, probeVars, pending, counters, mainVars>>

Slots == UNION {{<<i, j>> : j \in 1..Len(Plan[i])} : i \in 1..Len(Plan)}

----------------------------------------------------------------------------
\* A check starts under a deadline with t ticks left.
StartCheck(i, j, t) ==
  /\ prober' = "probing"
  /\ target' = i /\ check' = j /\ left' = t
  /\ doomed' = IF stopping THEN "cancelled" ELSE IF t = 0 THEN "timeout" ELSE "no"

Init ==
  /\ stopping = FALSE
  /\ prober = "probing"
  /\ target = 1 /\ check = 1 /\ left = Timeout /\ doomed = "no"
  /\ pending = FALSE
  /\ rounds = 1
  /\ requests = [s \in Slots |-> 0]
  /\ failures = [s \in Slots |-> 0]
  /\ timeouts = [s \in Slots |-> 0]
  /\ server = "serving"
  /\ scrapes = 0
  /\ main = "waiting"

\* The results a running check may have.
Outcomes ==
  IF doomed # "no" THEN {doomed}
  ELSE {"ok"}
       \cup (IF target \in Healthy THEN {} ELSE {"failed"})
       \cup (IF left = 0 THEN {"timeout"} ELSE {})
       \cup (IF stopping THEN {"cancelled"} ELSE {})

\* Mutant: a timeout is counted instead of a failure.
RecordApart(outcome) ==
  LET s == <<target, check>> IN
  /\ requests' = [requests EXCEPT ![s] = @ + 1]
  /\ timeouts' = IF outcome = "timeout" THEN [timeouts EXCEPT ![s] = @ + 1] ELSE timeouts
  /\ failures' = IF outcome \in {"failed", "cancelled"} THEN [failures EXCEPT ![s] = @ + 1] ELSE failures

\* record
Record(outcome) ==
  LET s == <<target, check>> IN
  /\ requests' = [requests EXCEPT ![s] = @ + 1]
  /\ timeouts' = IF outcome = "timeout" THEN [timeouts EXCEPT ![s] = @ + 1] ELSE timeouts
  /\ failures' = IF outcome # "ok" THEN [failures EXCEPT ![s] = @ + 1] ELSE failures

RoundEnds == prober' = "select" /\ UNCHANGED <<target, check, left, doomed>>

\* Mutant: one deadline covers the round.
AdvanceOneDeadline(outcome) ==
  IF check < Len(Plan[target]) THEN StartCheck(target, check + 1, left)
  ELSE IF target < Len(Plan) THEN StartCheck(target + 1, 1, left)
  ELSE RoundEnds

\* Mutant: the other checks of a target are skipped once one has failed.
AdvanceSkips(outcome) ==
  IF check < Len(Plan[target]) /\ outcome = "ok" THEN StartCheck(target, check + 1, left)
  ELSE IF target < Len(Plan) THEN StartCheck(target + 1, 1, Timeout)
  ELSE RoundEnds

\* probeTarget and probeAll go on to the next check, whatever the outcome: of
\* this target under the same deadline, of the next one under a new one.
Advance(outcome) ==
  IF check < Len(Plan[target]) THEN StartCheck(target, check + 1, left)
  ELSE IF target < Len(Plan) THEN StartCheck(target + 1, 1, Timeout)
  ELSE RoundEnds

EndCheck ==
  /\ prober = "probing"
  /\ \E outcome \in Outcomes : Record(outcome) /\ Advance(outcome)
  /\ UNCHANGED <<stopping, pending, rounds, mainVars>>

\* The check of an unhealthy target keeps it waiting.
TimePasses ==
  /\ prober = "probing" /\ doomed = "no" /\ left > 0
  /\ target \notin Healthy
  /\ left' = left - 1
  /\ UNCHANGED <<stopping, prober, target, check, doomed, rounds, pending, counters, mainVars>>

\* time.Ticker drops a tick nobody has taken.
TickerFires ==
  /\ prober # "returned" /\ rounds < MaxRounds
  /\ pending' = TRUE
  /\ UNCHANGED <<stopping, probeVars, counters, mainVars>>

\* The two cases of the select in Run; if both are ready either may be taken.
SelectTick ==
  /\ prober = "select" /\ pending
  /\ pending' = FALSE
  /\ rounds' = rounds + 1
  /\ StartCheck(1, 1, Timeout)
  /\ UNCHANGED <<stopping, counters, mainVars>>

SelectDone ==
  /\ prober = "select" /\ stopping
  /\ prober' = "returned"
  /\ UNCHANGED <<stopping, target, check, left, doomed, rounds, pending, counters, mainVars>>

----------------------------------------------------------------------------
\* SIGINT or SIGTERM
Signal ==
  /\ ~stopping
  /\ stopping' = TRUE
  /\ UNCHANGED <<probeVars, pending, counters, mainVars>>

\* Mutant: the end of the server is only logged.
ServerFailsQuietly ==
  /\ server = "serving"
  /\ server' = "failed"
  /\ UNCHANGED <<stopping, probeVars, pending, counters, scrapes, main>>

\* ListenAndServe returns an error: stop().  Scrapes in progress go on.
ServerFails ==
  /\ server = "serving"
  /\ server' = "failed"
  /\ stopping' = TRUE
  /\ UNCHANGED <<probeVars, pending, counters, scrapes, main>>

BeginScrape ==
  /\ server = "serving" /\ scrapes < MaxScrapes
  /\ scrapes' = scrapes + 1
  /\ UNCHANGED <<stopping, probeVars, pending, counters, server, main>>

EndScrape ==
  /\ scrapes > 0
  /\ scrapes' = scrapes - 1
  /\ UNCHANGED <<stopping, probeVars, pending, counters, server, main>>

\* main wakes up and calls srv.Shutdown, which stops listening.
MainWakes ==
  /\ main = "waiting" /\ stopping
  /\ main' = "closing"
  /\ server' = IF server = "serving" THEN "closing" ELSE server
  /\ UNCHANGED <<stopping, probeVars, pending, counters, scrapes>>

\* Shutdown returns when no request is left or its ten seconds are over; an
\* error is only logged.
ShutdownReturns ==
  /\ main = "closing"
  /\ main' = "joining"
  /\ server' = IF server = "closing" THEN "closed" ELSE server
  /\ UNCHANGED <<stopping, probeVars, pending, counters, scrapes>>

\* <-proberDone
Exit ==
  /\ main = "joining" /\ prober = "returned"
  /\ main' = "exited"
  /\ UNCHANGED <<stopping, probeVars, pending, counters, server, scrapes>>

Prober == EndCheck \/ TimePasses \/ SelectTick
Main == MainWakes \/ ShutdownReturns \/ Exit

Next ==
  /\ main # "exited"
  /\ \/ Prober \/ SelectDone \/ TickerFires \/ Main
     \/ Signal \/ ServerFails \/ BeginScrape \/ EndScrape

Spec == Init /\ [][Next]_daemonVars

\* Goroutines that can run do, the checks and the shutdown are bounded by their
\* deadlines, and select chooses fairly among the cases that are ready.
LiveSpec == Spec /\ WF_daemonVars(Prober) /\ SF_daemonVars(SelectDone) /\ WF_daemonVars(Main)

----------------------------------------------------------------------------
(***************************************************************************)
(* Properties.                                                             *)
(***************************************************************************)

\* Every variable has its type, and failures include the timeouts.
TypeOK ==
  /\ stopping \in BOOLEAN
  /\ prober \in {"probing", "select", "returned"}
  /\ <<target, check>> \in Slots
  /\ left \in 0..Timeout
  /\ doomed \in {"no", "timeout", "cancelled"}
  /\ pending \in BOOLEAN
  /\ rounds \in 1..MaxRounds
  /\ requests \in [Slots -> 0..MaxRounds]
  /\ failures \in [Slots -> 0..MaxRounds]
  /\ timeouts \in [Slots -> 0..MaxRounds]
  /\ \A s \in Slots : timeouts[s] <= failures[s] /\ failures[s] <= requests[s]
  /\ server \in {"serving", "closing", "closed", "failed"}
  /\ scrapes \in 0..MaxScrapes
  /\ main \in {"waiting", "closing", "joining", "exited"}

\* A check comes before the one that is running.
Before(s) == s[1] < target \/ (s[1] = target /\ s[2] < check)

\* Every check of every target is recorded exactly once a round and in order,
\* whatever the others found and whenever the daemon is stopped: failure
\* ratios of different targets and checks have the same denominator.
RoundsComplete ==
  \A s \in Slots :
    requests[s] = IF prober = "probing" /\ ~Before(s) THEN rounds - 1 ELSE rounds

\* A target that is slow or down never costs a healthy one a check: until the
\* daemon is stopped no failure of a healthy target is recorded, and never a
\* timeout.
NoCollateral ==
  \A s \in Slots : s[1] \in Healthy =>
    timeouts[s] = 0 /\ (~stopping => failures[s] = 0)

\* A signal, or the death of the server, ends the process: it is not lost on a
\* prober in the middle of a round, on one whose ticker fires at the same time, or
\* on a main that still has to close the server.
StopEnds == (stopping \/ server = "failed") ~> main = "exited"

============================================================================
