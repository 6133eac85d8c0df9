-------------------------- MODULE BreakerContract --------------------------
(***************************************************************************)
(* What a circuit breaker promises, without its record, its clock and its  *)
(* metrics.  An outage is a bracket: the breaker trips, every call it had  *)
(* let through drains while it cools down, and only then does a trial      *)
(* begin, so that a trial is judged by trial calls alone.                  *)
(***************************************************************************)
EXTENDS Integers

CONSTANTS Callers, SuccessThreshold

VARIABLES
  phase,   \* "closed", "cooling", "ready" or "half_open"
  calls,   \* the callers that were let through and have not come back
  wins     \* the trial calls that succeeded

contractVars == <<phase, calls, wins>>

Init == phase = "closed" /\ calls = {} /\ wins = 0

\* A call is let through, outside an outage or during the trial.
LetThrough(c) ==
  /\ phase \in {"closed", "half_open"}
  /\ c \notin calls
  /\ calls' = calls \cup {c}
  /\ UNCHANGED <<phase, wins>>

\* The first call after the cooldown starts the trial, with no other call out.
StartTrial(c) ==
  /\ phase = "ready"
  /\ calls = {}
  /\ phase' = "half_open"
  /\ calls' = {c}
  /\ wins' = 0

\* A call comes back without changing the breaker's mind.
ComeBack(c) ==
  /\ c \in calls
  /\ calls' = calls \ {c}
  /\ UNCHANGED <<phase, wins>>

\* A trial call succeeds; the last one needed ends the outage.
WinTrial(c) ==
  /\ phase = "half_open"
  /\ c \in calls
  /\ calls' = calls \ {c}
  /\ IF wins + 1 < SuccessThreshold
       THEN wins' = wins + 1 /\ UNCHANGED phase
       ELSE wins' = 0 /\ phase' = "closed"

\* A failure starts an outage, or the cooldown again.
Trip(c) ==
  /\ phase \in {"closed", "half_open"}
  /\ c \in calls
  /\ calls' = calls \ {c}
  /\ phase' = "cooling"
  /\ wins' = 0

\* The cooldown ends, but not before the last call has come back.
CooledDown ==
  /\ phase = "cooling"
  /\ calls = {}
  /\ phase' = "ready"
  /\ UNCHANGED <<calls, wins>>

Next ==
  \/ \E c \in Callers :
       LetThrough(c) \/ StartTrial(c) \/ ComeBack(c) \/ WinTrial(c) \/ Trip(c)
  \/ CooledDown

Spec == Init /\ [][Next]_contractVars

============================================================================
