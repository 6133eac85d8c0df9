------------------------ MODULE NetworkDaemonProofs ------------------------
(***************************************************************************)
(* Proofs about NetworkDaemon for every list of targets with any checks,   *)
(* any set of healthy ones and any deadline.                               *)
(*                                                                         *)
(* TypeOK bounds the counters by the rounds, which follows from            *)
(* RoundsComplete and from the ticker's own bound (TicksBounded); that     *)
(* healthy targets are never blamed follows from why a check may fail at   *)
(* once (DoomExplained).                                                   *)
(***************************************************************************)
EXTENDS NetworkDaemon, TLAPS

\* A tick is pending only if another round may begin.
TicksBounded == pending => rounds < MaxRounds

\* The deadline of a healthy target has not moved while it is probed, and a
\* check is cancelled from the start only if the daemon is stopping.
DoomExplained ==
  /\ prober = "probing" /\ target \in Healthy => left = Timeout /\ doomed # "timeout"
  /\ doomed = "cancelled" => stopping

DaemonInv == TypeOK /\ RoundsComplete /\ NoCollateral /\ TicksBounded /\ DoomExplained

----------------------------------------------------------------------------
\* The plan has targets and every target has checks.
LEMMA PlanTyped ==
  /\ Len(Plan) \in Nat /\ Len(Plan) >= 1
  /\ \A i \in 1..Len(Plan) : Len(Plan[i]) \in Nat /\ Len(Plan[i]) >= 1
<1>1. Len(Plan) \in Nat /\ Len(Plan) >= 1
  BY DaemonConfig
<1>2. ASSUME NEW i \in 1..Len(Plan) PROVE Len(Plan[i]) \in Nat /\ Len(Plan[i]) >= 1
  <2>1. Plan[i] \in Seq({"dns", "tcp", "http"}) /\ Plan[i] # <<>>
    BY DaemonConfig
  <2> QED
    BY <2>1
<1> QED
  BY <1>1, <1>2

\* A slot is a target with one of its checks.
LEMMA SlotIs ==
  /\ \A i \in 1..Len(Plan) : \A j \in 1..Len(Plan[i]) : <<i, j>> \in Slots
  /\ \A s \in Slots : /\ s = <<s[1], s[2]>>
                      /\ s[1] \in 1..Len(Plan) /\ s[2] \in 1..Len(Plan[s[1]])
<1>1. ASSUME NEW i \in 1..Len(Plan), NEW j \in 1..Len(Plan[i]) PROVE <<i, j>> \in Slots
  BY DEF Slots
<1>2. ASSUME NEW s \in Slots
      PROVE  s = <<s[1], s[2]>> /\ s[1] \in 1..Len(Plan) /\ s[2] \in 1..Len(Plan[s[1]])
  <2>1. PICK i \in 1..Len(Plan) : s \in {<<i, j>> : j \in 1..Len(Plan[i])}
    BY DEF Slots
  <2>2. PICK j \in 1..Len(Plan[i]) : s = <<i, j>>
    BY <2>1
  <2> QED
    BY <2>2
<1> QED
  BY <1>1, <1>2

\* The check that is running is one of the plan.
LEMMA Running ==
  ASSUME TypeOK
  PROVE  target \in 1..Len(Plan) /\ check \in 1..Len(Plan[target])
<1>1. <<target, check>> \in Slots
  BY DEF TypeOK
<1> QED
  BY <1>1, SlotIs

\* Nothing is recorded yet and the first check of the first target runs.
LEMMA DaemonInit == Init => DaemonInv
<1> SUFFICES ASSUME Init PROVE DaemonInv
  OBVIOUS
<1>1. <<target, check>> \in Slots
  BY PlanTyped, SlotIs DEF Init
<1>2. TypeOK
  <2>1. left \in 0..Timeout /\ rounds \in 1..MaxRounds /\ scrapes \in 0..MaxScrapes
    BY DaemonConfig DEF Init
  <2>2. /\ requests \in [Slots -> 0..MaxRounds]
        /\ failures \in [Slots -> 0..MaxRounds]
        /\ timeouts \in [Slots -> 0..MaxRounds]
        /\ \A s \in Slots : timeouts[s] <= failures[s] /\ failures[s] <= requests[s]
    BY DaemonConfig DEF Init
  <2> QED
    BY <1>1, <2>1, <2>2 DEF Init, TypeOK
<1>3. RoundsComplete
  <2>1. ASSUME NEW s \in Slots PROVE ~Before(s)
    BY SlotIs, PlanTyped DEF Init, Before
  <2> QED
    BY <2>1 DEF Init, RoundsComplete
<1>4. NoCollateral /\ TicksBounded /\ DoomExplained
  BY DEF Init, NoCollateral, TicksBounded, DoomExplained
<1> QED
  BY <1>2, <1>3, <1>4 DEF DaemonInv

----------------------------------------------------------------------------
\* Where the prober goes from a check: the checks that are then behind it are
\* the ones it had behind it before, and the one that ended.
LEMMA AdvanceMoves ==
  ASSUME DaemonInv, prober = "probing", NEW outcome, Advance(outcome)
  PROVE  /\ prober' \in {"probing", "select"}
         /\ <<target', check'>> \in Slots
         /\ left' \in 0..Timeout
         /\ doomed' \in {"no", "timeout", "cancelled"}
         /\ prober' = "probing" =>
              \A s \in Slots : Before(s)' <=> Before(s) \/ s = <<target, check>>
         /\ prober' = "select" =>
              \A s \in Slots : Before(s) \/ s = <<target, check>>
<1>0. /\ target \in 1..Len(Plan) /\ check \in 1..Len(Plan[target])
      /\ left \in 0..Timeout /\ Timeout \in Nat /\ doomed \in {"no", "timeout", "cancelled"}
  BY Running, DaemonConfig DEF DaemonInv, TypeOK
<1>1. \A s \in Slots : s = <<target, check>> <=> s[1] = target /\ s[2] = check
  BY SlotIs
<1>2. CASE check < Len(Plan[target])
  <2>1. prober' = "probing" /\ target' = target /\ check' = check + 1 /\ left' = left
        /\ doomed' \in {"no", "timeout", "cancelled"}
    BY <1>2 DEF Advance, StartCheck
  <2>2. <<target', check'>> \in Slots
    BY <1>0, <1>2, <2>1, SlotIs, PlanTyped
  <2>3. ASSUME NEW s \in Slots PROVE Before(s)' <=> Before(s) \/ s = <<target, check>>
    BY <1>0, <1>1, <2>1, SlotIs, PlanTyped DEF Before
  <2> QED
    BY <1>0, <2>1, <2>2, <2>3
<1>3. CASE ~(check < Len(Plan[target])) /\ target < Len(Plan)
  <2>1. prober' = "probing" /\ target' = target + 1 /\ check' = 1 /\ left' = Timeout
        /\ doomed' \in {"no", "timeout", "cancelled"}
    BY <1>3 DEF Advance, StartCheck
  <2>2. <<target', check'>> \in Slots
    <3>1. target' \in 1..Len(Plan) /\ check' = 1
      BY <1>0, <1>3, <2>1, PlanTyped
    <3>2. check' \in 1..Len(Plan[target'])
      BY <3>1, PlanTyped
    <3> QED
      BY <3>1, <3>2, SlotIs
  <2>3. ASSUME NEW s \in Slots PROVE Before(s)' <=> Before(s) \/ s = <<target, check>>
    <3>1. s[1] \in 1..Len(Plan) /\ s[2] \in 1..Len(Plan[s[1]])
      BY SlotIs
    <3>2. s[1] = target => s[2] <= check
      BY <1>0, <1>3, <3>1, PlanTyped
    <3> QED
      BY <1>0, <1>1, <2>1, <3>1, <3>2, PlanTyped DEF Before
  <2> QED
    BY <1>0, <2>1, <2>2, <2>3
<1>4. CASE ~(check < Len(Plan[target])) /\ ~(target < Len(Plan))
  <2>1. prober' = "select" /\ target' = target /\ check' = check /\ left' = left /\ doomed' = doomed
    BY <1>4 DEF Advance, RoundEnds
  <2>2. ASSUME NEW s \in Slots PROVE Before(s) \/ s = <<target, check>>
    <3>1. s[1] \in 1..Len(Plan) /\ s[2] \in 1..Len(Plan[s[1]])
      BY SlotIs
    <3>2. s[1] <= target /\ (s[1] = target => s[2] <= check)
      BY <1>0, <1>4, <3>1, PlanTyped
    <3> QED
      BY <1>0, <1>1, <3>1, <3>2, PlanTyped DEF Before
  <2> QED
    BY <1>0, <2>1, <2>2, SlotIs
<1> QED
  BY <1>2, <1>3, <1>4

\* One check is recorded under its own slot.
LEMMA RecordCounts ==
  ASSUME DaemonInv, NEW outcome, Record(outcome), NEW s \in Slots
  PROVE  /\ requests'[s] = requests[s] + (IF s = <<target, check>> THEN 1 ELSE 0)
         /\ failures'[s] =
              failures[s] + (IF s = <<target, check>> /\ outcome # "ok" THEN 1 ELSE 0)
         /\ timeouts'[s] =
              timeouts[s] + (IF s = <<target, check>> /\ outcome = "timeout" THEN 1 ELSE 0)
<1>1. <<target, check>> \in Slots /\ DOMAIN requests = Slots /\ DOMAIN failures = Slots
      /\ DOMAIN timeouts = Slots
      /\ requests[s] \in Nat /\ failures[s] \in Nat /\ timeouts[s] \in Nat
  BY DaemonConfig DEF DaemonInv, TypeOK
<1> QED
  BY <1>1 DEF Record

\* A check ends.
LEMMA EndCheckKeeps ==
  ASSUME DaemonInv, EndCheck
  PROVE  DaemonInv'
<1>1. PICK outcome \in Outcomes : Record(outcome) /\ Advance(outcome)
  BY DEF EndCheck
<1>2. prober = "probing"
      /\ UNCHANGED <<stopping, pending, rounds, server, scrapes, main>>
  BY DEF EndCheck, mainVars
<1>3. RoundsComplete'
  <2> SUFFICES ASSUME NEW s \in Slots
               PROVE  requests'[s] =
                        IF prober' = "probing" /\ ~Before(s)' THEN rounds' - 1 ELSE rounds'
    BY DEF RoundsComplete, Before
  <2>1. requests'[s] = requests[s] + (IF s = <<target, check>> THEN 1 ELSE 0)
    BY <1>1, RecordCounts
  <2>2. requests[s] = (IF ~Before(s) THEN rounds - 1 ELSE rounds) /\ rounds \in Nat
    BY <1>2, DaemonConfig DEF DaemonInv, RoundsComplete, TypeOK
  <2>3. s = <<target, check>> => ~Before(s)
    BY Running, PlanTyped DEF DaemonInv, Before
  <2>4. /\ prober' \in {"probing", "select"}
        /\ prober' = "probing" => (Before(s)' <=> Before(s) \/ s = <<target, check>>)
        /\ prober' = "select" => Before(s) \/ s = <<target, check>>
    BY <1>1, <1>2, AdvanceMoves
  <2> QED
    BY <1>2, <2>1, <2>2, <2>3, <2>4
<1>4. TypeOK'
  <2>1. /\ requests' \in [Slots -> Nat] /\ failures' \in [Slots -> Nat] /\ timeouts' \in [Slots -> Nat]
        /\ \A s \in Slots : timeouts'[s] <= failures'[s] /\ failures'[s] <= requests'[s]
    <3>1. /\ requests' = [s \in Slots |-> requests'[s]]
          /\ failures' = [s \in Slots |-> failures'[s]]
          /\ timeouts' = [s \in Slots |-> timeouts'[s]]
      BY <1>1 DEF Record, DaemonInv, TypeOK
    <3>2. ASSUME NEW s \in Slots
          PROVE  /\ requests'[s] \in Nat /\ failures'[s] \in Nat /\ timeouts'[s] \in Nat
                 /\ timeouts'[s] <= failures'[s] /\ failures'[s] <= requests'[s]
      <4>1. requests[s] \in Nat /\ failures[s] \in Nat /\ timeouts[s] \in Nat
            /\ timeouts[s] <= failures[s] /\ failures[s] <= requests[s]
        BY DaemonConfig DEF DaemonInv, TypeOK
      <4> QED
        BY <1>1, <4>1, RecordCounts
    <3> QED
      BY <3>1, <3>2
  <2>2. \A s \in Slots : requests'[s] <= MaxRounds
    <3>1. rounds' \in 1..MaxRounds
      BY <1>2 DEF DaemonInv, TypeOK
    <3>2. \A s \in Slots : requests'[s] \in {rounds' - 1, rounds'}
      BY <1>3 DEF RoundsComplete
    <3> QED
      BY <3>1, <3>2, DaemonConfig
  <2>3. /\ requests' \in [Slots -> 0..MaxRounds]
        /\ failures' \in [Slots -> 0..MaxRounds]
        /\ timeouts' \in [Slots -> 0..MaxRounds]
    BY <2>1, <2>2, DaemonConfig
  <2>4. prober' \in {"probing", "select"} /\ <<target', check'>> \in Slots
        /\ left' \in 0..Timeout /\ doomed' \in {"no", "timeout", "cancelled"}
    BY <1>1, <1>2, AdvanceMoves
  <2> QED
    BY <1>2, <2>1, <2>3, <2>4 DEF DaemonInv, TypeOK
<1>5. NoCollateral'
  <2> SUFFICES ASSUME NEW s \in Slots, s[1] \in Healthy
               PROVE  timeouts'[s] = 0 /\ (~stopping' => failures'[s] = 0)
    BY DEF NoCollateral
  <2>1. timeouts[s] = 0 /\ (~stopping => failures[s] = 0)
    BY DEF DaemonInv, NoCollateral
  <2>2. s = <<target, check>> => outcome # "timeout" /\ (~stopping => outcome = "ok")
    <3> SUFFICES ASSUME target \in Healthy
                 PROVE  outcome # "timeout" /\ (~stopping => outcome = "ok")
      BY SlotIs
    <3>1. left = Timeout /\ left # 0 /\ doomed \in {"no", "cancelled"}
          /\ (doomed = "cancelled" => stopping)
      BY <1>2, DaemonConfig DEF DaemonInv, DoomExplained, TypeOK
    <3> QED
      BY <3>1 DEF Outcomes
  <2> QED
    BY <1>1, <1>2, <2>1, <2>2, RecordCounts
<1>6. TicksBounded'
  BY <1>2 DEF DaemonInv, TicksBounded
<1>7. DoomExplained'
  BY <1>1, <1>2, DaemonConfig DEF DaemonInv, DoomExplained, Advance, StartCheck, RoundEnds
<1> QED
  BY <1>3, <1>4, <1>5, <1>6, <1>7 DEF DaemonInv

\* A new round begins.
LEMMA SelectTickKeeps ==
  ASSUME DaemonInv, SelectTick
  PROVE  DaemonInv'
<1>1. /\ prober = "select" /\ pending /\ pending' = FALSE /\ rounds' = rounds + 1
      /\ prober' = "probing" /\ target' = 1 /\ check' = 1 /\ left' = Timeout
      /\ doomed' = IF stopping THEN "cancelled" ELSE "no"
      /\ UNCHANGED <<stopping, requests, failures, timeouts, server, scrapes, main>>
  BY DaemonConfig DEF SelectTick, StartCheck, counters, mainVars
<1>2. rounds \in 1..MaxRounds /\ rounds + 1 \in 1..MaxRounds
  BY <1>1, DaemonConfig DEF DaemonInv, TypeOK, TicksBounded
<1>3. TypeOK'
  <2>1. <<target', check'>> \in Slots
    BY <1>1, PlanTyped, SlotIs
  <2>2. left' \in 0..Timeout
    BY <1>1, DaemonConfig
  <2> QED
    BY <1>1, <1>2, <2>1, <2>2 DEF DaemonInv, TypeOK
<1>4. RoundsComplete'
  <2>1. ASSUME NEW s \in Slots PROVE ~Before(s)' /\ requests'[s] = rounds' - 1
    BY <1>1, <1>2, SlotIs, PlanTyped DEF Before, DaemonInv, RoundsComplete
  <2> QED
    BY <1>1, <2>1 DEF RoundsComplete
<1>5. NoCollateral' /\ TicksBounded' /\ DoomExplained'
  BY <1>1 DEF DaemonInv, NoCollateral, TicksBounded, DoomExplained
<1> QED
  BY <1>3, <1>4, <1>5 DEF DaemonInv

\* Steps that record nothing and begin no check.
LEMMA OthersKeep ==
  ASSUME DaemonInv,
         \/ TimePasses \/ TickerFires \/ SelectDone
         \/ Signal \/ ServerFails \/ BeginScrape \/ EndScrape
         \/ MainWakes \/ ShutdownReturns \/ Exit
         \/ UNCHANGED daemonVars
  PROVE  DaemonInv'
<1> USE DEF probeVars, counters, mainVars
<1>1. CASE TimePasses
  BY <1>1, DaemonConfig
  DEF TimePasses, DaemonInv, TypeOK, RoundsComplete, Before, NoCollateral, TicksBounded, DoomExplained
<1>2. CASE TickerFires
  BY <1>2 DEF TickerFires, DaemonInv, TypeOK, RoundsComplete, Before, NoCollateral, TicksBounded, DoomExplained
<1>3. CASE SelectDone
  BY <1>3 DEF SelectDone, DaemonInv, TypeOK, RoundsComplete, Before, NoCollateral, TicksBounded, DoomExplained
<1>4. CASE Signal
  BY <1>4 DEF Signal, DaemonInv, TypeOK, RoundsComplete, Before, NoCollateral, TicksBounded, DoomExplained
<1>5. CASE ServerFails
  BY <1>5, DaemonConfig
  DEF ServerFails, DaemonInv, TypeOK, RoundsComplete, Before, NoCollateral, TicksBounded, DoomExplained
<1>6. CASE BeginScrape \/ EndScrape
  <2>1. scrapes' \in 0..MaxScrapes
    BY <1>6, DaemonConfig DEF BeginScrape, EndScrape, DaemonInv, TypeOK
  <2> QED
    BY <1>6, <2>1 DEF BeginScrape, EndScrape,
         DaemonInv, TypeOK, RoundsComplete, Before, NoCollateral, TicksBounded, DoomExplained
<1>7. CASE MainWakes \/ ShutdownReturns \/ Exit
  BY <1>7 DEF MainWakes, ShutdownReturns, Exit,
       DaemonInv, TypeOK, RoundsComplete, Before, NoCollateral, TicksBounded, DoomExplained
<1>8. CASE UNCHANGED daemonVars
  BY <1>8 DEF daemonVars, DaemonInv, TypeOK, RoundsComplete, Before, NoCollateral, TicksBounded, DoomExplained
<1> QED
  BY <1>1, <1>2, <1>3, <1>4, <1>5, <1>6, <1>7, <1>8

\* Every step preserves the invariant.
LEMMA DaemonStep ==
  ASSUME DaemonInv, [Next]_daemonVars
  PROVE  DaemonInv'
  BY EndCheckKeeps, SelectTickKeeps, OthersKeep DEF Next, Prober, Main

\* The inductive invariant of the daemon, for any list of targets.
THEOREM DaemonInvariant == Spec => []DaemonInv
  BY DaemonInit, DaemonStep, PTL DEF Spec

\* The daemon's variables keep their types, and failures include timeouts.
THEOREM DaemonTypeCorrect == Spec => []TypeOK
  BY DaemonInvariant, PTL DEF DaemonInv

\* probeAll records every check of every target exactly once a round.
THEOREM RoundsAlwaysComplete == Spec => []RoundsComplete
  BY DaemonInvariant, PTL DEF DaemonInv

\* A slow or dead target never makes probeTarget record a timeout of a healthy
\* one, nor any failure before the daemon is told to stop.
THEOREM HealthyNeverBlamed == Spec => []NoCollateral
  BY DaemonInvariant, PTL DEF DaemonInv

===========================================================================
