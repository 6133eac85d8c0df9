------------------------------- MODULE Chaos -------------------------------
(***************************************************************************)
(* The ChaosController of one service (shared/autosre_shared/chaos.py):    *)
(* the control plane under /chaos, the latency and errors it injects into  *)
(* requests, and the background tasks that burn CPU and hold memory.       *)
(*                                                                         *)
(* The controller runs on one event loop; a step is what happens between   *)
(* two awaits.  A trigger only schedules its task, which starts later, and *)
(* a delayed request resumes in whatever configuration it then finds.      *)
(*                                                                         *)
(* Rates are floats, in units of 1/Whole, and a sum of two of them is      *)
(* rounded by up to Eps units.  (A double is a whole number of units for   *)
(* Whole = 2^1074, and Eps = Whole / 2^53 is half the distance of two      *)
(* doubles below 2.)  Memory is in units in which MemoryMax is the 256 MB  *)
(* cap and a size of 0 is a request smaller than one byte.  Requests on    *)
(* control paths return from apply_request_chaos at once and are left out, *)
(* as are chaos_events_total, the latency histogram and the lines the      *)
(* control plane writes to the log, none of which the controller reads.    *)
(***************************************************************************)
EXTENDS Integers, FiniteSetsExt

CONSTANTS
  Requests,     \* requests that may be in apply_request_chaos at a time
  Tasks,        \* background tasks that may exist at a time
  Latencies,    \* delay_seconds, 0 included
  Rates,        \* rate_percent, in units of 1/Whole
  Whole,        \* a rate of 100%
  Eps,          \* how far a sum of rates may be rounded
  Sizes,        \* size_bytes
  MemoryMax,    \* _MEMORY_MAX_BYTES
  MaxDecisions  \* length of the windows in which error decisions are counted

ASSUME ChaosConfig ==
  /\ IsFiniteSet(Tasks)
  /\ Latencies \subseteq Nat /\ 0 \in Latencies
  /\ Whole \in Nat \ {0} /\ Eps \in Nat
  /\ Rates \subseteq 0..Whole /\ 0 \in Rates
  /\ MemoryMax \in Nat
  /\ Sizes \subseteq 0..MemoryMax
  /\ MaxDecisions \in Nat \ {0}

VARIABLES
  latency_enabled, latency_seconds,
  error_enabled, error_rate, error_accumulator,
  cpu_running,
  memory_bytes,
  memory_blocks,   \* _memory_blocks, as how many blocks of each size it has
  chaos_active,    \* the gauge, by type
  sleeping,        \* the delay each request in asyncio.sleep asked for, or 0
  task,            \* the background tasks
  \* History, read by the properties only:
  decisions,       \* error decisions in the current window, which begins
                   \* when errors are configured or the last one is full
  demand,          \* sum of the rates of those decisions
  injected         \* errors injected by them

latencyVars == <<latency_enabled, latency_seconds>>
errorVars   == <<error_enabled, error_rate, error_accumulator>>
spreadVars  == <<decisions, demand, injected>>
memoryVars  == <<memory_bytes, memory_blocks>>
chaosVars   == <<latencyVars, errorVars, spreadVars, cpu_running, memoryVars,
                 chaos_active, sleeping, task>>

----------------------------------------------------------------------------
Modes == {"latency", "errors", "cpu", "memory"}

Flag(b) == IF b THEN 1 ELSE 0

\* A task slot that is free, and the two stages of a task.
NoTask == [work |-> "none", stage |-> "none", size |-> 0]
Scheduled(w, n) == [work |-> w, stage |-> "scheduled", size |-> n]
Running(w) == {t \in Tasks : task[t].work = w /\ task[t].stage = "running"}

\* Memory the running tasks really hold: each keeps its own reference.
Held == MapThenSumSet(LAMBDA t : task[t].size, Running("memory"))

\* The bytes of so many blocks of each size.
BytesOf(blocks) ==
  LET upTo[n \in 0..MemoryMax] ==
        IF n = 0 THEN 0
        ELSE upTo[n - 1] + (IF n \in Sizes THEN n * blocks[n] ELSE 0)
  IN  upTo[MemoryMax]

\* Memory the list of blocks accounts for.
Listed == BytesOf(memory_blocks)

----------------------------------------------------------------------------
Init ==
  /\ latency_enabled = FALSE /\ latency_seconds = 0
  /\ error_enabled = FALSE /\ error_rate = 0 /\ error_accumulator = 0
  /\ cpu_running = FALSE
  /\ memory_bytes = 0
  /\ memory_blocks = [n \in Sizes |-> 0]
  /\ chaos_active = [m \in Modes |-> 0]
  /\ sleeping = [r \in Requests |-> 0]
  /\ task = [t \in Tasks |-> NoTask]
  /\ decisions = 0 /\ demand = 0 /\ injected = 0

(***************************************************************************)
(* The control plane.                                                      *)
(***************************************************************************)

\* POST /chaos/latency
SetLatency(enable, delay) ==
  /\ latency_enabled' = enable
  /\ latency_seconds' = IF enable THEN delay ELSE 0
  /\ chaos_active' = [chaos_active EXCEPT !["latency"] = Flag(enable)]
  /\ UNCHANGED <<errorVars, spreadVars, cpu_running, memoryVars, sleeping, task>>

\* POST /chaos/errors
SetErrors(enable, rate) ==
  /\ error_enabled' = enable
  /\ error_rate' = IF enable THEN rate ELSE 0
  /\ error_accumulator' = 0
  /\ chaos_active' = [chaos_active EXCEPT !["errors"] = Flag(enable)]
  /\ decisions' = 0 /\ demand' = 0 /\ injected' = 0
  /\ UNCHANGED <<latencyVars, cpu_running, memoryVars, sleeping, task>>

\* POST /chaos/cpu schedules a task.
TriggerCpu(t) ==
  /\ task[t] = NoTask
  /\ task' = [task EXCEPT ![t] = Scheduled("cpu", 0)]
  /\ UNCHANGED <<latencyVars, errorVars, spreadVars, cpu_running, memoryVars,
                 chaos_active, sleeping>>

\* POST /chaos/memory: refused (400) beyond the cap, else scheduled.
TriggerMemory(t, n) ==
  /\ task[t] = NoTask
  /\ memory_bytes + n <= MemoryMax
  /\ task' = [task EXCEPT ![t] = Scheduled("memory", n)]
  /\ UNCHANGED <<latencyVars, errorVars, spreadVars, cpu_running, memoryVars,
                 chaos_active, sleeping>>

\* Mutant: reset forgets the gauge of the error mode.
ResetLeavesGauge ==
  /\ latency_enabled' = FALSE /\ latency_seconds' = 0
  /\ error_enabled' = FALSE /\ error_rate' = 0 /\ error_accumulator' = 0
  /\ decisions' = 0 /\ demand' = 0 /\ injected' = 0
  /\ memory_blocks' = [n \in Sizes |-> 0]
  /\ memory_bytes' = 0
  /\ chaos_active' = [chaos_active EXCEPT !["latency"] = 0, !["memory"] = 0]
  /\ UNCHANGED <<cpu_running, sleeping, task>>

\* Mutant: reset clears the list but not memory_bytes.
ResetKeepsBytes ==
  /\ latency_enabled' = FALSE /\ latency_seconds' = 0
  /\ error_enabled' = FALSE /\ error_rate' = 0 /\ error_accumulator' = 0
  /\ decisions' = 0 /\ demand' = 0 /\ injected' = 0
  /\ memory_blocks' = [n \in Sizes |-> 0]
  /\ chaos_active' = [chaos_active EXCEPT !["latency"] = 0, !["errors"] = 0]
  /\ UNCHANGED <<cpu_running, memory_bytes, sleeping, task>>

\* POST /chaos/reset
Reset ==
  /\ latency_enabled' = FALSE /\ latency_seconds' = 0
  /\ error_enabled' = FALSE /\ error_rate' = 0 /\ error_accumulator' = 0
  /\ decisions' = 0 /\ demand' = 0 /\ injected' = 0
  /\ memory_blocks' = [n \in Sizes |-> 0]
  /\ memory_bytes' = 0
  /\ chaos_active' = [chaos_active EXCEPT !["latency"] = 0, !["errors"] = 0, !["memory"] = 0]
  /\ UNCHANGED <<cpu_running, sleeping, task>>

(***************************************************************************)
(* The data plane: apply_request_chaos.                                    *)
(***************************************************************************)

\* What error_accumulator + error_rate may be rounded to.  Rounding is exact
\* when one of them is zero and monotonic otherwise, so the sum is not below
\* either of them and, with a rate below one, stays below two.
RoundedSums ==
  LET exact == error_accumulator + error_rate IN
  IF error_accumulator = 0
    THEN {exact}
    ELSE {sum \in (exact - Eps)..(exact + Eps) :
            sum >= error_accumulator /\ sum >= error_rate /\ sum < 2 * Whole}

\* One decision more in the window that is being counted, or in a new one.
CountDecision(inject) ==
  LET full == decisions = MaxDecisions IN
  /\ decisions' = IF full THEN 1 ELSE decisions + 1
  /\ demand' = IF full THEN error_rate ELSE demand + error_rate
  /\ injected' = IF full THEN Flag(inject) ELSE injected + Flag(inject)

\* Mutant: the accumulator is cleared after an error instead of reduced by one.
ShouldInjectErrorDropsRest(inject) ==
  IF error_enabled /\ error_rate > 0
    THEN /\ \E sum \in RoundedSums :
              /\ inject <=> sum >= Whole
              /\ error_accumulator' = IF inject THEN 0 ELSE sum
         /\ CountDecision(inject)
         /\ UNCHANGED <<error_enabled, error_rate>>
    ELSE ~inject /\ UNCHANGED <<errorVars, spreadVars>>

\* should_inject_error, when it returns inject.  Taking one off the
\* accumulator is exact: it is between one and two.
ShouldInjectError(inject) ==
  IF error_enabled /\ error_rate > 0
    THEN /\ \E sum \in RoundedSums :
              /\ inject <=> sum >= Whole
              /\ error_accumulator' = IF inject THEN sum - Whole ELSE sum
         /\ CountDecision(inject)
         /\ UNCHANGED <<error_enabled, error_rate>>
    ELSE ~inject /\ UNCHANGED <<errorVars, spreadVars>>

\* A request that is not delayed is decided at once.
PassThrough(r) ==
  /\ sleeping[r] = 0
  /\ ~(latency_enabled /\ latency_seconds > 0)
  /\ \E inject \in BOOLEAN : ShouldInjectError(inject)
  /\ UNCHANGED <<latencyVars, cpu_running, memoryVars, chaos_active, sleeping, task>>

\* A request is delayed: await asyncio.sleep(s.latency_seconds).
Delay(r) ==
  /\ sleeping[r] = 0
  /\ latency_enabled /\ latency_seconds > 0
  /\ sleeping' = [sleeping EXCEPT ![r] = latency_seconds]
  /\ UNCHANGED <<latencyVars, errorVars, spreadVars, cpu_running, memoryVars,
                 chaos_active, task>>

\* It wakes up and is decided by what is configured by then.
Resume(r) ==
  /\ sleeping[r] > 0
  /\ sleeping' = [sleeping EXCEPT ![r] = 0]
  /\ \E inject \in BOOLEAN : ShouldInjectError(inject)
  /\ UNCHANGED <<latencyVars, cpu_running, memoryVars, chaos_active, task>>

(***************************************************************************)
(* The background tasks.                                                   *)
(***************************************************************************)

StartTask(t, w) ==
  /\ task[t].work = w /\ task[t].stage = "scheduled"
  /\ task' = [task EXCEPT ![t].stage = "running"]

\* Mutant: no done callback discards the task, which is kept for ever.
EndTaskLeaks(t, w) == t \in Running(w) /\ UNCHANGED task

EndTask(t, w) == t \in Running(w) /\ task' = [task EXCEPT ![t] = NoTask]

\* _run_cpu up to the await of the burning thread.
StartCpu(t) ==
  /\ StartTask(t, "cpu")
  /\ cpu_running' = TRUE
  /\ chaos_active' = [chaos_active EXCEPT !["cpu"] = 1]
  /\ UNCHANGED <<latencyVars, errorVars, spreadVars, memoryVars, sleeping>>

\* ... and its finally block.
FinishCpu(t) ==
  /\ EndTask(t, "cpu")
  /\ cpu_running' = FALSE
  /\ chaos_active' = [chaos_active EXCEPT !["cpu"] = 0]
  /\ UNCHANGED <<latencyVars, errorVars, spreadVars, memoryVars, sleeping>>

\* _run_memory up to the await of the hold time.
StartMemory(t) ==
  LET n == task[t].size IN
  /\ StartTask(t, "memory")
  /\ memory_blocks' = [memory_blocks EXCEPT ![n] = @ + 1]
  /\ memory_bytes' = memory_bytes + n
  /\ chaos_active' = [chaos_active EXCEPT !["memory"] = 1]
  /\ UNCHANGED <<latencyVars, errorVars, spreadVars, cpu_running, sleeping>>

\* Mutant: memory_bytes is reduced without the max(0, ...).
FinishMemoryNoFloor(t) ==
  LET n == task[t].size IN
  /\ EndTask(t, "memory")
  /\ memory_blocks' = [memory_blocks EXCEPT ![n] = IF @ > 0 THEN @ - 1 ELSE 0]
  /\ memory_bytes' = memory_bytes - n
  /\ chaos_active' = IF memory_bytes' <= 0 THEN [chaos_active EXCEPT !["memory"] = 0] ELSE chaos_active
  /\ UNCHANGED <<latencyVars, errorVars, spreadVars, cpu_running, sleeping>>

\* ... and its finally block.  list.remove compares bytearrays by content, so
\* it takes any block of the same size, or none after a reset.
FinishMemory(t) ==
  LET n == task[t].size IN
  /\ EndTask(t, "memory")
  /\ memory_blocks' = [memory_blocks EXCEPT ![n] = IF @ > 0 THEN @ - 1 ELSE 0]
  /\ memory_bytes' = IF memory_bytes > n THEN memory_bytes - n ELSE 0
  /\ chaos_active' = IF memory_bytes' = 0 THEN [chaos_active EXCEPT !["memory"] = 0] ELSE chaos_active
  /\ UNCHANGED <<latencyVars, errorVars, spreadVars, cpu_running, sleeping>>

Trigger(t) == TriggerCpu(t) \/ \E n \in Sizes : TriggerMemory(t, n)

Progress(t) == StartCpu(t) \/ FinishCpu(t) \/ StartMemory(t) \/ FinishMemory(t)

Next ==
  \/ \E enable \in BOOLEAN, delay \in Latencies : SetLatency(enable, delay)
  \/ \E enable \in BOOLEAN, rate \in Rates : SetErrors(enable, rate)
  \/ Reset
  \/ \E r \in Requests : PassThrough(r) \/ Delay(r) \/ Resume(r)
  \/ \E t \in Tasks : Trigger(t) \/ Progress(t)

Spec == Init /\ [][Next]_chaosVars

----------------------------------------------------------------------------
(***************************************************************************)
(* Properties.                                                             *)
(***************************************************************************)

\* Every variable has its type.
TypeOK ==
  /\ latency_enabled \in BOOLEAN /\ latency_seconds \in Latencies
  /\ error_enabled \in BOOLEAN /\ error_rate \in Rates
  /\ error_accumulator \in 0..(Whole - 1)
  /\ cpu_running \in BOOLEAN
  /\ memory_bytes \in Nat
  /\ memory_blocks \in [Sizes -> Nat]
  /\ chaos_active \in [Modes -> {0, 1}]
  /\ sleeping \in [Requests -> Latencies]
  /\ task \in [Tasks -> [work : {"none", "cpu", "memory"},
                         stage : {"none", "scheduled", "running"},
                         size : Sizes \cup {0}]]
  /\ decisions \in 0..MaxDecisions /\ demand \in Nat /\ injected \in Nat

\* should_inject_error is a "deterministic, evenly-spread error decision": in
\* a window of requests decided under one configuration, delayed ones resuming
\* in any order, the errors are less than one off the rate times the requests,
\* but for what the additions were rounded by (at 10% the first ten requests
\* may all pass, ten times 0.1 being rounded to less than one).  A rate of
\* 100% fails every one of them.
ErrorsEvenlySpread ==
  /\ demand - injected * Whole < Whole + decisions * Eps
  /\ injected * Whole - demand < Whole + decisions * Eps
  /\ error_rate = Whole => injected = decisions

\* The gauges never disagree with the state /chaos/status reports.
GaugesFollowState ==
  /\ chaos_active["latency"] = Flag(latency_enabled)
  /\ chaos_active["errors"] = Flag(error_enabled)
  /\ chaos_active["cpu"] = Flag(cpu_running)
  /\ memory_bytes > 0 => chaos_active["memory"] = 1
  /\ chaos_active["memory"] = 1 =>
       memory_bytes > 0 \/ \E t \in Running("memory") : task[t].size = 0

\* Nothing is reported that does not exist: a running CPU burn has a task, the
\* list holds no more blocks of a size than there are tasks holding one, and
\* memory_bytes stays within the list, whatever resets happened between the
\* start and the end of a task.
NoPhantomWork ==
  /\ cpu_running => Running("cpu") # {}
  /\ \A n \in Sizes :
       memory_blocks[n] <= Cardinality({t \in Running("memory") : task[t].size = n})
  /\ memory_bytes <= Listed

\* The CPU and memory injectors revert themselves: once nothing is triggered
\* any more, no task, no byte and no active gauge of theirs remains.
WorkloadsEnd ==
  <>[][~\E t \in Tasks : Trigger(t)]_chaosVars =>
    <>[](/\ \A t \in Tasks : task[t] = NoTask
         /\ memory_bytes = 0 /\ ~cpu_running
         /\ \A n \in Sizes : memory_blocks[n] = 0
         /\ chaos_active["cpu"] = 0 /\ chaos_active["memory"] = 0)

\* README.md, /chaos/memory: "Allocate and hold memory (<= 256 MB, ...)".
MemoryCapped == Held <= MemoryMax

============================================================================
