---------------------------- MODULE WorkerProofs ----------------------------
(***************************************************************************)
(* Proofs about Chaos and Worker, for any number of requests and tasks and *)
(* every set of delays, rates and sizes.                                   *)
(*                                                                         *)
(* That errors are evenly spread is not inductive: what has to be carried  *)
(* from step to step is that the accumulator holds the part of the demand  *)
(* that was not injected yet, but for what its additions were rounded by   *)
(* (SpreadCarried), and that it is empty at a rate of 100%.  That memory_bytes is within *)
(* the list of blocks needs the list to be a sum: a block more or less of  *)
(* one size changes it by that size (BytesChange), and a task that ends    *)
(* after a reset finds no block and takes off what is left, at most.       *)
(***************************************************************************)
EXTENDS Worker, FiniteSetTheorems, TLAPS

----------------------------------------------------------------------------
(***************************************************************************)
(* Sums.                                                                   *)
(***************************************************************************)

\* Induction, with the numbers that have the property as a set.
LEMMA NatSet ==
  ASSUME NEW S, 0 \in S, \A n \in Nat : n \in S => n + 1 \in S
  PROVE  Nat \subseteq S
<1> SUFFICES ASSUME Nat \ S # {} PROVE FALSE
  OBVIOUS
<1> DEFINE R == OpToRel(<, Nat)
<1>1. IsWellFoundedOn(R, Nat)
  BY NatLessThanWellFounded
<1>2. PICK x \in Nat \ S : \A y \in Nat \ S : <<y, x>> \notin R
  <2> HIDE DEF R
  <2> QED
    BY <1>1, WFMin
<1>3. \A y \in Nat \ S : ~(y < x)
  BY <1>2 DEF OpToRel
<1>4. x # 0 /\ x - 1 \in Nat
  OBVIOUS
<1> QED
  BY <1>3, <1>4

\* f holds the sums of the first m values of w.
SumsOf(f, w, m) ==
  /\ f \in [0..m -> Nat]
  /\ f[0] = 0
  /\ \A k \in 1..m : f[k] = f[k - 1] + w[k]

\* Every list of values has its sums.
LEMMA SumsExist ==
  ASSUME NEW w \in [Nat -> Nat], NEW m \in Nat
  PROVE  \E f : SumsOf(f, w, m)
<1> DEFINE S == {n \in Nat : \E f : SumsOf(f, w, n)}
<1>1. 0 \in S
  <2>1. SumsOf([k \in 0..0 |-> 0], w, 0)
    BY DEF SumsOf
  <2> QED
    BY <2>1
<1>2. ASSUME NEW n \in Nat, n \in S PROVE n + 1 \in S
  <2>1. PICK f : SumsOf(f, w, n)
    BY <1>2
  <2> DEFINE g == [k \in 0..(n + 1) |-> IF k = n + 1 THEN f[n] + w[n + 1] ELSE f[k]]
  <2>2. SumsOf(g, w, n + 1)
    <3>1. f \in [0..n -> Nat] /\ f[0] = 0 /\ \A k \in 1..n : f[k] = f[k - 1] + w[k]
      BY <2>1 DEF SumsOf
    <3>2. g \in [0..(n + 1) -> Nat] /\ g[0] = 0
      <4>1. f[n] + w[n + 1] \in Nat
        BY <3>1
      <4>2. ASSUME NEW k \in 0..(n + 1), k # n + 1 PROVE f[k] \in Nat
        <5>1. k \in 0..n
          BY <4>2
        <5> QED
          BY <3>1, <5>1
      <4>3. g \in [0..(n + 1) -> Nat]
        BY <4>1, <4>2
      <4>4. 0 \in 0..(n + 1) /\ 0 # n + 1
        OBVIOUS
      <4> QED
        BY <3>1, <4>3, <4>4
    <3>3. ASSUME NEW k \in 1..(n + 1) PROVE g[k] = g[k - 1] + w[k]
      <4>1. CASE k = n + 1
        BY <3>1, <4>1
      <4>2. CASE k # n + 1
        <5>1. k \in 1..n /\ k \in 0..(n + 1) /\ k - 1 \in 0..(n + 1) /\ k - 1 # n + 1
          BY <4>2
        <5> QED
          BY <3>1, <4>2, <5>1
      <4> QED
        BY <4>1, <4>2
    <3> QED
      BY <3>2, <3>3 DEF SumsOf
  <2> QED
    BY <2>2
<1>3. Nat \subseteq S
  <2> HIDE DEF S
  <2> QED
    BY <1>1, <1>2, NatSet
<1> QED
  BY <1>3

\* Changing one value changes the sum by as much.
LEMMA SumsUpdate ==
  ASSUME NEW w \in [Nat -> Nat], NEW v \in [Nat -> Nat], NEW m \in Nat,
         NEW f, SumsOf(f, w, m), NEW g, SumsOf(g, v, m),
         NEW n \in 0..m, \A k \in 1..m : k # n => v[k] = w[k]
  PROVE  g[m] = f[m] + (IF n = 0 THEN 0 ELSE v[n] - w[n])
<1> DEFINE d(j) == IF n = 0 \/ j < n THEN 0 ELSE v[n] - w[n]
           S == {j \in Nat : j <= m => g[j] = f[j] + d(j)}
<1>0. n \in Nat /\ v[n] \in Nat /\ w[n] \in Nat
  OBVIOUS
<1>1. 0 \in S
  <2>1. g[0] = 0 /\ f[0] = 0
    BY DEF SumsOf
  <2>2. d(0) = 0
    BY <1>0
  <2> QED
    BY <2>1, <2>2
<1>2. ASSUME NEW j \in Nat, j \in S PROVE j + 1 \in S
  <2> SUFFICES ASSUME j + 1 <= m PROVE g[j + 1] = f[j + 1] + d(j + 1)
    OBVIOUS
  <2>0. j + 1 \in 1..m /\ (j + 1) - 1 = j /\ j \in 0..m
    OBVIOUS
  <2>1. g[j] = f[j] + d(j)
    BY <1>2
  <2>2. g[j + 1] = g[j] + v[j + 1] /\ f[j + 1] = f[j] + w[j + 1]
    BY <2>0 DEF SumsOf
  <2>3. g[j] \in Nat /\ f[j] \in Nat /\ v[j + 1] \in Nat /\ w[j + 1] \in Nat
    <3>1. g \in [0..m -> Nat] /\ f \in [0..m -> Nat]
      BY DEF SumsOf
    <3>2. g[j] \in Nat /\ f[j] \in Nat
      BY <2>0, <3>1
    <3>3. v[j + 1] \in Nat /\ w[j + 1] \in Nat
      OBVIOUS
    <3> QED
      BY <3>2, <3>3
  <2>4. j + 1 # n => v[j + 1] = w[j + 1] /\ d(j + 1) = d(j)
    BY <1>0, <2>0
  <2>5. j + 1 = n => d(j) = 0 /\ d(j + 1) = v[j + 1] - w[j + 1]
    BY <1>0, <2>0
  <2>6. d(j) \in Int /\ d(j + 1) \in Int
    BY <1>0
  <2> HIDE DEF d
  <2> QED
    BY <2>1, <2>2, <2>3, <2>4, <2>5, <2>6
<1>3. Nat \subseteq S
  <2> HIDE DEF S
  <2> QED
    BY <1>1, <1>2, NatSet
<1>4. g[m] = f[m] + d(m)
  BY <1>3
<1> QED
  BY <1>0, <1>4

\* The bytes of the blocks of each size.
Weights(blocks) == [n \in Nat |-> IF n \in Sizes THEN n * blocks[n] ELSE 0]

\* The bytes of a size are a number.
LEMMA WeightsTyped ==
  ASSUME NEW b \in [Sizes -> Nat]
  PROVE  Weights(b) \in [Nat -> Nat]
<1>1. ASSUME NEW x \in Nat, NEW y \in Nat PROVE x * y \in Nat
  BY SMT
<1> QED
  BY <1>1 DEF Weights

\* BytesOf is the last of the sums of the weights.
LEMMA BytesAreSum ==
  ASSUME NEW b \in [Sizes -> Nat]
  PROVE  \E f : SumsOf(f, Weights(b), MemoryMax) /\ BytesOf(b) = f[MemoryMax]
<1> DEFINE w == Weights(b)
           e(n) == IF n \in Sizes THEN n * b[n] ELSE 0
           F(h) == [n \in 0..MemoryMax |-> IF n = 0 THEN 0 ELSE h[n - 1] + e(n)]
           upTo == CHOOSE h : h = F(h)
<1>0. MemoryMax \in Nat /\ w \in [Nat -> Nat]
  BY WeightsTyped, ChaosConfig
<1>1. PICK f : SumsOf(f, w, MemoryMax)
  BY <1>0, SumsExist
<1>2. \A n \in Nat : w[n] = e(n)
  BY DEF Weights
<1>3. BytesOf(b) = upTo[MemoryMax]
  BY DEF BytesOf
<1> HIDE DEF w, e
<1>4. f = F(f)
  <2>0. f \in [0..MemoryMax -> Nat] /\ f[0] = 0 /\ \A k \in 1..MemoryMax : f[k] = f[k - 1] + w[k]
    BY <1>1 DEF SumsOf
  <2>1. ASSUME NEW n \in 0..MemoryMax PROVE f[n] = IF n = 0 THEN 0 ELSE f[n - 1] + e(n)
    <3>1. CASE n = 0
      BY <2>0, <3>1
    <3>2. CASE n # 0
      <4>1. n \in 1..MemoryMax /\ n \in Nat
        BY <1>0, <3>2
      <4> QED
        BY <1>2, <2>0, <3>2, <4>1
    <3> QED
      BY <3>1, <3>2
  <2> QED
    BY <2>0, <2>1
<1>5. upTo = F(upTo)
  <2> HIDE DEF F
  <2> QED
    BY <1>4
<1> HIDE DEF upTo
<1>6. upTo[0] = 0 /\ \A k \in 1..MemoryMax : upTo[k] = upTo[k - 1] + w[k]
  <2>1. \A n \in 0..MemoryMax : upTo[n] = IF n = 0 THEN 0 ELSE upTo[n - 1] + e(n)
    BY <1>5
  <2>2. 0 \in 0..MemoryMax /\ \A k \in 1..MemoryMax : k \in 0..MemoryMax /\ k # 0 /\ k \in Nat
    BY <1>0
  <2> QED
    BY <1>2, <2>1, <2>2
<1> DEFINE S == {k \in Nat : k <= MemoryMax => upTo[k] = f[k]}
<1>7. 0 \in S
  BY <1>1, <1>6 DEF SumsOf
<1>8. ASSUME NEW k \in Nat, k \in S PROVE k + 1 \in S
  <2> SUFFICES ASSUME k + 1 <= MemoryMax PROVE upTo[k + 1] = f[k + 1]
    OBVIOUS
  <2>1. k + 1 \in 1..MemoryMax /\ (k + 1) - 1 = k /\ upTo[k] = f[k]
    BY <1>0, <1>8
  <2> QED
    BY <1>1, <1>6, <2>1 DEF SumsOf
<1>9. Nat \subseteq S
  <2> HIDE DEF S
  <2> QED
    BY <1>7, <1>8, NatSet
<1>10. BytesOf(b) = f[MemoryMax]
  BY <1>0, <1>3, <1>9
<1> QED
  BY <1>1, <1>10 DEF w

\* A block more or less of size n changes the bytes by n.
LEMMA BytesChange ==
  ASSUME NEW b \in [Sizes -> Nat], NEW n \in Sizes, NEW x \in Nat
  PROVE  /\ BytesOf(b) \in Nat
         /\ BytesOf([b EXCEPT ![n] = x]) = BytesOf(b) + n * x - n * b[n]
         /\ n * x \in Nat /\ n * b[n] \in Nat
<1> DEFINE c == [b EXCEPT ![n] = x]
<1>0. MemoryMax \in Nat /\ n \in 0..MemoryMax /\ n \in Nat /\ b[n] \in Nat
  BY ChaosConfig
<1>1. \A y, z \in Nat : y * z \in Nat
  BY SMT
<1>2. c \in [Sizes -> Nat] /\ c[n] = x /\ \A k \in Sizes : k # n => c[k] = b[k]
  OBVIOUS
<1>3. Weights(b) \in [Nat -> Nat] /\ Weights(c) \in [Nat -> Nat]
  BY <1>2, WeightsTyped
<1>4. Weights(b)[n] = n * b[n] /\ Weights(c)[n] = n * x
  BY <1>0, <1>2 DEF Weights
<1>5. \A k \in 1..MemoryMax : k # n => Weights(c)[k] = Weights(b)[k]
  BY <1>0, <1>2 DEF Weights
<1>6. PICK f : SumsOf(f, Weights(b), MemoryMax) /\ BytesOf(b) = f[MemoryMax]
  BY BytesAreSum
<1>7. PICK g : SumsOf(g, Weights(c), MemoryMax) /\ BytesOf(c) = g[MemoryMax]
  <2> HIDE DEF c
  <2> QED
    BY <1>2, BytesAreSum
<1> HIDE DEF c
<1>8. BytesOf(b) \in Nat
  BY <1>0, <1>6 DEF SumsOf
<1>9. g[MemoryMax] = f[MemoryMax] + (IF n = 0 THEN 0 ELSE Weights(c)[n] - Weights(b)[n])
  BY <1>0, <1>3, <1>5, <1>6, <1>7, SumsUpdate
<1>10. n * x \in Nat /\ n * b[n] \in Nat /\ (n = 0 => n * x = 0 /\ n * b[n] = 0)
  <2>1. \A z \in Nat : 0 * z = 0
    BY SMT
  <2> QED
    BY <1>0, <1>1, <2>1
<1>11. BytesOf(c) = BytesOf(b) + n * x - n * b[n]
  <2> DEFINE u == n * x
             v == n * b[n]
  <2>1. u \in Nat /\ v \in Nat /\ (n = 0 => u = 0 /\ v = 0)
    BY <1>10
  <2>2. BytesOf(c) = BytesOf(b) + (IF n = 0 THEN 0 ELSE u - v)
    BY <1>4, <1>6, <1>7, <1>9
  <2> HIDE DEF u, v
  <2>3. BytesOf(c) = BytesOf(b) + u - v
    BY <1>8, <2>1, <2>2
  <2> QED
    BY <2>3 DEF u, v
<1> QED
  BY <1>8, <1>10, <1>11 DEF c

\* No blocks, no bytes.
LEMMA NoBytes == BytesOf([n \in Sizes |-> 0]) \in Nat
  BY BytesAreSum, ChaosConfig DEF SumsOf

----------------------------------------------------------------------------
(***************************************************************************)
(* The inductive invariant of the controller.                              *)
(***************************************************************************)

\* A task that holds memory holds a size that was asked for.
SizesAsked == \A t \in Tasks : task[t].work = "memory" => task[t].size \in Sizes

\* What was asked for in the window, less what was injected, is the part of
\* the accumulator that came in since the window began, give or take Eps for
\* every decision of the window.
SpreadCarried ==
  /\ demand - injected * Whole <= error_accumulator + decisions * Eps
  /\ error_accumulator - (demand - injected * Whole) < Whole + decisions * Eps
  /\ error_rate = Whole => error_accumulator = 0 /\ injected = decisions

ChaosInv == TypeOK /\ SizesAsked /\ SpreadCarried /\ GaugesFollowState /\ NoPhantomWork

\* The tasks that hold n bytes each.
Holding(n) == {t \in Running("memory") : task[t].size = n}

TaskRecord ==
  [work : {"none", "cpu", "memory"}, stage : {"none", "scheduled", "running"},
   size : Sizes \cup {0}]

\* One error, or one decision, more in a product.
LEMMA OneMore ==
  ASSUME NEW a \in Nat
  PROVE  /\ (a + 1) * Whole = a * Whole + Whole /\ a * Whole \in Nat
         /\ (a + 1) * Eps = a * Eps + Eps /\ a * Eps \in Nat
         /\ 0 * Whole = 0 /\ 1 * Whole = Whole /\ 0 * Eps = 0 /\ 1 * Eps = Eps
  BY ChaosConfig, SMT

\* A rounded sum is within Eps of the exact one, not below what was added to
\* it, and below two.
LEMMA RoundedSum ==
  ASSUME TypeOK, SpreadCarried, NEW sum \in RoundedSums
  PROVE  /\ sum \in Nat /\ sum < 2 * Whole /\ error_rate <= sum
         /\ sum <= error_accumulator + error_rate + Eps
         /\ error_accumulator + error_rate <= sum + Eps
         /\ error_rate = Whole => sum = Whole
<1>1. /\ error_accumulator \in 0..(Whole - 1) /\ error_rate \in 0..Whole /\ Whole \in Nat
      /\ Eps \in Nat /\ Whole > 0
  BY ChaosConfig DEF TypeOK
<1>2. CASE error_accumulator = 0
  BY <1>1, <1>2 DEF RoundedSums
<1>3. CASE error_accumulator # 0
  BY <1>1, <1>3 DEF RoundedSums, SpreadCarried
<1> QED
  BY <1>2, <1>3

\* Nothing is configured and no task exists.
LEMMA ChaosInit == Init => ChaosInv
<1> SUFFICES ASSUME Init PROVE ChaosInv
  OBVIOUS
<1>1. NoTask \in TaskRecord
  BY DEF NoTask, TaskRecord
<1>2. TypeOK
  <2>1. latency_seconds \in Latencies /\ error_rate \in Rates
        /\ error_accumulator \in 0..(Whole - 1) /\ decisions \in 0..MaxDecisions
    BY ChaosConfig DEF Init
  <2>2. sleeping \in [Requests -> Latencies] /\ memory_blocks \in [Sizes -> Nat]
        /\ chaos_active \in [Modes -> {0, 1}]
    BY ChaosConfig DEF Init
  <2>3. task \in [Tasks -> TaskRecord]
    BY <1>1 DEF Init
  <2> QED
    BY <2>1, <2>2, <2>3 DEF Init, TypeOK, TaskRecord
<1>3. SizesAsked /\ \A w \in {"cpu", "memory"} : Running(w) = {}
  BY DEF Init, SizesAsked, NoTask, Running
<1>4. SpreadCarried
  BY OneMore, ChaosConfig DEF Init, SpreadCarried
<1>5. GaugesFollowState
  BY DEF Init, GaugesFollowState, Modes, Flag
<1>6. NoPhantomWork
  <2>1. \A n \in Sizes : {t \in Running("memory") : task[t].size = n} = {}
    BY <1>3
  <2>2. memory_bytes <= Listed
    BY NoBytes DEF Init, Listed
  <2>3. ASSUME NEW n \in Sizes
        PROVE  memory_blocks[n] <= Cardinality({t \in Running("memory") : task[t].size = n})
    <3>1. Cardinality({t \in Running("memory") : task[t].size = n}) = 0
      BY <2>1, FS_EmptySet
    <3>2. memory_blocks[n] = 0
      BY DEF Init
    <3> QED
      BY <3>1, <3>2
  <2>4. ~cpu_running
    BY DEF Init
  <2> QED
    BY <2>2, <2>3, <2>4 DEF NoPhantomWork
<1> QED
  BY <1>2, <1>3, <1>4, <1>5, <1>6 DEF ChaosInv

----------------------------------------------------------------------------
(***************************************************************************)
(* Errors.                                                                 *)
(***************************************************************************)

\* should_inject_error carries the rest over.
LEMMA InjectKeeps ==
  ASSUME TypeOK, SpreadCarried, NEW inject \in BOOLEAN, ShouldInjectError(inject)
  PROVE  /\ error_enabled' = error_enabled /\ error_rate' = error_rate
         /\ error_accumulator' \in 0..(Whole - 1)
         /\ decisions' \in 0..MaxDecisions /\ demand' \in Nat /\ injected' \in Nat
         /\ SpreadCarried'
<1> USE ChaosConfig
<1>0. /\ error_accumulator \in 0..(Whole - 1) /\ error_rate \in 0..Whole /\ Whole \in Nat
      /\ decisions \in 0..MaxDecisions /\ demand \in Nat /\ injected \in Nat /\ Eps \in Nat
  BY DEF TypeOK
<1>1. CASE ~(error_enabled /\ error_rate > 0)
  BY <1>0, <1>1 DEF ShouldInjectError, errorVars, spreadVars, SpreadCarried
<1>2. CASE error_enabled /\ error_rate > 0
  <2> DEFINE full == decisions = MaxDecisions
             flag == IF inject THEN 1 ELSE 0
             p == injected * Whole
             q == injected' * Whole
             d == decisions * Eps
             e == decisions' * Eps
  <2>1. PICK sum \in RoundedSums :
          /\ inject <=> sum >= Whole
          /\ error_accumulator' = IF inject THEN sum - Whole ELSE sum
    BY <1>2 DEF ShouldInjectError
  <2>2. /\ UNCHANGED <<error_enabled, error_rate>>
        /\ decisions' = IF full THEN 1 ELSE decisions + 1
        /\ demand' = IF full THEN error_rate ELSE demand + error_rate
        /\ injected' = IF full THEN flag ELSE injected + flag
    BY <1>2 DEF ShouldInjectError, CountDecision, Flag
  <2>3. /\ sum \in Nat /\ sum < 2 * Whole /\ error_rate <= sum
        /\ sum <= error_accumulator + error_rate + Eps
        /\ error_accumulator + error_rate <= sum + Eps
        /\ error_rate = Whole => sum = Whole
    BY RoundedSum
  <2>4. error_accumulator' \in 0..(Whole - 1)
    BY <1>0, <2>1, <2>3
  <2>5. decisions' \in 0..MaxDecisions /\ demand' \in Nat /\ injected' \in Nat
    BY <1>0, <2>2
  <2>6. p \in Nat /\ q = IF full THEN (IF inject THEN Whole ELSE 0)
                         ELSE p + (IF inject THEN Whole ELSE 0)
    BY <1>0, <2>2, OneMore
  <2>7. d \in Nat /\ e = IF full THEN Eps ELSE d + Eps
    BY <1>0, <2>2, OneMore
  <2>8. demand - p <= error_accumulator + d /\ error_accumulator - (demand - p) < Whole + d
    BY DEF SpreadCarried
  <2>9. error_rate' = Whole => error_accumulator' = 0 /\ injected' = decisions'
    BY <1>0, <2>1, <2>2, <2>3 DEF SpreadCarried
  <2> HIDE DEF p, q, d, e
  <2>10. demand' - q <= error_accumulator' + e /\ error_accumulator' - (demand' - q) < Whole + e
    BY <1>0, <2>1, <2>2, <2>3, <2>6, <2>7, <2>8
  <2>11. SpreadCarried'
    BY <2>9, <2>10 DEF SpreadCarried, q, e
  <2> QED
    BY <2>2, <2>4, <2>5, <2>11
<1> QED
  BY <1>1, <1>2

\* A step that makes a decision and leaves everything else alone.
LEMMA DecisionKeeps ==
  ASSUME ChaosInv, NEW inject \in BOOLEAN, ShouldInjectError(inject),
         sleeping' \in [Requests -> Latencies],
         UNCHANGED <<latencyVars, cpu_running, memoryVars, chaos_active, task>>
  PROVE  ChaosInv'
<1>1. /\ error_enabled' = error_enabled /\ error_rate' = error_rate
      /\ error_accumulator' \in 0..(Whole - 1)
      /\ decisions' \in 0..MaxDecisions /\ demand' \in Nat /\ injected' \in Nat
      /\ SpreadCarried'
  BY InjectKeeps DEF ChaosInv
<1> USE DEF latencyVars, memoryVars
<1>2. TypeOK'
  BY <1>1 DEF ChaosInv, TypeOK
<1>3. SizesAsked' /\ GaugesFollowState' /\ NoPhantomWork'
  BY <1>1 DEF ChaosInv, SizesAsked, GaugesFollowState, NoPhantomWork, Running, Listed
<1> QED
  BY <1>1, <1>2, <1>3 DEF ChaosInv

----------------------------------------------------------------------------
(***************************************************************************)
(* The control plane and the requests.                                     *)
(***************************************************************************)

\* The gauge of latency is set with the flag.
LEMMA SetLatencyKeeps ==
  ASSUME ChaosInv, NEW enable \in BOOLEAN, NEW delay \in Latencies, SetLatency(enable, delay)
  PROVE  ChaosInv'
<1> USE DEF errorVars, spreadVars, memoryVars
<1>1. TypeOK'
  BY ChaosConfig DEF ChaosInv, TypeOK, SetLatency, Modes, Flag
<1>2. SizesAsked' /\ SpreadCarried' /\ NoPhantomWork'
  BY DEF ChaosInv, SetLatency, SizesAsked, SpreadCarried, NoPhantomWork, Running, Listed
<1>3. GaugesFollowState'
  BY DEF ChaosInv, SetLatency, GaugesFollowState, TypeOK, Modes, Flag, Running
<1> QED
  BY <1>1, <1>2, <1>3 DEF ChaosInv

\* Configuring errors begins a new window.
LEMMA SetErrorsKeeps ==
  ASSUME ChaosInv, NEW enable \in BOOLEAN, NEW rate \in Rates, SetErrors(enable, rate)
  PROVE  ChaosInv'
<1> USE DEF latencyVars, memoryVars
<1>1. TypeOK'
  BY ChaosConfig DEF ChaosInv, TypeOK, SetErrors, Modes, Flag
<1>2. SizesAsked' /\ NoPhantomWork'
  BY DEF ChaosInv, SetErrors, SizesAsked, NoPhantomWork, Running, Listed
<1>3. SpreadCarried'
  BY OneMore, ChaosConfig DEF SetErrors, SpreadCarried
<1>4. GaugesFollowState'
  BY DEF ChaosInv, SetErrors, GaugesFollowState, TypeOK, Modes, Flag, Running
<1> QED
  BY <1>1, <1>2, <1>3, <1>4 DEF ChaosInv

\* A reset empties the list under tasks that still hold their blocks: the
\* list may only be too short.
LEMMA ResetKeeps ==
  ASSUME ChaosInv, Reset
  PROVE  ChaosInv'
<1>1. TypeOK'
  <2>1. chaos_active' \in [Modes -> {0, 1}]
    BY DEF ChaosInv, TypeOK, Reset
  <2>2. 0 \in Latencies /\ 0 \in Rates /\ 0 \in 0..(Whole - 1) /\ 0 \in 0..MaxDecisions
    BY ChaosConfig
  <2>3. memory_blocks' \in [Sizes -> Nat]
    BY DEF Reset
  <2> QED
    BY <2>1, <2>2, <2>3 DEF ChaosInv, TypeOK, Reset
<1>2. SizesAsked'
  BY DEF ChaosInv, Reset, SizesAsked
<1>3. SpreadCarried'
  BY OneMore, ChaosConfig DEF Reset, SpreadCarried
<1>4. GaugesFollowState'
  BY DEF ChaosInv, Reset, GaugesFollowState, TypeOK, Modes, Flag
<1>5. NoPhantomWork'
  <2>1. Running("cpu")' = Running("cpu") /\ cpu_running' = cpu_running
    BY DEF Reset, Running
  <2>2. ASSUME NEW n \in Sizes
        PROVE  memory_blocks'[n] <= Cardinality({t \in Running("memory") : task[t].size = n})'
    <3>1. IsFiniteSet({t \in Running("memory") : task[t].size = n}')
      <4>1. {t \in Running("memory") : task[t].size = n}' \subseteq Tasks
        BY DEF Running
      <4> QED
        BY <4>1, FS_Subset, ChaosConfig
    <3>2. Cardinality({t \in Running("memory") : task[t].size = n})' \in Nat
      BY <3>1, FS_CardinalityType
    <3>3. memory_blocks'[n] = 0
      BY DEF Reset
    <3> QED
      BY <3>2, <3>3
  <2>3. memory_bytes' <= Listed'
    BY NoBytes DEF Reset, Listed
  <2> QED
    BY <2>1, <2>2, <2>3 DEF ChaosInv, NoPhantomWork
<1> QED
  BY <1>1, <1>2, <1>3, <1>4, <1>5 DEF ChaosInv

\* A request decided at once, delayed, or decided when it wakes up.
LEMMA RequestKeeps ==
  ASSUME ChaosInv, NEW r \in Requests, PassThrough(r) \/ Delay(r) \/ Resume(r)
  PROVE  ChaosInv'
<1>0. sleeping \in [Requests -> Latencies] /\ latency_seconds \in Latencies /\ 0 \in Latencies
  BY ChaosConfig DEF ChaosInv, TypeOK
<1>1. CASE PassThrough(r)
  BY <1>0, <1>1, DecisionKeeps DEF PassThrough
<1>2. CASE Resume(r)
  <2>1. sleeping' \in [Requests -> Latencies]
    BY <1>0, <1>2 DEF Resume
  <2> QED
    BY <1>2, <2>1, DecisionKeeps DEF Resume
<1>3. CASE Delay(r)
  <2>1. sleeping' \in [Requests -> Latencies]
    BY <1>0, <1>3 DEF Delay
  <2> USE DEF latencyVars, errorVars, spreadVars, memoryVars
  <2>2. TypeOK'
    BY <1>3, <2>1 DEF Delay, ChaosInv, TypeOK
  <2>3. SizesAsked' /\ SpreadCarried' /\ GaugesFollowState' /\ NoPhantomWork'
    BY <1>3 DEF Delay, ChaosInv, SizesAsked, SpreadCarried, GaugesFollowState, NoPhantomWork,
                Running, Listed
  <2> QED
    BY <2>2, <2>3 DEF ChaosInv
<1> QED
  BY <1>1, <1>2, <1>3

----------------------------------------------------------------------------
(***************************************************************************)
(* The background tasks.                                                   *)
(***************************************************************************)

\* A step of one task: the others run what they ran and hold what they held.
LEMMA OneTaskMoves ==
  ASSUME task \in [Tasks -> TaskRecord], NEW t \in Tasks, NEW rec \in TaskRecord,
         task' = [task EXCEPT ![t] = rec]
  PROVE  /\ task' \in [Tasks -> TaskRecord]
         /\ task'[t] = rec /\ \A u \in Tasks : u # t => task'[u] = task[u]
         /\ \A w : Running(w)' = (Running(w) \ {t})
                     \cup (IF rec.work = w /\ rec.stage = "running" THEN {t} ELSE {})
         /\ \A n : Holding(n)' = (Holding(n) \ {t})
                     \cup (IF rec.work = "memory" /\ rec.stage = "running" /\ rec.size = n
                             THEN {t} ELSE {})
<1>1. task' \in [Tasks -> TaskRecord] /\ task'[t] = rec /\ \A u \in Tasks : u # t => task'[u] = task[u]
  OBVIOUS
<1>2. ASSUME NEW w
      PROVE  Running(w)' = (Running(w) \ {t})
                     \cup (IF rec.work = w /\ rec.stage = "running" THEN {t} ELSE {})
  BY <1>1 DEF Running
<1>3. ASSUME NEW n
      PROVE  Holding(n)' = (Holding(n) \ {t})
                     \cup (IF rec.work = "memory" /\ rec.stage = "running" /\ rec.size = n
                             THEN {t} ELSE {})
  BY <1>1, <1>2 DEF Holding, Running
<1> QED
  BY <1>1, <1>2, <1>3

\* Sizes are numbers of bytes.
LEMMA SizesAreNumbers == Sizes \subseteq Nat
  BY ChaosConfig

\* There are finitely many tasks, so what holds a size can be counted.
LEMMA HoldingFinite ==
  ASSUME NEW n
  PROVE  IsFiniteSet(Holding(n)) /\ Cardinality(Holding(n)) \in Nat
<1>1. Holding(n) \subseteq Tasks
  BY DEF Holding, Running
<1> QED
  BY <1>1, FS_Subset, FS_CardinalityType, ChaosConfig

\* A task that is scheduled runs nothing yet.
LEMMA TriggerKeeps ==
  ASSUME ChaosInv, NEW t \in Tasks, Trigger(t)
  PROVE  ChaosInv'
<1>1. PICK w \in {"cpu", "memory"}, n \in Sizes \cup {0} :
         /\ w = "memory" => n \in Sizes
         /\ task[t] = NoTask
         /\ task' = [task EXCEPT ![t] = Scheduled(w, n)]
         /\ UNCHANGED <<latencyVars, errorVars, spreadVars, cpu_running, memoryVars,
                        chaos_active, sleeping>>
  BY DEF Trigger, TriggerCpu, TriggerMemory
<1>2. Scheduled(w, n) \in TaskRecord /\ task \in [Tasks -> TaskRecord]
  BY <1>1 DEF Scheduled, TaskRecord, ChaosInv, TypeOK
<1>3. /\ task' \in [Tasks -> TaskRecord] /\ task'[t] = Scheduled(w, n)
      /\ \A u \in Tasks : u # t => task'[u] = task[u]
  BY <1>1, <1>2
<1>4. \A v : Running(v)' = Running(v)
  BY <1>1, <1>3 DEF Running, NoTask, Scheduled
<1>5. \A m : {u \in Running("memory") : task[u].size = m}' = {u \in Running("memory") : task[u].size = m}
  BY <1>1, <1>3, <1>4 DEF Running, NoTask, Scheduled
<1> USE DEF latencyVars, errorVars, spreadVars, memoryVars
<1>6. TypeOK'
  BY <1>1, <1>3 DEF ChaosInv, TypeOK, TaskRecord
<1>7. SizesAsked'
  BY <1>1, <1>3 DEF ChaosInv, SizesAsked, Scheduled
<1>8. SpreadCarried'
  BY <1>1 DEF ChaosInv, SpreadCarried
<1>9. GaugesFollowState'
  <2>1. (\E u \in Running("memory") : task[u].size = 0) => (\E u \in Running("memory") : task[u].size = 0)'
    BY <1>5
  <2> QED
    BY <1>1, <2>1 DEF ChaosInv, GaugesFollowState
<1>10. NoPhantomWork'
  <2>1. \A m \in Sizes : Cardinality({u \in Running("memory") : task[u].size = m})'
                           = Cardinality({u \in Running("memory") : task[u].size = m})
    BY <1>5
  <2>2. Running("cpu")' = Running("cpu") /\ Listed' = Listed
    BY <1>1, <1>4 DEF Listed
  <2> QED
    BY <1>1, <2>1, <2>2 DEF ChaosInv, NoPhantomWork
<1> QED
  BY <1>6, <1>7, <1>8, <1>9, <1>10 DEF ChaosInv

\* A task that burns CPU holds no memory.
LEMMA CpuKeeps ==
  ASSUME ChaosInv, NEW t \in Tasks, StartCpu(t) \/ FinishCpu(t)
  PROVE  ChaosInv'
<1> DEFINE rec == IF StartCpu(t) THEN [task[t] EXCEPT !.stage = "running"] ELSE NoTask
<1>0. task \in [Tasks -> TaskRecord] /\ task[t] \in TaskRecord /\ task[t].work = "cpu"
  BY DEF ChaosInv, TypeOK, TaskRecord, StartCpu, StartTask, FinishCpu, EndTask, Running
<1>1. rec \in TaskRecord /\ task' = [task EXCEPT ![t] = rec]
  BY <1>0 DEF TaskRecord, NoTask, StartCpu, StartTask, FinishCpu, EndTask
<1>2. /\ UNCHANGED <<latencyVars, errorVars, spreadVars, memoryVars, sleeping>>
      /\ (cpu_running' => StartCpu(t)) /\ cpu_running' \in BOOLEAN
      /\ chaos_active' = [chaos_active EXCEPT !["cpu"] = Flag(cpu_running')]
  <2>1. CASE StartCpu(t)
    BY <2>1 DEF StartCpu, Flag
  <2>2. CASE ~StartCpu(t)
    BY <2>2 DEF FinishCpu, Flag
  <2> QED
    BY <2>1, <2>2
<1>3. rec.work # "memory" /\ (StartCpu(t) => rec.work = "cpu" /\ rec.stage = "running")
  BY <1>0 DEF TaskRecord, NoTask
<1> HIDE DEF rec
<1>4. /\ task' \in [Tasks -> TaskRecord] /\ task'[t] = rec
      /\ \A u \in Tasks : u # t => task'[u] = task[u]
      /\ \A w : Running(w)' = (Running(w) \ {t})
                  \cup (IF rec.work = w /\ rec.stage = "running" THEN {t} ELSE {})
      /\ \A n : Holding(n)' = (Holding(n) \ {t})
                  \cup (IF rec.work = "memory" /\ rec.stage = "running" /\ rec.size = n
                          THEN {t} ELSE {})
  BY <1>0, <1>1, OneTaskMoves
<1>5. \A n : Holding(n)' = Holding(n)
  BY <1>0, <1>3, <1>4 DEF Holding, Running
<1>6. cpu_running' => Running("cpu")' # {}
  BY <1>2, <1>3, <1>4
<1> USE DEF latencyVars, errorVars, spreadVars, memoryVars
<1>7. TypeOK'
  <2>1. chaos_active' \in [Modes -> {0, 1}]
    BY <1>2 DEF ChaosInv, TypeOK, Flag
  <2> QED
    BY <1>2, <1>4, <2>1 DEF ChaosInv, TypeOK, TaskRecord
<1>8. SizesAsked'
  BY <1>3, <1>4 DEF ChaosInv, SizesAsked
<1>9. SpreadCarried'
  BY <1>2 DEF ChaosInv, SpreadCarried
<1>10. GaugesFollowState'
  <2>1. (\E u \in Running("memory") : task[u].size = 0) => (\E u \in Running("memory") : task[u].size = 0)'
    BY <1>5 DEF Holding
  <2>2. chaos_active \in [Modes -> {0, 1}]
    BY DEF ChaosInv, TypeOK
  <2> QED
    BY <1>2, <2>1, <2>2 DEF ChaosInv, GaugesFollowState, Modes, Flag
<1>11. NoPhantomWork'
  <2>1. \A n : {u \in Running("memory") : task[u].size = n} = Holding(n)
               /\ {u \in Running("memory") : task[u].size = n}' = Holding(n)'
    BY DEF Holding
  <2>2. \A n : Cardinality({u \in Running("memory") : task[u].size = n})'
                 = Cardinality({u \in Running("memory") : task[u].size = n})
    BY <1>5, <2>1
  <2>3. Listed' = Listed
    BY <1>2 DEF Listed
  <2> QED
    BY <1>2, <1>6, <2>2, <2>3 DEF ChaosInv, NoPhantomWork
<1> QED
  BY <1>7, <1>8, <1>9, <1>10, <1>11 DEF ChaosInv

\* A task that begins to hold memory adds a block for itself to the list.
LEMMA StartMemoryKeeps ==
  ASSUME ChaosInv, NEW t \in Tasks, StartMemory(t)
  PROVE  ChaosInv'
<1> DEFINE rec == [task[t] EXCEPT !.stage = "running"]
<1>0. /\ task \in [Tasks -> TaskRecord] /\ task[t] \in TaskRecord
      /\ task[t].work = "memory" /\ task[t].stage = "scheduled"
      /\ memory_blocks \in [Sizes -> Nat] /\ memory_bytes \in Nat
      /\ chaos_active \in [Modes -> {0, 1}]
  BY DEF ChaosInv, TypeOK, TaskRecord, StartMemory, StartTask
<1>2. PICK n \in Sizes : n = task[t].size /\ n \in Nat /\ memory_blocks[n] \in Nat
  <2>1. task[t].size \in Sizes
    BY <1>0 DEF ChaosInv, SizesAsked
  <2>2. task[t].size \in Nat
    BY <2>1, SizesAreNumbers
  <2>3. memory_blocks[task[t].size] \in Nat
    BY <1>0, <2>1
  <2> QED
    BY <2>1, <2>2, <2>3
<1>1. /\ rec \in TaskRecord /\ task' = [task EXCEPT ![t] = rec]
      /\ rec.work = "memory" /\ rec.stage = "running" /\ rec.size = n
  BY <1>0, <1>2 DEF TaskRecord, StartMemory, StartTask
<1>3. /\ memory_blocks' = [memory_blocks EXCEPT ![n] = memory_blocks[n] + 1]
      /\ memory_bytes' = memory_bytes + n
      /\ chaos_active' = [chaos_active EXCEPT !["memory"] = 1]
      /\ UNCHANGED <<latencyVars, errorVars, spreadVars, cpu_running, sleeping>>
  BY <1>2 DEF StartMemory
<1> HIDE DEF rec
<1>4. /\ task' \in [Tasks -> TaskRecord] /\ task'[t] = rec
      /\ \A u \in Tasks : u # t => task'[u] = task[u]
      /\ \A w : Running(w)' = (Running(w) \ {t})
                  \cup (IF rec.work = w /\ rec.stage = "running" THEN {t} ELSE {})
      /\ \A m : Holding(m)' = (Holding(m) \ {t})
                  \cup (IF rec.work = "memory" /\ rec.stage = "running" /\ rec.size = m
                          THEN {t} ELSE {})
  BY <1>0, <1>1, OneTaskMoves
<1>5. t \notin Running("memory") /\ t \notin Running("cpu") /\ \A m : t \notin Holding(m)
  BY <1>0 DEF Running, Holding
<1>6. Holding(n)' = Holding(n) \cup {t} /\ \A m : m # n => Holding(m)' = Holding(m)
  BY <1>1, <1>4, <1>5
<1> USE DEF latencyVars, errorVars, spreadVars
<1>7. TypeOK'
  <2>1. chaos_active' \in [Modes -> {0, 1}] /\ memory_blocks' \in [Sizes -> Nat] /\ memory_bytes' \in Nat
    <3>1. memory_blocks[n] + 1 \in Nat /\ memory_bytes + n \in Nat
      BY <1>0, <1>2
    <3> QED
      BY <1>0, <1>3, <3>1
  <2> QED
    BY <1>3, <1>4, <2>1 DEF ChaosInv, TypeOK, TaskRecord
<1>8. SizesAsked'
  BY <1>1, <1>2, <1>4 DEF ChaosInv, SizesAsked
<1>9. SpreadCarried'
  BY <1>3 DEF ChaosInv, SpreadCarried
<1>10. GaugesFollowState'
  <2>1. /\ chaos_active'["memory"] = 1
        /\ \A m \in Modes \ {"memory"} : chaos_active'[m] = chaos_active[m]
    BY <1>0, <1>3 DEF Modes
  <2>2. memory_bytes' > 0 \/ \E u \in Running("memory")' : task'[u].size = 0
    <3>1. t \in Running("memory")' /\ task'[t].size = n
      BY <1>1, <1>4
    <3>2. memory_bytes + n > 0 \/ n = 0
      BY <1>0, <1>2
    <3> QED
      BY <1>3, <3>1, <3>2
  <2> QED
    BY <1>3, <2>1, <2>2 DEF ChaosInv, GaugesFollowState, Modes
<1>11. NoPhantomWork'
  <2>1. ASSUME NEW m \in Sizes PROVE memory_blocks'[m] <= Cardinality(Holding(m))'
    <3>1. memory_blocks[m] <= Cardinality(Holding(m))
      BY DEF ChaosInv, NoPhantomWork, Holding
    <3>2. CASE m = n
      <4>1. Cardinality(Holding(n) \cup {t}) = Cardinality(Holding(n)) + 1
        BY <1>5, HoldingFinite, FS_AddElement
      <4>2. memory_blocks'[n] = memory_blocks[n] + 1
        BY <1>0, <1>3
      <4>3. Cardinality(Holding(n))' = Cardinality(Holding(n)) + 1 /\ Cardinality(Holding(n)) \in Nat
        BY <1>6, <4>1, HoldingFinite
      <4> QED
        BY <1>2, <3>1, <3>2, <4>2, <4>3
    <3>3. CASE m # n
      <4>1. Cardinality(Holding(m))' = Cardinality(Holding(m))
        BY <1>6, <3>3
      <4> QED
        BY <1>0, <1>3, <3>1, <3>3, <4>1
    <3> QED
      BY <3>2, <3>3
  <2>2. memory_bytes' <= Listed'
    <3>1. /\ Listed \in Nat
          /\ Listed' = Listed + n * (memory_blocks[n] + 1) - n * memory_blocks[n]
          /\ n * memory_blocks[n] \in Nat
      <4>1. memory_blocks[n] + 1 \in Nat
        BY <1>2
      <4> QED
        BY <1>0, <1>3, <4>1, BytesChange DEF Listed
    <3>2. n * (memory_blocks[n] + 1) = n * memory_blocks[n] + n
      BY <1>2
    <3>3. Listed' = Listed + n
      <4> DEFINE k == n * memory_blocks[n]
      <4>1. k \in Nat /\ Listed' = Listed + (k + n) - k
        BY <3>1, <3>2
      <4> HIDE DEF k
      <4> QED
        BY <1>2, <3>1, <4>1
    <3>4. memory_bytes <= Listed
      BY DEF ChaosInv, NoPhantomWork
    <3> QED
      BY <1>0, <1>2, <1>3, <3>1, <3>3, <3>4
  <2>3. cpu_running' => Running("cpu")' # {}
    <3>1. cpu_running => Running("cpu") # {}
      BY DEF ChaosInv, NoPhantomWork
    <3>2. Running("cpu")' = Running("cpu")
      BY <1>1, <1>4, <1>5
    <3> QED
      BY <1>3, <3>1, <3>2
  <2> QED
    BY <2>1, <2>2, <2>3 DEF NoPhantomWork, Holding
<1> QED
  BY <1>7, <1>8, <1>9, <1>10, <1>11 DEF ChaosInv

\* A task that ends takes one block of its size with it, if the list has one.
LEMMA FinishMemoryKeeps ==
  ASSUME ChaosInv, NEW t \in Tasks, FinishMemory(t)
  PROVE  ChaosInv'
<1>0. /\ task \in [Tasks -> TaskRecord] /\ task[t] \in TaskRecord
      /\ t \in Running("memory") /\ task[t].work = "memory"
      /\ memory_blocks \in [Sizes -> Nat] /\ memory_bytes \in Nat
      /\ chaos_active \in [Modes -> {0, 1}]
  BY DEF ChaosInv, TypeOK, TaskRecord, FinishMemory, EndTask, Running
<1>1. /\ NoTask \in TaskRecord /\ task' = [task EXCEPT ![t] = NoTask]
      /\ NoTask.work = "none"
  BY DEF TaskRecord, NoTask, FinishMemory, EndTask
<1>2. PICK n \in Sizes : n = task[t].size /\ n \in Nat /\ memory_blocks[n] \in Nat
  <2>1. task[t].size \in Sizes
    BY <1>0 DEF ChaosInv, SizesAsked
  <2>2. task[t].size \in Nat
    BY <2>1, SizesAreNumbers
  <2>3. memory_blocks[task[t].size] \in Nat
    BY <1>0, <2>1
  <2> QED
    BY <2>1, <2>2, <2>3
<1>x. PICK x \in Nat : x = IF memory_blocks[n] > 0 THEN memory_blocks[n] - 1 ELSE 0
  BY <1>2
<1>3. /\ memory_blocks' = [memory_blocks EXCEPT ![n] = x]
      /\ memory_bytes' = IF memory_bytes > n THEN memory_bytes - n ELSE 0
      /\ chaos_active' = IF memory_bytes' = 0 THEN [chaos_active EXCEPT !["memory"] = 0]
                         ELSE chaos_active
      /\ UNCHANGED <<latencyVars, errorVars, spreadVars, cpu_running, sleeping>>
  BY <1>2, <1>x DEF FinishMemory
<1>4. t \in Holding(n) /\ \A m : t \in Holding(m) => m = n
  BY <1>0, <1>2 DEF Holding
<1>5. /\ task' \in [Tasks -> TaskRecord] /\ task'[t] = NoTask
      /\ \A u \in Tasks : u # t => task'[u] = task[u]
      /\ \A w : Running(w)' = (Running(w) \ {t})
                  \cup (IF NoTask.work = w /\ NoTask.stage = "running" THEN {t} ELSE {})
      /\ \A m : Holding(m)' = (Holding(m) \ {t})
                  \cup (IF NoTask.work = "memory" /\ NoTask.stage = "running" /\ NoTask.size = m
                          THEN {t} ELSE {})
  BY <1>0, <1>1, OneTaskMoves
<1>6. Holding(n)' = Holding(n) \ {t} /\ \A m : m # n => Holding(m)' = Holding(m)
  BY <1>1, <1>4, <1>5
<1> USE DEF latencyVars, errorVars, spreadVars
<1>7. memory_bytes' \in Nat /\ (memory_bytes' > 0 => memory_bytes > 0) /\ memory_bytes' <= memory_bytes
  BY <1>0, <1>2, <1>3
<1>8. TypeOK'
  <2>1. chaos_active' \in [Modes -> {0, 1}] /\ memory_blocks' \in [Sizes -> Nat]
    BY <1>0, <1>2, <1>3
  <2> QED
    BY <1>3, <1>5, <1>7, <2>1 DEF ChaosInv, TypeOK, TaskRecord
<1>9. SizesAsked'
  BY <1>1, <1>5 DEF ChaosInv, SizesAsked
<1>10. SpreadCarried'
  BY <1>3 DEF ChaosInv, SpreadCarried
<1>11. GaugesFollowState'
  <2>1. \A m \in Modes \ {"memory"} : chaos_active'[m] = chaos_active[m]
    BY <1>0, <1>3 DEF Modes
  <2>2. IF memory_bytes' = 0 THEN chaos_active'["memory"] = 0
                             ELSE chaos_active'["memory"] = chaos_active["memory"]
    BY <1>0, <1>3 DEF Modes
  <2>3. memory_bytes > 0 => chaos_active["memory"] = 1
    BY DEF ChaosInv, GaugesFollowState
  <2> QED
    BY <1>3, <1>7, <2>1, <2>2, <2>3 DEF ChaosInv, GaugesFollowState, Modes
<1>12. NoPhantomWork'
  <2>1. ASSUME NEW m \in Sizes PROVE memory_blocks'[m] <= Cardinality(Holding(m))'
    <3>1. memory_blocks[m] <= Cardinality(Holding(m))
      BY DEF ChaosInv, NoPhantomWork, Holding
    <3>2. CASE m = n
      <4>1. /\ Cardinality(Holding(n) \ {t}) = Cardinality(Holding(n)) - 1
            /\ Cardinality(Holding(n) \ {t}) \in Nat
        <5>1. IsFiniteSet(Holding(n)) /\ IsFiniteSet(Holding(n) \ {t})
          BY HoldingFinite, FS_RemoveElement
        <5> QED
          BY <1>4, <5>1, FS_RemoveElement, FS_CardinalityType
      <4>2. memory_blocks'[n] = x
        BY <1>0, <1>2, <1>3
      <4>3. Cardinality(Holding(n))' = Cardinality(Holding(n)) - 1
            /\ Cardinality(Holding(n))' \in Nat /\ Cardinality(Holding(n)) \in Nat
        BY <1>6, <4>1, HoldingFinite
      <4> QED
        BY <1>2, <1>x, <3>1, <3>2, <4>2, <4>3
    <3>3. CASE m # n
      <4>1. Cardinality(Holding(m))' = Cardinality(Holding(m))
        BY <1>6, <3>3
      <4> QED
        BY <1>0, <1>3, <3>1, <3>3, <4>1
    <3> QED
      BY <3>2, <3>3
  <2>2. memory_bytes' <= Listed'
    <3>1. /\ Listed \in Nat
          /\ Listed' = Listed + n * x - n * memory_blocks[n]
          /\ n * memory_blocks[n] \in Nat /\ n * x \in Nat
      BY <1>0, <1>2, <1>3, BytesChange DEF Listed
    <3>2. Listed' \in Nat
      <4>1. memory_blocks' \in [Sizes -> Nat]
        BY <1>0, <1>2, <1>3
      <4> QED
        BY <1>2, <4>1, BytesChange DEF Listed
    <3>3. memory_bytes <= Listed
      BY DEF ChaosInv, NoPhantomWork
    <3>4. CASE memory_blocks[n] > 0
      <4>1. \A y \in Nat : y > 0 => n * (y - 1) = n * y - n
        BY <1>2
      <4>2. n * x = n * memory_blocks[n] - n
        BY <1>2, <1>x, <3>4, <4>1
      <4> DEFINE k == n * memory_blocks[n]
      <4>3. k \in Nat /\ Listed' = Listed + (k - n) - k
        BY <3>1, <4>2
      <4> HIDE DEF k
      <4>4. Listed' = Listed - n
        BY <1>2, <3>1, <4>3
      <4> QED
        BY <1>0, <1>2, <1>3, <3>1, <3>2, <3>3, <4>4
    <3>5. CASE ~(memory_blocks[n] > 0)
      <4>1. x = memory_blocks[n]
        BY <1>2, <1>x, <3>5
      <4>2. Listed' = Listed
        <5> DEFINE k == n * memory_blocks[n]
        <5>1. k \in Nat /\ Listed' = Listed + k - k
          BY <3>1, <4>1
        <5> HIDE DEF k
        <5> QED
          BY <3>1, <5>1
      <4> QED
        BY <1>0, <1>7, <3>1, <3>3, <4>2
    <3> QED
      BY <3>4, <3>5
  <2>3. cpu_running' => Running("cpu")' # {}
    <3>1. cpu_running => Running("cpu") # {}
      BY DEF ChaosInv, NoPhantomWork
    <3>2. Running("cpu")' = Running("cpu")
      <4>1. t \notin Running("cpu")
        BY <1>0 DEF Running
      <4> QED
        BY <1>1, <1>5, <4>1
    <3> QED
      BY <1>3, <3>1, <3>2
  <2> QED
    BY <2>1, <2>2, <2>3 DEF NoPhantomWork, Holding
<1> QED
  BY <1>8, <1>9, <1>10, <1>11, <1>12 DEF ChaosInv

----------------------------------------------------------------------------
(***************************************************************************)
(* The controller by itself.                                               *)
(***************************************************************************)

\* A step that leaves the controller alone.
LEMMA ChaosStutters ==
  ASSUME ChaosInv, UNCHANGED chaosVars
  PROVE  ChaosInv'
<1> USE DEF chaosVars, latencyVars, errorVars, spreadVars, memoryVars
<1>1. TypeOK'
  BY DEF ChaosInv, TypeOK
<1>2. SizesAsked' /\ SpreadCarried' /\ GaugesFollowState' /\ NoPhantomWork'
  BY DEF ChaosInv, SizesAsked, SpreadCarried, GaugesFollowState, NoPhantomWork, Running, Listed
<1> QED
  BY <1>1, <1>2 DEF ChaosInv

\* The tasks go on by themselves.
LEMMA ProgressKeeps ==
  ASSUME ChaosInv, NEW t \in Tasks, Progress(t)
  PROVE  ChaosInv'
  BY CpuKeeps, StartMemoryKeeps, FinishMemoryKeeps DEF Progress

\* Every step of the controller.
LEMMA ChaosStep ==
  ASSUME ChaosInv, Next
  PROVE  ChaosInv'
<1>1. CASE \E enable \in BOOLEAN, delay \in Latencies : SetLatency(enable, delay)
  BY <1>1, SetLatencyKeeps
<1>2. CASE \E enable \in BOOLEAN, rate \in Rates : SetErrors(enable, rate)
  BY <1>2, SetErrorsKeeps
<1>3. CASE Reset
  BY <1>3, ResetKeeps
<1>4. CASE \E r \in Requests : PassThrough(r) \/ Delay(r) \/ Resume(r)
  BY <1>4, RequestKeeps
<1>5. CASE \E t \in Tasks : Trigger(t) \/ Progress(t)
  BY <1>5, TriggerKeeps, ProgressKeeps
<1> QED
  BY <1>1, <1>2, <1>3, <1>4, <1>5 DEF Next

\* The invariant of the controller of every service, whatever is configured,
\* reset, delayed or triggered in whatever order.
THEOREM ChaosInvariant == Spec => []ChaosInv
<1>1. ChaosInv /\ [Next]_chaosVars => ChaosInv'
  BY ChaosStep, ChaosStutters
<1> QED
  BY ChaosInit, <1>1, PTL DEF Spec

\* The rest the accumulator carries is less than one error, so errors and
\* demand are less than one error apart, rounding aside.
LEMMA CarriedMeansSpread ==
  ASSUME ChaosInv
  PROVE  ErrorsEvenlySpread
<1> DEFINE p == injected * Whole
           d == decisions * Eps
<1>1. /\ error_accumulator \in 0..(Whole - 1) /\ demand \in Nat /\ injected \in Nat
      /\ Whole \in Nat /\ decisions \in Nat
  BY ChaosConfig DEF ChaosInv, TypeOK
<1>2. p \in Nat /\ d \in Nat
  BY <1>1, OneMore
<1>3. /\ demand - p <= error_accumulator + d
      /\ error_accumulator - (demand - p) < Whole + d
      /\ error_rate = Whole => injected = decisions
  BY DEF ChaosInv, SpreadCarried
<1> HIDE DEF p, d
<1>4. demand - p < Whole + d /\ p - demand < Whole + d
  BY <1>1, <1>2, <1>3
<1> QED
  BY <1>3, <1>4 DEF ErrorsEvenlySpread, p, d

----------------------------------------------------------------------------
(***************************************************************************)
(* The worker, whose job loop decides errors with the same accumulator.    *)
(***************************************************************************)

WorkerInv == ChaosInv /\ unreported \in Int /\ JobsCountedOnce

\* The step of the job loop that makes a decision.
LEMMA DecideKeeps ==
  ASSUME ChaosInv, unreported \in Int, NEW begun \in {0, 1}, Decide(begun)
  PROVE  /\ ChaosInv'
         /\ \/ job' = "pause" /\ unreported' = unreported + begun - 1
            \/ job' = "working" /\ unreported' = unreported + begun
<1>1. PICK fails \in BOOLEAN :
        /\ DecideError(fails)
        /\ job' = IF fails THEN "pause" ELSE "working"
        /\ unreported' = unreported + begun - Flag(fails)
  BY DEF Decide
<1>2. sleeping' \in [Requests -> Latencies]
  BY <1>1 DEF DecideError, ChaosInv, TypeOK
<1>3. ChaosInv'
  BY <1>1, <1>2, DecisionKeeps DEF DecideError
<1> QED
  BY <1>1, <1>3 DEF Flag

\* A new process starts with what Init says.
LEMMA ExitKeeps ==
  ASSUME Exit
  PROVE  ChaosInv'
<1>1. Init'
  BY DEF Exit, Init
<1>2. (Init => ChaosInv)'
  BY ChaosInit, PTL
<1> QED
  BY <1>1, <1>2

\* Every step of the worker: its process ends with the controller and begins
\* with a new one.
LEMMA WorkerStep ==
  ASSUME WorkerInv, [WorkerNext]_allVars
  PROVE  WorkerInv'
<1>0. ChaosInv /\ unreported \in Int /\ JobsCountedOnce
  BY DEF WorkerInv
<1> USE DEF JobsCountedOnce
<1>1. ASSUME UNCHANGED workerVars, ChaosInv' PROVE WorkerInv'
  BY <1>0, <1>1 DEF WorkerInv, workerVars
<1>2. ASSUME UNCHANGED chaosVars PROVE ChaosInv'
  BY <1>0, <1>2, ChaosStutters
<1>3. CASE service_up = 1 /\ ~cancelling /\ Next /\ UNCHANGED workerVars
  BY <1>0, <1>1, <1>3, ChaosStep
<1>4. CASE cancelling /\ (\E t \in Tasks : Progress(t)) /\ UNCHANGED workerVars
  BY <1>0, <1>1, <1>4, ProgressKeeps
<1>5. CASE Startup
  BY <1>0, <1>2, <1>5 DEF Startup, WorkerInv
<1>6. CASE BeginJob
  <2>1. CASE latency_enabled /\ latency_seconds > 0
    BY <1>0, <1>2, <1>6, <2>1 DEF BeginJob, WorkerInv
  <2>2. CASE ~(latency_enabled /\ latency_seconds > 0)
    <3>1. Decide(1) /\ unreported = 0
      BY <1>0, <1>6, <2>2 DEF BeginJob
    <3> QED
      BY <1>0, <3>1, DecideKeeps DEF WorkerInv
  <2> QED
    BY <2>1, <2>2
<1>7. CASE ResumeJob
  <2>1. Decide(0) /\ unreported = 1
    BY <1>0, <1>7 DEF ResumeJob
  <2> QED
    BY <1>0, <2>1, DecideKeeps DEF WorkerInv
<1>8. CASE FinishJob
  BY <1>0, <1>2, <1>8 DEF FinishJob, Report, WorkerInv
<1>9. CASE LoopCancelled
  BY <1>0, <1>2, <1>9 DEF LoopCancelled, Report, WorkerInv
<1>10. CASE Shutdown
  BY <1>0, <1>2, <1>10 DEF Shutdown, WorkerInv
<1>11. CASE Stopped
  BY <1>0, <1>2, <1>11 DEF Stopped, WorkerInv
<1>12. CASE Exit
  <2>1. job' = "none" /\ unreported' = 0
    BY <1>12 DEF Exit
  <2> QED
    BY <1>12, <2>1, ExitKeeps DEF WorkerInv
<1>13. CASE UNCHANGED allVars
  BY <1>1, <1>2, <1>13 DEF allVars
<1> QED
  BY <1>3, <1>4, <1>5, <1>6, <1>7, <1>8, <1>9, <1>10, <1>11, <1>12, <1>13 DEF WorkerNext, Loop

\* The invariant of the worker, across startups, shutdowns and exits.
THEOREM WorkerInvariant == WorkerSpec => []WorkerInv
<1>1. WorkerInit => WorkerInv
  BY ChaosInit DEF WorkerInit, WorkerInv, JobsCountedOnce
<1>2. WorkerInv /\ [WorkerNext]_allVars => WorkerInv'
  BY WorkerStep
<1> QED
  BY <1>1, <1>2, PTL DEF WorkerSpec

\* Every variable has its type.
THEOREM WorkerTypeCorrect == WorkerSpec => []TypeOK
<1>1. WorkerInv => TypeOK
  BY DEF WorkerInv, ChaosInv
<1> QED
  BY <1>1, WorkerInvariant, PTL

\* Errors are injected evenly, by requests and jobs that share one accumulator,
\* in every window of every length, for every rate and every rounding of the
\* accumulator by up to Eps, and at a rate of 100% without exception.
THEOREM ErrorsAlwaysEvenlySpread == WorkerSpec => []ErrorsEvenlySpread
<1>1. WorkerInv => ErrorsEvenlySpread
  BY CarriedMeansSpread DEF WorkerInv
<1> QED
  BY <1>1, WorkerInvariant, PTL

\* The gauges say what /chaos/status says, however resets and the ends of
\* tasks interleave.
THEOREM GaugesAlwaysFollow == WorkerSpec => []GaugesFollowState
<1>1. WorkerInv => GaugesFollowState
  BY DEF WorkerInv, ChaosInv
<1> QED
  BY <1>1, WorkerInvariant, PTL

\* The list of blocks and memory_bytes never account for more than the tasks
\* hold, and a CPU burn that is reported has a task, for any number of tasks.
THEOREM WorkNeverPhantom == WorkerSpec => []NoPhantomWork
<1>1. WorkerInv => NoPhantomWork
  BY DEF WorkerInv, ChaosInv
<1> QED
  BY <1>1, WorkerInvariant, PTL

\* The job loop counts each job once, whether it succeeds, fails or is cut off.
THEOREM JobsAlwaysCountedOnce == WorkerSpec => []JobsCountedOnce
<1>1. WorkerInv => JobsCountedOnce
  BY DEF WorkerInv
<1> QED
  BY <1>1, WorkerInvariant, PTL

===========================================================================
