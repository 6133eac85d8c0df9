------------------------- MODULE RateLimiterProofs -------------------------
(***************************************************************************)
(* Proofs about RateLimiter for every rate, burst and set of clients.      *)
(*                                                                         *)
(* WindowBound alone is not inductive: what a client may still spend has   *)
(* to be charged to the window too.  Ledger does that; a request moves     *)
(* units from the level to what was spent, a tick adds Rate to both sides. *)
(***************************************************************************)
EXTENDS RateLimiter, TLAPS

\* Spent in a window, plus what could be spent now, is covered by the burst
\* and the refills of the window.
Ledger ==
  \A k \in Clients : \A t \in 0..now :
    spent[k] - spent_at[k][t] + Level(k) <= Burst + (now - t) * Rate

\* The refills until the promised time make up what is missing.
PromiseBacked ==
  Burst >= Cost =>
    \A k \in Clients :
      promise[k] # NoPromise =>
        \/ Level(k) >= Cost
        \/ promise[k] > now /\ Level(k) + (promise[k] - now) * Rate >= Cost

LInv == TypeOK /\ Ledger /\ PromiseBacked

----------------------------------------------------------------------------
\* One more tick is one more refill.
LEMMA OneMore ==
  ASSUME NEW a \in Nat
  PROVE  (a + 1) * Rate = a * Rate + Rate /\ a * Rate \in Nat
  BY LimiterConfig, SMT

\* A level is at most the burst.
LEMMA LevelTyped ==
  ASSUME TypeOK, NEW k \in Clients
  PROVE  Level(k) \in 0..Burst
<1>1. cur[k] \in 0..Burst /\ now - last[k] \in Nat
  BY DEF TypeOK
<1>2. (now - last[k]) * Rate \in Nat
  BY <1>1, OneMore
<1> QED
  BY <1>1, <1>2, LimiterConfig DEF Level

\* A tick refills every bucket by Rate, up to the burst.
LEMMA LevelTick ==
  ASSUME TypeOK, Tick, NEW k \in Clients
  PROVE  Level(k)' = IF Level(k) + Rate < Burst THEN Level(k) + Rate ELSE Burst
<1>1. cur[k] \in 0..Burst /\ now - last[k] \in Nat
  BY DEF TypeOK
<1>2. now' - last'[k] = (now - last[k]) + 1 /\ cur' = cur /\ known' = known
  BY LimiterConfig DEF TypeOK, Tick
<1>3. (now' - last'[k]) * Rate = (now - last[k]) * Rate + Rate
      /\ (now - last[k]) * Rate \in Nat
  BY <1>1, <1>2, OneMore
<1> DEFINE x == (now - last[k]) * Rate
<1>4. Level(k) = IF k \in known /\ cur[k] + x < Burst THEN cur[k] + x ELSE Burst
  BY DEF Level
<1>5. Level(k)' = IF k \in known /\ cur[k] + (x + Rate) < Burst THEN cur[k] + (x + Rate) ELSE Burst
  BY <1>2, <1>3 DEF Level
<1>6. x \in Nat
  BY <1>3
<1> HIDE DEF x
<1> QED
  BY <1>1, <1>4, <1>5, <1>6, LimiterConfig

\* Saving a bucket sets its client's level and nobody else's.
LEMMA LevelSave ==
  ASSUME TypeOK, NEW k \in Clients, NEW v \in 0..Burst, Save(k, v), now' = now,
         NEW j \in Clients
  PROVE  Level(j)' = IF j = k THEN v ELSE Level(j)
<1>1. CASE j = k
  <2>1. k \in known' /\ cur'[k] = v /\ last'[k] = now'
    BY DEF Save, TypeOK
  <2>2. (now' - last'[k]) * Rate = 0
    BY <2>1, LimiterConfig DEF TypeOK
  <2> QED
    BY <1>1, <2>1, <2>2, LimiterConfig DEF Level
<1>2. CASE j # k
  <2>1. (j \in known' <=> j \in known) /\ cur'[j] = cur[j] /\ last'[j] = last[j]
    BY <1>2 DEF Save, TypeOK
  <2> QED
    BY <1>2, <2>1 DEF Level
<1> QED
  BY <1>1, <1>2

\* A saved bucket is well-typed.
LEMMA SaveTyped ==
  ASSUME TypeOK, NEW k \in Clients, NEW v \in 0..Burst, Save(k, v), now' = now
  PROVE  known' \subseteq Clients /\ cur' \in [Clients -> 0..Burst] /\ last' \in [Clients -> 0..now']
<1>1. now \in 0..now
  BY LimiterConfig DEF TypeOK
<1> QED
  BY <1>1 DEF TypeOK, Save

\* Rounding the wait up to whole seconds never makes it too short.
LEMMA RetryAfterEnough ==
  ASSUME NEW v \in Nat, v < Cost, Rate # 0
  PROVE  /\ RetryAfter(v) \in Nat \ {0}
         /\ v + (RetryAfter(v) * TicksPerSecond) * Rate >= Cost
<1> DEFINE a == Cost - v
           b == Rate * TicksPerSecond
           q == Ceil(a, b)
<1>1. a \in Nat \ {0}
  BY LimiterConfig
<1>2. b \in Nat \ {0}
  BY LimiterConfig, SMT
<1>3. \A x \in Nat, y \in Nat \ {0} :
        x = y * (x \div y) + (x % y) /\ x % y \in 0..(y - 1) /\ x \div y \in Nat
  BY SMT
<1>4. q \in Nat /\ q * b >= a
  <2> HIDE DEF a, b
  <2>1. a + b - 1 \in Nat
    BY <1>1, <1>2
  <2>2. a + b - 1 = b * q + ((a + b - 1) % b) /\ (a + b - 1) % b \in 0..(b - 1) /\ q \in Nat
    BY <1>2, <1>3, <2>1 DEF Ceil
  <2> HIDE DEF q
  <2>3. b * q \in Nat /\ b * q = q * b
    BY <1>2, <2>2, SMT
  <2> QED
    BY <1>1, <1>2, <2>2, <2>3
<1>5. RetryAfter(v) = IF q < 1 THEN 1 ELSE q
  BY DEF RetryAfter
<1>6. RetryAfter(v) \in Nat \ {0} /\ RetryAfter(v) >= q
  <2> HIDE DEF q
  <2> QED
    BY <1>4, <1>5
<1>7. RetryAfter(v) * b >= q * b
  <2> HIDE DEF q, b
  <2> QED
    BY <1>2, <1>4, <1>6, SMT
<1>8. (RetryAfter(v) * TicksPerSecond) * Rate = RetryAfter(v) * b
  <2>1. ASSUME NEW x \in Nat PROVE (x * TicksPerSecond) * Rate = x * (Rate * TicksPerSecond)
    BY LimiterConfig, SMT
  <2> QED
    BY <1>6, <2>1
<1>9. RetryAfter(v) * b \in Nat /\ q * b \in Nat
  <2> HIDE DEF q, b
  <2> QED
    BY <1>2, <1>4, <1>6, SMT
<1> HIDE DEF q, b
<1> QED
  BY <1>4, <1>6, <1>7, <1>8, <1>9, LimiterConfig

----------------------------------------------------------------------------
\* A limiter without buckets satisfies the invariant.
LEMMA InitLInv == Init => LInv
<1> SUFFICES ASSUME Init PROVE LInv
  OBVIOUS
<1>1. TypeOK
  BY LimiterConfig DEF Init, TypeOK, NoPromise
<1>2. \A k \in Clients : Level(k) = Burst
  BY DEF Init, Level
<1>3. (now - 0) * Rate = 0
  BY LimiterConfig DEF Init
<1>4. Ledger
  BY <1>2, <1>3, LimiterConfig DEF Init, Ledger
<1>5. PromiseBacked
  BY DEF Init, PromiseBacked
<1> QED
  BY <1>1, <1>4, <1>5 DEF LInv

\* An accepted request pays from its own bucket.
LEMMA AcceptStep ==
  ASSUME LInv, NEW k \in Clients, Accept(k)
  PROVE  LInv'
<1> USE LimiterConfig
<1>0. TypeOK
  BY DEF LInv
<1>1. Level(k) \in 0..Burst /\ Level(k) - Cost \in 0..Burst
  BY <1>0, LevelTyped DEF Accept
<1>2. TypeOK'
  <2>1. known' \subseteq Clients /\ cur' \in [Clients -> 0..Burst] /\ last' \in [Clients -> 0..now']
    BY <1>0, <1>1, SaveTyped DEF Accept
  <2>2. spent' \in [Clients -> Nat] /\ promise' \in [Clients -> Nat \cup {NoPromise}]
    BY <1>0 DEF TypeOK, Accept
  <2>3. requests_total' \in 0..CounterCap /\ reply' \in {"none", "passed", "429", "500"}
    BY <1>0 DEF TypeOK, Accept, UpTo
  <2> QED
    BY <1>0, <2>1, <2>2, <2>3 DEF TypeOK, Accept
<1>3. \A j \in Clients : Level(j)' = IF j = k THEN Level(k) - Cost ELSE Level(j)
  BY <1>0, <1>1, LevelSave DEF Accept
<1>4. Ledger'
  <2> SUFFICES ASSUME NEW j \in Clients, NEW t \in 0..now
               PROVE  spent'[j] - spent_at[j][t] + Level(j)' <= Burst + (now - t) * Rate
    BY DEF Ledger, Accept
  <2>1. spent[j] - spent_at[j][t] + Level(j) <= Burst + (now - t) * Rate
    BY DEF LInv, Ledger
  <2>2. Level(j) \in Nat
    BY <1>0, LevelTyped
  <2>3. spent[j] \in Nat /\ spent_at[j][t] \in Nat
    BY <1>0 DEF TypeOK
  <2>6. spent'[j] = IF j = k THEN spent[j] + Cost ELSE spent[j]
    BY <1>0 DEF Accept, TypeOK
  <2>4. now - t \in Nat
    BY <1>0 DEF TypeOK
  <2>5. (now - t) * Rate \in Nat
    BY <2>4, OneMore
  <2> QED
    BY <1>1, <1>3, <2>1, <2>2, <2>3, <2>5, <2>6
<1>5. PromiseBacked'
  <2>1. now' = now /\ promise' = [promise EXCEPT ![k] = NoPromise]
    BY DEF Accept
  <2> QED
    BY <1>0, <1>3, <2>1 DEF LInv, PromiseBacked, TypeOK
<1> QED
  BY <1>2, <1>4, <1>5 DEF LInv

\* A rejected request leaves every level as it was and gets a promise.
LEMMA DenyStep ==
  ASSUME LInv, NEW k \in Clients, Deny(k)
  PROVE  LInv'
<1> USE LimiterConfig
<1>0. TypeOK
  BY DEF LInv
<1>1. Level(k) \in 0..Burst /\ Level(k) < Cost
  BY <1>0, LevelTyped DEF Deny
<1>2. \A j \in Clients : Level(j)' = Level(j)
  BY <1>0, <1>1, LevelSave DEF Deny
<1> DEFINE w == RetryAfter(Level(k)) * TicksPerSecond
<1>3. ASSUME Rate # 0
      PROVE  w \in Nat \ {0} /\ Level(k) + w * Rate >= Cost
  <2>1. Level(k) \in Nat
    BY <1>1
  <2>2. RetryAfter(Level(k)) \in Nat \ {0} /\ Level(k) + w * Rate >= Cost
    BY <1>1, <1>3, <2>1, RetryAfterEnough
  <2>3. \A x \in Nat \ {0}, y \in Nat \ {0} : x * y \in Nat \ {0}
    BY SMT
  <2> QED
    BY <2>2, <2>3
<1>4. promise' = [promise EXCEPT ![k] = IF Rate = 0 THEN NoPromise ELSE now + w]
  BY DEF Deny
<1> HIDE DEF w
<1>5. promise' \in [Clients -> Nat \cup {NoPromise}]
  BY <1>0, <1>3, <1>4 DEF TypeOK
<1>6. TypeOK'
  <2>1. known' \subseteq Clients /\ cur' \in [Clients -> 0..Burst] /\ last' \in [Clients -> 0..now']
    BY <1>0, <1>1, SaveTyped DEF Deny
  <2>2. reply' \in {"none", "passed", "429", "500"}
    BY DEF Deny
  <2>3. requests_total' \in 0..CounterCap /\ rejections_total' \in 0..CounterCap
    BY <1>0 DEF TypeOK, Deny, UpTo
  <2> QED
    BY <1>0, <1>5, <2>1, <2>2, <2>3 DEF TypeOK, Deny
<1>7. Ledger'
  BY <1>2 DEF LInv, Ledger, Deny
<1>8. PromiseBacked'
  <2> SUFFICES ASSUME Burst >= Cost, NEW j \in Clients, promise'[j] # NoPromise
               PROVE  \/ Level(j)' >= Cost
                      \/ promise'[j] > now' /\ Level(j)' + (promise'[j] - now') * Rate >= Cost
    BY DEF PromiseBacked, Deny
  <2>1. now' = now /\ now \in Nat
    BY <1>0 DEF Deny, TypeOK
  <2>2. CASE j # k
    BY <1>0, <1>2, <1>4, <2>1, <2>2 DEF LInv, PromiseBacked, TypeOK
  <2>3. CASE j = k
    <3>1. Rate # 0 /\ promise'[j] = now + w
      BY <1>0, <1>4, <2>3 DEF TypeOK
    <3>2. promise'[j] > now /\ promise'[j] - now = w
      BY <1>3, <2>1, <3>1
    <3> QED
      BY <1>2, <1>3, <2>1, <2>3, <3>1, <3>2
  <2> QED
    BY <2>2, <2>3
<1> QED
  BY <1>6, <1>7, <1>8 DEF LInv

\* A tick adds Rate to both sides of the ledger.
LEMMA TickStep ==
  ASSUME LInv, Tick
  PROVE  LInv'
<1> USE LimiterConfig
<1>0. TypeOK /\ now \in Nat /\ now' = now + 1 /\ spent' = spent /\ promise' = promise
  BY DEF LInv, TypeOK, Tick
<1>1. TypeOK'
  <2>1. now' \in 0..MaxClock /\ \A k \in Clients : last'[k] \in 0..now'
    BY <1>0 DEF TypeOK, Tick
  <2>2. spent_at' \in [Clients -> [0..MaxClock -> Nat]]
    BY <1>0 DEF TypeOK, Tick
  <2>3. last' \in [Clients -> 0..now']
    BY <1>0, <2>1 DEF TypeOK, Tick
  <2> QED
    BY <1>0, <2>1, <2>2, <2>3 DEF TypeOK, Tick
<1>2. \A k \in Clients :
        Level(k) \in 0..Burst /\ Level(k)' \in 0..Burst
        /\ (Level(k)' = IF Level(k) + Rate < Burst THEN Level(k) + Rate ELSE Burst)
  BY <1>0, LevelTyped, LevelTick
<1>3. Ledger'
  <2> SUFFICES ASSUME NEW k \in Clients, NEW t \in 0..(now + 1)
               PROVE  spent[k] - spent_at'[k][t] + Level(k)' <= Burst + (now + 1 - t) * Rate
    BY <1>0 DEF Ledger
  <2>1. CASE t = now + 1
    <3>1. spent_at'[k][t] = spent[k] /\ spent[k] \in Nat
      BY <1>0, <2>1 DEF TypeOK, Tick
    <3>2. (now + 1 - t) * Rate = 0
      BY <1>0, <2>1
    <3> QED
      BY <1>2, <3>1, <3>2
  <2>2. CASE t # now + 1
    <3>1. t \in 0..now /\ now - t \in Nat /\ now + 1 - t = (now - t) + 1
      BY <1>0, <2>2
    <3>2. spent_at'[k][t] = spent_at[k][t] /\ spent[k] \in Nat /\ spent_at[k][t] \in Nat
      BY <1>0, <3>1 DEF TypeOK, Tick
    <3>3. spent[k] - spent_at[k][t] + Level(k) <= Burst + (now - t) * Rate
      BY <3>1 DEF LInv, Ledger
    <3>4. (now + 1 - t) * Rate = (now - t) * Rate + Rate /\ (now - t) * Rate \in Nat
      BY <3>1, OneMore
    <3> QED
      BY <1>2, <3>2, <3>3, <3>4
  <2> QED
    BY <2>1, <2>2
<1>4. PromiseBacked'
  <2> SUFFICES ASSUME Burst >= Cost, NEW k \in Clients, promise[k] # NoPromise
               PROVE  \/ Level(k)' >= Cost
                      \/ promise[k] > now + 1
                         /\ Level(k)' + (promise[k] - (now + 1)) * Rate >= Cost
    BY <1>0 DEF PromiseBacked
  <2>1. CASE Level(k) >= Cost
    BY <1>2, <2>1
  <2>2. CASE Level(k) < Cost
    <3>1. promise[k] > now /\ Level(k) + (promise[k] - now) * Rate >= Cost
          /\ promise[k] \in Nat
      BY <1>0, <1>2, <2>2 DEF LInv, PromiseBacked, TypeOK
    <3>2. promise[k] - (now + 1) \in Nat
          /\ promise[k] - now = (promise[k] - (now + 1)) + 1
      BY <1>0, <3>1
    <3>3. (promise[k] - now) * Rate = (promise[k] - (now + 1)) * Rate + Rate
          /\ (promise[k] - (now + 1)) * Rate \in Nat
      BY <3>2, OneMore
    <3>4. CASE promise[k] = now + 1
      <4>1. (promise[k] - (now + 1)) * Rate = 0
        BY <1>0, <3>4
      <4> QED
        BY <1>2, <3>1, <3>3, <4>1
    <3>5. CASE promise[k] # now + 1
      BY <1>0, <1>2, <3>1, <3>3, <3>5
    <3> QED
      BY <3>4, <3>5
  <2> QED
    BY <1>2, <2>1, <2>2
<1> QED
  BY <1>1, <1>3, <1>4 DEF LInv

\* Every step of the limiter preserves the invariant.
LEMMA NextLInv == LInv /\ [Next]_limiterVars => LInv'
<1> SUFFICES ASSUME LInv, [Next]_limiterVars PROVE LInv'
  OBVIOUS
<1>1. CASE UNCHANGED limiterVars
  BY <1>1 DEF limiterVars, LInv, TypeOK, Ledger, PromiseBacked, Level
<1>2. CASE Tick
  BY <1>2, TickStep
<1>3. ASSUME NEW k \in Clients, Accept(k) \/ Deny(k) PROVE LInv'
  BY <1>3, AcceptStep, DenyStep
<1> QED
  BY <1>1, <1>2, <1>3 DEF Next

\* The inductive invariant of the limiter holds in every reachable state.
THEOREM LimiterInvariant == Spec => []LInv
  BY InitLInv, NextLInv, PTL DEF Spec

\* Every variable of the limiter keeps its type.
THEOREM LimiterTypeCorrect == Spec => []TypeOK
<1>1. LInv => TypeOK
  BY DEF LInv
<1> QED
  BY <1>1, LimiterInvariant, PTL

\* No client ever spends more than burst + rate * length in any window.
THEOREM WindowAlwaysBounded == Spec => []WindowBound
<1>1. LInv => WindowBound
  <2> SUFFICES ASSUME LInv, NEW k \in Clients, NEW t \in 0..now
               PROVE  spent[k] - spent_at[k][t] <= Burst + (now - t) * Rate
    BY DEF WindowBound
  <2>1. spent[k] - spent_at[k][t] + Level(k) <= Burst + (now - t) * Rate
    BY DEF LInv, Ledger
  <2>2. Level(k) \in Nat
    BY LevelTyped, LimiterConfig DEF LInv
  <2>3. spent[k] \in Nat /\ spent_at[k][t] \in Nat /\ now - t \in Nat
    BY LimiterConfig DEF LInv, TypeOK
  <2>4. (now - t) * Rate \in Nat
    BY <2>3, OneMore
  <2> QED
    BY <2>1, <2>2, <2>3, <2>4, LimiterConfig
<1> QED
  BY <1>1, LimiterInvariant, PTL

\* Retry-After is never too short.
THEOREM RetryAfterAlwaysHonest == Spec => []RetryAfterHonest
<1>1. LInv => RetryAfterHonest
  <2> SUFFICES ASSUME LInv, Burst >= Cost, NEW k \in Clients,
                      promise[k] # NoPromise, now >= promise[k]
               PROVE  Level(k) >= Cost
    BY DEF RetryAfterHonest
  <2>1. now \in Nat /\ promise[k] \in Nat
    BY DEF LInv, TypeOK
  <2> QED
    BY <2>1 DEF LInv, PromiseBacked
<1> QED
  BY <1>1, LimiterInvariant, PTL

\* The lazily refilled bucket implements TokenBucket.
THEOREM ImplementsTokenBucket == Spec => LazyRefillExact
<1>1. Init => Eager!Init
  BY DEF Init, Level, Eager!Init
<1>2. LInv /\ [Next]_limiterVars => [Eager!Next]_([k \in Clients |-> Level(k)])
  <2> SUFFICES ASSUME LInv, [Next]_limiterVars
               PROVE  [Eager!Next]_([k \in Clients |-> Level(k)])
    OBVIOUS
  <2>0. TypeOK
    BY DEF LInv
  <2>1. CASE UNCHANGED limiterVars
    BY <2>1 DEF limiterVars, Level
  <2>2. CASE Tick
    <3>1. \A k \in Clients :
            Level(k)' = IF Level(k) + Rate < Burst THEN Level(k) + Rate ELSE Burst
      BY <2>0, <2>2, LevelTick
    <3>2. Eager!Refill
      BY <3>1 DEF Eager!Refill
    <3> QED
      BY <3>2 DEF Eager!Next
  <2>3. ASSUME NEW k \in Clients, Accept(k) PROVE Eager!Pay(k)
    <3>1. Level(k) - Cost \in 0..Burst /\ Level(k) >= Cost
      BY <2>0, <2>3, LevelTyped, LimiterConfig DEF Accept
    <3>2. \A j \in Clients : Level(j)' = IF j = k THEN Level(k) - Cost ELSE Level(j)
      BY <2>0, <2>3, <3>1, LevelSave DEF Accept
    <3> QED
      BY <3>1, <3>2 DEF Eager!Pay
  <2>4. ASSUME NEW k \in Clients, Deny(k)
        PROVE  UNCHANGED [j \in Clients |-> Level(j)]
    <3>1. \A j \in Clients : Level(j)' = Level(j)
      BY <2>0, <2>4, LevelTyped, LevelSave DEF Deny
    <3> QED
      BY <3>1
  <2> QED
    BY <2>1, <2>2, <2>3, <2>4 DEF Next, Eager!Next
<1> QED
  BY <1>1, <1>2, LimiterInvariant, PTL DEF Spec, LazyRefillExact, Eager!Spec

=============================================================================
