------------------------- MODULE FailureStoreProofs -------------------------
(***************************************************************************)
(* Proofs about FailureStore, for any sources, any limits and any number   *)
(* of events.                                                              *)
(*                                                                         *)
(* The reader is a loop over the file, the writers only ever append to the *)
(* file.  CollectAppend joins the two: reading a file with a line more is  *)
(* reading the file and then that line.  With it the invariant needs no    *)
(* induction over the file.                                                *)
(*                                                                         *)
(* LossBounded is not inductive: a fragment at the end of the file has     *)
(* been counted as torn and has not cost anything yet.  LossPaid keeps     *)
(* that debt apart, and TailNotStored says that the event a fragment may   *)
(* itself be was never counted as stored.                                  *)
(***************************************************************************)
EXTENDS FailureStore, FiniteSetTheorems, SequenceTheorems, TLAPS

----------------------------------------------------------------------------
(***************************************************************************)
(* The reader's loop.                                                      *)
(***************************************************************************)

\* Induction, with the numbers that have the property as a set.
LEMMA NatSet ==
  ASSUME NEW S, 0 \in S, \A n \in Nat : n \in S => n + 1 \in S
  PROVE  Nat \subseteq S
<1> SUFFICES ASSUME Nat \ S # {} PROVE FALSE
  OBVIOUS
<1> DEFINE R == OpToRel(<, Nat)
<1>1. IsWellFoundedOn(R, Nat)
  BY NatLessThanWellFounded
<1>2. PICK x \in Nat \ S : \A y \in Nat \ S : <<y, x>> \notin R
  <2> HIDE DEF R
  <2> QED
    BY <1>1, WFMin
<1>3. \A y \in Nat \ S : ~(y < x)
  BY <1>2 DEF OpToRel
<1>4. x # 0 /\ x - 1 \in Nat
  OBVIOUS
<1> QED
  BY <1>3, <1>4

Line == [id : Nat, source : Sources \cup {"garbage", "nothing", "torn"}]

\* One round of the loop.
Round(events, line, source) == IF Wanted(line, source) THEN Append(events, line) ELSE events

\* f holds what the loop has collected after each of its first n rounds.
Rounds(f, file, source, n) ==
  /\ f \in [0..n -> Seq(Line)]
  /\ f[0] = <<>>
  /\ \A i \in 1..n : f[i] = Round(f[i - 1], file[i], source)

\* What is collected are lines of the file.
LEMMA RoundTyped ==
  ASSUME NEW events \in Seq(Line), NEW line \in Line, NEW source
  PROVE  Round(events, line, source) \in Seq(Line)
  BY DEF Round

\* The loop goes through every file.
LEMMA RoundsExist ==
  ASSUME NEW file \in Seq(Line), NEW source, NEW n \in 0..Len(file)
  PROVE  \E f : Rounds(f, file, source, n)
<1> DEFINE S == {k \in Nat : k <= Len(file) => \E f : Rounds(f, file, source, k)}
<1>1. 0 \in S
  <2>1. Rounds([i \in 0..0 |-> <<>>], file, source, 0)
    BY DEF Rounds
  <2> QED
    BY <2>1
<1>2. ASSUME NEW k \in Nat, k \in S PROVE k + 1 \in S
  <2> SUFFICES ASSUME k + 1 <= Len(file) PROVE \E f : Rounds(f, file, source, k + 1)
    OBVIOUS
  <2>1. PICK f : Rounds(f, file, source, k)
    BY <1>2
  <2> DEFINE last == Round(f[k], file[k + 1], source)
             g == [i \in 0..(k + 1) |-> IF i = k + 1 THEN last ELSE f[i]]
  <2>2. f \in [0..k -> Seq(Line)] /\ f[0] = <<>> /\ \A i \in 1..k : f[i] = Round(f[i - 1], file[i], source)
    BY <2>1 DEF Rounds
  <2>3. last \in Seq(Line)
    <3>1. f[k] \in Seq(Line) /\ file[k + 1] \in Line
      BY <2>2
    <3> QED
      BY <3>1, RoundTyped
  <2> HIDE DEF last
  <2>4. g \in [0..(k + 1) -> Seq(Line)] /\ g[0] = <<>>
    <3>1. ASSUME NEW i \in 0..(k + 1), i # k + 1 PROVE f[i] \in Seq(Line)
      <4>1. i \in 0..k
        BY <3>1
      <4> QED
        BY <2>2, <4>1
    <3>2. 0 \in 0..(k + 1) /\ 0 # k + 1
      OBVIOUS
    <3> QED
      BY <2>2, <2>3, <3>1, <3>2
  <2>5. ASSUME NEW i \in 1..(k + 1) PROVE g[i] = Round(g[i - 1], file[i], source)
    <3>1. i \in 0..(k + 1) /\ i - 1 \in 0..(k + 1) /\ i - 1 # k + 1
      OBVIOUS
    <3>2. CASE i = k + 1
      <4>1. g[i] = last /\ g[i - 1] = f[i - 1] /\ i - 1 = k
        BY <3>1, <3>2
      <4> QED
        BY <3>2, <4>1 DEF last
    <3>3. CASE i # k + 1
      <4>1. i \in 1..k /\ g[i] = f[i] /\ g[i - 1] = f[i - 1]
        BY <3>1, <3>3
      <4> QED
        BY <2>2, <4>1
    <3> QED
      BY <3>2, <3>3
  <2>6. Rounds(g, file, source, k + 1)
    BY <2>4, <2>5 DEF Rounds
  <2> QED
    BY <2>6
<1>3. Nat \subseteq S
  <2> HIDE DEF S
  <2> QED
    BY <1>1, <1>2, NatSet
<1> QED
  BY <1>3

\* What the loop has collected at its end is what the reader returns.
LEMMA CollectIsLastRound ==
  ASSUME NEW file \in Seq(Line), NEW source, NEW f, Rounds(f, file, source, Len(file))
  PROVE  Collect(file, source) = f[Len(file)]
<1> DEFINE n == Len(file)
           F(h) == [i \in 0..n |->
                      IF i = 0 THEN <<>>
                      ELSE IF Wanted(file[i], source) THEN Append(h[i - 1], file[i])
                      ELSE h[i - 1]]
           events == CHOOSE h : h = F(h)
<1>0. n \in Nat
  OBVIOUS
<1>1. Collect(file, source) = events[n]
  BY DEF Collect
<1> HIDE DEF n
<1>2. f \in [0..n -> Seq(Line)] /\ f[0] = <<>> /\ \A i \in 1..n : f[i] = Round(f[i - 1], file[i], source)
  BY DEF Rounds, n
<1>3. f = F(f)
  <2>1. ASSUME NEW i \in 0..n
        PROVE  f[i] = IF i = 0 THEN <<>>
                      ELSE IF Wanted(file[i], source) THEN Append(f[i - 1], file[i])
                      ELSE f[i - 1]
    <3>1. CASE i = 0
      BY <1>2, <3>1
    <3>2. CASE i # 0
      <4>1. i \in 1..n
        BY <1>0, <3>2
      <4> QED
        BY <1>2, <3>2, <4>1 DEF Round
    <3> QED
      BY <3>1, <3>2
  <2> QED
    BY <1>2, <2>1
<1>4. events = F(events)
  <2> HIDE DEF F
  <2> QED
    BY <1>3
<1> HIDE DEF events
<1>5. events[0] = <<>> /\ \A i \in 1..n : events[i] = Round(events[i - 1], file[i], source)
  <2>1. \A i \in 0..n : events[i] = IF i = 0 THEN <<>>
                                    ELSE IF Wanted(file[i], source) THEN Append(events[i - 1], file[i])
                                    ELSE events[i - 1]
    BY <1>4
  <2>2. 0 \in 0..n /\ \A i \in 1..n : i \in 0..n /\ i # 0
    BY <1>0
  <2> QED
    BY <2>1, <2>2 DEF Round
<1> DEFINE S == {k \in Nat : k <= n => events[k] = f[k]}
<1>6. 0 \in S
  BY <1>2, <1>5
<1>7. ASSUME NEW k \in Nat, k \in S PROVE k + 1 \in S
  <2> SUFFICES ASSUME k + 1 <= n PROVE events[k + 1] = f[k + 1]
    OBVIOUS
  <2>1. k + 1 \in 1..n /\ (k + 1) - 1 = k /\ events[k] = f[k]
    BY <1>0, <1>7
  <2> QED
    BY <1>2, <1>5, <2>1
<1>8. Nat \subseteq S
  <2> HIDE DEF S
  <2> QED
    BY <1>6, <1>7, NatSet
<1> QED
  BY <1>0, <1>1, <1>8 DEF n

\* The reader returns lines of the file.
LEMMA CollectTyped ==
  ASSUME NEW file \in Seq(Line), NEW source
  PROVE  Collect(file, source) \in Seq(Line)
<1>1. Len(file) \in 0..Len(file)
  OBVIOUS
<1>2. PICK f : Rounds(f, file, source, Len(file))
  BY <1>1, RoundsExist
<1>3. f[Len(file)] \in Seq(Line)
  BY <1>1, <1>2 DEF Rounds
<1> QED
  BY <1>2, <1>3, CollectIsLastRound

\* An empty file has no events.
LEMMA CollectNothing ==
  ASSUME NEW source
  PROVE  Collect(<<>>, source) = <<>>
<1>1. <<>> \in Seq(Line) /\ Len(<<>>) = 0
  OBVIOUS
<1>2. Rounds([i \in 0..0 |-> <<>>], <<>>, source, 0)
  BY DEF Rounds
<1>3. [i \in 0..0 |-> <<>>][0] = <<>>
  OBVIOUS
<1> QED
  BY <1>1, <1>2, <1>3, CollectIsLastRound

\* A line at the end of the file is read last.
LEMMA CollectAppend ==
  ASSUME NEW file \in Seq(Line), NEW line \in Line, NEW source
  PROVE  Collect(Append(file, line), source) = Round(Collect(file, source), line, source)
<1> DEFINE more == Append(file, line)
           n == Len(file)
<1>1. more \in Seq(Line) /\ Len(more) = n + 1 /\ n \in Nat /\ more[n + 1] = line
  OBVIOUS
<1>2. \A i \in 1..n : more[i] = file[i]
  OBVIOUS
<1>3. PICK f : Rounds(f, more, source, n + 1)
  <2>1. n + 1 \in 0..Len(more)
    BY <1>1
  <2> HIDE DEF more
  <2> QED
    BY <1>1, <2>1, RoundsExist
<1> HIDE DEF more
<1> DEFINE g == [i \in 0..n |-> f[i]]
<1>4. /\ f \in [0..(n + 1) -> Seq(Line)] /\ f[0] = <<>>
      /\ \A i \in 1..(n + 1) : f[i] = Round(f[i - 1], more[i], source)
  BY <1>3 DEF Rounds
<1>5. Rounds(g, file, source, n)
  <2>1. g \in [0..n -> Seq(Line)] /\ g[0] = <<>>
    <3>1. \A i \in 0..n : i \in 0..(n + 1)
      BY <1>1
    <3>2. 0 \in 0..n
      BY <1>1
    <3> QED
      BY <1>4, <3>1, <3>2
  <2>2. ASSUME NEW i \in 1..n PROVE g[i] = Round(g[i - 1], file[i], source)
    <3>1. i \in 1..(n + 1) /\ i \in 0..n /\ i - 1 \in 0..n
      BY <1>1
    <3>2. g[i] = f[i] /\ g[i - 1] = f[i - 1]
      BY <3>1
    <3> QED
      BY <1>2, <1>4, <3>1, <3>2
  <2> QED
    BY <2>1, <2>2 DEF Rounds
<1>6. Collect(file, source) = f[n]
  <2>1. g[n] = f[n]
    BY <1>1
  <2> HIDE DEF g
  <2> QED
    BY <1>5, <2>1, CollectIsLastRound
<1>7. Collect(more, source) = f[n + 1]
  BY <1>1, <1>3, CollectIsLastRound
<1>8. f[n + 1] = Round(f[n], line, source)
  <2>1. n + 1 \in 1..(n + 1) /\ (n + 1) - 1 = n
    BY <1>1
  <2> QED
    BY <1>1, <1>4, <2>1
<1> QED
  BY <1>6, <1>7, <1>8 DEF more

----------------------------------------------------------------------------
(***************************************************************************)
(* The inductive invariant.                                                *)
(***************************************************************************)

\* The events of the terminated lines.
Settled == Collect(lines, Every)

Typed ==
  /\ lines \in Seq(Line) /\ tail \in Line /\ stored \in Seq(Line)
  /\ serial \in Nat /\ torn \in Nat
  /\ tail.id = 0 \/ tail.id \in 1..serial

\* The settled events are in order, and older than what follows them.
SettledInOrder ==
  /\ \A i, j \in DOMAIN Settled : i < j => Settled[i].id < Settled[j].id
  /\ \A i \in DOMAIN Settled :
       /\ Settled[i].id \in 1..serial
       /\ tail.id # 0 => Settled[i].id < tail.id

\* The event of a write that did not finish is not among the stored ones.
TailNotStored ==
  \A i \in DOMAIN stored : stored[i].id \in 1..serial /\ stored[i].id # tail.id

\* What a torn write left behind may still cost one event.
LossPaid ==
  /\ IsFiniteSet(ToSet(stored))
  /\ Cardinality(ToSet(stored) \ ToSet(Settled)) + (IF tail = Nothing THEN 0 ELSE 1) <= torn

StoreInv == Typed /\ SettledInOrder /\ TailNotStored /\ LossPaid

\* An element more at the end of a sequence.
LEMMA AppendFacts ==
  ASSUME NEW q \in Seq(Line), NEW e \in Line
  PROVE  /\ Append(q, e) \in Seq(Line)
         /\ DOMAIN q = 1..Len(q) /\ Len(q) \in Nat
         /\ DOMAIN Append(q, e) = 1..(Len(q) + 1)
         /\ Append(q, e)[Len(q) + 1] = e
         /\ \A i \in 1..Len(q) : Append(q, e)[i] = q[i]
         /\ ToSet(Append(q, e)) = ToSet(q) \cup {e}
<1>1. /\ Append(q, e) \in Seq(Line)
      /\ DOMAIN q = 1..Len(q) /\ Len(q) \in Nat
      /\ DOMAIN Append(q, e) = 1..(Len(q) + 1)
      /\ Append(q, e)[Len(q) + 1] = e
      /\ \A i \in 1..Len(q) : Append(q, e)[i] = q[i]
  OBVIOUS
<1> DEFINE a == Append(q, e)
<1>2. ToSet(a) \subseteq ToSet(q) \cup {e}
  <2>1. ASSUME NEW i \in 1..(Len(q) + 1) PROVE a[i] \in ToSet(q) \cup {e}
    <3>1. CASE i = Len(q) + 1
      BY <1>1, <3>1
    <3>2. CASE i # Len(q) + 1
      <4>1. i \in 1..Len(q)
        BY <1>1, <3>2
      <4> QED
        BY <1>1, <4>1 DEF ToSet
    <3> QED
      BY <3>1, <3>2
  <2> HIDE DEF a
  <2> QED
    BY <1>1, <2>1 DEF ToSet, a
<1>3. ToSet(q) \cup {e} \subseteq ToSet(a)
  <2>1. e \in ToSet(a)
    <3>1. Len(q) + 1 \in DOMAIN a
      BY <1>1
    <3> QED
      BY <1>1, <3>1 DEF ToSet
  <2>2. ASSUME NEW i \in 1..Len(q) PROVE q[i] \in ToSet(a)
    <3>1. i \in DOMAIN a /\ a[i] = q[i]
      BY <1>1
    <3> QED
      BY <3>1 DEF ToSet
  <2> QED
    BY <1>1, <2>1, <2>2 DEF ToSet
<1> QED
  BY <1>1, <1>2, <1>3

\* The markers of a file are lines that hold no event.
LEMMA Markers ==
  /\ Garbage \in Line /\ Nothing \in Line /\ Torn \in Line
  /\ Garbage.id = 0 /\ Nothing.id = 0 /\ Torn.id = 0 /\ Torn # Nothing
<1>1. Torn.source # Nothing.source
  BY DEF Torn, Nothing
<1> QED
  BY <1>1 DEF Garbage, Nothing, Torn, Line

\* Skipping a line that does not parse, and reading one that does.
LEMMA SettledAppend ==
  ASSUME NEW file \in Seq(Line), NEW line \in Line
  PROVE  Collect(Append(file, line), Every) =
           IF line.id = 0 THEN Collect(file, Every) ELSE Append(Collect(file, Every), line)
  BY CollectAppend DEF Round, Wanted

\* A new event has the next serial number.
LEMMA NewEventFacts ==
  ASSUME Typed, NEW source \in Sources
  PROVE  NewEvent(source) \in Line /\ NewEvent(source).id = serial + 1
  BY DEF Typed, NewEvent, Line

\* The file is empty.
LEMMA StoreStarts == Init => StoreInv
<1> SUFFICES ASSUME Init PROVE StoreInv
  OBVIOUS
<1>1. Settled = <<>>
  BY CollectNothing DEF Init, Settled
<1>2. Typed
  BY Markers DEF Init, Typed
<1>3. SettledInOrder /\ TailNotStored
  BY <1>1 DEF Init, SettledInOrder, TailNotStored
<1>4. LossPaid
  <2>1. ToSet(stored) = {}
    BY DEF Init, ToSet
  <2>2. ToSet(stored) \ ToSet(Settled) = {}
    BY <2>1
  <2>3. Cardinality(ToSet(stored) \ ToSet(Settled)) = 0 /\ IsFiniteSet(ToSet(stored))
    BY <2>1, <2>2, FS_EmptySet
  <2> QED
    BY <2>3 DEF Init, LossPaid
<1> QED
  BY <1>2, <1>3, <1>4 DEF StoreInv

\* A write that returns.
LEMMA WriteKeeps ==
  ASSUME StoreInv, NEW source \in Sources, Write(source)
  PROVE  StoreInv'
<1>0. PICK e \in Line : e = NewEvent(source) /\ e.id = serial + 1
  BY NewEventFacts DEF StoreInv
<1>1. PICK line \in Line : line = IF tail = Nothing THEN e ELSE Garbage
  BY Markers
<1>2. /\ lines' = Append(lines, line) /\ stored' = Append(stored, e)
      /\ serial' = serial + 1 /\ tail' = Nothing /\ torn' = torn
  BY <1>0, <1>1 DEF Write
<1>3. /\ lines \in Seq(Line) /\ tail \in Line /\ stored \in Seq(Line)
      /\ serial \in Nat /\ torn \in Nat
  BY DEF StoreInv, Typed
<1>4. Typed'
  BY <1>2, <1>3, Markers, AppendFacts DEF Typed
<1>5. Settled \in Seq(Line)
  BY <1>3, CollectTyped DEF Settled
<1>6. Settled' = IF tail = Nothing THEN Append(Settled, e) ELSE Settled
  <2>1. Settled' = IF line.id = 0 THEN Settled ELSE Append(Settled, line)
    BY <1>2, <1>3, SettledAppend DEF Settled
  <2>2. e.id # 0
    BY <1>0, <1>3
  <2> QED
    BY <1>1, <2>1, <2>2, Markers
<1>7. SettledInOrder'
  <2>1. \A i \in DOMAIN Settled : Settled[i].id \in 1..serial
    BY DEF StoreInv, SettledInOrder
  <2>2. \A i, j \in DOMAIN Settled : i < j => Settled[i].id < Settled[j].id
    BY DEF StoreInv, SettledInOrder
  <2>3. tail'.id = 0
    BY <1>2, Markers
  <2>4. CASE tail # Nothing
    BY <1>2, <1>3, <1>6, <2>1, <2>2, <2>3, <2>4 DEF SettledInOrder
  <2>5. CASE tail = Nothing
    <3> DEFINE n == Len(Settled)
    <3>1. /\ DOMAIN Settled = 1..n /\ n \in Nat
          /\ DOMAIN Settled' = 1..(n + 1) /\ Settled'[n + 1] = e
          /\ \A i \in 1..n : Settled'[i] = Settled[i]
      BY <1>5, <1>6, <2>5, AppendFacts
    <3>n. PICK m \in Nat : m = n
      BY <3>1
    <3> HIDE DEF n
    <3>2. ASSUME NEW i \in 1..(m + 1) PROVE i = m + 1 \/ i \in 1..m
      OBVIOUS
    <3>3. ASSUME NEW i \in DOMAIN Settled', NEW j \in DOMAIN Settled', i < j
          PROVE  Settled'[i].id < Settled'[j].id
      <4>1. i \in 1..m /\ i \in 1..(m + 1) /\ j \in 1..(m + 1)
        BY <3>1, <3>n, <3>3
      <4>2. Settled'[i] = Settled[i] /\ Settled[i].id \in 1..serial /\ i \in DOMAIN Settled
        BY <2>1, <3>1, <3>n, <4>1
      <4>3. CASE j = m + 1
        <5>1. Settled'[j].id = serial + 1
          BY <1>0, <3>1, <3>n, <4>3
        <5> QED
          BY <1>3, <4>2, <5>1
      <4>4. CASE j \in 1..m
        BY <2>2, <3>1, <3>n, <3>3, <4>2, <4>4
      <4> QED
        BY <3>2, <4>1, <4>3, <4>4
    <3>4. ASSUME NEW i \in DOMAIN Settled' PROVE Settled'[i].id \in 1..serial'
      <4>1. CASE i = m + 1
        BY <1>0, <1>2, <1>3, <3>1, <3>n, <4>1
      <4>2. CASE i \in 1..m
        <5>1. Settled'[i].id \in 1..serial
          BY <2>1, <3>1, <3>n, <4>2
        <5> QED
          BY <1>2, <1>3, <5>1
      <4> QED
        BY <3>1, <3>n, <3>2, <4>1, <4>2
    <3> QED
      BY <2>3, <3>3, <3>4 DEF SettledInOrder
  <2> QED
    BY <2>4, <2>5
<1>8. \A x \in ToSet(stored) : x.id \in 1..serial
  BY DEF StoreInv, TailNotStored, ToSet
<1>9. TailNotStored'
  <2>1. \A x \in ToSet(stored') : x.id \in 1..(serial + 1)
    <3>1. ToSet(stored') = ToSet(stored) \cup {e}
      BY <1>2, <1>3, AppendFacts
    <3> QED
      BY <1>0, <1>3, <1>8, <3>1
  <2>2. tail'.id = 0
    BY <1>2, Markers
  <2>3. \A i \in DOMAIN stored' : stored'[i] \in ToSet(stored')
    BY DEF ToSet
  <2> QED
    BY <1>2, <1>3, <2>1, <2>2, <2>3 DEF TailNotStored
<1>10. LossPaid'
  <2> DEFINE lost == ToSet(stored) \ ToSet(Settled)
  <2>1. ToSet(stored)' = ToSet(stored) \cup {e}
    <3>1. ToSet(stored') = ToSet(stored) \cup {e}
      BY <1>2, <1>3, AppendFacts
    <3> QED
      BY <3>1 DEF ToSet
  <2>2. e \notin ToSet(stored)
    BY <1>0, <1>3, <1>8
  <2>3. IsFiniteSet(ToSet(stored)) /\ IsFiniteSet(ToSet(stored))'
    BY <2>1, FS_AddElement DEF StoreInv, LossPaid
  <2>4. IsFiniteSet(lost) /\ Cardinality(lost) \in Nat
    BY <2>3, FS_Difference, FS_CardinalityType
  <2>5. Cardinality(lost) + (IF tail = Nothing THEN 0 ELSE 1) <= torn
    BY DEF StoreInv, LossPaid
  <2>6. CASE tail = Nothing
    <3>1. ToSet(Settled') = ToSet(Settled) \cup {e}
      BY <1>5, <1>6, <2>6, AppendFacts
    <3>2. ToSet(stored)' \ ToSet(Settled)' = lost
      BY <2>1, <2>2, <3>1 DEF ToSet
    <3> QED
      BY <1>2, <2>3, <2>5, <2>6, <3>2 DEF LossPaid
  <2>7. CASE tail # Nothing
    <3>1. ToSet(Settled)' = ToSet(Settled)
      BY <1>6, <2>7 DEF ToSet
    <3>2. e \notin ToSet(Settled)
      <4>1. \A i \in DOMAIN Settled : Settled[i].id # serial + 1
        BY <1>3 DEF StoreInv, SettledInOrder
      <4> QED
        BY <1>0, <4>1 DEF ToSet
    <3>3. ToSet(stored)' \ ToSet(Settled)' = lost \cup {e} /\ e \notin lost
      BY <2>1, <2>2, <3>1, <3>2
    <3>4. Cardinality(lost \cup {e}) = Cardinality(lost) + 1
      BY <2>4, <3>3, FS_AddElement
    <3> HIDE DEF lost
    <3>5. Cardinality(ToSet(stored)' \ ToSet(Settled)') <= torn'
      BY <1>2, <1>3, <2>4, <2>5, <2>7, <3>3, <3>4
    <3>6. Cardinality(ToSet(stored)' \ ToSet(Settled)') \in Nat
      <4>1. Cardinality(lost) + 1 \in Nat
        BY <2>4
      <4> QED
        BY <3>3, <3>4, <4>1
    <3> QED
      BY <1>2, <2>3, <3>5, <3>6 DEF LossPaid
  <2> QED
    BY <2>6, <2>7
<1> QED
  BY <1>4, <1>7, <1>9, <1>10 DEF StoreInv

\* A write that leaves something behind: any event there before was not stored.
LEMMA WriteTornKeeps ==
  ASSUME StoreInv, NEW source \in Sources, WriteTorn(source)
  PROVE  StoreInv'
<1>0. PICK e \in Line : e = NewEvent(source) /\ e.id = serial + 1
  BY NewEventFacts DEF StoreInv
<1>1. /\ lines' = lines /\ stored' = stored
      /\ serial' = serial + 1 /\ tail' \in {Torn, e} /\ torn' = torn + 1
  BY <1>0 DEF WriteTorn
<1>2. /\ lines \in Seq(Line) /\ tail \in Line /\ stored \in Seq(Line)
      /\ serial \in Nat /\ torn \in Nat
  BY DEF StoreInv, Typed
<1>3. tail' \in Line /\ (tail'.id = 0 \/ tail'.id = serial + 1)
  BY <1>0, <1>1, Markers
<1>4. Typed'
  BY <1>1, <1>2, <1>3 DEF Typed
<1>5. Settled' = Settled
  BY <1>1 DEF Settled
<1>6. SettledInOrder'
  <2>1. \A i \in DOMAIN Settled : Settled[i].id \in 1..serial
    BY DEF StoreInv, SettledInOrder
  <2> QED
    BY <1>1, <1>2, <1>3, <1>5, <2>1 DEF StoreInv, SettledInOrder
<1>7. TailNotStored'
  <2>1. \A i \in DOMAIN stored : stored[i].id \in 1..serial
    BY DEF StoreInv, TailNotStored
  <2> QED
    BY <1>1, <1>2, <1>3, <2>1 DEF TailNotStored
<1>8. LossPaid'
  <2> DEFINE c == Cardinality(ToSet(stored) \ ToSet(Settled))
  <2>1. IsFiniteSet(ToSet(stored)) /\ c + (IF tail = Nothing THEN 0 ELSE 1) <= torn
    BY DEF StoreInv, LossPaid
  <2>2. c \in Nat
    BY <2>1, FS_Difference, FS_CardinalityType
  <2>3. c' = c /\ IsFiniteSet(ToSet(stored))'
    BY <1>1, <1>5, <2>1
  <2> HIDE DEF c
  <2>4. c' + (IF tail' = Nothing THEN 0 ELSE 1) <= torn'
    BY <1>1, <1>2, <2>1, <2>2, <2>3
  <2> QED
    BY <2>3, <2>4 DEF LossPaid, c
<1> QED
  BY <1>4, <1>6, <1>7, <1>8 DEF StoreInv

\* A write that leaves nothing behind uses up a serial number.
LEMMA WriteFailsKeeps ==
  ASSUME StoreInv, NEW source \in Sources, WriteFails(source)
  PROVE  StoreInv'
<1>1. serial' = serial + 1 /\ UNCHANGED <<lines, tail, stored, torn>>
  BY DEF WriteFails
<1>2. serial \in Nat
  BY DEF StoreInv, Typed
<1>3. Settled' = Settled /\ \A k \in 1..serial : k \in 1..serial'
  BY <1>1, <1>2 DEF Settled
<1>4. Typed'
  BY <1>1, <1>2, <1>3 DEF StoreInv, Typed
<1>5. SettledInOrder' /\ TailNotStored'
  BY <1>1, <1>3 DEF StoreInv, SettledInOrder, TailNotStored
<1>6. LossPaid'
  BY <1>1, <1>3 DEF StoreInv, LossPaid
<1> QED
  BY <1>4, <1>5, <1>6 DEF StoreInv

\* An empty file is a new one.
LEMMA ClearKeeps ==
  ASSUME Clear
  PROVE  StoreInv'
<1>1. Init'
  BY DEF Clear, Init
<1>2. (Init => StoreInv)'
  BY StoreStarts, PTL
<1> QED
  BY <1>1, <1>2

----------------------------------------------------------------------------
(***************************************************************************)
(* Theorems.                                                               *)
(***************************************************************************)

\* The invariant of the failure log, whatever fails or dies in between.
THEOREM StoreInvariant == Spec => []StoreInv
<1>1. ASSUME StoreInv, UNCHANGED storeVars PROVE StoreInv'
  <2>1. UNCHANGED <<lines, tail, serial, stored, torn>> /\ Settled' = Settled
    BY <1>1 DEF storeVars, Settled
  <2> QED
    BY <1>1, <2>1 DEF StoreInv, Typed, SettledInOrder, TailNotStored, LossPaid
<1>2. StoreInv /\ [Next]_storeVars => StoreInv'
  BY <1>1, WriteKeeps, WriteTornKeeps, WriteFailsKeeps, ClearKeeps DEF Next
<1> QED
  BY StoreStarts, <1>2, PTL DEF Spec

\* The reader returns the settled events and, if it is whole, the last line.
LEMMA ParsedIs ==
  ASSUME Typed
  PROVE  /\ Settled \in Seq(Line)
         /\ Parsed = IF tail.id = 0 THEN Settled ELSE Append(Settled, tail)
  BY CollectTyped, SettledAppend DEF Typed, Parsed, Matching, Settled

\* However writes fail or are cut off, the reader returns no event twice and
\* none before one that was recorded earlier.
THEOREM AlwaysReadInOrder == Spec => []ReadInOrder
<1>1. ASSUME StoreInv PROVE ReadInOrder
  <2>1. /\ Settled \in Seq(Line)
        /\ Parsed = IF tail.id = 0 THEN Settled ELSE Append(Settled, tail)
    BY <1>1, ParsedIs DEF StoreInv
  <2>2. /\ \A i, j \in DOMAIN Settled : i < j => Settled[i].id < Settled[j].id
        /\ \A i \in DOMAIN Settled : tail.id # 0 => Settled[i].id < tail.id
    BY <1>1 DEF StoreInv, SettledInOrder
  <2>3. CASE tail.id = 0
    BY <2>1, <2>2, <2>3 DEF ReadInOrder
  <2>4. CASE tail.id # 0
    <3>1. PICK m \in Nat : m = Len(Settled)
      BY <2>1
    <3>2. /\ DOMAIN Settled = 1..m /\ DOMAIN Parsed = 1..(m + 1)
          /\ Parsed[m + 1] = tail /\ \A i \in 1..m : Parsed[i] = Settled[i]
      BY <1>1, <2>1, <2>4, <3>1, AppendFacts DEF StoreInv, Typed
    <3>3. ASSUME NEW i \in 1..(m + 1), NEW j \in 1..(m + 1), i < j
          PROVE  Parsed[i].id < Parsed[j].id
      <4>1. i \in 1..m /\ (j = m + 1 \/ j \in 1..m)
        BY <3>3
      <4> QED
        BY <2>2, <2>4, <3>2, <3>3, <4>1
    <3> QED
      BY <3>2, <3>3 DEF ReadInOrder
  <2> QED
    BY <2>3, <2>4
<1> QED
  BY <1>1, StoreInvariant, PTL

\* Each write that was cut off costs at most one event that was stored.
THEOREM LossAlwaysBounded == Spec => []LossBounded
<1>1. ASSUME StoreInv PROVE LossBounded
  <2>1. /\ Settled \in Seq(Line)
        /\ Parsed = IF tail.id = 0 THEN Settled ELSE Append(Settled, tail)
    BY <1>1, ParsedIs DEF StoreInv
  <2>2. tail \in Line /\ torn \in Nat
    BY <1>1 DEF StoreInv, Typed
  <2>3. tail \notin ToSet(stored)
    BY <1>1 DEF StoreInv, TailNotStored, ToSet
  <2>4. ToSet(stored) \ ToSet(Parsed) = ToSet(stored) \ ToSet(Settled)
    BY <2>1, <2>2, <2>3, AppendFacts
  <2> DEFINE c == Cardinality(ToSet(stored) \ ToSet(Settled))
  <2>5. IsFiniteSet(ToSet(stored)) /\ c + (IF tail = Nothing THEN 0 ELSE 1) <= torn
    BY <1>1 DEF StoreInv, LossPaid
  <2>6. c \in Nat
    BY <2>5, FS_Difference, FS_CardinalityType
  <2> HIDE DEF c
  <2>7. c <= torn
    BY <2>2, <2>5, <2>6
  <2> QED
    BY <2>4, <2>7 DEF LossBounded, c
<1> QED
  BY <1>1, StoreInvariant, PTL

\* The end of a sequence is a suffix of it.
LEMMA EndIsSuffix ==
  ASSUME NEW q \in Seq(Line), NEW k \in Nat \ {0}
  PROVE  /\ IsSuffix(SubSeq(q, k, Len(q)), q)
         /\ Len(SubSeq(q, k, Len(q))) = IF k <= Len(q) THEN Len(q) - k + 1 ELSE 0
<1> DEFINE n == Len(q)
           p == SubSeq(q, k, n)
           m == IF k <= n THEN n - k + 1 ELSE 0
<1>1. n \in Nat /\ m \in Nat /\ m <= n
  OBVIOUS
<1>2. p \in Seq(Line) /\ Len(p) = m /\ \A i \in 1..m : p[i] = q[k + i - 1]
  OBVIOUS
<1> HIDE DEF p
<1>3. /\ Reverse(p) \in Seq(Line) /\ Len(Reverse(p)) = m
      /\ \A i \in 1..m : Reverse(p)[i] = p[(m - i) + 1]
  BY <1>1, <1>2 DEF Reverse
<1>4. /\ Reverse(q) \in Seq(Line) /\ Len(Reverse(q)) = n
      /\ \A i \in 1..n : Reverse(q)[i] = q[(n - i) + 1]
  BY <1>1 DEF Reverse
<1>5. ASSUME NEW i \in 1..m PROVE Reverse(p)[i] = Reverse(q)[i]
  <2>1. k <= n /\ (m - i) + 1 \in 1..m /\ k + ((m - i) + 1) - 1 = (n - i) + 1 /\ i \in 1..n
    BY <1>1
  <2> HIDE DEF m, n
  <2> QED
    BY <1>2, <1>3, <1>4, <2>1
<1> HIDE DEF m, n
<1>6. SubSeq(Reverse(p), 1, m) = SubSeq(Reverse(q), 1, m)
  BY <1>1, <1>3, <1>4, <1>5
<1>7. IsSuffix(p, q)
  BY <1>1, <1>3, <1>4, <1>6 DEF IsSuffix, IsPrefix
<1> QED
  BY <1>2, <1>7 DEF p, m, n

\* For every limit, zero and negative ones included, a read returns the end of
\* what matches, and a positive limit as much of it as there is.
THEOREM LimitAlwaysTakesNewest == Spec => []LimitTakesNewest
<1>1. ASSUME StoreInv PROVE LimitTakesNewest
  <2> SUFFICES ASSUME NEW source \in Sources \cup {Every}, NEW limit \in Limits
               PROVE  /\ IsSuffix(LastN(Matching(source), limit), Matching(source))
                      /\ limit > 0 => Len(LastN(Matching(source), limit)) =
                           IF Len(Matching(source)) < limit THEN Len(Matching(source)) ELSE limit
    BY DEF LimitTakesNewest, ReadEvents
  <2>1. PICK all \in Seq(Line) : all = Matching(source)
    BY <1>1, CollectTyped, AppendFacts DEF StoreInv, Typed, Matching
  <2>2. limit \in Int /\ Len(all) \in Nat
    BY StoreConfig
  <2>3. CASE limit = 0
    <3>1. IsSuffix(SubSeq(all, 1, Len(all)), all)
      BY EndIsSuffix
    <3>2. SubSeq(all, 1, Len(all)) = all
      BY SubSeqFull
    <3>3. LastN(all, limit) = all
      BY <2>3 DEF LastN
    <3>4. ~(limit > 0)
      BY <2>3
    <3> QED
      BY <2>1, <3>1, <3>2, <3>3, <3>4
  <2>4. CASE limit > 0
    <3>0. PICK n \in Nat : n = Len(all)
      BY <2>2
    <3> DEFINE first == IF n > limit THEN n - limit + 1 ELSE 1
    <3>f. first \in Nat \ {0}
      <4>1. CASE n > limit
        BY <2>2, <4>1
      <4>2. CASE ~(n > limit)
        BY <4>2
      <4> QED
        BY <4>1, <4>2
    <3>1. PICK k \in Nat \ {0} : k = IF n > limit THEN n - limit + 1 ELSE 1
      BY <3>f
    <3>2. LastN(all, limit) = SubSeq(all, k, n)
      <4>1. limit # 0 /\ ~(limit < 0)
        BY <2>2, <2>4
      <4> QED
        BY <2>4, <3>0, <3>1, <4>1 DEF LastN
    <3>3. /\ IsSuffix(SubSeq(all, k, n), all)
          /\ Len(SubSeq(all, k, n)) = IF k <= n THEN n - k + 1 ELSE 0
      BY <3>0, EndIsSuffix
    <3>4. (IF k <= n THEN n - k + 1 ELSE 0) = IF n < limit THEN n ELSE limit
      BY <2>2, <2>4, <3>1
    <3> QED
      BY <2>1, <3>0, <3>2, <3>3, <3>4
  <2>5. CASE limit < 0
    <3>1. PICK k \in Nat \ {0} : k = 1 - limit
      BY <2>2, <2>5
    <3>2. LastN(all, limit) = SubSeq(all, k, Len(all))
      BY <2>2, <2>5, <3>1 DEF LastN
    <3> QED
      BY <2>1, <2>2, <2>5, <3>2, EndIsSuffix
  <2> QED
    BY <2>2, <2>3, <2>4, <2>5
<1> QED
  BY <1>1, StoreInvariant, PTL

=============================================================================
