---------------------------- MODULE EngineProofs -----------------------------
(***************************************************************************)
(* The engine keeps its promises for every value of the constants: any     *)
(* symbols, configurations, ticks, orders, commands, latencies and bounds. *)
(*                                                                         *)
(* The module goes from the parts to the whole:                            *)
(*   1. The batch tuner: its limits                                        *)
(*   2. The event queue: pushes and pops, its order and its counts         *)
(*   3. The life of an order: queue, routes and exchanges agree on it      *)
(*   4. The desk: one command, all commands of a callback                  *)
(*   5. Batches: the buffers, their deadline, the flush                    *)
(*   6. The account and the reports                                        *)
(*   7. EngineInv, the inductive invariant, and Proceeds, the step         *)
(*   8. A lemma ...Proceeds for each action of Next                        *)
(*   9. The start of a run, and any step                                   *)
(*  10. The properties that follow, and the theorems                       *)
(***************************************************************************)
EXTENDS EngineProperties, ExchangeLemmas, FiniteSetTheorems, TLAPS

-----------------------------------------------------------------------------
(***************************************************************************)
(* The batch tuner                                                         *)
(***************************************************************************)
\* The longest batch lies between the floor and the ceiling.
WithinLimits(t) == t \in Tuner /\ t.min <= t.current /\ t.current <= t.max

\* clamp returns a number between its limits.
LEMMA ClampedBetween ==
  ASSUME NEW n \in Int, NEW lo \in Nat, NEW hi \in Nat, lo <= hi
  PROVE  Clamped(n, lo, hi) \in lo .. hi
  BY DEF Clamped, Greater, Lesser

(***************************************************************************)
(* BatchTuner::new, whatever the order of its floor and its ceiling,       *)
(* starts within them; the ceiling is the configured maximum (the default  *)
(* if there is none) unless that is below the floor.                       *)
(***************************************************************************)
THEOREM NewTunerWithinLimits ==
  ASSUME NEW m \in Nat
  PROVE  /\ WithinLimits(NewTuner(m))
         /\ m >= TunerFloor /\ m > 0 => NewTuner(m).max = m
         /\ NewTuner(m).max = Greater(TunerFloor, IF m > 0 THEN m ELSE TunerDefault)
<1> DEFINE limit == IF m > 0 THEN m ELSE TunerDefault
<1>1. limit \in Nat /\ TunerFloor \in Nat /\ 0 \in 0 .. TunerInterval - 1
  BY TunerAssumption
<1>2. m > 0 => limit = m
  OBVIOUS
<1> HIDE DEF limit
<1> DEFINE lo == Lesser(TunerFloor, limit)
           hi == Greater(TunerFloor, limit)
<1>3. lo \in Nat /\ hi \in Nat /\ lo <= hi
  BY <1>1 DEF Lesser, Greater
<1>4. m >= TunerFloor /\ m > 0 => hi = m
  BY <1>1, <1>2 DEF Greater
<1>5. NewTuner(m) = [min |-> lo, max |-> hi, current |-> Clamped(m, lo, hi), samples |-> 0]
  BY DEF NewTuner, limit
<1>6. hi = Greater(TunerFloor, IF m > 0 THEN m ELSE TunerDefault)
  BY DEF limit
<1> HIDE DEF lo, hi
<1> DEFINE start == Clamped(m, lo, hi)
<1>7. start \in lo .. hi
  BY <1>3, ClampedBetween
<1> HIDE DEF start
<1>8. NewTuner(m) = [min |-> lo, max |-> hi, current |-> start, samples |-> 0]
  BY <1>5 DEF start
<1>9. WithinLimits(NewTuner(m))
  BY <1>1, <1>3, <1>7, <1>8 DEF WithinLimits, Tuner
<1>10. QED
  BY <1>3, <1>4, <1>6, <1>7, <1>8, <1>9

\* Growing by a tenth, or the least step, ends at the ceiling.
LEMMA LongerWithinLimits ==
  ASSUME NEW t, WithinLimits(t)
  PROVE  Longer(t) \in t.min .. t.max /\ Longer(t) >= t.current
<1>1. /\ t.min \in Nat /\ t.max \in Nat /\ t.current \in Nat /\ TunerStep \in Nat
      /\ t.min <= t.current /\ t.current <= t.max
  BY TunerAssumption DEF WithinLimits, Tuner
<1>2. Greater(t.current \div 10, TunerStep) \in Nat
  BY <1>1 DEF Greater
<1>3. QED
  BY <1>1, <1>2 DEF Longer, Lesser

\* Shrinking by a fifth ends at the floor.
LEMMA ShorterWithinLimits ==
  ASSUME NEW t, WithinLimits(t)
  PROVE  Shorter(t) \in t.min .. t.max /\ Shorter(t) <= t.current
<1>1. /\ t.min \in Nat /\ t.max \in Nat /\ t.current \in Nat
      /\ t.min <= t.current /\ t.current <= t.max
  BY DEF WithinLimits, Tuner
<1>2. (4 * t.current) \div 5 \in Nat /\ (4 * t.current) \div 5 <= t.current
  BY <1>1
<1>3. QED
  BY <1>1, <1>2 DEF Shorter, Clamped, Greater, Lesser

(***************************************************************************)
(* record_batch keeps the longest batch within the limits it was built     *)
(* with: a fast strategy never makes it shorter, a slow one never longer.  *)
(***************************************************************************)
THEOREM RecordBatchWithinLimits ==
  ASSUME NEW t, NEW fast \in BOOLEAN, WithinLimits(t)
  PROVE  LET u == RecordBatch(t, fast)
         IN  /\ WithinLimits(u) /\ u.min = t.min /\ u.max = t.max
             /\ fast => u.current >= t.current
             /\ ~fast => u.current <= t.current
<1> DEFINE n    == (t.samples + 1) % TunerInterval
           next == IF n # 0 THEN t.current ELSE IF fast THEN Longer(t) ELSE Shorter(t)
<1>1. /\ t \in Tuner /\ t.samples \in Nat /\ t.current \in Nat
      /\ t.min <= t.current /\ t.current <= t.max
      /\ TunerInterval \in Nat \ {0}
  BY TunerAssumption DEF WithinLimits, Tuner
<1>2. n \in 0 .. TunerInterval - 1
  BY <1>1
<1>3. /\ next \in t.min .. t.max /\ next \in Nat
      /\ fast => next >= t.current
      /\ ~fast => next <= t.current
  BY <1>1, LongerWithinLimits, ShorterWithinLimits DEF Tuner
<1>4. RecordBatch(t, fast) = [t EXCEPT !.samples = n, !.current = next]
  BY DEF RecordBatch
<1> HIDE DEF n, next
<1> DEFINE u == RecordBatch(t, fast)
<1>5. u \in Tuner /\ u.min = t.min /\ u.max = t.max /\ u.current = next
  BY <1>1, <1>2, <1>3, <1>4 DEF Tuner
<1>6. WithinLimits(u)
  BY <1>1, <1>3, <1>5 DEF WithinLimits
<1>7. QED
  BY <1>3, <1>5, <1>6

-----------------------------------------------------------------------------
(***************************************************************************)
(* The event queue                                                         *)
(***************************************************************************)
TickRecord ==
  [ts : Nat, local : Nat, symbol : Symbols, side : Side, price : Prices, qty : Nat]
ReportRecord ==
  [id : OrderId, status : OrderState, last : Nat, price : Prices \cup {NoPrice},
   filled : Nat, remaining : Nat]

TickEvents   == [ts : Nat, kind : {"Tick"}, tick : TickRecord]
Deliveries   == {e \in [ts : Nat, kind : {"TickDelivery"}, tick : TickRecord] : e.tick.local = e.ts}
OrderEvents  == [ts : Nat, kind : {"Order"}, id : OrderId, order : EngineOrder]
IdEvents     == [ts : Nat, kind : {"OrderAck", "OrderCancel", "OrderCancelAck"}, id : OrderId]
ReportEvents == [ts : Nat, kind : {"OrderReport"}, report : ReportRecord]
TimerEvents  == [ts : Nat, kind : {"Timer"}, timer_id : Nat \ {0}]

Event == PreloadEvent \cup TickEvents \cup Deliveries \cup OrderEvents \cup IdEvents
           \cup ReportEvents \cup TimerEvents

Sorted(q) == \A i, j \in 1 .. Len(q) : i <= j => q[i].ts <= q[j].ts

\* For the induction over the natural numbers and over sequences of events.
Pushes == INSTANCE FoldTheory WITH Op <- Enqueue

\* Every event has a time.
LEMMA EventHasTime == \A e \in Event : e.ts \in Nat
  BY DEF Event, PreloadEvent, TickEvents, Deliveries, OrderEvents, IdEvents, ReportEvents, TimerEvents

\* What is due by t is part of the queue.
LEMMA DueByBounds ==
  ASSUME NEW q \in Seq(Event), NEW t
  PROVE  DueBy(q, t) \in 0 .. Len(q)
<1> DEFINE S == {i \in 1 .. Len(q) : q[i].ts <= t}
<1>1. Len(q) \in Nat /\ DOMAIN q = 1 .. Len(q)
  BY LenProperties
<1>2. IsFiniteSet(1 .. Len(q)) /\ Cardinality(1 .. Len(q)) = Len(q)
  BY SMTT(60), <1>1, FS_Interval
<1>3. S \subseteq 1 .. Len(q)
  OBVIOUS
<1>4. Cardinality(S) \in Nat /\ Cardinality(S) <= Len(q)
  <2> HIDE DEF S
  <2>1. IsFiniteSet(S) /\ Cardinality(S) <= Cardinality(1 .. Len(q))
    BY <1>2, <1>3, FS_Subset
  <2>2. Cardinality(S) \in Nat
    BY <2>1, FS_CardinalityType
  <2>3. QED
    BY <1>2, <2>1, <2>2
<1>5. DueBy(q, t) = Cardinality(S)
  BY <1>1 DEF DueBy
<1>6. QED
  BY <1>1, <1>4, <1>5

\* In a sorted queue, what is due by t are the first events.
LEMMA DueByOfSorted ==
  ASSUME NEW q \in Seq(Event), Sorted(q), NEW t \in Nat
  PROVE  \A i \in 1 .. Len(q) : q[i].ts <= t <=> i <= DueBy(q, t)
<1> DEFINE S    == {i \in 1 .. Len(q) : q[i].ts <= t}
           Good == {m \in Nat : m <= Len(q) =>
                      \E k \in 0 .. m : {i \in 1 .. m : q[i].ts <= t} = 1 .. k}
<1>1. /\ Len(q) \in Nat /\ DOMAIN q = 1 .. Len(q)
      /\ \A i \in 1 .. Len(q) : q[i].ts \in Nat
  BY LenProperties, ElementOfSeq, EventHasTime
<1>2. 0 \in Good
  <2>1. {i \in 1 .. 0 : q[i].ts <= t} = 1 .. 0
    OBVIOUS
  <2>2. QED
    BY <2>1
<1>3. ASSUME NEW m \in Nat, m \in Good PROVE m + 1 \in Good
  <2>1. SUFFICES ASSUME m + 1 <= Len(q)
                 PROVE  \E k \in 0 .. m + 1 :
                          {i \in 1 .. m + 1 : q[i].ts <= t} = 1 .. k
    OBVIOUS
  <2>2. PICK k \in 0 .. m : {i \in 1 .. m : q[i].ts <= t} = 1 .. k
    <3>1. m <= Len(q)
      BY <1>1, <2>1
    <3>2. QED
      BY <1>3, <3>1
  <2>3. CASE q[m + 1].ts <= t
    <3>1. \A i \in 1 .. m + 1 : q[i].ts <= q[m + 1].ts
      BY <1>1, <2>1 DEF Sorted
    <3>2. \A i \in 1 .. m + 1 : q[i].ts \in Nat
      BY <1>1, <2>1
    <3>3. \A i \in 1 .. m + 1 : q[i].ts <= t
      BY <2>3, <3>1, <3>2
    <3>4. {i \in 1 .. m + 1 : q[i].ts <= t} = 1 .. m + 1
      BY <3>3
    <3>5. QED
      BY <3>4
  <2>4. CASE ~(q[m + 1].ts <= t)
    <3>1. \A i \in 1 .. m + 1 : q[i].ts <= t <=> i \in 1 .. m /\ q[i].ts <= t
      BY <2>4
    <3>2. {i \in 1 .. m + 1 : q[i].ts <= t} = 1 .. k
      BY <2>2, <3>1
    <3>3. QED
      BY <3>2
  <2>5. QED
    BY <2>3, <2>4
<1> HIDE DEF Good
<1>4. Nat \subseteq Good
  BY <1>2, <1>3, Pushes!NatSetInduction
<1>5. PICK k \in 0 .. Len(q) : S = 1 .. k
  <2>1. Len(q) \in Good /\ Len(q) <= Len(q)
    BY <1>1, <1>4
  <2>2. QED
    BY <2>1 DEF Good
<1>6. DueBy(q, t) = k
  <2>1. Cardinality(1 .. k) = k
    BY <1>1, <1>5, FS_Interval
  <2>2. QED
    BY <1>1, <1>5, <2>1 DEF DueBy
<1>7. QED
  BY <1>1, <1>5, <1>6

(***************************************************************************)
(* A push puts the event between two parts of the queue.                   *)
(***************************************************************************)
LEMMA EnqueueParts ==
  ASSUME NEW q \in Seq(Event), NEW e \in Event
  PROVE  \E a, b \in Seq(Event) : /\ q = a \o b /\ Len(a) = DueBy(q, e.ts)
                              /\ Enqueue(q, e) = (a \o <<e>>) \o b
<1> DEFINE k == DueBy(q, e.ts)
           a == SubSeq(q, 1, k)
           b == SubSeq(q, k + 1, Len(q))
<1>1. k \in 0 .. Len(q) /\ Len(q) \in Nat
  BY DueByBounds, LenProperties
<1> HIDE DEF k
<1>2. /\ a \in Seq(Event) /\ Len(a) = k /\ \A i \in 1 .. k : a[i] = q[i]
  BY <1>1, SubSeqProperties, ElementOfSeq
<1>3. /\ b \in Seq(Event) /\ Len(b) = Len(q) - k
      /\ \A i \in 1 .. Len(q) - k : b[i] = q[k + i]
  BY <1>1, SubSeqProperties, ElementOfSeq
<1> HIDE DEF a, b
<1>4. /\ a \o b \in Seq(Event) /\ Len(a \o b) = Len(a) + Len(b)
      /\ \A i \in 1 .. Len(a) + Len(b) :
           (a \o b)[i] = IF i <= Len(a) THEN a[i] ELSE b[i - Len(a)]
  BY ZenonT(60), <1>2, <1>3, ConcatProperties
<1>5. q = a \o b
  <2>1. Len(a \o b) = Len(q)
    BY <1>1, <1>2, <1>3, <1>4
  <2>2. ASSUME NEW i \in 1 .. Len(q) PROVE (a \o b)[i] = q[i]
    <3>1. CASE i <= k
      BY <1>1, <1>2, <1>3, <1>4, <3>1
    <3>2. CASE ~(i <= k)
      <4>1. i - k \in 1 .. Len(q) - k /\ k + (i - k) = i
        BY <1>1, <3>2
      <4>2. b[i - k] = q[i]
        BY <1>3, <4>1
      <4>3. QED
        BY <1>1, <1>2, <1>3, <1>4, <3>2, <4>2
    <3>3. QED
      BY <3>1, <3>2
  <2>3. QED
    BY <1>4, <2>1, <2>2, SeqEqual
<1>6. Enqueue(q, e) = (a \o <<e>>) \o b
  <2>1. (k + 1) - 1 = k
    BY <1>1
  <2>2. QED
    BY <2>1 DEF Enqueue, InsertAt, a, b, k
<1>7. QED
  BY <1>2, <1>3, <1>5, <1>6 DEF k

\* The same, place by place.
LEMMA EnqueuePlaces ==
  ASSUME NEW q \in Seq(Event), NEW e \in Event
  PROVE  /\ DueBy(q, e.ts) \in 0 .. Len(q) /\ Len(q) \in Nat
         /\ Enqueue(q, e) \in Seq(Event) /\ Len(Enqueue(q, e)) = Len(q) + 1
         /\ \A i \in 1 .. DueBy(q, e.ts) : Enqueue(q, e)[i] = q[i]
         /\ Enqueue(q, e)[DueBy(q, e.ts) + 1] = e
         /\ \A i \in DueBy(q, e.ts) + 1 .. Len(q) : Enqueue(q, e)[i + 1] = q[i]
<1> DEFINE k == DueBy(q, e.ts)
           r == Enqueue(q, e)
<1>1. k \in 0 .. Len(q) /\ Len(q) \in Nat
  BY DueByBounds, LenProperties
<1> HIDE DEF k, r
<1>0. \E a, b \in Seq(Event) : /\ q = a \o b /\ Len(a) = DueBy(q, e.ts)
                         /\ Enqueue(q, e) = (a \o <<e>>) \o b
  BY EnqueueParts
<1>2. PICK a \in Seq(Event), b \in Seq(Event) : q = a \o b /\ Len(a) = k /\ r = (a \o <<e>>) \o b
  BY <1>0 DEF k, r
<1> DEFINE one == <<e>>
           c   == a \o one
<1>3. one \in Seq(Event) /\ Len(one) = 1 /\ one[1] = e
  OBVIOUS
<1> HIDE DEF one
<1>4. /\ c \in Seq(Event) /\ Len(c) = k + 1
      /\ \A i \in 1 .. k + 1 : c[i] = IF i <= k THEN a[i] ELSE one[i - k]
  <2>1. /\ a \o one \in Seq(Event) /\ Len(a \o one) = Len(a) + Len(one)
        /\ \A i \in 1 .. Len(a) + Len(one) :
             (a \o one)[i] = IF i <= Len(a) THEN a[i] ELSE one[i - Len(a)]
    BY <1>3, ConcatProperties
  <2>2. QED
    BY <1>1, <1>2, <1>3, <2>1
<1> HIDE DEF c
<1>5. /\ Len(a \o b) = Len(a) + Len(b) /\ Len(b) \in Nat
      /\ \A i \in 1 .. Len(a) + Len(b) :
           (a \o b)[i] = IF i <= Len(a) THEN a[i] ELSE b[i - Len(a)]
  BY ConcatProperties, LenProperties
<1>6. /\ c \o b \in Seq(Event) /\ Len(c \o b) = Len(c) + Len(b)
      /\ \A i \in 1 .. Len(c) + Len(b) :
           (c \o b)[i] = IF i <= Len(c) THEN c[i] ELSE b[i - Len(c)]
  BY <1>4, ConcatProperties
<1>7. r = c \o b
  BY <1>2 DEF c, one
<1>8. r \in Seq(Event) /\ Len(r) = Len(q) + 1 /\ Len(b) = Len(q) - k
  BY <1>1, <1>2, <1>4, <1>5, <1>6, <1>7
<1>9. \A i \in 1 .. k : r[i] = q[i]
  BY <1>1, <1>2, <1>4, <1>5, <1>6, <1>7, <1>8
<1>10. r[k + 1] = e
  <2>1. k + 1 \in 1 .. k + 1 /\ ~(k + 1 <= k) /\ (k + 1) - k = 1
    BY <1>1
  <2>2. c[k + 1] = e
    BY <1>3, <1>4, <2>1
  <2>3. k + 1 \in 1 .. Len(c) + Len(b) /\ k + 1 <= Len(c)
    BY <1>1, <1>4, <1>5
  <2>4. QED
    BY <1>6, <1>7, <2>2, <2>3
<1>11. ASSUME NEW i \in k + 1 .. Len(q) PROVE r[i + 1] = q[i]
  <2>1. (i + 1) - (k + 1) = i - k
    BY <1>1
  <2>2. r[i + 1] = b[i - k]
    BY SMTT(60), <1>1, <1>4, <1>6, <1>7, <1>8, <2>1
  <2>3. q[i] = b[i - k]
    BY <1>1, <1>2, <1>5, <1>8
  <2>4. QED
    BY <2>2, <2>3
<1>12. QED
  BY <1>1, <1>8, <1>9, <1>10, <1>11 DEF k, r

\* Every place of the longer queue is the new event's or an old one's.
LEMMA PlacesAfterEnqueue ==
  ASSUME NEW q \in Seq(Event), NEW e \in Event
  PROVE  /\ Len(Enqueue(q, e)) \in Nat
         /\ DueBy(q, e.ts) + 1 \in 1 .. Len(Enqueue(q, e))
         /\ \A i \in 1 .. Len(Enqueue(q, e)) :
              \/ i \in 1 .. DueBy(q, e.ts) /\ i \in 1 .. Len(q)
              \/ i = DueBy(q, e.ts) + 1
              \/ /\ i - 1 \in DueBy(q, e.ts) + 1 .. Len(q) /\ i - 1 \in 1 .. Len(q)
                 /\ Enqueue(q, e)[i] = q[i - 1]
<1> DEFINE k == DueBy(q, e.ts)
           r == Enqueue(q, e)
<1>1. /\ k \in 0 .. Len(q) /\ Len(q) \in Nat /\ Len(r) = Len(q) + 1
      /\ \A i \in k + 1 .. Len(q) : r[i + 1] = q[i]
  BY EnqueuePlaces
<1> HIDE DEF k, r
<1>2. Len(r) \in Nat /\ k + 1 \in 1 .. Len(r)
  BY <1>1
<1>3. ASSUME NEW i \in 1 .. Len(r), ~(i \in 1 .. k), i # k + 1
      PROVE  i - 1 \in k + 1 .. Len(q) /\ i - 1 \in 1 .. Len(q) /\ r[i] = q[i - 1]
  <2>1. i - 1 \in k + 1 .. Len(q) /\ i - 1 \in 1 .. Len(q) /\ (i - 1) + 1 = i
    BY <1>1, <1>3
  <2>2. QED
    BY <1>1, <2>1
<1>4. QED
  BY <1>1, <1>2, <1>3 DEF k, r

(***************************************************************************)
(* A push leaves a sorted queue sorted.                                    *)
(***************************************************************************)
LEMMA EnqueueSorted ==
  ASSUME NEW q \in Seq(Event), Sorted(q), NEW e \in Event
  PROVE  Enqueue(q, e) \in Seq(Event) /\ Sorted(Enqueue(q, e))
<1> DEFINE k == DueBy(q, e.ts)
           r == Enqueue(q, e)
<1>1. /\ k \in 0 .. Len(q) /\ Len(q) \in Nat
      /\ r \in Seq(Event) /\ Len(r) = Len(q) + 1
      /\ \A i \in 1 .. k : r[i] = q[i]
      /\ r[k + 1] = e
      /\ \A i \in k + 1 .. Len(q) : r[i + 1] = q[i]
  BY EnqueuePlaces
<1>2. e.ts \in Nat /\ \A i \in 1 .. Len(q) : q[i].ts \in Nat
  BY ElementOfSeq, EventHasTime
<1>3. \A i \in 1 .. Len(q) : q[i].ts <= e.ts <=> i <= k
  BY <1>2, DueByOfSorted
<1> HIDE DEF k, r
<1>4. \A i, j \in 1 .. Len(q) : i <= j => q[i].ts <= q[j].ts
  BY DEF Sorted
<1>5. \A i \in 1 .. k : r[i].ts \in Nat /\ r[i].ts <= e.ts
  BY SMTT(60), <1>1, <1>2, <1>3
<1>6. \A i \in k + 1 .. Len(q) : r[i + 1].ts \in Nat /\ e.ts <= r[i + 1].ts
  BY SMTT(60), <1>1, <1>2, <1>3
<1>7. ASSUME NEW i \in 1 .. Len(r), NEW j \in 1 .. Len(r), i <= j
      PROVE  r[i].ts <= r[j].ts
  <2>1. CASE i \in 1 .. k /\ j \in 1 .. k
    <3>1. r[i] = q[i] /\ r[j] = q[j]
      BY <1>1, <2>1
    <3>2. i \in 1 .. Len(q) /\ j \in 1 .. Len(q)
      BY <1>1, <2>1
    <3>3. QED
      BY <1>4, <1>7, <3>1, <3>2
  <2>2. CASE i \in 1 .. k /\ j = k + 1
    BY <1>1, <1>5, <2>2
  <2>3. CASE i \in 1 .. k /\ j > k + 1
    <3>1. j - 1 \in k + 1 .. Len(q) /\ (j - 1) + 1 = j
      BY <1>1, <2>3
    <3>2. r[j].ts \in Nat /\ e.ts <= r[j].ts
      BY <1>6, <3>1
    <3>3. QED
      BY <1>2, <1>5, <2>3, <3>2
  <2>4. CASE i = k + 1 /\ j = k + 1
    BY <1>1, <1>2, <2>4
  <2>5. CASE i = k + 1 /\ j > k + 1
    <3>1. j - 1 \in k + 1 .. Len(q) /\ (j - 1) + 1 = j
      BY <1>1, <2>5
    <3>2. QED
      BY <1>1, <1>6, <2>5, <3>1
  <2>6. CASE i > k + 1 /\ j > k + 1
    <3>1. /\ i - 1 \in k + 1 .. Len(q) /\ (i - 1) + 1 = i
          /\ j - 1 \in k + 1 .. Len(q) /\ (j - 1) + 1 = j
          /\ i - 1 \in 1 .. Len(q) /\ j - 1 \in 1 .. Len(q) /\ i - 1 <= j - 1
      BY <1>1, <1>7, <2>6
    <3>2. r[i] = q[i - 1] /\ r[j] = q[j - 1]
      BY <1>1, <3>1
    <3>3. QED
      BY <1>4, <3>1, <3>2
  <2>7. QED
    BY <1>1, <1>7, <2>1, <2>2, <2>3, <2>4, <2>5, <2>6
<1>8. Sorted(r)
  BY <1>7 DEF Sorted
<1>9. QED
  BY <1>1, <1>8 DEF r

-----------------------------------------------------------------------------
(***************************************************************************)
(* How often events of a set E wait in a queue.                            *)
(***************************************************************************)
Places(q, E) == {i \in 1 .. Len(q) : q[i] \in E}

Times(q, E) == Cardinality(Places(q, E))

\* A count is a number.
LEMMA PlacesAreFinite ==
  ASSUME NEW q \in Seq(Event), NEW E
  PROVE  IsFiniteSet(Places(q, E)) /\ Times(q, E) \in Nat
<1>1. Len(q) \in Nat
  BY LenProperties
<1>2. IsFiniteSet(1 .. Len(q))
  BY <1>1, FS_Interval
<1>3. Places(q, E) \subseteq 1 .. Len(q)
  BY DEF Places
<1>4. IsFiniteSet(Places(q, E))
  BY <1>2, <1>3, FS_Subset
<1>5. Cardinality(Places(q, E)) \in Nat
  BY <1>4, FS_CardinalityType
<1>6. QED
  BY <1>4, <1>5 DEF Times

\* What an event at the end adds to a count.
LEMMA TimesAfterAppend ==
  ASSUME NEW q \in Seq(Event), NEW e \in Event, NEW E
  PROVE  Times(Append(q, e), E) = Times(q, E) + (IF e \in E THEN 1 ELSE 0)
<1> DEFINE r == Append(q, e)
           n == Len(q) + 1
<1>1. /\ Len(q) \in Nat /\ Len(r) = n /\ r[n] = e
      /\ \A i \in 1 .. Len(q) : r[i] = q[i]
  BY AppendProperties, LenProperties
<1> HIDE DEF r
<1>2. IsFiniteSet(Places(q, E)) /\ Times(q, E) \in Nat
  BY PlacesAreFinite
<1>3. n \notin Places(q, E)
  BY <1>1 DEF Places
<1>4. CASE e \in E
  <2>1. Places(r, E) = Places(q, E) \cup {n}
    BY <1>1, <1>4 DEF Places
  <2>2. Cardinality(Places(q, E) \cup {n}) = Cardinality(Places(q, E)) + 1
    BY <1>2, <1>3, FS_AddElement
  <2>3. QED
    BY <1>4, <2>1, <2>2 DEF Times, r
<1>5. CASE e \notin E
  <2>1. Places(r, E) = Places(q, E)
    BY <1>1, <1>5 DEF Places
  <2>2. QED
    BY <1>2, <1>5, <2>1 DEF Times, r
<1>6. QED
  BY <1>4, <1>5

\* Counting is what a loop that keeps the events of E does.
LEMMA TimesIsKept ==
  ASSUME NEW q \in Seq(Event), NEW E
  PROVE  Times(q, E) = Len(Kept(q, E))
<1> DEFINE Good == {s \in Seq(Event) : Times(s, E) = Len(Kept(s, E))}
<1>1. <<>> \in Good
  <2>1. <<>> \in Seq(Event) /\ Len(<<>>) = 0
    BY EmptySeq
  <2>2. Places(<<>>, E) = {}
    BY <2>1 DEF Places
  <2>3. Times(<<>>, E) = 0
    BY <2>2, FS_EmptySet DEF Times
  <2>4. QED
    BY <2>1, <2>3, KeptOfEmpty
<1>2. ASSUME NEW s \in Seq(Event), NEW e \in Event, s \in Good
      PROVE  Append(s, e) \in Good
  <2>1. Append(s, e) \in Seq(Event)
    BY AppendProperties
  <2>2. Times(Append(s, e), E) = Times(s, E) + (IF e \in E THEN 1 ELSE 0) /\ Times(s, E) \in Nat
    BY TimesAfterAppend, PlacesAreFinite
  <2>3. Kept(Append(s, e), E) = IF e \in E THEN Append(Kept(s, E), e) ELSE Kept(s, E)
    BY KeptOfAppend
  <2>4. Kept(s, E) \in Seq(Event)
    <3>1. Kept(s, E) \in Seq(Event \cap E)
      BY KeptType
    <3>2. QED
      BY <3>1
  <2>5. e \in E => Len(Append(Kept(s, E), e)) = Len(Kept(s, E)) + 1
    BY <2>4, AppendProperties
  <2>6. QED
    BY <1>2, <2>1, <2>2, <2>3, <2>5
<1> HIDE DEF Good
<1>3. Seq(Event) \subseteq Good
  BY <1>1, <1>2, Pushes!SeqSetInduction
<1>4. QED
  BY <1>3 DEF Good

\* Counts add up over two parts of a sequence.
LEMMA TimesOfConcat ==
  ASSUME NEW a \in Seq(Event), NEW b \in Seq(Event), NEW E
  PROVE  Times(a \o b, E) = Times(a, E) + Times(b, E)
<1>1. a \o b \in Seq(Event)
  BY ConcatProperties
<1>2. Kept(a \o b, E) = Kept(a, E) \o Kept(b, E)
  BY KeptOfConcat
<1>3. Kept(a, E) \in Seq(Event \cap E) /\ Kept(b, E) \in Seq(Event \cap E)
  BY KeptType
<1>4. Len(Kept(a, E) \o Kept(b, E)) = Len(Kept(a, E)) + Len(Kept(b, E))
  BY <1>3, ConcatProperties
<1>5. QED
  BY <1>1, <1>2, <1>4, TimesIsKept

\* The count in a single event.
LEMMA TimesOfOne ==
  ASSUME NEW e \in Event, NEW E
  PROVE  Times(<<e>>, E) = IF e \in E THEN 1 ELSE 0
<1>1. <<e>> = Append(<<>>, e) /\ <<>> \in Seq(Event)
  BY EmptySeq
<1>2. Places(<<>>, E) = {}
  BY EmptySeq DEF Places
<1>3. Times(<<>>, E) = 0
  BY <1>2, FS_EmptySet DEF Times
<1>4. Times(Append(<<>>, e), E) = Times(<<>>, E) + (IF e \in E THEN 1 ELSE 0)
  BY <1>1, TimesAfterAppend
<1>5. QED
  BY <1>1, <1>3, <1>4

\* What a push adds to a count, wherever the event lands.
LEMMA TimesAfterEnqueue ==
  ASSUME NEW q \in Seq(Event), NEW e \in Event, NEW E
  PROVE  Times(Enqueue(q, e), E) = Times(q, E) + (IF e \in E THEN 1 ELSE 0)
<1>1. \E a, b \in Seq(Event) : /\ q = a \o b /\ Len(a) = DueBy(q, e.ts)
                               /\ Enqueue(q, e) = (a \o <<e>>) \o b
  BY EnqueueParts
<1>2. PICK a \in Seq(Event), b \in Seq(Event) : q = a \o b /\ Enqueue(q, e) = (a \o <<e>>) \o b
  BY <1>1
<1> DEFINE one == <<e>>
           n   == IF e \in E THEN 1 ELSE 0
<1>3. one \in Seq(Event) /\ Times(one, E) = n /\ n \in Nat
  BY TimesOfOne
<1>4. Enqueue(q, e) = (a \o one) \o b
  BY <1>2
<1> HIDE DEF one, n
<1> DEFINE c == a \o one
<1>5. c \in Seq(Event)
  BY <1>3, ConcatProperties
<1>6. Times(c, E) = Times(a, E) + Times(one, E)
  BY <1>3, TimesOfConcat
<1>7. Enqueue(q, e) = c \o b
  BY <1>4
<1> HIDE DEF c
<1>8. Times(c \o b, E) = Times(c, E) + Times(b, E)
  BY <1>5, TimesOfConcat
<1>9. Times(q, E) = Times(a, E) + Times(b, E)
  BY <1>2, TimesOfConcat
<1>10. Times(a, E) \in Nat /\ Times(b, E) \in Nat
  BY PlacesAreFinite
<1>11. Times(Enqueue(q, e), E) = Times(q, E) + n
  BY <1>3, <1>6, <1>7, <1>8, <1>9, <1>10
<1>12. QED
  BY <1>11 DEF n

\* What a pop takes from a count.
LEMMA TimesOfTail ==
  ASSUME NEW q \in Seq(Event), q # <<>>, NEW E
  PROVE  /\ Head(q) \in Event /\ Tail(q) \in Seq(Event)
         /\ Times(q, E) = Times(Tail(q), E) + (IF Head(q) \in E THEN 1 ELSE 0)
<1>1. Head(q) \in Event /\ Tail(q) \in Seq(Event) /\ q = <<Head(q)>> \o Tail(q)
  BY HeadTailProperties
<1> DEFINE one  == <<Head(q)>>
           rest == Tail(q)
           n    == IF Head(q) \in E THEN 1 ELSE 0
<1>2. one \in Seq(Event) /\ Times(one, E) = n /\ n \in Nat
  BY <1>1, TimesOfOne
<1>3. rest \in Seq(Event) /\ q = one \o rest
  BY <1>1
<1> HIDE DEF one, rest, n
<1>4. Times(one \o rest, E) = Times(one, E) + Times(rest, E) /\ Times(rest, E) \in Nat
  BY <1>2, <1>3, TimesOfConcat, PlacesAreFinite
<1>5. Times(q, E) = Times(rest, E) + n
  BY <1>2, <1>3, <1>4
<1>6. QED
  BY <1>1, <1>5 DEF rest, n

\* A count of zero means that no place has such an event.
LEMMA NoTimes ==
  ASSUME NEW q \in Seq(Event), NEW E
  PROVE  Times(q, E) = 0 <=> \A i \in 1 .. Len(q) : q[i] \notin E
<1>1. IsFiniteSet(Places(q, E))
  BY PlacesAreFinite
<1>2. Cardinality(Places(q, E)) = 0 <=> Places(q, E) = {}
  BY <1>1, FS_EmptySet
<1>3. QED
  BY <1>2 DEF Times, Places

\* An event at one place only counts once.
LEMMA OneTime ==
  ASSUME NEW q \in Seq(Event), NEW E, NEW k \in 1 .. Len(q), q[k] \in E,
         \A i \in 1 .. Len(q) : q[i] \in E => i = k
  PROVE  Times(q, E) = 1
<1>1. Places(q, E) = {k}
  BY DEF Places
<1>2. QED
  BY <1>1, FS_Singleton DEF Times

\* More kinds of events, no smaller a count.
LEMMA TimesGrow ==
  ASSUME NEW q \in Seq(Event), NEW E, NEW F, E \subseteq F
  PROVE  Times(q, E) \in Nat /\ Times(q, F) \in Nat /\ Times(q, E) <= Times(q, F)
<1>1. IsFiniteSet(Places(q, F)) /\ Times(q, E) \in Nat /\ Times(q, F) \in Nat
  BY PlacesAreFinite
<1>2. Places(q, E) \subseteq Places(q, F)
  BY DEF Places
<1>3. Cardinality(Places(q, E)) <= Cardinality(Places(q, F))
  BY <1>1, <1>2, FS_Subset
<1>4. QED
  BY <1>1, <1>3 DEF Times

-----------------------------------------------------------------------------
(***************************************************************************)
(* The queue at time t: sorted, with nothing earlier, and with the         *)
(* delivery of every tick that waits behind it.                            *)
(***************************************************************************)
Delivers(d, e) == d.kind = "TickDelivery" /\ d.tick = [e.tick EXCEPT !.local = d.ts]

Followed(q) ==
  \A i \in 1 .. Len(q) : q[i].kind = "Tick" =>
    \E j \in i + 1 .. Len(q) : Delivers(q[j], q[i])

QueueFrom(q, t) ==
  /\ q \in Seq(Event) /\ Sorted(q) /\ Followed(q)
  /\ \A i \in 1 .. Len(q) : q[i].ts >= t

\* What a handler pushes.
Later(t) == {e \in Event : e.kind # "Tick" /\ e.ts >= t}

\* The same for all ticks but the one at place m.
FollowedBut(q, m) ==
  \A i \in 1 .. Len(q) : q[i].kind = "Tick" /\ i # m =>
    \E j \in i + 1 .. Len(q) : Delivers(q[j], q[i])

\* A push moves what was behind the new event's place by one.
Shifted(q, e, i) == IF i <= DueBy(q, e.ts) THEN i ELSE i + 1

\* A push keeps the delivery behind its tick, except for the tick of place m.
LEMMA PushFollowedBut ==
  ASSUME NEW q \in Seq(Event), NEW m \in Nat, FollowedBut(q, m), NEW e \in Event
  PROVE  \A i \in 1 .. Len(Enqueue(q, e)) :
           Enqueue(q, e)[i].kind = "Tick" /\ i # DueBy(q, e.ts) + 1 /\ i # Shifted(q, e, m) =>
             \E j \in i + 1 .. Len(Enqueue(q, e)) : Delivers(Enqueue(q, e)[j], Enqueue(q, e)[i])
<1> DEFINE k == DueBy(q, e.ts)
           r == Enqueue(q, e)
<1>1. /\ k \in 0 .. Len(q) /\ Len(q) \in Nat /\ Len(r) = Len(q) + 1
      /\ \A i \in 1 .. k : r[i] = q[i]
      /\ r[k + 1] = e
      /\ \A i \in k + 1 .. Len(q) : r[i + 1] = q[i]
  BY EnqueuePlaces
<1> HIDE DEF k, r
<1>2. \A i \in 1 .. Len(q) : q[i].kind = "Tick" /\ i # m =>
        \E j \in i + 1 .. Len(q) : Delivers(q[j], q[i])
  BY DEF FollowedBut
<1> DEFINE shift(i) == IF i <= k THEN i ELSE i + 1
<1>3. ASSUME NEW i \in 1 .. Len(q), NEW j \in i + 1 .. Len(q)
      PROVE  /\ shift(i) \in 1 .. Len(r) /\ r[shift(i)] = q[i]
             /\ shift(j) \in shift(i) + 1 .. Len(r) /\ r[shift(j)] = q[j]
  <2>1. CASE i <= k /\ j <= k
    <3>1. i \in 1 .. k /\ j \in 1 .. k
      BY <1>1, <2>1
    <3>2. QED
      BY <1>1, <2>1, <3>1
  <2>2. CASE i <= k /\ ~(j <= k)
    <3>1. i \in 1 .. k /\ j \in k + 1 .. Len(q)
      BY <1>1, <2>2
    <3>2. QED
      BY <1>1, <2>2, <3>1
  <2>3. CASE ~(i <= k)
    <3>1. i \in k + 1 .. Len(q) /\ j \in k + 1 .. Len(q) /\ ~(j <= k)
      BY <1>1, <2>3
    <3>2. QED
      BY <1>1, <2>3, <3>1
  <2>4. QED
    BY <2>1, <2>2, <2>3
<1>4. ASSUME NEW i \in 1 .. Len(q), q[i].kind = "Tick", i # m
      PROVE  \E j \in shift(i) + 1 .. Len(r) : Delivers(r[j], r[shift(i)])
  <2>1. PICK j \in i + 1 .. Len(q) : Delivers(q[j], q[i])
    BY <1>2, <1>4
  <2>2. /\ r[shift(i)] = q[i]
        /\ shift(j) \in shift(i) + 1 .. Len(r) /\ r[shift(j)] = q[j]
    BY <1>3
  <2>3. Delivers(r[shift(j)], r[shift(i)])
    BY <2>1, <2>2
  <2>4. QED
    BY <2>2, <2>3
<1>5. ASSUME NEW n \in 1 .. Len(r), r[n].kind = "Tick", n # k + 1, n # shift(m)
      PROVE  \E j \in n + 1 .. Len(r) : Delivers(r[j], r[n])
  <2>1. CASE n <= k
    <3>1. n \in 1 .. k /\ n \in 1 .. Len(q) /\ shift(n) = n
      BY <1>1, <2>1
    <3>2. q[n].kind = "Tick" /\ n # m
      BY <1>1, <1>5, <3>1
    <3>3. \E j \in shift(n) + 1 .. Len(r) : Delivers(r[j], r[shift(n)])
      BY <1>4, <3>1, <3>2
    <3>4. QED
      BY <3>1, <3>3
  <2>2. CASE n > k + 1
    <3>1. /\ n - 1 \in k + 1 .. Len(q) /\ n - 1 \in 1 .. Len(q) /\ ~(n - 1 <= k)
          /\ (n - 1) + 1 = n
      BY <1>1, <2>2
    <3>2. r[n] = q[n - 1]
      BY <1>1, <3>1
    <3>3. q[n - 1].kind = "Tick" /\ shift(n - 1) = n /\ n - 1 # m
      BY <1>5, <3>1, <3>2
    <3>4. \E j \in shift(n - 1) + 1 .. Len(r) : Delivers(r[j], r[shift(n - 1)])
      BY <1>4, <3>1, <3>3
    <3>5. QED
      BY <3>3, <3>4
  <2>3. QED
    BY <1>1, <1>5, <2>1, <2>2
<1>6. QED
  BY <1>5 DEF r, k, Shifted

\* A push of anything but a tick keeps every delivery behind its tick.
LEMMA PushFollowed ==
  ASSUME NEW q \in Seq(Event), Followed(q), NEW e \in Event, e.kind # "Tick"
  PROVE  Followed(Enqueue(q, e))
<1> DEFINE r == Enqueue(q, e)
<1>1. FollowedBut(q, 0)
  BY DEF Followed, FollowedBut
<1>2. Shifted(q, e, 0) = 0 /\ r[DueBy(q, e.ts) + 1] = e
  <2>1. DueBy(q, e.ts) \in Nat /\ r[DueBy(q, e.ts) + 1] = e
    BY EnqueuePlaces
  <2>2. QED
    BY <2>1 DEF Shifted
<1>3. \A i \in 1 .. Len(r) :
        r[i].kind = "Tick" /\ i # DueBy(q, e.ts) + 1 /\ i # Shifted(q, e, 0) =>
          \E j \in i + 1 .. Len(r) : Delivers(r[j], r[i])
  BY <1>1, PushFollowedBut
<1>4. QED
  BY <1>2, <1>3 DEF Followed

\* A push of a later event leaves nothing from the past.
LEMMA PushedTimes ==
  ASSUME NEW q \in Seq(Event), NEW e \in Event, NEW t \in Nat, e.ts >= t,
         \A i \in 1 .. Len(q) : q[i].ts >= t
  PROVE  \A i \in 1 .. Len(Enqueue(q, e)) : Enqueue(q, e)[i].ts >= t
<1> DEFINE k == DueBy(q, e.ts)
           r == Enqueue(q, e)
<1>1. /\ k \in 0 .. Len(q) /\ Len(q) \in Nat /\ Len(r) = Len(q) + 1
      /\ \A i \in 1 .. k : r[i] = q[i]
      /\ r[k + 1] = e
      /\ \A i \in k + 1 .. Len(q) : r[i + 1] = q[i]
  BY ZenonT(60), EnqueuePlaces
<1> HIDE DEF k, r
<1>2. ASSUME NEW i \in 1 .. Len(r) PROVE r[i].ts >= t
  <2>1. CASE i <= k
    BY <1>1, <2>1
  <2>2. CASE i = k + 1
    BY <1>1, <2>2
  <2>3. CASE i > k + 1
    <3>1. i - 1 \in k + 1 .. Len(q) /\ i - 1 \in 1 .. Len(q) /\ (i - 1) + 1 = i
      BY <1>1, <2>3
    <3>2. r[i] = q[i - 1]
      BY <1>1, <3>1
    <3>3. QED
      BY <3>1, <3>2
  <2>4. QED
    BY <1>1, <2>1, <2>2, <2>3
<1>3. QED
  BY <1>2 DEF r

\* One push keeps the queue's invariant.
LEMMA PushKeeps ==
  ASSUME NEW t \in Nat, NEW q, QueueFrom(q, t), NEW e \in Later(t)
  PROVE  QueueFrom(Enqueue(q, e), t)
<1>1. q \in Seq(Event) /\ Sorted(q) /\ Followed(q) /\ \A i \in 1 .. Len(q) : q[i].ts >= t
  BY DEF QueueFrom
<1>2. e \in Event /\ e.kind # "Tick" /\ e.ts >= t
  BY DEF Later
<1>3. Enqueue(q, e) \in Seq(Event) /\ Sorted(Enqueue(q, e))
  BY <1>1, <1>2, EnqueueSorted
<1>4. Followed(Enqueue(q, e))
  BY <1>1, <1>2, PushFollowed
<1>5. \A i \in 1 .. Len(Enqueue(q, e)) : Enqueue(q, e)[i].ts >= t
  BY <1>1, <1>2, PushedTimes
<1>6. QED
  BY <1>3, <1>4, <1>5 DEF QueueFrom

\* A fold of pushes is the fold of FoldTheory.
LEMMA PushesFold ==
  ASSUME NEW q, NEW s
  PROVE  FoldLeft(Enqueue, q, s) = Pushes!Fold(q, s)
  BY DEF Pushes!Fold, FoldLeft, Pushes!MapThenFoldSet, MapThenFoldSet,
         Pushes!Latest, Max

\* Several pushes, one after the other.
LEMMA PushAll ==
  ASSUME NEW t \in Nat, NEW q, QueueFrom(q, t), NEW s \in Seq(Later(t))
  PROVE  /\ QueueFrom(FoldLeft(Enqueue, q, s), t)
         /\ s \in Seq(Event)
         /\ \A E : Times(FoldLeft(Enqueue, q, s), E) = Times(q, E) + Times(s, E)
<1> DEFINE F(u) == Pushes!Fold(q, u)
           Good == {u \in Seq(Later(t)) :
                      /\ QueueFrom(F(u), t)
                      /\ u \in Seq(Event)
                      /\ \A E : Times(F(u), E) = Times(q, E) + Times(u, E)}
<1>0. q \in Seq(Event) /\ \A E : Times(q, E) \in Nat
  BY PlacesAreFinite DEF QueueFrom
<1>1. <<>> \in Good
  <2>1. F(<<>>) = q
    BY Pushes!FoldOfEmpty
  <2>2. <<>> \in Seq(Event) /\ <<>> \in Seq(Later(t)) /\ Len(<<>>) = 0
    BY EmptySeq
  <2>3. ASSUME NEW E PROVE Times(<<>>, E) = 0
    <3>1. Times(<<>>, E) = 0 <=> \A i \in 1 .. Len(<<>>) : <<>>[i] \notin E
      BY <2>2, NoTimes
    <3>2. QED
      BY <2>2, <3>1
  <2>4. \A E : Times(q, E) = Times(q, E) + Times(<<>>, E)
    BY <1>0, <2>3
  <2>5. QED
    BY <2>1, <2>2, <2>4
<1>2. ASSUME NEW u \in Seq(Later(t)), NEW e \in Later(t), u \in Good
      PROVE  Append(u, e) \in Good
  <2>1. F(Append(u, e)) = Enqueue(F(u), e)
    BY Pushes!FoldOfAppend
  <2>2. /\ QueueFrom(F(u), t) /\ u \in Seq(Event)
        /\ \A E : Times(F(u), E) = Times(q, E) + Times(u, E)
    BY <1>2
  <2> HIDE DEF F
  <2>3. e \in Event /\ Append(u, e) \in Seq(Event) /\ Append(u, e) \in Seq(Later(t))
    BY <2>2, AppendProperties DEF Later
  <2>4. QueueFrom(Enqueue(F(u), e), t) /\ F(u) \in Seq(Event)
    BY <2>2, PushKeeps DEF QueueFrom
  <2>5. ASSUME NEW E PROVE Times(Enqueue(F(u), e), E) = Times(q, E) + Times(Append(u, e), E)
    <3> DEFINE n == IF e \in E THEN 1 ELSE 0
    <3>1. Times(Enqueue(F(u), e), E) = Times(F(u), E) + n
      BY <2>3, <2>4, TimesAfterEnqueue
    <3>2. Times(Append(u, e), E) = Times(u, E) + n
      BY <2>2, <2>3, TimesAfterAppend
    <3>3. n \in Nat /\ Times(u, E) \in Nat /\ Times(q, E) \in Nat
      BY <1>0, <2>2, PlacesAreFinite
    <3> HIDE DEF n
    <3>4. Times(F(u), E) = Times(q, E) + Times(u, E)
      BY <2>2
    <3>5. QED
      BY <3>1, <3>2, <3>3, <3>4
  <2>6. QED
    BY <2>1, <2>3, <2>4, <2>5
<1> HIDE DEF Good
<1>3. Seq(Later(t)) \subseteq Good
  BY <1>1, <1>2, Pushes!SeqSetInduction
<1>4. FoldLeft(Enqueue, q, s) = F(s)
  BY PushesFold
<1>5. QED
  BY <1>3, <1>4 DEF Good

\* A pop keeps the queue's invariant, at the time of the event popped.
LEMMA PopKeeps ==
  ASSUME NEW t \in Nat, NEW q, QueueFrom(q, t), q # <<>>
  PROVE  /\ Head(q) \in Event /\ Head(q).ts \in Nat /\ Head(q).ts >= t
         /\ QueueFrom(Tail(q), Head(q).ts)
         /\ \A E : Times(q, E) = Times(Tail(q), E) + (IF Head(q) \in E THEN 1 ELSE 0)
         /\ \A E : Times(q, E) \in Nat /\ Times(Tail(q), E) \in Nat
<1> DEFINE r == Tail(q)
<1>1. /\ q \in Seq(Event) /\ Followed(q)
      /\ \A i, j \in 1 .. Len(q) : i <= j => q[i].ts <= q[j].ts
      /\ \A i \in 1 .. Len(q) : q[i].ts >= t
  BY DEF QueueFrom, Sorted
<1>2. /\ Head(q) \in Event /\ r \in Seq(Event) /\ Len(r) = Len(q) - 1
      /\ \A i \in 1 .. Len(r) : r[i] = q[i + 1]
  BY <1>1, HeadTailProperties
<1>3. Len(q) \in Nat /\ Len(q) >= 1 /\ Head(q) = q[1]
  BY <1>1, EmptySeq, LenProperties
<1>4. \A E : Times(q, E) = Times(r, E) + (IF Head(q) \in E THEN 1 ELSE 0)
  BY <1>1, TimesOfTail
<1>5. \A E : Times(q, E) \in Nat /\ Times(r, E) \in Nat
  BY <1>1, <1>2, PlacesAreFinite
<1> HIDE DEF r
<1>6. Head(q).ts \in Nat /\ Head(q).ts >= t
  BY <1>1, <1>2, <1>3, EventHasTime
<1>7. Sorted(r)
  <2>1. ASSUME NEW i \in 1 .. Len(r), NEW j \in 1 .. Len(r), i <= j PROVE r[i].ts <= r[j].ts
    <3>1. i + 1 \in 1 .. Len(q) /\ j + 1 \in 1 .. Len(q) /\ i + 1 <= j + 1
      BY <1>2, <1>3, <2>1
    <3>2. q[i + 1].ts <= q[j + 1].ts
      BY <1>1, <3>1
    <3>3. QED
      BY <1>2, <3>2
  <2>2. QED
    BY <2>1 DEF Sorted
<1>8. \A i \in 1 .. Len(r) : r[i].ts >= Head(q).ts
  <2>1. ASSUME NEW i \in 1 .. Len(r) PROVE r[i].ts >= Head(q).ts
    <3>1. i + 1 \in 1 .. Len(q) /\ 1 \in 1 .. Len(q) /\ 1 <= i + 1
      BY <1>2, <1>3
    <3>2. q[1].ts <= q[i + 1].ts /\ q[i + 1] \in Event
      BY <1>1, <3>1, ElementOfSeq
    <3>3. q[i + 1].ts \in Nat
      BY <3>2, EventHasTime
    <3>4. QED
      BY <1>2, <1>3, <1>6, <3>2, <3>3
  <2>2. QED
    BY <2>1
<1>9. Followed(r)
  <2>1. ASSUME NEW i \in 1 .. Len(r), r[i].kind = "Tick"
        PROVE  \E j \in i + 1 .. Len(r) : Delivers(r[j], r[i])
    <3>1. i + 1 \in 1 .. Len(q) /\ r[i] = q[i + 1]
      BY <1>2, <1>3
    <3>2. PICK j \in (i + 1) + 1 .. Len(q) : Delivers(q[j], q[i + 1])
      BY <1>1, <2>1, <3>1 DEF Followed
    <3>3. j - 1 \in i + 1 .. Len(r) /\ j - 1 \in 1 .. Len(r) /\ (j - 1) + 1 = j
      BY <1>2, <1>3
    <3>4. r[j - 1] = q[j]
      BY <1>2, <3>3
    <3>5. QED
      BY <3>1, <3>2, <3>3, <3>4
  <2>2. QED
    BY <2>1 DEF Followed
<1>10. QED
  BY <1>2, <1>4, <1>5, <1>6, <1>7, <1>8, <1>9 DEF QueueFrom, r

(***************************************************************************)
(* A tick is ingested: the exchange's event, then the strategy's.          *)
(***************************************************************************)
LEMMA IngestKeeps ==
  ASSUME NEW t \in Nat, NEW q, QueueFrom(q, t),
         NEW a \in TickEvents, a.ts >= t, NEW b \in Deliveries, b.ts >= a.ts,
         Delivers(b, a)
  PROVE  /\ Enqueue(q, a) \in Seq(Event)
         /\ QueueFrom(Enqueue(Enqueue(q, a), b), t)
<1> DEFINE p  == Enqueue(q, a)
           r  == Enqueue(p, b)
           k  == DueBy(q, a.ts)
           k2 == DueBy(p, b.ts)
<1>1. q \in Seq(Event) /\ Sorted(q) /\ Followed(q) /\ \A i \in 1 .. Len(q) : q[i].ts >= t
  BY DEF QueueFrom
<1>2. a \in Event /\ b \in Event /\ a.ts \in Nat /\ b.ts \in Nat /\ b.kind # "Tick"
  BY DEF Event, TickEvents, Deliveries
<1>3. p \in Seq(Event) /\ Sorted(p) /\ \A i \in 1 .. Len(p) : p[i].ts >= t
  BY <1>1, <1>2, EnqueueSorted, PushedTimes
<1>4. b.ts >= t
  BY <1>2
<1>5. r \in Seq(Event) /\ Sorted(r) /\ \A i \in 1 .. Len(r) : r[i].ts >= t
  <2> HIDE DEF p
  <2>1. r \in Seq(Event) /\ Sorted(r)
    BY <1>2, <1>3, EnqueueSorted
  <2>2. \A i \in 1 .. Len(r) : r[i].ts >= t
    BY <1>2, <1>3, <1>4, PushedTimes
  <2>3. QED
    BY <2>1, <2>2
<1>6. k + 1 \in 1 .. Len(p) /\ p[k + 1] = a /\ k \in Nat
  <2>1. k \in 0 .. Len(q) /\ Len(q) \in Nat /\ Len(p) = Len(q) + 1 /\ p[k + 1] = a
    BY <1>1, <1>2, EnqueuePlaces
  <2>2. QED
    BY <2>1
<1>7. FollowedBut(p, k + 1)
  <2>1. FollowedBut(q, 0) /\ Shifted(q, a, 0) = 0
    BY <1>6 DEF Followed, FollowedBut, QueueFrom, Shifted
  <2>2. \A i \in 1 .. Len(p) :
          p[i].kind = "Tick" /\ i # k + 1 /\ i # Shifted(q, a, 0) =>
            \E j \in i + 1 .. Len(p) : Delivers(p[j], p[i])
    BY <1>1, <1>2, <2>1, PushFollowedBut
  <2>3. QED
    BY <2>1, <2>2 DEF FollowedBut
<1> HIDE DEF p, k
<1>8. k + 1 <= k2
  <2>1. \A i \in 1 .. Len(p) : p[i].ts <= b.ts <=> i <= DueBy(p, b.ts)
    BY <1>2, <1>3, DueByOfSorted
  <2>2. p[k + 1].ts <= b.ts
    BY <1>2, <1>6
  <2>3. QED
    BY <1>6, <2>1, <2>2
<1>9. /\ k2 \in 0 .. Len(p) /\ Len(p) \in Nat /\ Len(r) = Len(p) + 1 /\ r[k2 + 1] = b
      /\ \A i \in 1 .. k2 : r[i] = p[i]
  BY <1>2, <1>3, EnqueuePlaces
<1>10. Shifted(p, b, k + 1) = k + 1
  BY <1>8 DEF Shifted
<1>11. \A i \in 1 .. Len(r) :
          r[i].kind = "Tick" /\ i # k2 + 1 /\ i # Shifted(p, b, k + 1) =>
            \E j \in i + 1 .. Len(r) : Delivers(r[j], r[i])
  BY <1>2, <1>3, <1>6, <1>7, PushFollowedBut
<1> HIDE DEF r, k2
<1>12. k2 + 1 \in (k + 1) + 1 .. Len(r) /\ Delivers(r[k2 + 1], r[k + 1])
  <2>1. k + 1 \in 1 .. k2 /\ k2 + 1 \in (k + 1) + 1 .. Len(r)
    BY <1>6, <1>8, <1>9
  <2>2. r[k + 1] = a /\ r[k2 + 1] = b
    BY <1>6, <1>9, <2>1
  <2>3. QED
    BY <2>1, <2>2
<1>13. Followed(r)
  <2>1. r[k2 + 1].kind # "Tick"
    BY <1>2, <1>9
  <2>2. \E j \in (k + 1) + 1 .. Len(r) : Delivers(r[j], r[k + 1])
    BY <1>12
  <2>3. QED
    BY <1>10, <1>11, <2>1, <2>2 DEF Followed
<1>14. QED
  BY <1>3, <1>5, <1>13 DEF QueueFrom, r, p

-----------------------------------------------------------------------------
(***************************************************************************)
(* The life of an order, as the queue q, the routes rt and the exchanges   *)
(* xs show it: unknown, turned away or ended; on its way to the exchange;  *)
(* placed there.                                                           *)
(***************************************************************************)
OrdersFor(id)   == {e \in OrderEvents : e.id = id}
OrdersTo(id, s) == {e \in OrderEvents : e.id = id /\ e.order.symbol = s}
Acks(id)        == {e \in IdEvents : e.kind = "OrderAck" /\ e.id = id}
CancelAcks(id)  == {e \in IdEvents : e.kind = "OrderCancelAck" /\ e.id = id}
Finals(id)      == {e \in ReportEvents : e.report.id = id /\ IsTerminal(e.report.status)}

Gone(q, rt, xs, id) ==
  /\ id \notin DOMAIN rt
  /\ \A s \in Symbols : id \notin Live(xs[s])
  /\ Times(q, OrdersFor(id)) = 0 /\ Times(q, Acks(id)) = 0

Sent(q, rt, xs, id) ==
  /\ id \in DOMAIN rt
  /\ \A s \in Symbols : id \notin Live(xs[s])
  /\ Times(q, OrdersFor(id)) = 1 /\ Times(q, OrdersTo(id, rt[id])) = 1
  /\ Times(q, Acks(id)) = 0 /\ Times(q, Finals(id)) = 0

\* What must be under way for an order of this type in this state.
Fits(q, type, state, id) ==
  /\ Times(q, Acks(id)) = IF state = "PendingNew" THEN 1 ELSE 0
  /\ Times(q, Finals(id)) = IF IsTerminal(state) THEN 1 ELSE 0
  /\ type = "Market" => state = "PendingNew" \/ IsTerminal(state)
  /\ state = "PendingCancel" => Times(q, CancelAcks(id)) >= 1

Placed(q, rt, xs, id) ==
  /\ id \in DOMAIN rt
  /\ \A s \in Symbols : id \in Live(xs[s]) <=> s = rt[id]
  /\ Times(q, OrdersFor(id)) = 0
  /\ Fits(q, xs[rt[id]].orders[id].type, xs[rt[id]].orders[id].state, id)

Life(q, rt, xs, id) == Gone(q, rt, xs, id) \/ Sent(q, rt, xs, id) \/ Placed(q, rt, xs, id)

\* The events that matter to an order's life.
About(e, id) ==
  \/ e.kind \in {"Order", "OrderAck", "OrderCancelAck"} /\ e.id = id
  \/ e.kind = "OrderReport" /\ e.report.id = id /\ IsTerminal(e.report.status)

SameEvents(q, r, id) ==
  /\ Times(r, OrdersFor(id)) = Times(q, OrdersFor(id))
  /\ \A s : Times(r, OrdersTo(id, s)) = Times(q, OrdersTo(id, s))
  /\ Times(r, Acks(id)) = Times(q, Acks(id))
  /\ Times(r, Finals(id)) = Times(q, Finals(id))
  /\ Times(r, CancelAcks(id)) >= Times(q, CancelAcks(id))

SameStatus(xs, ys, id) ==
  \A s \in Symbols : /\ id \in Live(ys[s]) <=> id \in Live(xs[s])
                     /\ id \in Live(xs[s]) =>
                          /\ ys[s].orders[id].type = xs[s].orders[id].type
                          /\ ys[s].orders[id].state = xs[s].orders[id].state

SameRoute(rt, su, id) ==
  /\ id \in DOMAIN su <=> id \in DOMAIN rt
  /\ id \in DOMAIN rt => su[id] = rt[id] /\ rt[id] \in Symbols

\* An event about another order is in none of this order's counts.
LEMMA NotAbout ==
  ASSUME NEW e \in Event, NEW id, ~About(e, id)
  PROVE  /\ e \notin OrdersFor(id) /\ \A s : e \notin OrdersTo(id, s)
         /\ e \notin Acks(id) /\ e \notin Finals(id) /\ e \notin CancelAcks(id)
  BY DEF About, OrdersFor, OrdersTo, Acks, Finals, CancelAcks, OrderEvents, IdEvents,
         ReportEvents

\* Nothing changes if nothing happens.
LEMMA SameEventsItself ==
  ASSUME NEW q \in Seq(Event), NEW id
  PROVE  SameEvents(q, q, id)
<1>1. Times(q, CancelAcks(id)) \in Nat
  BY PlacesAreFinite
<1>2. QED
  BY <1>1 DEF SameEvents

\* Two changes that do not matter to an order do not matter together.
LEMMA SameEventsCompose ==
  ASSUME NEW a \in Seq(Event), NEW b \in Seq(Event), NEW c \in Seq(Event), NEW id,
         SameEvents(a, b, id), SameEvents(b, c, id)
  PROVE  SameEvents(a, c, id)
<1>1. /\ Times(a, CancelAcks(id)) \in Nat /\ Times(b, CancelAcks(id)) \in Nat
      /\ Times(c, CancelAcks(id)) \in Nat
  BY PlacesAreFinite
<1>2. /\ Times(b, CancelAcks(id)) >= Times(a, CancelAcks(id))
      /\ Times(c, CancelAcks(id)) >= Times(b, CancelAcks(id))
  BY DEF SameEvents
<1>3. Times(c, CancelAcks(id)) >= Times(a, CancelAcks(id))
  BY <1>1, <1>2
<1>4. /\ Times(c, OrdersFor(id)) = Times(a, OrdersFor(id))
      /\ \A s : Times(c, OrdersTo(id, s)) = Times(a, OrdersTo(id, s))
      /\ Times(c, Acks(id)) = Times(a, Acks(id))
      /\ Times(c, Finals(id)) = Times(a, Finals(id))
  BY DEF SameEvents
<1>5. QED
  BY <1>3, <1>4 DEF SameEvents

\* A push that is not about the order.
LEMMA PushSame ==
  ASSUME NEW q \in Seq(Event), NEW e \in Event, NEW id, ~About(e, id)
  PROVE  SameEvents(q, Enqueue(q, e), id)
<1>1. /\ e \notin OrdersFor(id) /\ \A s : e \notin OrdersTo(id, s)
      /\ e \notin Acks(id) /\ e \notin Finals(id) /\ e \notin CancelAcks(id)
  BY NotAbout
<1>2. ASSUME NEW E, e \notin E
      PROVE  Times(Enqueue(q, e), E) = Times(q, E) /\ Times(q, E) \in Nat
  BY <1>2, TimesAfterEnqueue, PlacesAreFinite
<1>3. QED
  BY <1>1, <1>2 DEF SameEvents

\* A pop that is not about the order.
LEMMA PopSame ==
  ASSUME NEW q \in Seq(Event), q # <<>>, NEW id, ~About(Head(q), id)
  PROVE  SameEvents(q, Tail(q), id)
<1> DEFINE e == Head(q)
           r == Tail(q)
<1>1. e \in Event /\ r \in Seq(Event) /\ ~About(e, id)
  BY TimesOfTail
<1>2. ASSUME NEW E, e \notin E PROVE Times(r, E) = Times(q, E) /\ Times(q, E) \in Nat
  <2>1. Times(q, E) = Times(r, E) + (IF e \in E THEN 1 ELSE 0)
    BY TimesOfTail
  <2>2. Times(r, E) \in Nat
    BY <1>1, PlacesAreFinite
  <2>3. QED
    BY <1>2, <2>1, <2>2
<1> HIDE DEF e, r
<1>3. /\ e \notin OrdersFor(id) /\ \A s : e \notin OrdersTo(id, s)
      /\ e \notin Acks(id) /\ e \notin Finals(id) /\ e \notin CancelAcks(id)
  BY <1>1, NotAbout
<1>4. SameEvents(q, r, id)
  BY <1>2, <1>3 DEF SameEvents
<1>5. QED
  BY <1>4 DEF r

\* Several pushes, none of them about the order.
LEMMA PushAllSame ==
  ASSUME NEW t \in Nat, NEW q, QueueFrom(q, t), NEW s \in Seq(Later(t)), NEW id,
         \A i \in 1 .. Len(s) : ~About(s[i], id)
  PROVE  SameEvents(q, FoldLeft(Enqueue, q, s), id)
<1> DEFINE r == FoldLeft(Enqueue, q, s)
<1>1. s \in Seq(Event) /\ q \in Seq(Event) /\ \A E : Times(r, E) = Times(q, E) + Times(s, E)
  BY PushAll DEF QueueFrom
<1> HIDE DEF r
<1>2. ASSUME NEW i \in 1 .. Len(s)
      PROVE  /\ s[i] \notin OrdersFor(id) /\ \A y : s[i] \notin OrdersTo(id, y)
             /\ s[i] \notin Acks(id) /\ s[i] \notin Finals(id) /\ s[i] \notin CancelAcks(id)
  <2>1. s[i] \in Event /\ ~About(s[i], id)
    BY <1>1, ElementOfSeq
  <2>2. QED
    BY <2>1, NotAbout
<1>3. ASSUME NEW E, \A i \in 1 .. Len(s) : s[i] \notin E
      PROVE  Times(r, E) = Times(q, E) /\ Times(q, E) \in Nat
  <2>1. Times(s, E) = 0
    BY <1>1, <1>3, NoTimes
  <2>2. Times(q, E) \in Nat
    BY <1>1, PlacesAreFinite
  <2>3. QED
    BY <1>1, <2>1, <2>2
<1>4. /\ Times(r, OrdersFor(id)) = Times(q, OrdersFor(id))
      /\ Times(r, Acks(id)) = Times(q, Acks(id))
      /\ Times(r, Finals(id)) = Times(q, Finals(id))
  BY <1>2, <1>3
<1>5. \A y : Times(r, OrdersTo(id, y)) = Times(q, OrdersTo(id, y))
  BY <1>2, <1>3
<1>6. Times(r, CancelAcks(id)) = Times(q, CancelAcks(id)) /\ Times(q, CancelAcks(id)) \in Nat
  BY <1>2, <1>3
<1>7. SameEvents(q, r, id)
  BY <1>4, <1>5, <1>6 DEF SameEvents
<1>8. QED
  BY <1>7 DEF r

(***************************************************************************)
(* An order that nothing happens to lives on.                              *)
(***************************************************************************)
LEMMA LivesOn ==
  ASSUME NEW q \in Seq(Event), NEW r \in Seq(Event), NEW rt, NEW su, NEW xs, NEW ys, NEW id,
         Life(q, rt, xs, id),
         SameEvents(q, r, id), SameRoute(rt, su, id), SameStatus(xs, ys, id)
  PROVE  Life(r, su, ys, id)
<1>1. /\ Times(r, OrdersFor(id)) = Times(q, OrdersFor(id))
      /\ \A s : Times(r, OrdersTo(id, s)) = Times(q, OrdersTo(id, s))
      /\ Times(r, Acks(id)) = Times(q, Acks(id))
      /\ Times(r, Finals(id)) = Times(q, Finals(id))
      /\ Times(r, CancelAcks(id)) >= Times(q, CancelAcks(id))
  BY DEF SameEvents
<1>2. /\ id \in DOMAIN su <=> id \in DOMAIN rt
      /\ id \in DOMAIN rt => su[id] = rt[id] /\ rt[id] \in Symbols
  BY DEF SameRoute
<1>3. \A s \in Symbols : id \in Live(ys[s]) <=> id \in Live(xs[s])
  BY DEF SameStatus
<1>4. CASE Gone(q, rt, xs, id)
  BY <1>1, <1>2, <1>3, <1>4 DEF Life, Gone
<1>5. CASE Sent(q, rt, xs, id)
  BY <1>1, <1>2, <1>3, <1>5 DEF Life, Sent
<1>6. CASE Placed(q, rt, xs, id)
  <2> DEFINE s == rt[id]
  <2>1. s \in Symbols /\ su[id] = s /\ id \in Live(xs[s])
    BY <1>2, <1>6 DEF Placed
  <2>2. ys[s].orders[id].type = xs[s].orders[id].type /\ ys[s].orders[id].state = xs[s].orders[id].state
    BY <2>1 DEF SameStatus
  <2>3. Fits(q, xs[s].orders[id].type, xs[s].orders[id].state, id)
    BY <1>6 DEF Placed
  <2>4. Times(q, CancelAcks(id)) \in Nat /\ Times(r, CancelAcks(id)) \in Nat
    BY PlacesAreFinite
  <2>5. Times(q, CancelAcks(id)) >= 1 => Times(r, CancelAcks(id)) >= 1
    BY <1>1, <2>4
  <2>6. Fits(r, ys[s].orders[id].type, ys[s].orders[id].state, id)
    BY <1>1, <2>2, <2>3, <2>5 DEF Fits
  <2>7. Placed(r, su, ys, id)
    BY <1>1, <1>2, <1>3, <1>6, <2>1, <2>6 DEF Placed
  <2>8. QED
    BY <2>7 DEF Life
<1>7. QED
  BY <1>4, <1>5, <1>6 DEF Life

-----------------------------------------------------------------------------
(***************************************************************************)
(* The desk at time t, with the exchanges xs: what one command, and a      *)
(* whole callback, keep.                                                   *)
(***************************************************************************)
DeskInv(d, xs, t) ==
  /\ DOMAIN d = {"queue", "route", "next_order_id", "cancels", "seen"}
  /\ QueueFrom(d.queue, t)
  /\ d.next_order_id \in OrderId
  /\ DOMAIN d.seen = 1 .. d.next_order_id - 1
  /\ DOMAIN d.route \subseteq 1 .. d.next_order_id - 1
  /\ \A id \in DOMAIN d.route : d.route[id] \in Symbols
  /\ \A id \in OrderId : Life(d.queue, d.route, xs, id)
  /\ \A id \in OrderId : id >= d.next_order_id => Times(d.queue, Finals(id)) = 0
  /\ config.max_open_orders > 0 => Cardinality(DOMAIN d.route) <= config.max_open_orders

IsCall(call, xs, t) ==
  /\ DOMAIN call = {"desk", "ts", "guard", "positions", "config"}
  /\ call.ts \in Nat /\ call.ts >= t /\ call.config = config
  /\ DeskInv(call.desk, xs, t)

\* The fields of a configuration.
LEMMA ConfigFields ==
  ASSUME config \in Configs
  PROVE  /\ config \in Config
         /\ config.mode \in {"Tick", "Batch"} /\ config.model \in QueueModel
         /\ config.feed_latency \in Nat /\ config.order_update_latency \in Nat
         /\ config.max_batch \in Nat /\ config.auto_tune \in BOOLEAN
         /\ config.maker_fee \in Nat /\ config.taker_fee \in Nat
         /\ config.max_open_orders \in Nat /\ config.max_position \in Nat
         /\ config.max_loss \in Int
<1>1. config \in Config
  BY EngineAssumption
<1>2. QED
  BY <1>1 DEF Config

\* A CancelOrder command: its event joins the queue, whatever the id.
LEMMA RequestCancelKeeps ==
  ASSUME NEW t \in Nat, NEW xs, NEW call, IsCall(call, xs, t), NEW id \in OrderId
  PROVE  DeskInv(RequestCancel(call, id), xs, t)
<1> DEFINE d == call.desk
           e == IdEvent(call.ts, "OrderCancel", id)
           q == d.queue
           r == Enqueue(q, e)
           y == RequestCancel(call, id)
<1>1. call.ts \in Nat /\ call.ts >= t /\ DeskInv(d, xs, t)
  BY DEF IsCall
<1>2. e \in IdEvents /\ e.kind = "OrderCancel" /\ e.ts = call.ts
  BY <1>1 DEF IdEvent, IdEvents
<1>3. e \in Event /\ e \in Later(t)
  BY <1>1, <1>2 DEF Later, Event
<1>4. /\ DOMAIN d = {"queue", "route", "next_order_id", "cancels", "seen"}
      /\ QueueFrom(q, t) /\ q \in Seq(Event)
  BY <1>1 DEF DeskInv, QueueFrom
<1>5. /\ y.queue = r /\ y.route = d.route /\ y.next_order_id = d.next_order_id
      /\ y.seen = d.seen /\ DOMAIN y = DOMAIN d
  BY <1>4 DEF RequestCancel
<1>6. QueueFrom(r, t) /\ r \in Seq(Event)
  <2>1. QueueFrom(r, t)
    BY <1>3, <1>4, PushKeeps
  <2>2. QED
    BY <2>1 DEF QueueFrom
<1>7. \A i : ~About(e, i)
  BY <1>2 DEF About
<1> HIDE DEF e, y
<1>8. \A i : SameEvents(q, r, i)
  BY <1>3, <1>4, <1>7, PushSame
<1> HIDE DEF d, q, r
<1>9. /\ d.next_order_id \in OrderId /\ DOMAIN d.seen = 1 .. d.next_order_id - 1
      /\ DOMAIN d.route \subseteq 1 .. d.next_order_id - 1
      /\ \A i \in DOMAIN d.route : d.route[i] \in Symbols
      /\ \A i \in OrderId : Life(q, d.route, xs, i)
      /\ \A i \in OrderId : i >= d.next_order_id => Times(q, Finals(i)) = 0
      /\ config.max_open_orders > 0 => Cardinality(DOMAIN d.route) <= config.max_open_orders
  BY <1>1 DEF DeskInv, q
<1>10. \A i \in OrderId : SameRoute(d.route, d.route, i) /\ SameStatus(xs, xs, i)
  BY <1>9 DEF SameRoute, SameStatus
<1>11. \A i \in OrderId : Life(r, d.route, xs, i)
  BY <1>4, <1>6, <1>8, <1>9, <1>10, LivesOn
<1>12. \A i \in OrderId : i >= d.next_order_id => Times(r, Finals(i)) = 0
  BY <1>8, <1>9 DEF SameEvents
<1>13. DeskInv(y, xs, t)
  BY <1>4, <1>5, <1>6, <1>9, <1>11, <1>12 DEF DeskInv
<1>14. QED
  BY <1>13 DEF y

\* A SubmitOrder command: the order is sent and routed, or turned away by the risk guard.
LEMMA SubmitKeeps ==
  ASSUME config \in Configs,
         NEW t \in Nat, NEW xs, NEW call, IsCall(call, xs, t), NEW order \in StrategyOrders
  PROVE  DeskInv(Submit(call, order), xs, t)
<1> DEFINE d  == call.desk
           n  == d.next_order_id
           q  == d.queue
           rt == d.route
           late == ReportEvent(call.ts + call.config.order_update_latency, RejectReport(n, order))
           sent == OrderEvent(call.ts, n, order)
           rejected == RejectsOrder(call.guard, call.config, order, Cardinality(DOMAIN d.route),
                                    call.positions[order.symbol].qty)
           e  == IF rejected THEN late ELSE sent
           r  == Enqueue(q, e)
           su == IF rejected THEN rt ELSE Insert(rt, n, order.symbol)
           y  == Submit(call, order)
<1>1. /\ call.ts \in Nat /\ call.ts >= t /\ call.config = config /\ DeskInv(d, xs, t)
  BY DEF IsCall
<1>2. /\ QueueFrom(q, t) /\ q \in Seq(Event)
      /\ n \in Nat \ {0} /\ DOMAIN d.seen = 1 .. n - 1
      /\ DOMAIN rt \subseteq 1 .. n - 1
      /\ \A i \in DOMAIN rt : rt[i] \in Symbols
      /\ \A i \in OrderId : Life(q, rt, xs, i)
      /\ \A i \in OrderId : i >= n => Times(q, Finals(i)) = 0
      /\ config.max_open_orders > 0 => Cardinality(DOMAIN rt) <= config.max_open_orders
  BY <1>1 DEF DeskInv, QueueFrom, OrderId
<1>3. /\ order \in EngineOrder /\ order.symbol \in Symbols /\ order.qty \in Nat
      /\ config.order_update_latency \in Nat /\ config.max_open_orders \in Nat
  BY ConfigFields, EngineAssumption DEF EngineOrder
<1>4. /\ late \in ReportEvents /\ late.kind = "OrderReport" /\ late.report.id = n
      /\ late.ts >= t
  <2>1. RejectReport(n, order) \in ReportRecord
    BY <1>2, <1>3 DEF RejectReport, ReportRecord, OrderId, OrderState
  <2>2. QED
    BY <1>1, <1>3, <2>1 DEF ReportEvent, ReportEvents, RejectReport
<1>5. /\ sent \in OrderEvents /\ sent.kind = "Order" /\ sent.id = n /\ sent.order = order
      /\ sent.ts >= t
  BY <1>1, <1>2, <1>3 DEF OrderEvent, OrderEvents, OrderId
<1>6. /\ y.queue = r /\ y.route = su /\ y.next_order_id = n + 1
      /\ y.seen = Insert(d.seen, n, Untold(order))
      /\ DOMAIN y = {"queue", "route", "next_order_id", "cancels", "seen"}
  BY DEF Submit
<1>7. DOMAIN y.seen = 1 .. n
  <2>1. DOMAIN y.seen = DOMAIN d.seen \cup {n}
    BY <1>6 DEF Insert
  <2>2. QED
    BY <1>2, <2>1
<1> HIDE DEF late, sent, y
<1>8. e \in Event /\ e \in Later(t) /\ \A i : About(e, i) => i = n
  BY SMTT(60), <1>4, <1>5 DEF Event, Later, About, ReportEvents, OrderEvents
<1>9. QueueFrom(r, t) /\ r \in Seq(Event)
  <2>1. QueueFrom(r, t)
    BY <1>2, <1>8, PushKeeps
  <2>2. QED
    BY <2>1 DEF QueueFrom
<1>10. \A E : /\ Times(r, E) = Times(q, E) + (IF e \in E THEN 1 ELSE 0)
              /\ Times(q, E) \in Nat
  BY <1>2, <1>8, TimesAfterEnqueue, PlacesAreFinite
<1>11. \A i : i # n => SameEvents(q, r, i)
  BY <1>2, <1>8, PushSame
<1>12. /\ DOMAIN su \subseteq 1 .. n /\ \A i \in DOMAIN su : su[i] \in Symbols
       /\ \A i \in OrderId : i # n => SameRoute(rt, su, i)
  BY <1>2, <1>3 DEF Insert, SameRoute
<1>13. config.max_open_orders > 0 => Cardinality(DOMAIN su) <= config.max_open_orders
  <2>1. CASE rejected
    BY <1>2, <2>1
  <2>2. CASE ~rejected
    <3>1. IsFiniteSet(1 .. n - 1)
      BY SMTT(60), <1>2, FS_Interval
    <3>2. IsFiniteSet(DOMAIN rt) /\ n \notin DOMAIN rt
      BY <1>2, <3>1, FS_Subset
    <3>3. DOMAIN su = DOMAIN rt \cup {n}
      BY <2>2 DEF Insert
    <3> DEFINE m == Cardinality(DOMAIN rt)
    <3>4. m \in Nat /\ Cardinality(DOMAIN su) = m + 1
      BY <3>2, <3>3, FS_AddElement, FS_CardinalityType
    <3>5. config.max_open_orders > 0 => ~(m >= config.max_open_orders)
      BY <1>1, <2>2 DEF RejectsOrder, TooManyOrders
    <3> HIDE DEF m
    <3>6. QED
      BY <1>3, <3>4, <3>5
  <2>3. QED
    BY <2>1, <2>2
<1>14. Gone(q, rt, xs, n) /\ n \notin DOMAIN rt
  BY <1>2 DEF Life, Sent, Placed, OrderId
<1>15. Life(r, su, xs, n)
  <2>1. CASE rejected
    <3>1. e = late /\ su = rt
      BY <2>1
    <3>2. e \notin OrdersFor(n) /\ e \notin Acks(n)
      BY <1>4, <3>1 DEF OrdersFor, Acks, OrderEvents, IdEvents
    <3>3. Times(r, OrdersFor(n)) = Times(q, OrdersFor(n)) /\ Times(r, Acks(n)) = Times(q, Acks(n))
      BY <1>10, <3>2
    <3>4. Gone(r, su, xs, n)
      BY <1>14, <3>1, <3>3 DEF Gone
    <3>5. QED
      BY <3>4 DEF Life
  <2>2. CASE ~rejected
    <3>1. e = sent /\ DOMAIN su = DOMAIN rt \cup {n} /\ su[n] = order.symbol
      BY <2>2 DEF Insert
    <3>2. /\ e \in OrdersFor(n) /\ e \in OrdersTo(n, su[n])
          /\ e \notin Acks(n) /\ e \notin Finals(n)
      BY <1>5, <3>1 DEF OrdersFor, OrdersTo, Acks, Finals, IdEvents, ReportEvents
    <3>3. /\ Times(q, OrdersFor(n)) = 0 /\ Times(q, Acks(n)) = 0 /\ Times(q, Finals(n)) = 0
          /\ \A s \in Symbols : n \notin Live(xs[s])
      BY <1>2, <1>14 DEF Gone, OrderId
    <3>4. Times(q, OrdersTo(n, su[n])) = 0
      <4>1. OrdersTo(n, su[n]) \subseteq OrdersFor(n)
        BY DEF OrdersTo, OrdersFor
      <4>2. /\ Times(q, OrdersTo(n, su[n])) \in Nat
            /\ Times(q, OrdersTo(n, su[n])) <= Times(q, OrdersFor(n))
        BY <1>2, <4>1, TimesGrow
      <4>3. QED
        BY <3>3, <4>2
    <3>5. Times(r, OrdersFor(n)) = 1 /\ Times(r, OrdersTo(n, su[n])) = 1
      BY <1>10, <3>2, <3>3, <3>4
    <3>6. Times(r, Acks(n)) = 0 /\ Times(r, Finals(n)) = 0
      BY <1>10, <3>2, <3>3
    <3>7. n \in DOMAIN su
      BY <3>1
    <3> HIDE DEF e, r, su
    <3>8. Sent(r, su, xs, n)
      BY <3>3, <3>5, <3>6, <3>7 DEF Sent
    <3>9. QED
      BY <3>8 DEF Life
  <2>3. QED
    BY <2>1, <2>2
<1> HIDE DEF e, r, su
<1>16. \A i \in OrderId : Life(r, su, xs, i)
  <2>1. \A i : SameStatus(xs, xs, i)
    BY DEF SameStatus
  <2>2. ASSUME NEW i \in OrderId, i # n PROVE Life(r, su, xs, i)
    <3>1. Life(q, rt, xs, i) /\ SameEvents(q, r, i) /\ SameRoute(rt, su, i) /\ SameStatus(xs, xs, i)
      BY <1>2, <1>11, <1>12, <2>1, <2>2
    <3>2. q \in Seq(Event)
      BY <1>2
    <3> HIDE DEF q, rt
    <3>3. QED
      BY <1>9, <3>1, <3>2, LivesOn
  <2>3. QED
    BY <1>15, <2>2
<1>17. \A i \in OrderId : i >= n + 1 => Times(r, Finals(i)) = 0
  <2>1. ASSUME NEW i \in OrderId, i >= n + 1 PROVE Times(r, Finals(i)) = 0
    <3>1. i # n /\ i >= n
      BY <1>2, <2>1 DEF OrderId
    <3>2. QED
      BY <1>2, <1>11, <3>1 DEF SameEvents
  <2>2. QED
    BY <2>1
<1>18. n + 1 \in OrderId /\ (n + 1) - 1 = n
  BY <1>2 DEF OrderId
<1> HIDE DEF n
<1>19. DeskInv(y, xs, t)
  BY <1>6, <1>7, <1>9, <1>12, <1>13, <1>16, <1>17, <1>18 DEF DeskInv
<1>20. QED
  BY <1>19 DEF y

-----------------------------------------------------------------------------
(***************************************************************************)
(* The commands of a callback                                              *)
(***************************************************************************)
Calls == INSTANCE FoldTheory WITH Op <- HandleCommand
Tells == INSTANCE FoldTheory WITH Op <- TellOne

\* Nothing leaves a queue.
Grows(q, r) == \A E : Times(r, E) >= Times(q, E) /\ Times(q, E) \in Nat

\* Growing twice.
LEMMA GrowsTransitive ==
  ASSUME NEW q \in Seq(Event), NEW r \in Seq(Event), NEW v \in Seq(Event),
         Grows(q, r), Grows(r, v)
  PROVE  Grows(q, v)
<1>1. ASSUME NEW E PROVE Times(v, E) >= Times(q, E) /\ Times(q, E) \in Nat
  <2>1. Times(q, E) \in Nat /\ Times(r, E) \in Nat /\ Times(v, E) \in Nat
    BY PlacesAreFinite
  <2>2. Times(r, E) >= Times(q, E) /\ Times(v, E) >= Times(r, E)
    BY DEF Grows
  <2>3. QED
    BY <2>1, <2>2
<1>2. QED
  BY <1>1 DEF Grows

\* A push only adds.
LEMMA PushGrows ==
  ASSUME NEW q \in Seq(Event), NEW e \in Event
  PROVE  Grows(q, Enqueue(q, e))
<1>1. ASSUME NEW E PROVE Times(Enqueue(q, e), E) >= Times(q, E) /\ Times(q, E) \in Nat
  BY TimesAfterEnqueue, PlacesAreFinite
<1>2. QED
  BY <1>1 DEF Grows

\* A queue grows out of itself.
LEMMA GrowsItself ==
  ASSUME NEW q \in Seq(Event)
  PROVE  Grows(q, q)
<1>1. ASSUME NEW E PROVE Times(q, E) >= Times(q, E) /\ Times(q, E) \in Nat
  <2>1. Times(q, E) \in Nat
    BY PlacesAreFinite
  <2>2. QED
    BY <2>1
<1>2. QED
  BY <1>1 DEF Grows

\* One command.
LEMMA CommandKeeps ==
  ASSUME config \in Configs,
         NEW t \in Nat, NEW xs, NEW call, IsCall(call, xs, t), NEW c \in Command
  PROVE  LET after == HandleCommand(call, c)
         IN  /\ IsCall(after, xs, t)
             /\ after.guard = call.guard
             /\ after.desk.queue \in Seq(Event)
             /\ Grows(call.desk.queue, after.desk.queue)
             /\ call.guard.killed => after.desk.route = call.desk.route
<1> DEFINE after == HandleCommand(call, c)
           d == call.desk
<1>1. /\ DOMAIN call = {"desk", "ts", "guard", "positions", "config"}
      /\ call.ts \in Nat /\ call.ts >= t /\ call.config = config
      /\ DeskInv(d, xs, t)
  BY DEF IsCall
<1>2. \/ c.kind = "SubmitOrder" /\ c.order \in StrategyOrders
      \/ c.kind # "SubmitOrder" /\ c.id \in OrderId
  BY EngineAssumption DEF Command, OrderId
<1> DEFINE y == IF c.kind = "SubmitOrder" THEN Submit(call, c.order) ELSE RequestCancel(call, c.id)
<1>3. after.desk = y /\ after.ts = call.ts /\ after.guard = call.guard /\ after.config = call.config
      /\ DOMAIN after = DOMAIN call
  BY <1>1 DEF HandleCommand
<1>4. DeskInv(y, xs, t)
  BY <1>2, SubmitKeeps, RequestCancelKeeps
<1>5. /\ d.queue \in Seq(Event) /\ y.queue \in Seq(Event)
      /\ DOMAIN d = {"queue", "route", "next_order_id", "cancels", "seen"}
  BY <1>1, <1>4 DEF DeskInv, QueueFrom
<1>6. Grows(d.queue, y.queue)
  <2>1. CASE c.kind = "SubmitOrder"
    <3> DEFINE n == d.next_order_id
               late == ReportEvent(call.ts + call.config.order_update_latency,
                                   RejectReport(n, c.order))
               sent == OrderEvent(call.ts, n, c.order)
    <3>1. late \in Event /\ sent \in Event
      <4>1. /\ c.order \in EngineOrder /\ c.order.qty \in Nat
            /\ config.order_update_latency \in Nat /\ n \in OrderId
        BY <1>1, <1>2, <2>1, ConfigFields, EngineAssumption DEF EngineOrder, DeskInv
      <4>2. RejectReport(n, c.order) \in ReportRecord
        BY <4>1 DEF RejectReport, ReportRecord, OrderState
      <4>3. late \in ReportEvents
        BY <1>1, <4>1, <4>2 DEF ReportEvent, ReportEvents
      <4>4. sent \in OrderEvents
        BY <1>1, <4>1 DEF OrderEvent, OrderEvents
      <4>5. QED
        BY <4>3, <4>4 DEF Event
    <3>2. y.queue = Enqueue(d.queue, late) \/ y.queue = Enqueue(d.queue, sent)
      BY <2>1 DEF Submit
    <3> HIDE DEF y, d, late, sent
    <3>3. QED
      BY <1>5, <3>1, <3>2, PushGrows
  <2>2. CASE c.kind # "SubmitOrder"
    <3> DEFINE e == IdEvent(call.ts, "OrderCancel", c.id)
    <3>1. e \in IdEvents
      BY <1>1, <1>2, <2>2 DEF IdEvent, IdEvents
    <3>2. e \in Event
      BY <3>1 DEF Event
    <3>3. y.queue = Enqueue(d.queue, e)
      BY <1>5, <2>2 DEF RequestCancel
    <3> HIDE DEF y, d, e
    <3>4. QED
      BY <1>5, <3>2, <3>3, PushGrows
  <2>3. QED
    BY <2>1, <2>2
<1>7. call.guard.killed => y.route = d.route
  <2> SUFFICES ASSUME call.guard.killed PROVE y.route = d.route
    OBVIOUS
  <2>1. CASE c.kind = "SubmitOrder"
    BY <2>1 DEF Submit, RejectsOrder
  <2>2. CASE c.kind # "SubmitOrder"
    BY <1>5, <2>2 DEF RequestCancel
  <2>3. QED
    BY <2>1, <2>2
<1>8. IsCall(after, xs, t)
  <2> HIDE DEF y, after
  <2>1. QED
    BY <1>1, <1>3, <1>4 DEF IsCall
<1>9. QED
  BY <1>3, <1>5, <1>6, <1>7, <1>8

\* The commands of a callback are a sequence.
LEMMA CommandSeqsAre ==
  ASSUME NEW c \in CommandSeqs
  PROVE  c \in Seq(Command)
<1>1. PICK n \in 0 .. MaxCommands : c \in [1 .. n -> Command]
  BY DEF CommandSeqs
<1>2. n \in Nat
  BY <1>1, EngineAssumption
<1>3. QED
  BY <1>1, <1>2, IsASeq

(***************************************************************************)
(* All commands of a callback, in their order.                             *)
(***************************************************************************)
LEMMA CommandsKeep ==
  ASSUME config \in Configs,
         NEW t \in Nat, NEW xs, NEW call, IsCall(call, xs, t), NEW commands \in Seq(Command)
  PROVE  LET after == FoldLeft(HandleCommand, call, commands)
         IN  /\ IsCall(after, xs, t)
             /\ after.desk.queue \in Seq(Event)
             /\ Grows(call.desk.queue, after.desk.queue)
             /\ call.guard.killed => after.desk.route = call.desk.route
<1> DEFINE F(s) == Calls!Fold(call, s)
           Good == {s \in Seq(Command) :
                      /\ IsCall(F(s), xs, t) /\ F(s).guard = call.guard
                      /\ F(s).desk.queue \in Seq(Event)
                      /\ Grows(call.desk.queue, F(s).desk.queue)
                      /\ call.guard.killed => F(s).desk.route = call.desk.route}
<1>1. call.desk.queue \in Seq(Event)
  BY DEF IsCall, DeskInv, QueueFrom
<1>2. <<>> \in Good
  <2>1. F(<<>>) = call
    BY Calls!FoldOfEmpty
  <2>2. <<>> \in Seq(Command)
    BY EmptySeq
  <2>3. Grows(call.desk.queue, call.desk.queue)
    BY <1>1, GrowsItself
  <2>4. QED
    BY <1>1, <2>1, <2>2, <2>3
<1>3. ASSUME NEW s \in Seq(Command), NEW c \in Command, s \in Good
      PROVE  Append(s, c) \in Good
  <2>1. F(Append(s, c)) = HandleCommand(F(s), c)
    BY Calls!FoldOfAppend
  <2>2. /\ IsCall(F(s), xs, t) /\ F(s).guard = call.guard
        /\ F(s).desk.queue \in Seq(Event)
        /\ Grows(call.desk.queue, F(s).desk.queue)
        /\ call.guard.killed => F(s).desk.route = call.desk.route
    BY <1>3
  <2> DEFINE x == F(s)
             y == HandleCommand(x, c)
  <2> HIDE DEF F
  <2>3. IsCall(x, xs, t)
    BY <2>2
  <2> HIDE DEF x
  <2>4. /\ IsCall(y, xs, t) /\ y.guard = x.guard /\ y.desk.queue \in Seq(Event)
        /\ Grows(x.desk.queue, y.desk.queue)
        /\ x.guard.killed => y.desk.route = x.desk.route
    BY <2>3, CommandKeeps
  <2> HIDE DEF y
  <2>5. /\ x.guard = call.guard /\ x.desk.queue \in Seq(Event)
        /\ Grows(call.desk.queue, x.desk.queue)
        /\ call.guard.killed => x.desk.route = call.desk.route
    BY <2>2 DEF x
  <2>6. Grows(call.desk.queue, y.desk.queue)
    BY <1>1, <2>4, <2>5, GrowsTransitive
  <2>7. F(Append(s, c)) = y /\ Append(s, c) \in Seq(Command)
    BY <2>1, AppendProperties DEF x, y
  <2>8. QED
    BY <2>4, <2>5, <2>6, <2>7
<1> HIDE DEF Good
<1>4. Seq(Command) \subseteq Good
  BY <1>2, <1>3, Calls!SeqSetInduction
<1>5. FoldLeft(HandleCommand, call, commands) = F(commands)
  BY DEF Calls!Fold, FoldLeft, Calls!MapThenFoldSet, MapThenFoldSet,
         Calls!Latest, Max
<1>6. QED
  BY <1>4, <1>5 DEF Good

\* The same for handle_commands of a handler; a killed run routes no order.
LEMMA HandleCommandsKeep ==
  ASSUME config \in Configs,
         NEW t \in Nat, NEW xs, NEW d, DeskInv(d, xs, t), NEW ts \in Nat, ts >= t,
         NEW commands \in CommandSeqs
  PROVE  LET y == HandleCommands(d, commands, ts)
         IN  /\ DeskInv(y, xs, t)
             /\ Grows(d.queue, y.queue)
             /\ guard'.killed => y.route = d.route
<1> DEFINE call == Call(d, ts)
           after == FoldLeft(HandleCommand, call, commands)
<1>1. /\ DOMAIN call = {"desk", "ts", "guard", "positions", "config"}
      /\ call.desk = d /\ call.ts = ts /\ call.guard = guard' /\ call.config = config
  BY DEF Call
<1>2. HandleCommands(d, commands, ts) = after.desk
  BY DEF HandleCommands
<1> HIDE DEF call
<1>3. IsCall(call, xs, t)
  BY <1>1 DEF IsCall
<1>4. commands \in Seq(Command)
  BY CommandSeqsAre
<1>5. /\ IsCall(after, xs, t)
      /\ Grows(call.desk.queue, after.desk.queue)
      /\ call.guard.killed => after.desk.route = call.desk.route
  BY <1>3, <1>4, CommandsKeep
<1> HIDE DEF after
<1>6. DeskInv(after.desk, xs, t)
  BY <1>5 DEF IsCall
<1>7. QED
  BY <1>1, <1>2, <1>5, <1>6

\* Telling the strategy of reports changes what it knows, not of which orders.
LEMMA TellKeeps ==
  ASSUME NEW t, NEW xs, NEW d, DeskInv(d, xs, t), NEW reports \in Seq(ReportRecord)
  PROVE  /\ DeskInv(Tell(d, reports), xs, t)
         /\ Tell(d, reports).queue = d.queue /\ Tell(d, reports).route = d.route
<1> DEFINE F(s) == Tells!Fold(d.seen, s)
           Good == {s \in Seq(ReportRecord) : DOMAIN F(s) = DOMAIN d.seen}
           y == Tell(d, reports)
<1>1. <<>> \in Good
  BY Tells!FoldOfEmpty, EmptySeq
<1>2. ASSUME NEW s \in Seq(ReportRecord), NEW r \in ReportRecord, s \in Good
      PROVE  Append(s, r) \in Good
  <2>1. F(Append(s, r)) = TellOne(F(s), r)
    BY Tells!FoldOfAppend
  <2>2. DOMAIN F(s) = DOMAIN d.seen
    BY <1>2
  <2> HIDE DEF F
  <2>3. DOMAIN TellOne(F(s), r) = DOMAIN F(s)
    BY DEF TellOne
  <2>4. Append(s, r) \in Seq(ReportRecord)
    BY AppendProperties
  <2>5. QED
    BY <2>1, <2>2, <2>3, <2>4
<1> HIDE DEF Good
<1>3. Seq(ReportRecord) \subseteq Good
  BY <1>1, <1>2, Tells!SeqSetInduction
<1>4. FoldLeft(TellOne, d.seen, reports) = F(reports)
  BY DEF Tells!Fold, FoldLeft, Tells!MapThenFoldSet, MapThenFoldSet,
         Tells!Latest, Max
<1>5. DOMAIN F(reports) = DOMAIN d.seen
  BY <1>3 DEF Good
<1> HIDE DEF F
<1>6. DOMAIN d = {"queue", "route", "next_order_id", "cancels", "seen"}
  BY DEF DeskInv
<1>7. /\ y.queue = d.queue /\ y.route = d.route /\ y.next_order_id = d.next_order_id
      /\ y.seen = F(reports) /\ DOMAIN y = DOMAIN d
  BY <1>4, <1>6 DEF Tell
<1> HIDE DEF y
<1>8. DeskInv(y, xs, t)
  BY <1>5, <1>7 DEF DeskInv
<1>9. QED
  BY <1>7, <1>8 DEF y

-----------------------------------------------------------------------------
(***************************************************************************)
(* Batches: the tuner, the buffers, and the deadline of what is buffered.  *)
(***************************************************************************)
TuningInv ==
  /\ WithinLimits(tuner)
  /\ config.auto_tune => tuner.max <= LongestBatch
  /\ max_batch \in Nat /\ max_batch <= LongestBatch

\* The timer's event, due by ts.
Alarms(id, ts) == {e \in TimerEvents : e.timer_id = id /\ e.ts <= ts}

\* What a handler leaves for the end of its step.
Buffered(q, ticks, reports, tmr, next, owed) ==
  /\ ticks \in Seq(TickRecord) /\ reports \in Seq(ReportRecord)
  /\ next \in Nat \ {0} /\ tmr \in 0 .. next - 1
  /\ tmr # NoTimer => ticks # <<>>
  /\ config.mode = "Tick" => ticks = <<>>
  /\ max_batch > 0 /\ ticks # <<>> =>
       owed \/ Times(q, Alarms(tmr, Head(ticks).local + LongestBatch)) >= 1

BatchInv ==
  /\ TuningInv
  /\ pending_wakeup \in BOOLEAN
  /\ Buffered(queue, tick_buffer, report_buffer, timer, next_timer_id, pending_wakeup)

Now == Desk(queue)

\* The longest batch is a number, no shorter than the configured one.
LEMMA LongestBatchIs ==
  ASSUME config \in Configs
  PROVE  /\ LongestBatch \in Nat /\ config.max_batch <= LongestBatch
         /\ LongestBatch = IF ~config.auto_tune THEN config.max_batch
                           ELSE Greater(TunerFloor, IF config.max_batch > 0 THEN config.max_batch
                                                    ELSE TunerDefault)
<1>1. config.max_batch \in Nat /\ TunerFloor \in Nat /\ TunerDefault \in Nat
  BY ConfigFields, TunerAssumption
<1>2. QED
  BY <1>1 DEF LongestBatch, Greater

\* A measured batch keeps the tuner within its limits.
LEMMA TuneKeeps ==
  ASSUME config \in Configs, config' = config, TuningInv, Tune
  PROVE  TuningInv'
<1>1. LongestBatch' = LongestBatch /\ LongestBatch \in Nat
  BY LongestBatchIs DEF LongestBatch
<1>2. CASE UNCHANGED tuning
  BY <1>1, <1>2 DEF TuningInv, tuning
<1>3. CASE ~UNCHANGED tuning
  <2>1. PICK fast \in BOOLEAN : tuner' = RecordBatch(tuner, fast)
    BY <1>3 DEF Tune
  <2>2. config.auto_tune /\ max_batch' = tuner'.current
    BY <1>3 DEF Tune
  <2>3. WithinLimits(tuner) /\ tuner.max <= LongestBatch
    BY <2>2 DEF TuningInv
  <2>4. WithinLimits(RecordBatch(tuner, fast)) /\ RecordBatch(tuner, fast).max = tuner.max
    BY <2>3, RecordBatchWithinLimits
  <2>5. WithinLimits(tuner') /\ tuner'.max = tuner.max
    BY <2>1, <2>4
  <2>6. /\ tuner'.current \in Nat /\ tuner'.max \in Nat /\ tuner'.current <= tuner'.max
    BY <2>5 DEF WithinLimits, Tuner
  <2>7. max_batch' \in Nat /\ max_batch' <= LongestBatch
    BY <1>1, <2>2, <2>3, <2>5, <2>6
  <2>8. QED
    BY <1>1, <2>2, <2>3, <2>5, <2>7 DEF TuningInv
<1>4. QED
  BY <1>2, <1>3

\* The desk a step leaves.
NextDesk ==
  [queue |-> queue', route |-> route', next_order_id |-> next_order_id',
   cancels |-> cancels', seen |-> seen']

\* The invariant of the next desk is the desk's next invariant.
LEMMA NextDeskIs ==
  ASSUME config' = config, DeskInv(NextDesk, exchanges', now')
  PROVE  DeskInv(Now, exchanges, now)'
  BY DEF NextDesk, Now, Desk, DeskInv

\* What SetDesk leaves.
LEMMA SetDeskIs ==
  ASSUME NEW d, SetDesk(d), NEW t, NEW xs, DeskInv(d, xs, t)
  PROVE  /\ DeskInv(NextDesk, xs, t)
         /\ queue' = d.queue /\ route' = d.route /\ queue' \in Seq(Event)
<1> DEFINE n == NextDesk
<1>1. /\ n.queue = d.queue /\ n.route = d.route /\ n.next_order_id = d.next_order_id
      /\ n.cancels = d.cancels /\ n.seen = d.seen
      /\ DOMAIN n = {"queue", "route", "next_order_id", "cancels", "seen"}
  BY DEF NextDesk, SetDesk
<1>2. queue' = d.queue /\ route' = d.route
  BY DEF SetDesk
<1> HIDE DEF n
<1>3. DeskInv(n, xs, t)
  BY <1>1 DEF DeskInv
<1>4. d.queue \in Seq(Event)
  BY DEF DeskInv, QueueFrom
<1>5. QED
  BY <1>2, <1>3, <1>4 DEF n

(***************************************************************************)
(* The end of a step: the desk is the handler's or, after a flush, what    *)
(* the commands made of it; the buffers are the handler's or empty.        *)
(***************************************************************************)
LEMMA FlushKeeps ==
  ASSUME config \in Configs, config' = config, now' \in Nat, TuningInv,
         NEW d, DeskInv(d, exchanges', now'),
         NEW ticks, NEW reports \in Seq(ReportRecord), NEW tmr,
         FlushStrategy(d, ticks, reports, tmr)
  PROVE  /\ DeskInv(NextDesk, exchanges', now')
         /\ Grows(d.queue, queue') /\ queue' \in Seq(Event)
         /\ guard'.killed => route' = d.route
         /\ tick_buffer' = <<>> /\ report_buffer' = <<>>
         /\ timer' = NoTimer \/ (timer' = tmr /\ ticks = <<>>)
         /\ TuningInv'
<1>1. CASE ticks = <<>> /\ reports = <<>>
  <2>1. SetDesk(d) /\ tick_buffer' = ticks /\ report_buffer' = reports /\ timer' = tmr
        /\ UNCHANGED tuning
    BY <1>1 DEF FlushStrategy, Keep
  <2>2. DeskInv(NextDesk, exchanges', now') /\ queue' = d.queue /\ route' = d.route
        /\ queue' \in Seq(Event)
    BY <2>1, SetDeskIs
  <2>3. Grows(d.queue, queue')
    BY <2>2, GrowsItself
  <2>4. TuningInv'
    BY <2>1 DEF TuningInv, tuning, LongestBatch
  <2>5. QED
    BY <1>1, <2>1, <2>2, <2>3, <2>4
<1>2. CASE ~(ticks = <<>> /\ reports = <<>>)
  <2> DEFINE told == Tell(d, reports)
  <2>1. /\ \E c \in Commands(d) : SetDesk(HandleCommands(told, c, now'))
        /\ tick_buffer' = <<>> /\ report_buffer' = <<>> /\ timer' = NoTimer /\ Tune
    BY <1>2 DEF FlushStrategy
  <2>2. PICK c \in Commands(d) : SetDesk(HandleCommands(told, c, now'))
    BY <2>1
  <2>3. c \in CommandSeqs
    BY <2>2 DEF Commands
  <2>4. DeskInv(told, exchanges', now') /\ told.queue = d.queue /\ told.route = d.route
    BY TellKeeps
  <2> HIDE DEF told
  <2> DEFINE y == HandleCommands(told, c, now')
  <2>5. now' >= now'
    OBVIOUS
  <2>6. /\ DeskInv(y, exchanges', now') /\ Grows(told.queue, y.queue)
        /\ guard'.killed => y.route = told.route
    BY <2>3, <2>4, <2>5, HandleCommandsKeep
  <2>7. SetDesk(y)
    BY <2>2
  <2> HIDE DEF y
  <2>8. /\ DeskInv(NextDesk, exchanges', now') /\ queue' = y.queue /\ route' = y.route
        /\ queue' \in Seq(Event)
    BY <2>6, <2>7, SetDeskIs
  <2>9. TuningInv'
    BY <2>1, TuneKeeps
  <2>10. Grows(d.queue, queue')
    BY <2>4, <2>6, <2>8
  <2>11. guard'.killed => route' = d.route
    BY <2>4, <2>6, <2>8
  <2>12. tick_buffer' = <<>> /\ report_buffer' = <<>> /\ timer' = NoTimer
    BY <2>1
  <2>13. QED
    BY <2>8, <2>9, <2>10, <2>11, <2>12
<1>3. QED
  BY <1>1, <1>2

\* A step that does not flush.
LEMMA KeepKeeps ==
  ASSUME config' = config, TuningInv, NEW d, DeskInv(d, exchanges', now'),
         NEW ticks, NEW reports, NEW tmr, Keep(d, ticks, reports, tmr)
  PROVE  /\ DeskInv(NextDesk, exchanges', now')
         /\ Grows(d.queue, queue') /\ queue' = d.queue /\ queue' \in Seq(Event)
         /\ route' = d.route
         /\ tick_buffer' = ticks /\ report_buffer' = reports /\ timer' = tmr
         /\ TuningInv' /\ max_batch' = max_batch
<1>1. SetDesk(d) /\ tick_buffer' = ticks /\ report_buffer' = reports /\ timer' = tmr
      /\ UNCHANGED tuning
  BY DEF Keep
<1>2. DeskInv(NextDesk, exchanges', now') /\ queue' = d.queue /\ route' = d.route
      /\ queue' \in Seq(Event)
  BY <1>1, SetDeskIs
<1>3. Grows(d.queue, queue')
  BY <1>2, GrowsItself
<1>4. TuningInv' /\ max_batch' = max_batch
  BY <1>1 DEF TuningInv, tuning, LongestBatch
<1>5. QED
  BY <1>1, <1>2, <1>3, <1>4

\* What was left for the end of the step, with a longer queue and the rest unchanged.
LEMMA BufferedGrows ==
  ASSUME NEW q \in Seq(Event), NEW r \in Seq(Event), Grows(q, r),
         NEW ticks, NEW reports, NEW tmr, NEW next, NEW owed, NEW owes, owed => owes,
         Buffered(q, ticks, reports, tmr, next, owed)
  PROVE  Buffered(r, ticks, reports, tmr, next, owes)
<1> DEFINE E == Alarms(tmr, Head(ticks).local + LongestBatch)
<1>1. Times(q, E) \in Nat /\ Times(r, E) \in Nat
  BY PlacesAreFinite
<1>2. Times(r, E) >= Times(q, E)
  BY DEF Grows
<1> HIDE DEF E
<1>3. Times(q, E) >= 1 => Times(r, E) >= 1
  BY <1>1, <1>2
<1>4. QED
  BY <1>3 DEF Buffered, E

\* The flush check that ends a step: it flushes, defers the wakeup or does nothing.
LEMMA EndStepKeeps ==
  ASSUME config \in Configs, config' = config, now' \in Nat, TuningInv,
         pending_wakeup \in BOOLEAN,
         NEW d, DeskInv(d, exchanges', now'),
         NEW ticks, NEW reports, NEW tmr, NEW wakeup \in BOOLEAN,
         Buffered(d.queue, ticks, reports, tmr, next_timer_id', Woken(wakeup)),
         EndStep(d, ticks, reports, tmr, wakeup)
  PROVE  /\ DeskInv(NextDesk, exchanges', now')
         /\ guard'.killed => route' = d.route
         /\ BatchInv'
         /\ tick_buffer' = ticks \/ tick_buffer' = <<>>
<1>1. /\ d.queue \in Seq(Event) /\ reports \in Seq(ReportRecord)
      /\ next_timer_id' \in Nat \ {0} /\ tmr \in 0 .. next_timer_id' - 1
      /\ tmr # NoTimer => ticks # <<>>
  BY DEF DeskInv, QueueFrom, Buffered
<1>2. LongestBatch' = LongestBatch
  BY DEF LongestBatch
<1>3. CASE ~Woken(wakeup) \/ (Woken(wakeup) /\ MoreNow(d))
  <2>1. Keep(d, ticks, reports, tmr)
    BY <1>3 DEF EndStep
  <2>2. /\ DeskInv(NextDesk, exchanges', now')
        /\ Grows(d.queue, queue') /\ queue' = d.queue /\ queue' \in Seq(Event)
        /\ route' = d.route
        /\ tick_buffer' = ticks /\ report_buffer' = reports /\ timer' = tmr
        /\ TuningInv' /\ max_batch' = max_batch
    BY <2>1, KeepKeeps
  <2>3. pending_wakeup' \in BOOLEAN /\ (Woken(wakeup) => pending_wakeup')
    BY <1>3 DEF EndStep
  <2>4. Buffered(queue', ticks, reports, tmr, next_timer_id', pending_wakeup')
    BY <1>1, <2>2, <2>3, BufferedGrows
  <2>5. Buffered(queue, tick_buffer, report_buffer, timer, next_timer_id, pending_wakeup)'
    BY <1>2, <2>2, <2>4 DEF Buffered, Alarms
  <2>6. QED
    BY <2>2, <2>3, <2>5 DEF BatchInv
<1>4. CASE Woken(wakeup) /\ ~MoreNow(d)
  <2>1. FlushStrategy(d, ticks, reports, tmr) /\ pending_wakeup' = FALSE
    BY <1>4 DEF EndStep
  <2>2. /\ DeskInv(NextDesk, exchanges', now')
        /\ guard'.killed => route' = d.route
        /\ tick_buffer' = <<>> /\ report_buffer' = <<>>
        /\ timer' = NoTimer \/ (timer' = tmr /\ ticks = <<>>)
        /\ TuningInv'
    BY <1>1, <2>1, FlushKeeps
  <2>3. timer' = NoTimer
    BY <1>1, <2>2
  <2>4. Buffered(queue, tick_buffer, report_buffer, timer, next_timer_id, pending_wakeup)'
    <3>1. /\ tick_buffer' = <<>> /\ report_buffer' = <<>> /\ timer' = NoTimer
          /\ tick_buffer' \in Seq(TickRecord) /\ report_buffer' \in Seq(ReportRecord)
          /\ next_timer_id' \in Nat \ {0}
      BY <1>1, <2>2, <2>3, EmptySeq
    <3>2. timer' \in 0 .. next_timer_id' - 1
      <4>1. \A n \in Nat \ {0} : 0 \in 0 .. n - 1
        OBVIOUS
      <4>2. timer' = 0
        BY <3>1 DEF NoTimer
      <4>3. QED
        BY <3>1, <4>1, <4>2
    <3>3. QED
      BY <3>1, <3>2 DEF Buffered
  <2>5. QED
    BY <2>1, <2>2, <2>4 DEF BatchInv
<1>5. QED
  BY <1>3, <1>4

-----------------------------------------------------------------------------
(***************************************************************************)
(* The account: types of what a fill and a funding payment compute.        *)
(***************************************************************************)
FillRecord == [symbol : Symbols, side : Side, qty : Nat, price : Nat, fee_bps : Nat]

\* The account while a loop books fills under the limits l, in a run that the
\* kill switch had stopped before it if killed.
Booking(l, killed) ==
  {b \in [positions : [Symbols -> Position], guard : RiskGuard, limits : {l}] :
     killed => b.guard.killed}

Bookings == INSTANCE FoldTheory WITH Op <- BookFill

\* A quotient of numbers is a number.
LEMMA QuotientOfNats ==
  ASSUME NEW a \in Nat, NEW b \in Nat \ {0}
  PROVE  a \div b \in Nat
  OBVIOUS

\* The division that truncates gives an integer.
LEMMA QuotientIsInt ==
  ASSUME NEW n \in Int, NEW d \in Nat \ {0}
  PROVE  Quotient(n, d) \in Int
<1>1. Abs(n) \in Nat /\ Sign(n) \in {-1, 0, 1}
  BY DEF Abs, Sign
<1>2. Abs(n) \div d \in Nat
  BY <1>1, QuotientOfNats
<1> DEFINE a == Abs(n) \div d
           s == Sign(n)
<1>3. Quotient(n, d) = s * a
  BY DEF Quotient
<1> HIDE DEF a, s
<1>4. a \in Nat /\ s \in {-1, 0, 1}
  BY <1>1, <1>2 DEF a, s
<1>5. s * a \in Int
  BY <1>4
<1>6. QED
  BY <1>3, <1>5

\* A fee is a number.
LEMMA FeeIsNat ==
  ASSUME NEW price \in Nat, NEW qty \in Nat, NEW bps \in Nat
  PROVE  ComputeFee(price, qty, bps) \in Nat
<1> DEFINE paid == price * Abs(qty) * bps
           unit == Scale * 10000
<1>1. Abs(qty) \in Nat
  BY DEF Abs
<1>2. paid \in Nat
  BY <1>1
<1>3. unit \in Nat \ {0}
  BY ScaleAssumption
<1>4. ComputeFee(price, qty, bps) = paid \div unit
  BY DEF ComputeFee
<1> HIDE DEF paid, unit
<1>5. QED
  BY <1>2, <1>3, <1>4, QuotientOfNats

\* A position with another quantity and average price.
LEMMA PositionWith ==
  ASSUME NEW p \in Position, NEW q \in Int, NEW a \in Nat
  PROVE  [p EXCEPT !.qty = q, !.avg = a] \in Position
  BY DEF Position

\* on_fill: a position after a fill, and the result it realises.
LEMMA OnFillType ==
  ASSUME NEW p \in Position, NEW side \in Side, NEW qty \in Nat, NEW price \in Nat
  PROVE  /\ OnFill(p, side, qty, price).position \in Position
         /\ OnFill(p, side, qty, price).pnl \in Int
<1> DEFINE d == Signed(side, qty)
<1>1. d \in Int /\ p.qty \in Int /\ p.avg \in Nat
  BY DEF Signed, Side, Position
<1> HIDE DEF d
<1>2. Abs(d) \in Nat /\ Abs(p.qty) \in Nat /\ (d # 0 => Abs(d) # 0)
  BY <1>1 DEF Abs
<1>3. CASE d = 0
  BY <1>3 DEF OnFill, d
<1>4. CASE d # 0 /\ Adds(p, d)
  <2> DEFINE top  == p.avg * Abs(p.qty) + price * Abs(d)
             bot  == Abs(p.qty) + Abs(d)
             avg  == top \div bot
             left == p.qty + d
  <2>1. OnFill(p, side, qty, price) = [position |-> Increase(p, d, price), pnl |-> 0]
    BY <1>4 DEF OnFill, d
  <2>2. Increase(p, d, price) = [p EXCEPT !.qty = left, !.avg = avg]
    BY DEF Increase, Position
  <2>3. p.avg * Abs(p.qty) \in Nat /\ price * Abs(d) \in Nat
    BY <1>1, <1>2
  <2>4. top \in Nat /\ bot \in Nat \ {0}
    BY <1>2, <1>4, <2>3
  <2>5. left \in Int
    BY <1>1
  <2> HIDE DEF top, bot, left
  <2>6. avg \in Nat
    BY <2>4, QuotientOfNats
  <2> HIDE DEF avg
  <2>7. [p EXCEPT !.qty = left, !.avg = avg] \in Position
    BY <2>5, <2>6, PositionWith
  <2>8. QED
    BY <2>1, <2>2, <2>7
<1>5. CASE d # 0 /\ ~Adds(p, d)
  <2> DEFINE left == p.qty + d
             avg  == CASE left = 0 -> 0
                       [] Sign(left) = Sign(p.qty) -> p.avg
                       [] OTHER -> price
             low  == Lesser(Abs(p.qty), Abs(d))
             s    == Sign(p.qty)
             x    == s * (price - p.avg) * low
  <2>1. OnFill(p, side, qty, price)
          = [position |-> Decrease(p, d, price), pnl |-> RealizedPnl(p, d, price)]
    BY <1>5 DEF OnFill, d
  <2>2. Decrease(p, d, price) = [p EXCEPT !.qty = left, !.avg = avg]
    BY DEF Decrease
  <2>3. RealizedPnl(p, d, price) = Quotient(x, Scale)
    BY DEF RealizedPnl
  <2>4. left \in Int /\ avg \in Nat
    BY <1>1
  <2>5. s \in {-1, 0, 1} /\ low \in Nat
    BY <1>2 DEF Sign, Lesser
  <2> HIDE DEF left, avg, low, s
  <2>6. x \in Int
    BY <1>1, <2>5
  <2> HIDE DEF x
  <2>7. Quotient(x, Scale) \in Int
    BY SMTT(60), <2>6, ScaleAssumption, QuotientIsInt
  <2> HIDE DEF x
  <2>8. [p EXCEPT !.qty = left, !.avg = avg] \in Position
    BY <2>4, PositionWith
  <2>9. QED
    BY <2>1, <2>2, <2>3, <2>7, <2>8
<1>6. QED
  BY <1>3, <1>4, <1>5

\* apply_funding: a position, and what it pays.
LEMMA FundingType ==
  ASSUME NEW p \in Position, NEW rate \in Int, NEW mark \in Int
  PROVE  /\ ApplyFunding(p, rate, mark).position \in Position
         /\ ApplyFunding(p, rate, mark).pnl \in Int
<1> DEFINE worth == Quotient(p.qty * mark, Scale)
           pnl   == FundingPnl(p, rate, mark)
<1>1. p.qty \in Int /\ p.qty * mark \in Int
  BY DEF Position
<1>2. worth \in Int
  BY <1>1, ScaleAssumption, QuotientIsInt
<1>3. pnl = -Quotient(worth * rate, Scale)
  BY DEF FundingPnl
<1> HIDE DEF worth, pnl
<1>4. worth * rate \in Int
  BY <1>2
<1>5. Quotient(worth * rate, Scale) \in Int
  BY <1>4, ScaleAssumption, QuotientIsInt
<1>6. pnl \in Int
  BY <1>3, <1>5
<1>7. ApplyFunding(p, rate, mark) = [position |-> [p EXCEPT !.funding = @ + pnl], pnl |-> pnl]
  BY DEF ApplyFunding, pnl
<1>8. QED
  BY <1>6, <1>7 DEF Position

\* update_pnl: the kill switch stays.
LEMMA UpdatePnlType ==
  ASSUME NEW g \in RiskGuard, NEW l, l.max_loss \in Int, NEW delta \in Int
  PROVE  /\ UpdatePnl(g, l, delta) \in RiskGuard
         /\ g.killed => UpdatePnl(g, l, delta).killed
<1> DEFINE pnl == g.running_pnl + delta
           killed == g.killed \/ (l.max_loss < 0 /\ pnl <= l.max_loss)
<1>1. g.killed \in BOOLEAN /\ pnl \in Int
  BY DEF RiskGuard
<1>2. UpdatePnl(g, l, delta) = [killed |-> killed, running_pnl |-> pnl]
  BY DEF UpdatePnl
<1>3. killed \in BOOLEAN /\ (g.killed => killed)
  BY <1>1
<1> HIDE DEF pnl, killed
<1>4. QED
  BY <1>1, <1>2, <1>3 DEF RiskGuard

\* One fill booked: types are kept, and the kill switch if it was on.
LEMMA BookFillKeeps ==
  ASSUME NEW l, l.max_loss \in Int, NEW killed, NEW b \in Booking(l, killed),
         NEW f \in FillRecord
  PROVE  BookFill(b, f) \in Booking(l, killed)
<1> DEFINE s    == f.symbol
           done == OnFill(b.positions[s], f.side, f.qty, f.price)
           fee  == ComputeFee(f.price, f.qty, f.fee_bps)
           g    == UpdatePnl(b.guard, b.limits, done.pnl - fee)
<1>1. /\ s \in Symbols /\ f.side \in Side /\ f.qty \in Nat /\ f.price \in Nat /\ f.fee_bps \in Nat
  BY DEF FillRecord
<1>2. /\ b.positions \in [Symbols -> Position] /\ b.guard \in RiskGuard /\ b.limits = l
      /\ killed => b.guard.killed
      /\ DOMAIN b = {"positions", "guard", "limits"}
      /\ b = [positions |-> b.positions, guard |-> b.guard, limits |-> b.limits]
  BY DEF Booking
<1>3. BookFill(b, f) = [b EXCEPT !.positions[s] = done.position, !.guard = g]
  BY <1>2 DEF BookFill
<1>4. b.positions[s] \in Position
  BY <1>1, <1>2
<1>5. done.position \in Position /\ done.pnl \in Int
  BY <1>1, <1>4, OnFillType
<1>6. fee \in Nat
  BY <1>1, FeeIsNat
<1> HIDE DEF s, done, fee
<1>7. done.pnl - fee \in Int
  BY <1>5, <1>6
<1>8. g \in RiskGuard /\ (b.guard.killed => g.killed)
  BY <1>2, <1>7, UpdatePnlType
<1> HIDE DEF g
<1> DEFINE ps == [b.positions EXCEPT ![s] = done.position]
<1>9. ps \in [Symbols -> Position]
  BY <1>2, <1>5
<1>10. BookFill(b, f) = [positions |-> ps, guard |-> g, limits |-> l]
  BY <1>2, <1>3
<1> HIDE DEF ps
<1>11. QED
  BY <1>2, <1>8, <1>9, <1>10 DEF Booking

(***************************************************************************)
(* The loop over the fills of an event.                                    *)
(***************************************************************************)
LEMMA BookFillsKeep ==
  ASSUME config \in Configs, positions \in [Symbols -> Position], guard \in RiskGuard,
         NEW fills \in Seq(FillRecord), BookFills(fills)
  PROVE  /\ positions' \in [Symbols -> Position] /\ guard' \in RiskGuard
         /\ guard.killed => guard'.killed
<1> DEFINE killed == guard.killed
           b0 == [positions |-> positions, guard |-> guard, limits |-> config]
           T  == Booking(config, killed)
<1>1. config.max_loss \in Int
  BY ConfigFields
<1>2. b0 \in T
  BY DEF Booking
<1>3. \A x \in T, e \in FillRecord : BookFill(x, e) \in T
  <2> SUFFICES ASSUME NEW x \in T, NEW e \in FillRecord PROVE BookFill(x, e) \in T
    OBVIOUS
  <2> HIDE DEF killed
  <2>1. QED
    BY <1>1, BookFillKeeps
<1> DEFINE b == FoldLeft(BookFill, b0, fills)
<1>4. b = Bookings!Fold(b0, fills)
  BY DEF Bookings!Fold, FoldLeft, Bookings!MapThenFoldSet, MapThenFoldSet,
         Bookings!Latest, Max
<1>5. positions' = b.positions /\ guard' = b.guard
  BY DEF BookFills
<1> HIDE DEF b, b0, T
<1>6. b \in T
  BY <1>2, <1>3, <1>4, Bookings!FoldKeeps
<1>7. QED
  BY <1>5, <1>6 DEF T, Booking

-----------------------------------------------------------------------------
(***************************************************************************)
(* The reports of an event on their way to the strategy                    *)
(***************************************************************************)
EventsOf(reports, ts) == [i \in DOMAIN reports |-> ReportEvent(ts, reports[i])]

EndsOrder(r, id) == r.id = id /\ IsTerminal(r.status)

\* Every order has at most one of the final reports.
OneEnd(reports) ==
  \A i, j \in 1 .. Len(reports) :
    reports[i].id = reports[j].id /\ IsTerminal(reports[i].status) /\ IsTerminal(reports[j].status)
      => i = j

\* Reports become events of the queue.
LEMMA EventsOfType ==
  ASSUME NEW t \in Nat, NEW ts \in Nat, ts >= t, NEW reports \in Seq(ReportRecord)
  PROVE  /\ EventsOf(reports, ts) \in Seq(Later(t))
         /\ Len(EventsOf(reports, ts)) = Len(reports)
         /\ \A i \in 1 .. Len(reports) :
              EventsOf(reports, ts)[i] \in ReportEvents /\ EventsOf(reports, ts)[i].report = reports[i]
<1> DEFINE v == EventsOf(reports, ts)
<1>1. Len(reports) \in Nat /\ DOMAIN reports = 1 .. Len(reports)
      /\ \A i \in 1 .. Len(reports) : reports[i] \in ReportRecord
  BY LenProperties, ElementOfSeq
<1>2. DOMAIN v = 1 .. Len(reports)
      /\ \A i \in 1 .. Len(reports) : v[i] = [ts |-> ts, kind |-> "OrderReport", report |-> reports[i]]
  BY <1>1 DEF EventsOf, ReportEvent
<1>3. \A i \in 1 .. Len(reports) :
        v[i] \in ReportEvents /\ v[i].report = reports[i] /\ v[i].ts = ts /\ v[i].kind = "OrderReport"
  BY <1>1, <1>2 DEF ReportEvents
<1> HIDE DEF v
<1>4. \A i \in 1 .. Len(reports) : v[i] \in Later(t)
  BY <1>3 DEF Later, Event
<1>5. v = [i \in 1 .. Len(reports) |-> v[i]]
  BY <1>2 DEF v, EventsOf
<1>6. v \in [1 .. Len(reports) -> Later(t)]
  BY <1>4, <1>5
<1>7. v \in Seq(Later(t)) /\ Len(v) = Len(reports)
  BY <1>1, <1>6, SeqDef, LenProperties
<1>8. QED
  BY <1>3, <1>7 DEF v

\* What the reports add to an order's counts.
LEMMA FinalsOfReports ==
  ASSUME NEW t \in Nat, NEW ts \in Nat, ts >= t, NEW reports \in Seq(ReportRecord), NEW id
  PROVE  LET v == EventsOf(reports, ts)
         IN  /\ v \in Seq(Event)
             /\ Times(v, OrdersFor(id)) = 0 /\ \A s : Times(v, OrdersTo(id, s)) = 0
             /\ Times(v, Acks(id)) = 0 /\ Times(v, CancelAcks(id)) = 0
             /\ (\A i \in 1 .. Len(reports) : ~EndsOrder(reports[i], id)) =>
                  Times(v, Finals(id)) = 0
             /\ OneEnd(reports) /\ (\E i \in 1 .. Len(reports) : EndsOrder(reports[i], id)) =>
                  Times(v, Finals(id)) = 1
<1> DEFINE v == EventsOf(reports, ts)
<1>1. /\ v \in Seq(Later(t)) /\ Len(v) = Len(reports)
      /\ \A i \in 1 .. Len(reports) : v[i] \in ReportEvents /\ v[i].report = reports[i]
  BY EventsOfType
<1> HIDE DEF v
<1>2. v \in Seq(Event)
  <2>1. Later(t) \subseteq Event
    BY DEF Later
  <2>2. QED
    BY <1>1, <2>1, SeqMonotonic
<1>3. \A i \in 1 .. Len(v) : v[i].kind = "OrderReport" /\ (v[i] \in Finals(id) <=> EndsOrder(reports[i], id))
  BY <1>1 DEF ReportEvents, Finals, EndsOrder
<1>4. /\ \A i \in 1 .. Len(v) : v[i] \notin OrdersFor(id) /\ v[i] \notin Acks(id) /\ v[i] \notin CancelAcks(id)
      /\ \A s : \A i \in 1 .. Len(v) : v[i] \notin OrdersTo(id, s)
  BY <1>3 DEF OrdersFor, OrdersTo, Acks, CancelAcks, OrderEvents, IdEvents
<1>5. /\ Times(v, OrdersFor(id)) = 0 /\ Times(v, Acks(id)) = 0 /\ Times(v, CancelAcks(id)) = 0
      /\ \A s : Times(v, OrdersTo(id, s)) = 0
  BY <1>2, <1>4, NoTimes
<1>6. ASSUME \A i \in 1 .. Len(reports) : ~EndsOrder(reports[i], id)
      PROVE  Times(v, Finals(id)) = 0
  BY <1>1, <1>2, <1>3, <1>6, NoTimes
<1>7. ASSUME OneEnd(reports), NEW k \in 1 .. Len(reports), EndsOrder(reports[k], id)
      PROVE  Times(v, Finals(id)) = 1
  <2>1. k \in 1 .. Len(v) /\ v[k] \in Finals(id)
    BY <1>1, <1>3, <1>7
  <2>2. \A i \in 1 .. Len(v) : v[i] \in Finals(id) => i = k
    BY <1>1, <1>3, <1>7 DEF OneEnd, EndsOrder
  <2>3. QED
    BY <1>2, <2>1, <2>2, OneTime
<1>8. QED
  BY <1>2, <1>5, <1>6, <1>7 DEF v

(***************************************************************************)
(* The reports join the queue: the final ones end their orders once.       *)
(***************************************************************************)
LEMMA ReportsJoin ==
  ASSUME config \in Configs, now' \in Nat, NEW q, QueueFrom(q, now'),
         NEW reports \in Seq(ReportRecord)
  PROVE  LET r == EnqueueReports(q, reports)
         IN  /\ QueueFrom(r, now') /\ Grows(q, r)
             /\ \A id : (\A i \in 1 .. Len(reports) : ~EndsOrder(reports[i], id)) =>
                          SameEvents(q, r, id)
             /\ \A id : OneEnd(reports) /\ (\E i \in 1 .. Len(reports) : EndsOrder(reports[i], id)) =>
                          /\ Times(r, OrdersFor(id)) = Times(q, OrdersFor(id))
                          /\ Times(r, Acks(id)) = Times(q, Acks(id))
                          /\ Times(r, Finals(id)) = Times(q, Finals(id)) + 1
                          /\ Times(r, CancelAcks(id)) = Times(q, CancelAcks(id))
<1> DEFINE ts == now' + config.order_update_latency
           v  == EventsOf(reports, ts)
           r  == FoldLeft(Enqueue, q, v)
<1>1. EnqueueReports(q, reports) = r
  BY DEF EnqueueReports, EventsOf
<1>2. ts \in Nat /\ ts >= now'
  BY SMTT(60), ConfigFields
<1> HIDE DEF ts
<1>3. v \in Seq(Later(now'))
  BY <1>2, EventsOfType
<1> HIDE DEF v
<1>4. /\ QueueFrom(r, now') /\ v \in Seq(Event) /\ q \in Seq(Event)
      /\ \A E : Times(r, E) = Times(q, E) + Times(v, E)
  BY <1>3, PushAll DEF QueueFrom
<1> HIDE DEF r
<1>5. \A E : Times(q, E) \in Nat /\ Times(v, E) \in Nat
  BY <1>4, PlacesAreFinite
<1>6. Grows(q, r)
  BY <1>4, <1>5 DEF Grows
<1>7. ASSUME NEW id
      PROVE  /\ Times(v, OrdersFor(id)) = 0 /\ \A s : Times(v, OrdersTo(id, s)) = 0
             /\ Times(v, Acks(id)) = 0 /\ Times(v, CancelAcks(id)) = 0
             /\ (\A i \in 1 .. Len(reports) : ~EndsOrder(reports[i], id)) =>
                  Times(v, Finals(id)) = 0
             /\ OneEnd(reports) /\ (\E i \in 1 .. Len(reports) : EndsOrder(reports[i], id)) =>
                  Times(v, Finals(id)) = 1
  BY ZenonT(60), <1>2, FinalsOfReports DEF v
<1>8. ASSUME NEW id, \A i \in 1 .. Len(reports) : ~EndsOrder(reports[i], id)
      PROVE  SameEvents(q, r, id)
  <2>1. Times(v, Finals(id)) = 0
    BY <1>7, <1>8
  <2>2. \A E : Times(v, E) = 0 => Times(r, E) = Times(q, E) /\ Times(r, E) >= Times(q, E)
    BY <1>4, <1>5
  <2>3. QED
    BY <1>7, <2>1, <2>2 DEF SameEvents
<1>9. ASSUME NEW id, OneEnd(reports), \E i \in 1 .. Len(reports) : EndsOrder(reports[i], id)
      PROVE  /\ Times(r, OrdersFor(id)) = Times(q, OrdersFor(id))
             /\ Times(r, Acks(id)) = Times(q, Acks(id))
             /\ Times(r, Finals(id)) = Times(q, Finals(id)) + 1
             /\ Times(r, CancelAcks(id)) = Times(q, CancelAcks(id))
  <2>1. Times(v, Finals(id)) = 1
    BY <1>7, <1>9
  <2>2. \A E : Times(v, E) = 0 => Times(r, E) = Times(q, E)
    BY <1>4, <1>5
  <2>3. Times(r, Finals(id)) = Times(q, Finals(id)) + 1
    BY <1>4, <2>1
  <2>4. QED
    BY <1>7, <2>2, <2>3
<1>10. QED
  BY <1>1, <1>4, <1>6, <1>8, <1>9

\* The case of one report.
LEMMA OneReportJoins ==
  ASSUME config \in Configs, now' \in Nat, NEW q, QueueFrom(q, now'), NEW r \in ReportRecord
  PROVE  /\ <<r>> \in Seq(ReportRecord) /\ Len(<<r>>) = 1 /\ <<r>>[1] = r
         /\ OneEnd(<<r>>)
         /\ \A id : (\E i \in 1 .. Len(<<r>>) : EndsOrder(<<r>>[i], id)) <=> EndsOrder(r, id)
  BY DEF OneEnd

-----------------------------------------------------------------------------
(***************************************************************************)
(* What a loop keeps of a sequence without repetitions.                    *)
(***************************************************************************)
Distinct(s) == \A i, j \in 1 .. Len(s) : s[i] = s[j] => i = j

Has(s, e) == \E i \in 1 .. Len(s) : s[i] = e

KeepsPlaces(s, T) ==
  /\ \A e : Has(Kept(s, T), e) <=> e \in T /\ Has(s, e)
  /\ Distinct(s) => Distinct(Kept(s, T))

\* What a sequence has after an append.
LEMMA HasAfterAppend ==
  ASSUME NEW E, NEW s \in Seq(E), NEW e \in E
  PROVE  \A x : Has(Append(s, e), x) <=> x = e \/ Has(s, x)
<1>1. Len(s) \in Nat /\ Len(Append(s, e)) = Len(s) + 1
      /\ \A i \in 1 .. Len(s) : Append(s, e)[i] = s[i]
      /\ Append(s, e)[Len(s) + 1] = e
  BY AppendProperties, LenProperties
<1>2. QED
  BY <1>1 DEF Has

\* When an append repeats nothing.
LEMMA DistinctAfterAppend ==
  ASSUME NEW E, NEW s \in Seq(E), NEW e \in E
  PROVE  Distinct(Append(s, e)) <=> Distinct(s) /\ ~Has(s, e)
<1>1. Len(s) \in Nat /\ Len(Append(s, e)) = Len(s) + 1
      /\ \A i \in 1 .. Len(s) : Append(s, e)[i] = s[i]
      /\ Append(s, e)[Len(s) + 1] = e
  BY AppendProperties, LenProperties
<1>2. QED
  BY SMTT(60), <1>1 DEF Has, Distinct

\* A filter keeps what it should, once.
LEMMA KeptPlaces ==
  ASSUME NEW E, NEW T, NEW s \in Seq(E)
  PROVE  KeepsPlaces(s, T)
<1> DEFINE Q == {x \in Seq(E) : KeepsPlaces(x, T)}
<1>1. <<>> \in Q
  <2>1. Kept(<<>>, T) = <<>>
    BY KeptOfEmpty
  <2>2. QED
    BY <2>1 DEF KeepsPlaces, Has, Distinct
<1>2. ASSUME NEW x \in Seq(E), NEW e \in E, x \in Q PROVE Append(x, e) \in Q
  <2> DEFINE k == Kept(x, T)
             n == Append(x, e)
  <2>1. k \in Seq(E \cap T) /\ n \in Seq(E)
    BY KeptType, AppendProperties
  <2>2. Kept(n, T) = IF e \in T THEN Append(k, e) ELSE k
    BY KeptOfAppend
  <2>3. KeepsPlaces(x, T)
    BY <1>2
  <2>4. \A y : Has(n, y) <=> y = e \/ Has(x, y)
    BY HasAfterAppend
  <2>5. Distinct(n) <=> Distinct(x) /\ ~Has(x, e)
    BY DistinctAfterAppend
  <2>6. /\ \A y : Has(k, y) <=> y \in T /\ Has(x, y)
        /\ Distinct(x) => Distinct(k)
    BY <2>3 DEF KeepsPlaces
  <2> HIDE DEF k, n
  <2>7. CASE e \in T
    <3>1. Kept(n, T) = Append(k, e) /\ e \in E \cap T
      BY <2>2, <2>7
    <3>2. \A y : Has(Append(k, e), y) <=> y = e \/ Has(k, y)
      BY <2>1, <3>1, HasAfterAppend
    <3>3. Distinct(Append(k, e)) <=> Distinct(k) /\ ~Has(k, e)
      BY <2>1, <3>1, DistinctAfterAppend
    <3>4. KeepsPlaces(n, T)
      BY <2>4, <2>5, <2>6, <2>7, <3>1, <3>2, <3>3 DEF KeepsPlaces
    <3>5. QED
      BY <2>1, <3>4 DEF n
  <2>8. CASE e \notin T
    <3>1. Kept(n, T) = k
      BY <2>2, <2>8
    <3>2. KeepsPlaces(n, T)
      BY <2>4, <2>5, <2>6, <2>8, <3>1 DEF KeepsPlaces
    <3>3. QED
      BY <2>1, <3>2 DEF n
  <2>9. QED
    BY <2>7, <2>8
<1> HIDE DEF Q
<1>3. Seq(E) \subseteq Q
  BY <1>1, <1>2, Pushes!SeqSetInduction
<1>4. QED
  BY <1>3 DEF Q

-----------------------------------------------------------------------------
(***************************************************************************)
(* The inductive invariant                                                 *)
(***************************************************************************)
\* A tick as the source shows it: not delivered before it happened.
Shown == {k \in TickRecord : k.local = 0 \/ k.local >= k.ts}

SourceInv ==
  source # <<>> => /\ source = <<Head(source)>>
                   /\ Head(source) \in Shown /\ Head(source).ts >= now

GoodMarket(xs) == DOMAIN xs = Symbols /\ \A s \in Symbols : GoodExchange(xs[s])

BooksInv ==
  /\ GoodMarket(exchanges)
  /\ positions \in [Symbols -> Position] /\ guard \in RiskGuard
  /\ truth \in [Symbols -> Prices \cup {NoPrice}]

\* Ticks that reached the strategy by time t.
Reached(ticks, t) == \A i \in DOMAIN ticks : ticks[i].local <= t

SeenInv ==
  /\ market \in [Symbols -> Seq(TickRecord)] /\ \A s \in Symbols : Reached(market[s], now)
  /\ Reached(tick_buffer, now)

EngineInv ==
  /\ config \in Configs /\ now \in Nat
  /\ SourceInv /\ BooksInv /\ SeenInv
  /\ DeskInv(Now, exchanges, now)
  /\ BatchInv

\* What every step does.
Proceeds ==
  /\ EngineInv'
  /\ now' >= now
  /\ guard.killed => guard'.killed
  /\ guard'.killed => DOMAIN route' \subseteq DOMAIN route

-----------------------------------------------------------------------------
\* One exchange changes.
LEMMA OneExchange ==
  ASSUME NEW xs, GoodMarket(xs), NEW s \in Symbols, NEW y, GoodExchange(y)
  PROVE  LET ys == [xs EXCEPT ![s] = y]
         IN  /\ GoodMarket(ys) /\ ys[s] = y
             /\ \A k \in Symbols : k # s => ys[k] = xs[k]
             /\ \A id : /\ id \in Live(y) <=> id \in Live(xs[s])
                        /\ id \in Live(y) => /\ y.orders[id].type = xs[s].orders[id].type
                                             /\ y.orders[id].state = xs[s].orders[id].state
                        => SameStatus(xs, ys, id)
<1> DEFINE ys == [xs EXCEPT ![s] = y]
<1>1. DOMAIN ys = Symbols /\ ys[s] = y /\ \A k \in Symbols : k # s => ys[k] = xs[k]
  BY DEF GoodMarket
<1> HIDE DEF ys
<1>2. GoodMarket(ys)
  BY <1>1 DEF GoodMarket
<1>3. ASSUME NEW id, id \in Live(y) <=> id \in Live(xs[s]),
             id \in Live(y) => /\ y.orders[id].type = xs[s].orders[id].type
                               /\ y.orders[id].state = xs[s].orders[id].state
      PROVE  SameStatus(xs, ys, id)
  <2> SUFFICES ASSUME NEW k \in Symbols
               PROVE  /\ id \in Live(ys[k]) <=> id \in Live(xs[k])
                      /\ id \in Live(xs[k]) =>
                           /\ ys[k].orders[id].type = xs[k].orders[id].type
                           /\ ys[k].orders[id].state = xs[k].orders[id].state
    BY DEF SameStatus
  <2>1. CASE k = s
    BY <1>1, <1>3, <2>1
  <2>2. CASE k # s
    BY <1>1, <2>2
  <2>3. QED
    BY <2>1, <2>2
<1>4. QED
  BY <1>1, <1>2, <1>3 DEF ys

\* Nothing changes if nothing happens.
LEMMA SameStatusItself ==
  ASSUME NEW xs, NEW id
  PROVE  SameStatus(xs, xs, id)
  BY DEF SameStatus

\* What changes is about one order.
LEMMA OneOrderChanges ==
  ASSUME NEW xs, GoodMarket(xs), NEW s \in Symbols, NEW y, GoodExchange(y),
         NEW id,
         \A i : i # id => (i \in Live(y) <=> i \in Live(xs[s])),
         \A i \in Live(xs[s]) : i # id => y.orders[i] = xs[s].orders[i]
  PROVE  /\ GoodMarket([xs EXCEPT ![s] = y])
         /\ \A i : i # id => SameStatus(xs, [xs EXCEPT ![s] = y], i)
<1>1. GoodMarket([xs EXCEPT ![s] = y])
  BY OneExchange
<1>2. ASSUME NEW i, i # id PROVE SameStatus(xs, [xs EXCEPT ![s] = y], i)
  <2>1. /\ i \in Live(y) <=> i \in Live(xs[s])
        /\ i \in Live(y) => /\ y.orders[i].type = xs[s].orders[i].type
                            /\ y.orders[i].state = xs[s].orders[i].state
    BY <1>2
  <2>2. QED
    BY <2>1, OneExchange
<1>3. QED
  BY <1>1, <1>2

(***************************************************************************)
(* The desk a handler leaves: for every order either nothing happened, or  *)
(* it is an order with a route and its life goes on.                       *)
(***************************************************************************)
LEMMA HandlerDesk ==
  ASSUME config \in Configs, DeskInv(Now, exchanges, now),
         NEW t \in Nat, NEW r, QueueFrom(r, t), NEW rt, NEW ys,
         DOMAIN rt \subseteq DOMAIN route, \A id \in DOMAIN rt : rt[id] = route[id],
         \A id \in OrderId :
            \/ /\ Life(r, rt, ys, id)
               /\ id \in DOMAIN route \/ Times(r, Finals(id)) <= Times(queue, Finals(id))
            \/ SameEvents(queue, r, id) /\ SameStatus(exchanges, ys, id) /\ SameRoute(route, rt, id)
  PROVE  DeskInv([Desk(r) EXCEPT !.route = rt], ys, t)
<1> DEFINE d == [Desk(r) EXCEPT !.route = rt]
<1>1. /\ DOMAIN d = {"queue", "route", "next_order_id", "cancels", "seen"}
      /\ d.queue = r /\ d.route = rt /\ d.next_order_id = next_order_id /\ d.seen = seen
  BY DEF Desk
<1>2. /\ QueueFrom(queue, now)
      /\ next_order_id \in OrderId
      /\ DOMAIN seen = 1 .. next_order_id - 1
      /\ DOMAIN route \subseteq 1 .. next_order_id - 1
      /\ \A id \in DOMAIN route : route[id] \in Symbols
      /\ \A id \in OrderId : Life(queue, route, exchanges, id)
      /\ \A id \in OrderId : id >= next_order_id => Times(queue, Finals(id)) = 0
      /\ config.max_open_orders > 0 => Cardinality(DOMAIN route) <= config.max_open_orders
  BY DEF DeskInv, Now, Desk
<1>3. queue \in Seq(Event) /\ r \in Seq(Event)
  BY <1>2 DEF QueueFrom
<1>4. ASSUME NEW id \in OrderId PROVE Life(r, rt, ys, id)
  <2>1. CASE Life(r, rt, ys, id)
    BY <2>1
  <2>2. CASE SameEvents(queue, r, id) /\ SameStatus(exchanges, ys, id) /\ SameRoute(route, rt, id)
    <3>1. Life(queue, route, exchanges, id)
      BY <1>2
    <3>2. QED
      BY <1>3, <2>2, <3>1, LivesOn
  <2>3. QED
    BY <2>1, <2>2
<1>5. ASSUME NEW id \in OrderId, id >= next_order_id PROVE Times(r, Finals(id)) = 0
  <2>1. id \notin DOMAIN route
    BY <1>2, <1>5 DEF OrderId
  <2>2. Times(r, Finals(id)) <= Times(queue, Finals(id)) \/ SameEvents(queue, r, id)
    BY <2>1
  <2>3. Times(r, Finals(id)) \in Nat /\ Times(queue, Finals(id)) = 0
    BY <1>2, <1>3, <1>5, PlacesAreFinite
  <2>4. CASE Times(r, Finals(id)) <= Times(queue, Finals(id))
    BY <2>3, <2>4
  <2>5. CASE SameEvents(queue, r, id)
    BY <2>3, <2>5 DEF SameEvents
  <2>6. QED
    BY <2>2, <2>4, <2>5
<1>6. config.max_open_orders > 0 => Cardinality(DOMAIN rt) <= config.max_open_orders
  <2>1. IsFiniteSet(1 .. next_order_id - 1)
    BY <1>2, FS_Interval DEF OrderId
  <2>2. IsFiniteSet(DOMAIN route)
    BY <1>2, <2>1, FS_Subset
  <2>3. IsFiniteSet(DOMAIN rt) /\ Cardinality(DOMAIN rt) <= Cardinality(DOMAIN route)
    BY <2>2, FS_Subset
  <2>4. Cardinality(DOMAIN rt) \in Nat /\ Cardinality(DOMAIN route) \in Nat
    BY <2>2, <2>3, FS_CardinalityType
  <2>5. CASE config.max_open_orders > 0
    <3>1. Cardinality(DOMAIN route) <= config.max_open_orders
      BY <1>2, <2>5
    <3>2. QED
      BY <2>3, <2>4, <3>1, ConfigFields
  <2>6. QED
    BY <2>5
<1>7. \A id \in DOMAIN rt : rt[id] \in Symbols
  BY <1>2
<1> HIDE DEF d
<1>8. DeskInv(d, ys, t)
  BY <1>1, <1>2, <1>4, <1>5, <1>6, <1>7 DEF DeskInv
<1>9. QED
  BY <1>8 DEF d

\* The case of unchanged routes.
LEMMA HandlerDeskKept ==
  ASSUME config \in Configs, DeskInv(Now, exchanges, now),
         NEW t \in Nat, NEW r, QueueFrom(r, t), NEW ys,
         \A id \in OrderId :
            \/ /\ Life(r, route, ys, id)
               /\ id \in DOMAIN route \/ Times(r, Finals(id)) <= Times(queue, Finals(id))
            \/ SameEvents(queue, r, id) /\ SameStatus(exchanges, ys, id)
  PROVE  DeskInv(Desk(r), ys, t)
<1>1. \A id : SameRoute(route, route, id)
  BY DEF DeskInv, Now, Desk, SameRoute
<1>2. DeskInv([Desk(r) EXCEPT !.route = route], ys, t)
  BY <1>1, HandlerDesk
<1>3. [Desk(r) EXCEPT !.route = route] = Desk(r)
  BY DEF Desk
<1>4. QED
  BY <1>2, <1>3

-----------------------------------------------------------------------------
(***************************************************************************)
(* The pop that starts a handler, and the end of its step.                 *)
(***************************************************************************)
LEMMA Popped ==
  ASSUME EngineInv, NEW kind, PopAs(kind)
  PROVE  /\ config \in Configs /\ config' = config
         /\ queue \in Seq(Event) /\ queue # <<>> /\ Head(queue) \in Event /\ Head(queue).kind = kind
         /\ now' = Head(queue).ts /\ now' \in Nat /\ now \in Nat /\ now' >= now
         /\ Tail(queue) \in Seq(Event) /\ QueueFrom(Tail(queue), now')
         /\ \A E : Times(queue, E) = Times(Tail(queue), E) + (IF Head(queue) \in E THEN 1 ELSE 0)
         /\ \A E : Times(queue, E) \in Nat /\ Times(Tail(queue), E) \in Nat
         /\ SourceInv'
<1>1. /\ config \in Configs /\ now \in Nat /\ SourceInv
      /\ QueueFrom(queue, now)
  BY DEF EngineInv, DeskInv, Now, Desk
<1>2. /\ ~CanIngest /\ queue # <<>> /\ Head(queue).kind = kind
      /\ now' = Head(queue).ts /\ config' = config /\ source' = source
  BY DEF PopAs, Due, feed
<1>3. /\ Head(queue) \in Event /\ Head(queue).ts \in Nat /\ Head(queue).ts >= now
      /\ QueueFrom(Tail(queue), Head(queue).ts)
      /\ \A E : Times(queue, E) = Times(Tail(queue), E) + (IF Head(queue) \in E THEN 1 ELSE 0)
      /\ \A E : Times(queue, E) \in Nat /\ Times(Tail(queue), E) \in Nat
  BY <1>1, <1>2, PopKeeps
<1>4. queue \in Seq(Event) /\ Tail(queue) \in Seq(Event)
  BY <1>1, <1>3 DEF QueueFrom
<1>5. SourceInv'
  <2>1. source # <<>> => /\ source = <<Head(source)>> /\ Head(source) \in Shown
                         /\ ~(Head(source).ts <= Head(queue).ts)
    BY <1>1, <1>2 DEF SourceInv, CanIngest
  <2>2. source # <<>> => Head(source).ts \in Nat
    BY <2>1 DEF Shown, TickRecord
  <2>3. source # <<>> => Head(source).ts >= Head(queue).ts
    BY <1>3, <2>1, <2>2
  <2>4. QED
    BY <1>2, <2>1, <2>3 DEF SourceInv
<1>6. QED
  BY <1>1, <1>2, <1>3, <1>4, <1>5

\* What has reached the strategy stays with it.
LEMMA ReachedLater ==
  ASSUME NEW ticks \in Seq(TickRecord), NEW t \in Nat, NEW u \in Nat, u >= t, Reached(ticks, t)
  PROVE  Reached(ticks, u)
<1>1. \A i \in DOMAIN ticks : ticks[i] \in TickRecord
  <2>1. DOMAIN ticks = 1 .. Len(ticks)
    BY LenProperties
  <2>2. QED
    BY <2>1, ElementOfSeq
<1>2. \A i \in DOMAIN ticks : ticks[i].local \in Nat
  BY <1>1 DEF TickRecord
<1>3. QED
  BY <1>2 DEF Reached

\* The same for all that the strategy has.
LEMMA AllReachedLater ==
  ASSUME EngineInv, now' \in Nat, now' >= now
  PROVE  /\ market \in [Symbols -> Seq(TickRecord)]
         /\ \A s \in Symbols : Reached(market[s], now')
         /\ tick_buffer \in Seq(TickRecord) /\ Reached(tick_buffer, now')
<1>1. /\ now \in Nat /\ market \in [Symbols -> Seq(TickRecord)]
      /\ \A s \in Symbols : Reached(market[s], now)
      /\ Reached(tick_buffer, now) /\ tick_buffer \in Seq(TickRecord)
  BY DEF EngineInv, SeenInv, BatchInv, Buffered
<1>2. ASSUME NEW s \in Symbols PROVE Reached(market[s], now')
  <2>1. market[s] \in Seq(TickRecord) /\ Reached(market[s], now)
    BY <1>1
  <2>2. QED
    BY <1>1, <2>1, ReachedLater
<1>3. Reached(tick_buffer, now')
  BY <1>1, ReachedLater
<1>4. QED
  BY <1>1, <1>2, <1>3

\* A step that pops no timer leaves what is buffered with its deadline.
LEMMA BufferedKept ==
  ASSUME EngineInv, NEW r \in Seq(Event), Grows(Tail(queue), r),
         queue # <<>>, Head(queue).kind # "Timer", NEW w \in BOOLEAN
  PROVE  Buffered(r, tick_buffer, report_buffer, timer, next_timer_id, Woken(w))
<1>1. /\ config \in Configs /\ queue \in Seq(Event)
      /\ Buffered(queue, tick_buffer, report_buffer, timer, next_timer_id, pending_wakeup)
  BY DEF EngineInv, DeskInv, Now, Desk, QueueFrom, BatchInv
<1> DEFINE E == Alarms(timer, Head(tick_buffer).local + LongestBatch)
<1>2. Head(queue) \notin E
  BY DEF Alarms, TimerEvents
<1> HIDE DEF E
<1>3. Tail(queue) \in Seq(Event) /\ Times(queue, E) = Times(Tail(queue), E)
  <2>1. /\ Tail(queue) \in Seq(Event)
        /\ Times(queue, E) = Times(Tail(queue), E) + (IF Head(queue) \in E THEN 1 ELSE 0)
    BY <1>1, TimesOfTail
  <2>2. Times(Tail(queue), E) \in Nat
    BY <2>1, PlacesAreFinite
  <2>3. QED
    BY <1>2, <2>1, <2>2
<1>4. Times(r, E) >= Times(queue, E) /\ Times(r, E) \in Nat /\ Times(queue, E) \in Nat
  BY <1>1, <1>3, PlacesAreFinite DEF Grows
<1>5. Times(queue, E) >= 1 => Times(r, E) >= 1
  BY <1>4
<1>6. config.mode # "Tick" /\ pending_wakeup => Woken(w)
  BY <1>1, ConfigFields DEF Woken
<1>7. QED
  BY <1>1, <1>5, <1>6 DEF Buffered, E

\* A handler's desk, buffers and timer give the step's invariant.
LEMMA StepEnds ==
  ASSUME EngineInv, NEW kind, PopAs(kind), BooksInv',
         market' \in [Symbols -> Seq(TickRecord)], \A s \in Symbols : Reached(market'[s], now'),
         guard.killed => guard'.killed,
         NEW d, DeskInv(d, exchanges', now'),
         guard'.killed => DOMAIN d.route \subseteq DOMAIN route,
         NEW ticks, NEW reports, NEW tmr, NEW w \in BOOLEAN,
         Reached(ticks, now'),
         Buffered(d.queue, ticks, reports, tmr, next_timer_id', Woken(w)),
         EndStep(d, ticks, reports, tmr, w)
  PROVE  Proceeds
<1>1. /\ config \in Configs /\ config' = config /\ now' \in Nat /\ now' >= now /\ SourceInv'
  BY Popped
<1>2. TuningInv /\ pending_wakeup \in BOOLEAN
  BY DEF EngineInv, BatchInv
<1>3. /\ DeskInv(NextDesk, exchanges', now')
      /\ guard'.killed => route' = d.route
      /\ BatchInv'
      /\ tick_buffer' = ticks \/ tick_buffer' = <<>>
  BY <1>1, <1>2, EndStepKeeps
<1>4. DeskInv(Now, exchanges, now)'
  BY <1>1, <1>3, NextDeskIs
<1>5. Reached(tick_buffer', now')
  BY <1>3 DEF Reached
<1>6. SeenInv'
  BY <1>5 DEF SeenInv, Reached
<1>7. EngineInv'
  BY <1>1, <1>3, <1>4, <1>6 DEF EngineInv
<1>8. QED
  BY <1>1, <1>3, <1>7 DEF Proceeds

-----------------------------------------------------------------------------
(***************************************************************************)
(* The handlers that no order hears of                                     *)
(***************************************************************************)
LEMMA QuietDesk ==
  ASSUME EngineInv, NEW kind, PopAs(kind), \A id : ~About(Head(queue), id),
         NEW ys, \A id \in OrderId : SameStatus(exchanges, ys, id),
         NEW r, QueueFrom(r, now'), \A id \in OrderId : SameEvents(Tail(queue), r, id)
  PROVE  DeskInv(Desk(r), ys, now')
<1>1. /\ queue \in Seq(Event) /\ queue # <<>> /\ Tail(queue) \in Seq(Event) /\ now' \in Nat
      /\ config \in Configs
  BY Popped
<1>2. DeskInv(Now, exchanges, now)
  BY DEF EngineInv
<1>3. r \in Seq(Event)
  BY DEF QueueFrom
<1>4. ASSUME NEW id \in OrderId PROVE SameEvents(queue, r, id)
  <2>1. SameEvents(queue, Tail(queue), id)
    BY <1>1, PopSame
  <2>2. SameEvents(Tail(queue), r, id)
    OBVIOUS
  <2>3. QED
    BY <1>1, <1>3, <2>1, <2>2, SameEventsCompose
<1>5. QED
  BY <1>1, <1>2, <1>4, HandlerDeskKept

\* The end of a step that leaves the buffers alone.
LEMMA StepEndsPlainly ==
  ASSUME EngineInv, NEW kind, PopAs(kind), kind # "Timer", BooksInv',
         market' = market, next_timer_id' = next_timer_id,
         guard.killed => guard'.killed,
         NEW d, DeskInv(d, exchanges', now'), Grows(Tail(queue), d.queue),
         guard'.killed => DOMAIN d.route \subseteq DOMAIN route,
         NEW w \in BOOLEAN,
         EndStep(d, tick_buffer, report_buffer, timer, w)
  PROVE  Proceeds
<1>1. /\ now' \in Nat /\ now' >= now /\ queue # <<>> /\ Head(queue).kind # "Timer"
  BY Popped
<1>2. /\ market \in [Symbols -> Seq(TickRecord)] /\ \A s \in Symbols : Reached(market[s], now')
      /\ tick_buffer \in Seq(TickRecord) /\ Reached(tick_buffer, now')
  BY <1>1, AllReachedLater
<1>3. market' \in [Symbols -> Seq(TickRecord)] /\ \A s \in Symbols : Reached(market'[s], now')
  BY <1>2
<1>4. d.queue \in Seq(Event)
  BY DEF DeskInv, QueueFrom
<1>5. Buffered(d.queue, tick_buffer, report_buffer, timer, next_timer_id', Woken(w))
  BY <1>1, <1>4, BufferedKept
<1>6. QED
  BY <1>2, <1>3, <1>5, StepEnds

\* The same after a callback's commands.
LEMMA CallbackEnds ==
  ASSUME EngineInv, NEW kind, PopAs(kind), kind # "Timer", BooksInv',
         market' = market, next_timer_id' = next_timer_id,
         guard.killed => guard'.killed,
         NEW d, DeskInv(d, exchanges', now'), Grows(Tail(queue), d.queue),
         DOMAIN d.route \subseteq DOMAIN route,
         NEW c \in CommandSeqs, NEW ts \in Nat, ts >= now',
         NEW w \in BOOLEAN,
         EndStep(HandleCommands(d, c, ts), tick_buffer, report_buffer, timer, w)
  PROVE  Proceeds
<1>1. /\ config \in Configs /\ now' \in Nat /\ Tail(queue) \in Seq(Event)
  BY Popped
<1> DEFINE y == HandleCommands(d, c, ts)
<1>2. /\ DeskInv(y, exchanges', now')
      /\ Grows(d.queue, y.queue)
      /\ guard'.killed => y.route = d.route
  BY <1>1, HandleCommandsKeep
<1>3. EndStep(y, tick_buffer, report_buffer, timer, w)
  OBVIOUS
<1> HIDE DEF y
<1>4. d.queue \in Seq(Event) /\ y.queue \in Seq(Event)
  BY <1>2 DEF DeskInv, QueueFrom
<1>5. Grows(Tail(queue), y.queue)
  BY <1>1, <1>2, <1>4, GrowsTransitive
<1>6. guard'.killed => DOMAIN y.route \subseteq DOMAIN route
  BY <1>2
<1>7. QED
  BY <1>2, <1>3, <1>5, <1>6, StepEndsPlainly

\* HandleL2Update.
LEMMA L2UpdateProceeds == EngineInv /\ HandleL2Update => Proceeds
<1> SUFFICES ASSUME EngineInv, HandleL2Update PROVE Proceeds
  OBVIOUS
<1> DEFINE u == Head(queue)
           x == exchanges[u.symbol]
           y == ApplyL2Update(x, u.side, u.price, u.qty)
<1>1. /\ PopAs("L2Update")
      /\ exchanges' = [exchanges EXCEPT ![u.symbol] = y]
      /\ UNCHANGED <<positions, guard, truth, market, next_timer_id>>
      /\ EndStep(Desk(Tail(queue)), tick_buffer, report_buffer, timer, FALSE)
  BY DEF HandleL2Update, EndQuietly
<1>2. /\ Head(queue) \in Event /\ u.kind = "L2Update" /\ QueueFrom(Tail(queue), now')
      /\ Tail(queue) \in Seq(Event)
  BY <1>1, Popped
<1>3. /\ u.symbol \in Symbols /\ u.price \in Prices /\ u.qty \in Nat
      /\ \A id : ~About(Head(queue), id)
  BY <1>2 DEF Event, PreloadEvent, TickEvents, Deliveries, OrderEvents, IdEvents, ReportEvents,
              TimerEvents, About
<1> HIDE DEF u
<1>4. BooksInv /\ GoodMarket(exchanges) /\ GoodExchange(x)
  BY <1>3 DEF EngineInv, BooksInv, GoodMarket
<1>5. GoodExchange(y)
  BY <1>3, <1>4, ApplyL2UpdateGood
<1>6. y.orders = x.orders
  BY <1>4, Fields DEF GoodExchange, ApplyL2Update
<1> HIDE DEF y
<1> DEFINE ys == [exchanges EXCEPT ![u.symbol] = y]
<1>7. \A id : /\ id \in Live(y) <=> id \in Live(x)
              /\ id \in Live(y) => /\ y.orders[id].type = x.orders[id].type
                                   /\ y.orders[id].state = x.orders[id].state
  BY <1>6 DEF Live
<1>8. GoodMarket(ys) /\ \A id \in OrderId : SameStatus(exchanges, ys, id)
  BY ZenonT(60), <1>3, <1>4, <1>5, <1>7, OneExchange
<1>9. exchanges' = ys
  BY <1>1
<1> HIDE DEF ys, x
<1>10. BooksInv'
  BY <1>1, <1>4, <1>8, <1>9 DEF BooksInv, GoodMarket
<1>11. DeskInv(Desk(Tail(queue)), exchanges', now')
  BY <1>1, <1>2, <1>3, <1>8, <1>9, QuietDesk, SameEventsItself
<1>12. Grows(Tail(queue), Tail(queue)) /\ Desk(Tail(queue)).queue = Tail(queue)
       /\ Desk(Tail(queue)).route = route
  BY <1>2, GrowsItself DEF Desk
<1>13. guard' = guard /\ market' = market /\ next_timer_id' = next_timer_id
  BY <1>1
<1>14. QED
  BY <1>1, <1>10, <1>11, <1>12, <1>13, StepEndsPlainly

(***************************************************************************)
(* Funding: the position and the guard change, the strategy answers.       *)
(***************************************************************************)
LEMMA MarkIsInt ==
  ASSUME EngineInv, NEW s \in Symbols
  PROVE  MarkPrice(s) \in Int
<1>1. /\ truth[s] \in Prices \cup {NoPrice} /\ GoodExchange(exchanges[s])
  BY DEF EngineInv, BooksInv, GoodMarket
<1> DEFINE b == exchanges[s].book
<1>2. b \in Book
  BY <1>1, Fields DEF GoodExchange
<1>3. NoPrice \in Nat /\ Prices \subseteq Nat
  BY PricesAssumption DEF NoPrice
<1>4. \A S : S \subseteq Prices => AnyOf(S) \in Prices \cup {NoPrice}
  BY DEF AnyOf
<1>5. BestBid(b) \in Prices \cup {NoPrice} /\ BestAsk(b) \in Prices \cup {NoPrice}
  <2>1. Highest(Quoted(b, "Buy")) \subseteq Prices /\ Lowest(Quoted(b, "Sell")) \subseteq Prices
    BY DEF Highest, Lowest, Quoted
  <2>2. QED
    BY <1>4, <2>1 DEF BestBid, BestAsk
<1> DEFINE bid == BestBid(b)
           ask == BestAsk(b)
<1>6. bid \in Nat /\ ask \in Nat
  BY <1>3, <1>5
<1>7. MidPrice(b) = CASE bid = NoPrice -> ask [] ask = NoPrice -> bid [] OTHER -> (bid + ask) \div 2
  BY DEF MidPrice
<1> HIDE DEF bid, ask
<1>8. (bid + ask) \div 2 \in Nat
  BY <1>6
<1>9. MidPrice(b) \in Nat
  BY <1>6, <1>7, <1>8
<1>10. truth[s] \in Nat
  BY <1>1, <1>3
<1>11. MarkPrice(s) = IF truth[s] # NoPrice THEN truth[s] ELSE MidPrice(b)
  BY DEF MarkPrice
<1> HIDE DEF b
<1>12. QED
  BY <1>9, <1>10, <1>11

\* HandleFunding.
LEMMA FundingProceeds == EngineInv /\ HandleFunding => Proceeds
<1> SUFFICES ASSUME EngineInv, HandleFunding PROVE Proceeds
  OBVIOUS
<1> DEFINE e    == Head(queue)
           mark == MarkPrice(e.symbol)
           paid == ApplyFunding(positions[e.symbol], e.rate, mark)
           d    == Desk(Tail(queue))
<1>1. /\ PopAs("Funding")
      /\ UNCHANGED <<exchanges, truth, market, next_timer_id>>
      /\ positions' = [positions EXCEPT ![e.symbol] = paid.position]
      /\ guard' = IF mark = NoPrice THEN guard ELSE UpdatePnl(guard, config, paid.pnl)
      /\ \E c \in Commands(d) :
           EndStep(HandleCommands(d, c, now'), tick_buffer, report_buffer, timer, TRUE)
  BY DEF HandleFunding
<1>2. /\ Head(queue) \in Event /\ e.kind = "Funding" /\ QueueFrom(Tail(queue), now')
      /\ Tail(queue) \in Seq(Event) /\ config \in Configs /\ now' \in Nat
  BY <1>1, Popped
<1>3. /\ e.symbol \in Symbols /\ e.rate \in Int
      /\ \A id : ~About(Head(queue), id)
  BY <1>2 DEF Event, PreloadEvent, TickEvents, Deliveries, OrderEvents, IdEvents, ReportEvents,
              TimerEvents, About
<1> HIDE DEF e
<1>4. mark \in Int
  BY <1>3, MarkIsInt
<1> HIDE DEF mark
<1>5. /\ BooksInv /\ positions \in [Symbols -> Position] /\ guard \in RiskGuard
      /\ positions[e.symbol] \in Position
  BY <1>3 DEF EngineInv, BooksInv
<1>6. paid.position \in Position /\ paid.pnl \in Int
  BY <1>3, <1>4, <1>5, FundingType
<1> HIDE DEF paid
<1>7. guard' \in RiskGuard /\ (guard.killed => guard'.killed)
  BY <1>1, <1>2, <1>5, <1>6, UpdatePnlType, ConfigFields
<1>8. positions' \in [Symbols -> Position]
  BY <1>1, <1>5, <1>6
<1>9. BooksInv'
  BY <1>1, <1>5, <1>7, <1>8 DEF BooksInv, GoodMarket
<1>10. DeskInv(Desk(Tail(queue)), exchanges, now')
  BY <1>1, <1>2, <1>3, QuietDesk, SameEventsItself, SameStatusItself
<1>11. /\ Grows(Tail(queue), d.queue) /\ d.route = route
       /\ DeskInv(d, exchanges', now')
  BY <1>1, <1>2, <1>10, GrowsItself DEF Desk
<1> HIDE DEF d
<1>12. PICK c \in Commands(d) :
         EndStep(HandleCommands(d, c, now'), tick_buffer, report_buffer, timer, TRUE)
  BY <1>1
<1>13. c \in CommandSeqs /\ now' >= now'
  BY <1>2, <1>12 DEF Commands
<1>14. market' = market /\ next_timer_id' = next_timer_id
  BY <1>1
<1>15. QED
  BY <1>1, <1>2, <1>7, <1>9, <1>11, <1>12, <1>13, <1>14, CallbackEnds

(***************************************************************************)
(* The timer's event: the strategy is woken if the timer is still active.  *)
(***************************************************************************)
LEMMA TimerProceeds == EngineInv /\ HandleTimer => Proceeds
<1> SUFFICES ASSUME EngineInv, HandleTimer PROVE Proceeds
  OBVIOUS
<1> DEFINE e     == Head(queue)
           fires == config.mode = "Batch" /\ timer = e.timer_id
           tmr   == IF fires THEN NoTimer ELSE timer
           d     == Desk(Tail(queue))
<1>1. /\ PopAs("Timer") /\ UNCHANGED <<books, market, next_timer_id>>
      /\ EndStep(d, tick_buffer, report_buffer, tmr, fires)
  BY DEF HandleTimer
<1>2. /\ Head(queue) \in Event /\ e.kind = "Timer" /\ QueueFrom(Tail(queue), now')
      /\ Tail(queue) \in Seq(Event) /\ config \in Configs /\ now' \in Nat /\ now' >= now
      /\ \A E : Times(queue, E) = Times(Tail(queue), E) + (IF Head(queue) \in E THEN 1 ELSE 0)
      /\ \A E : Times(queue, E) \in Nat /\ Times(Tail(queue), E) \in Nat
  BY <1>1, Popped
<1>3. \A id : ~About(Head(queue), id)
  BY <1>2 DEF About
<1>4. exchanges' = exchanges /\ positions' = positions /\ guard' = guard /\ truth' = truth
  BY <1>1 DEF books
<1>5. BooksInv'
  BY <1>4 DEF EngineInv, BooksInv, GoodMarket
<1>6. DeskInv(d, exchanges, now')
  BY <1>1, <1>2, <1>3, QuietDesk, SameEventsItself, SameStatusItself
<1>7. d.queue = Tail(queue) /\ d.route = route
  BY DEF Desk
<1>8. /\ market \in [Symbols -> Seq(TickRecord)] /\ \A s \in Symbols : Reached(market[s], now')
      /\ Reached(tick_buffer, now')
  BY <1>2, AllReachedLater
<1>9. Buffered(queue, tick_buffer, report_buffer, timer, next_timer_id, pending_wakeup)
  BY DEF EngineInv, BatchInv
<1>10. config.mode \in {"Tick", "Batch"}
  BY <1>2, ConfigFields
<1> DEFINE E == Alarms(timer, Head(tick_buffer).local + LongestBatch)
<1>11. Buffered(d.queue, tick_buffer, report_buffer, tmr, next_timer_id', Woken(fires))
  <2>1. next_timer_id' = next_timer_id
    BY <1>1
  <2>2. CASE fires
    <3>1. Woken(fires)
      BY <2>2 DEF Woken
    <3>2. tmr = NoTimer /\ \A n \in Nat \ {0} : NoTimer \in 0 .. n - 1
      BY <2>2 DEF NoTimer
    <3>3. QED
      BY <1>9, <2>1, <3>1, <3>2 DEF Buffered
  <2>3. CASE ~fires /\ config.mode = "Batch"
    <3>1. e \notin E
      BY <2>3 DEF Alarms
    <3> HIDE DEF E, d
    <3>2. Times(d.queue, E) = Times(queue, E)
      <4>1. /\ Times(queue, E) = Times(Tail(queue), E) + (IF Head(queue) \in E THEN 1 ELSE 0)
            /\ Times(Tail(queue), E) \in Nat
        BY <1>2
      <4>2. Times(queue, E) = Times(Tail(queue), E)
        BY <3>1, <4>1
      <4>3. QED
        BY <1>7, <4>2
    <3>3. pending_wakeup => Woken(fires)
      BY <2>3 DEF Woken
    <3>4. QED
      BY <1>9, <2>1, <2>3, <3>2, <3>3 DEF Buffered, E
  <2>4. CASE config.mode = "Tick"
    <3>1. ~fires /\ tick_buffer = <<>>
      BY <1>9, <2>4 DEF Buffered
    <3>2. QED
      BY <1>9, <2>1, <3>1 DEF Buffered
  <2>5. QED
    BY <1>10, <2>2, <2>3, <2>4
<1> HIDE DEF d, tmr
<1>12. fires \in BOOLEAN
  OBVIOUS
<1> HIDE DEF fires
<1>13. market' = market
  BY <1>1
<1>14. QED
  BY <1>1, <1>4, <1>5, <1>6, <1>7, <1>8, <1>11, <1>12, <1>13, StepEnds

-----------------------------------------------------------------------------
(***************************************************************************)
(* A tick is delivered: the market view, and the batch it joins or starts. *)
(***************************************************************************)
\* A batch that has a deadline keeps it when a tick joins.
LEMMA JoinsBatch ==
  ASSUME EngineInv, queue # <<>>, Head(queue).kind # "Timer", next_timer_id' = next_timer_id,
         config.mode = "Batch", ~ArmsTimer, NEW tick \in TickRecord
  PROVE  Buffered(Tail(queue), Append(tick_buffer, tick), report_buffer, timer, next_timer_id',
                  Woken(FALSE))
<1>1. queue \in Seq(Event) /\ config \in Configs /\ max_batch \in Nat
  BY DEF EngineInv, DeskInv, Now, Desk, QueueFrom, BatchInv, TuningInv
<1>2. Tail(queue) \in Seq(Event)
  BY <1>1, TimesOfTail
<1>3. Buffered(Tail(queue), tick_buffer, report_buffer, timer, next_timer_id, Woken(FALSE))
  BY <1>2, BufferedKept, GrowsItself
<1>4. tick_buffer \in Seq(TickRecord)
  BY <1>3 DEF Buffered
<1> DEFINE ticks == Append(tick_buffer, tick)
<1>5. ticks \in Seq(TickRecord) /\ ticks # <<>>
      /\ (tick_buffer # <<>> => Head(ticks) = Head(tick_buffer))
  BY <1>4
<1>6. max_batch > 0 => tick_buffer # <<>>
  BY <1>1, <1>3 DEF ArmsTimer, Buffered
<1> HIDE DEF ticks
<1>7. QED
  BY <1>3, <1>5, <1>6 DEF Buffered, ticks

\* The timer of a new batch is due in time.
LEMMA StartsBatch ==
  ASSUME EngineInv, queue # <<>>, next_timer_id' = next_timer_id + 1, ArmsTimer,
         config.mode = "Batch",
         NEW tick \in TickRecord, NEW rest \in Seq(Event)
  PROVE  LET e == TimerEvent(tick.local + max_batch, next_timer_id)
         IN  /\ e \in TimerEvents /\ e.ts >= tick.local
             /\ Buffered(Enqueue(rest, e), Append(tick_buffer, tick), report_buffer,
                         next_timer_id, next_timer_id', Woken(FALSE))
<1> DEFINE e     == TimerEvent(tick.local + max_batch, next_timer_id)
           ticks == Append(tick_buffer, tick)
           n     == next_timer_id
<1>1. /\ config \in Configs /\ queue \in Seq(Event)
      /\ max_batch \in Nat /\ max_batch <= LongestBatch
      /\ Buffered(queue, tick_buffer, report_buffer, timer, n, pending_wakeup)
      /\ tick.local \in Nat /\ LongestBatch \in Nat
  <2>1. config \in Configs
    BY DEF EngineInv
  <2>2. LongestBatch \in Nat
    BY <2>1, LongestBatchIs
  <2>3. QED
    BY <2>1, <2>2 DEF EngineInv, DeskInv, Now, Desk, QueueFrom, BatchInv, TuningInv, TickRecord
<1>2. /\ n \in Nat \ {0} /\ tick_buffer \in Seq(TickRecord) /\ report_buffer \in Seq(ReportRecord)
      /\ timer = NoTimer /\ max_batch > 0
  BY <1>1 DEF Buffered, ArmsTimer
<1>3. e \in TimerEvents /\ e.ts = tick.local + max_batch /\ e.timer_id = n
  BY <1>1, <1>2 DEF TimerEvents, TimerEvent
<1>4. ticks \in Seq(TickRecord) /\ ticks # <<>>
      /\ (tick_buffer = <<>> => Head(ticks) = tick)
  BY SMTT(60), <1>2
<1>5. n \in 0 .. (n + 1) - 1 /\ n + 1 \in Nat \ {0}
  BY <1>2
<1> HIDE DEF e, ticks
<1>6. Woken(FALSE) \/ Times(Enqueue(rest, e), Alarms(n, Head(ticks).local + LongestBatch)) >= 1
  <2>1. CASE tick_buffer = <<>>
    <3> DEFINE E == Alarms(n, tick.local + LongestBatch)
    <3>1. e.ts <= tick.local + LongestBatch
      BY <1>1, <1>3
    <3>2. e \in E
      BY <1>3, <3>1 DEF Alarms
    <3>3. e \in Event
      BY <1>3 DEF Event
    <3> HIDE DEF E
    <3>4. Times(Enqueue(rest, e), E) = Times(rest, E) + 1 /\ Times(rest, E) \in Nat
      BY <3>2, <3>3, TimesAfterEnqueue, PlacesAreFinite
    <3>5. Times(Enqueue(rest, e), E) >= 1
      BY <3>4
    <3>6. QED
      BY <1>4, <2>1, <3>5 DEF E
  <2>2. CASE tick_buffer # <<>>
    <3> DEFINE E == Alarms(timer, Head(tick_buffer).local + LongestBatch)
    <3>1. E = {}
      BY <1>2 DEF Alarms, TimerEvents, NoTimer
    <3> HIDE DEF E
    <3>2. Times(queue, E) = 0
      BY <1>1, <3>1, NoTimes
    <3>3. pending_wakeup
      BY <1>1, <1>2, <2>2, <3>2 DEF Buffered, E
    <3>4. QED
      BY <3>3 DEF Woken
  <2>3. QED
    BY <2>1, <2>2
<1>7. e.ts >= tick.local
  BY <1>1, <1>3
<1>8. Buffered(Enqueue(rest, e), ticks, report_buffer, n, next_timer_id', Woken(FALSE))
  BY <1>2, <1>4, <1>5, <1>6 DEF Buffered
<1>9. QED
  BY <1>3, <1>7, <1>8 DEF e, ticks

\* HandleTickDelivery.
LEMMA TickDeliveryProceeds == EngineInv /\ HandleTickDelivery => Proceeds
<1> SUFFICES ASSUME EngineInv, HandleTickDelivery PROVE Proceeds
  OBVIOUS
<1> DEFINE tick == Head(queue).tick
           rest == Tail(queue)
           late == TimerEvent(tick.local + max_batch, next_timer_id)
<1>1. PopAs("TickDelivery") /\ market' = [market EXCEPT ![tick.symbol] = <<tick>>]
      /\ UNCHANGED books
  BY DEF HandleTickDelivery
<1>2. \/ /\ config.mode = "Tick"
         /\ \E c \in Commands(Desk(rest)) :
              EndStep(HandleCommands(Desk(rest), c, tick.local),
                      tick_buffer, report_buffer, timer, FALSE)
         /\ next_timer_id' = next_timer_id
      \/ /\ config.mode = "Batch" /\ ArmsTimer
         /\ next_timer_id' = next_timer_id + 1
         /\ EndStep(Desk(Enqueue(rest, late)),
                    Append(tick_buffer, tick), report_buffer, next_timer_id, FALSE)
      \/ /\ config.mode = "Batch" /\ ~ArmsTimer
         /\ EndStep(Desk(rest), Append(tick_buffer, tick), report_buffer, timer, FALSE)
         /\ next_timer_id' = next_timer_id
  BY DEF HandleTickDelivery
<1>3. /\ Head(queue) \in Event /\ Head(queue).kind = "TickDelivery" /\ queue # <<>>
      /\ rest \in Seq(Event) /\ QueueFrom(rest, now')
      /\ config \in Configs /\ now' \in Nat /\ now' >= now /\ now' = Head(queue).ts
  BY <1>1, Popped
<1>4. /\ tick \in TickRecord /\ tick.local = now' /\ tick.symbol \in Symbols
      /\ \A id : ~About(Head(queue), id)
  BY <1>3 DEF Event, PreloadEvent, TickEvents, Deliveries, OrderEvents, IdEvents, ReportEvents,
              TimerEvents, About, TickRecord
<1> HIDE DEF tick, rest, late
<1>5. /\ market \in [Symbols -> Seq(TickRecord)] /\ \A s \in Symbols : Reached(market[s], now')
      /\ tick_buffer \in Seq(TickRecord) /\ Reached(tick_buffer, now')
  BY <1>3, AllReachedLater
<1>6. /\ exchanges' = exchanges /\ BooksInv' /\ guard' = guard
  BY <1>1 DEF books, EngineInv, BooksInv, GoodMarket
<1>7. <<tick>> \in Seq(TickRecord) /\ Reached(<<tick>>, now')
  BY <1>3, <1>4 DEF Reached
<1>8. market' \in [Symbols -> Seq(TickRecord)] /\ \A s \in Symbols : Reached(market'[s], now')
  BY <1>1, <1>4, <1>5, <1>7
<1>9. Reached(Append(tick_buffer, tick), now')
  <2>1. /\ Len(tick_buffer) \in Nat /\ DOMAIN tick_buffer = 1 .. Len(tick_buffer)
        /\ DOMAIN Append(tick_buffer, tick) = 1 .. Len(tick_buffer) + 1
        /\ \A i \in 1 .. Len(tick_buffer) : Append(tick_buffer, tick)[i] = tick_buffer[i]
        /\ Append(tick_buffer, tick)[Len(tick_buffer) + 1] = tick
    BY <1>4, <1>5, AppendProperties, LenProperties
  <2>2. QED
    BY <1>3, <1>4, <1>5, <2>1 DEF Reached
<1>10. DeskInv(Desk(rest), exchanges', now')
  BY <1>1, <1>3, <1>4, <1>6, QuietDesk, SameEventsItself, SameStatusItself DEF rest
<1>11. CASE config.mode = "Tick" /\ next_timer_id' = next_timer_id
            /\ \E c \in Commands(Desk(rest)) :
                 EndStep(HandleCommands(Desk(rest), c, tick.local),
                         tick_buffer, report_buffer, timer, FALSE)
  <2>1. PICK c \in Commands(Desk(rest)) :
          EndStep(HandleCommands(Desk(rest), c, tick.local),
                  tick_buffer, report_buffer, timer, FALSE)
    BY <1>11
  <2> DEFINE d == Desk(rest)
             y == HandleCommands(d, c, tick.local)
  <2>2. c \in CommandSeqs /\ tick.local \in Nat /\ tick.local >= now'
    BY <1>3, <1>4, <2>1 DEF Commands
  <2>3. d.queue = rest /\ d.route = route
    BY DEF Desk
  <2>4. DeskInv(d, exchanges', now')
    BY <1>10
  <2>5. EndStep(y, tick_buffer, report_buffer, timer, FALSE)
    BY <2>1
  <2> HIDE DEF d
  <2>6. /\ DeskInv(y, exchanges', now') /\ Grows(d.queue, y.queue)
        /\ guard'.killed => y.route = d.route
    BY <1>3, <2>2, <2>4, HandleCommandsKeep
  <2> HIDE DEF y
  <2>7. y.queue \in Seq(Event)
    BY <2>6 DEF DeskInv, QueueFrom
  <2>8. Buffered(y.queue, tick_buffer, report_buffer, timer, next_timer_id', Woken(FALSE))
    BY <1>3, <1>11, <2>3, <2>6, <2>7, BufferedKept DEF rest
  <2>9. guard'.killed => DOMAIN y.route \subseteq DOMAIN route
    BY <2>3, <2>6
  <2>10. QED
    BY <1>1, <1>5, <1>6, <1>8, <2>5, <2>6, <2>8, <2>9, StepEnds
<1>12. CASE config.mode = "Batch" /\ ArmsTimer /\ next_timer_id' = next_timer_id + 1
            /\ EndStep(Desk(Enqueue(rest, late)),
                       Append(tick_buffer, tick), report_buffer, next_timer_id, FALSE)
  <2>1. /\ late \in TimerEvents /\ late.ts >= tick.local
        /\ Buffered(Enqueue(rest, late), Append(tick_buffer, tick), report_buffer,
                    next_timer_id, next_timer_id', Woken(FALSE))
    BY <1>3, <1>4, <1>12, StartsBatch DEF late
  <2>2. late \in Event /\ late.kind = "Timer" /\ late \in Later(now') /\ \A id : ~About(late, id)
    BY <1>4, <2>1 DEF TimerEvents, Event, Later, About
  <2> DEFINE r == Enqueue(rest, late)
             d == Desk(r)
  <2>3. QueueFrom(r, now')
    BY <1>3, <2>2, PushKeeps
  <2>4. \A id : SameEvents(rest, r, id)
    BY <1>3, <2>2, PushSame
  <2> HIDE DEF r
  <2>5. DeskInv(d, exchanges', now')
    BY <1>1, <1>4, <1>6, <2>3, <2>4, QuietDesk, SameStatusItself DEF rest
  <2>6. d.queue = r /\ d.route = route
    BY DEF Desk
  <2>7. EndStep(d, Append(tick_buffer, tick), report_buffer, next_timer_id, FALSE)
    BY <1>12 DEF r
  <2>8. Buffered(d.queue, Append(tick_buffer, tick), report_buffer,
                 next_timer_id, next_timer_id', Woken(FALSE))
    BY <2>1, <2>6 DEF r
  <2> HIDE DEF d
  <2>9. QED
    BY <1>1, <1>6, <1>8, <1>9, <2>5, <2>6, <2>7, <2>8, StepEnds
<1>13. CASE config.mode = "Batch" /\ ~ArmsTimer /\ next_timer_id' = next_timer_id
            /\ EndStep(Desk(rest), Append(tick_buffer, tick), report_buffer, timer, FALSE)
  <2> DEFINE d == Desk(rest)
  <2>1. d.queue = rest /\ d.route = route
    BY DEF Desk
  <2>2. Buffered(d.queue, Append(tick_buffer, tick), report_buffer, timer, next_timer_id',
                 Woken(FALSE))
    BY <1>3, <1>4, <1>13, <2>1, JoinsBatch DEF rest
  <2>3. EndStep(d, Append(tick_buffer, tick), report_buffer, timer, FALSE)
    BY <1>13
  <2>4. DeskInv(d, exchanges', now')
    BY <1>10
  <2> HIDE DEF d
  <2>5. QED
    BY <1>1, <1>6, <1>8, <1>9, <2>1, <2>2, <2>3, <2>4, StepEnds
<1>14. QED
  BY <1>2, <1>11, <1>12, <1>13

-----------------------------------------------------------------------------
(***************************************************************************)
(* A tick is taken from the source.                                        *)
(***************************************************************************)
LEMMA UpcomingIsShown ==
  ASSUME NEW last \in Nat, NEW n, NEW s \in Upcoming(last, n), s # <<>>
  PROVE  s = <<Head(s)>> /\ Head(s) \in Shown /\ Head(s).ts >= last
<1>1. PICK f \in FeedStep : s = <<TickAfter(f, last)>>
  BY EngineAssumption DEF Upcoming
<1> DEFINE k == TickAfter(f, last)
<1>2. /\ f.gap \in Nat /\ f.delay \in Nat \cup {NoDelay} /\ f.symbol \in Symbols /\ f.side \in Side
      /\ f.price \in Prices /\ f.qty \in Nat
  BY DEF FeedStep
<1>3. /\ last + f.gap \in Nat /\ last + f.gap >= last
      /\ f.delay # NoDelay => last + f.gap + f.delay \in Nat /\ last + f.gap + f.delay >= last + f.gap
  BY SMTT(60), <1>2
<1>4. /\ k \in TickRecord /\ k.ts = last + f.gap
      /\ k.local = 0 \/ k.local >= k.ts
  BY <1>2, <1>3 DEF TickAfter, TickRecord
<1> HIDE DEF k
<1>5. s = <<k>>
  BY <1>1 DEF k
<1>6. Head(s) = k
  BY <1>5
<1>7. QED
  BY <1>3, <1>4, <1>5, <1>6 DEF Shown

\* Ingest: the tick joins with its delivery behind it, and the clock has not passed it.
LEMMA IngestProceeds == EngineInv /\ Ingest => Proceeds
<1> SUFFICES ASSUME EngineInv, Ingest PROVE Proceeds
  OBVIOUS
<1> DEFINE tick == Head(source)
           ts   == DeliveryTs(tick)
           a    == TickEvent(tick.ts, "Tick", tick)
           b    == TickEvent(ts, "TickDelivery", [tick EXCEPT !.local = ts])
           r    == Enqueue(Enqueue(queue, a), b)
<1>1. /\ source # <<>>
      /\ queue' = r /\ source' \in Upcoming(tick.ts, ingested + 1)
      /\ UNCHANGED <<config, now, route, next_order_id, cancels, seen, books, market, batching>>
  BY DEF Ingest, CanIngest
<1>2. /\ config \in Configs /\ now \in Nat /\ DeskInv(Now, exchanges, now)
      /\ tick \in Shown /\ tick.ts >= now
      /\ QueueFrom(queue, now) /\ queue \in Seq(Event)
  BY <1>1 DEF EngineInv, SourceInv, DeskInv, Now, Desk, QueueFrom
<1>3. tick.ts \in Nat /\ tick.local \in Nat /\ tick \in TickRecord
      /\ (tick.local = 0 \/ tick.local >= tick.ts)
  BY <1>2 DEF Shown, TickRecord
<1>4. ts \in Nat /\ ts >= tick.ts
  BY SMTT(60), <1>2, <1>3, ConfigFields DEF DeliveryTs
<1> HIDE DEF tick, ts
<1>5. a \in TickEvents /\ a.ts = tick.ts /\ a.tick = tick /\ a.kind = "Tick"
  BY <1>3 DEF TickEvent, TickEvents
<1>6. b \in Deliveries /\ b.ts = ts /\ b.kind = "TickDelivery" /\ b.tick = [tick EXCEPT !.local = ts]
  BY <1>3, <1>4 DEF TickEvent, Deliveries, TickRecord
<1> HIDE DEF a, b
<1>7. Delivers(b, a) /\ a.ts >= now /\ b.ts >= a.ts
  BY <1>2, <1>4, <1>5, <1>6 DEF Delivers
<1>8. a \in Event /\ b \in Event /\ \A id : ~About(a, id) /\ ~About(b, id)
  BY <1>5, <1>6 DEF Event, About
<1>9. Enqueue(queue, a) \in Seq(Event) /\ QueueFrom(r, now)
  BY <1>2, <1>5, <1>6, <1>7, IngestKeeps
<1>10. r \in Seq(Event)
  BY <1>9 DEF QueueFrom
<1>11. ASSUME NEW id \in OrderId PROVE SameEvents(queue, r, id)
  <2>1. SameEvents(queue, Enqueue(queue, a), id) /\ SameEvents(Enqueue(queue, a), r, id)
    BY <1>2, <1>8, <1>9, PushSame
  <2>2. QED
    BY <1>2, <1>9, <1>10, <2>1, SameEventsCompose
<1>12. Grows(queue, r)
  <2>1. Grows(queue, Enqueue(queue, a)) /\ Grows(Enqueue(queue, a), r)
    BY <1>2, <1>8, <1>9, PushGrows
  <2>2. QED
    BY <1>2, <1>9, <1>10, <2>1, GrowsTransitive
<1> HIDE DEF r
<1>13. DeskInv(Desk(r), exchanges, now)
  BY <1>2, <1>9, <1>11, HandlerDeskKept, SameStatusItself
<1>14. /\ config' = config /\ now' = now /\ exchanges' = exchanges /\ positions' = positions
       /\ guard' = guard /\ truth' = truth /\ market' = market /\ route' = route
       /\ next_order_id' = next_order_id /\ cancels' = cancels /\ seen' = seen
       /\ tick_buffer' = tick_buffer /\ report_buffer' = report_buffer /\ timer' = timer
       /\ next_timer_id' = next_timer_id /\ pending_wakeup' = pending_wakeup
       /\ tuner' = tuner /\ max_batch' = max_batch
  BY <1>1 DEF books, batching, tuning
<1>15. NextDesk = Desk(r)
  BY <1>1, <1>14 DEF NextDesk, Desk
<1>16. DeskInv(Now, exchanges, now)'
  BY <1>13, <1>14, <1>15, NextDeskIs
<1>17. SourceInv'
  <2>1. tick.ts \in Nat /\ source' \in Upcoming(tick.ts, ingested + 1)
    BY <1>1, <1>3
  <2>2. source' # <<>> => /\ source' = <<Head(source')>> /\ Head(source') \in Shown
                          /\ Head(source').ts >= tick.ts
    BY <2>1, UpcomingIsShown
  <2>3. source' # <<>> => Head(source').ts \in Nat
    BY <2>2 DEF Shown, TickRecord
  <2>4. source' # <<>> => Head(source').ts >= now
    BY <1>2, <1>3, <2>2, <2>3
  <2>5. QED
    BY <1>14, <2>2, <2>4 DEF SourceInv
<1>18. BooksInv' /\ SeenInv'
  BY <1>14 DEF EngineInv, BooksInv, GoodMarket, SeenInv, Reached
<1>19. BatchInv'
  <2>1. /\ TuningInv /\ pending_wakeup \in BOOLEAN
        /\ Buffered(queue, tick_buffer, report_buffer, timer, next_timer_id, pending_wakeup)
    BY DEF EngineInv, BatchInv
  <2>2. Buffered(r, tick_buffer, report_buffer, timer, next_timer_id, pending_wakeup)
    BY <1>2, <1>10, <1>12, <2>1, BufferedGrows
  <2>3. queue' = r
    BY <1>1
  <2>4. TuningInv'
    BY <1>14, <2>1 DEF TuningInv, LongestBatch
  <2>5. Buffered(queue, tick_buffer, report_buffer, timer, next_timer_id, pending_wakeup)'
    BY <1>14, <2>2, <2>3 DEF Buffered, Alarms, LongestBatch
  <2>6. QED
    BY <1>14, <2>1, <2>4, <2>5 DEF BatchInv
<1>20. EngineInv'
  BY <1>2, <1>14, <1>16, <1>17, <1>18, <1>19 DEF EngineInv
<1>21. QED
  BY <1>2, <1>14, <1>20 DEF Proceeds

-----------------------------------------------------------------------------
(***************************************************************************)
(* The flush that run() makes when nothing is left.                        *)
(***************************************************************************)
LEMMA FinalFlushProceeds == EngineInv /\ FinalFlush => Proceeds
<1> SUFFICES ASSUME EngineInv, FinalFlush PROVE Proceeds
  OBVIOUS
<1>1. /\ UNCHANGED <<config, feed, now, books, market, next_timer_id, pending_wakeup>>
      /\ FlushStrategy(Now, tick_buffer, report_buffer, timer)
  BY DEF FinalFlush, Now
<1>2. /\ config' = config /\ source' = source /\ now' = now /\ exchanges' = exchanges
      /\ positions' = positions /\ guard' = guard /\ truth' = truth /\ market' = market
      /\ next_timer_id' = next_timer_id /\ pending_wakeup' = pending_wakeup
  BY <1>1 DEF feed, books
<1>3. /\ config \in Configs /\ now \in Nat /\ TuningInv /\ DeskInv(Now, exchanges, now)
      /\ pending_wakeup \in BOOLEAN
      /\ Buffered(queue, tick_buffer, report_buffer, timer, next_timer_id, pending_wakeup)
  BY DEF EngineInv, BatchInv
<1>4. /\ report_buffer \in Seq(ReportRecord) /\ next_timer_id \in Nat \ {0}
      /\ timer # NoTimer => tick_buffer # <<>>
  BY <1>3 DEF Buffered
<1>5. DeskInv(Now, exchanges', now') /\ now' \in Nat
  BY <1>2, <1>3
<1> DEFINE d == Now
<1>6. d.route = route
  BY DEF Now, Desk
<1> HIDE DEF d
<1>7. /\ DeskInv(NextDesk, exchanges', now')
      /\ guard'.killed => route' = d.route
      /\ tick_buffer' = <<>> /\ report_buffer' = <<>>
      /\ timer' = NoTimer \/ (timer' = timer /\ tick_buffer = <<>>)
      /\ TuningInv'
  BY <1>1, <1>2, <1>3, <1>4, <1>5, FlushKeeps DEF d
<1>8. DeskInv(Now, exchanges, now)'
  BY <1>2, <1>7, NextDeskIs
<1>9. timer' = NoTimer
  BY <1>4, <1>7
<1>10. Buffered(queue, tick_buffer, report_buffer, timer, next_timer_id, pending_wakeup)'
  <2>1. /\ tick_buffer' = <<>> /\ tick_buffer' \in Seq(TickRecord)
        /\ report_buffer' \in Seq(ReportRecord) /\ next_timer_id' \in Nat \ {0}
    BY <1>2, <1>4, <1>7, EmptySeq
  <2>2. timer' \in 0 .. next_timer_id' - 1
    <3>1. \A n \in Nat \ {0} : 0 \in 0 .. n - 1
      OBVIOUS
    <3>2. timer' = 0
      BY <1>9 DEF NoTimer
    <3>3. QED
      BY <2>1, <3>1, <3>2
  <2>3. QED
    BY <1>9, <2>1, <2>2 DEF Buffered
<1>11. BatchInv'
  BY <1>2, <1>3, <1>7, <1>10 DEF BatchInv
<1>12. SourceInv' /\ BooksInv'
  BY <1>2 DEF EngineInv, SourceInv, BooksInv, GoodMarket
<1>13. SeenInv'
  BY <1>2, <1>7 DEF EngineInv, SeenInv, Reached
<1>14. EngineInv'
  BY <1>2, <1>3, <1>8, <1>11, <1>12, <1>13 DEF EngineInv
<1>15. QED
  BY <1>2, <1>3, <1>6, <1>7, <1>14 DEF Proceeds

\* run() has returned; nothing changes any more.
LEMMA StutterProceeds == EngineInv /\ UNCHANGED vars => Proceeds
<1> SUFFICES ASSUME EngineInv, UNCHANGED vars PROVE Proceeds
  OBVIOUS
<1>1. /\ config' = config /\ source' = source /\ now' = now /\ exchanges' = exchanges
      /\ positions' = positions /\ guard' = guard /\ truth' = truth /\ market' = market
      /\ queue' = queue /\ route' = route
      /\ next_order_id' = next_order_id /\ cancels' = cancels /\ seen' = seen
      /\ tick_buffer' = tick_buffer /\ report_buffer' = report_buffer /\ timer' = timer
      /\ next_timer_id' = next_timer_id /\ pending_wakeup' = pending_wakeup
      /\ tuner' = tuner /\ max_batch' = max_batch
  BY DEF vars, feed, desk, books, batching, tuning
<1>2. SourceInv' /\ BooksInv' /\ SeenInv'
  BY <1>1 DEF EngineInv, SourceInv, BooksInv, GoodMarket, SeenInv, Reached
<1>3. DeskInv(Now, exchanges, now)'
  <2>1. NextDesk = Now
    BY <1>1 DEF NextDesk, Now, Desk
  <2>2. DeskInv(Now, exchanges, now)
    BY DEF EngineInv
  <2>3. QED
    BY <1>1, <2>1, <2>2, NextDeskIs
<1>4. BatchInv'
  <2>1. TuningInv' /\ pending_wakeup' \in BOOLEAN
    BY <1>1 DEF EngineInv, BatchInv, TuningInv, LongestBatch
  <2>2. Buffered(queue, tick_buffer, report_buffer, timer, next_timer_id, pending_wakeup)'
    BY <1>1 DEF EngineInv, BatchInv, Buffered, Alarms, LongestBatch
  <2>3. QED
    BY <2>1, <2>2 DEF BatchInv
<1>5. EngineInv'
  BY <1>1, <1>2, <1>3, <1>4 DEF EngineInv
<1>6. now' >= now
  BY <1>1 DEF EngineInv
<1>7. QED
  BY <1>1, <1>5, <1>6 DEF Proceeds

-----------------------------------------------------------------------------
(***************************************************************************)
(* The handlers about one order                                            *)
(***************************************************************************)
LEMMA Standing ==
  ASSUME EngineInv
  PROVE  /\ config \in Configs /\ queue \in Seq(Event) /\ BooksInv /\ GoodMarket(exchanges)
         /\ \A s \in Symbols : GoodExchange(exchanges[s]) /\ WellTyped(exchanges[s])
         /\ \A id \in DOMAIN route : id \in OrderId /\ route[id] \in Symbols
         /\ \A id \in OrderId : Life(queue, route, exchanges, id)
  BY DEF EngineInv, DeskInv, Now, Desk, QueueFrom, BooksInv, GoodMarket, GoodExchange, OrderId

\* A live order is at the last point of its life, in the exchange of its route.
LEMMA LiveIsPlaced ==
  ASSUME EngineInv, NEW s \in Symbols, NEW id \in Live(exchanges[s])
  PROVE  /\ id \in OrderId /\ id \in DOMAIN route /\ route[id] = s
         /\ Placed(queue, route, exchanges, id)
<1>1. id \in OrderId
  BY Standing DEF WellTyped
<1>2. Life(queue, route, exchanges, id)
  BY <1>1, Standing
<1>3. Placed(queue, route, exchanges, id)
  BY <1>2 DEF Life, Gone, Sent
<1>4. QED
  BY <1>1, <1>3 DEF Placed

\* An order that is placed and one that is not, by what waits in the queue.
LEMMA AckMeansPlaced ==
  ASSUME EngineInv, NEW id \in OrderId,
         Times(queue, Acks(id)) >= 1 \/ (id \in DOMAIN route /\ Times(queue, Finals(id)) >= 1)
  PROVE  Placed(queue, route, exchanges, id)
<1>1. Life(queue, route, exchanges, id)
  BY Standing
<1>2. QED
  BY <1>1 DEF Life, Gone, Sent

\* The desk when one order's life goes on and the others' is untouched.
LEMMA OneOrderDesk ==
  ASSUME EngineInv, NEW kind, PopAs(kind), NEW id \in OrderId,
         \A i \in OrderId : i # id => ~About(Head(queue), i),
         NEW rt, DOMAIN rt \subseteq DOMAIN route, \A i \in DOMAIN rt : rt[i] = route[i],
         \A i \in OrderId : i # id => (i \in DOMAIN rt <=> i \in DOMAIN route),
         NEW ys, \A i \in OrderId : i # id => SameStatus(exchanges, ys, i),
         NEW r, QueueFrom(r, now'), \A i \in OrderId : i # id => SameEvents(Tail(queue), r, i),
         Life(r, rt, ys, id),
         id \in DOMAIN route \/ Times(r, Finals(id)) <= Times(queue, Finals(id))
  PROVE  DeskInv([Desk(r) EXCEPT !.route = rt], ys, now')
<1>1. /\ queue \in Seq(Event) /\ queue # <<>> /\ Tail(queue) \in Seq(Event) /\ now' \in Nat
      /\ config \in Configs
  BY Popped
<1>2. DeskInv(Now, exchanges, now)
  BY DEF EngineInv
<1>3. r \in Seq(Event)
  BY DEF QueueFrom
<1>4. ASSUME NEW i \in OrderId, i # id
      PROVE  SameEvents(queue, r, i) /\ SameStatus(exchanges, ys, i) /\ SameRoute(route, rt, i)
  <2>1. SameEvents(queue, Tail(queue), i)
    BY <1>1, <1>4, PopSame
  <2>2. SameEvents(Tail(queue), r, i)
    BY <1>4
  <2>3. SameEvents(queue, r, i)
    BY <1>1, <1>3, <2>1, <2>2, SameEventsCompose
  <2>4. SameRoute(route, rt, i)
    BY <1>4, Standing DEF SameRoute
  <2>5. QED
    BY <1>4, <2>3, <2>4
<1>5. \A i \in OrderId :
        \/ /\ Life(r, rt, ys, i)
           /\ i \in DOMAIN route \/ Times(r, Finals(i)) <= Times(queue, Finals(i))
        \/ SameEvents(queue, r, i) /\ SameStatus(exchanges, ys, i) /\ SameRoute(route, rt, i)
  BY <1>4
<1>6. QED
  BY <1>1, <1>2, <1>5, HandlerDesk

\* The case of unchanged routes.
LEMMA OneOrderDeskKept ==
  ASSUME EngineInv, NEW kind, PopAs(kind), NEW id \in OrderId,
         \A i \in OrderId : i # id => ~About(Head(queue), i),
         NEW ys, \A i \in OrderId : i # id => SameStatus(exchanges, ys, i),
         NEW r, QueueFrom(r, now'), \A i \in OrderId : i # id => SameEvents(Tail(queue), r, i),
         Life(r, route, ys, id),
         id \in DOMAIN route \/ Times(r, Finals(id)) <= Times(queue, Finals(id))
  PROVE  DeskInv(Desk(r), ys, now')
<1>1. DeskInv([Desk(r) EXCEPT !.route = route], ys, now')
  BY OneOrderDesk
<1>2. [Desk(r) EXCEPT !.route = route] = Desk(r)
  BY DEF Desk
<1>3. QED
  BY <1>1, <1>2

\* A latency leads to a time that is not in the past.
LEMMA SumLater == \A a \in Nat, b \in Nat : a + b \in Nat /\ a + b >= a
  OBVIOUS

\* What a handler pushes about one order leaves the others alone.
LEMMA IdPushed ==
  ASSUME now' \in Nat, NEW q, QueueFrom(q, now'), NEW id \in OrderId, NEW dt \in OrderLatencies,
         NEW kind \in {"OrderAck", "OrderCancelAck"}
  PROVE  LET e == IdEvent(now' + dt, kind, id)
             r == Enqueue(q, e)
         IN  /\ e \in IdEvents /\ e \in Event /\ e.kind = kind /\ e.id = id
             /\ QueueFrom(r, now') /\ Grows(q, r)
             /\ \A i : i # id => SameEvents(q, r, i)
             /\ \A E : Times(r, E) = Times(q, E) + (IF e \in E THEN 1 ELSE 0)
<1> DEFINE e == IdEvent(now' + dt, kind, id)
           r == Enqueue(q, e)
<1>1. now' + dt \in Nat /\ now' + dt >= now'
  <2>1. dt \in Nat
    BY EngineAssumption
  <2>2. now' \in Nat
    OBVIOUS
  <2>3. QED
    BY <2>1, <2>2, SumLater
<1>2. e \in IdEvents /\ e.kind = kind /\ e.id = id /\ e.ts >= now'
  BY <1>1 DEF IdEvent, IdEvents
<1> HIDE DEF e
<1>3. e \in Event /\ e \in Later(now') /\ \A i : i # id => ~About(e, i)
  BY <1>2 DEF Event, Later, About
<1>4. q \in Seq(Event)
  BY DEF QueueFrom
<1>5. QueueFrom(r, now')
  BY <1>3, PushKeeps
<1>6. Grows(q, r)
  BY <1>3, <1>4, PushGrows
<1>7. \A i : i # id => SameEvents(q, r, i)
  BY <1>3, <1>4, PushSame
<1>8. \A E : Times(r, E) = Times(q, E) + (IF e \in E THEN 1 ELSE 0)
  BY <1>3, <1>4, TimesAfterEnqueue
<1>9. QED
  BY <1>2, <1>3, <1>5, <1>6, <1>7, <1>8 DEF e

(***************************************************************************)
(* An order reaches the exchange.                                          *)
(***************************************************************************)
LEMMA SubmitOrderPlaces ==
  ASSUME NEW x, GoodExchange(x), NEW id \in OrderId, id \notin Live(x), NEW o \in EngineOrder
  PROVE  LET y == SubmitOrder(x, id, o)
         IN  /\ GoodExchange(y) /\ Live(y) = Live(x) \cup {id}
             /\ \A i \in Live(x) : i # id => y.orders[i] = x.orders[i]
             /\ y.orders[id].state = "PendingNew"
<1> DEFINE p == [side |-> o.side, type |-> o.type, price |-> o.price, qty |-> o.qty]
           y == SubmitOrder(x, id, o)
<1>1. p \in Order
  BY DEF EngineOrder, Order
<1>2. SubmitOrder(x, id, p) = y
  BY DEF SubmitOrder, BucketOf
<1>3. GoodExchange(SubmitOrder(x, id, p))
  BY <1>1, SubmitOrderGood
<1>4. GoodExchange(y)
  BY <1>2, <1>3
<1>5. /\ Live(y) = Live(x) \cup {id}
      /\ \A i \in Live(x) : i # id => y.orders[i] = x.orders[i]
      /\ y.orders[id].state = "PendingNew"
  BY DEF SubmitOrder, Reindex, Insert, Live
<1>6. QED
  BY <1>4, <1>5

\* HandleOrder: the order arrives, and its acknowledgement is on its way.
LEMMA OrderProceeds == EngineInv /\ HandleOrder => Proceeds
<1> SUFFICES ASSUME EngineInv, HandleOrder PROVE Proceeds
  OBVIOUS
<1> DEFINE e  == Head(queue)
           id == e.id
           s  == e.order.symbol
           x  == exchanges[s]
           y  == SubmitOrder(x, id, e.order)
           ys == [exchanges EXCEPT ![s] = y]
           q  == Tail(queue)
<1>1. /\ PopAs("Order") /\ exchanges' = ys
      /\ UNCHANGED <<positions, guard, truth, market, next_timer_id>>
      /\ \E dt \in OrderLatencies : EndQuietly(Enqueue(q, IdEvent(now' + dt, "OrderAck", id)))
  BY DEF HandleOrder
<1>2. PICK dt \in OrderLatencies : EndQuietly(Enqueue(q, IdEvent(now' + dt, "OrderAck", id)))
  BY <1>1
<1>3. /\ Head(queue) \in Event /\ e.kind = "Order" /\ now' \in Nat
      /\ q \in Seq(Event) /\ QueueFrom(q, now') /\ queue \in Seq(Event)
      /\ \A E : Times(queue, E) = Times(q, E) + (IF Head(queue) \in E THEN 1 ELSE 0)
      /\ \A E : Times(queue, E) \in Nat /\ Times(q, E) \in Nat
  BY <1>1, Popped
<1>4. e \in OrderEvents /\ id \in OrderId /\ e.order \in EngineOrder /\ s \in Symbols
  BY <1>3 DEF Event, PreloadEvent, TickEvents, Deliveries, OrderEvents, IdEvents, ReportEvents,
              TimerEvents, EngineOrder
<1>5. /\ e \in OrdersFor(id) /\ e \notin Acks(id) /\ e \notin Finals(id)
      /\ \A k : e \in OrdersTo(id, k) <=> k = s
      /\ \A i \in OrderId : i # id => ~About(Head(queue), i)
  BY <1>3, <1>4 DEF OrdersFor, OrdersTo, Acks, Finals, IdEvents, ReportEvents, About
<1> HIDE DEF e, q
<1>6. /\ Times(queue, OrdersFor(id)) = Times(q, OrdersFor(id)) + 1
      /\ Times(queue, Acks(id)) = Times(q, Acks(id))
      /\ Times(queue, Finals(id)) = Times(q, Finals(id))
      /\ \A k : Times(queue, OrdersTo(id, k)) = Times(q, OrdersTo(id, k)) + (IF k = s THEN 1 ELSE 0)
  BY SMTT(60), <1>3, <1>5 DEF e
<1>7. Sent(queue, route, exchanges, id)
  <2>1. Life(queue, route, exchanges, id)
    BY <1>4, Standing
  <2>2. Times(queue, OrdersFor(id)) # 0
    BY <1>3, <1>6
  <2>3. QED
    BY <2>1, <2>2 DEF Life, Gone, Placed
<1>8. /\ id \in DOMAIN route /\ \A k \in Symbols : id \notin Live(exchanges[k])
      /\ Times(q, OrdersFor(id)) = 0 /\ Times(q, Acks(id)) = 0 /\ Times(q, Finals(id)) = 0
  BY <1>3, <1>6, <1>7 DEF Sent
<1>9. route[id] = s
  <2>1. OrdersTo(id, route[id]) \subseteq OrdersFor(id)
    BY DEF OrdersTo, OrdersFor
  <2>2. Times(q, OrdersTo(id, route[id])) <= Times(q, OrdersFor(id))
    BY <1>3, <2>1, TimesGrow
  <2>3. Times(q, OrdersTo(id, route[id])) = 0
    BY <1>3, <1>8, <2>2
  <2>4. Times(queue, OrdersTo(id, route[id])) = 1
    BY <1>7 DEF Sent
  <2>5. QED
    BY <1>6, <2>3, <2>4
<1>10. GoodMarket(exchanges) /\ GoodExchange(x) /\ id \notin Live(x)
  BY <1>4, <1>8, Standing
<1>11. /\ GoodExchange(y) /\ Live(y) = Live(x) \cup {id}
       /\ \A i \in Live(x) : i # id => y.orders[i] = x.orders[i]
       /\ y.orders[id].state = "PendingNew"
  BY <1>4, <1>10, SubmitOrderPlaces
<1> HIDE DEF y
<1>12. /\ GoodMarket(ys) /\ \A i : i # id => SameStatus(exchanges, ys, i)
  BY <1>4, <1>10, <1>11, OneOrderChanges
<1>13. ys[s] = y /\ \A k \in Symbols : k # s => ys[k] = exchanges[k]
  BY <1>4, <1>10 DEF GoodMarket
<1> HIDE DEF ys, x, s, id
<1> DEFINE a == IdEvent(now' + dt, "OrderAck", id)
           r == Enqueue(q, a)
<1>14. /\ a \in IdEvents /\ a.kind = "OrderAck" /\ a.id = id
       /\ QueueFrom(r, now') /\ Grows(q, r)
       /\ \A i : i # id => SameEvents(q, r, i)
       /\ \A E : Times(r, E) = Times(q, E) + (IF a \in E THEN 1 ELSE 0)
  BY SMTT(60), <1>3, <1>4, IdPushed
<1>15. EndQuietly(r)
  BY <1>2
<1> HIDE DEF a, r
<1>16. a \notin OrdersFor(id) /\ a \in Acks(id) /\ a \notin Finals(id)
  BY <1>14 DEF OrdersFor, Acks, Finals, OrderEvents, ReportEvents
<1>17. Times(r, OrdersFor(id)) = 0 /\ Times(r, Acks(id)) = 1 /\ Times(r, Finals(id)) = 0
  BY <1>8, <1>14, <1>16
<1>18. Placed(r, route, ys, id)
  <2>1. \A k \in Symbols : id \in Live(ys[k]) <=> k = route[id]
    BY <1>8, <1>9, <1>11, <1>13
  <2>2. ys[route[id]].orders[id].state = "PendingNew"
    BY <1>9, <1>11, <1>13
  <2>3. Fits(r, ys[route[id]].orders[id].type, ys[route[id]].orders[id].state, id)
    BY <1>17, <2>2 DEF Fits, IsTerminal, Terminal
  <2>4. QED
    BY <1>8, <1>17, <2>1, <2>3 DEF Placed
<1>19. DeskInv(Desk(r), ys, now')
  <2>1. Life(r, route, ys, id)
    BY <1>18 DEF Life
  <2>2. \A i \in OrderId : i # id => SameEvents(Tail(queue), r, i)
    BY <1>14 DEF q
  <2>3. \A i \in OrderId : i # id => SameStatus(exchanges, ys, i)
    BY <1>12
  <2>4. QED
    BY <1>1, <1>4, <1>5, <1>8, <1>14, <2>1, <2>2, <2>3, OneOrderDeskKept
<1>20. BooksInv'
  BY <1>1, <1>12 DEF EngineInv, BooksInv, GoodMarket
<1> DEFINE d == Desk(r)
<1>21. d.queue = r /\ d.route = route
  BY DEF Desk
<1>22. EndStep(d, tick_buffer, report_buffer, timer, FALSE)
  BY <1>15 DEF EndQuietly
<1>23. DeskInv(d, exchanges', now') /\ Grows(Tail(queue), d.queue)
  BY <1>1, <1>14, <1>19, <1>21 DEF q
<1> HIDE DEF d
<1>24. market' = market /\ next_timer_id' = next_timer_id /\ guard' = guard
  BY <1>1
<1>25. QED
  BY <1>1, <1>20, <1>21, <1>22, <1>23, <1>24, StepEndsPlainly

-----------------------------------------------------------------------------
\* The report on an order.
LEMMA ReportType ==
  ASSUME NEW y, GoodExchange(y), NEW id \in Live(y), NEW last \in Nat,
         NEW price \in Prices \cup {NoPrice}
  PROVE  /\ Report(y, id, last, price) \in ReportRecord
         /\ Report(y, id, last, price).id = id /\ Report(y, id, last, price).last = last
         /\ Report(y, id, last, price).price = price
         /\ Report(y, id, last, price).status = y.orders[id].state
<1>1. id \in OrderId /\ y.orders[id] \in LiveOrder
  BY Fields DEF GoodExchange, WellTyped, Live
<1> DEFINE o == y.orders[id]
<1>2. o.state \in OrderState /\ o.filled \in Nat /\ o.remaining \in Nat
  BY <1>1 DEF LiveOrder
<1>3. Report(y, id, last, price)
        = [id |-> id, status |-> o.state, last |-> last, price |-> price,
           filled |-> o.filled, remaining |-> o.remaining]
  BY DEF Report
<1> HIDE DEF o
<1>4. QED
  BY <1>1, <1>2, <1>3 DEF ReportRecord, o

\* The state of one order changes.
LEMMA StateChanges ==
  ASSUME NEW x, GoodExchange(x), NEW id \in Live(x),
         NEW state \in OrderState, state # "Filled", StateOf(x, id) # "Filled"
  PROVE  /\ GoodExchange(SetState(x, id, state)) /\ Live(SetState(x, id, state)) = Live(x)
         /\ \A i \in Live(x) : i # id => SetState(x, id, state).orders[i] = x.orders[i]
         /\ SetState(x, id, state).orders[id] = [x.orders[id] EXCEPT !.state = state]
<1> DEFINE y  == SetState(x, id, state)
<1>1. WellTyped(x)
  BY DEF GoodExchange
<1>2. GoodExchange(y)
  BY SetStateKeepsGood
<1>3. Live(y) = Live(x) /\ \A i \in Live(x) : i # id => y.orders[i] = x.orders[i]
  BY <1>1, SetStateOthers
<1>4. x.orders \in [Live(x) -> LiveOrder] /\ id \in Live(x) /\ DOMAIN x.orders = Live(x)
        /\ x = [model |-> x.model, book |-> x.book, orders |-> x.orders, buckets |-> x.buckets]
  BY <1>1, Fields DEF Live
<1> DEFINE o == [x.orders[id] EXCEPT !.state = state]
<1>5. y = [x EXCEPT !.orders[id] = o]
  BY <1>4 DEF SetState
<1> HIDE DEF o
<1>6. y.orders[id] = o
  BY <1>1, <1>4, <1>5, OneOrderOthers
<1>7. QED
  BY <1>2, <1>3, <1>6 DEF o

\* One exchange changes in one order.
LEMMA OneOrderMoves ==
  ASSUME EngineInv, NEW id, NEW s \in Symbols, id \in Live(exchanges[s]),
         NEW y, GoodExchange(y), \A i : i # id => (i \in Live(y) <=> i \in Live(exchanges[s])),
         \A i \in Live(exchanges[s]) : i # id => y.orders[i] = exchanges[s].orders[i]
  PROVE  /\ GoodMarket([exchanges EXCEPT ![s] = y])
         /\ \A i : i # id => SameStatus(exchanges, [exchanges EXCEPT ![s] = y], i)
         /\ [exchanges EXCEPT ![s] = y][s] = y
         /\ \A k \in Symbols : k # s => id \notin Live([exchanges EXCEPT ![s] = y][k])
<1>1. GoodMarket(exchanges)
  BY Standing
<1> DEFINE ys == [exchanges EXCEPT ![s] = y]
<1>2. GoodMarket(ys) /\ \A i : i # id => SameStatus(exchanges, ys, i)
  <2>1. GoodMarket(ys)
    BY <1>1, OneExchange
  <2>2. ASSUME NEW i, i # id PROVE SameStatus(exchanges, ys, i)
    <3>1. /\ i \in Live(y) <=> i \in Live(exchanges[s])
          /\ i \in Live(y) => /\ y.orders[i].type = exchanges[s].orders[i].type
                              /\ y.orders[i].state = exchanges[s].orders[i].state
      BY <2>2
    <3>2. QED
      BY <1>1, <3>1, OneExchange
  <2>3. QED
    BY <2>1, <2>2
<1>3. ys[s] = y /\ \A k \in Symbols : k # s => ys[k] = exchanges[k]
  BY <1>1 DEF GoodMarket
<1> HIDE DEF ys
<1>4. \A k \in Symbols : k # s => id \notin Live(ys[k])
  <2>1. \A k \in Symbols : id \in Live(exchanges[k]) => k = s
    BY LiveIsPlaced
  <2>2. QED
    BY <1>3, <2>1
<1>5. QED
  BY <1>2, <1>3, <1>4 DEF ys

\* The end of a step that leaves the reports of one event on their way.
LEMMA OrderStepEnds ==
  ASSUME EngineInv, NEW kind, PopAs(kind), kind # "Timer",
         GoodMarket(exchanges'),
         positions' \in [Symbols -> Position], guard' \in RiskGuard,
         guard.killed => guard'.killed,
         truth' = truth, market' = market, next_timer_id' = next_timer_id,
         NEW r, DeskInv(Desk(r), exchanges', now'), Grows(Tail(queue), r), EndQuietly(r)
  PROVE  Proceeds
<1> DEFINE d == Desk(r)
<1>1. d.queue = r /\ d.route = route
  BY DEF Desk
<1>2. EndStep(d, tick_buffer, report_buffer, timer, FALSE)
  BY DEF EndQuietly
<1>3. DeskInv(d, exchanges', now')
  OBVIOUS
<1> HIDE DEF d
<1>4. BooksInv'
  BY DEF EngineInv, BooksInv, GoodMarket
<1>5. QED
  BY <1>1, <1>2, <1>3, <1>4, StepEndsPlainly

(***************************************************************************)
(* A cancel reaches the exchange.                                          *)
(***************************************************************************)
LEMMA EarlyReturnProceeds ==
  ASSUME EngineInv, NEW kind, PopAs(kind), kind # "Timer", \A id : ~About(Head(queue), id),
         UNCHANGED <<books, market, next_timer_id, pending_wakeup>>,
         Keep(Desk(Tail(queue)), tick_buffer, report_buffer, timer)
  PROVE  Proceeds
<1> DEFINE d == Desk(Tail(queue))
<1>1. /\ config \in Configs /\ config' = config /\ now' \in Nat /\ now' >= now /\ now \in Nat
      /\ SourceInv' /\ queue # <<>> /\ Head(queue).kind # "Timer"
      /\ QueueFrom(Tail(queue), now') /\ Tail(queue) \in Seq(Event)
  BY Popped
<1>2. exchanges' = exchanges /\ positions' = positions /\ guard' = guard /\ truth' = truth
      /\ market' = market /\ next_timer_id' = next_timer_id /\ pending_wakeup' = pending_wakeup
  BY DEF books
<1>3. d.queue = Tail(queue) /\ d.route = route
  BY DEF Desk
<1>4. DeskInv(d, exchanges', now')
  BY <1>1, <1>2, QuietDesk, SameEventsItself, SameStatusItself
<1> HIDE DEF d
<1>5. TuningInv
  BY DEF EngineInv, BatchInv
<1>6. Keep(d, tick_buffer, report_buffer, timer)
  BY DEF d
<1>7. /\ DeskInv(NextDesk, exchanges', now')
      /\ queue' = d.queue /\ route' = d.route
      /\ tick_buffer' = tick_buffer /\ report_buffer' = report_buffer /\ timer' = timer
      /\ TuningInv' /\ max_batch' = max_batch
  BY <1>1, <1>4, <1>5, <1>6, KeepKeeps
<1>8. DeskInv(Now, exchanges, now)'
  BY <1>1, <1>7, NextDeskIs
<1>9. pending_wakeup \in BOOLEAN
  BY DEF EngineInv, BatchInv
<1>10. Buffered(Tail(queue), tick_buffer, report_buffer, timer, next_timer_id, pending_wakeup)
  <2>1. Buffered(Tail(queue), tick_buffer, report_buffer, timer, next_timer_id, Woken(FALSE))
    BY <1>1, BufferedKept, GrowsItself
  <2>2. Woken(FALSE) => pending_wakeup
    BY DEF Woken
  <2>3. QED
    BY <2>1, <2>2 DEF Buffered
<1>11. Buffered(queue, tick_buffer, report_buffer, timer, next_timer_id, pending_wakeup)'
  <2>1. queue' = Tail(queue) /\ LongestBatch' = LongestBatch
    BY <1>1, <1>3, <1>7 DEF LongestBatch
  <2>2. QED
    BY <1>1, <1>2, <1>7, <1>10, <2>1 DEF Buffered, Alarms
<1>12. BatchInv'
  BY <1>2, <1>7, <1>9, <1>11 DEF BatchInv
<1>13. BooksInv'
  BY <1>2 DEF EngineInv, BooksInv, GoodMarket
<1>14. SeenInv'
  <2>1. /\ market \in [Symbols -> Seq(TickRecord)] /\ \A s \in Symbols : Reached(market[s], now')
        /\ Reached(tick_buffer, now')
    BY <1>1, AllReachedLater
  <2>2. QED
    BY <1>2, <1>7, <2>1 DEF SeenInv, Reached
<1>15. EngineInv'
  BY <1>1, <1>8, <1>12, <1>13, <1>14 DEF EngineInv
<1>16. QED
  BY <1>1, <1>2, <1>3, <1>7, <1>15 DEF Proceeds

\* An accepted cancel: the order is in PendingCancel and its acknowledgement on its way.
LEMMA CancelPlaces ==
  ASSUME EngineInv, PopAs("OrderCancel"), NEW id \in DOMAIN route,
         CanCancelOrder(exchanges[route[id]], id), NEW dt \in OrderLatencies
  PROVE  LET ys == [exchanges EXCEPT ![route[id]] = CancelOrder(exchanges[route[id]], id)]
             r  == Enqueue(Tail(queue), IdEvent(now' + dt, "OrderCancelAck", id))
         IN  GoodMarket(ys) /\ DeskInv(Desk(r), ys, now') /\ Grows(Tail(queue), r)
<1> DEFINE q  == Tail(queue)
<1>1. /\ Head(queue) \in Event /\ Head(queue).kind = "OrderCancel" /\ now' \in Nat
      /\ q \in Seq(Event) /\ QueueFrom(q, now') /\ queue \in Seq(Event)
      /\ \A E : Times(queue, E) = Times(q, E) + (IF Head(queue) \in E THEN 1 ELSE 0)
      /\ \A E : Times(queue, E) \in Nat /\ Times(q, E) \in Nat
  BY Popped
<1>2. \A i : ~About(Head(queue), i)
  BY <1>1 DEF About
<1>3. id \in OrderId /\ route[id] \in Symbols
  BY Standing
<1>4. PICK s \in Symbols : s = route[id]
  BY <1>3
<1>a. PICK x : x = exchanges[s]
  OBVIOUS
<1>b. PICK y : y = SetState(x, id, "PendingCancel")
  OBVIOUS
<1>c. PICK ys : ys = [exchanges EXCEPT ![s] = y]
  OBVIOUS
<1>5. id \in Live(x) /\ StateOf(x, id) \in {"Open", "PartiallyFilled"}
  BY <1>4, <1>a DEF CanCancelOrder, CanTransitionTo, LegalTransition
<1>6. Placed(queue, route, exchanges, id)
  BY <1>5, <1>a, LiveIsPlaced
<1>7. /\ GoodMarket(ys) /\ \A i : i # id => SameStatus(exchanges, ys, i)
      /\ \A k \in Symbols : id \in Live(ys[k]) <=> k = s
      /\ ys[s] = y
      /\ y.orders[id].state = "PendingCancel" /\ y.orders[id].type = x.orders[id].type
  <2>1. "PendingCancel" \in OrderState /\ "PendingCancel" # "Filled" /\ StateOf(x, id) # "Filled"
    BY <1>5 DEF OrderState
  <2>2. GoodExchange(x)
    BY <1>a, Standing DEF GoodMarket
  <2>3. /\ GoodExchange(y) /\ Live(y) = Live(x)
        /\ \A i \in Live(x) : i # id => y.orders[i] = x.orders[i]
        /\ y.orders[id] = [x.orders[id] EXCEPT !.state = "PendingCancel"]
    BY <1>5, <1>b, <2>1, <2>2, StateChanges
  <2>4. x.orders[id] \in LiveOrder
    BY <1>5, <2>2, Fields DEF GoodExchange, Live
  <2>5. y.orders[id].state = "PendingCancel" /\ y.orders[id].type = x.orders[id].type
    BY <2>3, <2>4 DEF LiveOrder
  <2>6. /\ GoodMarket(ys) /\ ys[s] = y
        /\ \A i : i # id => SameStatus(exchanges, ys, i)
        /\ \A k \in Symbols : k # s => id \notin Live(ys[k])
    <3>1. \A i : i # id => (i \in Live(y) <=> i \in Live(exchanges[s]))
      BY <1>a, <2>3
    <3>2. \A i \in Live(exchanges[s]) : i # id => y.orders[i] = exchanges[s].orders[i]
      BY <1>a, <2>3
    <3>3. id \in Live(exchanges[s]) /\ GoodExchange(y)
      BY <1>5, <1>a, <2>3
    <3>4. /\ GoodMarket([exchanges EXCEPT ![s] = y])
          /\ \A i : i # id => SameStatus(exchanges, [exchanges EXCEPT ![s] = y], i)
          /\ [exchanges EXCEPT ![s] = y][s] = y
          /\ \A k \in Symbols : k # s => id \notin Live([exchanges EXCEPT ![s] = y][k])
      BY <3>1, <3>2, <3>3, OneOrderMoves
    <3>5. QED
      BY <1>c, <3>4
  <2>7. QED
    BY <1>5, <2>3, <2>5, <2>6
<1>8. /\ Times(queue, OrdersFor(id)) = 0 /\ Times(queue, Acks(id)) = 0
      /\ Times(queue, Finals(id)) = 0 /\ x.orders[id].type # "Market"
  BY <1>4, <1>5, <1>6, <1>a DEF Placed, Fits, StateOf, IsTerminal, Terminal
<1> DEFINE a == IdEvent(now' + dt, "OrderCancelAck", id)
           r == Enqueue(q, a)
<1>9. /\ a \in IdEvents /\ a.kind = "OrderCancelAck" /\ a.id = id
      /\ QueueFrom(r, now') /\ Grows(q, r)
      /\ \A i : i # id => SameEvents(q, r, i)
      /\ \A E : Times(r, E) = Times(q, E) + (IF a \in E THEN 1 ELSE 0)
  BY SMTT(60), <1>1, <1>3, IdPushed
<1> HIDE DEF a, r
<1>10. a \notin OrdersFor(id) /\ a \notin Acks(id) /\ a \notin Finals(id) /\ a \in CancelAcks(id)
  BY <1>9 DEF OrdersFor, Acks, Finals, CancelAcks, OrderEvents, ReportEvents
<1>11. /\ Head(queue) \notin OrdersFor(id) /\ Head(queue) \notin Acks(id)
       /\ Head(queue) \notin Finals(id)
  BY <1>1, <1>2, NotAbout
<1>12. Times(r, OrdersFor(id)) = 0 /\ Times(r, Acks(id)) = 0 /\ Times(r, Finals(id)) = 0
  BY SMTT(60), <1>1, <1>8, <1>9, <1>10, <1>11
<1>13. Times(r, CancelAcks(id)) >= 1
  <2>1. Times(r, CancelAcks(id)) = Times(q, CancelAcks(id)) + 1 /\ Times(q, CancelAcks(id)) \in Nat
    BY <1>1, <1>9, <1>10
  <2>2. QED
    BY <2>1
<1>14. Placed(r, route, ys, id)
  <2>1. Fits(r, ys[s].orders[id].type, ys[s].orders[id].state, id)
    BY <1>7, <1>8, <1>12, <1>13 DEF Fits, IsTerminal, Terminal
  <2>2. QED
    BY <1>4, <1>7, <1>12, <2>1 DEF Placed
<1>15. DeskInv(Desk(r), ys, now')
  <2>1. Life(r, route, ys, id)
    BY <1>14 DEF Life
  <2>2. \A i \in OrderId : i # id => SameEvents(Tail(queue), r, i)
    BY <1>9 DEF q
  <2>3. \A i \in OrderId : i # id => SameStatus(exchanges, ys, i)
    BY <1>7
  <2>4. \A i \in OrderId : i # id => ~About(Head(queue), i)
    BY <1>2
  <2>5. QED
    BY <1>3, <1>9, <2>1, <2>2, <2>3, <2>4, OneOrderDeskKept
<1>16. [exchanges EXCEPT ![route[id]] = CancelOrder(exchanges[route[id]], id)] = ys
  BY <1>4, <1>a, <1>b, <1>c DEF CancelOrder
<1>17. QED
  BY <1>7, <1>9, <1>15, <1>16 DEF r, a, q

\* HandleOrderCancel.
LEMMA OrderCancelProceeds == EngineInv /\ HandleOrderCancel => Proceeds
<1> SUFFICES ASSUME EngineInv, HandleOrderCancel PROVE Proceeds
  OBVIOUS
<1> DEFINE id == Head(queue).id
           q  == Tail(queue)
           s  == route[id]
           x  == exchanges[s]
           y  == CancelOrder(x, id)
           ys == [exchanges EXCEPT ![s] = y]
<1>1. /\ PopAs("OrderCancel")
      /\ UNCHANGED <<positions, guard, truth, market, next_timer_id>>
      /\ \/ /\ Keep(Desk(q), tick_buffer, report_buffer, timer)
            /\ UNCHANGED <<exchanges, pending_wakeup>>
         \/ /\ id \in DOMAIN route /\ CanCancelOrder(x, id)
            /\ exchanges' = ys
            /\ \E dt \in OrderLatencies :
                 EndQuietly(Enqueue(q, IdEvent(now' + dt, "OrderCancelAck", id)))
         \/ exchanges' = exchanges /\ EndQuietly(q)
  BY DEF HandleOrderCancel
<1>2. /\ Head(queue) \in Event /\ Head(queue).kind = "OrderCancel" /\ now' \in Nat
      /\ q \in Seq(Event) /\ QueueFrom(q, now') /\ queue \in Seq(Event)
      /\ \A E : Times(queue, E) = Times(q, E) + (IF Head(queue) \in E THEN 1 ELSE 0)
      /\ \A E : Times(queue, E) \in Nat /\ Times(q, E) \in Nat
  BY <1>1, Popped
<1>3. \A i : ~About(Head(queue), i)
  BY <1>2 DEF About
<1>4. /\ positions' = positions /\ guard' = guard /\ truth' = truth
      /\ market' = market /\ next_timer_id' = next_timer_id
      /\ positions \in [Symbols -> Position] /\ guard \in RiskGuard /\ GoodMarket(exchanges)
  BY <1>1 DEF EngineInv, BooksInv
<1>5. CASE Keep(Desk(q), tick_buffer, report_buffer, timer)
           /\ UNCHANGED <<exchanges, pending_wakeup>>
  <2>1. UNCHANGED <<books, market, next_timer_id, pending_wakeup>>
    BY <1>1, <1>5 DEF books
  <2>2. QED
    BY <1>1, <1>3, <1>5, <2>1, EarlyReturnProceeds
<1>6. CASE exchanges' = exchanges /\ EndQuietly(q)
  <2>1. DeskInv(Desk(q), exchanges', now')
    BY <1>1, <1>2, <1>3, <1>6, QuietDesk, SameEventsItself, SameStatusItself
  <2>2. GoodMarket(exchanges') /\ Grows(Tail(queue), q)
    BY <1>2, <1>4, <1>6, GrowsItself
  <2> HIDE DEF q
  <2>3. QED
    BY <1>1, <1>4, <1>6, <2>1, <2>2, OrderStepEnds
<1>7. CASE /\ id \in DOMAIN route /\ CanCancelOrder(x, id)
           /\ exchanges' = ys
           /\ \E dt \in OrderLatencies :
                EndQuietly(Enqueue(q, IdEvent(now' + dt, "OrderCancelAck", id)))
  <2>1. PICK dt \in OrderLatencies : EndQuietly(Enqueue(q, IdEvent(now' + dt, "OrderCancelAck", id)))
    BY <1>7
  <2>2. id \in DOMAIN route /\ CanCancelOrder(exchanges[route[id]], id)
    BY <1>7
  <2> HIDE DEF id
  <2> DEFINE r == Enqueue(q, IdEvent(now' + dt, "OrderCancelAck", id))
  <2>3. /\ GoodMarket(ys) /\ DeskInv(Desk(r), ys, now') /\ Grows(q, r)
    BY <1>1, <1>3, <2>2, CancelPlaces
  <2>4. EndQuietly(r) /\ exchanges' = ys
    BY <1>7, <2>1
  <2> HIDE DEF r, ys
  <2>5. GoodMarket(exchanges') /\ DeskInv(Desk(r), exchanges', now')
    BY <2>3, <2>4
  <2>6. QED
    BY <1>1, <1>4, <2>3, <2>4, <2>5, OrderStepEnds
<1>8. QED
  BY <1>1, <1>5, <1>6, <1>7

-----------------------------------------------------------------------------
(***************************************************************************)
(* The exchange moves one order and reports on it: the reports are on      *)
(* their way, a final one exactly if the order has ended.                  *)
(***************************************************************************)
ReportsOn(reports, id, state) ==
  /\ reports \in Seq(ReportRecord) /\ OneEnd(reports)
  /\ \A i \in 1 .. Len(reports) : reports[i].id = id
  /\ IsTerminal(state) <=> \E i \in 1 .. Len(reports) : EndsOrder(reports[i], id)

\* The reports of one order's event, all about that order.
LEMMA ReportsJoinFor ==
  ASSUME config \in Configs, now' \in Nat, NEW q, QueueFrom(q, now'),
         NEW id, NEW state, NEW reports, ReportsOn(reports, id, state),
         NEW r, r = EnqueueReports(q, reports)
  PROVE  /\ QueueFrom(r, now') /\ Grows(q, r)
         /\ \A i : i # id => SameEvents(q, r, i)
         /\ Times(r, OrdersFor(id)) = Times(q, OrdersFor(id))
         /\ Times(r, Acks(id)) = Times(q, Acks(id))
         /\ IF IsTerminal(state) THEN Times(r, Finals(id)) = Times(q, Finals(id)) + 1
                                 ELSE Times(r, Finals(id)) = Times(q, Finals(id))
<1>1. reports \in Seq(ReportRecord)
  BY DEF ReportsOn
<1>2. /\ QueueFrom(r, now') /\ Grows(q, r)
      /\ \A i : (\A k \in 1 .. Len(reports) : ~EndsOrder(reports[k], i)) => SameEvents(q, r, i)
      /\ \A i : OneEnd(reports) /\ (\E k \in 1 .. Len(reports) : EndsOrder(reports[k], i)) =>
                          /\ Times(r, OrdersFor(i)) = Times(q, OrdersFor(i))
                          /\ Times(r, Acks(i)) = Times(q, Acks(i))
                          /\ Times(r, Finals(i)) = Times(q, Finals(i)) + 1
                          /\ Times(r, CancelAcks(i)) = Times(q, CancelAcks(i))
  BY <1>1, ReportsJoin
<1>3. ASSUME NEW i, i # id PROVE SameEvents(q, r, i)
  <2>1. \A k \in 1 .. Len(reports) : ~EndsOrder(reports[k], i)
    BY <1>3 DEF ReportsOn, EndsOrder
  <2>2. QED
    BY <1>2, <2>1
<1>4. CASE IsTerminal(state)
  <2>1. OneEnd(reports) /\ \E k \in 1 .. Len(reports) : EndsOrder(reports[k], id)
    BY <1>4 DEF ReportsOn
  <2>2. /\ Times(r, OrdersFor(id)) = Times(q, OrdersFor(id))
        /\ Times(r, Acks(id)) = Times(q, Acks(id))
        /\ Times(r, Finals(id)) = Times(q, Finals(id)) + 1
    BY <1>2, <2>1
  <2>3. QED
    BY <1>2, <1>3, <1>4, <2>2
<1>5. CASE ~IsTerminal(state)
  <2>1. \A k \in 1 .. Len(reports) : ~EndsOrder(reports[k], id)
    BY <1>5 DEF ReportsOn
  <2>2. SameEvents(q, r, id)
    BY <1>2, <2>1
  <2>3. QED
    BY <1>2, <1>3, <1>5, <2>2 DEF SameEvents
<1>6. QED
  BY <1>4, <1>5

\* The desk when an event moves one order and its reports join the queue.
LEMMA ReportedOrder ==
  ASSUME EngineInv, NEW kind, PopAs(kind), NEW id, NEW s \in Symbols, id \in Live(exchanges[s]),
         \A i : i # id => ~About(Head(queue), i),
         Times(queue, Finals(id)) = 0, Times(Tail(queue), Acks(id)) = 0,
         NEW y, GoodExchange(y), Live(y) = Live(exchanges[s]),
         \A i \in Live(exchanges[s]) : i # id => y.orders[i] = exchanges[s].orders[i],
         NEW type, NEW state, y.orders[id].type = type, y.orders[id].state = state,
         state # "PendingNew", state # "PendingCancel", type = "Market" => IsTerminal(state),
         NEW reports, ReportsOn(reports, id, state),
         NEW ys, ys = [exchanges EXCEPT ![s] = y],
         NEW r, r = EnqueueReports(Tail(queue), reports)
  PROVE  GoodMarket(ys) /\ DeskInv(Desk(r), ys, now') /\ Grows(Tail(queue), r)
<1> DEFINE q == Tail(queue)
<1>1. /\ config \in Configs /\ now' \in Nat
      /\ q \in Seq(Event) /\ QueueFrom(q, now') /\ queue \in Seq(Event)
      /\ \A E : Times(queue, E) = Times(q, E) + (IF Head(queue) \in E THEN 1 ELSE 0)
      /\ \A E : Times(queue, E) \in Nat /\ Times(q, E) \in Nat
  BY Popped
<1>2. /\ id \in OrderId /\ id \in DOMAIN route /\ route[id] = s
      /\ Placed(queue, route, exchanges, id)
  BY LiveIsPlaced
<1>3. /\ GoodMarket(ys) /\ ys[s] = y
      /\ \A i : i # id => SameStatus(exchanges, ys, i)
      /\ \A k \in Symbols : k # s => id \notin Live(ys[k])
  <2>1. \A i : i # id => (i \in Live(y) <=> i \in Live(exchanges[s]))
    OBVIOUS
  <2>2. /\ GoodMarket([exchanges EXCEPT ![s] = y])
        /\ \A i : i # id => SameStatus(exchanges, [exchanges EXCEPT ![s] = y], i)
        /\ [exchanges EXCEPT ![s] = y][s] = y
        /\ \A k \in Symbols : k # s => id \notin Live([exchanges EXCEPT ![s] = y][k])
    BY <2>1, OneOrderMoves
  <2>3. QED
    BY <2>2
<1>4. Times(queue, OrdersFor(id)) = 0
  BY <1>2 DEF Placed
<1>5. Times(q, OrdersFor(id)) = 0 /\ Times(q, Finals(id)) = 0
  <2>1. Times(queue, OrdersFor(id)) >= Times(q, OrdersFor(id)) /\ Times(q, OrdersFor(id)) \in Nat
    BY <1>1
  <2>2. Times(queue, Finals(id)) >= Times(q, Finals(id)) /\ Times(q, Finals(id)) \in Nat
    BY <1>1
  <2>3. QED
    BY <1>4, <2>1, <2>2
<1>6. /\ QueueFrom(r, now') /\ Grows(q, r)
      /\ \A i : i # id => SameEvents(q, r, i)
      /\ Times(r, OrdersFor(id)) = Times(q, OrdersFor(id))
      /\ Times(r, Acks(id)) = Times(q, Acks(id))
      /\ IF IsTerminal(state) THEN Times(r, Finals(id)) = Times(q, Finals(id)) + 1
                              ELSE Times(r, Finals(id)) = Times(q, Finals(id))
  BY <1>1, ReportsJoinFor
<1>7. Fits(r, type, state, id)
  BY <1>5, <1>6 DEF Fits
<1>8. \A k \in Symbols : id \in Live(ys[k]) <=> k = s
  BY <1>3
<1>9. Life(r, route, ys, id)
  BY <1>2, <1>3, <1>5, <1>6, <1>7, <1>8 DEF Life, Placed
<1>10. DeskInv(Desk(r), ys, now')
  BY <1>2, <1>3, <1>6, <1>9, OneOrderDeskKept
<1>11. QED
  BY <1>3, <1>6, <1>10

\* The case of one report.
LEMMA OneReportOn ==
  ASSUME config \in Configs, now' \in Nat, NEW q, QueueFrom(q, now'),
         NEW id, NEW state, NEW r \in ReportRecord, r.id = id, r.status = state
  PROVE  ReportsOn(<<r>>, id, state)
<1>1. /\ <<r>> \in Seq(ReportRecord) /\ Len(<<r>>) = 1 /\ <<r>>[1] = r
      /\ OneEnd(<<r>>)
      /\ (\E i \in 1 .. Len(<<r>>) : EndsOrder(<<r>>[i], id)) <=> EndsOrder(r, id)
  BY OneReportJoins
<1>2. \A i \in 1 .. Len(<<r>>) : <<r>>[i].id = id
  BY <1>1
<1>3. EndsOrder(r, id) <=> IsTerminal(state)
  BY DEF EndsOrder
<1>4. QED
  BY <1>1, <1>2, <1>3 DEF ReportsOn

\* The state of one order changes and one report tells of it.
LEMMA StateReported ==
  ASSUME EngineInv, NEW kind, PopAs(kind), kind # "Timer",
         NEW id, NEW s \in Symbols, id \in Live(exchanges[s]),
         \A i : i # id => ~About(Head(queue), i),
         Times(queue, Finals(id)) = 0, Times(Tail(queue), Acks(id)) = 0,
         NEW state \in {"Open", "Cancelled"}, StateOf(exchanges[s], id) # "Filled",
         exchanges[s].orders[id].type = "Market" => state = "Cancelled",
         NEW y, y = SetState(exchanges[s], id, state),
         exchanges' = [exchanges EXCEPT ![s] = y],
         UNCHANGED <<positions, guard, truth, market, next_timer_id>>,
         EndQuietly(EnqueueReports(Tail(queue), <<Report(y, id, 0, NoPrice)>>))
  PROVE  Proceeds
<1>1. PICK x : x = exchanges[s]
  OBVIOUS
<1>2. GoodExchange(x) /\ WellTyped(x)
  BY <1>1, Standing
<1>3. /\ GoodExchange(y) /\ Live(y) = Live(x)
      /\ \A i \in Live(x) : i # id => y.orders[i] = x.orders[i]
      /\ y.orders[id] = [x.orders[id] EXCEPT !.state = state]
  <2>1. state \in OrderState /\ state # "Filled" /\ id \in Live(x) /\ StateOf(x, id) # "Filled"
    BY <1>1 DEF OrderState
  <2>2. QED
    BY <1>1, <1>2, <2>1, StateChanges
<1>4. x.orders[id] \in LiveOrder
  BY <1>1, <1>2, Fields DEF Live
<1>5. y.orders[id].state = state /\ y.orders[id].type = x.orders[id].type
  BY <1>3, <1>4 DEF LiveOrder
<1>6. PICK r : r = Report(y, id, 0, NoPrice)
  OBVIOUS
<1>7. r \in ReportRecord /\ r.id = id /\ r.status = state
  <2>1. id \in Live(y) /\ GoodExchange(y)
    BY <1>1, <1>3
  <2>2. Report(y, id, 0, NoPrice) \in ReportRecord /\ Report(y, id, 0, NoPrice).id = id
        /\ Report(y, id, 0, NoPrice).status = y.orders[id].state
    BY <2>1, ReportType
  <2>3. QED
    BY <1>5, <1>6, <2>2
<1>8. config \in Configs /\ now' \in Nat /\ QueueFrom(Tail(queue), now')
  BY Popped
<1>9. ReportsOn(<<r>>, id, state)
  BY <1>7, <1>8, OneReportOn
<1>10. PICK q : q = EnqueueReports(Tail(queue), <<r>>)
  OBVIOUS
<1>11. PICK type : type = x.orders[id].type
  OBVIOUS
<1>12. state # "PendingNew" /\ state # "PendingCancel" /\ (type = "Market" => IsTerminal(state))
  BY <1>1, <1>11 DEF IsTerminal, Terminal
<1>13. PICK ys : ys = [exchanges EXCEPT ![s] = y]
  OBVIOUS
<1>14. GoodMarket(ys) /\ DeskInv(Desk(q), ys, now') /\ Grows(Tail(queue), q)
  <2>1. \A i \in Live(exchanges[s]) : i # id => y.orders[i] = exchanges[s].orders[i]
    BY <1>1, <1>3
  <2>2. GoodExchange(y) /\ Live(y) = Live(exchanges[s]) /\ y.orders[id].type = type /\ y.orders[id].state = state
    BY <1>1, <1>3, <1>5, <1>11
  <2>3. QED
    BY ZenonT(60), <1>9, <1>10, <1>12, <1>13, <2>1, <2>2, ReportedOrder
<1>15. exchanges' = ys /\ EndQuietly(q)
  BY <1>6, <1>10, <1>13
<1>16. /\ positions' = positions /\ guard' = guard /\ truth' = truth
       /\ market' = market /\ next_timer_id' = next_timer_id
       /\ positions \in [Symbols -> Position] /\ guard \in RiskGuard
  BY DEF EngineInv, BooksInv
<1>17. GoodMarket(exchanges') /\ DeskInv(Desk(q), exchanges', now')
  BY <1>14, <1>15
<1>18. QED
  BY <1>14, <1>15, <1>16, <1>17, OrderStepEnds

(***************************************************************************)
(* The exchange acknowledges a cancel.                                     *)
(***************************************************************************)
LEMMA OrderCancelAckProceeds == EngineInv /\ HandleOrderCancelAck => Proceeds
<1> SUFFICES ASSUME EngineInv, HandleOrderCancelAck PROVE Proceeds
  OBVIOUS
<1>1. PICK id : id = Head(queue).id
  OBVIOUS
<1>2. /\ PopAs("OrderCancelAck")
      /\ UNCHANGED <<positions, guard, truth, market, next_timer_id>>
      /\ \/ /\ id \in DOMAIN route /\ CanAckCancel(exchanges[route[id]], id)
            /\ exchanges' = [exchanges EXCEPT ![route[id]] = AckCancel(exchanges[route[id]], id)]
            /\ EndQuietly(EnqueueReports(Tail(queue),
                 <<Report(AckCancel(exchanges[route[id]], id), id, 0, NoPrice)>>))
         \/ /\ ~(id \in DOMAIN route /\ CanAckCancel(exchanges[route[id]], id))
            /\ exchanges' = exchanges
            /\ EndQuietly(Tail(queue))
  BY <1>1 DEF HandleOrderCancelAck
<1> DEFINE q == Tail(queue)
<1>3. /\ Head(queue) \in Event /\ Head(queue).kind = "OrderCancelAck" /\ now' \in Nat
      /\ q \in Seq(Event) /\ QueueFrom(q, now') /\ queue \in Seq(Event)
      /\ \A E : Times(queue, E) = Times(q, E) + (IF Head(queue) \in E THEN 1 ELSE 0)
      /\ \A E : Times(queue, E) \in Nat /\ Times(q, E) \in Nat
  BY <1>2, Popped
<1>4. id \in OrderId /\ \A i : i # id => ~About(Head(queue), i)
  <2>1. Head(queue) \in IdEvents
    BY <1>3 DEF Event, PreloadEvent, TickEvents, Deliveries, OrderEvents, ReportEvents, TimerEvents
  <2>2. QED
    BY <1>1, <1>3, <2>1 DEF IdEvents, About
<1>5. CASE /\ id \in DOMAIN route /\ CanAckCancel(exchanges[route[id]], id)
           /\ exchanges' = [exchanges EXCEPT ![route[id]] = AckCancel(exchanges[route[id]], id)]
           /\ EndQuietly(EnqueueReports(Tail(queue),
                <<Report(AckCancel(exchanges[route[id]], id), id, 0, NoPrice)>>))
  <2>1. route[id] \in Symbols
    BY <1>5, Standing
  <2>2. PICK s \in Symbols : s = route[id]
    BY <2>1
  <2>3. id \in Live(exchanges[s]) /\ StateOf(exchanges[s], id) = "PendingCancel"
    BY <1>5, <2>2 DEF CanAckCancel
  <2>4. Placed(queue, route, exchanges, id)
    BY <2>3, LiveIsPlaced
  <2>5. /\ Times(queue, Acks(id)) = 0 /\ Times(queue, Finals(id)) = 0
    BY <2>2, <2>3, <2>4 DEF Placed, Fits, StateOf, IsTerminal, Terminal
  <2>6. Times(q, Acks(id)) = 0
    BY <1>3, <2>5
  <2>7. PICK y : y = SetState(exchanges[s], id, "Cancelled")
    OBVIOUS
  <2>8. exchanges' = [exchanges EXCEPT ![s] = y]
        /\ EndQuietly(EnqueueReports(Tail(queue), <<Report(y, id, 0, NoPrice)>>))
    BY <1>5, <2>2, <2>7 DEF AckCancel
  <2>9. StateOf(exchanges[s], id) # "Filled" /\ "Cancelled" \in {"Open", "Cancelled"}
        /\ "OrderCancelAck" # "Timer"
    BY <2>3
  <2>10. QED
    BY <1>2, <1>4, <2>3, <2>5, <2>6, <2>7, <2>8, <2>9, StateReported
<1>6. CASE /\ ~(id \in DOMAIN route /\ CanAckCancel(exchanges[route[id]], id))
           /\ exchanges' = exchanges
           /\ EndQuietly(Tail(queue))
  <2>1. /\ Head(queue) \notin OrdersFor(id) /\ \A s : Head(queue) \notin OrdersTo(id, s)
        /\ Head(queue) \notin Acks(id) /\ Head(queue) \notin Finals(id)
    BY <1>3 DEF OrdersFor, OrdersTo, Acks, Finals, OrderEvents, ReportEvents
  <2>2. /\ Times(q, OrdersFor(id)) = Times(queue, OrdersFor(id))
        /\ \A s : Times(q, OrdersTo(id, s)) = Times(queue, OrdersTo(id, s))
        /\ Times(q, Acks(id)) = Times(queue, Acks(id))
        /\ Times(q, Finals(id)) = Times(queue, Finals(id))
    BY <1>3, <2>1
  <2>3. Life(queue, route, exchanges, id)
    BY <1>4, Standing
  <2>7. Life(q, route, exchanges, id)
    <3>1. CASE Gone(queue, route, exchanges, id)
      BY <2>2, <3>1 DEF Life, Gone
    <3>2. CASE Sent(queue, route, exchanges, id)
      BY <2>2, <3>2 DEF Life, Sent
    <3>3. CASE Placed(queue, route, exchanges, id)
      <4>1. id \in DOMAIN route /\ route[id] \in Symbols /\ id \in Live(exchanges[route[id]])
        BY <3>3, Standing DEF Placed
      <4>2. exchanges[route[id]].orders[id].state # "PendingCancel"
        BY <1>6, <4>1 DEF CanAckCancel, StateOf
      <4>3. Placed(q, route, exchanges, id)
        BY <2>2, <3>3, <4>2 DEF Placed, Fits
      <4>4. QED
        BY <4>3 DEF Life
    <3>4. QED
      BY <2>3, <3>1, <3>2, <3>3 DEF Life
  <2>8. DeskInv(Desk(q), exchanges, now')
    <3>1. \A i \in OrderId : i # id => SameEvents(Tail(queue), q, i)
      BY <1>3, SameEventsItself
    <3>2. \A i \in OrderId : i # id => SameStatus(exchanges, exchanges, i)
      BY SameStatusItself
    <3>3. Times(q, Finals(id)) <= Times(queue, Finals(id))
      BY <1>3, <2>2
    <3> HIDE DEF q
    <3>4. QED
      BY <1>2, <1>3, <1>4, <2>7, <3>1, <3>2, <3>3, OneOrderDeskKept
  <2>9. /\ positions' = positions /\ guard' = guard /\ truth' = truth
        /\ market' = market /\ next_timer_id' = next_timer_id
        /\ positions \in [Symbols -> Position] /\ guard \in RiskGuard /\ GoodMarket(exchanges)
    BY <1>2 DEF EngineInv, BooksInv
  <2>10. GoodMarket(exchanges') /\ Grows(Tail(queue), q) /\ DeskInv(Desk(q), exchanges', now')
    BY <1>3, <1>6, <2>8, <2>9, GrowsItself
  <2>11. EndQuietly(q)
    BY <1>6
  <2> HIDE DEF q
  <2>12. QED
    BY <1>2, <2>9, <2>10, <2>11, OrderStepEnds
<1>7. QED
  BY <1>2, <1>5, <1>6

-----------------------------------------------------------------------------
\* remove_order leaves the other orders alone.
LEMMA RemoveOrderOthers ==
  ASSUME NEW x, NEW id \in Live(x)
  PROVE  /\ Live(RemoveOrder(x, id)) = Live(x) \ {id}
         /\ \A i \in Live(x) : i # id => RemoveOrder(x, id).orders[i] = x.orders[i]
<1>1. RemoveOrder(x, id).orders = Erase(x.orders, id)
  BY SMTT(60) DEF RemoveOrder, Reindex
<1>2. QED
  BY <1>1 DEF Erase, Live

(***************************************************************************)
(* The final report on an order with a route: the order has ended in its   *)
(* exchange, and leaves it.                                                *)
(***************************************************************************)
LEMMA OrderRemoved ==
  ASSUME EngineInv, PopAs("OrderReport"), NEW r, r = Head(queue).report, r \in ReportRecord,
         Ends(r), NEW rt, rt = Erase(route, r.id),
         NEW ys, ys = [exchanges EXCEPT ![route[r.id]] = RemoveOrder(exchanges[route[r.id]], r.id)]
  PROVE  GoodMarket(ys) /\ DeskInv([Desk(Tail(queue)) EXCEPT !.route = rt], ys, now')
<1>1. PICK q : q = Tail(queue)
  OBVIOUS
<1>2. PICK id : id = r.id
  OBVIOUS
<1>3. /\ Head(queue) \in Event /\ Head(queue).kind = "OrderReport" /\ now' \in Nat
      /\ q \in Seq(Event) /\ QueueFrom(q, now') /\ queue \in Seq(Event)
      /\ \A E : Times(queue, E) = Times(q, E) + (IF Head(queue) \in E THEN 1 ELSE 0)
      /\ \A E : Times(queue, E) \in Nat /\ Times(q, E) \in Nat
  BY <1>1, Popped
<1>4. Head(queue) \in ReportEvents
  BY <1>3 DEF Event, PreloadEvent, TickEvents, Deliveries, OrderEvents, IdEvents, TimerEvents
<1>5. id \in OrderId /\ id \in DOMAIN route /\ IsTerminal(r.status) /\ route[id] \in Symbols
  BY <1>2, Standing DEF Ends
<1>6. Head(queue) \in Finals(id)
  BY <1>2, <1>4, <1>5 DEF Finals
<1>7. Times(queue, Finals(id)) >= 1
  BY <1>3, <1>6
<1>8. Placed(queue, route, exchanges, id)
  BY <1>5, <1>7, AckMeansPlaced
<1>9. PICK s \in Symbols : s = route[id]
  BY <1>5
<1>10. PICK x : x = exchanges[s]
  OBVIOUS
<1>11. PICK y : y = RemoveOrder(x, id)
  OBVIOUS
<1>12. id \in Live(x) /\ GoodExchange(x)
  BY <1>8, <1>9, <1>10, Standing DEF Placed
<1>13. /\ GoodExchange(y) /\ Live(y) = Live(x) \ {id}
       /\ \A i \in Live(x) : i # id => y.orders[i] = x.orders[i]
  BY SMTT(60), <1>11, <1>12, RemoveOrderGood, RemoveOrderOthers
<1>14. /\ GoodMarket(ys) /\ ys[s] = y
       /\ \A i : i # id => SameStatus(exchanges, ys, i)
       /\ \A k \in Symbols : k # s => id \notin Live(ys[k])
  <2>1. \A i : i # id => (i \in Live(y) <=> i \in Live(exchanges[s]))
    BY <1>10, <1>13
  <2>2. \A i \in Live(exchanges[s]) : i # id => y.orders[i] = exchanges[s].orders[i]
    BY <1>10, <1>13
  <2>3. id \in Live(exchanges[s]) /\ GoodExchange(y)
    BY <1>10, <1>12, <1>13
  <2>4. /\ GoodMarket([exchanges EXCEPT ![s] = y])
        /\ \A i : i # id => SameStatus(exchanges, [exchanges EXCEPT ![s] = y], i)
        /\ [exchanges EXCEPT ![s] = y][s] = y
        /\ \A k \in Symbols : k # s => id \notin Live([exchanges EXCEPT ![s] = y][k])
    BY <2>1, <2>2, <2>3, OneOrderMoves
  <2>5. ys = [exchanges EXCEPT ![s] = y]
    BY <1>2, <1>9, <1>10, <1>11
  <2>6. QED
    BY ZenonT(60), <2>4, <2>5
<1>15. /\ DOMAIN rt = DOMAIN route \ {id}
       /\ \A i \in DOMAIN rt : rt[i] = route[i]
  BY SMTT(60), <1>2 DEF Erase
<1>16. \A k \in Symbols : id \notin Live(ys[k])
  BY <1>13, <1>14
<1>17. /\ Times(queue, OrdersFor(id)) = 0 /\ Times(queue, Acks(id)) = 0
  <2>1. Times(queue, Finals(id)) = IF IsTerminal(x.orders[id].state) THEN 1 ELSE 0
    BY <1>8, <1>9, <1>10 DEF Placed, Fits
  <2>2. IsTerminal(x.orders[id].state)
    BY <1>7, <2>1
  <2>3. x.orders[id].state # "PendingNew"
    BY <2>2 DEF IsTerminal, Terminal
  <2>4. QED
    BY SMTT(60), <1>8, <1>9, <1>10, <2>3 DEF Placed, Fits
<1>18. Times(q, OrdersFor(id)) = 0 /\ Times(q, Acks(id)) = 0
  <2>1. Times(queue, OrdersFor(id)) >= Times(q, OrdersFor(id)) /\ Times(q, OrdersFor(id)) \in Nat
    BY <1>3
  <2>2. Times(queue, Acks(id)) >= Times(q, Acks(id)) /\ Times(q, Acks(id)) \in Nat
    BY SMTT(60), <1>3
  <2>3. QED
    BY <1>17, <2>1, <2>2
<1>19. Life(q, rt, ys, id)
  BY <1>15, <1>16, <1>18 DEF Life, Gone
<1>20. \A i \in OrderId : i # id => ~About(Head(queue), i)
  BY <1>2, <1>3 DEF About
<1>21. \A i \in OrderId : i # id => SameEvents(Tail(queue), q, i)
  BY <1>1, <1>3, SameEventsItself
<1>22. \A i \in OrderId : i # id => (i \in DOMAIN rt <=> i \in DOMAIN route)
  BY <1>15
<1>23. DOMAIN rt \subseteq DOMAIN route
  BY SMTT(60), <1>15
<1>24. DeskInv([Desk(q) EXCEPT !.route = rt], ys, now')
  BY <1>3, <1>5, <1>14, <1>15, <1>19, <1>20, <1>21, <1>22, <1>23, OneOrderDesk
<1>25. QED
  BY <1>1, <1>14, <1>24

\* Any other report leaves the orders alone.
LEMMA ReportPopped ==
  ASSUME EngineInv, PopAs("OrderReport"), NEW r, r = Head(queue).report, r \in ReportRecord,
         ~Ends(r)
  PROVE  DeskInv(Desk(Tail(queue)), exchanges, now')
<1>1. PICK q : q = Tail(queue)
  OBVIOUS
<1>2. PICK id : id = r.id
  OBVIOUS
<1>3. /\ Head(queue) \in Event /\ Head(queue).kind = "OrderReport" /\ now' \in Nat
      /\ q \in Seq(Event) /\ QueueFrom(q, now') /\ queue \in Seq(Event) /\ queue # <<>>
      /\ \A E : Times(queue, E) = Times(q, E) + (IF Head(queue) \in E THEN 1 ELSE 0)
      /\ \A E : Times(queue, E) \in Nat /\ Times(q, E) \in Nat
  BY <1>1, Popped
<1>4. id \in OrderId
  BY <1>2 DEF ReportRecord
<1>5. Life(queue, route, exchanges, id)
  BY <1>4, Standing
<1>6. /\ Head(queue) \notin OrdersFor(id) /\ \A s : Head(queue) \notin OrdersTo(id, s)
      /\ Head(queue) \notin Acks(id) /\ Head(queue) \notin CancelAcks(id)
  BY <1>3 DEF OrdersFor, OrdersTo, Acks, CancelAcks, OrderEvents, IdEvents
<1>7. /\ Times(q, OrdersFor(id)) = Times(queue, OrdersFor(id))
      /\ \A s : Times(q, OrdersTo(id, s)) = Times(queue, OrdersTo(id, s))
      /\ Times(q, Acks(id)) = Times(queue, Acks(id))
      /\ Times(q, CancelAcks(id)) = Times(queue, CancelAcks(id))
      /\ Times(q, Finals(id)) <= Times(queue, Finals(id))
  BY SMTT(60), <1>3, <1>6
<1>8. Life(q, route, exchanges, id)
  <2>1. CASE id \notin DOMAIN route
    <3>1. Gone(queue, route, exchanges, id)
      BY <1>5, <2>1 DEF Life, Sent, Placed
    <3>2. QED
      BY <1>7, <3>1 DEF Life, Gone
  <2>2. CASE id \in DOMAIN route
    <3>1. Head(queue) \notin Finals(id)
      BY <1>2, <2>2 DEF Ends, Finals
    <3>2. Times(q, Finals(id)) = Times(queue, Finals(id))
      BY <1>3, <3>1
    <3>3. Sent(queue, route, exchanges, id) \/ Placed(queue, route, exchanges, id)
      BY <1>5, <2>2 DEF Life, Gone
    <3>4. CASE Sent(queue, route, exchanges, id)
      BY <1>7, <3>2, <3>4 DEF Life, Sent
    <3>5. CASE Placed(queue, route, exchanges, id)
      BY <1>7, <3>2, <3>5 DEF Life, Placed, Fits
    <3>6. QED
      BY <3>3, <3>4, <3>5
  <2>3. QED
    BY <2>1, <2>2
<1>9. \A i \in OrderId : i # id => ~About(Head(queue), i)
  BY <1>2, <1>3 DEF About
<1>10. \A i \in OrderId : i # id => SameEvents(Tail(queue), q, i)
  BY <1>1, <1>3, SameEventsItself
<1>11. \A i \in OrderId : i # id => SameStatus(exchanges, exchanges, i)
  BY SameStatusItself
<1>12. DeskInv(Desk(q), exchanges, now')
  BY <1>3, <1>4, <1>7, <1>8, <1>9, <1>10, <1>11, OneOrderDeskKept
<1>13. QED
  BY <1>1, <1>12

(***************************************************************************)
(* A report reaches the strategy, or the buffer.                           *)
(***************************************************************************)
LEMMA ReportDesk ==
  ASSUME EngineInv, PopAs("OrderReport"), NEW r, r = Head(queue).report,
         NEW d, d = [Desk(Tail(queue)) EXCEPT !.route = IF Ends(r) THEN Erase(@, r.id) ELSE @],
         exchanges' = IF Ends(r)
                      THEN [exchanges EXCEPT ![route[r.id]] = RemoveOrder(@, r.id)]
                      ELSE exchanges
  PROVE  /\ r \in ReportRecord
         /\ GoodMarket(exchanges') /\ DeskInv(d, exchanges', now')
         /\ d.queue = Tail(queue) /\ DOMAIN d.route \subseteq DOMAIN route
<1>1. /\ Head(queue) \in Event /\ Head(queue).kind = "OrderReport"
      /\ Tail(queue) \in Seq(Event)
  BY Popped
<1>2. r \in ReportRecord
  BY <1>1 DEF Event, PreloadEvent, TickEvents, Deliveries, OrderEvents, IdEvents, ReportEvents,
              TimerEvents
<1>3. DOMAIN Desk(Tail(queue)) = {"queue", "route", "next_order_id", "cancels", "seen"}
      /\ Desk(Tail(queue)).queue = Tail(queue) /\ Desk(Tail(queue)).route = route
  BY DEF Desk
<1>4. CASE Ends(r)
  <2>1. PICK rt : rt = Erase(route, r.id)
    OBVIOUS
  <2>2. PICK ys : ys = [exchanges EXCEPT ![route[r.id]] = RemoveOrder(exchanges[route[r.id]], r.id)]
    OBVIOUS
  <2>3. GoodMarket(ys) /\ DeskInv([Desk(Tail(queue)) EXCEPT !.route = rt], ys, now')
    BY <1>2, <1>4, <2>1, <2>2, OrderRemoved
  <2>4. exchanges' = ys
    BY <1>4, <2>2
  <2>5. d = [Desk(Tail(queue)) EXCEPT !.route = rt]
    BY <1>3, <1>4, <2>1
  <2>6. d.queue = Tail(queue) /\ d.route = rt
    BY <1>3, <2>5
  <2>7. DOMAIN rt \subseteq DOMAIN route
    BY SMTT(60), <2>1 DEF Erase
  <2>8. QED
    BY <1>2, <2>3, <2>4, <2>5, <2>6, <2>7
<1>5. CASE ~Ends(r)
  <2>1. d = Desk(Tail(queue)) /\ exchanges' = exchanges
    <3>1. d = [Desk(Tail(queue)) EXCEPT !.route = Desk(Tail(queue)).route]
      BY <1>5
    <3>2. QED
      BY <1>5, <3>1 DEF Desk
  <2>2. DeskInv(Desk(Tail(queue)), exchanges, now')
    BY <1>2, <1>5, ReportPopped
  <2>3. GoodMarket(exchanges)
    BY Standing
  <2>4. GoodMarket(exchanges') /\ DeskInv(d, exchanges', now')
    BY <2>1, <2>2, <2>3
  <2>5. QED
    BY <1>2, <1>3, <2>1, <2>4
<1>6. QED
  BY <1>4, <1>5

\* HandleOrderReport: a final report ends its order, and nothing of it is left.
LEMMA OrderReportProceeds == EngineInv /\ HandleOrderReport => Proceeds
<1> SUFFICES ASSUME EngineInv, HandleOrderReport PROVE Proceeds
  OBVIOUS
<1>1. PICK r : r = Head(queue).report
  OBVIOUS
<1>2. PICK d : d = [Desk(Tail(queue)) EXCEPT !.route = IF Ends(r) THEN Erase(@, r.id) ELSE @]
  OBVIOUS
<1>3. PICK q : q = Tail(queue)
  OBVIOUS
<1>4. /\ PopAs("OrderReport")
      /\ UNCHANGED <<positions, guard, truth, market, next_timer_id>>
      /\ exchanges' = IF Ends(r)
                      THEN [exchanges EXCEPT ![route[r.id]] = RemoveOrder(@, r.id)]
                      ELSE exchanges
      /\ \/ /\ config.mode = "Tick"
            /\ \E c \in Commands(d) :
                 EndStep(HandleCommands(Tell(d, <<r>>), c, now'),
                         tick_buffer, report_buffer, timer, FALSE)
         \/ /\ config.mode = "Batch"
            /\ EndStep(d, tick_buffer, Append(report_buffer, r), timer, TRUE)
  BY <1>1, <1>2 DEF HandleOrderReport
<1>5. /\ r \in ReportRecord
      /\ GoodMarket(exchanges') /\ DeskInv(d, exchanges', now')
      /\ d.queue = Tail(queue) /\ DOMAIN d.route \subseteq DOMAIN route
  BY <1>1, <1>2, <1>4, ReportDesk
<1>6. /\ Tail(queue) \in Seq(Event) /\ queue # <<>> /\ Head(queue).kind = "OrderReport"
      /\ now' \in Nat /\ now' >= now
  BY <1>4, Popped
<1>7. /\ positions' = positions /\ guard' = guard /\ truth' = truth
      /\ market' = market /\ next_timer_id' = next_timer_id
      /\ positions \in [Symbols -> Position] /\ guard \in RiskGuard
      /\ truth \in [Symbols -> Prices \cup {NoPrice}]
  BY <1>4 DEF EngineInv, BooksInv
<1>8. BooksInv'
  BY <1>5, <1>7 DEF BooksInv, GoodMarket
<1>9. guard.killed => guard'.killed
  BY <1>7
<1>10. CASE /\ config.mode = "Tick"
            /\ \E c \in Commands(d) :
                 EndStep(HandleCommands(Tell(d, <<r>>), c, now'),
                         tick_buffer, report_buffer, timer, FALSE)
  <2>1. PICK c \in Commands(d) : EndStep(HandleCommands(Tell(d, <<r>>), c, now'),
                                         tick_buffer, report_buffer, timer, FALSE)
    BY <1>10
  <2>2. c \in CommandSeqs /\ now' >= now'
    BY <1>6, <2>1 DEF Commands
  <2>3. PICK e : e = Tell(d, <<r>>)
    OBVIOUS
  <2>4. /\ DeskInv(e, exchanges', now') /\ e.queue = d.queue /\ e.route = d.route
    <3>1. <<r>> \in Seq(ReportRecord)
      BY <1>5
    <3>2. QED
      BY <1>5, <2>3, <3>1, TellKeeps
  <2>5. Grows(Tail(queue), e.queue) /\ DOMAIN e.route \subseteq DOMAIN route
    BY <1>5, <1>6, <2>4, GrowsItself
  <2>6. EndStep(HandleCommands(e, c, now'), tick_buffer, report_buffer, timer, FALSE)
    BY <2>1, <2>3
  <2>7. "OrderReport" # "Timer" /\ FALSE \in BOOLEAN
    OBVIOUS
  <2>8. QED
    BY <1>4, <1>6, <1>7, <1>8, <1>9, <2>2, <2>4, <2>5, <2>6, <2>7, CallbackEnds
<1>11. CASE /\ config.mode = "Batch"
            /\ EndStep(d, tick_buffer, Append(report_buffer, r), timer, TRUE)
  <2>1. Buffered(Tail(queue), tick_buffer, report_buffer, timer, next_timer_id, Woken(TRUE))
    BY <1>6, BufferedKept, GrowsItself
  <2>2. PICK reports : reports = Append(report_buffer, r)
    OBVIOUS
  <2>3. reports \in Seq(ReportRecord)
    BY <1>5, <2>1, <2>2 DEF Buffered
  <2>4. Buffered(d.queue, tick_buffer, reports, timer, next_timer_id', Woken(TRUE))
    BY <1>5, <1>7, <2>1, <2>3 DEF Buffered
  <2>5. /\ market' \in [Symbols -> Seq(TickRecord)]
        /\ \A s \in Symbols : Reached(market'[s], now')
        /\ Reached(tick_buffer, now')
    <3>1. /\ market \in [Symbols -> Seq(TickRecord)]
          /\ \A s \in Symbols : Reached(market[s], now')
          /\ Reached(tick_buffer, now')
      BY <1>6, AllReachedLater
    <3>2. QED
      BY <1>7, <3>1
  <2>6. EndStep(d, tick_buffer, reports, timer, TRUE)
    BY <1>11, <2>2
  <2>7. PopAs("OrderReport") /\ TRUE \in BOOLEAN
    BY <1>4
  <2>8. DeskInv(d, exchanges', now') /\ (guard'.killed => DOMAIN d.route \subseteq DOMAIN route)
    BY <1>5
  <2>9. QED
    BY <1>8, <1>9, <2>4, <2>5, <2>6, <2>7, <2>8, StepEnds
<1>12. QED
  BY <1>4, <1>10, <1>11

-----------------------------------------------------------------------------
\* The prices a market order can execute at.
LEMMA MarketPriceType ==
  ASSUME NEW x, NEW side, NEW fallback \in Prices \cup {NoPrice}
  PROVE  MarketPrice(x, side, fallback) \in Prices \cup {NoPrice}
<1> DEFINE b == x.book
<1>1. \A S : S \subseteq Prices => AnyOf(S) \in Prices \cup {NoPrice}
  BY DEF AnyOf
<1>2. Highest(Quoted(b, "Buy")) \subseteq Prices /\ Lowest(Quoted(b, "Sell")) \subseteq Prices
  BY DEF Highest, Lowest, Quoted
<1>3. BestBid(b) \in Prices \cup {NoPrice} /\ BestAsk(b) \in Prices \cup {NoPrice}
  BY <1>1, <1>2 DEF BestBid, BestAsk
<1>4. QED
  BY <1>3 DEF MarketPrice, BestOpposite

\* What fill_market_immediately leaves of the order.
LEMMA MarketFilled ==
  ASSUME NEW x, GoodExchange(x), NEW id \in Live(x),
         x.orders[id].type = "Market", StateOf(x, id) = "PendingNew", NEW fallback,
         NEW y, y = FillMarketImmediately(x, id, fallback)
  PROVE  /\ GoodExchange(y) /\ Live(y) = Live(x)
         /\ \A i \in Live(x) : i # id => y.orders[i] = x.orders[i]
         /\ y.orders[id].type = "Market"
         /\ y.orders[id].state \in {"Rejected", "Filled", "PartiallyFilled"}
<1>1. WellTyped(x)
  BY DEF GoodExchange
<1>2. /\ GoodExchange(y) /\ Live(y) = Live(x)
      /\ \A i \in Live(x) : i # id => y.orders[i] = x.orders[i]
  BY <1>1, FillMarketGood, FillMarketOthers
<1>3. PICK o : o = x.orders[id]
  OBVIOUS
<1>4. o \in LiveOrder /\ o.type = "Market"
  BY <1>1, <1>3, Fields DEF Live
<1>5. PICK qty : qty = MarketFillQty(x, o, fallback)
  OBVIOUS
<1>6. y = IF MarketPrice(x, o.side, fallback) = NoPrice
          THEN SetState(x, id, "Rejected") ELSE [x EXCEPT !.orders[id] = AfterExecution(o, qty)]
  BY <1>3, <1>5 DEF FillMarketImmediately
<1>7. CASE MarketPrice(x, o.side, fallback) = NoPrice
  <2>1. "Rejected" \in OrderState /\ "Rejected" # "Filled" /\ StateOf(x, id) # "Filled"
    BY DEF OrderState
  <2>2. SetState(x, id, "Rejected").orders[id] = [x.orders[id] EXCEPT !.state = "Rejected"]
    BY <2>1, StateChanges
  <2>3. y.orders[id] = [o EXCEPT !.state = "Rejected"]
    BY <1>3, <1>6, <1>7, <2>2
  <2>4. y.orders[id].state = "Rejected" /\ y.orders[id].type = "Market"
    BY <1>4, <2>3 DEF LiveOrder
  <2>5. QED
    BY <1>2, <2>4
<1>8. CASE MarketPrice(x, o.side, fallback) # NoPrice
  <2>1. y.orders[id] = AfterExecution(o, qty)
    BY <1>1, <1>6, <1>8, OneOrderOthers
  <2>2. /\ AfterExecution(o, qty).type = "Market"
        /\ AfterExecution(o, qty).state \in {"Filled", "PartiallyFilled"}
    BY <1>4 DEF AfterExecution, AfterFill, LiveOrder
  <2>3. QED
    BY <1>2, <2>1, <2>2
<1>9. QED
  BY <1>7, <1>8

\* Two reports on one order, the second the final one.
LEMMA TwoReportsOn ==
  ASSUME NEW id, NEW a \in ReportRecord, NEW b \in ReportRecord, a.id = id, b.id = id,
         ~IsTerminal(a.status), IsTerminal(b.status), NEW state, IsTerminal(state)
  PROVE  ReportsOn(<<a, b>>, id, state)
<1>1. /\ <<a, b>> \in Seq(ReportRecord) /\ Len(<<a, b>>) = 2
      /\ <<a, b>>[1] = a /\ <<a, b>>[2] = b
  OBVIOUS
<1> DEFINE s == <<a, b>>
<1> HIDE DEF s
<1>2. s \in Seq(ReportRecord) /\ Len(s) = 2 /\ s[1] = a /\ s[2] = b
  BY <1>1 DEF s
<1>3. \A i \in 1 .. Len(s) : i = 1 \/ i = 2
  BY <1>2
<1>4. OneEnd(s) /\ \A i \in 1 .. Len(s) : s[i].id = id
  BY <1>2, <1>3 DEF OneEnd
<1>5. 2 \in 1 .. Len(s) /\ EndsOrder(s[2], id)
  BY <1>2 DEF EndsOrder
<1>6. ReportsOn(s, id, state)
  BY <1>2, <1>4, <1>5 DEF ReportsOn
<1>7. QED
  BY <1>6 DEF s

(***************************************************************************)
(* The execution of a market order ends it, with one final report.         *)
(***************************************************************************)
LEMMA MarketExecutes ==
  ASSUME config \in Configs, now' \in Nat, NEW q, QueueFrom(q, now'),
         NEW x, GoodExchange(x), NEW id \in Live(x),
         x.orders[id].type = "Market", StateOf(x, id) = "PendingNew",
         NEW fallback \in Prices \cup {NoPrice},
         NEW done, done = MarketExecution(x, id, fallback),
         NEW y, y = done.exchange, NEW reports, reports = done.reports
  PROVE  /\ GoodExchange(y) /\ Live(y) = Live(x)
         /\ \A i \in Live(x) : i # id => y.orders[i] = x.orders[i]
         /\ y.orders[id].type = "Market" /\ IsTerminal(y.orders[id].state)
         /\ ReportsOn(reports, id, y.orders[id].state)
         /\ reports[1] \in ReportRecord /\ reports[1].id = id
<1>1. PICK price : price = MarketPrice(x, x.orders[id].side, fallback)
  OBVIOUS
<1>2. PICK filled : filled = FillMarketImmediately(x, id, fallback)
  OBVIOUS
<1>3. PICK rest : rest = SetState(filled, id, "Cancelled")
  OBVIOUS
<1>4. PICK a : a = Report(filled, id, filled.orders[id].filled, price)
  OBVIOUS
<1>5. PICK b : b = Report(rest, id, 0, NoPrice)
  OBVIOUS
<1>6. done = IF StateOf(filled, id) = "PartiallyFilled"
             THEN [exchange |-> rest, reports |-> <<a, b>>]
             ELSE [exchange |-> filled, reports |-> <<a>>]
  BY <1>1, <1>2, <1>3, <1>4, <1>5 DEF MarketExecution, ForceCancelPartialFill
<1>7. /\ GoodExchange(filled) /\ Live(filled) = Live(x)
      /\ \A i \in Live(x) : i # id => filled.orders[i] = x.orders[i]
      /\ filled.orders[id].type = "Market"
      /\ filled.orders[id].state \in {"Rejected", "Filled", "PartiallyFilled"}
  BY <1>2, MarketFilled
<1>8. filled.orders[id] \in LiveOrder
  BY <1>7, Fields DEF GoodExchange, Live
<1>9. price \in Prices \cup {NoPrice} /\ filled.orders[id].filled \in Nat
  BY <1>1, <1>8, MarketPriceType DEF LiveOrder
<1>10. a \in ReportRecord /\ a.id = id /\ a.status = filled.orders[id].state
  BY <1>4, <1>7, <1>9, ReportType
<1>11. CASE StateOf(filled, id) = "PartiallyFilled"
  <2>1. "Cancelled" \in OrderState /\ "Cancelled" # "Filled" /\ StateOf(filled, id) # "Filled"
    BY <1>11 DEF OrderState
  <2>2. /\ GoodExchange(rest) /\ Live(rest) = Live(filled)
        /\ \A i \in Live(filled) : i # id => rest.orders[i] = filled.orders[i]
        /\ rest.orders[id] = [filled.orders[id] EXCEPT !.state = "Cancelled"]
    BY <1>3, <1>7, <2>1, StateChanges
  <2>3. rest.orders[id].state = "Cancelled" /\ rest.orders[id].type = "Market"
    BY <1>7, <1>8, <2>2 DEF LiveOrder
  <2>4. b \in ReportRecord /\ b.id = id /\ b.status = rest.orders[id].state
    <3>1. id \in Live(rest) /\ GoodExchange(rest)
      BY <1>7, <2>2
    <3>2. QED
      BY <1>5, <3>1, ReportType
  <2>5. ~IsTerminal(a.status) /\ IsTerminal(b.status) /\ IsTerminal(rest.orders[id].state)
    BY <1>10, <1>11, <2>3, <2>4 DEF IsTerminal, Terminal, StateOf
  <2>6. ReportsOn(<<a, b>>, id, rest.orders[id].state)
    BY <1>10, <2>4, <2>5, TwoReportsOn
  <2>7. y = rest /\ reports = <<a, b>> /\ reports[1] = a
    BY <1>6, <1>11
  <2>8. \A i \in Live(x) : i # id => rest.orders[i] = x.orders[i]
    BY <1>7, <2>2
  <2>9. GoodExchange(rest) /\ Live(rest) = Live(x)
    BY <1>7, <2>2
  <2>10. QED
    BY <1>10, <2>3, <2>5, <2>6, <2>7, <2>8, <2>9
<1>12. CASE StateOf(filled, id) # "PartiallyFilled"
  <2>1. IsTerminal(filled.orders[id].state)
    BY <1>7, <1>12 DEF IsTerminal, Terminal, StateOf
  <2>2. ReportsOn(<<a>>, id, filled.orders[id].state)
    BY <1>10, OneReportOn
  <2>3. y = filled /\ reports = <<a>> /\ reports[1] = a
    BY <1>6, <1>12
  <2>4. QED
    BY <1>7, <1>10, <2>1, <2>2, <2>3
<1>13. QED
  BY <1>11, <1>12

\* The fill that a report stands for.
LEMMA FillType ==
  ASSUME NEW x, WellTyped(x), NEW symbol \in Symbols, NEW r \in ReportRecord, r.id \in Live(x),
         NEW bps \in Nat
  PROVE  FillOf(x, symbol, r, bps) \in FillRecord
<1>1. x.orders[r.id] \in LiveOrder
  BY Fields DEF Live
<1>2. x.orders[r.id].side \in Side
  BY <1>1 DEF LiveOrder
<1>3. r.last \in Nat /\ r.price \in Nat
  <2>1. r.last \in Nat /\ r.price \in Prices \cup {NoPrice}
    BY DEF ReportRecord
  <2>2. NoPrice \in Nat /\ Prices \subseteq Nat
    BY PricesAssumption DEF NoPrice
  <2>3. QED
    BY <2>1, <2>2
<1>4. QED
  BY <1>2, <1>3 DEF FillOf, FillRecord

\* A market order's acknowledgement executes it.
LEMMA AckMarketProceeds ==
  ASSUME EngineInv, NEW kind, PopAs(kind), kind # "Timer",
         NEW id, NEW s \in Symbols, id \in Live(exchanges[s]),
         \A i : i # id => ~About(Head(queue), i),
         Times(queue, Finals(id)) = 0, Times(Tail(queue), Acks(id)) = 0,
         exchanges[s].orders[id].type = "Market", StateOf(exchanges[s], id) = "PendingNew",
         AckMarketOrder(id, s), UNCHANGED <<market, next_timer_id>>
  PROVE  Proceeds
<1>1. PICK x : x = exchanges[s]
  OBVIOUS
<1>2. PICK fallback : fallback = truth[s]
  OBVIOUS
<1>3. PICK done : done = MarketExecution(x, id, fallback)
  OBVIOUS
<1>4. PICK y : y = done.exchange
  OBVIOUS
<1>5. PICK reports : reports = done.reports
  OBVIOUS
<1>6. PICK fill : fill = FillOf(x, s, reports[1], config.taker_fee)
  OBVIOUS
<1>7. PICK fills : fills = IF fill.qty > 0 THEN <<fill>> ELSE <<>>
  OBVIOUS
<1>8. PICK q : q = EnqueueReports(Tail(queue), reports)
  OBVIOUS
<1>9. /\ exchanges' = [exchanges EXCEPT ![s] = y]
      /\ BookFills(fills) /\ truth' = truth /\ EndQuietly(q)
  BY <1>1, <1>2, <1>3, <1>4, <1>5, <1>6, <1>7, <1>8 DEF AckMarketOrder
<1>10. GoodExchange(x) /\ WellTyped(x) /\ id \in Live(x)
  BY <1>1, Standing
<1>11. /\ config \in Configs /\ now' \in Nat /\ QueueFrom(Tail(queue), now')
  BY Popped
<1>12. /\ positions \in [Symbols -> Position] /\ guard \in RiskGuard
       /\ fallback \in Prices \cup {NoPrice}
  BY <1>2 DEF EngineInv, BooksInv
<1>13. /\ GoodExchange(y) /\ Live(y) = Live(x)
       /\ \A i \in Live(x) : i # id => y.orders[i] = x.orders[i]
       /\ y.orders[id].type = "Market" /\ IsTerminal(y.orders[id].state)
       /\ ReportsOn(reports, id, y.orders[id].state)
       /\ reports[1] \in ReportRecord /\ reports[1].id = id
  BY <1>1, <1>3, <1>4, <1>5, <1>10, <1>11, <1>12, MarketExecutes
<1>14. PICK state : state = y.orders[id].state
  OBVIOUS
<1>15. PICK ys : ys = [exchanges EXCEPT ![s] = y]
  OBVIOUS
<1>16. GoodMarket(ys) /\ DeskInv(Desk(q), ys, now') /\ Grows(Tail(queue), q)
  <2>1. \A i \in Live(exchanges[s]) : i # id => y.orders[i] = exchanges[s].orders[i]
    BY <1>1, <1>13
  <2>2. GoodExchange(y) /\ Live(y) = Live(exchanges[s]) /\ y.orders[id].type = "Market"
        /\ y.orders[id].state = state /\ ReportsOn(reports, id, state)
    BY <1>1, <1>13, <1>14
  <2>3. IsTerminal(state) /\ state # "PendingNew" /\ state # "PendingCancel"
    BY <1>13, <1>14 DEF IsTerminal, Terminal
  <2>4. QED
    BY <1>8, <1>15, <2>1, <2>2, <2>3, ReportedOrder
<1>17. fill \in FillRecord
  BY <1>6, <1>10, <1>11, <1>13, FillType, ConfigFields
<1>18. fills \in Seq(FillRecord)
  BY <1>7, <1>17
<1>19. /\ positions' \in [Symbols -> Position] /\ guard' \in RiskGuard
       /\ guard.killed => guard'.killed
  BY <1>9, <1>11, <1>12, <1>18, BookFillsKeep
<1>20. GoodMarket(exchanges') /\ DeskInv(Desk(q), exchanges', now')
  BY <1>9, <1>15, <1>16
<1>21. market' = market /\ next_timer_id' = next_timer_id /\ truth' = truth /\ EndQuietly(q)
  BY <1>9
<1>22. QED
  BY <1>16, <1>19, <1>20, <1>21, OrderStepEnds

(***************************************************************************)
(* The exchange acknowledges an order: its acknowledgement always finds    *)
(* the order in PendingNew, where its route says.                          *)
(***************************************************************************)
LEMMA OrderAckProceeds == EngineInv /\ HandleOrderAck => Proceeds
<1> SUFFICES ASSUME EngineInv, HandleOrderAck PROVE Proceeds
  OBVIOUS
<1>1. PICK id : id = Head(queue).id
  OBVIOUS
<1>2. PICK q : q = Tail(queue)
  OBVIOUS
<1>3. /\ PopAs("OrderAck") /\ UNCHANGED <<market, next_timer_id>>
      /\ IF id \notin DOMAIN route THEN ReturnEarly
         ELSE IF IsMarket(exchanges[route[id]], id) THEN AckMarketOrder(id, route[id])
         ELSE AckLimitOrder(id, route[id])
  BY <1>1 DEF HandleOrderAck
<1>4. /\ Head(queue) \in Event /\ Head(queue).kind = "OrderAck" /\ queue \in Seq(Event)
      /\ \A E : Times(queue, E) = Times(q, E) + (IF Head(queue) \in E THEN 1 ELSE 0)
      /\ \A E : Times(queue, E) \in Nat /\ Times(q, E) \in Nat
  BY <1>2, <1>3, Popped
<1>5. /\ Head(queue) \in Acks(id) /\ id \in OrderId
      /\ \A i : i # id => ~About(Head(queue), i)
  <2>1. Head(queue) \in IdEvents
    BY <1>4 DEF Event, PreloadEvent, TickEvents, Deliveries, OrderEvents, ReportEvents, TimerEvents
  <2>2. QED
    BY <1>1, <1>4, <2>1 DEF Acks, IdEvents, About
<1>6. Times(queue, Acks(id)) >= 1 /\ Times(queue, Acks(id)) = Times(q, Acks(id)) + 1
  BY <1>4, <1>5
<1>7. Placed(queue, route, exchanges, id)
  BY <1>5, <1>6, AckMeansPlaced
<1>8. id \in DOMAIN route /\ route[id] \in Symbols
  BY <1>7, Standing DEF Placed
<1>9. PICK s \in Symbols : s = route[id]
  BY <1>8
<1>10. id \in Live(exchanges[s]) /\ StateOf(exchanges[s], id) = "PendingNew"
  BY <1>6, <1>7, <1>9 DEF Placed, Fits, StateOf
<1>11. Times(queue, Finals(id)) = 0 /\ Times(queue, Acks(id)) = 1
  BY <1>7, <1>9, <1>10 DEF Placed, Fits, StateOf, IsTerminal, Terminal
<1>12. Times(Tail(queue), Acks(id)) = 0
  BY <1>2, <1>4, <1>6, <1>11
<1>13. "OrderAck" # "Timer"
  OBVIOUS
<1>14. CASE IsMarket(exchanges[s], id)
  <2>1. AckMarketOrder(id, s)
    BY <1>3, <1>8, <1>9, <1>14
  <2>2. exchanges[s].orders[id].type = "Market"
    BY <1>14 DEF IsMarket
  <2>3. QED
    BY <1>3, <1>5, <1>10, <1>11, <1>12, <1>13, <2>1, <2>2, AckMarketProceeds
<1>15. CASE ~IsMarket(exchanges[s], id)
  <2>1. AckLimitOrder(id, s)
    BY <1>3, <1>8, <1>9, <1>15
  <2>2. PICK y : y = SetState(exchanges[s], id, "Open")
    OBVIOUS
  <2>3. /\ UNCHANGED <<positions, guard, truth>>
        /\ exchanges' = [exchanges EXCEPT ![s] = y]
        /\ EndQuietly(EnqueueReports(Tail(queue), <<Report(y, id, 0, NoPrice)>>))
    BY <1>10, <2>1, <2>2 DEF AckLimitOrder, CanAckNew, AckNew
  <2>4. UNCHANGED <<positions, guard, truth, market, next_timer_id>>
    BY <1>3, <2>3
  <2>5. /\ exchanges[s].orders[id].type # "Market" /\ "Open" \in {"Open", "Cancelled"}
        /\ StateOf(exchanges[s], id) # "Filled"
    BY <1>10, <1>15 DEF IsMarket
  <2>6. QED
    BY <1>3, <1>5, <1>10, <1>11, <1>12, <1>13, <2>2, <2>3, <2>4, <2>5, StateReported
<1>16. QED
  BY <1>14, <1>15

-----------------------------------------------------------------------------
(***************************************************************************)
(* What a trade does to each order: a filled one is Filled or              *)
(* PartiallyFilled, any other keeps its state.                             *)
(***************************************************************************)
LEMMA TradedOrder ==
  ASSUME NEW x, GoodExchange(x), NEW trade \in TickRecord, NEW id \in Live(x),
         NEW y, y = OnTrade(x, trade)
  PROVE  /\ GoodExchange(y) /\ Live(y) = Live(x)
         /\ y.orders[id].type = x.orders[id].type
         /\ IF id \in FilledBy(x, trade)
            THEN /\ x.orders[id].state \in Fillable
                 /\ y.orders[id].state \in {"Filled", "PartiallyFilled"}
                 /\ Answer(x, trade, id).fill \in Nat
            ELSE y.orders[id].state = x.orders[id].state
<1>1. trade.qty \in Nat
  BY DEF TickRecord
<1>2. GoodExchange(y)
  BY <1>1, OnTradeGood
<1>3. /\ WellTyped(x) /\ x.orders \in [Live(x) -> LiveOrder] /\ x.model \in QueueModel
      /\ x = [model |-> x.model, book |-> x.book, orders |-> x.orders, buckets |-> x.buckets]
  BY Fields DEF GoodExchange
<1>4. PICK a : a = Answer(x, trade, id)
  OBVIOUS
<1>5. PICK o : o = x.orders[id]
  OBVIOUS
<1>6. /\ Live(y) = Live(x)
      /\ y.orders[id] = IF id \in Asked(x, trade) THEN AfterAnswer(o, a) ELSE o
  <2> DEFINE orders == [i \in Live(x) |-> IF i \in Asked(x, trade)
                                           THEN AfterAnswer(x.orders[i], Answer(x, trade, i))
                                           ELSE x.orders[i]]
  <2>1. y = [x EXCEPT !.orders = orders]
    BY DEF OnTrade
  <2>2. DOMAIN orders = Live(x)
        /\ orders[id] = IF id \in Asked(x, trade) THEN AfterAnswer(o, a) ELSE o
    BY <1>4, <1>5
  <2> HIDE DEF orders
  <2>3. y.orders = orders
    BY <1>3, <2>1
  <2>4. QED
    BY <2>2, <2>3 DEF Live
<1>7. o \in LiveOrder
  BY <1>3, <1>5
<1>8. AfterAnswer(o, a).type = o.type
  BY <1>7 DEF AfterAnswer, LiveOrder
<1>9. IF a.fill <= 0 THEN AfterAnswer(o, a).state = o.state
      ELSE AfterAnswer(o, a).state \in {"Filled", "PartiallyFilled"}
  BY <1>7 DEF AfterAnswer, LiveOrder, AfterFill
<1>10. id \in Asked(x, trade) =>
         o.remaining \in Nat /\ o.queue \in QueueState /\ o.state \in Fillable /\ a.fill \in Nat
  <2> SUFFICES ASSUME id \in Asked(x, trade)
               PROVE  o.remaining \in Nat /\ o.queue \in QueueState /\ o.state \in Fillable
                      /\ a.fill \in Nat
    OBVIOUS
  <2>1. o.remaining \in Nat /\ o.queue \in QueueState
    BY <1>7 DEF LiveOrder
  <2>2. a.fill \in Nat
    BY <1>1, <1>3, <1>4, <1>5, <2>1, CheckFillBounds DEF Answer
  <2>3. o.state \in Fillable
    BY <1>5 DEF Asked, StateOf
  <2>4. QED
    BY <2>1, <2>2, <2>3
<1>11. id \in FilledBy(x, trade) <=> id \in Asked(x, trade) /\ a.fill > 0
  BY <1>4 DEF FilledBy
<1>12. CASE id \in FilledBy(x, trade)
  <2>1. id \in Asked(x, trade) /\ a.fill \in Nat /\ ~(a.fill <= 0)
    BY <1>10, <1>11, <1>12
  <2>2. QED
    BY <1>2, <1>4, <1>5, <1>6, <1>8, <1>9, <1>10, <1>12, <2>1
<1>13. CASE id \notin FilledBy(x, trade)
  <2>1. id \in Asked(x, trade) => a.fill <= 0
    BY <1>10, <1>11, <1>13
  <2>2. QED
    BY <1>2, <1>5, <1>6, <1>8, <1>9, <1>13, <2>1
<1>14. QED
  BY <1>12, <1>13

\* The ids that on_trade reports on, in bucket order.
TradedIds(x, trade) ==
  IF MakerSide(trade.side) = "None" THEN <<>>
  ELSE Kept(x.buckets[<<trade.price, MakerSide(trade.side)>>], FilledBy(x, trade))

\* A trade goes through the orders it fills, each of them once.
LEMMA TradedIdsAre ==
  ASSUME NEW x, GoodExchange(x), NEW trade \in TickRecord, NEW ids, ids = TradedIds(x, trade)
  PROVE  /\ ids \in Seq(OrderId) /\ Distinct(ids)
         /\ \A i \in 1 .. Len(ids) : ids[i] \in FilledBy(x, trade)
         /\ \A id \in FilledBy(x, trade) : Has(ids, id)
<1>1. WellTyped(x) /\ Indexed(x)
  BY DEF GoodExchange
<1>2. CASE MakerSide(trade.side) = "None"
  <2>1. ids = <<>> /\ FilledBy(x, trade) = {}
    BY <1>2 DEF TradedIds, FilledBy, Asked
  <2>2. Len(ids) = 0
    BY <2>1
  <2>3. QED
    BY <2>1, <2>2 DEF Distinct
<1>3. CASE MakerSide(trade.side) # "None"
  <2>1. PICK key : key = <<trade.price, MakerSide(trade.side)>>
    OBVIOUS
  <2>2. key \in BucketKey
    <3>1. trade.price \in Prices /\ MakerSide(trade.side) \in Side
      BY DEF TickRecord, MakerSide, Side
    <3>2. QED
      BY <2>1, <3>1 DEF BucketKey
  <2>3. PICK b : b = x.buckets[key]
    OBVIOUS
  <2>4. b \in Seq(OrderId) /\ DOMAIN b = 1 .. Len(b) /\ Len(b) \in Nat
    BY <1>1, <2>2, <2>3, Fields
  <2>5. Distinct(b)
    BY <1>1, <2>2, <2>3, <2>4 DEF Indexed, Distinct
  <2>6. \A id \in FilledBy(x, trade) : Has(b, id)
    BY <2>1, <2>3, <2>4 DEF FilledBy, Asked, InBucket, Has
  <2>7. PICK T : T = FilledBy(x, trade)
    OBVIOUS
  <2>8. ids = Kept(b, T)
    BY <1>3, <2>1, <2>3, <2>7 DEF TradedIds
  <2>9. ids \in Seq(OrderId \cap T)
    BY <2>4, <2>8, KeptType
  <2>10. ids \in Seq(OrderId)
    BY <2>9
  <2>11. \A e : Has(ids, e) <=> e \in T /\ Has(b, e)
    BY <2>4, <2>8, KeptPlaces DEF KeepsPlaces
  <2>12. Distinct(ids)
    BY <2>4, <2>5, <2>8, KeptPlaces DEF KeepsPlaces
  <2>13. \A i \in 1 .. Len(ids) : ids[i] \in T
    BY <2>9
  <2>14. \A id \in T : Has(ids, id)
    BY <2>6, <2>7, <2>11
  <2>15. QED
    BY <2>7, <2>10, <2>12, <2>13, <2>14
<1>4. QED
  BY <1>2, <1>3

(***************************************************************************)
(* The reports of a trade: one for each order it fills.                    *)
(***************************************************************************)
LEMMA TradeReports ==
  ASSUME NEW x, GoodExchange(x), NEW trade \in TickRecord,
         NEW y, y = OnTrade(x, trade), NEW reports, reports = OnTradeReports(x, trade)
  PROVE  /\ reports \in Seq(ReportRecord) /\ OneEnd(reports)
         /\ \A i \in 1 .. Len(reports) : reports[i].id \in FilledBy(x, trade)
         /\ \A id : (\E i \in 1 .. Len(reports) : EndsOrder(reports[i], id))
                      <=> id \in FilledBy(x, trade) /\ IsTerminal(y.orders[id].state)
<1>1. PICK ids : ids = TradedIds(x, trade)
  OBVIOUS
<1>2. /\ ids \in Seq(OrderId) /\ Distinct(ids)
      /\ \A i \in 1 .. Len(ids) : ids[i] \in FilledBy(x, trade)
      /\ \A id \in FilledBy(x, trade) : Has(ids, id)
  BY <1>1, TradedIdsAre
<1> DEFINE report(id) == Report(y, id, Answer(x, trade, id).fill, trade.price)
<1>3. reports = [i \in DOMAIN ids |-> report(ids[i])]
  BY <1>1 DEF OnTradeReports, TradedIds
<1>4. ASSUME NEW id \in FilledBy(x, trade)
      PROVE  /\ report(id) \in ReportRecord /\ report(id).id = id
             /\ report(id).status = y.orders[id].state
  <2>1. id \in Live(x)
    BY DEF FilledBy, Asked
  <2>2. GoodExchange(y) /\ id \in Live(y) /\ Answer(x, trade, id).fill \in Nat
    BY <2>1, TradedOrder
  <2>3. trade.price \in Prices \cup {NoPrice}
    BY DEF TickRecord
  <2>4. QED
    BY <2>2, <2>3, ReportType
<1> HIDE DEF report
<1>5. DOMAIN ids = 1 .. Len(ids) /\ Len(ids) \in Nat
  BY <1>2
<1>6. /\ \A i \in 1 .. Len(ids) : reports[i] = report(ids[i])
      /\ \A i \in 1 .. Len(ids) : reports[i] \in ReportRecord
  BY <1>2, <1>3, <1>4, <1>5
<1>7. reports \in [1 .. Len(ids) -> ReportRecord]
  BY <1>3, <1>5, <1>6
<1>8. reports \in Seq(ReportRecord) /\ Len(reports) = Len(ids)
  BY <1>5, <1>7
<1>9. \A i \in 1 .. Len(reports) : /\ reports[i].id = ids[i] /\ ids[i] \in FilledBy(x, trade)
                                   /\ reports[i].status = y.orders[ids[i]].state
  BY <1>2, <1>4, <1>6, <1>8
<1>10. OneEnd(reports)
  BY <1>2, <1>8, <1>9 DEF OneEnd, Distinct
<1>11. ASSUME NEW id
       PROVE  (\E i \in 1 .. Len(reports) : EndsOrder(reports[i], id))
                <=> id \in FilledBy(x, trade) /\ IsTerminal(y.orders[id].state)
  <2>1. ASSUME NEW i \in 1 .. Len(reports), EndsOrder(reports[i], id)
        PROVE  id \in FilledBy(x, trade) /\ IsTerminal(y.orders[id].state)
    BY <1>9, <2>1 DEF EndsOrder
  <2>2. ASSUME id \in FilledBy(x, trade), IsTerminal(y.orders[id].state)
        PROVE  \E i \in 1 .. Len(reports) : EndsOrder(reports[i], id)
    <3>1. PICK i \in 1 .. Len(ids) : ids[i] = id
      BY <1>2, <2>2 DEF Has
    <3>2. i \in 1 .. Len(reports) /\ EndsOrder(reports[i], id)
      BY SMTT(60), <1>8, <1>9, <2>2, <3>1 DEF EndsOrder
    <3>3. QED
      BY <3>2
  <2>3. QED
    BY <2>1, <2>2
<1>12. QED
  BY <1>8, <1>9, <1>10, <1>11

(***************************************************************************)
(* A tick reaches the exchange: the orders it fills have their reports on  *)
(* their way, the others are as before.                                    *)
(***************************************************************************)
LEMMA TickDesk ==
  ASSUME EngineInv, PopAs("Tick"), NEW tick \in TickRecord, NEW s, s = tick.symbol,
         NEW x, x = exchanges[s], NEW y, y = OnTrade(x, tick),
         NEW reports, reports = OnTradeReports(x, tick),
         NEW r, r = EnqueueReports(Tail(queue), reports),
         NEW ys, ys = [exchanges EXCEPT ![s] = y]
  PROVE  GoodMarket(ys) /\ DeskInv(Desk(r), ys, now') /\ Grows(Tail(queue), r)
<1>1. PICK q : q = Tail(queue)
  OBVIOUS
<1>2. /\ config \in Configs /\ now' \in Nat /\ Head(queue).kind = "Tick" /\ Head(queue) \in Event
      /\ q \in Seq(Event) /\ QueueFrom(q, now') /\ queue \in Seq(Event) /\ queue # <<>>
      /\ \A E : Times(queue, E) = Times(q, E) + (IF Head(queue) \in E THEN 1 ELSE 0)
      /\ \A E : Times(queue, E) \in Nat /\ Times(q, E) \in Nat
  BY <1>1, Popped
<1>3. \A id : ~About(Head(queue), id)
  BY <1>2 DEF About
<1>4. \A id : SameEvents(queue, q, id)
  BY <1>1, <1>2, <1>3, PopSame
<1>5. s \in Symbols
  BY DEF TickRecord
<1>6. GoodMarket(exchanges) /\ GoodExchange(x)
  BY <1>5, Standing
<1>7. \A id \in Live(x) :
        /\ GoodExchange(y) /\ Live(y) = Live(x)
        /\ y.orders[id].type = x.orders[id].type
        /\ IF id \in FilledBy(x, tick)
           THEN /\ x.orders[id].state \in Fillable
                /\ y.orders[id].state \in {"Filled", "PartiallyFilled"}
           ELSE y.orders[id].state = x.orders[id].state
  BY <1>6, TradedOrder
<1>8. GoodExchange(y) /\ Live(y) = Live(x)
  <2>1. tick.qty \in Nat
    BY DEF TickRecord
  <2>2. x = [model |-> x.model, book |-> x.book, orders |-> x.orders, buckets |-> x.buckets]
    BY <1>6, Fields DEF GoodExchange
  <2>3. Live(y) = Live(x)
    BY <2>2 DEF OnTrade, Live
  <2>4. QED
    BY <1>6, <2>1, <2>3, OnTradeGood
<1>9. /\ reports \in Seq(ReportRecord) /\ OneEnd(reports)
      /\ \A i \in 1 .. Len(reports) : reports[i].id \in FilledBy(x, tick)
      /\ \A id : (\E i \in 1 .. Len(reports) : EndsOrder(reports[i], id))
                      <=> id \in FilledBy(x, tick) /\ IsTerminal(y.orders[id].state)
  BY <1>6, TradeReports
<1>10. /\ QueueFrom(r, now') /\ Grows(q, r)
       /\ \A id : (\A i \in 1 .. Len(reports) : ~EndsOrder(reports[i], id)) =>
                    SameEvents(q, r, id)
       /\ \A id : OneEnd(reports) /\ (\E i \in 1 .. Len(reports) : EndsOrder(reports[i], id)) =>
                    /\ Times(r, OrdersFor(id)) = Times(q, OrdersFor(id))
                    /\ Times(r, Acks(id)) = Times(q, Acks(id))
                    /\ Times(r, Finals(id)) = Times(q, Finals(id)) + 1
                    /\ Times(r, CancelAcks(id)) = Times(q, CancelAcks(id))
  <2>1. r = EnqueueReports(q, reports)
    BY <1>1
  <2>2. reports \in Seq(ReportRecord)
    BY <1>9
  <2>3. QED
    BY <1>2, <2>1, <2>2, ReportsJoin
<1>11. r \in Seq(Event)
  BY SMTT(60), <1>10 DEF QueueFrom
<1>12. /\ GoodMarket(ys) /\ ys[s] = y
       /\ \A k \in Symbols : k # s => ys[k] = exchanges[k]
       /\ \A id : /\ id \in Live(y) <=> id \in Live(x)
                  /\ id \in Live(y) => /\ y.orders[id].type = x.orders[id].type
                                       /\ y.orders[id].state = x.orders[id].state
                  => SameStatus(exchanges, ys, id)
  <2> DEFINE zs == [exchanges EXCEPT ![s] = y]
  <2>1. GoodMarket(zs) /\ zs[s] = y /\ \A k \in Symbols : k # s => zs[k] = exchanges[k]
    <3>1. zs[s] = y /\ \A k \in Symbols : k # s => zs[k] = exchanges[k]
      BY <1>5, <1>6 DEF GoodMarket
    <3>2. DOMAIN zs = Symbols
      BY <1>6 DEF GoodMarket
    <3> HIDE DEF zs
    <3>3. GoodMarket(zs)
      BY <1>6, <1>8, <3>1, <3>2 DEF GoodMarket
    <3>4. QED
      BY <3>1, <3>3
  <2>2. ASSUME NEW id, id \in Live(y) <=> id \in Live(x),
               id \in Live(y) => /\ y.orders[id].type = x.orders[id].type
                                 /\ y.orders[id].state = x.orders[id].state
        PROVE  SameStatus(exchanges, zs, id)
    BY <1>5, <1>6, <1>8, <2>2, OneExchange
  <2>3. zs = ys
    OBVIOUS
  <2> HIDE DEF zs
  <2>4. QED
    BY <2>1, <2>2, <2>3
<1>13. ASSUME NEW id \in OrderId, id \notin FilledBy(x, tick)
       PROVE  SameEvents(queue, r, id) /\ SameStatus(exchanges, ys, id)
  <2>1. SameEvents(q, r, id)
    BY <1>9, <1>10, <1>13
  <2>2. SameEvents(queue, r, id)
    BY SMTT(60), <1>2, <1>4, <1>11, <2>1, SameEventsCompose
  <2>3. SameStatus(exchanges, ys, id)
    BY <1>7, <1>8, <1>12, <1>13
  <2>4. QED
    BY <2>2, <2>3
<1>14. ASSUME NEW id \in OrderId, id \in FilledBy(x, tick)
       PROVE  Life(r, route, ys, id) /\ id \in DOMAIN route
  <2>1. id \in Live(x)
    BY <1>14 DEF FilledBy, Asked
  <2>2. /\ id \in DOMAIN route /\ route[id] = s
        /\ Placed(queue, route, exchanges, id)
    BY <1>5, <2>1, LiveIsPlaced
  <2>3. PICK state : state = x.orders[id].state
    OBVIOUS
  <2>4. PICK type : type = x.orders[id].type
    OBVIOUS
  <2>5. Fits(queue, type, state, id)
    BY <2>2, <2>3, <2>4 DEF Placed
  <2>6. state \in Fillable
    BY <1>7, <1>14, <2>1, <2>3
  <2>7. /\ Times(queue, Acks(id)) = 0 /\ Times(queue, Finals(id)) = 0 /\ type # "Market"
        /\ Times(queue, OrdersFor(id)) = 0
    BY <2>2, <2>5, <2>6 DEF Fits, Placed, Fillable, IsTerminal, Terminal
  <2>8. /\ Times(q, Acks(id)) = 0 /\ Times(q, Finals(id)) = 0 /\ Times(q, OrdersFor(id)) = 0
    BY <1>4, <2>7 DEF SameEvents
  <2>9. PICK new : new = y.orders[id].state
    OBVIOUS
  <2>10. new \in {"Filled", "PartiallyFilled"} /\ y.orders[id].type = type
    BY <1>7, <1>14, <2>1, <2>4, <2>9
  <2>11. /\ Times(r, Acks(id)) = 0 /\ Times(r, OrdersFor(id)) = 0
         /\ Times(r, Finals(id)) = IF IsTerminal(new) THEN 1 ELSE 0
    <3>1. CASE IsTerminal(new)
      <4>1. \E i \in 1 .. Len(reports) : EndsOrder(reports[i], id)
        BY <1>9, <1>14, <2>9, <3>1
      <4>2. /\ Times(r, OrdersFor(id)) = Times(q, OrdersFor(id))
            /\ Times(r, Acks(id)) = Times(q, Acks(id))
            /\ Times(r, Finals(id)) = Times(q, Finals(id)) + 1
        BY <1>9, <1>10, <4>1
      <4>3. QED
        BY <2>8, <3>1, <4>2
    <3>2. CASE ~IsTerminal(new)
      <4>1. \A i \in 1 .. Len(reports) : ~EndsOrder(reports[i], id)
        BY <1>9, <2>9, <3>2
      <4>2. SameEvents(q, r, id)
        BY <1>10, <4>1
      <4>3. QED
        BY <2>8, <3>2, <4>2 DEF SameEvents
    <3>3. QED
      BY <3>1, <3>2
  <2>12. Fits(r, type, new, id)
    BY <2>7, <2>10, <2>11 DEF Fits
  <2>13. \A k \in Symbols : id \in Live(ys[k]) <=> k = s
    <3>1. \A k \in Symbols : id \in Live(exchanges[k]) <=> k = s
      BY SMTT(60), <2>2 DEF Placed
    <3>2. QED
      BY <1>8, <1>12, <2>1, <3>1
  <2>14. Placed(r, route, ys, id)
    BY <1>12, <2>2, <2>9, <2>10, <2>11, <2>12, <2>13 DEF Placed
  <2>15. QED
    BY <2>2, <2>14 DEF Life
<1>15. DeskInv(Desk(r), ys, now')
  <2>1. DeskInv(Now, exchanges, now)
    BY DEF EngineInv
  <2>2. QED
    BY <1>2, <1>10, <1>13, <1>14, <2>1, HandlerDeskKept
<1>16. QED
  BY <1>1, <1>10, <1>12, <1>15

\* HandleTick.
LEMMA TickProceeds == EngineInv /\ HandleTick => Proceeds
<1> SUFFICES ASSUME EngineInv, HandleTick PROVE Proceeds
  OBVIOUS
<1>1. PICK tick : tick = Head(queue).tick
  OBVIOUS
<1>2. PICK s : s = tick.symbol
  OBVIOUS
<1>3. PICK x : x = exchanges[s]
  OBVIOUS
<1>4. PICK y : y = OnTrade(x, tick)
  OBVIOUS
<1>5. PICK reports : reports = OnTradeReports(x, tick)
  OBVIOUS
<1>6. PICK fills : fills = [i \in DOMAIN reports |-> FillOf(x, s, reports[i], config.maker_fee)]
  OBVIOUS
<1>7. PICK r : r = EnqueueReports(Tail(queue), reports)
  OBVIOUS
<1>8. /\ PopAs("Tick") /\ market' = market /\ next_timer_id' = next_timer_id
      /\ truth' = [truth EXCEPT ![s] = tick.price]
      /\ exchanges' = [exchanges EXCEPT ![s] = y]
      /\ BookFills(fills) /\ EndQuietly(r)
  BY <1>1, <1>2, <1>3, <1>4, <1>5, <1>6, <1>7 DEF HandleTick
<1>9. /\ Head(queue) \in Event /\ Head(queue).kind = "Tick" /\ config \in Configs
  BY <1>8, Popped
<1>10. tick \in TickRecord
  BY <1>1, <1>9 DEF Event, PreloadEvent, TickEvents, Deliveries, OrderEvents, IdEvents,
                    ReportEvents, TimerEvents
<1>11. s \in Symbols /\ tick.price \in Prices
  BY <1>2, <1>10 DEF TickRecord
<1>12. PICK ys : ys = [exchanges EXCEPT ![s] = y]
  OBVIOUS
<1>13. GoodMarket(ys) /\ DeskInv(Desk(r), ys, now') /\ Grows(Tail(queue), r)
  BY <1>2, <1>3, <1>4, <1>5, <1>7, <1>8, <1>10, <1>12, TickDesk
<1>14. GoodExchange(x) /\ WellTyped(x)
  BY <1>3, <1>11, Standing
<1>15. reports \in Seq(ReportRecord) /\ \A i \in 1 .. Len(reports) : reports[i].id \in Live(x)
  BY <1>4, <1>5, <1>10, <1>14, TradeReports DEF FilledBy, Asked
<1>16. fills \in Seq(FillRecord)
  <2>1. DOMAIN reports = 1 .. Len(reports) /\ Len(reports) \in Nat
    BY <1>15
  <2>2. config.maker_fee \in Nat
    BY <1>9, ConfigFields
  <2>3. \A i \in 1 .. Len(reports) : FillOf(x, s, reports[i], config.maker_fee) \in FillRecord
    BY <1>11, <1>14, <1>15, <2>1, <2>2, FillType
  <2>4. fills \in [1 .. Len(reports) -> FillRecord]
    BY <1>6, <2>1, <2>3
  <2>5. QED
    BY <2>1, <2>4
<1>17. /\ positions \in [Symbols -> Position] /\ guard \in RiskGuard
       /\ truth \in [Symbols -> Prices \cup {NoPrice}]
  BY DEF EngineInv, BooksInv
<1>18. /\ positions' \in [Symbols -> Position] /\ guard' \in RiskGuard
       /\ guard.killed => guard'.killed
  BY <1>8, <1>9, <1>16, <1>17, BookFillsKeep
<1>19. truth' \in [Symbols -> Prices \cup {NoPrice}]
  BY <1>8, <1>11, <1>17
<1>20. exchanges' = ys
  BY <1>8, <1>12
<1>21. BooksInv'
  BY <1>13, <1>18, <1>19, <1>20 DEF BooksInv, GoodMarket
<1>22. PICK d : d = Desk(r)
  OBVIOUS
<1>23. /\ DeskInv(d, exchanges', now') /\ Grows(Tail(queue), d.queue)
       /\ DOMAIN d.route \subseteq DOMAIN route
       /\ EndStep(d, tick_buffer, report_buffer, timer, FALSE)
  BY <1>8, <1>13, <1>20, <1>22 DEF EndQuietly, Desk
<1>24. "Tick" # "Timer" /\ FALSE \in BOOLEAN
  OBVIOUS
<1>25. QED
  BY <1>8, <1>18, <1>21, <1>23, <1>24, StepEndsPlainly

-----------------------------------------------------------------------------
(***************************************************************************)
(* The start of a run.                                                     *)
(***************************************************************************)
LEMMA FirstQueue ==
  ASSUME NEW events \in Preloads, NEW q, q = FoldLeft(Enqueue, <<>>, events)
  PROVE  /\ QueueFrom(q, 0) /\ q \in Seq(Event)
         /\ \A id : /\ Times(q, OrdersFor(id)) = 0 /\ Times(q, Acks(id)) = 0
                    /\ Times(q, Finals(id)) = 0
<1>1. PICK e : e = <<>>
  OBVIOUS
<1>2. /\ e \in Seq(Event) /\ Len(e) = 0
  BY <1>1
<1>3. QueueFrom(e, 0)
  BY <1>2 DEF QueueFrom, Sorted, Followed
<1>4. PreloadEvent \subseteq Later(0)
      /\ \A v \in PreloadEvent : v.kind \in {"L2Update", "Funding"}
  BY DEF PreloadEvent, Later, Event
<1>5. events \in Seq(PreloadEvent)
  BY EngineAssumption
<1>6. events \in Seq(Later(0)) /\ \A i \in 1 .. Len(events) : events[i].kind \in {"L2Update", "Funding"}
  <2>1. events \in Seq(Later(0))
    BY <1>4, <1>5, SeqMonotonic
  <2>2. \A i \in 1 .. Len(events) : events[i] \in PreloadEvent
    BY <1>5
  <2>3. QED
    BY <1>4, <2>1, <2>2
<1>7. QueueFrom(q, 0)
  <2>1. QueueFrom(FoldLeft(Enqueue, e, events), 0)
    BY <1>3, <1>6, PushAll
  <2>2. QED
    BY <1>1, <2>1
<1>8. ASSUME NEW id
      PROVE  /\ Times(q, OrdersFor(id)) = 0 /\ Times(q, Acks(id)) = 0
             /\ Times(q, Finals(id)) = 0
  <2>1. \A i \in 1 .. Len(events) : ~About(events[i], id)
    BY <1>6 DEF About
  <2>2. SameEvents(e, FoldLeft(Enqueue, e, events), id)
    BY <1>3, <1>6, <2>1, PushAllSame
  <2>3. ASSUME NEW E PROVE Times(e, E) = 0
    <3>1. e \in Seq(Event)
      BY <1>2
    <3>2. Times(e, E) = 0 <=> \A i \in 1 .. Len(e) : e[i] \notin E
      BY <3>1, NoTimes
    <3>3. 1 .. Len(e) = {}
      BY <1>2
    <3>4. QED
      BY <3>2, <3>3
  <2>4. Times(e, OrdersFor(id)) = 0 /\ Times(e, Acks(id)) = 0 /\ Times(e, Finals(id)) = 0
    BY <2>3
  <2>5. QED
    BY <1>1, <2>2, <2>4 DEF SameEvents
<1>9. QED
  BY <1>7, <1>8 DEF QueueFrom

\* The desk before the first step.
LEMMA FirstDesk ==
  ASSUME config \in Configs, NEW events \in Preloads, queue = FoldLeft(Enqueue, <<>>, events),
         exchanges = [s \in Symbols |-> NewExchange(config.model)],
         route = <<>>, next_order_id = 1, seen = <<>>
  PROVE  DeskInv(Now, exchanges, 0)
<1>1. /\ QueueFrom(queue, 0)
      /\ \A id : /\ Times(queue, OrdersFor(id)) = 0 /\ Times(queue, Acks(id)) = 0
                 /\ Times(queue, Finals(id)) = 0
  BY FirstQueue
<1>2. DOMAIN route = {} /\ DOMAIN seen = {}
  OBVIOUS
<1>3. \A s \in Symbols : Live(exchanges[s]) = {}
  BY DEF NewExchange, Live
<1>4. \A id \in OrderId : Life(queue, route, exchanges, id)
  BY <1>1, <1>2, <1>3 DEF Life, Gone
<1>5. Cardinality({}) = 0 /\ config.max_open_orders \in Nat
  BY FS_EmptySet, ConfigFields
<1>6. /\ DOMAIN Now = {"queue", "route", "next_order_id", "cancels", "seen"}
      /\ Now.queue = queue /\ Now.route = route /\ Now.next_order_id = 1 /\ Now.seen = seen
  BY DEF Now, Desk
<1> HIDE DEF Now
<1>7. 1 \in OrderId /\ 1 .. 1 - 1 = {}
  BY DEF OrderId
<1>8. Cardinality(DOMAIN route) = 0
  BY <1>2, <1>5
<1>9. QED
  BY <1>1, <1>2, <1>4, <1>5, <1>6, <1>7, <1>8 DEF DeskInv

\* The buffers and the tuner before the first step.
LEMMA FirstBatch ==
  ASSUME config \in Configs, tick_buffer = <<>>, report_buffer = <<>>, timer = NoTimer,
         next_timer_id = 1, pending_wakeup = FALSE,
         tuner = NewTuner(config.max_batch), max_batch = config.max_batch
  PROVE  BatchInv
<1>1. config.max_batch \in Nat /\ config.auto_tune \in BOOLEAN
  BY ConfigFields
<1>2. /\ LongestBatch \in Nat /\ config.max_batch <= LongestBatch
      /\ LongestBatch = IF ~config.auto_tune THEN config.max_batch
                        ELSE Greater(TunerFloor, IF config.max_batch > 0 THEN config.max_batch
                                                 ELSE TunerDefault)
  BY LongestBatchIs
<1>3. /\ WithinLimits(tuner)
      /\ tuner.max = Greater(TunerFloor, IF config.max_batch > 0 THEN config.max_batch
                                         ELSE TunerDefault)
  BY <1>1, NewTunerWithinLimits
<1>4. config.auto_tune => tuner.max <= LongestBatch
  <2>1. ASSUME config.auto_tune PROVE tuner.max = LongestBatch
    BY <1>2, <1>3, <2>1
  <2>2. QED
    BY <1>2, <2>1
<1>5. TuningInv
  BY <1>1, <1>2, <1>3, <1>4 DEF TuningInv
<1>6. Buffered(queue, tick_buffer, report_buffer, timer, next_timer_id, pending_wakeup)
  BY DEF Buffered, NoTimer
<1>7. QED
  BY <1>5, <1>6 DEF BatchInv

\* A run starts in the invariant.
LEMMA InitHolds == Init => EngineInv
<1> SUFFICES ASSUME Init PROVE EngineInv
  OBVIOUS
<1>1. /\ config \in Configs /\ now = 0 /\ source \in Upcoming(1, 0)
      /\ exchanges = [s \in Symbols |-> NewExchange(config.model)]
      /\ positions = [s \in Symbols |-> NoPosition] /\ guard = NewGuard
      /\ market = [s \in Symbols |-> <<>>] /\ truth = [s \in Symbols |-> NoPrice]
      /\ tick_buffer = <<>>
  BY DEF Init
<1>2. SourceInv
  <2>1. ASSUME source # <<>>
        PROVE  source = <<Head(source)>> /\ Head(source) \in Shown /\ Head(source).ts >= 1
    BY <1>1, <2>1, UpcomingIsShown
  <2>2. ASSUME source # <<>> PROVE Head(source).ts >= 0
    <3>1. Head(source).ts \in Nat
      BY <2>1, <2>2 DEF Shown, TickRecord
    <3>2. QED
      BY <3>1
  <2>3. QED
    BY <1>1, <2>1, <2>2 DEF SourceInv
<1>3. BooksInv
  <2>1. config.model \in QueueModel
    BY <1>1, ConfigFields
  <2>2. GoodMarket(exchanges)
    BY <1>1, <2>1, NewExchangeGood DEF GoodMarket
  <2>3. positions \in [Symbols -> Position] /\ guard \in RiskGuard
    BY <1>1 DEF NoPosition, Position, NewGuard, RiskGuard
  <2>4. truth \in [Symbols -> Prices \cup {NoPrice}]
    BY <1>1
  <2>5. QED
    BY <2>2, <2>3, <2>4 DEF BooksInv
<1>4. SeenInv
  BY <1>1 DEF SeenInv, Reached
<1>5. DeskInv(Now, exchanges, now)
  <2>1. PICK events \in Preloads : queue = FoldLeft(Enqueue, <<>>, events)
    BY DEF Init
  <2>2. route = <<>> /\ next_order_id = 1 /\ seen = <<>>
    BY DEF Init
  <2>3. QED
    BY <1>1, <2>1, <2>2, FirstDesk
<1>6. BatchInv
  BY FirstBatch DEF Init
<1>7. now \in Nat
  BY <1>1
<1>8. QED
  BY <1>1, <1>2, <1>3, <1>4, <1>5, <1>6, <1>7 DEF EngineInv

(***************************************************************************)
(* Every step keeps the invariant, moves the clock forward and obeys the   *)
(* kill switch.                                                            *)
(***************************************************************************)
LEMMA StepHolds == EngineInv /\ [Next]_vars => Proceeds
<1> SUFFICES ASSUME EngineInv, [Next]_vars PROVE Proceeds
  OBVIOUS
<1>1. CASE Ingest
  BY <1>1, IngestProceeds
<1>2. CASE HandleTick
  BY <1>2, TickProceeds
<1>3. CASE HandleTickDelivery
  BY <1>3, TickDeliveryProceeds
<1>4. CASE HandleL2Update
  BY <1>4, L2UpdateProceeds
<1>5. CASE HandleOrder
  BY <1>5, OrderProceeds
<1>6. CASE HandleOrderAck
  BY <1>6, OrderAckProceeds
<1>7. CASE HandleOrderCancel
  BY <1>7, OrderCancelProceeds
<1>8. CASE HandleOrderCancelAck
  BY <1>8, OrderCancelAckProceeds
<1>9. CASE HandleOrderReport
  BY <1>9, OrderReportProceeds
<1>10. CASE HandleFunding
  BY <1>10, FundingProceeds
<1>11. CASE HandleTimer
  BY <1>11, TimerProceeds
<1>12. CASE FinalFlush
  BY <1>12, FinalFlushProceeds
<1>13. CASE Returned
  BY <1>13, StutterProceeds DEF Returned
<1>14. CASE UNCHANGED vars
  BY <1>14, StutterProceeds
<1>15. QED
  BY <1>1, <1>2, <1>3, <1>4, <1>5, <1>6, <1>7, <1>8, <1>9, <1>10, <1>11, <1>12, <1>13, <1>14
     DEF Next

-----------------------------------------------------------------------------
(***************************************************************************)
(* The inductive invariant gives the engine's properties.                  *)
(***************************************************************************)
LEMMA KindsOfEvents ==
  ASSUME NEW e \in Event
  PROVE  /\ e.kind \in EventKind
         /\ e.kind = "Order" <=> e \in OrderEvents
         /\ e.kind \in {"OrderAck", "OrderCancelAck"} => e \in IdEvents
         /\ e \in IdEvents => e.kind \in {"OrderAck", "OrderCancel", "OrderCancelAck"}
         /\ e.kind = "OrderReport" <=> e \in ReportEvents
         /\ e.kind = "Timer" <=> e \in TimerEvents
BY DEF Event, EventKind, PreloadEvent, TickEvents, Deliveries, OrderEvents, IdEvents,
       ReportEvents, TimerEvents

\* What waits in the queue, as places.
LEMMA WaitingAre ==
  ASSUME queue \in Seq(Event), NEW id
  PROVE  /\ Waiting("Order", id) = Places(queue, OrdersFor(id))
         /\ Waiting("OrderAck", id) = Places(queue, Acks(id))
         /\ Waiting("OrderCancelAck", id) = Places(queue, CancelAcks(id))
         /\ FinalReports(id) = Places(queue, Finals(id))
<1>1. DOMAIN queue = 1 .. Len(queue) /\ \A i \in 1 .. Len(queue) : queue[i] \in Event
  OBVIOUS
<1>2. ASSUME NEW i \in 1 .. Len(queue)
      PROVE  /\ queue[i].kind = "Order" /\ queue[i].id = id <=> queue[i] \in OrdersFor(id)
             /\ queue[i].kind = "OrderAck" /\ queue[i].id = id <=> queue[i] \in Acks(id)
             /\ queue[i].kind = "OrderCancelAck" /\ queue[i].id = id
                  <=> queue[i] \in CancelAcks(id)
             /\ /\ queue[i].kind = "OrderReport" /\ queue[i].report.id = id
                /\ IsTerminal(queue[i].report.status)
                <=> queue[i] \in Finals(id)
  BY <1>1, KindsOfEvents DEF OrdersFor, Acks, CancelAcks, Finals
<1>3. Waiting("Order", id) = Places(queue, OrdersFor(id))
  BY <1>1, <1>2 DEF Waiting, Places
<1>4. Waiting("OrderAck", id) = Places(queue, Acks(id))
  BY <1>1, <1>2 DEF Waiting, Places
<1>5. Waiting("OrderCancelAck", id) = Places(queue, CancelAcks(id))
  BY <1>1, <1>2 DEF Waiting, Places
<1>6. FinalReports(id) = Places(queue, Finals(id))
  BY <1>1, <1>2 DEF FinalReports, ReportsWaiting, Places
<1>7. QED
  BY <1>3, <1>4, <1>5, <1>6

\* A count of zero means that there is no place.
LEMMA SomePlace ==
  ASSUME NEW q \in Seq(Event), NEW E
  PROVE  Times(q, E) = 0 <=> Places(q, E) = {}
BY NoTimes DEF Places

\* The queue is that of QueueFrom, the exchanges those of GoodExchange.
LEMMA HoldsTypeOK == EngineInv => TypeOK
<1> SUFFICES ASSUME EngineInv PROVE TypeOK
  OBVIOUS
<1>1. config \in Configs /\ now \in Nat /\ DeskInv(Now, exchanges, now)
  BY DEF EngineInv
<1>2. /\ QueueFrom(queue, now) /\ DOMAIN seen = 1 .. next_order_id - 1
      /\ DOMAIN route \subseteq 1 .. next_order_id - 1
      /\ \A id \in DOMAIN route : route[id] \in Symbols
  BY <1>1 DEF DeskInv, Now, Desk
<1>3. \A s \in Symbols : WellTyped(exchanges[s])
  BY DEF EngineInv, BooksInv, GoodMarket, GoodExchange
<1>4. /\ \A s \in Symbols : positions[s] \in Position
      /\ guard \in RiskGuard
  BY DEF EngineInv, BooksInv
<1>5. ASSUME NEW i \in DOMAIN queue
      PROVE  /\ queue[i].kind \in EventKind
             /\ queue[i].ts >= now
             /\ \A j \in i + 1 .. Len(queue) : queue[i].ts <= queue[j].ts
  <2>1. /\ queue \in Seq(Event) /\ Sorted(queue)
        /\ \A k \in 1 .. Len(queue) : queue[k].ts >= now
    BY <1>2 DEF QueueFrom
  <2>2. i \in 1 .. Len(queue) /\ queue[i] \in Event /\ Len(queue) \in Nat
    BY <2>1
  <2>3. ASSUME NEW j \in i + 1 .. Len(queue) PROVE queue[i].ts <= queue[j].ts
    <3>1. j \in 1 .. Len(queue) /\ i <= j
      BY <2>2
    <3>2. QED
      BY <2>1, <2>2, <3>1 DEF Sorted
  <2>4. QED
    BY <2>1, <2>2, <2>3, KindsOfEvents
<1>6. /\ timer \in 0 .. next_timer_id - 1 /\ pending_wakeup \in BOOLEAN
      /\ WithinLimits(tuner)
  BY DEF EngineInv, BatchInv, Buffered, TuningInv
<1>7. tuner \in Tuner /\ tuner.current \in tuner.min .. tuner.max
  BY <1>6 DEF WithinLimits, Tuner
<1>8. QED
  BY <1>1, <1>2, <1>3, <1>4, <1>5, <1>6, <1>7 DEF TypeOK, Ids

\* An order on its way has one order event, and that is for its route.
LEMMA SentIsRouted ==
  ASSUME queue \in Seq(Event), NEW id, Sent(queue, route, exchanges, id)
  PROVE  /\ Places(queue, OrdersTo(id, route[id])) = Places(queue, OrdersFor(id))
         /\ Places(queue, OrdersFor(id)) # {}
<1>1. Times(queue, OrdersFor(id)) = 1 /\ Times(queue, OrdersTo(id, route[id])) = 1
  BY DEF Sent
<1>2. Places(queue, OrdersTo(id, route[id])) \subseteq Places(queue, OrdersFor(id))
  BY DEF Places, OrdersTo, OrdersFor
<1>3. IsFiniteSet(Places(queue, OrdersFor(id)))
  BY PlacesAreFinite
<1>4. Places(queue, OrdersTo(id, route[id])) = Places(queue, OrdersFor(id))
  BY <1>1, <1>2, <1>3, FS_Subset DEF Times
<1>5. Places(queue, OrdersFor(id)) # {}
  BY <1>1, SomePlace
<1>6. QED
  BY <1>4, <1>5

\* By the point of its life an order is at.
LEMMA HoldsRouteCoherent == EngineInv => RouteCoherent
<1> SUFFICES ASSUME EngineInv, NEW id \in Ids, NEW s \in Symbols
             PROVE  (id \in DOMAIN route /\ route[id] = s)
                      <=> \/ id \in Live(exchanges[s])
                          \/ \E i \in Waiting("Order", id) : queue[i].order.symbol = s
  BY DEF RouteCoherent
<1>1. DeskInv(Now, exchanges, now)
  BY DEF EngineInv
<1>2. QueueFrom(queue, now) /\ DOMAIN seen = 1 .. next_order_id - 1 /\ next_order_id \in OrderId
  BY <1>1 DEF DeskInv, Now, Desk
<1>3. id \in OrderId
  BY <1>2 DEF Ids, OrderId
<1>4. Life(queue, route, exchanges, id) /\ queue \in Seq(Event)
  BY <1>1, <1>2, <1>3 DEF DeskInv, Now, Desk, QueueFrom
<1>5. Waiting("Order", id) = Places(queue, OrdersFor(id))
  BY <1>4, WaitingAre
<1>6. CASE Gone(queue, route, exchanges, id)
  <2>1. Waiting("Order", id) = {}
    BY <1>4, <1>5, <1>6, SomePlace DEF Gone
  <2>2. QED
    BY <1>6, <2>1 DEF Gone
<1>7. CASE Placed(queue, route, exchanges, id)
  <2>1. Waiting("Order", id) = {}
    BY <1>4, <1>5, <1>7, SomePlace DEF Placed
  <2>2. QED
    BY <1>7, <2>1 DEF Placed
<1>8. CASE Sent(queue, route, exchanges, id)
  <2>1. /\ Places(queue, OrdersTo(id, route[id])) = Waiting("Order", id)
        /\ Waiting("Order", id) # {}
    BY <1>4, <1>5, <1>8, SentIsRouted
  <2>2. \A i \in Waiting("Order", id) : queue[i].order.symbol = route[id]
    BY <2>1 DEF Places, OrdersTo
  <2>3. id \in DOMAIN route /\ id \notin Live(exchanges[s])
    BY <1>8 DEF Sent
  <2>4. QED
    BY <2>1, <2>2, <2>3
<1>9. QED
  BY <1>4, <1>6, <1>7, <1>8 DEF Life

\* A live order is placed; Fits says what is under way for it.
LEMMA HoldsNothingStuck == EngineInv => NothingStuck
<1> SUFFICES ASSUME EngineInv, NEW s \in Symbols, NEW id \in Live(exchanges[s]),
                    NEW state, state = StateOf(exchanges[s], id)
             PROVE  /\ Cardinality(Waiting("OrderAck", id)) = IF state = "PendingNew" THEN 1 ELSE 0
                    /\ Waiting("Order", id) = {}
                    /\ IsMarket(exchanges[s], id) => state = "PendingNew" \/ IsTerminal(state)
                    /\ state = "PendingCancel" => Waiting("OrderCancelAck", id) # {}
                    /\ Cardinality(FinalReports(id)) = IF IsTerminal(state) THEN 1 ELSE 0
  BY DEF NothingStuck
<1>1. /\ id \in DOMAIN route /\ route[id] = s
      /\ Placed(queue, route, exchanges, id)
  BY LiveIsPlaced
<1>2. queue \in Seq(Event)
  BY DEF EngineInv, DeskInv, Now, Desk, QueueFrom
<1>3. Times(queue, OrdersFor(id)) = 0 /\ Fits(queue, exchanges[s].orders[id].type, state, id)
  BY <1>1 DEF Placed, StateOf
<1>4. /\ Waiting("Order", id) = Places(queue, OrdersFor(id))
      /\ Waiting("OrderAck", id) = Places(queue, Acks(id))
      /\ Waiting("OrderCancelAck", id) = Places(queue, CancelAcks(id))
      /\ FinalReports(id) = Places(queue, Finals(id))
  BY <1>2, WaitingAre
<1>5. Waiting("Order", id) = {}
  BY <1>2, <1>3, <1>4, SomePlace
<1>6. Cardinality(Waiting("OrderAck", id)) = IF state = "PendingNew" THEN 1 ELSE 0
  BY <1>3, <1>4 DEF Fits, Times
<1>7. Cardinality(FinalReports(id)) = IF IsTerminal(state) THEN 1 ELSE 0
  BY <1>3, <1>4 DEF Fits, Times
<1>8. state = "PendingCancel" => Waiting("OrderCancelAck", id) # {}
  <2>1. ASSUME state = "PendingCancel" PROVE Times(queue, CancelAcks(id)) # 0
    BY <1>3, <2>1 DEF Fits
  <2>2. QED
    BY <1>2, <1>4, <2>1, SomePlace
<1>9. IsMarket(exchanges[s], id) => state = "PendingNew" \/ IsTerminal(state)
  BY <1>3 DEF Fits, IsMarket
<1>10. QED
  BY <1>5, <1>6, <1>7, <1>8, <1>9

\* A conjunct of DeskInv, which every submission checks first.
LEMMA HoldsOpenOrdersBounded == EngineInv => OpenOrdersBounded
BY DEF EngineInv, DeskInv, Now, Desk, OpenOrdersBounded

\* Followed is about the queue, Reached about the strategy.
LEMMA HoldsNoLookahead == EngineInv => NoLookahead
<1> SUFFICES ASSUME EngineInv PROVE NoLookahead
  OBVIOUS
<1>1. Followed(queue) /\ DOMAIN queue = 1 .. Len(queue)
  BY DEF EngineInv, DeskInv, Now, Desk, QueueFrom
<1>2. \A i \in DOMAIN queue : queue[i].kind = "Tick" =>
        \E j \in i + 1 .. Len(queue) :
          /\ queue[j].kind = "TickDelivery"
          /\ queue[j].tick = [queue[i].tick EXCEPT !.local = queue[j].ts]
  BY <1>1 DEF Followed, Delivers
<1>3. \A s \in Symbols : \A i \in DOMAIN market[s] : market[s][i].local <= now
  BY DEF EngineInv, SeenInv, Reached
<1>4. \A i \in DOMAIN tick_buffer : tick_buffer[i].local <= now
  BY DEF EngineInv, SeenInv, Reached
<1>5. QED
  BY <1>2, <1>3, <1>4 DEF NoLookahead

\* From the alarm that Buffered counts.
LEMMA HoldsBatchHasDeadline == EngineInv => BatchHasDeadline
<1> SUFFICES ASSUME EngineInv, max_batch > 0, tick_buffer # <<>>, ~pending_wakeup
             PROVE  \E i \in DOMAIN queue :
                      /\ queue[i].kind = "Timer" /\ queue[i].timer_id = timer
                      /\ queue[i].ts <= Head(tick_buffer).local + LongestBatch
  BY DEF BatchHasDeadline
<1>1. PICK due : due = Head(tick_buffer).local + LongestBatch
  OBVIOUS
<1>2. Times(queue, Alarms(timer, due)) >= 1
  BY <1>1 DEF EngineInv, BatchInv, Buffered
<1>3. queue \in Seq(Event)
  BY DEF EngineInv, DeskInv, Now, Desk, QueueFrom
<1>4. Places(queue, Alarms(timer, due)) # {}
  <2>1. Times(queue, Alarms(timer, due)) # 0
    BY <1>2
  <2>2. QED
    BY <1>3, <2>1, SomePlace
<1>5. PICK i \in 1 .. Len(queue) : queue[i] \in Alarms(timer, due)
  BY <1>4 DEF Places
<1>6. i \in DOMAIN queue /\ queue[i].kind = "Timer" /\ queue[i].timer_id = timer /\ queue[i].ts <= due
  BY <1>3, <1>5 DEF Alarms, TimerEvents
<1>7. QED
  BY <1>1, <1>6

(***************************************************************************)
(* The engine's inductive invariant: the types; the queue sorted, from the *)
(* present on, with every tick followed by its delivery; every order at    *)
(* one point of its life, with exactly the events under way that this      *)
(* point requires; the buffers with their deadline.                        *)
(***************************************************************************)
THEOREM EngineHolds == Spec => []EngineInv
<1>1. EngineInv /\ [Next]_vars => EngineInv'
  BY StepHolds DEF Proceeds
<1>2. QED
  BY <1>1, InitHolds, PTL DEF Spec

(***************************************************************************)
(* Every variable of the engine keeps its type, the queue is sorted and    *)
(* holds nothing from the past.                                            *)
(***************************************************************************)
THEOREM EngineTypeCorrect == Spec => []TypeOK
BY EngineHolds, HoldsTypeOK, PTL

(***************************************************************************)
(* order_symbol_by_id has an order exactly while the order is on its way   *)
(* to the exchange it names, or in it.                                     *)
(***************************************************************************)
THEOREM RoutesAreCoherent == Spec => []RouteCoherent
BY EngineHolds, HoldsRouteCoherent, PTL

(***************************************************************************)
(* Whatever a live order waits for (its acknowledgement, its cancel        *)
(* acknowledgement, its final report) is in the queue, and nothing is      *)
(* acknowledged or finished twice.                                         *)
(***************************************************************************)
THEOREM NothingIsStuck == Spec => []NothingStuck
BY EngineHolds, HoldsNothingStuck, PTL

(***************************************************************************)
(* max_open_orders bounds the open orders, also when one callback submits  *)
(* several.                                                                *)
(***************************************************************************)
THEOREM OpenOrdersAreBounded == Spec => []OpenOrdersBounded
BY EngineHolds, HoldsOpenOrdersBounded, PTL

(***************************************************************************)
(* No look-ahead: the exchange matches a tick before the strategy sees it, *)
(* and what the strategy sees has reached it.                              *)
(***************************************************************************)
THEOREM NothingIsSeenAhead == Spec => []NoLookahead
BY EngineHolds, HoldsNoLookahead, PTL

(***************************************************************************)
(* Buffered ticks always have their wakeup owed or their timer's event in  *)
(* the queue, due within the longest batch of the first of them, whatever  *)
(* the tuner measured.                                                     *)
(***************************************************************************)
THEOREM BatchesHaveDeadlines == Spec => []BatchHasDeadline
BY EngineHolds, HoldsBatchHasDeadline, PTL

(***************************************************************************)
(* The simulated clock never goes back.                                    *)
(***************************************************************************)
THEOREM ClockNeverGoesBack == Spec => ClockMonotone
<1>1. EngineInv /\ [Next]_vars => [now' >= now]_vars
  BY StepHolds DEF Proceeds
<1>2. QED
  BY <1>1, EngineHolds, PTL DEF Spec, ClockMonotone

(***************************************************************************)
(* The kill switch, once fired, stays, and no order submitted from the     *)
(* step that fires it on is accepted: none gets a route any more.          *)
(***************************************************************************)
THEOREM KillsForGood == Spec => KilledForGood
<1>1. EngineInv /\ [Next]_vars
        => [/\ guard.killed => guard'.killed
            /\ guard'.killed => DOMAIN route' \subseteq DOMAIN route]_vars
  BY StepHolds DEF Proceeds
<1>2. QED
  BY <1>1, EngineHolds, PTL DEF Spec, KilledForGood
=============================================================================
