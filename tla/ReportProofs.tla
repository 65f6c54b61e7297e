---------------------------- MODULE ReportProofs ----------------------------
(***************************************************************************)
(* What the engine's strategy is told, for every value of the constants,   *)
(* and what the engine asks of its exchanges.  EngineProofs shows what the *)
(* queue, the routes and the exchanges know of an order; here the history  *)
(* the strategy has of it is added:                                        *)
(*   1. The outlook of an order, and the invariant of the trail            *)
(*   2. Folds over reports and events; reports keep their order            *)
(*   3. Commands, the telling of a buffer, the end of a step               *)
(*   4. A lemma ...Trail for each action of Next, and for the start        *)
(*   5. ReportsInv is invariant; reports come in order; runs stop clean    *)
(*   6. The exchange of a symbol implements ExchangeSimulator              *)
(***************************************************************************)
EXTENDS EngineRefinement, EngineProofs

-----------------------------------------------------------------------------
(***************************************************************************)
(* The reports on their way to the strategy: those in the buffer, then     *)
(* those in the queue.  The outlook of an order is what the strategy will  *)
(* have been told of it when they all have arrived.                        *)
(***************************************************************************)
Told == [order : StrategyOrders, reports : Nat, status : OrderState, filled : Nat, sum : Nat]

\* No report comes after a final one, and each adds its fill to the one before.
Follows(told, r) == ~IsTerminal(told.status) /\ r.filled = told.filled + r.last

Hears(a, r) ==
  IF r.id = a.id THEN [id |-> a.id, told |-> Heard(a.told, r), ok |-> a.ok /\ Follows(a.told, r)]
  ELSE a

HearsOf(a, e) == IF e.kind = "OrderReport" THEN Hears(a, e.report) ELSE a

AfterReports(a, reports) == FoldLeft(Hears, a, reports)

AfterEvents(a, q) == FoldLeft(HearsOf, a, q)

Start(known, id) == [id |-> id, told |-> known[id], ok |-> TRUE]

Outlook(known, buffer, q, id) == AfterEvents(AfterReports(Start(known, id), buffer), q)

\* What the strategy can have heard of an order that is in this state.
Reported(told, state) ==
  CASE state = "PendingNew"    -> told.status = "Created" /\ told.filled = 0
    [] state = "PendingCancel" -> told.status \in {"Open", "PartiallyFilled"}
    [] OTHER                   -> told.status = state /\ state # "Created"

\* The outlook a agrees with what became of the order.
Agrees(a, rt, xs) ==
  IF a.id \notin DOMAIN rt THEN IsTerminal(a.told.status)
  ELSE IF a.id \in Live(xs[rt[a.id]])
       THEN LET o == xs[rt[a.id]].orders[a.id]
            IN  a.told.filled = o.filled /\ Reported(a.told, o.state)
       ELSE a.told.status = "Created" /\ a.told.filled = 0

\* Every fill was told once, and an order without a report is as it was created.
SoundTold(told) == told.sum = told.filled /\ (told.reports = 0 => told.status = "Created")

\* Events that no input of the engine and no handler makes before time t, while
\* the ids below n are given out.
TradedQtys == {f.qty : f \in Feed}

Stray(t, n) ==
  {e \in Event :
     \/ e.kind = "Tick" /\ e.tick.qty \notin TradedQtys
     \/ e.kind = "Order" /\ e.order \notin StrategyOrders
     \/ e.kind = "L2Update" /\ e.qty \notin PreloadedQtys
     \/ e.kind = "OrderReport" /\ (e.ts > t + config.order_update_latency \/ e.report.id >= n)}

TrailInv(d, buffer, xs, t) ==
  /\ d.seen \in [1 .. d.next_order_id - 1 -> Told]
  /\ \A id \in DOMAIN d.seen : SoundTold(d.seen[id])
  /\ buffer \in Seq(ReportRecord)
  /\ \A i \in 1 .. Len(buffer) : buffer[i].id < d.next_order_id
  /\ Times(d.queue, Stray(t, d.next_order_id)) = 0
  /\ \A id \in DOMAIN d.seen :
       LET a == Outlook(d.seen, buffer, d.queue, id)
       IN  a.ok /\ Agrees(a, d.route, xs)

ReportsInv ==
  /\ TrailInv(Now, report_buffer, exchanges, now)
  /\ next_order_id <= MaxOrders + 1
  /\ config.mode = "Tick" => report_buffer = <<>>
  /\ source # <<>> => Head(source).qty \in TradedQtys

\* What is known of one order, with the reports on it so far in order or not.
Listener(id) == [id : {id}, told : Told, ok : BOOLEAN]

Hearing   == INSTANCE FoldTheory WITH Op <- Hears
Listening == INSTANCE FoldTheory WITH Op <- HearsOf

LEMMA HearingFold ==
  ASSUME NEW a, NEW s
  PROVE  AfterReports(a, s) = Hearing!Fold(a, s)
  BY DEF AfterReports, Hearing!Fold, FoldLeft, Hearing!MapThenFoldSet,
         MapThenFoldSet, Hearing!Latest, Max

LEMMA ListeningFold ==
  ASSUME NEW a, NEW q
  PROVE  AfterEvents(a, q) = Listening!Fold(a, q)
  BY DEF AfterEvents, Listening!Fold, FoldLeft, Listening!MapThenFoldSet,
         MapThenFoldSet, Listening!Latest, Max

LEMMA ListenerFields ==
  ASSUME NEW id, NEW a \in Listener(id)
  PROVE  /\ a.id = id /\ a.told \in Told /\ a.ok \in BOOLEAN
         /\ a.told.order \in StrategyOrders /\ a.told.reports \in Nat
         /\ a.told.status \in OrderState /\ a.told.filled \in Nat /\ a.told.sum \in Nat
  BY DEF Listener, Told

LEMMA HeardIs ==
  ASSUME NEW told \in Told, NEW r \in ReportRecord
  PROVE  /\ Heard(told, r) \in Told
         /\ Heard(told, r).reports = told.reports + 1
         /\ Heard(told, r).status = r.status /\ Heard(told, r).filled = r.filled
         /\ Heard(told, r).sum = told.sum + r.last /\ Heard(told, r).order = told.order
<1>1. /\ told.order \in StrategyOrders /\ told.reports \in Nat /\ told.status \in OrderState
      /\ told.filled \in Nat /\ told.sum \in Nat
      /\ r.status \in OrderState /\ r.filled \in Nat /\ r.last \in Nat
  BY DEF Told, ReportRecord
<1>2. told.reports + 1 \in Nat /\ told.sum + r.last \in Nat
  BY <1>1
<1>3. DOMAIN told = {"order", "reports", "status", "filled", "sum"}
  BY DEF Told
<1>4. /\ Heard(told, r).reports = told.reports + 1
      /\ Heard(told, r).status = r.status /\ Heard(told, r).filled = r.filled
      /\ Heard(told, r).sum = told.sum + r.last /\ Heard(told, r).order = told.order
  BY <1>3 DEF Heard
<1>5. Heard(told, r) \in Told
  BY <1>1, <1>2 DEF Heard, Told
<1>6. QED
  BY <1>4, <1>5

LEMMA HearsType ==
  ASSUME NEW id, NEW a \in Listener(id), NEW r \in ReportRecord
  PROVE  Hears(a, r) \in Listener(id)
<1>1. a.id = id /\ a.told \in Told /\ a.ok \in BOOLEAN
  BY ListenerFields
<1>2. Heard(a.told, r) \in Told
  BY <1>1, HeardIs
<1>3. (a.ok /\ Follows(a.told, r)) \in BOOLEAN
  BY DEF Follows
<1>4. QED
  BY <1>1, <1>2, <1>3 DEF Hears, Listener

\* The reports among the events are records.
LEMMA ReportIn ==
  ASSUME NEW e \in Event, e.kind = "OrderReport"
  PROVE  e \in ReportEvents /\ e.report \in ReportRecord
<1>1. e \in ReportEvents
  BY DEF Event, PreloadEvent, TickEvents, Deliveries, OrderEvents, IdEvents, ReportEvents, TimerEvents
<1>2. QED
  BY <1>1 DEF ReportEvents

LEMMA HearsOfType ==
  ASSUME NEW id, NEW a \in Listener(id), NEW e \in Event
  PROVE  HearsOf(a, e) \in Listener(id)
<1>1. CASE e.kind = "OrderReport"
  BY <1>1, ReportIn, HearsType DEF HearsOf
<1>2. CASE e.kind # "OrderReport"
  BY <1>2 DEF HearsOf
<1>3. QED
  BY <1>1, <1>2

LEMMA AfterReportsType ==
  ASSUME NEW id, NEW a \in Listener(id), NEW s \in Seq(ReportRecord)
  PROVE  AfterReports(a, s) \in Listener(id)
<1> DEFINE T == Listener(id)
<1>1. a \in T /\ \A x \in T, r \in ReportRecord : Hears(x, r) \in T
  BY HearsType
<1> HIDE DEF T
<1>2. Hearing!Fold(a, s) \in T
  BY <1>1, Hearing!FoldKeeps
<1>3. QED
  BY <1>2, HearingFold DEF T

LEMMA AfterEventsType ==
  ASSUME NEW id, NEW a \in Listener(id), NEW q \in Seq(Event)
  PROVE  AfterEvents(a, q) \in Listener(id)
<1> DEFINE T == Listener(id)
<1>1. a \in T /\ \A x \in T, e \in Event : HearsOf(x, e) \in T
  BY HearsOfType
<1> HIDE DEF T
<1>2. Listening!Fold(a, q) \in T
  BY <1>1, Listening!FoldKeeps
<1>3. QED
  BY <1>2, ListeningFold DEF T

LEMMA NoReportsYet ==
  ASSUME NEW a
  PROVE  AfterReports(a, <<>>) = a /\ AfterEvents(a, <<>>) = a
<1>1. Hearing!Fold(a, <<>>) = a
  BY Hearing!FoldOfEmpty
<1>2. Listening!Fold(a, <<>>) = a
  BY Listening!FoldOfEmpty
<1>3. QED
  BY <1>1, <1>2, HearingFold, ListeningFold

LEMMA ReportsOfAppend ==
  ASSUME NEW a, NEW s \in Seq(ReportRecord), NEW r \in ReportRecord
  PROVE  AfterReports(a, Append(s, r)) = Hears(AfterReports(a, s), r)
<1>1. Hearing!Fold(a, Append(s, r)) = Hears(Hearing!Fold(a, s), r)
  BY Hearing!FoldOfAppend
<1>2. QED
  BY <1>1, HearingFold

LEMMA EventsOfConcat ==
  ASSUME NEW a, NEW b \in Seq(Event), NEW c \in Seq(Event)
  PROVE  AfterEvents(a, b \o c) = AfterEvents(AfterEvents(a, b), c)
<1>1. Listening!Fold(a, b \o c) = Listening!Fold(Listening!Fold(a, b), c)
  BY Listening!FoldOfConcat
<1>2. QED
  BY <1>1, ListeningFold

LEMMA EventsOfOne ==
  ASSUME NEW a, NEW e \in Event
  PROVE  AfterEvents(a, <<e>>) = HearsOf(a, e)
<1>1. <<e>> = Append(<<>>, e) /\ <<>> \in Seq(Event)
  BY EmptySeq
<1>2. Listening!Fold(a, Append(<<>>, e)) = HearsOf(Listening!Fold(a, <<>>), e)
  BY ZenonT(60), <1>1, Listening!FoldOfAppend
<1>3. Listening!Fold(a, <<>>) = a
  BY Listening!FoldOfEmpty
<1>4. QED
  BY <1>1, <1>2, <1>3, ListeningFold

\* Reports on other orders change nothing.
LEMMA QuietReports ==
  ASSUME NEW a, NEW s \in Seq({r \in ReportRecord : r.id # a.id})
  PROVE  AfterReports(a, s) = a
<1> DEFINE T == {a}
           R == {r \in ReportRecord : r.id # a.id}
<1>1. a \in T /\ \A x \in T, r \in R : Hears(x, r) \in T
  BY DEF Hears
<1>2. s \in Seq(R)
  OBVIOUS
<1> HIDE DEF T, R
<1>3. Hearing!Fold(a, s) \in T
  BY <1>1, <1>2, Hearing!FoldKeeps
<1>4. QED
  BY <1>3, HearingFold DEF T

\* An event that is no report on the order.
Still(id) == {e \in Event : e.kind = "OrderReport" => e.report.id # id}

LEMMA QuietEvents ==
  ASSUME NEW a, NEW q \in Seq(Still(a.id))
  PROVE  AfterEvents(a, q) = a
<1> DEFINE T == {a}
           R == Still(a.id)
<1>1. a \in T /\ \A x \in T, e \in R : HearsOf(x, e) \in T
  BY DEF HearsOf, Hears, Still
<1>2. q \in Seq(R)
  OBVIOUS
<1> HIDE DEF T, R
<1>3. Listening!Fold(a, q) \in T
  BY <1>1, <1>2, Listening!FoldKeeps
<1>4. QED
  BY <1>3, ListeningFold DEF T


(***************************************************************************)
(* What a push and a pop change of an outlook.                             *)
(***************************************************************************)
LEMMA OutlookOfQuietPush ==
  ASSUME NEW id, NEW a \in Listener(id), NEW q \in Seq(Event), NEW e \in Event,
         e.kind = "OrderReport" => e.report.id # id
  PROVE  AfterEvents(a, Enqueue(q, e)) = AfterEvents(a, q)
<1>1. \E b, c \in Seq(Event) : /\ q = b \o c /\ Len(b) = DueBy(q, e.ts)
                               /\ Enqueue(q, e) = (b \o <<e>>) \o c
  BY EnqueueParts
<1>2. PICK b \in Seq(Event), c \in Seq(Event) : q = b \o c /\ Enqueue(q, e) = (b \o <<e>>) \o c
  BY <1>1
<1>3. PICK m : m = AfterEvents(a, b)
  OBVIOUS
<1>4. m.id = id
  BY <1>3, AfterEventsType, ListenerFields
<1> DEFINE one == <<e>>
<1>5. one \in Seq(Event) /\ AfterEvents(m, one) = HearsOf(m, e)
  BY EventsOfOne
<1>6. HearsOf(m, e) = m
  BY <1>4 DEF HearsOf, Hears
<1>7. Enqueue(q, e) = (b \o one) \o c
  BY <1>2
<1> HIDE DEF one
<1>8. PICK d : d = b \o one
  OBVIOUS
<1>9. d \in Seq(Event)
  BY <1>5, <1>8, ConcatProperties
<1>10. AfterEvents(a, d) = m
  BY <1>3, <1>5, <1>6, <1>8, EventsOfConcat
<1>11. AfterEvents(a, d \o c) = AfterEvents(m, c)
  BY <1>9, <1>10, EventsOfConcat
<1>12. AfterEvents(a, b \o c) = AfterEvents(m, c)
  BY <1>3, EventsOfConcat
<1>13. QED
  BY <1>2, <1>7, <1>8, <1>11, <1>12

LEMMA OutlookOfPop ==
  ASSUME NEW a, NEW q \in Seq(Event), q # <<>>
  PROVE  /\ Head(q) \in Event /\ Tail(q) \in Seq(Event)
         /\ AfterEvents(a, q) = AfterEvents(HearsOf(a, Head(q)), Tail(q))
<1>1. Head(q) \in Event /\ Tail(q) \in Seq(Event) /\ q = <<Head(q)>> \o Tail(q)
  BY HeadTailProperties
<1> DEFINE one  == <<Head(q)>>
           rest == Tail(q)
<1>2. one \in Seq(Event) /\ AfterEvents(a, one) = HearsOf(a, Head(q))
  BY <1>1, EventsOfOne
<1>3. rest \in Seq(Event) /\ q = one \o rest
  BY <1>1
<1> HIDE DEF one, rest
<1>4. AfterEvents(a, one \o rest) = AfterEvents(AfterEvents(a, one), rest)
  BY <1>2, <1>3, EventsOfConcat
<1>5. AfterEvents(a, q) = AfterEvents(HearsOf(a, Head(q)), rest)
  BY <1>2, <1>3, <1>4
<1>6. QED
  BY <1>1, <1>5 DEF rest

\* No report waits that is due after ts.
NoneLater(q, ts) == \A i \in 1 .. Len(q) : q[i].kind = "OrderReport" => q[i].ts <= ts

LEMMA OutlookOfReport ==
  ASSUME NEW id, NEW a \in Listener(id), NEW q \in Seq(Event), Sorted(q),
         NEW e \in ReportEvents, NoneLater(q, e.ts)
  PROVE  AfterEvents(a, Enqueue(q, e)) = Hears(AfterEvents(a, q), e.report)
<1>0. e \in Event /\ e.kind = "OrderReport" /\ e.ts \in Nat
  BY DEF Event, ReportEvents
<1>1. \E b, c \in Seq(Event) : /\ q = b \o c /\ Len(b) = DueBy(q, e.ts)
                               /\ Enqueue(q, e) = (b \o <<e>>) \o c
  BY <1>0, EnqueueParts
<1>2. PICK b \in Seq(Event), c \in Seq(Event) :
        q = b \o c /\ Len(b) = DueBy(q, e.ts) /\ Enqueue(q, e) = (b \o <<e>>) \o c
  BY <1>1
<1>3. \A i \in 1 .. Len(q) : q[i].ts <= e.ts <=> i <= Len(b)
  BY <1>0, <1>2, DueByOfSorted
<1>4. ASSUME NEW i \in 1 .. Len(c)
      PROVE  c[i].kind # "OrderReport"
  <2>1. /\ Len(q) = Len(b) + Len(c) /\ Len(b) \in Nat /\ Len(c) \in Nat
        /\ \A j \in 1 .. Len(b) + Len(c) : q[j] = IF j <= Len(b) THEN b[j] ELSE c[j - Len(b)]
    BY <1>2, ConcatProperties, LenProperties
  <2>2. /\ i + Len(b) \in 1 .. Len(q) /\ ~(i + Len(b) <= Len(b)) /\ (i + Len(b)) - Len(b) = i
    BY <2>1
  <2>3. q[i + Len(b)] = c[i]
    BY <2>1, <2>2
  <2>4. QED
    BY <1>3, <2>2, <2>3 DEF NoneLater
<1>5. PICK m : m = AfterEvents(a, b)
  OBVIOUS
<1>6. PICK n : n = Hears(m, e.report)
  OBVIOUS
<1>7. c \in Seq(Still(m.id)) /\ c \in Seq(Still(n.id))
  <2>1. \A i \in 1 .. Len(c) : c[i] \in Still(m.id) /\ c[i] \in Still(n.id)
    BY <1>4, ElementOfSeq DEF Still
  <2> DEFINE R == Still(m.id)
             S == Still(n.id)
  <2> HIDE DEF R, S
  <2>2. \A i \in 1 .. Len(c) : c[i] \in R /\ c[i] \in S
    BY <2>1 DEF R, S
  <2>3. c \in Seq(R) /\ c \in Seq(S)
    BY SMTT(60), <2>2
  <2>4. QED
    BY <2>3 DEF R, S
<1>8. AfterEvents(m, c) = m /\ AfterEvents(n, c) = n
  BY <1>7, QuietEvents
<1> DEFINE one == <<e>>
<1>9. one \in Seq(Event) /\ AfterEvents(m, one) = HearsOf(m, e)
  BY <1>0, EventsOfOne
<1>10. HearsOf(m, e) = n
  BY <1>0, <1>6 DEF HearsOf
<1>11. Enqueue(q, e) = (b \o one) \o c
  BY <1>2
<1> HIDE DEF one
<1>12. PICK d : d = b \o one
  OBVIOUS
<1>13. d \in Seq(Event)
  BY <1>9, <1>12, ConcatProperties
<1>14. AfterEvents(a, d) = n
  BY <1>5, <1>9, <1>10, <1>12, EventsOfConcat
<1>15. AfterEvents(a, d \o c) = n
  BY <1>8, <1>13, <1>14, EventsOfConcat
<1>16. AfterEvents(a, b \o c) = m
  BY <1>5, <1>8, EventsOfConcat
<1>17. QED
  BY <1>2, <1>6, <1>11, <1>12, <1>15, <1>16


(***************************************************************************)
(* What the strategy learns it does not unlearn: from a to b, if the       *)
(* reports between them came in order, no fill was taken back, nothing     *)
(* followed a final report, and the fills still add up.                    *)
(***************************************************************************)
Grew(a, b) ==
  b.ok => /\ a.ok
          /\ b.told.filled >= a.told.filled
          /\ IsTerminal(a.told.status) => b.told = a.told
          /\ SoundTold(a.told) => SoundTold(b.told)
          /\ b.told.order = a.told.order

LEMMA GrewByNone ==
  ASSUME NEW id, NEW a \in Listener(id)
  PROVE  Grew(a, a)
  BY ListenerFields DEF Grew

LEMMA GrewByOne ==
  ASSUME NEW id, NEW a \in Listener(id), NEW b \in Listener(id), Grew(a, b), NEW r \in ReportRecord
  PROVE  Grew(a, Hears(b, r)) /\ Hears(b, r) \in Listener(id)
<1>1. Hears(b, r) \in Listener(id)
  BY HearsType
<1>2. /\ b.id = id /\ b.told \in Told /\ b.told.filled \in Nat /\ a.told.filled \in Nat
      /\ b.told.sum \in Nat /\ b.told.reports \in Nat /\ r.last \in Nat
  BY ListenerFields DEF ReportRecord
<1>3. CASE r.id # id
  BY <1>1, <1>2, <1>3 DEF Hears
<1>4. CASE r.id = id
  <2>1. PICK c : c = Hears(b, r)
    OBVIOUS
  <2>2. c.told = Heard(b.told, r) /\ (c.ok <=> b.ok /\ Follows(b.told, r))
    BY <1>2, <1>4, <2>1 DEF Hears
  <2>3. /\ c.told.reports = b.told.reports + 1 /\ c.told.status = r.status
        /\ c.told.filled = r.filled /\ c.told.sum = b.told.sum + r.last
        /\ c.told.order = b.told.order
    BY <1>2, <2>2, HeardIs
  <2>4. ASSUME c.ok
        PROVE  /\ a.ok
               /\ c.told.filled >= a.told.filled
               /\ ~IsTerminal(a.told.status)
               /\ SoundTold(a.told) => SoundTold(c.told)
               /\ c.told.order = a.told.order
    <3>1. b.ok /\ ~IsTerminal(b.told.status) /\ r.filled = b.told.filled + r.last
      BY <2>2, <2>4 DEF Follows
    <3>2. /\ a.ok /\ b.told.filled >= a.told.filled
          /\ IsTerminal(a.told.status) => b.told = a.told
          /\ SoundTold(a.told) => SoundTold(b.told)
          /\ b.told.order = a.told.order
      BY <3>1 DEF Grew
    <3>3. SoundTold(b.told) => SoundTold(c.told)
      BY <1>2, <2>3, <3>1 DEF SoundTold
    <3>4. QED
      BY <1>2, <2>3, <3>1, <3>2, <3>3
  <2>5. Grew(a, c)
    BY <2>4 DEF Grew
  <2>6. QED
    BY <1>1, <2>1, <2>5
<1>5. QED
  BY <1>3, <1>4

LEMMA GrewByReports ==
  ASSUME NEW id, NEW a \in Listener(id), NEW s \in Seq(ReportRecord)
  PROVE  AfterReports(a, s) \in Listener(id) /\ Grew(a, AfterReports(a, s))
<1> DEFINE T == {b \in Listener(id) : Grew(a, b)}
<1>1. a \in T /\ \A x \in T, r \in ReportRecord : Hears(x, r) \in T
  BY GrewByNone, GrewByOne
<1> HIDE DEF T
<1>2. Hearing!Fold(a, s) \in T
  BY <1>1, Hearing!FoldKeeps
<1>3. QED
  BY <1>2, HearingFold DEF T

LEMMA GrewByEvents ==
  ASSUME NEW id, NEW a \in Listener(id), NEW q \in Seq(Event)
  PROVE  AfterEvents(a, q) \in Listener(id) /\ Grew(a, AfterEvents(a, q))
<1> DEFINE T == {b \in Listener(id) : Grew(a, b)}
<1>1. ASSUME NEW x \in T, NEW e \in Event
      PROVE  HearsOf(x, e) \in T
  <2>1. CASE e.kind = "OrderReport"
    BY <2>1, ReportIn, GrewByOne DEF HearsOf
  <2>2. CASE e.kind # "OrderReport"
    BY <2>2 DEF HearsOf
  <2>3. QED
    BY <2>1, <2>2
<1>2. a \in T
  BY GrewByNone
<1> HIDE DEF T
<1>3. Listening!Fold(a, q) \in T
  BY <1>1, <1>2, Listening!FoldKeeps
<1>4. QED
  BY <1>3, ListeningFold DEF T

\* Only the report at place i is on order id.
OnlyAt(s, id, i) == \A j \in 1 .. Len(s) : s[j].id = id <=> j = i

LEMMA HearsOnce ==
  ASSUME NEW a, NEW s \in Seq(ReportRecord), NEW i \in 1 .. Len(s), OnlyAt(s, a.id, i)
  PROVE  AfterReports(a, s) = Hears(a, s[i])
<1> DEFINE r == s[i]
           Good == {q \in Seq(ReportRecord) :
                      \A k \in 1 .. Len(q) :
                         OnlyAt(q, a.id, k) => AfterReports(a, q) = Hears(a, q[k])}
<1>1. <<>> \in Good
  BY EmptySeq
<1>2. ASSUME NEW q \in Seq(ReportRecord), NEW e \in ReportRecord, q \in Good
      PROVE  Append(q, e) \in Good
  <2>1. PICK p : p = Append(q, e)
    OBVIOUS
  <2>2. /\ Len(q) \in Nat /\ p \in Seq(ReportRecord) /\ Len(p) = Len(q) + 1 /\ p[Len(q) + 1] = e
        /\ \A j \in 1 .. Len(q) : p[j] = q[j]
    BY <2>1, AppendProperties, LenProperties
  <2>3. SUFFICES ASSUME NEW k \in 1 .. Len(p), OnlyAt(p, a.id, k)
                 PROVE  AfterReports(a, p) = Hears(a, p[k])
    BY <2>1, <2>2
  <2>4. AfterReports(a, p) = Hears(AfterReports(a, q), e)
    BY <2>1, ReportsOfAppend
  <2>5. CASE k = Len(q) + 1
    <3>1. \A j \in 1 .. Len(q) : q[j].id # a.id
      BY <2>2, <2>3, <2>5 DEF OnlyAt
    <3>2. q \in Seq({x \in ReportRecord : x.id # a.id})
      <4> DEFINE R == {x \in ReportRecord : x.id # a.id}
      <4>1. \A j \in 1 .. Len(q) : q[j] \in R
        BY <3>1, ElementOfSeq
      <4> HIDE DEF R
      <4>2. q \in Seq(R)
        BY <4>1
      <4>3. QED
        BY <4>2 DEF R
    <3>3. AfterReports(a, q) = a
      BY <3>2, QuietReports
    <3>4. QED
      BY <2>2, <2>4, <2>5, <3>3
  <2>6. CASE k # Len(q) + 1
    <3>1. k \in 1 .. Len(q) /\ p[k] = q[k]
      BY <2>2, <2>3, <2>6
    <3>2. OnlyAt(q, a.id, k)
      <4>1. \A j \in 1 .. Len(q) : j \in 1 .. Len(p)
        BY <2>2
      <4>2. QED
        BY <2>2, <2>3, <4>1 DEF OnlyAt
    <3>3. e.id # a.id
      <4>1. Len(q) + 1 \in 1 .. Len(p)
        BY <2>2
      <4>2. QED
        BY <2>2, <2>3, <2>6, <4>1 DEF OnlyAt
    <3>4. AfterReports(a, q) = Hears(a, q[k])
      BY <1>2, <3>1, <3>2
    <3>5. Hears(a, q[k]).id = a.id
      BY DEF Hears
    <3>6. Hears(Hears(a, q[k]), e) = Hears(a, q[k])
      BY <3>3, <3>5 DEF Hears
    <3>7. QED
      BY <2>4, <3>1, <3>4, <3>6
  <2>7. QED
    BY <2>5, <2>6
<1> HIDE DEF Good
<1>3. Seq(ReportRecord) \subseteq Good
  BY <1>1, <1>2, Hearing!SeqSetInduction
<1>4. QED
  BY <1>3 DEF Good

-----------------------------------------------------------------------------
(***************************************************************************)
(* No report waits that a handler will push later than the next one.       *)
(***************************************************************************)
LEMMA NotStray ==
  ASSUME config \in Configs, NEW t \in Nat, NEW n \in Nat, NEW q \in Seq(Event),
         Times(q, Stray(t, n)) = 0
  PROVE  /\ NoneLater(q, t + config.order_update_latency)
         /\ \A i \in 1 .. Len(q) : q[i].kind = "OrderReport" => q[i].report.id < n
         /\ t + config.order_update_latency \in Nat
<1>1. \A i \in 1 .. Len(q) : q[i] \notin Stray(t, n)
  BY NoTimes
<1>2. config.order_update_latency \in Nat
  BY ConfigFields
<1>3. ASSUME NEW i \in 1 .. Len(q), q[i].kind = "OrderReport"
      PROVE  q[i].ts <= t + config.order_update_latency /\ q[i].report.id < n
  <2>1. PICK e \in Event : e = q[i]
    BY ElementOfSeq
  <2>2. e.ts \in Nat /\ e.report.id \in Nat
    BY <1>3, <2>1, EventHasTime, ReportIn DEF ReportRecord, OrderId
  <2>3. ~(e.ts > t + config.order_update_latency) /\ ~(e.report.id >= n)
    BY <1>1, <1>3, <2>1 DEF Stray
  <2>4. QED
    BY <1>2, <2>1, <2>2, <2>3
<1>4. QED
  BY <1>2, <1>3 DEF NoneLater

\* Time goes on and ids are given out: nothing becomes stray.
LEMMA StrayLater ==
  ASSUME config \in Configs, NEW t \in Nat, NEW u \in Nat, u >= t,
         NEW n \in Nat, NEW m \in Nat, m >= n, NEW q \in Seq(Event),
         Times(q, Stray(t, n)) = 0
  PROVE  Times(q, Stray(u, m)) = 0
<1>1. \A i \in 1 .. Len(q) : q[i] \notin Stray(t, n)
  BY NoTimes
<1>2. config.order_update_latency \in Nat
  BY ConfigFields
<1>3. ASSUME NEW e \in Event, e \in Stray(u, m)
      PROVE  e \in Stray(t, n)
  <2>1. CASE e.kind = "OrderReport"
    <3>1. e.ts \in Nat /\ e.report.id \in Nat
      BY <2>1, EventHasTime, ReportIn DEF ReportRecord, OrderId
    <3>2. e.ts > u + config.order_update_latency \/ e.report.id >= m
      BY <1>3, <2>1 DEF Stray
    <3>3. e.ts > t + config.order_update_latency \/ e.report.id >= n
      BY SMTT(60), <1>2, <3>1, <3>2
    <3>4. QED
      BY <2>1, <3>3 DEF Stray
  <2>2. CASE e.kind # "OrderReport"
    BY <1>3, <2>2 DEF Stray
  <2>3. QED
    BY <2>1, <2>2
<1>4. \A i \in 1 .. Len(q) : q[i] \notin Stray(u, m)
  BY <1>1, <1>3, ElementOfSeq
<1>5. QED
  BY <1>4, NoTimes

LEMMA NotStrayPushed ==
  ASSUME NEW t, NEW n, NEW q \in Seq(Event), Times(q, Stray(t, n)) = 0,
         NEW e \in Event, e \notin Stray(t, n)
  PROVE  Enqueue(q, e) \in Seq(Event) /\ Times(Enqueue(q, e), Stray(t, n)) = 0
  BY TimesAfterEnqueue, EnqueuePlaces

LEMMA PushNoneLater ==
  ASSUME NEW q \in Seq(Event), NEW ts \in Nat, NoneLater(q, ts), NEW e \in Event, e.ts <= ts
  PROVE  NoneLater(Enqueue(q, e), ts)
<1> DEFINE k == DueBy(q, e.ts)
           r == Enqueue(q, e)
<1>1. /\ k \in 0 .. Len(q) /\ Len(q) \in Nat /\ Len(r) = Len(q) + 1
      /\ \A i \in 1 .. k : r[i] = q[i]
      /\ r[k + 1] = e
      /\ \A i \in k + 1 .. Len(q) : r[i + 1] = q[i]
  BY EnqueuePlaces
<1> HIDE DEF k, r
<1>2. ASSUME NEW i \in 1 .. Len(r), r[i].kind = "OrderReport"
      PROVE  r[i].ts <= ts
  <2>1. CASE i <= k
    <3>1. i \in 1 .. k /\ i \in 1 .. Len(q)
      BY <1>1, <2>1
    <3>2. QED
      BY <1>1, <1>2, <3>1 DEF NoneLater
  <2>2. CASE i = k + 1
    BY <1>1, <2>2
  <2>3. CASE i > k + 1
    <3>1. i - 1 \in k + 1 .. Len(q) /\ i - 1 \in 1 .. Len(q) /\ (i - 1) + 1 = i
      BY <1>1, <2>3
    <3>2. PICK j : j = i - 1
      OBVIOUS
    <3>3. j \in k + 1 .. Len(q) /\ j \in 1 .. Len(q) /\ j + 1 = i
      BY <3>1, <3>2
    <3>4. r[i] = q[j]
      BY <1>1, <3>3
    <3>5. QED
      BY <1>2, <3>3, <3>4 DEF NoneLater
  <2>4. QED
    BY <1>1, <2>1, <2>2, <2>3
<1>3. QED
  BY <1>2 DEF NoneLater, r

\* Nothing in the buffer or the queue is about an order that was not sent yet.
LEMMA NotHeardOf ==
  ASSUME config \in Configs, NEW t \in Nat, NEW n \in Nat, NEW q \in Seq(Event),
         Times(q, Stray(t, n)) = 0,
         NEW buffer \in Seq(ReportRecord), \A i \in 1 .. Len(buffer) : buffer[i].id < n,
         NEW a, a.id = n
  PROVE  AfterReports(a, buffer) = a /\ AfterEvents(a, q) = a
<1>1. buffer \in Seq({r \in ReportRecord : r.id # a.id})
  <2> DEFINE R == {r \in ReportRecord : r.id # a.id}
  <2>1. ASSUME NEW i \in 1 .. Len(buffer)
        PROVE  buffer[i] \in R
    <3>1. buffer[i] \in ReportRecord /\ buffer[i].id < n
      BY ElementOfSeq
    <3>2. buffer[i].id # n
      BY SMTT(60), <3>1 DEF ReportRecord, OrderId
    <3>3. QED
      BY <3>1, <3>2
  <2> HIDE DEF R
  <2>2. buffer \in Seq(R)
    BY <2>1
  <2>3. QED
    BY <2>2 DEF R
<1>2. q \in Seq(Still(a.id))
  <2> DEFINE R == Still(a.id)
  <2>1. ASSUME NEW i \in 1 .. Len(q)
        PROVE  q[i] \in R
    <3>1. PICK e \in Event : e = q[i]
      BY ElementOfSeq
    <3>2. ASSUME e.kind = "OrderReport"
          PROVE  e.report.id # n
      <4>1. e.report.id < n
        BY <3>1, <3>2, NotStray
      <4>2. e.report.id \in Nat
        BY <3>2, ReportIn DEF ReportRecord, OrderId
      <4>3. QED
        BY <4>1, <4>2
    <3>3. QED
      BY <3>1, <3>2 DEF Still
  <2> HIDE DEF R
  <2>2. q \in Seq(R)
    BY <2>1
  <2>3. QED
    BY <2>2 DEF R
<1>3. QED
  BY <1>1, <1>2, QuietReports, QuietEvents

-----------------------------------------------------------------------------
(***************************************************************************)
(* The trail of reports and the commands of a callback.                    *)
(***************************************************************************)
LEMMA TrailParts ==
  ASSUME NEW d, NEW buffer, NEW xs, NEW t, TrailInv(d, buffer, xs, t), d.queue \in Seq(Event),
         NEW id \in DOMAIN d.seen
  PROVE  LET s == Start(d.seen, id)
             m == AfterReports(s, buffer)
             a == Outlook(d.seen, buffer, d.queue, id)
         IN  /\ d.seen[id] \in Told /\ SoundTold(d.seen[id])
             /\ s \in Listener(id) /\ s.id = id /\ s.told = d.seen[id] /\ s.ok
             /\ m \in Listener(id)
             /\ a = AfterEvents(m, d.queue) /\ a \in Listener(id)
             /\ a.ok /\ Agrees(a, d.route, xs)
<1>1. /\ d.seen[id] \in Told /\ SoundTold(d.seen[id]) /\ buffer \in Seq(ReportRecord)
      /\ Outlook(d.seen, buffer, d.queue, id).ok
      /\ Agrees(Outlook(d.seen, buffer, d.queue, id), d.route, xs)
  BY DEF TrailInv
<1>2. PICK s : s = Start(d.seen, id)
  OBVIOUS
<1>3. s \in Listener(id) /\ s.id = id /\ s.told = d.seen[id] /\ s.ok
  BY <1>1, <1>2 DEF Start, Listener
<1>4. PICK m : m = AfterReports(s, buffer)
  OBVIOUS
<1>5. m \in Listener(id)
  BY <1>1, <1>3, <1>4, AfterReportsType
<1>6. Outlook(d.seen, buffer, d.queue, id) = AfterEvents(m, d.queue)
  BY <1>2, <1>4 DEF Outlook
<1>7. AfterEvents(m, d.queue) \in Listener(id)
  BY <1>5, AfterEventsType
<1>8. QED
  BY <1>1, <1>2, <1>3, <1>4, <1>5, <1>6, <1>7

\* An event that is no report changes nobody's outlook.
LEMMA TrailOfPush ==
  ASSUME NEW d, NEW buffer, NEW xs, NEW t, TrailInv(d, buffer, xs, t), d.queue \in Seq(Event),
         NEW e \in Event, e.kind # "OrderReport", e \notin Stray(t, d.next_order_id),
         NEW f, f.queue = Enqueue(d.queue, e), f.route = d.route, f.seen = d.seen,
         f.next_order_id = d.next_order_id
  PROVE  TrailInv(f, buffer, xs, t)
<1>1. ASSUME NEW id \in DOMAIN d.seen
      PROVE  /\ Outlook(d.seen, buffer, f.queue, id).ok
             /\ Agrees(Outlook(d.seen, buffer, f.queue, id), d.route, xs)
  <2>1. PICK m : m = AfterReports(Start(d.seen, id), buffer)
    OBVIOUS
  <2>2. /\ m \in Listener(id) /\ Outlook(d.seen, buffer, d.queue, id) = AfterEvents(m, d.queue)
        /\ Outlook(d.seen, buffer, d.queue, id).ok
        /\ Agrees(Outlook(d.seen, buffer, d.queue, id), d.route, xs)
    BY <2>1, TrailParts
  <2>3. AfterEvents(m, Enqueue(d.queue, e)) = AfterEvents(m, d.queue)
    BY <2>2, OutlookOfQuietPush
  <2>4. Outlook(d.seen, buffer, f.queue, id) = AfterEvents(m, Enqueue(d.queue, e))
    BY <2>1 DEF Outlook
  <2>5. QED
    BY <2>2, <2>3, <2>4
<1>2. Times(f.queue, Stray(t, d.next_order_id)) = 0
  BY NotStrayPushed DEF TrailInv
<1>3. QED
  BY <1>1, <1>2 DEF TrailInv

\* An order that the strategy has just sent.
LEMMA NewcomerAgrees ==
  ASSUME NEW n, NEW order \in StrategyOrders, NEW rt, NEW xs, n \in DOMAIN rt,
         \A s \in Symbols : n \notin Live(xs[s]), rt[n] \in Symbols,
         NEW a, a = [id |-> n, told |-> Untold(order), ok |-> TRUE]
  PROVE  a.ok /\ Agrees(a, rt, xs)
  BY DEF Agrees, Untold

LEMMA NewcomerRejected ==
  ASSUME NEW n \in OrderId, NEW order \in StrategyOrders, NEW rt, NEW xs, n \notin DOMAIN rt,
         NEW a, a = [id |-> n, told |-> Untold(order), ok |-> TRUE],
         NEW b, b = Hears(a, RejectReport(n, order))
  PROVE  b.ok /\ Agrees(b, rt, xs)
<1>1. PICK r : r = RejectReport(n, order)
  OBVIOUS
<1>2. /\ r.id = n /\ r.status = "Rejected" /\ r.last = 0 /\ r.filled = 0
  BY <1>1 DEF RejectReport
<1>3. PICK told : told = Untold(order)
  OBVIOUS
<1>4. /\ DOMAIN told = {"order", "reports", "status", "filled", "sum"}
      /\ told.status = "Created" /\ told.filled = 0
  BY <1>3 DEF Untold
<1>5. b.id = n /\ b.told = Heard(told, r) /\ (b.ok <=> Follows(told, r))
  BY <1>1, <1>2, <1>3 DEF Hears
<1>6. Follows(told, r)
  BY <1>2, <1>4 DEF Follows, IsTerminal, Terminal
<1>7. b.id = n /\ b.told = Heard(told, r) /\ b.ok
  BY <1>5, <1>6
<1>8. Heard(told, r).status = "Rejected"
  BY <1>2, <1>4 DEF Heard
<1>9. IsTerminal(b.told.status)
  BY <1>7, <1>8 DEF IsTerminal, Terminal
<1>10. QED
  BY <1>7, <1>9 DEF Agrees
LEMMA TrailOfSubmit ==
  ASSUME config \in Configs,
         NEW t \in Nat, NEW xs, NEW call, IsCall(call, xs, t), call.ts = t,
         NEW buffer, TrailInv(call.desk, buffer, xs, t), NEW order \in StrategyOrders
  PROVE  TrailInv(Submit(call, order), buffer, xs, t)
<1> DEFINE d  == call.desk
           n  == d.next_order_id
           q  == d.queue
           rt == d.route
           l  == t + config.order_update_latency
           late == ReportEvent(call.ts + call.config.order_update_latency, RejectReport(n, order))
           sent == OrderEvent(call.ts, n, order)
           rejected == RejectsOrder(call.guard, call.config, order, Cardinality(DOMAIN d.route),
                                    call.positions[order.symbol].qty)
           e  == IF rejected THEN late ELSE sent
           r  == Enqueue(q, e)
           su == IF rejected THEN rt ELSE Insert(rt, n, order.symbol)
           y  == Submit(call, order)
           f  == [id |-> n, told |-> Untold(order), ok |-> TRUE]
<1>1. /\ call.config = config /\ DeskInv(d, xs, t) /\ TrailInv(d, buffer, xs, t)
  BY DEF IsCall
<1>2. /\ q \in Seq(Event) /\ Sorted(q)
      /\ n \in Nat \ {0} /\ n \in OrderId /\ DOMAIN d.seen = 1 .. n - 1
      /\ DOMAIN rt \subseteq 1 .. n - 1
      /\ \A i \in OrderId : Life(q, rt, xs, i)
  BY <1>1 DEF DeskInv, QueueFrom, OrderId
<1>3. n \notin DOMAIN rt /\ \A s \in Symbols : n \notin Live(xs[s])
  <2>1. n \notin DOMAIN rt
    BY <1>2
  <2>2. QED
    BY <1>2, <2>1 DEF Life, Gone, Sent, Placed
<1>4. /\ order \in EngineOrder /\ order.symbol \in Symbols /\ order.qty \in Nat
      /\ config.order_update_latency \in Nat /\ l \in Nat
  BY SMTT(60), ConfigFields, EngineAssumption DEF EngineOrder
<1>5. /\ late \in ReportEvents /\ late \in Event /\ late.kind = "OrderReport"
      /\ late.report = RejectReport(n, order) /\ late.report.id = n /\ late.ts = l
  <2>1. RejectReport(n, order) \in ReportRecord
    BY <1>2, <1>4 DEF RejectReport, ReportRecord, OrderId, OrderState
  <2>2. late \in ReportEvents
    BY <1>1, <1>4, <2>1 DEF ReportEvent, ReportEvents
  <2>3. QED
    BY <1>1, <2>2 DEF ReportEvent, RejectReport, Event
<1>6. sent \in OrderEvents /\ sent \in Event /\ sent.kind = "Order" /\ sent.order = order
  <2>1. sent \in OrderEvents
    BY <1>2, <1>4 DEF OrderEvent, OrderEvents, OrderId
  <2>2. QED
    BY <2>1 DEF OrderEvent, Event
<1>7. /\ y.queue = r /\ y.route = su /\ y.next_order_id = n + 1
      /\ y.seen = Insert(d.seen, n, Untold(order))
  BY DEF Submit
<1>8. /\ d.seen \in [1 .. n - 1 -> Told] /\ (\A i \in DOMAIN d.seen : SoundTold(d.seen[i]))
      /\ buffer \in Seq(ReportRecord) /\ (\A i \in 1 .. Len(buffer) : buffer[i].id < n)
      /\ Times(q, Stray(t, n)) = 0
  BY <1>1 DEF TrailInv
<1>9. /\ Untold(order) \in Told /\ SoundTold(Untold(order))
      /\ f \in Listener(n) /\ f.id = n
  BY DEF Untold, Told, SoundTold, Listener, OrderState
<1>10. /\ n \in DOMAIN y.seen /\ y.seen[n] = Untold(order)
       /\ DOMAIN y.seen = DOMAIN d.seen \cup {n}
       /\ \A i \in DOMAIN d.seen : y.seen[i] = d.seen[i] /\ i # n
  BY <1>2, <1>7 DEF Insert
<1>11. /\ DOMAIN su \subseteq DOMAIN rt \cup {n}
       /\ \A i : i # n => (i \in DOMAIN su <=> i \in DOMAIN rt)
       /\ \A i \in DOMAIN rt : su[i] = rt[i]
  BY <1>3 DEF Insert
<1>12. rejected => e = late /\ su = rt
  OBVIOUS
<1>13. ~rejected => e = sent /\ n \in DOMAIN su /\ su[n] = order.symbol
  BY DEF Insert
<1> HIDE DEF y, su, e, r, late, sent, rejected, l, f
<1>14. e \in Event /\ (e.kind = "OrderReport" => e.report.id = n)
  BY <1>5, <1>6, <1>12, <1>13
<1>15. Times(r, Stray(t, n + 1)) = 0
  <2>1. n \in Nat /\ n + 1 \in Nat /\ n + 1 >= n
    BY <1>2
  <2> HIDE DEF n, q, rt
  <2>2. Times(q, Stray(t, n + 1)) = 0
    BY <1>2, <1>8, <2>1, StrayLater
  <2>3. late \notin Stray(t, n + 1)
    <3>1. ~(late.ts > t + config.order_update_latency) /\ ~(late.report.id >= n + 1)
      BY <1>4, <1>5, <2>1 DEF l
    <3>2. QED
      BY <1>5, <3>1 DEF Stray
  <2>4. sent \notin Stray(t, n + 1)
    BY <1>6 DEF Stray
  <2>5. e \notin Stray(t, n + 1)
    BY <1>12, <1>13, <2>3, <2>4
  <2>6. QED
    BY <1>2, <1>14, <2>2, <2>5, NotStrayPushed DEF r
<1>16. ASSUME NEW i \in DOMAIN d.seen
       PROVE  /\ Outlook(y.seen, buffer, r, i).ok
              /\ Agrees(Outlook(y.seen, buffer, r, i), su, xs)
  <2>1. PICK m : m = AfterReports(Start(d.seen, i), buffer)
    OBVIOUS
  <2>2. PICK a : a = AfterEvents(m, q)
    OBVIOUS
  <2>3. m \in Listener(i) /\ a \in Listener(i) /\ a.ok /\ Agrees(a, rt, xs)
    <3> HIDE DEF d
    <3>1. TrailInv(d, buffer, xs, t) /\ d.queue \in Seq(Event) /\ a = AfterEvents(m, d.queue)
      BY <1>1, <1>2, <2>2
    <3>2. /\ m \in Listener(i) /\ Outlook(d.seen, buffer, d.queue, i) = AfterEvents(m, d.queue)
          /\ AfterEvents(m, d.queue) \in Listener(i)
          /\ Outlook(d.seen, buffer, d.queue, i).ok
          /\ Agrees(Outlook(d.seen, buffer, d.queue, i), d.route, xs)
      BY <2>1, <3>1, TrailParts
    <3>3. QED
      BY <3>1, <3>2
  <2>4. i # n
    BY <1>10
  <2>5. AfterEvents(m, r) = a
    BY <1>2, <1>14, <2>2, <2>3, <2>4, OutlookOfQuietPush DEF r
  <2>6. Start(y.seen, i) = Start(d.seen, i)
    BY <1>10 DEF Start
  <2>7. Outlook(y.seen, buffer, r, i) = a
    BY <2>1, <2>5, <2>6 DEF Outlook
  <2>8. a.id # n
    BY SMTT(60), <2>3, <2>4, ListenerFields
  <2> HIDE DEF rt, n
  <2>9. Agrees(a, su, xs)
    BY <1>11, <2>3, <2>8 DEF Agrees
  <2>10. QED
    BY <2>3, <2>7, <2>9
<1>17. /\ Outlook(y.seen, buffer, r, n).ok
       /\ Agrees(Outlook(y.seen, buffer, r, n), su, xs)
  <2>1. Start(y.seen, n) = f
    BY <1>10 DEF Start, f
  <2>2. AfterReports(f, buffer) = f /\ AfterEvents(f, q) = f
    <3>1. n \in Nat
      BY <1>2
    <3> HIDE DEF n, q
    <3>2. QED
      BY SMTT(60), <1>2, <1>8, <1>9, <3>1, NotHeardOf
  <2>3. Outlook(y.seen, buffer, r, n) = AfterEvents(f, r)
    BY <2>1, <2>2 DEF Outlook
  <2>4. CASE rejected
    <3>1. NoneLater(q, late.ts)
      <4>1. n \in Nat
        BY <1>2
      <4> HIDE DEF n, q
      <4>2. QED
        BY <1>2, <1>5, <1>8, <4>1, NotStray DEF l
    <3>2. AfterEvents(f, Enqueue(q, late)) = Hears(AfterEvents(f, q), late.report)
      BY <1>2, <1>5, <1>9, <3>1, OutlookOfReport
    <3>3. AfterEvents(f, r) = Hears(f, RejectReport(n, order))
      BY <1>5, <1>12, <2>2, <2>4, <3>2 DEF r
    <3>4. n \in OrderId /\ n \notin DOMAIN su
      BY <1>2, <1>3, <1>12, <2>4
    <3>5. PICK b : b = Hears(f, RejectReport(n, order))
      OBVIOUS
    <3>6. f = [id |-> n, told |-> Untold(order), ok |-> TRUE]
      BY DEF f
    <3> HIDE DEF n
    <3>7. b.ok /\ Agrees(b, su, xs)
      BY <3>4, <3>5, <3>6, NewcomerRejected
    <3>8. QED
      BY <2>3, <3>3, <3>5, <3>7
  <2>5. CASE ~rejected
    <3>1. AfterEvents(f, r) = f
      <4>1. e.kind # "OrderReport"
        BY <1>6, <1>13, <2>5
      <4>2. AfterEvents(f, Enqueue(q, e)) = AfterEvents(f, q)
        BY <1>2, <1>9, <1>14, <4>1, OutlookOfQuietPush
      <4>3. QED
        BY <2>2, <4>2 DEF r
    <3>2. n \in DOMAIN su /\ su[n] \in Symbols /\ \A s \in Symbols : n \notin Live(xs[s])
      BY <1>3, <1>4, <1>13, <2>5
    <3>3. f = [id |-> n, told |-> Untold(order), ok |-> TRUE]
      BY DEF f
    <3> HIDE DEF n
    <3>4. f.ok /\ Agrees(f, su, xs)
      BY <3>2, <3>3, NewcomerAgrees
    <3>5. QED
      BY <2>3, <3>1, <3>4
  <2>6. QED
    BY <2>4, <2>5
<1>18. /\ y.seen \in [1 .. (n + 1) - 1 -> Told]
       /\ \A i \in DOMAIN y.seen : SoundTold(y.seen[i])
  <2>1. DOMAIN y.seen = 1 .. (n + 1) - 1
    BY <1>2, <1>10
  <2>2. \A i \in DOMAIN y.seen : y.seen[i] \in Told /\ SoundTold(y.seen[i])
    BY <1>8, <1>9, <1>10
  <2>3. y.seen = [i \in DOMAIN y.seen |-> y.seen[i]]
    BY <1>7 DEF Insert
  <2> HIDE DEF n
  <2>4. QED
    BY <2>1, <2>2, <2>3
<1>19. \A i \in 1 .. Len(buffer) : buffer[i].id < n + 1
  <2>1. ASSUME NEW i \in 1 .. Len(buffer)
        PROVE  buffer[i].id < n + 1
    <3>1. PICK k : k = buffer[i].id
      OBVIOUS
    <3> HIDE DEF n
    <3>4. k < n /\ buffer[i] \in ReportRecord
      BY <1>8, <3>1, ElementOfSeq
    <3>2. k \in Nat /\ k < n /\ n \in Nat
      BY <1>2, <3>1, <3>4 DEF ReportRecord, OrderId
    <3>3. QED
      BY <3>1, <3>2
  <2>2. QED
    BY <2>1
<1>20. \A i \in DOMAIN y.seen :
         /\ Outlook(y.seen, buffer, r, i).ok
         /\ Agrees(Outlook(y.seen, buffer, r, i), su, xs)
  BY <1>10, <1>16, <1>17
<1> HIDE DEF n, q, rt, d
<1>21. TrailInv(y, buffer, xs, t)
  BY <1>7, <1>8, <1>15, <1>18, <1>19, <1>20 DEF TrailInv
<1>22. QED
  BY <1>21 DEF y

-----------------------------------------------------------------------------
\* What was known stays known; and what was learnt since then.
Remembers(known, after) == \A id \in DOMAIN known : id \in DOMAIN after /\ after[id] = known[id]

Learned(known, after) ==
  \A id \in DOMAIN known :
    /\ id \in DOMAIN after /\ after[id].filled >= known[id].filled
    /\ IsTerminal(known[id].status) => after[id] = known[id]

LEMMA TrailOfCommand ==
  ASSUME config \in Configs,
         NEW t \in Nat, NEW xs, NEW call, IsCall(call, xs, t), call.ts = t,
         NEW buffer, TrailInv(call.desk, buffer, xs, t), NEW c \in Command,
         NEW after, after = HandleCommand(call, c)
  PROVE  /\ TrailInv(after.desk, buffer, xs, t) /\ after.ts = t
         /\ after.desk.next_order_id
              = call.desk.next_order_id + (IF c.kind = "SubmitOrder" THEN 1 ELSE 0)
         /\ call.desk.next_order_id \in Nat
         /\ Remembers(call.desk.seen, after.desk.seen)
<1> DEFINE d == call.desk
           y == IF c.kind = "SubmitOrder" THEN Submit(call, c.order) ELSE RequestCancel(call, c.id)
           e == IdEvent(t, "OrderCancel", c.id)
<1>1. /\ DOMAIN call = {"desk", "ts", "guard", "positions", "config"}
      /\ DOMAIN d = {"queue", "route", "next_order_id", "cancels", "seen"}
      /\ d.queue \in Seq(Event) /\ d.next_order_id \in Nat
      /\ DOMAIN d.seen = 1 .. d.next_order_id - 1
  BY DEF IsCall, DeskInv, QueueFrom, OrderId
<1>2. \/ c.kind = "SubmitOrder" /\ c.order \in StrategyOrders
      \/ c.kind # "SubmitOrder" /\ c.id \in OrderId
  BY EngineAssumption DEF Command, OrderId
<1>3. after.desk = y /\ after.ts = t
  BY <1>1 DEF HandleCommand
<1>4. CASE c.kind = "SubmitOrder"
  <2>1. TrailInv(Submit(call, c.order), buffer, xs, t)
    BY <1>2, <1>4, TrailOfSubmit
  <2>2. Submit(call, c.order).next_order_id = d.next_order_id + 1
    BY DEF Submit
  <2>3. y = Submit(call, c.order)
    BY <1>4
  <2>4. Remembers(d.seen, y.seen)
    <3>1. y.seen = Insert(d.seen, d.next_order_id, Untold(c.order))
      BY <2>3 DEF Submit
    <3>2. d.next_order_id \notin DOMAIN d.seen
      BY <1>1
    <3> HIDE DEF y, d
    <3>3. QED
      BY <3>1, <3>2 DEF Remembers, Insert
  <2>5. QED
    BY <1>1, <1>3, <1>4, <2>1, <2>2, <2>3, <2>4
<1>5. CASE c.kind # "SubmitOrder"
  <2>1. e \in IdEvents /\ e \in Event /\ e.kind = "OrderCancel"
    BY <1>2, <1>5 DEF IdEvent, IdEvents, Event
  <2>2. e \notin Stray(t, d.next_order_id)
    BY <2>1 DEF Stray
  <2>3. /\ y.queue = Enqueue(d.queue, e) /\ y.route = d.route /\ y.seen = d.seen
        /\ y.next_order_id = d.next_order_id
    BY <1>1, <1>5 DEF RequestCancel
  <2> HIDE DEF y, e, d
  <2>4. TrailInv(d, buffer, xs, t)
    BY DEF d
  <2>5. TrailInv(y, buffer, xs, t)
    BY <1>1, <2>1, <2>2, <2>3, <2>4, TrailOfPush
  <2>6. Remembers(d.seen, y.seen)
    BY <2>3 DEF Remembers
  <2>7. QED
    BY <1>1, <1>3, <1>5, <2>3, <2>5, <2>6 DEF d
<1>6. QED
  BY <1>4, <1>5

\* How many orders the commands of a callback submit.
LEMMA IssuedAfterAppend ==
  ASSUME NEW s \in Seq(Command), NEW c \in Command, NEW kind
  PROVE  /\ Issued(s, kind) \in Nat
         /\ Issued(Append(s, c), kind) = Issued(s, kind) + (IF c.kind = kind THEN 1 ELSE 0)
<1> DEFINE r == Append(s, c)
           n == Len(s) + 1
           P == {i \in DOMAIN s : s[i].kind = kind}
           R == {i \in DOMAIN r : r[i].kind = kind}
<1>1. /\ Len(s) \in Nat /\ Len(r) = n /\ r[n] = c /\ r \in Seq(Command)
      /\ \A i \in 1 .. Len(s) : r[i] = s[i]
  BY AppendProperties, LenProperties
<1>2. DOMAIN s = 1 .. Len(s) /\ DOMAIN r = 1 .. n
  BY <1>1, LenProperties
<1>3. Issued(s, kind) = Cardinality(P) /\ Issued(r, kind) = Cardinality(R)
  BY DEF Issued
<1> HIDE DEF r
<1>4. IsFiniteSet(P) /\ Cardinality(P) \in Nat
  <2>1. IsFiniteSet(1 .. Len(s)) /\ P \subseteq 1 .. Len(s)
    BY <1>1, <1>2, FS_Interval
  <2>2. QED
    BY <2>1, FS_Subset, FS_CardinalityType
<1>5. n \notin P
  BY <1>1, <1>2
<1>6. CASE c.kind = kind
  <2>1. R = P \cup {n}
    BY <1>1, <1>2, <1>6
  <2> HIDE DEF P, R, n
  <2>2. Cardinality(P \cup {n}) = Cardinality(P) + 1
    BY <1>4, <1>5, FS_AddElement
  <2>3. QED
    BY <1>3, <1>4, <1>6, <2>1, <2>2 DEF r
<1>7. CASE c.kind # kind
  <2>1. R = P
    BY <1>1, <1>2, <1>7
  <2> HIDE DEF P, R, n
  <2>2. QED
    BY <1>3, <1>4, <1>7, <2>1 DEF r
<1>8. QED
  BY <1>6, <1>7

LEMMA NoneIssued == \A kind : Issued(<<>>, kind) = 0
<1>1. \A kind : {i \in DOMAIN <<>> : <<>>[i].kind = kind} = {}
  OBVIOUS
<1>2. QED
  BY <1>1, FS_EmptySet DEF Issued

(***************************************************************************)
(* All commands of a callback.                                             *)
(***************************************************************************)
LEMMA TrailOfCommands ==
  ASSUME config \in Configs,
         NEW t \in Nat, NEW xs, NEW call, IsCall(call, xs, t), call.ts = t,
         NEW buffer, TrailInv(call.desk, buffer, xs, t), NEW commands \in Seq(Command)
  PROVE  LET after == FoldLeft(HandleCommand, call, commands)
         IN  /\ TrailInv(after.desk, buffer, xs, t)
             /\ after.desk.next_order_id
                  = call.desk.next_order_id + Issued(commands, "SubmitOrder")
             /\ Remembers(call.desk.seen, after.desk.seen)
<1> DEFINE F(s) == Calls!Fold(call, s)
           Good == {s \in Seq(Command) :
                      /\ IsCall(F(s), xs, t) /\ F(s).ts = t
                      /\ TrailInv(F(s).desk, buffer, xs, t)
                      /\ F(s).desk.next_order_id
                           = call.desk.next_order_id + Issued(s, "SubmitOrder")
                      /\ Remembers(call.desk.seen, F(s).desk.seen)}
<1>1. call.desk.next_order_id \in Nat
  BY DEF IsCall, DeskInv, OrderId
<1>2. <<>> \in Good
  <2>1. F(<<>>) = call
    BY Calls!FoldOfEmpty
  <2>2. <<>> \in Seq(Command)
    BY EmptySeq
  <2>3. Remembers(call.desk.seen, call.desk.seen)
    BY DEF Remembers
  <2>4. QED
    BY <1>1, <2>1, <2>2, <2>3, NoneIssued
<1>3. ASSUME NEW s \in Seq(Command), NEW c \in Command, s \in Good
      PROVE  Append(s, c) \in Good
  <2>1. F(Append(s, c)) = HandleCommand(F(s), c)
    BY Calls!FoldOfAppend
  <2>2. /\ IsCall(F(s), xs, t) /\ F(s).ts = t
        /\ TrailInv(F(s).desk, buffer, xs, t)
        /\ F(s).desk.next_order_id = call.desk.next_order_id + Issued(s, "SubmitOrder")
        /\ Remembers(call.desk.seen, F(s).desk.seen)
    BY <1>3
  <2> DEFINE x == F(s)
             y == HandleCommand(x, c)
  <2> HIDE DEF F
  <2>3. /\ IsCall(x, xs, t) /\ x.ts = t
        /\ TrailInv(x.desk, buffer, xs, t)
        /\ x.desk.next_order_id = call.desk.next_order_id + Issued(s, "SubmitOrder")
        /\ Remembers(call.desk.seen, x.desk.seen)
    BY <2>2
  <2> HIDE DEF x
  <2>4. IsCall(y, xs, t)
    BY <2>3, CommandKeeps
  <2>5. /\ TrailInv(y.desk, buffer, xs, t) /\ y.ts = t
        /\ y.desk.next_order_id = x.desk.next_order_id + (IF c.kind = "SubmitOrder" THEN 1 ELSE 0)
        /\ x.desk.next_order_id \in Nat
        /\ Remembers(x.desk.seen, y.desk.seen)
    BY <2>3, TrailOfCommand
  <2> HIDE DEF y
  <2>6. /\ Issued(s, "SubmitOrder") \in Nat
        /\ Issued(Append(s, c), "SubmitOrder")
             = Issued(s, "SubmitOrder") + (IF c.kind = "SubmitOrder" THEN 1 ELSE 0)
    BY IssuedAfterAppend
  <2>7. y.desk.next_order_id = call.desk.next_order_id + Issued(Append(s, c), "SubmitOrder")
    <3> DEFINE k == call.desk.next_order_id
               i == Issued(s, "SubmitOrder")
               m == IF c.kind = "SubmitOrder" THEN 1 ELSE 0
               j == Issued(Append(s, c), "SubmitOrder")
               b == x.desk.next_order_id
    <3>1. k \in Nat /\ i \in Nat /\ m \in Nat /\ b = k + i /\ j = i + m
          /\ y.desk.next_order_id = b + m
      BY <1>1, <2>3, <2>5, <2>6
    <3> HIDE DEF k, i, m, j, b
    <3>2. y.desk.next_order_id = k + j
      BY <3>1
    <3>3. QED
      BY <3>2 DEF k, j
  <2>8. F(Append(s, c)) = y /\ Append(s, c) \in Seq(Command)
    BY <2>1, AppendProperties DEF x, y
  <2>9. Remembers(call.desk.seen, y.desk.seen)
    BY <2>3, <2>5 DEF Remembers
  <2>10. QED
    BY <2>4, <2>5, <2>7, <2>8, <2>9
<1> HIDE DEF Good
<1>4. Seq(Command) \subseteq Good
  BY <1>2, <1>3, Calls!SeqSetInduction
<1>5. FoldLeft(HandleCommand, call, commands) = F(commands)
  BY DEF Calls!Fold, FoldLeft, Calls!MapThenFoldSet, MapThenFoldSet,
         Calls!Latest, Max
<1>6. QED
  BY <1>4, <1>5 DEF Good

LEMMA TrailOfHandled ==
  ASSUME config \in Configs,
         NEW t \in Nat, NEW xs, NEW d, DeskInv(d, xs, t), NEW buffer, TrailInv(d, buffer, xs, t),
         NEW commands \in Commands(d),
         NEW y, y = HandleCommands(d, commands, t)
  PROVE  /\ TrailInv(y, buffer, xs, t) /\ y.next_order_id <= MaxOrders + 1
         /\ Remembers(d.seen, y.seen)
<1> DEFINE call == Call(d, t)
           after == FoldLeft(HandleCommand, call, commands)
<1>1. /\ DOMAIN call = {"desk", "ts", "guard", "positions", "config"}
      /\ call.desk = d /\ call.ts = t /\ call.guard = guard' /\ call.config = config
  BY DEF Call
<1>2. y = after.desk
  BY DEF HandleCommands
<1> HIDE DEF call
<1>3. IsCall(call, xs, t)
  BY <1>1 DEF IsCall
<1>4. commands \in Seq(Command) /\ d.next_order_id + Issued(commands, "SubmitOrder") <= MaxOrders + 1
  BY CommandSeqsAre DEF Commands
<1>5. TrailInv(call.desk, buffer, xs, t)
  BY <1>1
<1>b. call.ts = t
  BY <1>1
<1>6. /\ TrailInv(after.desk, buffer, xs, t)
      /\ after.desk.next_order_id = call.desk.next_order_id + Issued(commands, "SubmitOrder")
      /\ Remembers(call.desk.seen, after.desk.seen)
  BY ZenonT(60), <1>3, <1>4, <1>5, <1>b, TrailOfCommands
<1> HIDE DEF after
<1>7. QED
  BY <1>1, <1>2, <1>4, <1>6

-----------------------------------------------------------------------------
(***************************************************************************)
(* A callback hears what is buffered: the outlook of each order is as it   *)
(* was, only nearer.                                                       *)
(***************************************************************************)
LEMMA TellOneIs ==
  ASSUME NEW ids, NEW known \in [ids -> Told], NEW r \in ReportRecord, r.id \in ids
  PROVE  /\ TellOne(known, r) \in [ids -> Told]
         /\ TellOne(known, r)[r.id] = Heard(known[r.id], r)
         /\ \A id \in ids : id # r.id => TellOne(known, r)[id] = known[id]
<1>1. known[r.id] \in Told
  OBVIOUS
<1>2. PICK v : v = Heard(known[r.id], r)
  OBVIOUS
<1>3. v \in Told
  BY <1>1, <1>2, HeardIs
<1>4. TellOne(known, r) = [known EXCEPT ![r.id] = v]
  BY <1>2 DEF TellOne
<1>5. QED
  BY <1>2, <1>3, <1>4

LEMMA TellingIs ==
  ASSUME NEW ids, NEW known \in [ids -> Told], NEW reports \in Seq(ReportRecord),
         \A i \in 1 .. Len(reports) : reports[i].id \in ids
  PROVE  /\ FoldLeft(TellOne, known, reports) \in [ids -> Told]
         /\ \A id \in ids :
              FoldLeft(TellOne, known, reports)[id] = AfterReports(Start(known, id), reports).told
<1> DEFINE F(s) == Tells!Fold(known, s)
           Good == {s \in Seq(ReportRecord) :
                      (\A i \in 1 .. Len(s) : s[i].id \in ids) =>
                        /\ F(s) \in [ids -> Told]
                        /\ \A id \in ids : F(s)[id] = AfterReports(Start(known, id), s).told}
<1>1. <<>> \in Good
  <2>1. F(<<>>) = known
    BY Tells!FoldOfEmpty
  <2>2. <<>> \in Seq(ReportRecord)
    BY EmptySeq
  <2>3. ASSUME NEW id \in ids
        PROVE  known[id] = AfterReports(Start(known, id), <<>>).told
    <3>1. AfterReports(Start(known, id), <<>>) = Start(known, id)
      BY NoReportsYet
    <3>2. QED
      BY <3>1 DEF Start
  <2>4. QED
    BY <2>1, <2>2, <2>3
<1>2. ASSUME NEW s \in Seq(ReportRecord), NEW e \in ReportRecord, s \in Good
      PROVE  Append(s, e) \in Good
  <2>1. PICK p : p = Append(s, e)
    OBVIOUS
  <2>2. /\ Len(s) \in Nat /\ p \in Seq(ReportRecord) /\ Len(p) = Len(s) + 1 /\ p[Len(s) + 1] = e
        /\ \A j \in 1 .. Len(s) : p[j] = s[j]
    BY <2>1, AppendProperties, LenProperties
  <2>3. SUFFICES ASSUME \A i \in 1 .. Len(p) : p[i].id \in ids
                 PROVE  /\ F(p) \in [ids -> Told]
                        /\ \A id \in ids : F(p)[id] = AfterReports(Start(known, id), p).told
    BY <2>1, <2>2
  <2>4. e.id \in ids /\ \A i \in 1 .. Len(s) : s[i].id \in ids
    <3>1. Len(s) + 1 \in 1 .. Len(p) /\ \A i \in 1 .. Len(s) : i \in 1 .. Len(p)
      BY <2>2
    <3>2. QED
      BY <2>2, <2>3, <3>1
  <2>5. PICK k : k = F(s)
    OBVIOUS
  <2>6. k \in [ids -> Told] /\ \A id \in ids : k[id] = AfterReports(Start(known, id), s).told
    BY <1>2, <2>4, <2>5
  <2>7. F(p) = TellOne(k, e)
    <3>1. F(Append(s, e)) = TellOne(F(s), e)
      BY Tells!FoldOfAppend
    <3>2. QED
      BY <2>1, <2>5, <3>1
  <2> HIDE DEF F
  <2>8. /\ TellOne(k, e) \in [ids -> Told] /\ TellOne(k, e)[e.id] = Heard(k[e.id], e)
        /\ \A id \in ids : id # e.id => TellOne(k, e)[id] = k[id]
    BY <2>4, <2>6, TellOneIs
  <2>9. ASSUME NEW id \in ids
        PROVE  TellOne(k, e)[id] = AfterReports(Start(known, id), p).told
    <3>1. PICK m : m = AfterReports(Start(known, id), s)
      OBVIOUS
    <3>2. AfterReports(Start(known, id), p) = Hears(m, e)
      BY <2>1, <3>1, ReportsOfAppend
    <3>3. Start(known, id) \in Listener(id)
      BY DEF Start, Listener
    <3>4. m \in Listener(id)
      BY <3>1, <3>3, AfterReportsType
    <3>5. m.id = id /\ m.told = k[id]
      BY <2>6, <3>1, <3>4, ListenerFields
    <3>6. CASE e.id = id
      <4>1. Hears(m, e).told = Heard(m.told, e)
        BY <3>5, <3>6 DEF Hears
      <4>2. QED
        BY <2>8, <3>2, <3>5, <3>6, <4>1
    <3>7. CASE e.id # id
      <4>1. Hears(m, e) = m
        BY <3>5, <3>7 DEF Hears
      <4>2. QED
        BY <2>8, <3>2, <3>5, <3>7, <4>1
    <3>8. QED
      BY <3>6, <3>7
  <2>10. QED
    BY <2>7, <2>8, <2>9
<1> HIDE DEF Good
<1>3. Seq(ReportRecord) \subseteq Good
  BY <1>1, <1>2, Tells!SeqSetInduction
<1>4. reports \in Good
  BY <1>3
<1>5. FoldLeft(TellOne, known, reports) = F(reports)
  BY DEF Tells!Fold, FoldLeft, Tells!MapThenFoldSet, MapThenFoldSet,
         Tells!Latest, Max
<1> HIDE DEF F
<1>6. F(reports) \in [ids -> Told]
      /\ \A id \in ids : F(reports)[id] = AfterReports(Start(known, id), reports).told
  BY <1>4 DEF Good
<1>7. QED
  BY <1>5, <1>6

LEMMA TrailOfTell ==
  ASSUME NEW d, NEW xs, NEW t, DeskInv(d, xs, t), NEW reports, TrailInv(d, reports, xs, t),
         NEW y, y = Tell(d, reports)
  PROVE  /\ TrailInv(y, <<>>, xs, t) /\ y.next_order_id = d.next_order_id
         /\ Learned(d.seen, y.seen)
<1> DEFINE n   == d.next_order_id
           q   == d.queue
           ids == 1 .. n - 1
<1>1. /\ DOMAIN d = {"queue", "route", "next_order_id", "cancels", "seen"}
      /\ q \in Seq(Event) /\ n \in Nat
  BY DEF DeskInv, QueueFrom, OrderId
<1>2. /\ d.seen \in [ids -> Told] /\ (\A id \in DOMAIN d.seen : SoundTold(d.seen[id]))
      /\ reports \in Seq(ReportRecord) /\ (\A i \in 1 .. Len(reports) : reports[i].id < n)
      /\ Times(q, Stray(t, n)) = 0
  BY DEF TrailInv
<1>3. PICK told : told = FoldLeft(TellOne, d.seen, reports)
  OBVIOUS
<1>4. /\ y.seen = told /\ y.queue = q /\ y.route = d.route /\ y.next_order_id = n
  BY <1>1, <1>3 DEF Tell
<1>5. \A i \in 1 .. Len(reports) : reports[i].id \in ids
  <2>1. ASSUME NEW i \in 1 .. Len(reports)
        PROVE  reports[i].id \in ids
    <3>1. PICK k : k = reports[i].id
      OBVIOUS
    <3> HIDE DEF n, ids
    <3>2. k < n /\ reports[i] \in ReportRecord
      BY <1>2, <3>1, ElementOfSeq
    <3>3. k \in Nat \ {0} /\ n \in Nat
      BY <1>1, <3>1, <3>2 DEF ReportRecord, OrderId
    <3>4. k \in ids
      BY <3>2, <3>3 DEF ids
    <3>5. QED
      BY <3>1, <3>4
  <2>2. QED
    BY <2>1
<1> HIDE DEF ids, n, q
<1>6. /\ told \in [ids -> Told]
      /\ \A id \in ids : told[id] = AfterReports(Start(d.seen, id), reports).told
  <2>1. /\ FoldLeft(TellOne, d.seen, reports) \in [ids -> Told]
        /\ \A id \in ids : FoldLeft(TellOne, d.seen, reports)[id]
                             = AfterReports(Start(d.seen, id), reports).told
    BY ZenonT(60), <1>2, <1>5, TellingIs
  <2>2. QED
    BY <1>3, <2>1
<1>7. ASSUME NEW id \in ids
      PROVE  /\ Outlook(told, <<>>, q, id).ok /\ Agrees(Outlook(told, <<>>, q, id), d.route, xs)
             /\ SoundTold(told[id])
             /\ told[id].filled >= d.seen[id].filled
             /\ IsTerminal(d.seen[id].status) => told[id] = d.seen[id]
  <2>1. PICK s : s = Start(d.seen, id)
    OBVIOUS
  <2>2. PICK m : m = AfterReports(s, reports)
    OBVIOUS
  <2>3. PICK a : a = AfterEvents(m, q)
    OBVIOUS
  <2>4. /\ SoundTold(d.seen[id]) /\ s \in Listener(id) /\ s.told = d.seen[id] /\ m \in Listener(id)
        /\ a.ok /\ Agrees(a, d.route, xs)
    <3>1. id \in DOMAIN d.seen /\ d.queue \in Seq(Event)
      BY <1>1, <1>2 DEF q
    <3>2. /\ SoundTold(d.seen[id]) /\ s \in Listener(id) /\ s.told = d.seen[id]
          /\ m \in Listener(id) /\ Outlook(d.seen, reports, d.queue, id) = AfterEvents(m, d.queue)
          /\ Outlook(d.seen, reports, d.queue, id).ok
          /\ Agrees(Outlook(d.seen, reports, d.queue, id), d.route, xs)
      BY <2>1, <2>2, <3>1, TrailParts
    <3>3. QED
      BY <2>3, <3>2 DEF q
  <2>5. Grew(s, m) /\ Grew(m, a)
    BY <1>1, <1>2, <2>2, <2>3, <2>4, GrewByReports, GrewByEvents
  <2>6. m.ok
    BY <2>4, <2>5 DEF Grew
  <2>7. m.told = told[id]
    BY <1>6, <2>1, <2>2
  <2>8. m = Start(told, id)
    BY <2>4, <2>6, <2>7 DEF Start, Listener
  <2>9. Outlook(told, <<>>, q, id) = a
    <3>1. AfterReports(m, <<>>) = m
      BY NoReportsYet
    <3>2. QED
      BY <2>3, <2>8, <3>1 DEF Outlook
  <2>10. /\ m.told.filled >= s.told.filled
         /\ IsTerminal(s.told.status) => m.told = s.told
         /\ SoundTold(s.told) => SoundTold(m.told)
    BY <2>5, <2>6 DEF Grew
  <2>11. QED
    BY <2>4, <2>7, <2>9, <2>10
<1>8. DOMAIN told = ids /\ DOMAIN d.seen = ids
  BY <1>2, <1>6
<1>9. <<>> \in Seq(ReportRecord) /\ \A i \in 1 .. Len(<<>>) : <<>>[i].id < n
  BY EmptySeq
<1>10. TrailInv(y, <<>>, xs, t)
  <2>1. ids = 1 .. n - 1
    BY DEF ids
  <2>2. QED
    BY <1>2, <1>4, <1>6, <1>7, <1>8, <1>9, <2>1 DEF TrailInv
<1>11. Learned(d.seen, y.seen)
  BY <1>4, <1>7, <1>8 DEF Learned
<1>12. QED
  BY <1>4, <1>10, <1>11 DEF n

-----------------------------------------------------------------------------
(***************************************************************************)
(* The end of a step, with or without a flush.                             *)
(***************************************************************************)
LEMMA TrailNext ==
  ASSUME config' = config, TrailInv(NextDesk, report_buffer', exchanges', now')
  PROVE  TrailInv(Now, report_buffer, exchanges, now)'
  BY DEF TrailInv, NextDesk, Now, Desk, Stray, TradedQtys, PreloadedQtys, Outlook, Start

LEMMA TrailOfSetDesk ==
  ASSUME NEW d, SetDesk(d), NEW buffer, NEW xs, NEW t, TrailInv(d, buffer, xs, t)
  PROVE  /\ TrailInv(NextDesk, buffer, xs, t)
         /\ next_order_id' = d.next_order_id /\ seen' = d.seen
  BY DEF TrailInv, NextDesk, SetDesk

LEMMA LearnedItself == \A known : (\A id \in DOMAIN known : known[id] \in Told) => Learned(known, known)
  BY DEF Learned, Told

LEMMA LearnedOn ==
  ASSUME NEW x, NEW y, NEW z, Learned(x, y), Remembers(y, z)
  PROVE  Learned(x, z)
  BY DEF Learned, Remembers

LEMMA LearnedTransitive ==
  ASSUME NEW x, NEW y, NEW z, Learned(x, y), Learned(y, z),
         \A id \in DOMAIN x : x[id] \in Told, \A id \in DOMAIN y : y[id] \in Told,
         \A id \in DOMAIN z : z[id] \in Told
  PROVE  Learned(x, z)
<1>1. ASSUME NEW id \in DOMAIN x
      PROVE  /\ id \in DOMAIN z /\ z[id].filled >= x[id].filled
             /\ IsTerminal(x[id].status) => z[id] = x[id]
  <2>1. /\ id \in DOMAIN y /\ y[id].filled >= x[id].filled
        /\ IsTerminal(x[id].status) => y[id] = x[id]
        /\ id \in DOMAIN z /\ z[id].filled >= y[id].filled
        /\ IsTerminal(y[id].status) => z[id] = y[id]
    BY DEF Learned
  <2>2. x[id].filled \in Nat /\ y[id].filled \in Nat /\ z[id].filled \in Nat
    BY <2>1 DEF Told
  <2>3. QED
    BY <2>1, <2>2
<1>2. QED
  BY <1>1 DEF Learned

LEMMA FlushTrail ==
  ASSUME config \in Configs, now' \in Nat,
         NEW d, DeskInv(d, exchanges', now'), NEW ticks, NEW reports, NEW tmr,
         TrailInv(d, reports, exchanges', now'), d.next_order_id <= MaxOrders + 1,
         FlushStrategy(d, ticks, reports, tmr)
  PROVE  /\ TrailInv(NextDesk, report_buffer', exchanges', now')
         /\ next_order_id' <= MaxOrders + 1
         /\ Learned(d.seen, seen')
<1>0. \A id \in DOMAIN d.seen : d.seen[id] \in Told
  BY DEF TrailInv
<1>1. CASE ticks = <<>> /\ reports = <<>>
  <2>1. SetDesk(d) /\ report_buffer' = reports
    BY <1>1 DEF FlushStrategy, Keep
  <2>2. QED
    BY <1>0, <2>1, TrailOfSetDesk, LearnedItself
<1>2. CASE ~(ticks = <<>> /\ reports = <<>>)
  <2> DEFINE told == Tell(d, reports)
  <2>1. /\ \E c \in Commands(d) : SetDesk(HandleCommands(told, c, now'))
        /\ report_buffer' = <<>>
    BY <1>2 DEF FlushStrategy
  <2>2. PICK c \in Commands(d) : SetDesk(HandleCommands(told, c, now'))
    BY <2>1
  <2>3. reports \in Seq(ReportRecord)
    BY DEF TrailInv
  <2>4. DeskInv(told, exchanges', now')
    BY <2>3, TellKeeps
  <2>5. /\ TrailInv(told, <<>>, exchanges', now') /\ told.next_order_id = d.next_order_id
        /\ Learned(d.seen, told.seen)
    BY TrailOfTell
  <2>6. told.cancels = d.cancels
    BY DEF Tell, DeskInv
  <2> HIDE DEF told
  <2>7. c \in Commands(told)
    BY <2>2, <2>5, <2>6 DEF Commands
  <2> DEFINE y == HandleCommands(told, c, now')
  <2>8. /\ TrailInv(y, <<>>, exchanges', now') /\ y.next_order_id <= MaxOrders + 1
        /\ Remembers(told.seen, y.seen)
    BY <2>4, <2>5, <2>7, TrailOfHandled
  <2>9. SetDesk(y)
    BY <2>2
  <2> HIDE DEF y
  <2>10. TrailInv(NextDesk, <<>>, exchanges', now') /\ next_order_id' <= MaxOrders + 1
         /\ seen' = y.seen
    BY <2>8, <2>9, TrailOfSetDesk
  <2>11. Learned(d.seen, seen')
    BY <2>5, <2>8, <2>10, LearnedOn
  <2>12. QED
    BY <2>1, <2>10, <2>11
<1>3. QED
  BY <1>1, <1>2

\* What a step leaves of the trail of reports.
TrailGoesOn ==
  /\ ReportsInv'
  /\ Learned(seen, seen')

LEMMA EndStepTrail ==
  ASSUME config \in Configs, config' = config, now' \in Nat,
         source' # <<>> => Head(source').qty \in TradedQtys,
         NEW d, DeskInv(d, exchanges', now'), NEW ticks, NEW reports, NEW tmr, NEW wakeup,
         TrailInv(d, reports, exchanges', now'), d.next_order_id <= MaxOrders + 1,
         config.mode = "Tick" => reports = <<>>,
         EndStep(d, ticks, reports, tmr, wakeup)
  PROVE  ReportsInv' /\ Learned(d.seen, seen')
<1>0. \A id \in DOMAIN d.seen : d.seen[id] \in Told
  BY DEF TrailInv
<1>1. CASE ~Woken(wakeup) \/ (Woken(wakeup) /\ MoreNow(d))
  <2>1. SetDesk(d) /\ report_buffer' = reports
    BY <1>1 DEF EndStep, Keep
  <2>2. TrailInv(NextDesk, report_buffer', exchanges', now')
        /\ next_order_id' = d.next_order_id /\ seen' = d.seen
    BY <2>1, TrailOfSetDesk
  <2>3. TrailInv(Now, report_buffer, exchanges, now)'
    BY <2>2, TrailNext
  <2>4. QED
    BY <1>0, <2>1, <2>2, <2>3, LearnedItself DEF ReportsInv, TradedQtys
<1>2. CASE Woken(wakeup) /\ ~MoreNow(d)
  <2>1. FlushStrategy(d, ticks, reports, tmr) /\ config.mode = "Batch"
    BY <1>2 DEF EndStep, Woken
  <2>2. /\ TrailInv(NextDesk, report_buffer', exchanges', now')
        /\ next_order_id' <= MaxOrders + 1 /\ Learned(d.seen, seen')
    BY <2>1, FlushTrail
  <2>3. TrailInv(Now, report_buffer, exchanges, now)'
    BY <2>2, TrailNext
  <2>4. QED
    BY <2>1, <2>2, <2>3 DEF ReportsInv, TradedQtys
<1>3. QED
  BY <1>1, <1>2

-----------------------------------------------------------------------------
(***************************************************************************)
(* A handler pops an event, and pushes reports.                            *)
(***************************************************************************)
LEMMA PoppedParts ==
  ASSUME EngineInv, ReportsInv, NEW kind, PopAs(kind)
  PROVE  /\ next_order_id \in Nat /\ TrailInv(Now, report_buffer, exchanges, now)
         /\ Now.queue = queue /\ Now.route = route /\ Now.seen = seen
         /\ seen \in [1 .. next_order_id - 1 -> Told]
         /\ \A id \in DOMAIN seen : SoundTold(seen[id])
         /\ report_buffer \in Seq(ReportRecord)
         /\ \A i \in 1 .. Len(report_buffer) : report_buffer[i].id < next_order_id
         /\ Times(Tail(queue), Stray(now', next_order_id)) = 0
         /\ Head(queue) \notin Stray(now, next_order_id)
         /\ next_order_id <= MaxOrders + 1
         /\ config.mode = "Tick" => report_buffer = <<>>
         /\ source' # <<>> => Head(source').qty \in TradedQtys
<1>1. /\ config \in Configs /\ now' \in Nat /\ now \in Nat /\ now' >= now
      /\ Tail(queue) \in Seq(Event)
      /\ \A E : Times(queue, E) = Times(Tail(queue), E) + (IF Head(queue) \in E THEN 1 ELSE 0)
      /\ \A E : Times(queue, E) \in Nat /\ Times(Tail(queue), E) \in Nat
  BY Popped
<1>2. /\ TrailInv(Now, report_buffer, exchanges, now)
      /\ next_order_id <= MaxOrders + 1
      /\ config.mode = "Tick" => report_buffer = <<>>
      /\ source # <<>> => Head(source).qty \in TradedQtys
  BY DEF ReportsInv
<1> DEFINE n == next_order_id
<1>3. Now.queue = queue /\ Now.route = route /\ Now.seen = seen /\ Now.next_order_id = n
  BY DEF Now, Desk
<1>4. n \in Nat
  BY <1>3 DEF EngineInv, DeskInv, OrderId
<1>5. /\ seen \in [1 .. n - 1 -> Told] /\ (\A id \in DOMAIN seen : SoundTold(seen[id]))
      /\ report_buffer \in Seq(ReportRecord)
      /\ (\A i \in 1 .. Len(report_buffer) : report_buffer[i].id < n)
      /\ Times(queue, Stray(now, n)) = 0
  BY <1>2, <1>3 DEF TrailInv
<1>6. Times(Tail(queue), Stray(now, n)) = 0 /\ Head(queue) \notin Stray(now, n)
  <2>1. /\ Times(queue, Stray(now, n))
             = Times(Tail(queue), Stray(now, n)) + (IF Head(queue) \in Stray(now, n) THEN 1 ELSE 0)
        /\ Times(Tail(queue), Stray(now, n)) \in Nat
    BY <1>1
  <2>2. QED
    BY <1>5, <2>1
<1>7. Times(Tail(queue), Stray(now', n)) = 0
  <2> DEFINE rest == Tail(queue)
             t == now'
  <2>1. n \in Nat /\ n >= n /\ rest \in Seq(Event) /\ t \in Nat /\ t >= now
        /\ Times(rest, Stray(now, n)) = 0
    BY <1>1, <1>4, <1>6
  <2> HIDE DEF rest, t, n
  <2>2. Times(rest, Stray(t, n)) = 0
    BY <1>1, <2>1, StrayLater
  <2>3. QED
    BY <2>2 DEF rest, t, n
<1>8. source' = source
  BY DEF PopAs, feed
<1>9. QED
  BY <1>2, <1>3, <1>4, <1>5, <1>6, <1>7, <1>8

LEMMA TrailPopped ==
  ASSUME EngineInv, ReportsInv, NEW kind, PopAs(kind), kind # "OrderReport"
  PROVE  /\ TrailInv(Desk(Tail(queue)), report_buffer, exchanges, now')
         /\ Head(queue) \notin Stray(now, next_order_id)
         /\ next_order_id <= MaxOrders + 1 /\ Desk(Tail(queue)).next_order_id = next_order_id
         /\ config.mode = "Tick" => report_buffer = <<>>
         /\ source' # <<>> => Head(source').qty \in TradedQtys
<1>1. /\ queue \in Seq(Event) /\ queue # <<>> /\ Head(queue).kind = kind
  BY Popped
<1> DEFINE d == Desk(Tail(queue))
           n == next_order_id
<1>2. d.queue = Tail(queue) /\ d.route = route /\ d.seen = seen /\ d.next_order_id = n
  BY DEF Desk
<1> HIDE DEF d
<1>3. /\ TrailInv(Now, report_buffer, exchanges, now)
      /\ Now.queue = queue /\ Now.route = route /\ Now.seen = seen
  BY PoppedParts
<1>4. ASSUME NEW id \in DOMAIN seen
      PROVE  /\ Outlook(seen, report_buffer, Tail(queue), id).ok
             /\ Agrees(Outlook(seen, report_buffer, Tail(queue), id), route, exchanges)
  <2> DEFINE m == AfterReports(Start(seen, id), report_buffer)
  <2>1. /\ m \in Listener(id) /\ Outlook(seen, report_buffer, queue, id) = AfterEvents(m, queue)
        /\ Outlook(seen, report_buffer, queue, id).ok
        /\ Agrees(Outlook(seen, report_buffer, queue, id), route, exchanges)
    BY <1>1, <1>3, TrailParts
  <2>2. Outlook(seen, report_buffer, Tail(queue), id) = AfterEvents(m, Tail(queue))
    BY DEF Outlook
  <2> HIDE DEF m
  <2>3. AfterEvents(m, queue) = AfterEvents(HearsOf(m, Head(queue)), Tail(queue))
    BY <1>1, OutlookOfPop
  <2>4. HearsOf(m, Head(queue)) = m
    BY <1>1 DEF HearsOf
  <2>5. QED
    BY <2>1, <2>2, <2>3, <2>4
<1>5. TrailInv(d, report_buffer, exchanges, now')
  BY <1>2, <1>4, PoppedParts DEF TrailInv
<1>6. QED
  BY <1>2, <1>5, PoppedParts DEF d

\* The market moves on, and no order of the strategy with it.
LEMMA TrailOfMarket ==
  ASSUME NEW d, d.queue \in Seq(Event), NEW buffer, NEW xs, NEW ys, NEW t,
         TrailInv(d, buffer, xs, t),
         \A id \in DOMAIN d.seen : \A a \in Listener(id) :
            Agrees(a, d.route, xs) => Agrees(a, d.route, ys)
  PROVE  TrailInv(d, buffer, ys, t)
<1>1. ASSUME NEW id \in DOMAIN d.seen
      PROVE  /\ Outlook(d.seen, buffer, d.queue, id).ok
             /\ Agrees(Outlook(d.seen, buffer, d.queue, id), d.route, ys)
  <2>1. PICK a : a = Outlook(d.seen, buffer, d.queue, id)
    OBVIOUS
  <2>2. a \in Listener(id) /\ a.ok /\ Agrees(a, d.route, xs)
    BY <2>1, TrailParts
  <2>3. QED
    BY <2>1, <2>2
<1>2. QED
  BY <1>1 DEF TrailInv

\* Reports that wait one behind the other.
LEMMA ReportsAsEvents ==
  ASSUME NEW ts \in Nat, NEW a, NEW reports \in Seq(ReportRecord)
  PROVE  AfterEvents(a, EventsOf(reports, ts)) = AfterReports(a, reports)
<1> DEFINE Good == {s \in Seq(ReportRecord) :
                      AfterEvents(a, EventsOf(s, ts)) = AfterReports(a, s)}
<1>0. ASSUME NEW s \in Seq(ReportRecord)
      PROVE  /\ EventsOf(s, ts) \in Seq(Event) /\ Len(EventsOf(s, ts)) = Len(s) /\ Len(s) \in Nat
             /\ \A i \in 1 .. Len(s) : EventsOf(s, ts)[i] = ReportEvent(ts, s[i])
  <2>1. EventsOf(s, ts) \in Seq(Later(ts)) /\ Len(EventsOf(s, ts)) = Len(s)
    BY EventsOfType
  <2>2. Seq(Later(ts)) \subseteq Seq(Event)
    BY DEF Later
  <2>3. Len(s) \in Nat /\ DOMAIN s = 1 .. Len(s)
    BY LenProperties
  <2>4. QED
    BY <2>1, <2>2, <2>3 DEF EventsOf
<1>1. <<>> \in Good
  <2>1. <<>> \in Seq(ReportRecord)
    BY EmptySeq
  <2>2. EventsOf(<<>>, ts) = <<>>
    BY <1>0, <2>1, EmptySeq
  <2>3. QED
    BY <2>1, <2>2, NoReportsYet
<1>2. ASSUME NEW s \in Seq(ReportRecord), NEW r \in ReportRecord, s \in Good
      PROVE  Append(s, r) \in Good
  <2>1. PICK p : p = Append(s, r)
    OBVIOUS
  <2>2. /\ Len(s) \in Nat /\ p \in Seq(ReportRecord) /\ Len(p) = Len(s) + 1 /\ p[Len(s) + 1] = r
        /\ \A j \in 1 .. Len(s) : p[j] = s[j]
    BY <2>1, AppendProperties, LenProperties
  <2>3. PICK e : e = ReportEvent(ts, r)
    OBVIOUS
  <2>4. e \in Event /\ e.kind = "OrderReport" /\ e.report = r
    BY <2>3 DEF ReportEvent, Event, ReportEvents
  <2>5. PICK v : v = EventsOf(s, ts)
    OBVIOUS
  <2>6. PICK w : w = EventsOf(p, ts)
    OBVIOUS
  <2>7. /\ v \in Seq(Event) /\ Len(v) = Len(s)
        /\ \A i \in 1 .. Len(s) : v[i] = ReportEvent(ts, s[i])
    BY <1>0, <2>5
  <2>8. /\ w \in Seq(Event) /\ Len(w) = Len(p)
        /\ \A i \in 1 .. Len(p) : w[i] = ReportEvent(ts, p[i])
    BY <1>0, <2>2, <2>6
  <2>9. w = Append(v, e)
    <3>1. PICK u : u = Append(v, e)
      OBVIOUS
    <3>2. /\ u \in Seq(Event) /\ Len(u) = Len(v) + 1 /\ u[Len(v) + 1] = e
          /\ \A i \in 1 .. Len(v) : u[i] = v[i]
      BY <2>4, <2>7, <3>1, AppendProperties, LenProperties
    <3>3. \A i \in 1 .. Len(w) : w[i] = u[i]
      <4>1. ASSUME NEW i \in 1 .. Len(w) PROVE w[i] = u[i]
        <5>1. i \in 1 .. Len(s) \/ i = Len(s) + 1
          BY <2>2, <2>8
        <5>2. CASE i = Len(s) + 1
          BY <2>2, <2>3, <2>7, <2>8, <3>2, <5>2
        <5>3. CASE i \in 1 .. Len(s)
          BY <2>2, <2>7, <2>8, <3>2, <5>3
        <5>4. QED
          BY <5>1, <5>2, <5>3
      <4>2. QED
        BY <4>1
    <3>4. Len(w) = Len(u)
      BY <2>2, <2>7, <2>8, <3>2
    <3>5. w = u
      BY <2>8, <3>2, <3>3, <3>4, SeqEqual
    <3>6. QED
      BY <3>1, <3>5
  <2>10. AfterEvents(a, w) = HearsOf(AfterEvents(a, v), e)
    <3>1. w = v \o <<e>>
      <4>1. Append(v, e) = v \o <<e>>
        BY <2>4, <2>7, AppendIsConcat
      <4>2. QED
        BY <2>9, <4>1
    <3>2. PICK one : one = <<e>>
      OBVIOUS
    <3>3. one \in Seq(Event)
      BY <2>4, <3>2
    <3>4. AfterEvents(a, v \o one) = AfterEvents(AfterEvents(a, v), one)
      BY <2>7, <3>3, EventsOfConcat
    <3>5. PICK b : b = AfterEvents(a, v)
      OBVIOUS
    <3>6. AfterEvents(b, <<e>>) = HearsOf(b, e)
      BY <2>4, EventsOfOne
    <3>7. QED
      BY <3>1, <3>2, <3>4, <3>5, <3>6
  <2>11. AfterEvents(a, v) = AfterReports(a, s)
    BY <1>2, <2>5
  <2>12. AfterReports(a, p) = Hears(AfterReports(a, s), r)
    BY <2>1, ReportsOfAppend
  <2>13. HearsOf(AfterReports(a, s), e) = Hears(AfterReports(a, s), r)
    BY <2>4 DEF HearsOf
  <2>14. QED
    BY <2>1, <2>2, <2>6, <2>10, <2>11, <2>12, <2>13
<1> HIDE DEF Good
<1>3. Seq(ReportRecord) \subseteq Good
  BY <1>1, <1>2, Hearing!SeqSetInduction
<1>4. QED
  BY <1>3 DEF Good

\* Reports that join the queue are heard after those that wait in it.
ReportsAt(ts) == {e \in ReportEvents : e.ts = ts}

LEMMA OutlookOfReports ==
  ASSUME NEW id, NEW a \in Listener(id), NEW q \in Seq(Event), Sorted(q),
         NEW ts \in Nat, NoneLater(q, ts), NEW s \in Seq(ReportsAt(ts))
  PROVE  AfterEvents(a, FoldLeft(Enqueue, q, s)) = AfterEvents(AfterEvents(a, q), s)
<1> DEFINE F(u) == Pushes!Fold(q, u)
           b == AfterEvents(a, q)
           Good == {u \in Seq(ReportsAt(ts)) :
                      /\ u \in Seq(Event) /\ F(u) \in Seq(Event) /\ Sorted(F(u))
                      /\ NoneLater(F(u), ts)
                      /\ AfterEvents(a, F(u)) = AfterEvents(b, u)}
<1>1. <<>> \in Good
  <2>1. F(<<>>) = q
    BY Pushes!FoldOfEmpty
  <2>2. <<>> \in Seq(Event) /\ <<>> \in Seq(ReportsAt(ts))
    BY EmptySeq
  <2>3. QED
    BY <2>1, <2>2, NoReportsYet
<1>2. ASSUME NEW u \in Seq(ReportsAt(ts)), NEW e \in ReportsAt(ts), u \in Good
      PROVE  Append(u, e) \in Good
  <2>1. F(Append(u, e)) = Enqueue(F(u), e)
    BY Pushes!FoldOfAppend
  <2>2. PICK r : r = F(u)
    OBVIOUS
  <2>3. /\ u \in Seq(Event) /\ r \in Seq(Event) /\ Sorted(r) /\ NoneLater(r, ts)
        /\ AfterEvents(a, r) = AfterEvents(b, u)
    BY <1>2, <2>2
  <2>4. e \in Event /\ e \in ReportEvents /\ e.ts = ts /\ e.kind = "OrderReport"
    BY DEF ReportsAt, Event, ReportEvents
  <2> HIDE DEF F
  <2>5. Enqueue(r, e) \in Seq(Event) /\ Sorted(Enqueue(r, e))
    BY <2>3, <2>4, EnqueueSorted
  <2>6. NoneLater(Enqueue(r, e), ts)
    BY <2>3, <2>4, PushNoneLater
  <2>7. AfterEvents(a, Enqueue(r, e)) = Hears(AfterEvents(a, r), e.report)
    BY <2>3, <2>4, OutlookOfReport
  <2>8. AfterEvents(b, Append(u, e)) = HearsOf(AfterEvents(b, u), e)
    <3>1. Append(u, e) = u \o <<e>>
      BY <2>3, <2>4, AppendIsConcat
    <3>2. PICK one : one = <<e>>
      OBVIOUS
    <3>3. one \in Seq(Event)
      BY <2>4, <3>2
    <3> HIDE DEF b
    <3>4. AfterEvents(b, u \o one) = AfterEvents(AfterEvents(b, u), one)
      BY <2>3, <3>3, EventsOfConcat
    <3>5. PICK c : c = AfterEvents(b, u)
      OBVIOUS
    <3>6. AfterEvents(c, <<e>>) = HearsOf(c, e)
      BY <2>4, EventsOfOne
    <3>7. QED
      BY <3>1, <3>2, <3>4, <3>5, <3>6
  <2>9. HearsOf(AfterEvents(b, u), e) = Hears(AfterEvents(b, u), e.report)
    BY <2>4 DEF HearsOf
  <2>10. Append(u, e) \in Seq(Event) /\ Append(u, e) \in Seq(ReportsAt(ts))
    BY <2>3, <2>4, AppendProperties
  <2> HIDE DEF b
  <2>11. F(Append(u, e)) = Enqueue(r, e)
    BY <2>1, <2>2
  <2>12. AfterEvents(a, Enqueue(r, e)) = AfterEvents(b, Append(u, e))
    BY <2>3, <2>7, <2>8, <2>9
  <2>13. QED
    BY <2>5, <2>6, <2>10, <2>11, <2>12
<1> HIDE DEF Good
<1>3. Seq(ReportsAt(ts)) \subseteq Good
  BY <1>1, <1>2, Pushes!SeqSetInduction
<1>4. FoldLeft(Enqueue, q, s) = F(s)
  BY PushesFold
<1>5. QED
  BY <1>3, <1>4 DEF Good
LEMMA TrailOfReports ==
  ASSUME config \in Configs, now' \in Nat, NEW q, QueueFrom(q, now'), next_order_id \in Nat,
         NEW buffer, NEW xs, TrailInv(Desk(q), buffer, xs, now'),
         NEW reports \in Seq(ReportRecord),
         \A i \in 1 .. Len(reports) : reports[i].id < next_order_id,
         NEW ys,
         \A id \in DOMAIN seen : \A a \in Listener(id) :
            a.ok /\ Agrees(a, route, xs) =>
              AfterReports(a, reports).ok /\ Agrees(AfterReports(a, reports), route, ys),
         NEW r, r = EnqueueReports(q, reports)
  PROVE  TrailInv(Desk(r), buffer, ys, now')
<1> DEFINE d == Desk(q)
           f == Desk(r)
           n == next_order_id
           l == now' + config.order_update_latency
<1>1. /\ d.queue = q /\ d.route = route /\ d.seen = seen /\ d.next_order_id = n
      /\ f.queue = r /\ f.route = route /\ f.seen = seen /\ f.next_order_id = n
  BY DEF Desk
<1> HIDE DEF d, f
<1>2. TrailInv(d, buffer, xs, now')
  BY DEF d
<1>3. /\ seen \in [1 .. n - 1 -> Told] /\ (\A id \in DOMAIN seen : SoundTold(seen[id]))
      /\ buffer \in Seq(ReportRecord) /\ (\A i \in 1 .. Len(buffer) : buffer[i].id < n)
      /\ Times(q, Stray(now', n)) = 0
  BY <1>1, <1>2 DEF TrailInv
<1>4. q \in Seq(Event) /\ Sorted(q)
  BY DEF QueueFrom
<1>5. l \in Nat /\ l >= now'
  BY SMTT(60), ConfigFields
<1>6. NoneLater(q, l)
  BY <1>3, <1>4, NotStray
<1>7. PICK v : v = EventsOf(reports, l)
  OBVIOUS
<1>8. r = FoldLeft(Enqueue, q, v)
  BY <1>7 DEF EnqueueReports, EventsOf
<1>9. Len(reports) \in Nat /\ DOMAIN reports = 1 .. Len(reports)
  BY LenProperties
<1>10. /\ v \in Seq(Later(now')) /\ Len(v) = Len(reports)
       /\ \A i \in 1 .. Len(reports) :
            v[i] \in ReportEvents /\ v[i].report = reports[i] /\ v[i].ts = l
  <2>1. \A i \in 1 .. Len(reports) : EventsOf(reports, l)[i] = ReportEvent(l, reports[i])
    BY <1>9 DEF EventsOf
  <2>2. \A i \in 1 .. Len(reports) : ReportEvent(l, reports[i]).ts = l
    BY DEF ReportEvent
  <2> HIDE DEF l
  <2>3. /\ EventsOf(reports, l) \in Seq(Later(now')) /\ Len(EventsOf(reports, l)) = Len(reports)
        /\ \A i \in 1 .. Len(reports) :
             EventsOf(reports, l)[i] \in ReportEvents /\ EventsOf(reports, l)[i].report = reports[i]
    BY <1>5, EventsOfType
  <2>4. QED
    BY <1>7, <2>1, <2>2, <2>3
<1> HIDE DEF l
<1>11. v \in Seq(ReportsAt(l)) /\ v \in Seq(Event)
  <2> DEFINE R == ReportsAt(l)
  <2>1. \A i \in 1 .. Len(v) : v[i] \in R
    BY <1>10 DEF ReportsAt
  <2> HIDE DEF R
  <2>2. v \in Seq(R)
    BY <1>10, <2>1
  <2>3. Seq(Later(now')) \subseteq Seq(Event)
    BY DEF Later
  <2>4. QED
    BY <1>10, <2>2, <2>3 DEF R
<1>12. Times(r, Stray(now', n)) = 0
  <2>1. ASSUME NEW i \in 1 .. Len(v)
        PROVE  v[i] \notin Stray(now', n)
    <3>1. PICK e : e = v[i]
      OBVIOUS
    <3>2. e.kind = "OrderReport" /\ e.ts = l /\ e.report = reports[i] /\ reports[i].id < n
      BY <1>10, <2>1, <3>1 DEF ReportEvents
    <3>3. reports[i].id \in Nat
      <4>1. i \in 1 .. Len(reports)
        BY <1>10
      <4>2. reports[i] \in ReportRecord
        BY <4>1, ElementOfSeq
      <4>3. QED
        BY <4>2 DEF ReportRecord, OrderId
    <3> HIDE DEF n
    <3>4. ~(e.ts > l) /\ ~(e.report.id >= n)
      BY <1>5, <3>2, <3>3 DEF n
    <3>5. QED
      BY <3>1, <3>2, <3>4 DEF Stray, l
  <2>2. Times(v, Stray(now', n)) = 0
    BY <1>11, <2>1, NoTimes
  <2>3. \A E : Times(FoldLeft(Enqueue, q, v), E) = Times(q, E) + Times(v, E)
    BY ZenonT(60), <1>10, PushAll
  <2>4. Times(r, Stray(now', n)) = Times(q, Stray(now', n)) + Times(v, Stray(now', n))
    BY <1>8, <2>3
  <2>5. QED
    BY <1>3, <2>2, <2>4
<1>13. ASSUME NEW id \in DOMAIN seen
       PROVE  /\ Outlook(seen, buffer, r, id).ok
              /\ Agrees(Outlook(seen, buffer, r, id), route, ys)
  <2>1. PICK m : m = AfterReports(Start(seen, id), buffer)
    OBVIOUS
  <2>2. PICK a : a = AfterEvents(m, q)
    OBVIOUS
  <2>3. m \in Listener(id) /\ a \in Listener(id) /\ a.ok /\ Agrees(a, route, xs)
    <3>1. id \in DOMAIN d.seen /\ d.queue \in Seq(Event)
      BY <1>1, <1>4
    <3>2. /\ AfterReports(Start(d.seen, id), buffer) \in Listener(id)
          /\ Outlook(d.seen, buffer, d.queue, id)
               = AfterEvents(AfterReports(Start(d.seen, id), buffer), d.queue)
          /\ Outlook(d.seen, buffer, d.queue, id) \in Listener(id)
          /\ Outlook(d.seen, buffer, d.queue, id).ok
          /\ Agrees(Outlook(d.seen, buffer, d.queue, id), d.route, xs)
      BY <1>2, <3>1, TrailParts
    <3>3. QED
      BY <1>1, <2>1, <2>2, <3>2
  <2>4. AfterEvents(m, FoldLeft(Enqueue, q, v)) = AfterEvents(AfterEvents(m, q), v)
    BY ZenonT(60), <1>4, <1>5, <1>6, <1>11, <2>3, OutlookOfReports
  <2>5. AfterEvents(m, r) = AfterEvents(a, v)
    BY <1>8, <2>2, <2>4
  <2>6. AfterEvents(a, v) = AfterReports(a, reports)
    BY <1>5, <1>7, ReportsAsEvents
  <2>7. Outlook(seen, buffer, r, id) = AfterReports(a, reports)
    BY <2>1, <2>5, <2>6 DEF Outlook
  <2>8. QED
    BY <2>3, <2>7
<1>14. TrailInv(f, buffer, ys, now')
  BY SMTT(60), <1>1, <1>3, <1>12, <1>13 DEF TrailInv
<1>15. QED
  BY <1>14 DEF f


\* What an order agrees with it agrees with still, where nothing happened to it.
LEMMA AgreesStill ==
  ASSUME NEW a, NEW rt, NEW xs, NEW ys, Agrees(a, rt, xs),
         a.id \in DOMAIN rt =>
           /\ a.id \in Live(ys[rt[a.id]]) <=> a.id \in Live(xs[rt[a.id]])
           /\ a.id \in Live(xs[rt[a.id]]) =>
                /\ ys[rt[a.id]].orders[a.id].filled = xs[rt[a.id]].orders[a.id].filled
                /\ ys[rt[a.id]].orders[a.id].state = xs[rt[a.id]].orders[a.id].state
  PROVE  Agrees(a, rt, ys)
  BY DEF Agrees

ApartFrom(x, y, id) ==
  /\ \A i : i # id => (i \in Live(y) <=> i \in Live(x))
  /\ \A i \in Live(x) : i # id => y.orders[i] = x.orders[i]

LEMMA AgreesElsewhere ==
  ASSUME NEW xs, DOMAIN xs = Symbols, NEW s \in Symbols, NEW y, NEW id, ApartFrom(xs[s], y, id),
         NEW rt, NEW a, a.id # id, Agrees(a, rt, xs),
         a.id \in DOMAIN rt => rt[a.id] \in Symbols
  PROVE  Agrees(a, rt, [xs EXCEPT ![s] = y])
<1> DEFINE ys == [xs EXCEPT ![s] = y]
<1>1. ys[s] = y /\ \A k \in Symbols : k # s => ys[k] = xs[k]
  BY SMTT(60)
<1> HIDE DEF ys
<1>2. ASSUME a.id \in DOMAIN rt
      PROVE  /\ a.id \in Live(ys[rt[a.id]]) <=> a.id \in Live(xs[rt[a.id]])
             /\ a.id \in Live(xs[rt[a.id]]) =>
                  /\ ys[rt[a.id]].orders[a.id].filled = xs[rt[a.id]].orders[a.id].filled
                  /\ ys[rt[a.id]].orders[a.id].state = xs[rt[a.id]].orders[a.id].state
  <2>1. rt[a.id] \in Symbols
    BY <1>2
  <2>2. CASE rt[a.id] = s
    BY <1>1, <2>2 DEF ApartFrom
  <2>3. CASE rt[a.id] # s
    BY SMTT(60), <1>1, <2>1, <2>3
  <2>4. QED
    BY <2>2, <2>3
<1>3. Agrees(a, rt, ys)
  BY <1>2, AgreesStill
<1>4. QED
  BY <1>3 DEF ys

\* The step of a handler ends, and the invariant of the trail holds again.
LEMMA TrailEnds ==
  ASSUME EngineInv, ReportsInv, NEW kind, PopAs(kind),
         NEW d, DeskInv(d, exchanges', now'), NEW ticks, NEW reports, NEW tmr, NEW w,
         TrailInv(d, reports, exchanges', now'), d.next_order_id <= MaxOrders + 1,
         config.mode = "Tick" => reports = <<>>,
         EndStep(d, ticks, reports, tmr, w)
  PROVE  ReportsInv' /\ Learned(d.seen, seen')
<1>1. config \in Configs /\ config' = config /\ now' \in Nat
  BY Popped
<1>2. source' # <<>> => Head(source').qty \in TradedQtys
  BY PoppedParts
<1>3. QED
  BY <1>1, <1>2, EndStepTrail

LEMMA TrailEndsAfterCallback ==
  ASSUME EngineInv, ReportsInv, NEW kind, PopAs(kind),
         NEW d, DeskInv(d, exchanges', now'), NEW ticks, NEW reports, NEW tmr, NEW w,
         TrailInv(d, reports, exchanges', now'),
         config.mode = "Tick" => reports = <<>>,
         NEW c \in Commands(d), EndStep(HandleCommands(d, c, now'), ticks, reports, tmr, w)
  PROVE  ReportsInv' /\ Learned(d.seen, seen')
<1>1. PICK y : y = HandleCommands(d, c, now')
  OBVIOUS
<1>2. config \in Configs /\ now' \in Nat /\ now' >= now' /\ c \in CommandSeqs
  BY Popped DEF Commands
<1>3. DeskInv(y, exchanges', now')
  BY <1>1, <1>2, HandleCommandsKeep
<1>4. /\ TrailInv(y, reports, exchanges', now') /\ y.next_order_id <= MaxOrders + 1
      /\ Remembers(d.seen, y.seen)
  BY <1>1, <1>2, TrailOfHandled
<1>5. EndStep(y, ticks, reports, tmr, w)
  BY <1>1
<1>6. ReportsInv' /\ Learned(y.seen, seen')
  BY <1>3, <1>4, <1>5, TrailEnds
<1>7. Learned(d.seen, seen')
  BY <1>4, <1>6 DEF Learned, Remembers
<1>8. QED
  BY <1>6, <1>7

LEMMA TrailEndsWith ==
  ASSUME EngineInv, ReportsInv, NEW kind, PopAs(kind), kind # "OrderReport",
         NEW r, TrailInv(Desk(r), report_buffer, exchanges', now'),
         DeskInv(Desk(r), exchanges', now'), EndQuietly(r)
  PROVE  TrailGoesOn
<1>1. PICK d : d = Desk(r)
  OBVIOUS
<1>2. d.seen = seen /\ d.next_order_id = next_order_id
  BY <1>1 DEF Desk
<1>3. EndStep(d, tick_buffer, report_buffer, timer, FALSE)
  BY <1>1 DEF EndQuietly
<1>4. next_order_id <= MaxOrders + 1 /\ (config.mode = "Tick" => report_buffer = <<>>)
  BY DEF ReportsInv
<1>5. DeskInv(d, exchanges', now') /\ TrailInv(d, report_buffer, exchanges', now')
  BY <1>1
<1>6. ReportsInv' /\ Learned(d.seen, seen')
  BY <1>2, <1>3, <1>4, <1>5, TrailEnds
<1>7. QED
  BY <1>2, <1>6 DEF TrailGoesOn

LEMMA L2UpdateTrail ==
  ASSUME EngineInv, ReportsInv, HandleL2Update
  PROVE  TrailGoesOn
<1>1. PICK u : u = Head(queue)
  OBVIOUS
<1>2. PICK x : x = exchanges[u.symbol]
  OBVIOUS
<1>3. PICK y : y = ApplyL2Update(x, u.side, u.price, u.qty)
  OBVIOUS
<1>4. PICK ys : ys = [exchanges EXCEPT ![u.symbol] = y]
  OBVIOUS
<1>5. PopAs("L2Update") /\ exchanges' = ys /\ EndQuietly(Tail(queue))
  BY <1>1, <1>2, <1>3, <1>4 DEF HandleL2Update
<1>6. /\ u \in Event /\ u.kind = "L2Update" /\ QueueFrom(Tail(queue), now')
      /\ Tail(queue) \in Seq(Event)
  BY <1>1, <1>5, Popped
<1>7. /\ u.symbol \in Symbols /\ u.price \in Prices /\ u.qty \in Nat
      /\ \A id : ~About(Head(queue), id)
  BY <1>1, <1>6 DEF Event, PreloadEvent, TickEvents, Deliveries, OrderEvents, IdEvents,
                    ReportEvents, TimerEvents, About
<1>8. GoodMarket(exchanges) /\ GoodExchange(x)
  BY <1>2, <1>7, Standing
<1>9. GoodExchange(y)
  BY <1>3, <1>7, <1>8, ApplyL2UpdateGood
<1>10. y.orders = x.orders
  BY <1>3, <1>8, Fields DEF GoodExchange, ApplyL2Update
<1>11. \A id : /\ id \in Live(y) <=> id \in Live(x)
               /\ id \in Live(y) => /\ y.orders[id].type = x.orders[id].type
                                    /\ y.orders[id].state = x.orders[id].state
  BY <1>10 DEF Live
<1>12. \A id \in OrderId : SameStatus(exchanges, ys, id)
  BY ZenonT(60), <1>2, <1>4, <1>7, <1>8, <1>9, <1>11, OneExchange
<1>13. DeskInv(Desk(Tail(queue)), ys, now')
  BY <1>5, <1>6, <1>7, <1>12, QuietDesk, SameEventsItself
<1>14. DOMAIN exchanges = Symbols /\ \A i \in DOMAIN route : route[i] \in Symbols
  BY <1>8, Standing DEF GoodMarket
<1>15. ys[u.symbol] = y /\ \A k \in Symbols : k # u.symbol => ys[k] = exchanges[k]
  BY <1>4, <1>7, <1>14
<1>16. ASSUME NEW a, Agrees(a, route, exchanges)
       PROVE  Agrees(a, route, ys)
  <2>1. ASSUME a.id \in DOMAIN route
        PROVE  ys[route[a.id]].orders = exchanges[route[a.id]].orders
    <3>1. CASE route[a.id] = u.symbol
      BY <1>2, <1>10, <1>15, <3>1
    <3>2. CASE route[a.id] # u.symbol
      BY <1>14, <1>15, <2>1, <3>2
    <3>3. QED
      BY <3>1, <3>2
  <2>2. QED
    BY <1>16, <2>1, AgreesStill DEF Live
<1>17. TrailInv(Desk(Tail(queue)), report_buffer, exchanges, now')
  BY <1>5, TrailPopped
<1>18. PICK d : d = Desk(Tail(queue))
  OBVIOUS
<1>19. d.queue = Tail(queue) /\ d.route = route
  BY <1>18 DEF Desk
<1>20. TrailInv(d, report_buffer, ys, now')
  BY <1>6, <1>16, <1>17, <1>18, <1>19, TrailOfMarket
<1>21. /\ TrailInv(Desk(Tail(queue)), report_buffer, exchanges', now')
       /\ DeskInv(Desk(Tail(queue)), exchanges', now')
  BY <1>5, <1>13, <1>18, <1>20
<1>22. QED
  BY <1>5, <1>21, TrailEndsWith

-----------------------------------------------------------------------------
(***************************************************************************)
(* The trail of reports through the handlers that leave the market alone.  *)
(***************************************************************************)
LEMMA QuietHandler ==
  ASSUME EngineInv, ReportsInv, NEW kind, PopAs(kind), kind # "OrderReport",
         exchanges' = exchanges, \A id : ~About(Head(queue), id),
         NEW d, d = Desk(Tail(queue))
  PROVE  /\ TrailInv(d, report_buffer, exchanges', now')
         /\ DeskInv(d, exchanges', now')
         /\ d.queue = Tail(queue) /\ d.route = route /\ d.seen = seen
         /\ d.next_order_id = next_order_id
         /\ d.next_order_id <= MaxOrders + 1
         /\ config.mode = "Tick" => report_buffer = <<>>
<1>1. Tail(queue) \in Seq(Event) /\ QueueFrom(Tail(queue), now')
  BY Popped
<1>2. DeskInv(Desk(Tail(queue)), exchanges, now')
  BY <1>1, QuietDesk, SameEventsItself, SameStatusItself
<1>3. TrailInv(Desk(Tail(queue)), report_buffer, exchanges, now')
  BY TrailPopped
<1>4. /\ next_order_id <= MaxOrders + 1
      /\ config.mode = "Tick" => report_buffer = <<>>
  BY DEF ReportsInv
<1>5. /\ d.queue = Tail(queue) /\ d.route = route /\ d.seen = seen
      /\ d.next_order_id = next_order_id
  BY DEF Desk
<1>6. DeskInv(d, exchanges', now') /\ TrailInv(d, report_buffer, exchanges', now')
  BY <1>2, <1>3
<1>7. QED
  BY <1>4, <1>5, <1>6

LEMMA FundingTrail ==
  ASSUME EngineInv, ReportsInv, HandleFunding
  PROVE  TrailGoesOn
<1>1. PICK d : d = Desk(Tail(queue))
  OBVIOUS
<1>2. /\ PopAs("Funding") /\ exchanges' = exchanges
      /\ \E c \in Commands(d) :
           EndStep(HandleCommands(d, c, now'), tick_buffer, report_buffer, timer, TRUE)
  BY <1>1 DEF HandleFunding
<1>3. \A id : ~About(Head(queue), id)
  BY <1>2, Popped DEF About
<1>4. PICK c \in Commands(d) :
        EndStep(HandleCommands(d, c, now'), tick_buffer, report_buffer, timer, TRUE)
  BY <1>2
<1>5. /\ TrailInv(d, report_buffer, exchanges', now') /\ DeskInv(d, exchanges', now')
      /\ d.seen = seen
      /\ config.mode = "Tick" => report_buffer = <<>>
  BY <1>1, <1>2, <1>3, QuietHandler
<1>6. ReportsInv' /\ Learned(d.seen, seen')
  BY <1>2, <1>4, <1>5, TrailEndsAfterCallback
<1>7. QED
  BY <1>5, <1>6 DEF TrailGoesOn

LEMMA TimerTrail ==
  ASSUME EngineInv, ReportsInv, HandleTimer
  PROVE  TrailGoesOn
<1>1. PICK d : d = Desk(Tail(queue))
  OBVIOUS
<1>2. PICK fires : fires = (config.mode = "Batch" /\ timer = Head(queue).timer_id)
  OBVIOUS
<1>3. PICK tmr : tmr = IF fires THEN NoTimer ELSE timer
  OBVIOUS
<1>4. /\ PopAs("Timer") /\ exchanges' = exchanges
      /\ EndStep(d, tick_buffer, report_buffer, tmr, fires)
  BY <1>1, <1>2, <1>3 DEF HandleTimer, books
<1>5. \A id : ~About(Head(queue), id)
  BY <1>4, Popped DEF About
<1>6. /\ TrailInv(d, report_buffer, exchanges', now') /\ DeskInv(d, exchanges', now')
      /\ d.seen = seen /\ d.next_order_id <= MaxOrders + 1
      /\ config.mode = "Tick" => report_buffer = <<>>
  BY <1>1, <1>4, <1>5, QuietHandler
<1>7. ReportsInv' /\ Learned(d.seen, seen')
  BY <1>4, <1>6, TrailEnds
<1>8. QED
  BY <1>6, <1>7 DEF TrailGoesOn

LEMMA TickDeliveryTrail ==
  ASSUME EngineInv, ReportsInv, HandleTickDelivery
  PROVE  TrailGoesOn
<1>1. PICK d : d = Desk(Tail(queue))
  OBVIOUS
<1>2. PICK tick : tick = Head(queue).tick
  OBVIOUS
<1>3. PICK late : late = TimerEvent(tick.local + max_batch, next_timer_id)
  OBVIOUS
<1>4. PICK ticks : ticks = Append(tick_buffer, tick)
  OBVIOUS
<1>5. PICK f : f = Desk(Enqueue(Tail(queue), late))
  OBVIOUS
<1>6. /\ PopAs("TickDelivery") /\ exchanges' = exchanges
      /\ \/ /\ config.mode = "Tick"
            /\ \E c \in Commands(d) :
                 EndStep(HandleCommands(d, c, tick.local),
                         tick_buffer, report_buffer, timer, FALSE)
         \/ /\ config.mode = "Batch" /\ ArmsTimer /\ next_timer_id' = next_timer_id + 1
            /\ EndStep(f, ticks, report_buffer, next_timer_id, FALSE)
         \/ EndStep(d, ticks, report_buffer, timer, FALSE)
  BY <1>1, <1>2, <1>3, <1>4, <1>5 DEF HandleTickDelivery, books
<1>7. /\ Head(queue) \in Event /\ Head(queue).kind = "TickDelivery" /\ now' \in Nat
      /\ Tail(queue) \in Seq(Event) /\ QueueFrom(Tail(queue), now') /\ now' = Head(queue).ts
  BY <1>6, Popped
<1>8. /\ tick \in TickRecord /\ tick.local = now'
      /\ \A id : ~About(Head(queue), id)
  BY <1>2, <1>7 DEF Event, PreloadEvent, TickEvents, Deliveries, OrderEvents, IdEvents,
                    ReportEvents, TimerEvents, About, TickRecord
<1>9. /\ TrailInv(d, report_buffer, exchanges', now') /\ DeskInv(d, exchanges', now')
      /\ d.queue = Tail(queue) /\ d.route = route /\ d.seen = seen
      /\ d.next_order_id = next_order_id /\ d.next_order_id <= MaxOrders + 1
      /\ config.mode = "Tick" => report_buffer = <<>>
  BY <1>1, <1>6, <1>8, QuietHandler
<1>10. CASE /\ config.mode = "Tick"
            /\ \E c \in Commands(d) :
                 EndStep(HandleCommands(d, c, tick.local),
                         tick_buffer, report_buffer, timer, FALSE)
  <2>1. PICK c \in Commands(d) :
          EndStep(HandleCommands(d, c, now'), tick_buffer, report_buffer, timer, FALSE)
    BY <1>8, <1>10
  <2>2. ReportsInv' /\ Learned(d.seen, seen')
    BY <1>6, <1>9, <2>1, TrailEndsAfterCallback
  <2>3. QED
    BY <1>9, <2>2 DEF TrailGoesOn
<1>11. CASE /\ config.mode = "Batch" /\ ArmsTimer /\ next_timer_id' = next_timer_id + 1
            /\ EndStep(f, ticks, report_buffer, next_timer_id, FALSE)
  <2>1. late \in TimerEvents /\ late.ts >= tick.local
    BY <1>3, <1>7, <1>8, <1>11, Popped, <1>6, StartsBatch
  <2>2. /\ late \in Event /\ late.kind = "Timer" /\ late \in Later(now')
        /\ \A id : ~About(late, id)
    BY <1>8, <2>1 DEF TimerEvents, Event, Later, About
  <2>3. PICK r : r = Enqueue(Tail(queue), late)
    OBVIOUS
  <2>4. QueueFrom(r, now') /\ \A id : SameEvents(Tail(queue), r, id)
    BY <1>7, <2>2, <2>3, PushKeeps, PushSame
  <2>5. DeskInv(Desk(r), exchanges, now')
    BY <1>6, <1>8, <2>4, QuietDesk, SameStatusItself
  <2>6. f.queue = r /\ f.route = route /\ f.seen = seen /\ f.next_order_id = next_order_id
    BY <1>5, <2>3 DEF Desk
  <2>7. late \notin Stray(now', d.next_order_id)
    BY <2>2 DEF Stray
  <2>8. /\ d.queue \in Seq(Event) /\ f.queue = Enqueue(d.queue, late) /\ f.route = d.route
        /\ f.seen = d.seen /\ f.next_order_id = d.next_order_id
    BY <1>7, <1>9, <2>3, <2>6
  <2>9. TrailInv(f, report_buffer, exchanges', now')
    BY <1>9, <2>2, <2>7, <2>8, TrailOfPush
  <2>10. DeskInv(f, exchanges', now') /\ f.next_order_id <= MaxOrders + 1
    BY <1>5, <1>6, <1>9, <2>3, <2>5, <2>6
  <2>11. ReportsInv' /\ Learned(f.seen, seen')
    BY <1>6, <1>9, <1>11, <2>9, <2>10, TrailEnds
  <2>12. QED
    BY <2>6, <2>11 DEF TrailGoesOn
<1>12. CASE EndStep(d, ticks, report_buffer, timer, FALSE)
  <2>1. ReportsInv' /\ Learned(d.seen, seen')
    BY <1>6, <1>9, <1>12, TrailEnds
  <2>2. QED
    BY <1>9, <2>1 DEF TrailGoesOn
<1>13. QED
  BY <1>6, <1>10, <1>11, <1>12


\* Events about an order without a route return at once.
LEMMA EarlyReturnTrail ==
  ASSUME EngineInv, ReportsInv, NEW kind, PopAs(kind), kind # "OrderReport",
         exchanges' = exchanges, \A id : ~About(Head(queue), id),
         Keep(Desk(Tail(queue)), tick_buffer, report_buffer, timer)
  PROVE  TrailGoesOn
<1>1. PICK d : d = Desk(Tail(queue))
  OBVIOUS
<1>2. /\ TrailInv(d, report_buffer, exchanges', now') /\ d.seen = seen
      /\ d.next_order_id <= MaxOrders + 1
      /\ config.mode = "Tick" => report_buffer = <<>>
  BY <1>1, QuietHandler
<1>3. SetDesk(d) /\ report_buffer' = report_buffer
  BY <1>1 DEF Keep
<1>4. config' = config /\ (source' # <<>> => Head(source').qty \in TradedQtys)
  BY Popped, PoppedParts
<1>5. /\ TrailInv(NextDesk, report_buffer', exchanges', now')
      /\ next_order_id' = d.next_order_id /\ seen' = d.seen
  BY <1>2, <1>3, TrailOfSetDesk
<1>6. TrailInv(Now, report_buffer, exchanges, now)'
  BY <1>4, <1>5, TrailNext
<1>7. \A id \in DOMAIN seen : seen[id] \in Told
  BY <1>2 DEF TrailInv
<1>8. Learned(seen, seen')
  BY <1>2, <1>5, <1>7, LearnedItself
<1>9. ReportsInv'
  BY <1>2, <1>3, <1>4, <1>5, <1>6 DEF ReportsInv, TradedQtys
<1>10. QED
  BY <1>8, <1>9 DEF TrailGoesOn

LEMMA QuietEndTrail ==
  ASSUME EngineInv, ReportsInv, NEW kind, PopAs(kind), kind # "OrderReport",
         exchanges' = exchanges, \A id : ~About(Head(queue), id),
         EndQuietly(Tail(queue))
  PROVE  TrailGoesOn
<1>1. PICK d : d = Desk(Tail(queue))
  OBVIOUS
<1>2. TrailInv(d, report_buffer, exchanges', now') /\ DeskInv(d, exchanges', now')
  BY <1>1, QuietHandler
<1>3. /\ TrailInv(Desk(Tail(queue)), report_buffer, exchanges', now')
      /\ DeskInv(Desk(Tail(queue)), exchanges', now')
  BY <1>1, <1>2
<1>4. QED
  BY <1>3, TrailEndsWith

\* A handler that moves an order without a report on it pushes one event.
LEMMA PushEndTrail ==
  ASSUME EngineInv, ReportsInv, NEW kind, PopAs(kind), kind # "OrderReport",
         \A id \in DOMAIN seen : \A a \in Listener(id) :
            Agrees(a, route, exchanges) => Agrees(a, route, exchanges'),
         NEW e \in Event, e.kind # "OrderReport", e \notin Stray(now', next_order_id),
         NEW r, r = Enqueue(Tail(queue), e),
         DeskInv(Desk(r), exchanges', now'), EndQuietly(r)
  PROVE  TrailGoesOn
<1>1. PICK d : d = Desk(Tail(queue))
  OBVIOUS
<1>2. PICK f : f = Desk(r)
  OBVIOUS
<1>3. /\ d.queue = Tail(queue) /\ d.route = route /\ d.seen = seen
      /\ d.next_order_id = next_order_id
      /\ f.queue = r /\ f.route = route /\ f.seen = seen /\ f.next_order_id = next_order_id
  BY <1>1, <1>2 DEF Desk
<1>4. d.queue \in Seq(Event)
  BY <1>3, Popped
<1>5. TrailInv(d, report_buffer, exchanges, now')
  BY <1>1, TrailPopped
<1>6. TrailInv(d, report_buffer, exchanges', now')
  <2>1. \A id \in DOMAIN d.seen : \A a \in Listener(id) :
          Agrees(a, d.route, exchanges) => Agrees(a, d.route, exchanges')
    BY <1>3
  <2>2. QED
    BY <1>4, <1>5, <2>1, TrailOfMarket
<1>7. /\ e \notin Stray(now', d.next_order_id) /\ f.queue = Enqueue(d.queue, e)
      /\ f.route = d.route /\ f.seen = d.seen /\ f.next_order_id = d.next_order_id
  BY <1>3
<1>8. TrailInv(f, report_buffer, exchanges', now')
  BY <1>4, <1>6, <1>7, TrailOfPush
<1>9. TrailInv(Desk(r), report_buffer, exchanges', now')
  BY <1>2, <1>8
<1>10. QED
  BY <1>9, TrailEndsWith

\* An accepted cancel: the strategy knows of an order that is open, and hears nothing yet.
LEMMA CancelTrail ==
  ASSUME EngineInv, ReportsInv, PopAs("OrderCancel"), NEW id \in DOMAIN route,
         CanCancelOrder(exchanges[route[id]], id), NEW dt \in OrderLatencies,
         exchanges' = [exchanges EXCEPT ![route[id]] = CancelOrder(exchanges[route[id]], id)],
         EndQuietly(Enqueue(Tail(queue), IdEvent(now' + dt, "OrderCancelAck", id)))
  PROVE  TrailGoesOn
<1>1. /\ now' \in Nat /\ Tail(queue) \in Seq(Event) /\ QueueFrom(Tail(queue), now')
      /\ Head(queue).kind = "OrderCancel"
  BY Popped
<1>2. PICK e : e = IdEvent(now' + dt, "OrderCancelAck", id)
  OBVIOUS
<1>3. PICK r : r = Enqueue(Tail(queue), e)
  OBVIOUS
<1>4. /\ DeskInv(Desk(r), exchanges', now') /\ EndQuietly(r)
  <2>1. LET ys == [exchanges EXCEPT ![route[id]] = CancelOrder(exchanges[route[id]], id)]
            p  == Enqueue(Tail(queue), IdEvent(now' + dt, "OrderCancelAck", id))
        IN  DeskInv(Desk(p), ys, now')
    BY CancelPlaces
  <2>2. QED
    BY <1>2, <1>3, <2>1
<1>5. id \in OrderId /\ route[id] \in Symbols /\ DOMAIN exchanges = Symbols
      /\ \A i \in DOMAIN route : route[i] \in Symbols
  BY Standing DEF GoodMarket
<1>6. e \in Event /\ e.kind = "OrderCancelAck"
  BY <1>1, <1>2, <1>5, IdPushed
<1>7. e \notin Stray(now', next_order_id)
  BY <1>6 DEF Stray
<1>8. PICK s \in Symbols : s = route[id]
  BY <1>5
<1>9. PICK x : x = exchanges[s]
  OBVIOUS
<1>10. PICK y : y = SetState(x, id, "PendingCancel")
  OBVIOUS
<1>11. exchanges' = [exchanges EXCEPT ![s] = y]
  BY <1>8, <1>9, <1>10 DEF CancelOrder
<1>12. id \in Live(x) /\ StateOf(x, id) \in {"Open", "PartiallyFilled"}
  BY <1>8, <1>9 DEF CanCancelOrder, CanTransitionTo, LegalTransition
<1>13. GoodExchange(x)
  BY <1>9, Standing
<1>14. /\ Live(y) = Live(x)
       /\ \A i \in Live(x) : i # id => y.orders[i] = x.orders[i]
       /\ y.orders[id] = [x.orders[id] EXCEPT !.state = "PendingCancel"]
  <2>1. "PendingCancel" \in OrderState /\ "PendingCancel" # "Filled" /\ StateOf(x, id) # "Filled"
    BY <1>12 DEF OrderState
  <2>2. QED
    BY <1>10, <1>12, <1>13, <2>1, StateChanges
<1>15. x.orders[id] \in LiveOrder
  BY <1>12, <1>13, Fields DEF GoodExchange, Live
<1>16. y.orders[id].state = "PendingCancel" /\ y.orders[id].filled = x.orders[id].filled
  BY <1>14, <1>15 DEF LiveOrder
<1>17. ApartFrom(exchanges[s], y, id)
  BY <1>9, <1>14 DEF ApartFrom
<1>18. exchanges'[s] = y
  BY <1>5, <1>11
<1>19. ASSUME NEW i \in DOMAIN seen, NEW a \in Listener(i), Agrees(a, route, exchanges)
       PROVE  Agrees(a, route, exchanges')
  <2>1. CASE a.id = id
    <3>1. a.told.filled = x.orders[id].filled /\ Reported(a.told, x.orders[id].state)
      BY <1>8, <1>9, <1>12, <1>19, <2>1 DEF Agrees
    <3>2. a.told.status \in {"Open", "PartiallyFilled"}
      BY <1>12, <3>1 DEF Reported, StateOf
    <3>3. Reported(a.told, "PendingCancel")
      BY <3>2 DEF Reported
    <3>4. /\ a.id \in DOMAIN route /\ exchanges'[route[a.id]] = y /\ a.id \in Live(y)
          /\ a.told.filled = y.orders[a.id].filled /\ Reported(a.told, y.orders[a.id].state)
      BY ZenonT(60), <1>8, <1>12, <1>14, <1>16, <1>18, <2>1, <3>1, <3>3
    <3>5. QED
      BY <3>4 DEF Agrees
  <2>2. CASE a.id # id
    <3>1. Agrees(a, route, [exchanges EXCEPT ![s] = y])
      BY <1>5, <1>17, <1>19, <2>2, AgreesElsewhere
    <3>2. QED
      BY <1>11, <3>1
  <2>3. QED
    BY <2>1, <2>2
<1>20. QED
  BY <1>3, <1>4, <1>6, <1>7, <1>19, PushEndTrail

LEMMA OrderCancelTrail ==
  ASSUME EngineInv, ReportsInv, HandleOrderCancel
  PROVE  TrailGoesOn
<1>1. PICK id : id = Head(queue).id
  OBVIOUS
<1>2. /\ PopAs("OrderCancel")
      /\ \/ /\ Keep(Desk(Tail(queue)), tick_buffer, report_buffer, timer)
            /\ exchanges' = exchanges
         \/ /\ id \in DOMAIN route /\ CanCancelOrder(exchanges[route[id]], id)
            /\ exchanges' = [exchanges EXCEPT ![route[id]] = CancelOrder(exchanges[route[id]], id)]
            /\ \E dt \in OrderLatencies :
                 EndQuietly(Enqueue(Tail(queue), IdEvent(now' + dt, "OrderCancelAck", id)))
         \/ exchanges' = exchanges /\ EndQuietly(Tail(queue))
  BY <1>1 DEF HandleOrderCancel
<1>3. \A i : ~About(Head(queue), i)
  BY <1>2, Popped DEF About
<1>4. CASE /\ Keep(Desk(Tail(queue)), tick_buffer, report_buffer, timer)
           /\ exchanges' = exchanges
  BY <1>2, <1>3, <1>4, EarlyReturnTrail
<1>5. CASE exchanges' = exchanges /\ EndQuietly(Tail(queue))
  BY <1>2, <1>3, <1>5, QuietEndTrail
<1>6. CASE /\ id \in DOMAIN route /\ CanCancelOrder(exchanges[route[id]], id)
           /\ exchanges' = [exchanges EXCEPT ![route[id]] = CancelOrder(exchanges[route[id]], id)]
           /\ \E dt \in OrderLatencies :
                EndQuietly(Enqueue(Tail(queue), IdEvent(now' + dt, "OrderCancelAck", id)))
  <2>1. PICK dt \in OrderLatencies :
          EndQuietly(Enqueue(Tail(queue), IdEvent(now' + dt, "OrderCancelAck", id)))
    BY <1>6
  <2>2. QED
    BY <1>2, <1>6, <2>1, CancelTrail
<1>7. QED
  BY <1>2, <1>4, <1>5, <1>6

-----------------------------------------------------------------------------
(***************************************************************************)
(* The trail of reports when no event is popped.                           *)
(***************************************************************************)
LEMMA UpcomingIsTraded ==
  ASSUME NEW last, NEW n, NEW s \in Upcoming(last, n), s # <<>>
  PROVE  Head(s).qty \in TradedQtys
<1>1. PICK f \in Feed : s = <<TickAfter(f, last)>>
  BY DEF Upcoming
<1>2. Head(s) = TickAfter(f, last)
  BY <1>1
<1>3. TickAfter(f, last).qty = f.qty
  BY DEF TickAfter
<1>4. QED
  BY <1>2, <1>3 DEF TradedQtys

LEMMA IngestTrail ==
  ASSUME EngineInv, ReportsInv, Ingest
  PROVE  TrailGoesOn
<1> DEFINE n == next_order_id
<1>1. PICK tick : tick = Head(source)
  OBVIOUS
<1>2. PICK ts : ts = DeliveryTs(tick)
  OBVIOUS
<1>3. PICK a : a = TickEvent(tick.ts, "Tick", tick)
  OBVIOUS
<1>4. PICK b : b = TickEvent(ts, "TickDelivery", [tick EXCEPT !.local = ts])
  OBVIOUS
<1>5. PICK p : p = Enqueue(queue, a)
  OBVIOUS
<1>6. PICK r : r = Enqueue(p, b)
  OBVIOUS
<1>7. /\ source # <<>> /\ queue' = r /\ source' \in Upcoming(tick.ts, ingested + 1)
      /\ UNCHANGED <<config, now, route, next_order_id, cancels, seen, books, market, batching>>
  BY <1>1, <1>2, <1>3, <1>4, <1>5, <1>6 DEF Ingest, CanIngest
<1>8. /\ config' = config /\ now' = now /\ route' = route /\ next_order_id' = next_order_id
      /\ cancels' = cancels /\ seen' = seen /\ exchanges' = exchanges
      /\ report_buffer' = report_buffer
  BY <1>7 DEF books, batching
<1>9. /\ config \in Configs /\ tick \in Shown /\ queue \in Seq(Event)
  BY <1>1, <1>7 DEF EngineInv, SourceInv, DeskInv, Now, Desk, QueueFrom
<1>10. /\ tick.ts \in Nat /\ tick.local \in Nat /\ tick \in TickRecord
       /\ (tick.local = 0 \/ tick.local >= tick.ts)
  BY <1>9 DEF Shown, TickRecord
<1>11. ts \in Nat /\ ts >= tick.ts
  BY SMTT(60), <1>2, <1>9, <1>10, ConfigFields DEF DeliveryTs
<1>12. a \in TickEvents /\ a.kind = "Tick" /\ a.tick = tick
  BY <1>3, <1>10 DEF TickEvent, TickEvents
<1>13. b \in Deliveries /\ b.kind = "TickDelivery"
  BY <1>4, <1>10, <1>11 DEF TickEvent, Deliveries, TickRecord
<1>14. a \in Event /\ b \in Event
  BY <1>12, <1>13 DEF Event
<1>15. /\ TrailInv(Now, report_buffer, exchanges, now) /\ n <= MaxOrders + 1
       /\ config.mode = "Tick" => report_buffer = <<>>
       /\ tick.qty \in TradedQtys
  BY <1>1, <1>7 DEF ReportsInv
<1>16. a \notin Stray(now, n) /\ b \notin Stray(now, n)
  BY <1>12, <1>13, <1>15 DEF Stray
<1>17. PICK m : m = Desk(p)
  OBVIOUS
<1>18. PICK d : d = Desk(r)
  OBVIOUS
<1>19. /\ Now.queue = queue /\ Now.route = route /\ Now.seen = seen /\ Now.next_order_id = n
       /\ m.queue = p /\ m.route = route /\ m.seen = seen /\ m.next_order_id = n
       /\ d.queue = r /\ d.route = route /\ d.seen = seen /\ d.next_order_id = n
  BY <1>17, <1>18 DEF Now, Desk
<1> HIDE DEF n
<1>20. PICK o : o = Now
  OBVIOUS
<1>21. TrailInv(m, report_buffer, exchanges, now)
  <2>1. /\ TrailInv(o, report_buffer, exchanges, now) /\ o.queue \in Seq(Event)
        /\ a.kind # "OrderReport" /\ a \notin Stray(now, o.next_order_id)
        /\ m.queue = Enqueue(o.queue, a) /\ m.route = o.route /\ m.seen = o.seen
        /\ m.next_order_id = o.next_order_id
    BY <1>5, <1>9, <1>12, <1>15, <1>16, <1>19, <1>20
  <2>2. QED
    BY <1>14, <2>1, TrailOfPush
<1>22. p \in Seq(Event)
  BY <1>5, <1>9, <1>14, EnqueuePlaces
<1>23. TrailInv(d, report_buffer, exchanges, now)
  <2>1. /\ m.queue \in Seq(Event)
        /\ b.kind # "OrderReport" /\ b \notin Stray(now, m.next_order_id)
        /\ d.queue = Enqueue(m.queue, b) /\ d.route = m.route /\ d.seen = m.seen
        /\ d.next_order_id = m.next_order_id
    BY <1>6, <1>13, <1>16, <1>19, <1>22
  <2>2. QED
    BY <1>14, <1>21, <2>1, TrailOfPush
<1>24. NextDesk = d
  BY <1>7, <1>8, <1>18 DEF NextDesk, Desk
<1>25. TrailInv(NextDesk, report_buffer', exchanges', now')
  BY <1>8, <1>23, <1>24
<1>26. TrailInv(Now, report_buffer, exchanges, now)'
  BY <1>8, <1>25, TrailNext
<1>27. source' # <<>> => Head(source').qty \in TradedQtys
  BY <1>7, UpcomingIsTraded
<1>28. ReportsInv'
  BY <1>8, <1>15, <1>26, <1>27 DEF ReportsInv, TradedQtys, n
<1>29. \A id \in DOMAIN seen : seen[id] \in Told
  BY <1>15, <1>19 DEF TrailInv
<1>30. Learned(seen, seen')
  BY <1>8, <1>29, LearnedItself
<1>31. QED
  BY <1>28, <1>30 DEF TrailGoesOn

LEMMA FinalFlushTrail ==
  ASSUME EngineInv, ReportsInv, FinalFlush
  PROVE  TrailGoesOn
<1>1. PICK d : d = Now
  OBVIOUS
<1>2. /\ config' = config /\ now' = now /\ exchanges' = exchanges /\ source' = source
      /\ config.mode = "Batch"
      /\ FlushStrategy(d, tick_buffer, report_buffer, timer)
  BY <1>1 DEF FinalFlush, Now, feed, books
<1>3. /\ config \in Configs /\ now \in Nat /\ DeskInv(d, exchanges, now)
  BY <1>1 DEF EngineInv
<1>4. /\ TrailInv(d, report_buffer, exchanges, now) /\ d.next_order_id <= MaxOrders + 1
      /\ (source # <<>> => Head(source).qty \in TradedQtys) /\ d.seen = seen
  BY <1>1 DEF ReportsInv, Now, Desk
<1>5. /\ DeskInv(d, exchanges', now') /\ TrailInv(d, report_buffer, exchanges', now')
      /\ now' \in Nat
  BY <1>2, <1>3, <1>4
<1>6. /\ TrailInv(NextDesk, report_buffer', exchanges', now')
      /\ next_order_id' <= MaxOrders + 1
      /\ Learned(d.seen, seen')
  BY <1>2, <1>3, <1>4, <1>5, FlushTrail
<1>7. TrailInv(Now, report_buffer, exchanges, now)'
  BY <1>2, <1>6, TrailNext
<1>8. config'.mode # "Tick"
  BY <1>2
<1>9. ReportsInv'
  BY <1>2, <1>4, <1>6, <1>7, <1>8 DEF ReportsInv, TradedQtys
<1>10. QED
  BY <1>4, <1>6, <1>9 DEF TrailGoesOn

LEMMA StutterTrail ==
  ASSUME ReportsInv, UNCHANGED vars
  PROVE  TrailGoesOn
<1>1. /\ config' = config /\ source' = source /\ queue' = queue /\ route' = route
      /\ next_order_id' = next_order_id /\ cancels' = cancels /\ seen' = seen /\ now' = now
      /\ exchanges' = exchanges /\ report_buffer' = report_buffer
  BY DEF vars, feed, desk, books, batching
<1>2. /\ TrailInv(Now, report_buffer, exchanges, now) /\ next_order_id <= MaxOrders + 1
      /\ config.mode = "Tick" => report_buffer = <<>>
      /\ source # <<>> => Head(source).qty \in TradedQtys
  BY DEF ReportsInv
<1>3. NextDesk = Now
  BY <1>1 DEF NextDesk, Now, Desk
<1>4. TrailInv(Now, report_buffer, exchanges, now)'
  BY <1>1, <1>2, <1>3, TrailNext
<1>5. \A id \in DOMAIN seen : seen[id] \in Told
  BY <1>2 DEF TrailInv, Now, Desk
<1>6. Learned(seen, seen')
  BY <1>1, <1>5, LearnedItself
<1>7. ReportsInv'
  BY <1>1, <1>2, <1>4 DEF ReportsInv, TradedQtys
<1>8. QED
  BY <1>6, <1>7 DEF TrailGoesOn

-----------------------------------------------------------------------------
(***************************************************************************)
(* The trail of reports when an order reaches the exchange: it was on its  *)
(* way there, and the strategy still knows it as it was created.           *)
(***************************************************************************)
LEMMA SubmittedIs ==
  ASSUME NEW x, NEW id, NEW o \in EngineOrder
  PROVE  /\ SubmitOrder(x, id, o).orders[id].filled = 0
         /\ SubmitOrder(x, id, o).orders[id].state = "PendingNew"
  BY DEF SubmitOrder, Reindex, Insert

LEMMA OrderArrives ==
  ASSUME EngineInv, PopAs("Order"), NEW e, e = Head(queue)
  PROVE  /\ e \in OrderEvents /\ e.id \in OrderId /\ e.order \in EngineOrder
         /\ e.order.symbol \in Symbols
         /\ e.id \in DOMAIN route /\ route[e.id] = e.order.symbol
         /\ \A k \in Symbols : e.id \notin Live(exchanges[k])
         /\ Times(Tail(queue), OrdersFor(e.id)) = 0
         /\ Times(Tail(queue), Acks(e.id)) = 0
         /\ Times(Tail(queue), Finals(e.id)) = 0
         /\ \A i : i # e.id => ~About(Head(queue), i)
<1>1. PICK q : q = Tail(queue)
  OBVIOUS
<1>2. /\ e \in Event /\ e.kind = "Order" /\ q \in Seq(Event)
      /\ \A E : Times(queue, E) = Times(q, E) + (IF e \in E THEN 1 ELSE 0)
      /\ \A E : Times(queue, E) \in Nat /\ Times(q, E) \in Nat
  BY <1>1, Popped
<1>3. e \in OrderEvents /\ e.id \in OrderId /\ e.order \in EngineOrder /\ e.order.symbol \in Symbols
  BY <1>2 DEF Event, PreloadEvent, TickEvents, Deliveries, OrderEvents, IdEvents, ReportEvents,
              TimerEvents, EngineOrder
<1>4. PICK id : id = e.id
  OBVIOUS
<1>5. PICK s : s = e.order.symbol
  OBVIOUS
<1>6. /\ e \in OrdersFor(id) /\ e \notin Acks(id) /\ e \notin Finals(id)
      /\ \A k : e \in OrdersTo(id, k) <=> k = s
      /\ \A i : i # id => ~About(e, i)
  BY <1>2, <1>3, <1>4, <1>5 DEF OrdersFor, OrdersTo, Acks, Finals, IdEvents, ReportEvents, About
<1>7. /\ Times(queue, OrdersFor(id)) = Times(q, OrdersFor(id)) + 1
      /\ Times(queue, Acks(id)) = Times(q, Acks(id))
      /\ Times(queue, Finals(id)) = Times(q, Finals(id))
      /\ \A k : Times(queue, OrdersTo(id, k)) = Times(q, OrdersTo(id, k)) + (IF k = s THEN 1 ELSE 0)
  BY SMTT(60), <1>2, <1>6
<1>8. Sent(queue, route, exchanges, id)
  <2>1. Life(queue, route, exchanges, id)
    BY <1>3, <1>4, Standing
  <2>2. Times(queue, OrdersFor(id)) # 0
    BY <1>2, <1>7
  <2>3. QED
    BY <2>1, <2>2 DEF Life, Gone, Placed
<1>9. /\ id \in DOMAIN route /\ \A k \in Symbols : id \notin Live(exchanges[k])
      /\ Times(q, OrdersFor(id)) = 0 /\ Times(q, Acks(id)) = 0 /\ Times(q, Finals(id)) = 0
  BY <1>2, <1>7, <1>8 DEF Sent
<1>10. route[id] = s
  <2>1. OrdersTo(id, route[id]) \subseteq OrdersFor(id)
    BY DEF OrdersTo, OrdersFor
  <2>2. Times(q, OrdersTo(id, route[id])) <= Times(q, OrdersFor(id))
    BY <1>2, <2>1, TimesGrow
  <2>3. Times(q, OrdersTo(id, route[id])) = 0
    BY <1>2, <1>9, <2>2
  <2>4. Times(queue, OrdersTo(id, route[id])) = 1
    BY SMTT(60), <1>8 DEF Sent
  <2>5. QED
    BY <1>7, <2>3, <2>4
<1>11. QED
  BY <1>1, <1>3, <1>4, <1>5, <1>6, <1>9, <1>10

LEMMA OrderPlaces ==
  ASSUME EngineInv, PopAs("Order"), NEW e, e = Head(queue),
         NEW x, x = exchanges[e.order.symbol], NEW y, y = SubmitOrder(x, e.id, e.order),
         NEW ys, ys = [exchanges EXCEPT ![e.order.symbol] = y],
         NEW dt \in OrderLatencies,
         NEW r, r = Enqueue(Tail(queue), IdEvent(now' + dt, "OrderAck", e.id))
  PROVE  /\ DeskInv(Desk(r), ys, now')
         /\ Live(y) = Live(x) \cup {e.id} /\ ApartFrom(x, y, e.id)
         /\ y.orders[e.id].state = "PendingNew" /\ y.orders[e.id].filled = 0
<1>1. PICK id : id = e.id
  OBVIOUS
<1>2. PICK s : s = e.order.symbol
  OBVIOUS
<1>3. /\ id \in OrderId /\ e.order \in EngineOrder /\ s \in Symbols
      /\ id \in DOMAIN route /\ route[id] = s
      /\ \A k \in Symbols : id \notin Live(exchanges[k])
      /\ Times(Tail(queue), OrdersFor(id)) = 0
      /\ Times(Tail(queue), Acks(id)) = 0
      /\ Times(Tail(queue), Finals(id)) = 0
      /\ \A i : i # id => ~About(Head(queue), i)
  BY <1>1, <1>2, OrderArrives
<1>4. GoodMarket(exchanges) /\ GoodExchange(x) /\ id \notin Live(x)
  BY SMTT(60), <1>2, <1>3, Standing
<1>5. /\ GoodExchange(y) /\ Live(y) = Live(x) \cup {id}
      /\ \A i \in Live(x) : i # id => y.orders[i] = x.orders[i]
      /\ y.orders[id].state = "PendingNew"
  BY SMTT(60), <1>1, <1>3, <1>4, SubmitOrderPlaces
<1>6. y.orders[id].filled = 0
  BY <1>1, <1>3, SubmittedIs
<1>7. ys = [exchanges EXCEPT ![s] = y] /\ x = exchanges[s]
  BY SMTT(60), <1>2
<1>8. /\ GoodMarket(ys) /\ \A i : i # id => SameStatus(exchanges, ys, i)
  <2>1. /\ \A i : i # id => (i \in Live(y) <=> i \in Live(exchanges[s]))
        /\ \A i \in Live(exchanges[s]) : i # id => y.orders[i] = exchanges[s].orders[i]
    BY <1>5, <1>7
  <2>2. s \in Symbols /\ GoodMarket(exchanges) /\ GoodExchange(y)
    BY <1>3, <1>4, <1>5
  <2>3. GoodMarket(ys)
    <3>1. GoodMarket([exchanges EXCEPT ![s] = y])
      BY <2>2, OneExchange
    <3>2. QED
      BY <1>7, <3>1
  <2>4. ASSUME NEW i, i # id PROVE SameStatus(exchanges, ys, i)
    <3>1. /\ i \in Live(y) <=> i \in Live(exchanges[s])
          /\ i \in Live(y) => /\ y.orders[i].type = exchanges[s].orders[i].type
                              /\ y.orders[i].state = exchanges[s].orders[i].state
      BY <2>1, <2>4
    <3>2. SameStatus(exchanges, [exchanges EXCEPT ![s] = y], i)
      BY <2>2, <3>1, OneExchange
    <3>3. QED
      BY <1>7, <3>2
  <2>5. QED
    BY <2>3, <2>4
<1>9. ys[s] = y /\ \A k \in Symbols : k # s => ys[k] = exchanges[k]
  BY <1>3, <1>4, <1>7 DEF GoodMarket
<1>10. PICK q : q = Tail(queue)
  OBVIOUS
<1>11. now' \in Nat /\ QueueFrom(q, now') /\ q \in Seq(Event)
  BY <1>10, Popped
<1>12. PICK a : a = IdEvent(now' + dt, "OrderAck", id)
  OBVIOUS
<1>13. r = Enqueue(q, a)
  BY SMTT(60), <1>1, <1>10, <1>12
<1>14. /\ a \in IdEvents /\ a.kind = "OrderAck" /\ a.id = id
       /\ QueueFrom(r, now')
       /\ \A i : i # id => SameEvents(q, r, i)
       /\ \A E : Times(r, E) = Times(q, E) + (IF a \in E THEN 1 ELSE 0)
  BY SMTT(60), <1>3, <1>11, <1>12, <1>13, IdPushed
<1>15. a \notin OrdersFor(id) /\ a \in Acks(id) /\ a \notin Finals(id)
  BY <1>14 DEF OrdersFor, Acks, Finals, OrderEvents, ReportEvents
<1>16. Times(r, OrdersFor(id)) = 0 /\ Times(r, Acks(id)) = 1 /\ Times(r, Finals(id)) = 0
  BY SMTT(60), <1>3, <1>10, <1>14, <1>15
<1>17. Placed(r, route, ys, id)
  <2>1. \A k \in Symbols : id \in Live(ys[k]) <=> k = route[id]
    BY SMTT(60), <1>3, <1>5, <1>9
  <2>2. ys[route[id]].orders[id].state = "PendingNew"
    <3>1. ys[route[id]] = y
      BY ZenonT(60), <1>3, <1>9
    <3>2. QED
      BY ZenonT(60), <1>5, <3>1
  <2>3. Fits(r, ys[route[id]].orders[id].type, ys[route[id]].orders[id].state, id)
    BY ZenonT(60), <1>16, <2>2 DEF Fits, IsTerminal, Terminal
  <2>4. QED
    BY ZenonT(60), <1>3, <1>16, <2>1, <2>3 DEF Placed
<1>18. DeskInv(Desk(r), ys, now')
  <2>1. Life(r, route, ys, id)
    BY <1>17 DEF Life
  <2>2. \A i \in OrderId : i # id => SameEvents(Tail(queue), r, i)
    BY <1>10, <1>14
  <2>3. \A i \in OrderId : i # id => SameStatus(exchanges, ys, i)
    BY <1>8
  <2>4. QED
    BY <1>3, <1>14, <2>1, <2>2, <2>3, OneOrderDeskKept
<1>19. ApartFrom(x, y, id)
  BY <1>5 DEF ApartFrom
<1>20. QED
  BY ZenonT(60), <1>1, <1>5, <1>6, <1>18, <1>19

LEMMA OrderTrail ==
  ASSUME EngineInv, ReportsInv, HandleOrder
  PROVE  TrailGoesOn
<1>1. PICK e : e = Head(queue)
  OBVIOUS
<1>2. PICK s : s = e.order.symbol
  OBVIOUS
<1>3. PICK x : x = exchanges[s]
  OBVIOUS
<1>4. PICK y : y = SubmitOrder(x, e.id, e.order)
  OBVIOUS
<1>5. PICK id : id = e.id
  OBVIOUS
<1>6. /\ PopAs("Order") /\ exchanges' = [exchanges EXCEPT ![s] = y]
      /\ \E dt \in OrderLatencies :
           EndQuietly(Enqueue(Tail(queue), IdEvent(now' + dt, "OrderAck", id)))
  BY <1>1, <1>2, <1>3, <1>4, <1>5 DEF HandleOrder
<1>7. PICK dt \in OrderLatencies :
        EndQuietly(Enqueue(Tail(queue), IdEvent(now' + dt, "OrderAck", id)))
  BY <1>6
<1>8. PICK a : a = IdEvent(now' + dt, "OrderAck", id)
  OBVIOUS
<1>9. PICK r : r = Enqueue(Tail(queue), a)
  OBVIOUS
<1>10. /\ id \in OrderId /\ s \in Symbols /\ id \in DOMAIN route /\ route[id] = s
       /\ \A k \in Symbols : id \notin Live(exchanges[k])
  BY <1>1, <1>2, <1>5, <1>6, OrderArrives
<1>11. /\ DeskInv(Desk(r), exchanges', now')
       /\ Live(y) = Live(x) \cup {id} /\ ApartFrom(x, y, id)
       /\ y.orders[id].state = "PendingNew" /\ y.orders[id].filled = 0
  BY ZenonT(60), <1>1, <1>2, <1>3, <1>4, <1>5, <1>6, <1>8, <1>9, OrderPlaces
<1>12. now' \in Nat /\ QueueFrom(Tail(queue), now')
  BY <1>6, Popped
<1>13. a \in Event /\ a.kind = "OrderAck"
  BY <1>8, <1>10, <1>12, IdPushed
<1>14. a \notin Stray(now', next_order_id)
  BY <1>13 DEF Stray
<1>15. DOMAIN exchanges = Symbols /\ \A i \in DOMAIN route : route[i] \in Symbols
  BY Standing DEF GoodMarket
<1>16. exchanges'[s] = y
  BY <1>6, <1>10, <1>15
<1>17. ASSUME NEW i \in DOMAIN seen, NEW b \in Listener(i), Agrees(b, route, exchanges)
       PROVE  Agrees(b, route, exchanges')
  <2>1. CASE b.id = id
    <3>1. b.told.status = "Created" /\ b.told.filled = 0
      BY <1>10, <1>17, <2>1 DEF Agrees
    <3>2. Reported(b.told, "PendingNew")
      BY <3>1 DEF Reported
    <3>3. /\ b.id \in DOMAIN route /\ exchanges'[route[b.id]] = y /\ b.id \in Live(y)
          /\ b.told.filled = y.orders[b.id].filled /\ Reported(b.told, y.orders[b.id].state)
      BY <1>10, <1>11, <1>16, <2>1, <3>1, <3>2
    <3>4. QED
      BY <3>3 DEF Agrees
  <2>2. CASE b.id # id
    <3>1. Agrees(b, route, [exchanges EXCEPT ![s] = y])
      BY <1>3, <1>10, <1>11, <1>15, <1>17, <2>2, AgreesElsewhere
    <3>2. QED
      BY <1>6, <3>1
  <2>3. QED
    BY <2>1, <2>2
<1>18. EndQuietly(r)
  BY <1>7, <1>8, <1>9
<1>19. QED
  BY <1>6, <1>9, <1>11, <1>13, <1>14, <1>17, <1>18, PushEndTrail

-----------------------------------------------------------------------------
(***************************************************************************)
(* The trail of reports through the handlers that report on one order.     *)
(***************************************************************************)
LEMMA OneReportHeard ==
  ASSUME NEW a, NEW r \in ReportRecord
  PROVE  AfterReports(a, <<r>>) = Hears(a, r)
<1> DEFINE s == Append(<<>>, r)
<1>1. s = <<r>> /\ <<>> \in Seq(ReportRecord)
  OBVIOUS
<1>2. AfterReports(a, s) = Hears(AfterReports(a, <<>>), r)
  BY <1>1, ReportsOfAppend
<1>3. AfterReports(a, <<>>) = a
  BY NoReportsYet
<1>4. QED
  BY <1>1, <1>2, <1>3

\* The reports say of order id, which was o, that it is p.
SayOf(reports, id, o, p) ==
  \A a \in Listener(id) :
    a.ok /\ a.told.filled = o.filled /\ Reported(a.told, o.state) =>
      LET b == AfterReports(a, reports)
      IN  b.ok /\ b.told.filled = p.filled /\ Reported(b.told, p.state)

LEMMA ReportedOrderTrail ==
  ASSUME EngineInv, ReportsInv, NEW kind, PopAs(kind), kind # "OrderReport",
         NEW id, NEW s \in Symbols, id \in Live(exchanges[s]),
         NEW y, id \in Live(y), ApartFrom(exchanges[s], y, id),
         NEW reports \in Seq(ReportRecord), \A i \in 1 .. Len(reports) : reports[i].id = id,
         SayOf(reports, id, exchanges[s].orders[id], y.orders[id]),
         exchanges' = [exchanges EXCEPT ![s] = y],
         NEW r, r = EnqueueReports(Tail(queue), reports),
         DeskInv(Desk(r), exchanges', now'), EndQuietly(r)
  PROVE  TrailGoesOn
<1> DEFINE q == Tail(queue)
           n == next_order_id
<1>0. PICK x : x = exchanges[s]
  OBVIOUS
<1>1. /\ config \in Configs /\ now' \in Nat /\ QueueFrom(q, now')
      /\ TrailInv(Desk(q), report_buffer, exchanges, now')
  BY Popped, TrailPopped
<1>2. /\ id \in DOMAIN route /\ route[id] = s /\ DOMAIN exchanges = Symbols
      /\ \A i \in DOMAIN route : route[i] \in Symbols
  BY LiveIsPlaced, Standing DEF GoodMarket
<1>3. n \in Nat /\ id < n
  <2>1. n \in OrderId /\ DOMAIN route \subseteq 1 .. n - 1
    BY DEF EngineInv, DeskInv, Now, Desk
  <2>2. n \in Nat /\ id \in 1 .. n - 1
    BY <1>2, <2>1 DEF OrderId
  <2> HIDE DEF n
  <2>3. QED
    BY <2>2
<1>4. \A i \in 1 .. Len(reports) : reports[i].id < n
  BY <1>3
<1> DEFINE ys == [exchanges EXCEPT ![s] = y]
<1>5. ys[s] = y
  BY <1>2
<1>6. exchanges' = ys
  OBVIOUS
<1> HIDE DEF ys
<1>7. ASSUME NEW i \in DOMAIN seen, NEW a \in Listener(i), a.ok, Agrees(a, route, exchanges)
      PROVE  AfterReports(a, reports).ok /\ Agrees(AfterReports(a, reports), route, ys)
  <2>1. a.id = i
    BY DEF Listener
  <2>2. CASE i = id
    <3>1. a.told.filled = x.orders[id].filled /\ Reported(a.told, x.orders[id].state)
      BY <1>0, <1>2, <1>7, <2>1, <2>2 DEF Agrees
    <3> DEFINE b == AfterReports(a, reports)
    <3>2. b.ok /\ b.told.filled = y.orders[id].filled /\ Reported(b.told, y.orders[id].state)
      BY <1>0, <1>7, <2>2, <3>1 DEF SayOf
    <3>3. b.id = id
      BY <2>2, AfterReportsType DEF Listener
    <3> HIDE DEF b
    <3>4. /\ b.id \in DOMAIN route /\ ys[route[b.id]] = y /\ b.id \in Live(y)
          /\ b.told.filled = y.orders[b.id].filled /\ Reported(b.told, y.orders[b.id].state)
      BY <1>0, <1>2, <1>5, <3>2, <3>3
    <3>5. Agrees(b, route, ys)
      BY <3>4 DEF Agrees
    <3>6. QED
      BY <3>2, <3>5 DEF b
  <2>3. CASE i # id
    <3>1. reports \in Seq({p \in ReportRecord : p.id # a.id})
      <4> DEFINE R == {p \in ReportRecord : p.id # a.id}
      <4>1. \A k \in 1 .. Len(reports) : reports[k] \in R
        BY <2>1, <2>3, ElementOfSeq
      <4> HIDE DEF R
      <4>2. reports \in Seq(R)
        BY <4>1
      <4>3. QED
        BY <4>2 DEF R
    <3>2. AfterReports(a, reports) = a
      BY <3>1, QuietReports
    <3>3. a.id # id /\ (a.id \in DOMAIN route => route[a.id] \in Symbols)
      BY <1>2, <2>1, <2>3
    <3>4. Agrees(a, route, [exchanges EXCEPT ![s] = y])
      BY <1>2, <1>7, <3>3, AgreesElsewhere
    <3>5. QED
      BY <1>7, <3>2, <3>4 DEF ys
  <2>4. QED
    BY <2>2, <2>3
<1> HIDE DEF q
<1>8. r = EnqueueReports(q, reports)
  BY DEF q
<1> HIDE DEF n
<1>9. TrailInv(Desk(r), report_buffer, ys, now')
  BY <1>1, <1>3, <1>4, <1>7, <1>8, TrailOfReports DEF n
<1>10. TrailInv(Desk(r), report_buffer, exchanges', now')
  BY <1>6, <1>9
<1>11. QED
  BY <1>10, TrailEndsWith

\* The state of an order that waits for the exchange changes, and one report tells of it.
LEMMA StateReportedTrail ==
  ASSUME EngineInv, ReportsInv, NEW kind, PopAs(kind), kind # "OrderReport",
         NEW id, NEW s \in Symbols, id \in Live(exchanges[s]),
         \A i : i # id => ~About(Head(queue), i),
         Times(queue, Finals(id)) = 0, Times(Tail(queue), Acks(id)) = 0,
         NEW state \in {"Open", "Cancelled"},
         StateOf(exchanges[s], id) \in {"PendingNew", "PendingCancel"},
         exchanges[s].orders[id].type = "Market" => state = "Cancelled",
         NEW y, y = SetState(exchanges[s], id, state),
         exchanges' = [exchanges EXCEPT ![s] = y],
         EndQuietly(EnqueueReports(Tail(queue), <<Report(y, id, 0, NoPrice)>>))
  PROVE  TrailGoesOn
<1>1. PICK x : x = exchanges[s]
  OBVIOUS
<1>2. GoodExchange(x) /\ WellTyped(x)
  BY <1>1, Standing
<1>3. /\ GoodExchange(y) /\ Live(y) = Live(x)
      /\ \A i \in Live(x) : i # id => y.orders[i] = x.orders[i]
      /\ y.orders[id] = [x.orders[id] EXCEPT !.state = state]
  <2>1. state \in OrderState /\ state # "Filled" /\ id \in Live(x) /\ StateOf(x, id) # "Filled"
    BY <1>1 DEF OrderState
  <2>2. QED
    BY <1>1, <1>2, <2>1, StateChanges
<1>4. x.orders[id] \in LiveOrder
  BY <1>1, <1>2, Fields DEF Live
<1>5. /\ y.orders[id].state = state /\ y.orders[id].type = x.orders[id].type
      /\ y.orders[id].filled = x.orders[id].filled /\ x.orders[id].filled \in Nat
  BY <1>3, <1>4 DEF LiveOrder
<1>6. PICK r : r = Report(y, id, 0, NoPrice)
  OBVIOUS
<1>7. /\ r \in ReportRecord /\ r.id = id /\ r.status = state /\ r.last = 0
      /\ r.filled = x.orders[id].filled
  <2>1. id \in Live(y) /\ GoodExchange(y)
    BY <1>1, <1>3
  <2>2. /\ Report(y, id, 0, NoPrice) \in ReportRecord /\ Report(y, id, 0, NoPrice).id = id
        /\ Report(y, id, 0, NoPrice).status = y.orders[id].state
        /\ Report(y, id, 0, NoPrice).last = 0
    BY <2>1, ReportType
  <2>3. Report(y, id, 0, NoPrice).filled = y.orders[id].filled
    BY DEF Report
  <2>4. QED
    BY <1>5, <1>6, <2>2, <2>3
<1>8. config \in Configs /\ now' \in Nat /\ QueueFrom(Tail(queue), now')
  BY Popped
<1>9. ReportsOn(<<r>>, id, state)
  BY <1>7, <1>8, OneReportOn
<1>10. PICK q : q = EnqueueReports(Tail(queue), <<r>>)
  OBVIOUS
<1>11. PICK type : type = x.orders[id].type
  OBVIOUS
<1>12. state # "PendingNew" /\ state # "PendingCancel" /\ (type = "Market" => IsTerminal(state))
  BY <1>1, <1>11 DEF IsTerminal, Terminal
<1>13. PICK ys : ys = [exchanges EXCEPT ![s] = y]
  OBVIOUS
<1>14. DeskInv(Desk(q), ys, now')
  <2>1. \A i \in Live(exchanges[s]) : i # id => y.orders[i] = exchanges[s].orders[i]
    BY <1>1, <1>3
  <2>2. GoodExchange(y) /\ Live(y) = Live(exchanges[s]) /\ y.orders[id].type = type /\ y.orders[id].state = state
    BY <1>1, <1>3, <1>5, <1>11
  <2>3. QED
    BY <1>9, <1>10, <1>12, <1>13, <2>1, <2>2, ReportedOrder
<1>15. exchanges' = ys /\ EndQuietly(q)
  BY <1>6, <1>10, <1>13
<1>16. DeskInv(Desk(q), exchanges', now')
  BY <1>14, <1>15
<1>17. ASSUME NEW a \in Listener(id), a.ok, a.told.filled = x.orders[id].filled,
              Reported(a.told, x.orders[id].state)
       PROVE  /\ AfterReports(a, <<r>>).ok
              /\ AfterReports(a, <<r>>).told.filled = y.orders[id].filled
              /\ Reported(AfterReports(a, <<r>>).told, y.orders[id].state)
  <2> DEFINE b == Hears(a, r)
  <2>1. AfterReports(a, <<r>>) = b
    BY <1>7, OneReportHeard
  <2>2. a.id = id /\ a.told \in Told
    BY ListenerFields
  <2>3. b.told = Heard(a.told, r) /\ (b.ok <=> a.ok /\ Follows(a.told, r))
    BY <1>7, <2>2 DEF Hears
  <2>4. b.told.status = state /\ b.told.filled = x.orders[id].filled
    BY <1>7, <2>2, <2>3, HeardIs
  <2>5. ~IsTerminal(a.told.status)
    BY <1>1, <1>17 DEF Reported, StateOf, IsTerminal, Terminal
  <2>6. Follows(a.told, r)
    BY <1>5, <1>7, <1>17, <2>5 DEF Follows
  <2> HIDE DEF b
  <2>7. Reported(b.told, y.orders[id].state)
    BY <1>5, <1>12, <2>4 DEF Reported
  <2>8. QED
    BY <1>5, <1>17, <2>1, <2>3, <2>4, <2>6, <2>7
<1>18. /\ <<r>> \in Seq(ReportRecord) /\ \A i \in 1 .. Len(<<r>>) : <<r>>[i].id = id
  BY <1>9 DEF ReportsOn
<1>19. PICK reports : reports = <<r>>
  OBVIOUS
<1>20. /\ reports \in Seq(ReportRecord) /\ \A i \in 1 .. Len(reports) : reports[i].id = id
       /\ SayOf(reports, id, x.orders[id], y.orders[id])
  BY <1>17, <1>18, <1>19 DEF SayOf
<1>21. q = EnqueueReports(Tail(queue), reports)
  BY <1>10, <1>19
<1>22. /\ id \in Live(y) /\ ApartFrom(exchanges[s], y, id)
       /\ SayOf(reports, id, exchanges[s].orders[id], y.orders[id])
  BY <1>1, <1>3, <1>20 DEF ApartFrom
<1>23. QED
  BY <1>15, <1>16, <1>20, <1>21, <1>22, ReportedOrderTrail


\* A cancel acknowledged in vain: the order is no longer waiting for it.
LEMMA VoidCancelAckDesk ==
  ASSUME EngineInv, PopAs("OrderCancelAck"), NEW id, id = Head(queue).id,
         ~(id \in DOMAIN route /\ CanAckCancel(exchanges[route[id]], id))
  PROVE  DeskInv(Desk(Tail(queue)), exchanges, now')
<1> DEFINE q == Tail(queue)
<1>1. /\ Head(queue) \in Event /\ Head(queue).kind = "OrderCancelAck" /\ now' \in Nat
      /\ q \in Seq(Event) /\ QueueFrom(q, now') /\ queue \in Seq(Event)
      /\ \A E : Times(queue, E) = Times(q, E) + (IF Head(queue) \in E THEN 1 ELSE 0)
      /\ \A E : Times(queue, E) \in Nat /\ Times(q, E) \in Nat
  BY Popped
<1>2. id \in OrderId /\ \A i : i # id => ~About(Head(queue), i)
  <2>1. Head(queue) \in IdEvents
    BY <1>1 DEF Event, PreloadEvent, TickEvents, Deliveries, OrderEvents, ReportEvents, TimerEvents
  <2>2. QED
    BY <1>1, <2>1 DEF IdEvents, About
<1>3. /\ Head(queue) \notin OrdersFor(id) /\ \A s : Head(queue) \notin OrdersTo(id, s)
      /\ Head(queue) \notin Acks(id) /\ Head(queue) \notin Finals(id)
  BY <1>1 DEF OrdersFor, OrdersTo, Acks, Finals, OrderEvents, ReportEvents
<1>4. /\ Times(q, OrdersFor(id)) = Times(queue, OrdersFor(id))
      /\ \A s : Times(q, OrdersTo(id, s)) = Times(queue, OrdersTo(id, s))
      /\ Times(q, Acks(id)) = Times(queue, Acks(id))
      /\ Times(q, Finals(id)) = Times(queue, Finals(id))
  BY <1>1, <1>3
<1>5. Life(queue, route, exchanges, id)
  BY <1>2, Standing
<1>6. Life(q, route, exchanges, id)
  <2>1. CASE Gone(queue, route, exchanges, id)
    BY <1>4, <2>1 DEF Life, Gone
  <2>2. CASE Sent(queue, route, exchanges, id)
    BY <1>4, <2>2 DEF Life, Sent
  <2>3. CASE Placed(queue, route, exchanges, id)
    <3>1. id \in DOMAIN route /\ route[id] \in Symbols /\ id \in Live(exchanges[route[id]])
      BY SMTT(60), <2>3, Standing DEF Placed
    <3>2. exchanges[route[id]].orders[id].state # "PendingCancel"
      BY SMTT(60), <3>1 DEF CanAckCancel, StateOf
    <3>3. Placed(q, route, exchanges, id)
      BY <1>4, <2>3, <3>2 DEF Placed, Fits
    <3>4. QED
      BY SMTT(60), <3>3 DEF Life
  <2>4. QED
    BY <1>5, <2>1, <2>2, <2>3 DEF Life
<1>7. \A i \in OrderId : i # id => SameEvents(Tail(queue), q, i)
  BY <1>1, SameEventsItself
<1>8. \A i \in OrderId : i # id => SameStatus(exchanges, exchanges, i)
  BY SameStatusItself
<1>9. Times(q, Finals(id)) <= Times(queue, Finals(id))
  BY <1>1, <1>4
<1> HIDE DEF q
<1>10. DeskInv(Desk(q), exchanges, now')
  BY <1>1, <1>2, <1>6, <1>7, <1>8, <1>9, OneOrderDeskKept
<1>11. QED
  BY <1>10 DEF q

LEMMA OrderCancelAckTrail ==
  ASSUME EngineInv, ReportsInv, HandleOrderCancelAck
  PROVE  TrailGoesOn
<1>1. PICK id : id = Head(queue).id
  OBVIOUS
<1>2. /\ PopAs("OrderCancelAck")
      /\ \/ /\ id \in DOMAIN route /\ CanAckCancel(exchanges[route[id]], id)
            /\ exchanges' = [exchanges EXCEPT ![route[id]] = AckCancel(exchanges[route[id]], id)]
            /\ EndQuietly(EnqueueReports(Tail(queue),
                 <<Report(AckCancel(exchanges[route[id]], id), id, 0, NoPrice)>>))
         \/ /\ ~(id \in DOMAIN route /\ CanAckCancel(exchanges[route[id]], id))
            /\ exchanges' = exchanges
            /\ EndQuietly(Tail(queue))
  BY <1>1 DEF HandleOrderCancelAck
<1> DEFINE q == Tail(queue)
<1>3. /\ Head(queue) \in Event /\ Head(queue).kind = "OrderCancelAck"
      /\ \A E : Times(queue, E) = Times(q, E) + (IF Head(queue) \in E THEN 1 ELSE 0)
      /\ \A E : Times(queue, E) \in Nat /\ Times(q, E) \in Nat
  BY <1>2, Popped
<1>4. \A i : i # id => ~About(Head(queue), i)
  BY <1>1, <1>3 DEF About
<1>5. CASE /\ id \in DOMAIN route /\ CanAckCancel(exchanges[route[id]], id)
           /\ exchanges' = [exchanges EXCEPT ![route[id]] = AckCancel(exchanges[route[id]], id)]
           /\ EndQuietly(EnqueueReports(Tail(queue),
                <<Report(AckCancel(exchanges[route[id]], id), id, 0, NoPrice)>>))
  <2>1. route[id] \in Symbols
    BY <1>5, Standing
  <2>2. PICK s \in Symbols : s = route[id]
    BY <2>1
  <2>3. id \in Live(exchanges[s]) /\ StateOf(exchanges[s], id) = "PendingCancel"
    BY <1>5, <2>2 DEF CanAckCancel
  <2>4. Placed(queue, route, exchanges, id)
    BY <2>3, LiveIsPlaced
  <2>5. /\ Times(queue, Acks(id)) = 0 /\ Times(queue, Finals(id)) = 0
    BY <2>2, <2>3, <2>4 DEF Placed, Fits, StateOf, IsTerminal, Terminal
  <2>6. Times(q, Acks(id)) = 0
    BY <1>3, <2>5
  <2>7. PICK y : y = SetState(exchanges[s], id, "Cancelled")
    OBVIOUS
  <2>8. exchanges' = [exchanges EXCEPT ![s] = y]
        /\ EndQuietly(EnqueueReports(Tail(queue), <<Report(y, id, 0, NoPrice)>>))
    BY <1>5, <2>2, <2>7 DEF AckCancel
  <2>9. /\ StateOf(exchanges[s], id) \in {"PendingNew", "PendingCancel"}
        /\ "Cancelled" \in {"Open", "Cancelled"} /\ "OrderCancelAck" # "OrderReport"
    BY <2>3
  <2>10. QED
    BY <1>2, <1>4, <2>3, <2>5, <2>6, <2>7, <2>8, <2>9, StateReportedTrail
<1>6. CASE /\ ~(id \in DOMAIN route /\ CanAckCancel(exchanges[route[id]], id))
           /\ exchanges' = exchanges
           /\ EndQuietly(Tail(queue))
  <2>1. DeskInv(Desk(Tail(queue)), exchanges, now')
    BY <1>1, <1>2, <1>6, VoidCancelAckDesk
  <2>2. TrailInv(Desk(Tail(queue)), report_buffer, exchanges, now')
    BY <1>2, TrailPopped
  <2>3. /\ DeskInv(Desk(Tail(queue)), exchanges', now')
        /\ TrailInv(Desk(Tail(queue)), report_buffer, exchanges', now')
    BY <1>6, <2>1, <2>2
  <2>4. QED
    BY SMTT(60), <1>2, <1>6, <2>3, TrailEndsWith
<1>7. QED
  BY <1>2, <1>5, <1>6

\* The reports on the execution of a market order say what became of it.
LEMMA MarketSaid ==
  ASSUME NEW x, GoodExchange(x), NEW id \in Live(x),
         x.orders[id].type = "Market", StateOf(x, id) = "PendingNew",
         NEW fallback \in Prices \cup {NoPrice},
         NEW done, done = MarketExecution(x, id, fallback),
         NEW y, y = done.exchange, NEW reports, reports = done.reports
  PROVE  SayOf(reports, id, x.orders[id], y.orders[id])
<1>1. PICK price : price = MarketPrice(x, x.orders[id].side, fallback)
  OBVIOUS
<1>2. PICK filled : filled = FillMarketImmediately(x, id, fallback)
  OBVIOUS
<1>3. PICK rest : rest = SetState(filled, id, "Cancelled")
  OBVIOUS
<1>4. PICK a : a = Report(filled, id, filled.orders[id].filled, price)
  OBVIOUS
<1>5. PICK b : b = Report(rest, id, 0, NoPrice)
  OBVIOUS
<1>6. done = IF StateOf(filled, id) = "PartiallyFilled"
             THEN [exchange |-> rest, reports |-> <<a, b>>]
             ELSE [exchange |-> filled, reports |-> <<a>>]
  BY <1>1, <1>2, <1>3, <1>4, <1>5 DEF MarketExecution, ForceCancelPartialFill
<1>7. /\ GoodExchange(filled) /\ Live(filled) = Live(x)
      /\ filled.orders[id].state \in {"Rejected", "Filled", "PartiallyFilled"}
  BY <1>2, MarketFilled
<1>8. filled.orders[id] \in LiveOrder
  BY <1>7, Fields DEF GoodExchange, Live
<1>9. PICK v : v = filled.orders[id].filled
  OBVIOUS
<1>10. price \in Prices \cup {NoPrice} /\ v \in Nat
  BY <1>1, <1>8, <1>9, MarketPriceType DEF LiveOrder
<1>11. /\ a \in ReportRecord /\ a.id = id /\ a.status = filled.orders[id].state
       /\ a.last = v /\ a.filled = v
  <2>1. Report(filled, id, v, price).filled = v
    BY <1>9 DEF Report
  <2>2. QED
    BY <1>4, <1>7, <1>9, <1>10, <2>1, ReportType
<1>12. SUFFICES ASSUME NEW l \in Listener(id), l.ok, Reported(l.told, "PendingNew")
                PROVE  /\ AfterReports(l, reports).ok
                       /\ AfterReports(l, reports).told.filled = y.orders[id].filled
                       /\ Reported(AfterReports(l, reports).told, y.orders[id].state)
  BY DEF SayOf, StateOf
<1>13. l.id = id /\ l.told \in Told /\ l.told.status = "Created" /\ l.told.filled = 0
  BY <1>12, ListenerFields DEF Reported
<1>14. PICK m : m = Hears(l, a)
  OBVIOUS
<1>15. /\ m \in Listener(id) /\ m.ok /\ m.told.filled = v
       /\ m.told.status = filled.orders[id].state
  <2>1. m \in Listener(id)
    BY <1>11, <1>14, HearsType
  <2>2. m.told = Heard(l.told, a) /\ (m.ok <=> l.ok /\ Follows(l.told, a))
    BY <1>11, <1>13, <1>14 DEF Hears
  <2>3. m.told.status = a.status /\ m.told.filled = a.filled
    BY <1>11, <1>13, <2>2, HeardIs
  <2>4. Follows(l.told, a)
    BY <1>10, <1>11, <1>13 DEF Follows, IsTerminal, Terminal
  <2>5. QED
    BY <1>11, <1>12, <2>1, <2>2, <2>3, <2>4
<1>16. CASE StateOf(filled, id) = "PartiallyFilled"
  <2>1. "Cancelled" \in OrderState /\ "Cancelled" # "Filled" /\ StateOf(filled, id) # "Filled"
    BY <1>16 DEF OrderState
  <2>2. /\ GoodExchange(rest) /\ Live(rest) = Live(filled)
        /\ rest.orders[id] = [filled.orders[id] EXCEPT !.state = "Cancelled"]
    BY <1>3, <1>7, <2>1, StateChanges
  <2>3. rest.orders[id].state = "Cancelled" /\ rest.orders[id].filled = v
    BY <1>8, <1>9, <2>2 DEF LiveOrder
  <2>4. /\ b \in ReportRecord /\ b.id = id /\ b.status = "Cancelled" /\ b.last = 0
        /\ b.filled = v
    <3>1. id \in Live(rest) /\ GoodExchange(rest)
      BY <1>7, <2>2
    <3>2. Report(rest, id, 0, NoPrice).filled = v
      BY <2>3 DEF Report
    <3>3. QED
      BY <1>5, <2>3, <3>1, <3>2, ReportType
  <2>5. PICK n : n = Hears(m, b)
    OBVIOUS
  <2>6. m.id = id /\ m.told \in Told
    BY <1>15, ListenerFields
  <2>7. n.told = Heard(m.told, b) /\ (n.ok <=> m.ok /\ Follows(m.told, b))
    BY <2>4, <2>5, <2>6 DEF Hears
  <2>8. n.told.status = "Cancelled" /\ n.told.filled = v
    BY <2>4, <2>6, <2>7, HeardIs
  <2>9. Follows(m.told, b)
    BY <1>10, <1>15, <1>16, <2>4 DEF Follows, IsTerminal, Terminal, StateOf
  <2>10. AfterReports(l, <<a, b>>) = n
    <3>1. <<a, b>> = Append(<<a>>, b) /\ <<a>> \in Seq(ReportRecord)
      BY <1>11
    <3> DEFINE s == <<a>>
    <3>2. AfterReports(l, s) = m /\ s \in Seq(ReportRecord)
      BY <1>11, <1>14, <3>1, OneReportHeard
    <3>3. <<a, b>> = Append(s, b)
      BY <3>1
    <3> HIDE DEF s
    <3>4. AfterReports(l, Append(s, b)) = Hears(AfterReports(l, s), b)
      BY <2>4, <3>2, ReportsOfAppend
    <3>5. QED
      BY <2>5, <3>2, <3>3, <3>4
  <2>11. y = rest /\ reports = <<a, b>>
    BY <1>6, <1>16
  <2>12. Reported(n.told, "Cancelled")
    BY <2>8 DEF Reported
  <2>13. QED
    BY <1>15, <2>3, <2>7, <2>8, <2>9, <2>10, <2>11, <2>12
<1>17. CASE StateOf(filled, id) # "PartiallyFilled"
  <2>1. y = filled /\ reports = <<a>>
    BY <1>6, <1>17
  <2>2. AfterReports(l, reports) = m
    BY <1>11, <1>14, <2>1, OneReportHeard
  <2>3. Reported(m.told, filled.orders[id].state)
    BY <1>7, <1>15 DEF Reported
  <2>4. QED
    BY <1>9, <1>15, <2>1, <2>2, <2>3
<1>18. QED
  BY <1>16, <1>17


LEMMA AckMarketTrail ==
  ASSUME EngineInv, ReportsInv, NEW kind, PopAs(kind), kind # "OrderReport",
         NEW id, NEW s \in Symbols, id \in Live(exchanges[s]),
         \A i : i # id => ~About(Head(queue), i),
         Times(queue, Finals(id)) = 0, Times(Tail(queue), Acks(id)) = 0,
         exchanges[s].orders[id].type = "Market", StateOf(exchanges[s], id) = "PendingNew",
         AckMarketOrder(id, s)
  PROVE  TrailGoesOn
<1>1. PICK x : x = exchanges[s]
  OBVIOUS
<1>2. PICK fallback : fallback = truth[s]
  OBVIOUS
<1>3. PICK done : done = MarketExecution(x, id, fallback)
  OBVIOUS
<1>4. PICK y : y = done.exchange
  OBVIOUS
<1>5. PICK reports : reports = done.reports
  OBVIOUS
<1>6. PICK q : q = EnqueueReports(Tail(queue), reports)
  OBVIOUS
<1>7. exchanges' = [exchanges EXCEPT ![s] = y] /\ EndQuietly(q)
  BY <1>1, <1>2, <1>3, <1>4, <1>5, <1>6 DEF AckMarketOrder
<1>8. GoodExchange(x) /\ WellTyped(x) /\ id \in Live(x)
  BY <1>1, Standing
<1>9. /\ config \in Configs /\ now' \in Nat /\ QueueFrom(Tail(queue), now')
  BY Popped
<1>10. fallback \in Prices \cup {NoPrice}
  BY <1>2 DEF EngineInv, BooksInv
<1>11. /\ GoodExchange(y) /\ Live(y) = Live(x)
       /\ \A i \in Live(x) : i # id => y.orders[i] = x.orders[i]
       /\ y.orders[id].type = "Market" /\ IsTerminal(y.orders[id].state)
       /\ ReportsOn(reports, id, y.orders[id].state)
  BY <1>1, <1>3, <1>4, <1>5, <1>8, <1>9, <1>10, MarketExecutes
<1>12. PICK state : state = y.orders[id].state
  OBVIOUS
<1>13. PICK ys : ys = [exchanges EXCEPT ![s] = y]
  OBVIOUS
<1>14. DeskInv(Desk(q), ys, now')
  <2>1. \A i \in Live(exchanges[s]) : i # id => y.orders[i] = exchanges[s].orders[i]
    BY <1>1, <1>11
  <2>2. GoodExchange(y) /\ Live(y) = Live(exchanges[s]) /\ y.orders[id].type = "Market"
        /\ y.orders[id].state = state /\ ReportsOn(reports, id, state)
    BY <1>1, <1>11, <1>12
  <2>3. IsTerminal(state) /\ state # "PendingNew" /\ state # "PendingCancel"
    BY <1>11, <1>12 DEF IsTerminal, Terminal
  <2>4. QED
    BY <1>6, <1>13, <2>1, <2>2, <2>3, ReportedOrder
<1>15. DeskInv(Desk(q), exchanges', now')
  BY <1>7, <1>13, <1>14
<1>16. reports \in Seq(ReportRecord) /\ \A i \in 1 .. Len(reports) : reports[i].id = id
  BY <1>11 DEF ReportsOn
<1>17. SayOf(reports, id, x.orders[id], y.orders[id])
  <2>1. x.orders[id].type = "Market" /\ StateOf(x, id) = "PendingNew"
    BY <1>1
  <2>2. QED
    BY <1>3, <1>4, <1>5, <1>8, <1>10, <2>1, MarketSaid
<1>18. /\ id \in Live(y) /\ ApartFrom(exchanges[s], y, id)
       /\ SayOf(reports, id, exchanges[s].orders[id], y.orders[id])
  BY <1>1, <1>8, <1>11, <1>17 DEF ApartFrom
<1>19. QED
  BY <1>6, <1>7, <1>15, <1>16, <1>18, ReportedOrderTrail

LEMMA OrderAckTrail ==
  ASSUME EngineInv, ReportsInv, HandleOrderAck
  PROVE  TrailGoesOn
<1>1. PICK id : id = Head(queue).id
  OBVIOUS
<1>2. PICK q : q = Tail(queue)
  OBVIOUS
<1>3. /\ PopAs("OrderAck")
      /\ IF id \notin DOMAIN route THEN ReturnEarly
         ELSE IF IsMarket(exchanges[route[id]], id) THEN AckMarketOrder(id, route[id])
         ELSE AckLimitOrder(id, route[id])
  BY <1>1 DEF HandleOrderAck
<1>4. /\ Head(queue) \in Event /\ Head(queue).kind = "OrderAck" /\ queue \in Seq(Event)
      /\ \A E : Times(queue, E) = Times(q, E) + (IF Head(queue) \in E THEN 1 ELSE 0)
      /\ \A E : Times(queue, E) \in Nat /\ Times(q, E) \in Nat
  BY <1>2, <1>3, Popped
<1>5. /\ Head(queue) \in Acks(id) /\ id \in OrderId
      /\ \A i : i # id => ~About(Head(queue), i)
  <2>1. Head(queue) \in IdEvents
    BY <1>4 DEF Event, PreloadEvent, TickEvents, Deliveries, OrderEvents, ReportEvents, TimerEvents
  <2>2. QED
    BY <1>1, <1>4, <2>1 DEF Acks, IdEvents, About
<1>6. Times(queue, Acks(id)) >= 1 /\ Times(queue, Acks(id)) = Times(q, Acks(id)) + 1
  BY <1>4, <1>5
<1>7. Placed(queue, route, exchanges, id)
  BY <1>5, <1>6, AckMeansPlaced
<1>8. id \in DOMAIN route /\ route[id] \in Symbols
  BY <1>7, Standing DEF Placed
<1>9. PICK s \in Symbols : s = route[id]
  BY <1>8
<1>10. id \in Live(exchanges[s]) /\ StateOf(exchanges[s], id) = "PendingNew"
  BY <1>6, <1>7, <1>9 DEF Placed, Fits, StateOf
<1>11. Times(queue, Finals(id)) = 0 /\ Times(queue, Acks(id)) = 1
  BY <1>7, <1>9, <1>10 DEF Placed, Fits, StateOf, IsTerminal, Terminal
<1>12. Times(Tail(queue), Acks(id)) = 0
  BY <1>2, <1>4, <1>6, <1>11
<1>13. "OrderAck" # "OrderReport"
  OBVIOUS
<1>14. CASE IsMarket(exchanges[s], id)
  <2>1. AckMarketOrder(id, s)
    BY <1>3, <1>8, <1>9, <1>14
  <2>2. exchanges[s].orders[id].type = "Market"
    BY <1>14 DEF IsMarket
  <2>3. QED
    BY <1>3, <1>5, <1>10, <1>11, <1>12, <1>13, <2>1, <2>2, AckMarketTrail
<1>15. CASE ~IsMarket(exchanges[s], id)
  <2>1. AckLimitOrder(id, s)
    BY <1>3, <1>8, <1>9, <1>15
  <2>2. PICK y : y = SetState(exchanges[s], id, "Open")
    OBVIOUS
  <2>3. /\ exchanges' = [exchanges EXCEPT ![s] = y]
        /\ EndQuietly(EnqueueReports(Tail(queue), <<Report(y, id, 0, NoPrice)>>))
    BY <1>10, <2>1, <2>2 DEF AckLimitOrder, CanAckNew, AckNew
  <2>4. exchanges[s].orders[id].type = "Market" => "Open" = "Cancelled"
    BY <1>10, <1>15 DEF IsMarket
  <2>5. "Open" \in {"Open", "Cancelled"}
        /\ StateOf(exchanges[s], id) \in {"PendingNew", "PendingCancel"}
    BY <1>10
  <2>6. QED
    BY <1>3, <1>5, <1>10, <1>11, <1>12, <1>13, <2>2, <2>3, <2>4, <2>5, StateReportedTrail
<1>16. QED
  BY <1>14, <1>15

-----------------------------------------------------------------------------
(***************************************************************************)
(* The trail of reports through a tick: what the exchange says of each     *)
(* order it fills.                                                         *)
(***************************************************************************)
LEMMA TradedFill ==
  ASSUME NEW x, GoodExchange(x), NEW trade \in TickRecord, NEW id \in Live(x),
         NEW y, y = OnTrade(x, trade)
  PROVE  /\ x.orders[id].filled \in Nat
         /\ y.orders[id].filled
              = x.orders[id].filled + (IF id \in FilledBy(x, trade) THEN Answer(x, trade, id).fill ELSE 0)
<1>1. trade.qty \in Nat
  BY DEF TickRecord
<1>2. /\ WellTyped(x) /\ x.orders \in [Live(x) -> LiveOrder] /\ x.model \in QueueModel
      /\ x = [model |-> x.model, book |-> x.book, orders |-> x.orders, buckets |-> x.buckets]
  BY Fields DEF GoodExchange
<1>3. PICK a : a = Answer(x, trade, id)
  OBVIOUS
<1>4. PICK o : o = x.orders[id]
  OBVIOUS
<1>5. y.orders[id] = IF id \in Asked(x, trade) THEN AfterAnswer(o, a) ELSE o
  <2> DEFINE orders == [i \in Live(x) |-> IF i \in Asked(x, trade)
                                           THEN AfterAnswer(x.orders[i], Answer(x, trade, i))
                                           ELSE x.orders[i]]
  <2>1. y = [x EXCEPT !.orders = orders]
    BY DEF OnTrade
  <2>2. orders[id] = IF id \in Asked(x, trade) THEN AfterAnswer(o, a) ELSE o
    BY <1>3, <1>4
  <2> HIDE DEF orders
  <2>3. y.orders = orders
    BY <1>2, <2>1
  <2>4. QED
    BY <2>2, <2>3
<1>6. o \in LiveOrder
  BY <1>2, <1>4
<1>7. o.filled \in Nat /\ o.remaining \in Nat /\ o.queue \in QueueState
  BY <1>6 DEF LiveOrder
<1>8. id \in Asked(x, trade) => a.fill \in Nat
  BY <1>1, <1>2, <1>3, <1>4, <1>7, CheckFillBounds DEF Answer
<1>9. AfterAnswer(o, a).filled = IF a.fill <= 0 THEN o.filled ELSE o.filled + a.fill
  BY <1>6 DEF AfterAnswer, LiveOrder
<1>10. id \in FilledBy(x, trade) <=> id \in Asked(x, trade) /\ a.fill > 0
  BY <1>3 DEF FilledBy
<1>11. CASE id \in FilledBy(x, trade)
  BY <1>3, <1>4, <1>5, <1>7, <1>8, <1>9, <1>10, <1>11
<1>12. CASE id \notin FilledBy(x, trade)
  BY <1>3, <1>4, <1>5, <1>7, <1>8, <1>9, <1>10, <1>12
<1>13. QED
  BY <1>11, <1>12

\* A filled order has exactly one report of the trade, on the order as the trade left it.
LEMMA TradeReportOf ==
  ASSUME NEW x, GoodExchange(x), NEW trade \in TickRecord, NEW id \in FilledBy(x, trade),
         NEW y, y = OnTrade(x, trade), NEW reports, reports = OnTradeReports(x, trade)
  PROVE  \E i \in 1 .. Len(reports) :
           /\ OnlyAt(reports, id, i)
           /\ reports[i].status = y.orders[id].state /\ reports[i].filled = y.orders[id].filled
           /\ reports[i].last = Answer(x, trade, id).fill
<1>1. PICK ids : ids = TradedIds(x, trade)
  OBVIOUS
<1>2. /\ ids \in Seq(OrderId) /\ Distinct(ids)
      /\ \A i \in 1 .. Len(ids) : ids[i] \in FilledBy(x, trade)
      /\ Has(ids, id)
  BY <1>1, TradedIdsAre
<1> DEFINE report(i) == Report(y, i, Answer(x, trade, i).fill, trade.price)
<1>3. reports = [i \in DOMAIN ids |-> report(ids[i])]
  BY <1>1 DEF OnTradeReports, TradedIds
<1>4. \A i : report(i).id = i
  BY DEF Report
<1>5. /\ report(id).status = y.orders[id].state /\ report(id).filled = y.orders[id].filled
      /\ report(id).last = Answer(x, trade, id).fill
  BY DEF Report
<1> HIDE DEF report
<1>6. DOMAIN ids = 1 .. Len(ids) /\ Len(ids) \in Nat
  BY <1>2
<1>7. /\ \A i \in 1 .. Len(ids) : reports[i] = report(ids[i])
      /\ DOMAIN reports = 1 .. Len(ids)
  BY <1>3, <1>6
<1>8. Len(reports) = Len(ids)
  BY TradeReports, <1>6, <1>7
<1>9. PICK k \in 1 .. Len(ids) : ids[k] = id
  BY <1>2 DEF Has
<1>10. \A j \in 1 .. Len(reports) : reports[j].id = ids[j]
  BY <1>4, <1>7, <1>8
<1>11. \A j \in 1 .. Len(ids) : ids[j] = id <=> j = k
  BY <1>2, <1>9 DEF Distinct
<1>12. OnlyAt(reports, id, k)
  BY <1>8, <1>10, <1>11 DEF OnlyAt
<1>13. reports[k] = report(id)
  BY <1>7, <1>9
<1>14. QED
  BY <1>5, <1>8, <1>9, <1>12, <1>13

\* The reports of a trade say of each order what became of it.
LEMMA TradeSaid ==
  ASSUME NEW x, GoodExchange(x), NEW trade \in TickRecord, NEW id \in Live(x),
         NEW y, y = OnTrade(x, trade), NEW reports, reports = OnTradeReports(x, trade)
  PROVE  SayOf(reports, id, x.orders[id], y.orders[id])
<1>1. PICK o : o = x.orders[id]
  OBVIOUS
<1>2. PICK p : p = y.orders[id]
  OBVIOUS
<1>3. PICK fill : fill = Answer(x, trade, id).fill
  OBVIOUS
<1>4. /\ reports \in Seq(ReportRecord)
      /\ \A i \in 1 .. Len(reports) : reports[i].id \in FilledBy(x, trade)
  BY TradeReports
<1>5. /\ IF id \in FilledBy(x, trade)
         THEN o.state \in Fillable /\ p.state \in {"Filled", "PartiallyFilled"} /\ fill \in Nat
         ELSE p.state = o.state
      /\ o.filled \in Nat /\ p.filled = o.filled + (IF id \in FilledBy(x, trade) THEN fill ELSE 0)
  BY <1>1, <1>2, <1>3, TradedOrder, TradedFill
<1>6. SUFFICES ASSUME NEW a \in Listener(id), a.ok, a.told.filled = o.filled, Reported(a.told, o.state)
               PROVE  /\ AfterReports(a, reports).ok
                      /\ AfterReports(a, reports).told.filled = p.filled
                      /\ Reported(AfterReports(a, reports).told, p.state)
  BY <1>1, <1>2 DEF SayOf
<1>7. a.id = id /\ a.told \in Told
  BY ListenerFields
<1>8. CASE id \in FilledBy(x, trade)
  <2>1. PICK i \in 1 .. Len(reports) :
          /\ OnlyAt(reports, id, i)
          /\ reports[i].status = p.state /\ reports[i].filled = p.filled /\ reports[i].last = fill
    BY <1>2, <1>3, <1>8, TradeReportOf
  <2>2. PICK r : r = reports[i]
    OBVIOUS
  <2>3. r \in ReportRecord /\ r.id = id /\ r.status = p.state /\ r.filled = p.filled /\ r.last = fill
    <3>1. Len(reports) \in Nat /\ reports[i] \in ReportRecord
      BY <1>4, <2>1
    <3>2. QED
      BY <2>1, <2>2, <3>1 DEF OnlyAt
  <2>4. PICK b : b = Hears(a, r)
    OBVIOUS
  <2>5. AfterReports(a, reports) = b
    BY <1>4, <1>7, <2>1, <2>2, <2>4, HearsOnce
  <2>6. b.told = Heard(a.told, r) /\ (b.ok <=> a.ok /\ Follows(a.told, r))
    BY <1>7, <2>3, <2>4 DEF Hears
  <2>7. b.told.status = p.state /\ b.told.filled = p.filled
    BY <1>7, <2>3, <2>6, HeardIs
  <2>8. ~IsTerminal(a.told.status)
    BY <1>5, <1>6, <1>8 DEF Reported, Fillable, IsTerminal, Terminal
  <2>9. Follows(a.told, r)
    BY <1>5, <1>6, <1>8, <2>3, <2>8 DEF Follows
  <2>10. Reported(b.told, p.state)
    BY <1>5, <1>8, <2>7 DEF Reported
  <2>11. QED
    BY <1>6, <2>5, <2>6, <2>7, <2>9, <2>10
<1>9. CASE id \notin FilledBy(x, trade)
  <2>1. reports \in Seq({r \in ReportRecord : r.id # a.id})
    <3> DEFINE R == {r \in ReportRecord : r.id # a.id}
    <3>1. \A k \in 1 .. Len(reports) : reports[k] \in R
      BY <1>4, <1>7, <1>9, ElementOfSeq
    <3> HIDE DEF R
    <3>2. reports \in Seq(R)
      BY <1>4, <3>1
    <3>3. QED
      BY <3>2 DEF R
  <2>2. AfterReports(a, reports) = a
    BY <2>1, QuietReports
  <2>3. QED
    BY <1>5, <1>6, <1>9, <2>2
<1>10. QED
  BY <1>8, <1>9

LEMMA TickTrail ==
  ASSUME EngineInv, ReportsInv, HandleTick
  PROVE  TrailGoesOn
<1>1. PICK tick : tick = Head(queue).tick
  OBVIOUS
<1>2. PICK s : s = tick.symbol
  OBVIOUS
<1>3. PICK x : x = exchanges[s]
  OBVIOUS
<1>4. PICK y : y = OnTrade(x, tick)
  OBVIOUS
<1>5. PICK reports : reports = OnTradeReports(x, tick)
  OBVIOUS
<1>6. PICK r : r = EnqueueReports(Tail(queue), reports)
  BY SMTT(60)
<1>7. PopAs("Tick") /\ exchanges' = [exchanges EXCEPT ![s] = y] /\ EndQuietly(r)
  BY <1>1, <1>2, <1>3, <1>4, <1>5, <1>6 DEF HandleTick
<1>8. /\ Head(queue) \in Event /\ Head(queue).kind = "Tick" /\ config \in Configs
      /\ now' \in Nat /\ QueueFrom(Tail(queue), now')
  BY <1>7, Popped
<1>9. tick \in TickRecord
  BY <1>1, <1>8 DEF Event, PreloadEvent, TickEvents, Deliveries, OrderEvents, IdEvents,
                    ReportEvents, TimerEvents
<1>10. s \in Symbols
  BY <1>2, <1>9 DEF TickRecord
<1>11. PICK ys : ys = [exchanges EXCEPT ![s] = y]
  OBVIOUS
<1>12. DeskInv(Desk(r), ys, now')
  BY <1>2, <1>3, <1>4, <1>5, <1>6, <1>7, <1>9, <1>11, TickDesk
<1>13. exchanges' = ys
  BY <1>7, <1>11
<1>14. GoodExchange(x) /\ DOMAIN exchanges = Symbols
  BY <1>3, <1>10, Standing DEF GoodMarket
<1>15. /\ reports \in Seq(ReportRecord)
       /\ \A i \in 1 .. Len(reports) : reports[i].id \in FilledBy(x, tick)
       /\ FilledBy(x, tick) \subseteq Live(x)
  BY <1>4, <1>5, <1>9, <1>14, TradeReports DEF FilledBy, Asked
<1>16. ASSUME NEW id \in Live(x)
       PROVE  id \in DOMAIN route /\ route[id] = s
  BY SMTT(60), <1>3, <1>10, LiveIsPlaced
<1>17. /\ next_order_id \in Nat /\ DOMAIN route \subseteq 1 .. next_order_id - 1
       /\ \A i \in DOMAIN route : route[i] \in Symbols
  BY Standing DEF EngineInv, DeskInv, Now, Desk, OrderId
<1>18. \A i \in 1 .. Len(reports) : reports[i].id < next_order_id
  <2> DEFINE n == next_order_id
  <2>1. \A i \in 1 .. Len(reports) : reports[i].id \in 1 .. n - 1
    BY <1>15, <1>16, <1>17
  <2>2. n \in Nat
    BY <1>17
  <2> HIDE DEF n
  <2>3. \A i \in 1 .. Len(reports) : reports[i].id < n
    BY <2>1, <2>2
  <2>4. QED
    BY <2>3 DEF n
<1>19. Live(y) = Live(x)
  <2>1. x.orders \in [Live(x) -> LiveOrder]
        /\ x = [model |-> x.model, book |-> x.book, orders |-> x.orders, buckets |-> x.buckets]
    BY <1>14, Fields DEF GoodExchange
  <2>2. QED
    BY <1>4, <2>1 DEF OnTrade, Live
<1>20. ASSUME NEW id \in DOMAIN seen, NEW a \in Listener(id), a.ok, Agrees(a, route, exchanges)
       PROVE  AfterReports(a, reports).ok /\ Agrees(AfterReports(a, reports), route, ys)
  <2>1. a.id = id
    BY ListenerFields
  <2>2. CASE id \in Live(x)
    <3>1. id \in DOMAIN route /\ route[id] = s
      BY <1>16, <2>2
    <3>2. a.told.filled = x.orders[id].filled /\ Reported(a.told, x.orders[id].state)
      BY <1>3, <1>20, <2>1, <2>2, <3>1 DEF Agrees
    <3>3. SayOf(reports, id, x.orders[id], y.orders[id])
      BY <1>4, <1>5, <1>9, <1>14, <2>2, TradeSaid
    <3>4. PICK b : b = AfterReports(a, reports)
      OBVIOUS
    <3>5. b.ok /\ b.told.filled = y.orders[id].filled /\ Reported(b.told, y.orders[id].state)
      BY <1>20, <3>2, <3>3, <3>4 DEF SayOf
    <3>6. b.id = id
      BY <1>15, <3>4, AfterReportsType, ListenerFields
    <3>7. ys[s] = y
      BY <1>10, <1>11, <1>14
    <3>8. Agrees(b, route, ys)
      BY <1>19, <2>2, <3>1, <3>5, <3>6, <3>7 DEF Agrees
    <3>9. QED
      BY <3>4, <3>5, <3>8
  <2>3. CASE id \notin Live(x)
    <3>1. reports \in Seq({p \in ReportRecord : p.id # a.id})
      <4> DEFINE R == {p \in ReportRecord : p.id # a.id}
      <4>1. \A k \in 1 .. Len(reports) : reports[k] \in R
        BY <1>15, <2>1, <2>3, ElementOfSeq
      <4> HIDE DEF R
      <4>2. reports \in Seq(R)
        BY <1>15, <4>1
      <4>3. QED
        BY <4>2 DEF R
    <3>2. AfterReports(a, reports) = a
      BY <3>1, QuietReports
    <3>3. a.id \in DOMAIN route =>
            /\ a.id \in Live(ys[route[a.id]]) <=> a.id \in Live(exchanges[route[a.id]])
            /\ a.id \in Live(exchanges[route[a.id]]) =>
                 /\ ys[route[a.id]].orders[a.id].filled = exchanges[route[a.id]].orders[a.id].filled
                 /\ ys[route[a.id]].orders[a.id].state = exchanges[route[a.id]].orders[a.id].state
      <4> SUFFICES ASSUME a.id \in DOMAIN route
                   PROVE  /\ a.id \in Live(ys[route[a.id]]) <=> a.id \in Live(exchanges[route[a.id]])
                          /\ a.id \in Live(exchanges[route[a.id]]) =>
                               /\ ys[route[a.id]].orders[a.id].filled
                                    = exchanges[route[a.id]].orders[a.id].filled
                               /\ ys[route[a.id]].orders[a.id].state
                                    = exchanges[route[a.id]].orders[a.id].state
        OBVIOUS
      <4>1. route[id] \in Symbols
        BY <1>17, <2>1
      <4>2. CASE route[id] = s
        <5>1. ys[route[id]] = y /\ exchanges[route[id]] = x
          BY <1>3, <1>10, <1>11, <1>14, <4>2
        <5>2. QED
          BY <1>19, <2>1, <2>3, <5>1
      <4>3. CASE route[id] # s
        <5>1. ys[route[id]] = exchanges[route[id]]
          BY SMTT(60), <1>11, <1>14, <4>1, <4>3
        <5>2. QED
          BY <2>1, <5>1
      <4>4. QED
        BY SMTT(60), <4>2, <4>3
    <3>4. Agrees(a, route, ys)
      BY <1>20, <3>3, AgreesStill
    <3>5. QED
      BY <1>20, <3>2, <3>4
  <2>4. QED
    BY <2>2, <2>3
<1>21. TrailInv(Desk(Tail(queue)), report_buffer, exchanges, now') /\ "Tick" # "OrderReport"
  BY <1>7, TrailPopped
<1>22. TrailInv(Desk(r), report_buffer, ys, now')
  BY <1>6, <1>8, <1>15, <1>17, <1>18, <1>20, <1>21, TrailOfReports
<1>23. TrailInv(Desk(r), report_buffer, exchanges', now') /\ DeskInv(Desk(r), exchanges', now')
  BY <1>12, <1>13, <1>22
<1>24. QED
  BY <1>7, <1>21, <1>23, TrailEndsWith

-----------------------------------------------------------------------------
(***************************************************************************)
(* The trail of reports when one is popped: it moves from the head of the  *)
(* queue to the end of the buffer, so the outlook of each order is as      *)
(* before; and the order whose last report it is, is finished.             *)
(***************************************************************************)
LEMMA OutlookMoves ==
  ASSUME NEW a, NEW buffer \in Seq(ReportRecord), queue \in Seq(Event), queue # <<>>,
         Head(queue).kind = "OrderReport", NEW r \in ReportRecord, r = Head(queue).report
  PROVE  /\ AfterReports(a, Append(buffer, r)) = Hears(AfterReports(a, buffer), r)
         /\ AfterEvents(AfterReports(a, Append(buffer, r)), Tail(queue))
              = AfterEvents(AfterReports(a, buffer), queue)
<1>1. AfterReports(a, Append(buffer, r)) = Hears(AfterReports(a, buffer), r)
  BY ReportsOfAppend
<1>2. PICK m : m = AfterReports(a, buffer)
  OBVIOUS
<1>3. AfterEvents(m, queue) = AfterEvents(HearsOf(m, Head(queue)), Tail(queue))
  BY OutlookOfPop
<1>4. HearsOf(m, Head(queue)) = Hears(m, r)
  BY DEF HearsOf
<1>5. QED
  BY <1>1, <1>2, <1>3, <1>4

\* The outlook of the order that a final report ends.
LEMMA OutlookEnds ==
  ASSUME NEW id, NEW m \in Listener(id), NEW r \in ReportRecord, r.id = id, IsTerminal(r.status),
         NEW q \in Seq(Event), AfterEvents(Hears(m, r), q).ok
  PROVE  IsTerminal(AfterEvents(Hears(m, r), q).told.status)
<1>1. PICK b : b = Hears(m, r)
  OBVIOUS
<1>2. PICK a : a = AfterEvents(b, q)
  OBVIOUS
<1>3. b \in Listener(id)
  BY <1>1, HearsType
<1>4. Grew(b, a)
  BY <1>2, <1>3, GrewByEvents
<1>5. b.told.status = r.status
  <2>0. m.id = id /\ m.told \in Told
    BY ListenerFields
  <2>1. b.told = Heard(m.told, r)
    BY <1>1, <2>0 DEF Hears
  <2>2. QED
    BY <2>0, <2>1, HeardIs
<1>6. a.ok
  BY <1>1, <1>2
<1>7. a.told = b.told
  BY <1>4, <1>5, <1>6 DEF Grew
<1>8. IsTerminal(a.told.status)
  BY SMTT(60), <1>5, <1>7
<1>9. QED
  BY <1>1, <1>2, <1>8

\* The order that a final report ends is live, where its route says.
LEMMA EndedIsLive ==
  ASSUME EngineInv, PopAs("OrderReport"), NEW r \in ReportRecord, r = Head(queue).report, Ends(r)
  PROVE  route[r.id] \in Symbols /\ r.id \in Live(exchanges[route[r.id]])
<1>1. PICK q : q = Tail(queue)
  OBVIOUS
<1>0. PICK id : id = r.id
  OBVIOUS
<1>2. /\ Head(queue) \in Event /\ Head(queue).kind = "OrderReport"
      /\ \A E : Times(queue, E) = Times(q, E) + (IF Head(queue) \in E THEN 1 ELSE 0)
      /\ \A E : Times(queue, E) \in Nat /\ Times(q, E) \in Nat
  BY <1>1, Popped
<1>3. Head(queue) \in ReportEvents
  BY <1>2 DEF Event, PreloadEvent, TickEvents, Deliveries, OrderEvents, IdEvents, TimerEvents
<1>4. id \in OrderId /\ id \in DOMAIN route /\ IsTerminal(r.status) /\ route[id] \in Symbols
  BY <1>0, Standing DEF Ends
<1>5. Head(queue) \in Finals(id)
  BY <1>0, <1>3, <1>4 DEF Finals
<1>6. Times(queue, Finals(id)) >= 1
  BY <1>2, <1>5
<1>7. Placed(queue, route, exchanges, id)
  BY SMTT(60), <1>4, <1>6, AckMeansPlaced
<1>8. QED
  BY <1>0, <1>4, <1>7 DEF Placed

LEMMA ReportPoppedTrail ==
  ASSUME EngineInv, ReportsInv, PopAs("OrderReport"),
         NEW r \in ReportRecord, r = Head(queue).report,
         NEW d, d = [Desk(Tail(queue)) EXCEPT !.route = IF Ends(r) THEN Erase(@, r.id) ELSE @],
         exchanges' = IF Ends(r)
                      THEN [exchanges EXCEPT ![route[r.id]] = RemoveOrder(@, r.id)]
                      ELSE exchanges
  PROVE  /\ TrailInv(d, Append(report_buffer, r), exchanges', now')
         /\ d.seen = seen /\ d.next_order_id = next_order_id
<1> DEFINE n  == next_order_id
           q  == Tail(queue)
           rt == IF Ends(r) THEN Erase(route, r.id) ELSE route
<1>1. /\ queue \in Seq(Event) /\ queue # <<>> /\ Head(queue) \in Event
      /\ Head(queue).kind = "OrderReport" /\ q \in Seq(Event)
  BY Popped
<1>2. /\ n \in Nat /\ TrailInv(Now, report_buffer, exchanges, now)
      /\ Now.queue = queue /\ Now.route = route /\ Now.seen = seen
      /\ seen \in [1 .. n - 1 -> Told] /\ (\A id \in DOMAIN seen : SoundTold(seen[id]))
      /\ report_buffer \in Seq(ReportRecord)
      /\ (\A i \in 1 .. Len(report_buffer) : report_buffer[i].id < n)
      /\ Times(q, Stray(now', n)) = 0
      /\ Head(queue) \notin Stray(now, n)
  BY PoppedParts
<1>3. /\ d.queue = q /\ d.route = rt /\ d.seen = seen /\ d.next_order_id = n
  BY DEF Desk
<1>4. ~(r.id >= n)
  BY <1>1, <1>2 DEF Stray
<1>5. r.id < n
  <2>1. r.id \in Nat
    BY EngineAssumption DEF ReportRecord, OrderId
  <2> HIDE DEF n
  <2>2. QED
    BY <1>2, <1>4, <2>1
<1>6. PICK b : b = Append(report_buffer, r)
  OBVIOUS
<1>7. b \in Seq(ReportRecord) /\ \A i \in 1 .. Len(b) : b[i].id < n
  <2> HIDE DEF n
  <2>1. Len(b) = Len(report_buffer) + 1 /\ Len(report_buffer) \in Nat
        /\ \A i \in 1 .. Len(b) : b[i] = IF i <= Len(report_buffer) THEN report_buffer[i] ELSE r
    BY <1>2, <1>6
  <2>2. \A i \in 1 .. Len(b) : i <= Len(report_buffer) => i \in 1 .. Len(report_buffer)
    BY <2>1
  <2>3. QED
    BY <1>2, <1>5, <1>6, <2>1, <2>2
<1>8. ASSUME NEW id \in DOMAIN seen
      PROVE  /\ Outlook(seen, b, q, id).ok
             /\ Agrees(Outlook(seen, b, q, id), rt, exchanges')
  <2>1. PICK m : m = AfterReports(Start(seen, id), report_buffer)
    OBVIOUS
  <2>2. PICK a : a = AfterEvents(m, queue)
    OBVIOUS
  <2>3. /\ m \in Listener(id) /\ a \in Listener(id) /\ a.ok /\ Agrees(a, route, exchanges)
    BY <1>1, <1>2, <2>1, <2>2, TrailParts
  <2>4. AfterEvents(Hears(m, r), q) = a /\ Outlook(seen, b, q, id) = a
    BY <1>1, <1>2, <1>6, <2>1, <2>2, OutlookMoves DEF Outlook
  <2>5. a.id = id
    BY <2>3, ListenerFields
  <2>6. Agrees(a, rt, exchanges')
    <3>1. CASE ~Ends(r)
      BY <2>3, <3>1
    <3>2. CASE Ends(r)
      <4>1. r.id \in DOMAIN route /\ IsTerminal(r.status)
        BY <3>2 DEF Ends
      <4>2. DOMAIN rt = DOMAIN route \ {r.id} /\ \A i \in DOMAIN rt : rt[i] = route[i]
        BY <3>2 DEF Erase
      <4> HIDE DEF rt
      <4>3. CASE id = r.id
        <5>1. IsTerminal(a.told.status)
          BY <1>1, <2>3, <2>4, <4>1, <4>3, OutlookEnds
        <5>2. a.id \notin DOMAIN rt
          BY SMTT(60), <2>5, <4>2, <4>3
        <5>3. QED
          BY <5>1, <5>2 DEF Agrees
      <4>4. CASE id # r.id
        <5>1. PICK s : s = route[r.id]
          OBVIOUS
        <5>2. /\ s \in Symbols /\ DOMAIN exchanges = Symbols
              /\ \A i \in DOMAIN route : route[i] \in Symbols
          BY <4>1, <5>1, Standing DEF GoodMarket
        <5>3. PICK y : y = RemoveOrder(exchanges[s], r.id)
          OBVIOUS
        <5>4. exchanges' = [exchanges EXCEPT ![s] = y]
          BY <3>2, <5>1, <5>3
        <5>5. r.id \in Live(exchanges[s])
          BY <3>2, <5>1, EndedIsLive
        <5>6. ApartFrom(exchanges[s], y, r.id)
          BY <5>3, <5>5, RemoveOrderOthers DEF ApartFrom
        <5>7. Agrees(a, route, [exchanges EXCEPT ![s] = y])
          BY <2>3, <2>5, <4>4, <5>2, <5>6, AgreesElsewhere
        <5>8. Agrees(a, route, exchanges')
          BY <5>4, <5>7
        <5>9. a.id \in DOMAIN rt <=> a.id \in DOMAIN route
          BY <2>5, <4>2, <4>4
        <5>10. a.id \in DOMAIN rt => rt[a.id] = route[a.id]
          BY SMTT(60), <4>2
        <5>11. QED
          BY <5>8, <5>9, <5>10 DEF Agrees
      <4>5. QED
        BY <4>3, <4>4
    <3>3. QED
      BY <3>1, <3>2
  <2>7. QED
    BY <2>3, <2>4, <2>6
<1> HIDE DEF n, q, rt
<1>9. TrailInv(d, b, exchanges', now')
  BY <1>2, <1>3, <1>7, <1>8 DEF TrailInv
<1>10. QED
  BY <1>3, <1>6, <1>9 DEF n


LEMMA OrderReportTrail ==
  ASSUME EngineInv, ReportsInv, HandleOrderReport
  PROVE  TrailGoesOn
<1>1. PICK r : r = Head(queue).report
  OBVIOUS
<1>2. PICK d : d = [Desk(Tail(queue)) EXCEPT !.route = IF Ends(r) THEN Erase(@, r.id) ELSE @]
  OBVIOUS
<1>3. PICK reports : reports = Append(report_buffer, r)
  OBVIOUS
<1>4. /\ PopAs("OrderReport")
      /\ exchanges' = IF Ends(r)
                      THEN [exchanges EXCEPT ![route[r.id]] = RemoveOrder(@, r.id)]
                      ELSE exchanges
      /\ \/ /\ config.mode = "Tick"
            /\ \E c \in Commands(d) :
                 EndStep(HandleCommands(Tell(d, <<r>>), c, now'),
                         tick_buffer, report_buffer, timer, FALSE)
         \/ /\ config.mode = "Batch"
            /\ EndStep(d, tick_buffer, reports, timer, TRUE)
  BY <1>1, <1>2, <1>3 DEF HandleOrderReport
<1>5. r \in ReportRecord /\ DeskInv(d, exchanges', now')
  BY <1>1, <1>2, <1>4, ReportDesk
<1>6. /\ TrailInv(d, reports, exchanges', now') /\ d.seen = seen
      /\ d.next_order_id = next_order_id
  BY <1>1, <1>2, <1>3, <1>4, <1>5, ReportPoppedTrail
<1>7. /\ next_order_id <= MaxOrders + 1
      /\ config.mode = "Tick" => report_buffer = <<>>
      /\ source' # <<>> => Head(source').qty \in TradedQtys
  BY <1>4, PoppedParts
<1>8. CASE config.mode = "Batch" /\ EndStep(d, tick_buffer, reports, timer, TRUE)
  <2>1. config.mode = "Tick" => reports = <<>>
    BY <1>8
  <2>2. d.next_order_id <= MaxOrders + 1
    BY <1>6, <1>7
  <2>3. ReportsInv' /\ Learned(d.seen, seen')
    BY <1>4, <1>5, <1>6, <1>7, <1>8, <2>1, <2>2, TrailEnds
  <2>4. QED
    BY <1>6, <2>3 DEF TrailGoesOn
<1>9. CASE /\ config.mode = "Tick"
           /\ \E c \in Commands(d) :
                EndStep(HandleCommands(Tell(d, <<r>>), c, now'),
                        tick_buffer, report_buffer, timer, FALSE)
  <2>1. report_buffer = <<>>
    BY <1>7, <1>9
  <2>2. reports = <<r>>
    BY <1>3, <2>1
  <2>3. PICK e : e = Tell(d, reports)
    OBVIOUS
  <2>4. PICK c \in Commands(d) :
          EndStep(HandleCommands(e, c, now'), tick_buffer, report_buffer, timer, FALSE)
    BY <1>9, <2>2, <2>3
  <2>5. reports \in Seq(ReportRecord)
    BY <1>6 DEF TrailInv
  <2>6. DeskInv(e, exchanges', now')
    BY <1>5, <2>3, <2>5, TellKeeps
  <2>7. /\ TrailInv(e, <<>>, exchanges', now') /\ e.next_order_id = d.next_order_id
        /\ Learned(d.seen, e.seen)
    BY <1>5, <1>6, <2>3, TrailOfTell
  <2>8. e.cancels = d.cancels
    BY <1>5, <2>3 DEF Tell, DeskInv
  <2>9. c \in Commands(e)
    BY <2>4, <2>7, <2>8 DEF Commands
  <2>10. config.mode = "Tick" => <<>> = <<>>
    OBVIOUS
  <2>11. EndStep(HandleCommands(e, c, now'), tick_buffer, <<>>, timer, FALSE)
    BY <2>1, <2>4
  <2>12. ReportsInv' /\ Learned(e.seen, seen')
    BY <1>4, <1>7, <2>6, <2>7, <2>9, <2>10, <2>11, TrailEndsAfterCallback
  <2>13. /\ \A id \in DOMAIN d.seen : d.seen[id] \in Told
         /\ \A id \in DOMAIN e.seen : e.seen[id] \in Told
    BY <1>6, <2>7 DEF TrailInv
  <2>14. \A id \in DOMAIN seen' : seen'[id] \in Told
    <3>1. TrailInv(Now, report_buffer, exchanges, now)' /\ Now'.seen = seen'
      BY <2>12 DEF ReportsInv, Now, Desk
    <3>2. QED
      BY <3>1 DEF TrailInv
  <2>15. Learned(d.seen, seen')
    BY <2>7, <2>12, <2>13, <2>14, LearnedTransitive
  <2>16. QED
    BY <1>6, <2>12, <2>15 DEF TrailGoesOn
<1>10. QED
  BY <1>4, <1>8, <1>9

-----------------------------------------------------------------------------
(***************************************************************************)
(* The trail of reports holds from the first step on.                      *)
(***************************************************************************)
LEMMA FirstNotStray ==
  ASSUME NEW events \in Preloads, NEW q, q = FoldLeft(Enqueue, <<>>, events), NEW t, NEW n
  PROVE  Times(q, Stray(t, n)) = 0
<1>1. PICK e : e = <<>>
  OBVIOUS
<1>2. /\ e \in Seq(Event) /\ Len(e) = 0
  BY <1>1
<1>3. QueueFrom(e, 0)
  BY <1>2 DEF QueueFrom, Sorted, Followed
<1>4. PreloadEvent \subseteq Later(0)
      /\ \A v \in PreloadEvent : v.kind \in {"L2Update", "Funding"}
  BY DEF PreloadEvent, Later, Event
<1>5. events \in Seq(PreloadEvent)
  BY EngineAssumption
<1>6. events \in Seq(Later(0))
  BY <1>4, <1>5, SeqMonotonic
<1>7. /\ events \in Seq(Event)
      /\ \A E : Times(FoldLeft(Enqueue, e, events), E) = Times(e, E) + Times(events, E)
  BY ZenonT(60), <1>3, <1>6, PushAll
<1>8. ASSUME NEW i \in 1 .. Len(events)
      PROVE  events[i] \notin Stray(t, n)
  <2>1. i \in DOMAIN events /\ events[i].kind \in {"L2Update", "Funding"}
    BY <1>4, <1>5
  <2>2. events[i].kind = "L2Update" => events[i].qty \in PreloadedQtys
    BY <2>1 DEF PreloadedQtys
  <2>3. QED
    BY <2>1, <2>2 DEF Stray
<1>9. Times(events, Stray(t, n)) = 0
  BY <1>7, <1>8, NoTimes
<1>10. Times(e, Stray(t, n)) = 0
  <2>1. Times(e, Stray(t, n)) = 0 <=> \A i \in 1 .. Len(e) : e[i] \notin Stray(t, n)
    BY <1>2, NoTimes
  <2>2. 1 .. Len(e) = {}
    BY <1>2
  <2>3. QED
    BY <2>1, <2>2
<1>11. Times(q, Stray(t, n)) = Times(e, Stray(t, n)) + Times(events, Stray(t, n))
  BY <1>1, <1>7
<1>12. QED
  BY <1>9, <1>10, <1>11

LEMMA InitTrail == Init => ReportsInv
<1> SUFFICES ASSUME Init PROVE ReportsInv
  OBVIOUS
<1>1. /\ source \in Upcoming(1, 0) /\ next_order_id = 1 /\ seen = <<>> /\ report_buffer = <<>>
  BY DEF Init
<1>2. PICK events \in Preloads : queue = FoldLeft(Enqueue, <<>>, events)
  BY DEF Init
<1>3. Times(queue, Stray(now, next_order_id)) = 0
  BY <1>2, FirstNotStray
<1>4. /\ Now.queue = queue /\ Now.next_order_id = 1 /\ Now.seen = seen
  BY <1>1 DEF Now, Desk
<1>5. /\ DOMAIN Now.seen = {} /\ 1 .. 1 - 1 = {} /\ seen \in [{} -> Told]
  BY <1>1, <1>4
<1>6. report_buffer \in Seq(ReportRecord) /\ 1 .. Len(report_buffer) = {}
  BY <1>1
<1>7. TrailInv(Now, report_buffer, exchanges, now)
  BY <1>1, <1>3, <1>4, <1>5, <1>6 DEF TrailInv
<1>8. source # <<>> => Head(source).qty \in TradedQtys
  BY <1>1, UpcomingIsTraded
<1>9. next_order_id <= MaxOrders + 1
  BY <1>1, EngineAssumption
<1>10. QED
  BY <1>1, <1>7, <1>8, <1>9 DEF ReportsInv

LEMMA StepTrail == EngineInv /\ ReportsInv /\ [Next]_vars => TrailGoesOn
<1> SUFFICES ASSUME EngineInv, ReportsInv, [Next]_vars PROVE TrailGoesOn
  OBVIOUS
<1>1. CASE Ingest
  BY <1>1, IngestTrail
<1>2. CASE HandleTick
  BY <1>2, TickTrail
<1>3. CASE HandleTickDelivery
  BY <1>3, TickDeliveryTrail
<1>4. CASE HandleL2Update
  BY <1>4, L2UpdateTrail
<1>5. CASE HandleOrder
  BY <1>5, OrderTrail
<1>6. CASE HandleOrderAck
  BY <1>6, OrderAckTrail
<1>7. CASE HandleOrderCancel
  BY <1>7, OrderCancelTrail
<1>8. CASE HandleOrderCancelAck
  BY <1>8, OrderCancelAckTrail
<1>9. CASE HandleOrderReport
  BY <1>9, OrderReportTrail
<1>10. CASE HandleFunding
  BY <1>10, FundingTrail
<1>11. CASE HandleTimer
  BY <1>11, TimerTrail
<1>12. CASE FinalFlush
  BY <1>12, FinalFlushTrail
<1>13. CASE Returned
  BY <1>13, StutterTrail DEF Returned
<1>14. CASE UNCHANGED vars
  BY <1>14, StutterTrail
<1>15. QED
  BY <1>1, <1>2, <1>3, <1>4, <1>5, <1>6, <1>7, <1>8, <1>9, <1>10, <1>11, <1>12, <1>13, <1>14
     DEF Next

\* The state run() returns in: no report is under way any more, so what the
\* strategy knows is the outlook, and no order waits for anything.
LEMMA HoldsStopsClean == EngineInv /\ ReportsInv => StopsClean
<1> SUFFICES ASSUME EngineInv, ReportsInv, queue = <<>>, report_buffer = <<>>, NEW id \in DOMAIN seen
             PROVE  /\ seen[id].reports > 0
                    /\ seen[id].sum = seen[id].filled
                    /\ IF id \in DOMAIN route
                       THEN LET o == exchanges[route[id]].orders[id]
                            IN  o.state \in {"Open", "PartiallyFilled"}
                                /\ seen[id].status = o.state /\ seen[id].filled = o.filled
                       ELSE IsTerminal(seen[id].status)
  BY DEF StopsClean, Done, Idle, Ids
<1>1. PICK a : a = Start(seen, id)
  OBVIOUS
<1>2. a.id = id /\ a.told = seen[id]
  BY <1>1 DEF Start
<1>3. Now.queue = queue /\ Now.route = route /\ Now.seen = seen
  BY DEF Now, Desk
<1>4. /\ seen[id] \in Told /\ SoundTold(seen[id])
      /\ Agrees(Outlook(seen, report_buffer, queue, id), route, exchanges)
  <2>1. TrailInv(Now, report_buffer, exchanges, now)
    BY DEF ReportsInv
  <2>2. QED
    BY <1>3, <2>1 DEF TrailInv
<1>5. Outlook(seen, report_buffer, queue, id) = a
  BY <1>1, NoReportsYet DEF Outlook
<1>6. Agrees(a, route, exchanges)
  BY <1>4, <1>5
<1>7. /\ seen[id].reports \in Nat /\ seen[id].sum = seen[id].filled
      /\ seen[id].reports = 0 => seen[id].status = "Created"
  BY <1>4 DEF Told, SoundTold
<1>8. ASSUME NEW E PROVE Times(queue, E) = 0
  <2>1. queue \in Seq(Event) /\ 1 .. Len(queue) = {}
    BY Standing
  <2>2. Times(queue, E) = 0 <=> \A i \in 1 .. Len(queue) : queue[i] \notin E
    BY <2>1, NoTimes
  <2>3. QED
    BY <2>1, <2>2
<1>9. CASE id \notin DOMAIN route
  <2>1. IsTerminal(seen[id].status)
    BY <1>2, <1>6, <1>9 DEF Agrees
  <2>2. seen[id].status # "Created"
    BY <2>1 DEF IsTerminal, Terminal
  <2>3. QED
    BY <1>7, <1>9, <2>1, <2>2
<1>10. CASE id \in DOMAIN route
  <2>1. id \in OrderId /\ Life(queue, route, exchanges, id) /\ route[id] \in Symbols
    BY <1>10, Standing
  <2>2. Placed(queue, route, exchanges, id)
    BY <1>8, <1>10, <2>1 DEF Life, Gone, Sent
  <2>3. PICK x : x = exchanges[route[id]]
    OBVIOUS
  <2>4. PICK o : o = x.orders[id]
    OBVIOUS
  <2>5. id \in Live(x) /\ Fits(queue, o.type, o.state, id)
    BY <2>1, <2>2, <2>3, <2>4 DEF Placed
  <2>6. /\ o.state # "PendingNew" /\ ~IsTerminal(o.state) /\ o.state # "PendingCancel"
    BY <1>8, <2>5 DEF Fits
  <2>7. seen[id].filled = o.filled /\ Reported(seen[id], o.state)
    BY <1>2, <1>6, <1>10, <2>3, <2>4, <2>5 DEF Agrees
  <2>8. seen[id].status = o.state /\ o.state # "Created"
    BY <2>6, <2>7 DEF Reported
  <2>9. seen[id].status \in OrderState
    BY <1>4 DEF Told
  <2>10. o.state \in {"Open", "PartiallyFilled"}
    BY <2>6, <2>8, <2>9 DEF OrderState, IsTerminal, Terminal
  <2>11. QED
    BY SMTT(60), <1>7, <1>10, <2>3, <2>4, <2>7, <2>8, <2>10
<1>11. QED
  BY <1>9, <1>10

(***************************************************************************)
(* The invariant of the trail of reports: put one after the other, what    *)
(* the strategy was told of an order, the reports in the buffer and those  *)
(* in the queue tell its fills one by one and end with what became of it.  *)
(***************************************************************************)
THEOREM ReportsHold == Spec => []ReportsInv
<1>1. EngineInv /\ ReportsInv /\ [Next]_vars => ReportsInv'
  BY StepTrail DEF TrailGoesOn
<1>2. QED
  BY <1>1, InitTrail, EngineHolds, PTL DEF Spec

(***************************************************************************)
(* Reports reach the strategy in the order they were made: what it knows   *)
(* an order to have filled never shrinks, and nothing comes after a final  *)
(* report.                                                                 *)
(***************************************************************************)
THEOREM ReportsComeInOrder == Spec => ReportsInOrder
<1>1. EngineInv /\ ReportsInv /\ [Next]_vars
        => [\A id \in Ids :
              /\ seen'[id].filled >= seen[id].filled
              /\ IsTerminal(seen[id].status) => seen'[id] = seen[id]]_vars
  BY StepTrail DEF TrailGoesOn, Learned, Ids
<1>2. QED
  BY <1>1, EngineHolds, ReportsHold, PTL DEF Spec, ReportsInOrder

(***************************************************************************)
(* When run() returns the strategy was told of every order and of every    *)
(* fill, and what it was told last is what the exchange has.               *)
(***************************************************************************)
THEOREM RunsStopClean == Spec => []StopsClean
BY EngineHolds, ReportsHold, HoldsStopsClean, PTL

-----------------------------------------------------------------------------
(***************************************************************************)
(* The refinement: what a step does to the exchange of one symbol is an    *)
(* action of ExchangeSimulator, or nothing.                                *)
(***************************************************************************)
ObservedStep == Observed!Next \/ exchanges'[Symbol] = exchanges[Symbol]

\* The methods of the observed simulator are those of the engine's exchanges.
LEMMA SameCalls ==
  ASSUME NEW x, NEW i, NEW o, NEW p, NEW q, NEW s, NEW f, NEW t
  PROVE  /\ Observed!ApplyL2Update(x, s, p, q) = ApplyL2Update(x, s, p, q)
         /\ Observed!SubmitOrder(x, i, o) = SubmitOrder(x, i, o)
         /\ Observed!SetState(x, i, s) = SetState(x, i, s)
         /\ Observed!ExecuteMarket(x, i, f) = MarketExecution(x, i, f).exchange
         /\ Observed!OnTrade(x, t) = OnTrade(x, t)
         /\ Observed!RemoveOrder(x, i) = RemoveOrder(x, i)
<1>1. Observed!ApplyL2Update(x, s, p, q) = ApplyL2Update(x, s, p, q)
  BY DEF Observed!ApplyL2Update, Observed!ApplyL2, Observed!BookSide, ApplyL2Update,
         ApplyL2, BookSide
<1>2. Observed!SubmitOrder(x, i, o) = SubmitOrder(x, i, o)
  BY DEF Observed!SubmitOrder, Observed!Reindex, Observed!BucketOf, Observed!Insert,
         Observed!RegisterOrder, Observed!LevelQty, Observed!BookSide, SubmitOrder, Reindex,
         BucketOf, Insert, RegisterOrder, LevelQty, BookSide
<1>3. Observed!SetState(x, i, s) = SetState(x, i, s)
  BY SMTT(60) DEF Observed!SetState, SetState
<1>4. Observed!ExecuteMarket(x, i, f) = MarketExecution(x, i, f).exchange
  <2>1. Observed!FillMarketImmediately(x, i, f) = FillMarketImmediately(x, i, f)
    BY DEF Observed!FillMarketImmediately, Observed!SetState,
           Observed!MarketPrice, Observed!MarketFillQty, Observed!BestOpposite, Observed!BestAsk,
           Observed!BestBid, Observed!AnyOf, Observed!Highest, Observed!Lowest, Observed!Quoted,
           Observed!NoPrice, Observed!MakerSide, Observed!Lesser, Observed!AfterExecution,
           Observed!AfterFill, FillMarketImmediately, SetState, MarketPrice, MarketFillQty,
           BestOpposite, BestAsk, BestBid, AnyOf, Highest, Lowest, Quoted, NoPrice,
           MakerSide, Lesser, AfterExecution, AfterFill
  <2>2. PICK y : y = FillMarketImmediately(x, i, f)
    OBVIOUS
  <2>3. Observed!ExecuteMarket(x, i, f)
          = IF StateOf(y, i) = "PartiallyFilled" THEN ForceCancelPartialFill(y, i) ELSE y
    BY <2>1, <2>2 DEF Observed!ExecuteMarket, Observed!StateOf, Observed!ForceCancelPartialFill,
                      Observed!SetState, StateOf, ForceCancelPartialFill, SetState
  <2>4. MarketExecution(x, i, f).exchange
          = IF StateOf(y, i) = "PartiallyFilled" THEN ForceCancelPartialFill(y, i) ELSE y
    BY <2>2 DEF MarketExecution
  <2>5. QED
    BY SMTT(60), <2>3, <2>4
<1>5. Observed!OnTrade(x, t) = OnTrade(x, t)
  BY DEF Observed!OnTrade, Observed!Live, Observed!Asked, Observed!MakerSide, Observed!InBucket,
         Observed!StateOf, Observed!Fillable, Observed!AfterAnswer, Observed!Answer,
         Observed!AfterFill, Observed!CheckFill, Observed!ConservativeFill,
         Observed!VolumeClockFill, Observed!VolumeClockQty, Observed!Lesser, OnTrade, Live,
         Asked, MakerSide, InBucket, StateOf, Fillable, AfterAnswer, Answer, AfterFill,
         CheckFill, ConservativeFill, VolumeClockFill, VolumeClockQty, Lesser
<1>6. Observed!RemoveOrder(x, i) = RemoveOrder(x, i)
  BY DEF Observed!RemoveOrder, Observed!BucketOf, Observed!Live, Observed!Reindex,
         Observed!InBucket, Observed!DropAt, Observed!PositionIn, Observed!Erase, RemoveOrder,
         BucketOf, Live, Reindex, InBucket, DropAt, PositionIn, Erase
<1>7. QED
  BY <1>1, <1>2, <1>3, <1>4, <1>5, <1>6

\* A call changes the exchange it is made to and no other one.
LEMMA ObservedElsewhere ==
  ASSUME EngineInv, NEW s \in Symbols, NEW y, exchanges' = [exchanges EXCEPT ![s] = y],
         s = Symbol => Observed!Next \/ y = exchanges[s]
  PROVE  ObservedStep
<1>1. DOMAIN exchanges = Symbols
  BY Standing DEF GoodMarket
<1>2. CASE s = Symbol
  BY <1>1, <1>2 DEF ObservedStep
<1>3. CASE s # Symbol
  BY <1>1, <1>3, SymbolAssumption DEF ObservedStep
<1>4. QED
  BY <1>2, <1>3

LEMMA InitObserved == Init => Observed!Init
<1> SUFFICES ASSUME Init PROVE Observed!Init
  OBVIOUS
<1>1. config.model \in QueueModel
  BY EngineAssumption DEF Init, Config
<1>2. exchanges[Symbol] = NewExchange(config.model)
  BY SymbolAssumption DEF Init
<1>3. Observed!NewExchange(config.model) = NewExchange(config.model)
  BY DEF Observed!NewExchange, Observed!EmptyBook, Observed!BookSide, Observed!BucketKey,
         Observed!Side, NewExchange, EmptyBook, BookSide, BucketKey, Side
<1>4. QED
  BY <1>1, <1>2, <1>3 DEF Observed!Init

LEMMA L2UpdateObserved ==
  ASSUME EngineInv, ReportsInv, HandleL2Update
  PROVE  ObservedStep
<1>1. PICK u : u = Head(queue)
  OBVIOUS
<1>2. PICK s : s = u.symbol
  OBVIOUS
<1>3. PICK x : x = exchanges[s]
  OBVIOUS
<1>4. PICK y : y = ApplyL2Update(x, u.side, u.price, u.qty)
  OBVIOUS
<1>5. PopAs("L2Update") /\ exchanges' = [exchanges EXCEPT ![s] = y]
  BY <1>1, <1>2, <1>3, <1>4 DEF HandleL2Update
<1>6. u \in Event /\ u.kind = "L2Update"
  BY <1>1, <1>5, Popped
<1>7. s \in Symbols /\ u.price \in Prices /\ u.side \in Side
  BY <1>2, <1>6 DEF Event, PreloadEvent, TickEvents, Deliveries, OrderEvents, IdEvents,
                    ReportEvents, TimerEvents
<1>8. u.qty \in PreloadedQtys
  BY <1>1, <1>5, <1>6, PoppedParts DEF Stray
<1>9. GoodExchange(x) /\ DOMAIN exchanges = Symbols
  BY <1>3, <1>7, Standing DEF GoodMarket
<1>10. CASE u.side = "None"
  <2>1. y = [x EXCEPT !.book = x.book]
    BY <1>4, <1>10 DEF ApplyL2Update, ApplyL2, BookSide
  <2>2. y = x
    BY <1>9, <2>1, Fields DEF GoodExchange
  <2>3. QED
    BY <1>3, <1>5, <1>7, <2>2, ObservedElsewhere
<1>11. CASE u.side # "None"
  <2>1. u.side \in Observed!BookSide
    BY <1>7, <1>11 DEF Side, Observed!BookSide
  <2>2. ASSUME s = Symbol PROVE Observed!Next
    <3>1. exchanges'[Symbol] = y
      BY <1>5, <1>7, <1>9, <2>2
    <3>2. Observed!OnL2Update(u.side, u.price, u.qty)
      BY <1>3, <1>4, <2>2, <3>1, SameCalls DEF Observed!OnL2Update
    <3>3. QED
      BY <1>7, <1>8, <2>1, <3>2 DEF Observed!Next
  <2>3. QED
    BY <1>5, <1>7, <2>2, ObservedElsewhere
<1>12. QED
  BY <1>10, <1>11

\* An order of the strategy has one of the ids it can give out.
LEMMA RoutedId ==
  ASSUME EngineInv, ReportsInv, NEW id \in DOMAIN route
  PROVE  id \in 1 .. MaxOrders /\ route[id] \in Symbols
<1>1. /\ DOMAIN route \subseteq 1 .. next_order_id - 1 /\ next_order_id \in Nat
      /\ next_order_id <= MaxOrders + 1 /\ MaxOrders \in Nat
  <2>1. DOMAIN route \subseteq 1 .. next_order_id - 1 /\ next_order_id \in Nat
    BY Standing DEF EngineInv, DeskInv, Now, Desk, OrderId
  <2>2. next_order_id <= MaxOrders + 1 /\ MaxOrders \in Nat
    BY EngineAssumption DEF ReportsInv
  <2>3. QED
    BY <2>1, <2>2
<1>2. id \in 1 .. next_order_id - 1
  BY <1>1
<1>3. id \in 1 .. MaxOrders
  BY SMT, <1>1, <1>2
<1>4. QED
  BY <1>3, Standing

LEMMA OrderObserved ==
  ASSUME EngineInv, ReportsInv, HandleOrder
  PROVE  ObservedStep
<1>1. PICK e : e = Head(queue)
  OBVIOUS
<1>2. PICK o : o = e.order
  OBVIOUS
<1>3. PICK s : s = o.symbol
  OBVIOUS
<1>4. PICK x : x = exchanges[s]
  OBVIOUS
<1>5. PICK y : y = SubmitOrder(x, e.id, o)
  OBVIOUS
<1>6. PopAs("Order") /\ exchanges' = [exchanges EXCEPT ![s] = y]
  BY <1>1, <1>2, <1>3, <1>4, <1>5 DEF HandleOrder
<1>7. /\ e \in OrderEvents /\ o \in EngineOrder /\ s \in Symbols
      /\ e.id \in OrderId /\ e.id \in DOMAIN route /\ e.id \notin Live(x)
  BY <1>1, <1>2, <1>3, <1>4, <1>6, OrderArrives
<1>8. e \in Event /\ e.kind = "Order"
  BY <1>7 DEF Event, OrderEvents
<1>9. o \in StrategyOrders
  BY <1>1, <1>2, <1>6, <1>8, PoppedParts DEF Stray
<1>10. e.id \in 1 .. MaxOrders
  BY <1>7, RoutedId
<1>11. PICK p : p = [side |-> o.side, type |-> o.type, price |-> o.price, qty |-> o.qty]
  OBVIOUS
<1>12. p \in Observed!Orders
  BY <1>7, <1>9, <1>11 DEF EngineOrder, Observed!Orders, Observed!OrderType, OrderType
<1>13. SubmitOrder(x, e.id, p) = SubmitOrder(x, e.id, o)
  BY <1>11 DEF SubmitOrder, BucketOf
<1>14. DOMAIN exchanges = Symbols
  BY Standing DEF GoodMarket
<1>15. ASSUME s = Symbol PROVE Observed!Next
  <2>1. exchanges'[Symbol] = y
    BY <1>6, <1>7, <1>14, <1>15
  <2>2. Observed!OnOrder(e.id, p)
    BY <1>4, <1>5, <1>7, <1>13, <1>15, <2>1, SameCalls DEF Observed!OnOrder, Observed!Live, Live
  <2>3. QED
    BY <1>10, <1>12, <2>2 DEF Observed!Next
<1>16. QED
  BY <1>6, <1>7, <1>15, ObservedElsewhere

LEMMA OrderAckObserved ==
  ASSUME EngineInv, ReportsInv, HandleOrderAck
  PROVE  ObservedStep
<1>1. PICK id : id = Head(queue).id
  OBVIOUS
<1>2. /\ PopAs("OrderAck")
      /\ IF id \notin DOMAIN route THEN ReturnEarly
         ELSE IF IsMarket(exchanges[route[id]], id) THEN AckMarketOrder(id, route[id])
         ELSE AckLimitOrder(id, route[id])
  BY <1>1 DEF HandleOrderAck
<1>3. CASE id \notin DOMAIN route
  BY <1>2, <1>3 DEF ReturnEarly, books, ObservedStep
<1>4. CASE id \in DOMAIN route
  <2>1. id \in 1 .. MaxOrders /\ route[id] \in Symbols
    BY <1>4, RoutedId
  <2>2. PICK s \in Symbols : s = route[id]
    BY <2>1
  <2>3. PICK x : x = exchanges[s]
    OBVIOUS
  <2>4. DOMAIN exchanges = Symbols /\ truth[s] \in Prices \cup {NoPrice} /\ GoodExchange(x)
    BY <2>3, Standing DEF BooksInv, GoodMarket
  <2>5. CASE IsMarket(x, id)
    <3>1. PICK y : y = MarketExecution(x, id, truth[s]).exchange
      OBVIOUS
    <3>2. exchanges' = [exchanges EXCEPT ![s] = y]
      BY <1>2, <1>4, <2>2, <2>3, <2>5, <3>1 DEF AckMarketOrder
    <3>3. id \in Live(x) /\ x.orders[id].type = "Market" /\ StateOf(x, id) = "PendingNew"
      <4>1. /\ Head(queue) \in Event /\ Head(queue).kind = "OrderAck"
            /\ \A E : Times(queue, E) = Times(Tail(queue), E) + (IF Head(queue) \in E THEN 1 ELSE 0)
            /\ \A E : Times(Tail(queue), E) \in Nat
        BY <1>2, Popped
      <4>2. Head(queue) \in IdEvents
        BY <4>1 DEF Event, PreloadEvent, TickEvents, Deliveries, OrderEvents, ReportEvents,
                    TimerEvents
      <4>3. Head(queue) \in Acks(id) /\ id \in OrderId
        BY <1>1, <4>1, <4>2 DEF Acks, IdEvents
      <4>4. Times(queue, Acks(id)) >= 1
        BY <4>1, <4>3
      <4>5. Placed(queue, route, exchanges, id)
        BY <4>3, <4>4, AckMeansPlaced
      <4>6. QED
        BY <2>2, <2>3, <2>5, <4>4, <4>5 DEF Placed, Fits, StateOf, IsMarket
    <3>4. ASSUME s = Symbol PROVE Observed!Next
      <4>1. exchanges'[Symbol] = y
        BY <2>4, <3>2, <3>4
      <4>2. Observed!OnMarketAck(id, truth[s])
        BY <2>3, <3>1, <3>3, <3>4, <4>1, SameCalls
           DEF Observed!OnMarketAck, Observed!CanAckNew, Observed!Live, Observed!StateOf,
               Live, StateOf
      <4>3. truth[s] \in Observed!Fallbacks
        BY <2>4 DEF Observed!Fallbacks, Observed!NoPrice, NoPrice
      <4>4. QED
        BY <2>1, <4>2, <4>3 DEF Observed!Next
    <3>5. QED
      BY <3>2, <3>4, ObservedElsewhere
  <2>6. CASE ~IsMarket(x, id) /\ ~CanAckNew(x, id)
    BY <1>2, <1>4, <2>2, <2>3, <2>6 DEF AckLimitOrder, ObservedStep
  <2>7. CASE ~IsMarket(x, id) /\ CanAckNew(x, id)
    <3>1. PICK y : y = AckNew(x, id)
      OBVIOUS
    <3>2. exchanges' = [exchanges EXCEPT ![s] = y]
      BY <1>2, <1>4, <2>2, <2>3, <2>7, <3>1 DEF AckLimitOrder
    <3>3. id \in Live(x) /\ x.orders[id].type = "Limit" /\ StateOf(x, id) = "PendingNew"
      <4>1. id \in Live(x) /\ StateOf(x, id) = "PendingNew" /\ x.orders[id].type # "Market"
        BY <2>7 DEF IsMarket, CanAckNew
      <4>2. x.orders[id].type \in OrderType
        BY <2>4, <4>1, Fields DEF GoodExchange, LiveOrder
      <4>3. QED
        BY <4>1, <4>2 DEF OrderType
    <3>4. ASSUME s = Symbol PROVE Observed!Next
      <4>1. exchanges'[Symbol] = y
        BY <2>4, <3>2, <3>4
      <4>2. Observed!OnLimitAck(id)
        BY <2>3, <3>1, <3>3, <3>4, <4>1, SameCalls
           DEF Observed!OnLimitAck, Observed!CanAckNew, Observed!Live, Observed!StateOf,
               Observed!AckNew, AckNew, Live, StateOf
      <4>3. QED
        BY <2>1, <4>2 DEF Observed!Next
    <3>5. QED
      BY <3>2, <3>4, ObservedElsewhere
  <2>8. QED
    BY <2>5, <2>6, <2>7
<1>5. QED
  BY <1>3, <1>4

LEMMA OrderCancelObserved ==
  ASSUME EngineInv, ReportsInv, HandleOrderCancel
  PROVE  ObservedStep
<1>1. PICK id : id = Head(queue).id
  OBVIOUS
<1>2. \/ exchanges' = exchanges
      \/ /\ id \in DOMAIN route /\ CanCancelOrder(exchanges[route[id]], id)
         /\ exchanges' = [exchanges EXCEPT ![route[id]] = CancelOrder(exchanges[route[id]], id)]
  BY <1>1 DEF HandleOrderCancel
<1>3. CASE exchanges' = exchanges
  BY <1>3 DEF ObservedStep
<1>4. CASE /\ id \in DOMAIN route /\ CanCancelOrder(exchanges[route[id]], id)
           /\ exchanges' = [exchanges EXCEPT ![route[id]] = CancelOrder(exchanges[route[id]], id)]
  <2>1. id \in 1 .. MaxOrders /\ route[id] \in Symbols
    BY <1>4, RoutedId
  <2>2. PICK s \in Symbols : s = route[id]
    BY <2>1
  <2>3. PICK y : y = CancelOrder(exchanges[s], id)
    OBVIOUS
  <2>4. exchanges' = [exchanges EXCEPT ![s] = y] /\ DOMAIN exchanges = Symbols
    BY <1>4, <2>2, <2>3, Standing DEF GoodMarket
  <2>5. ASSUME s = Symbol PROVE Observed!Next
    <3>1. exchanges'[Symbol] = y
      BY <2>4, <2>5
    <3>2. Observed!CanCancelOrder(exchanges[Symbol], id)
      BY <1>4, <2>2, <2>5
         DEF Observed!CanCancelOrder, Observed!Live, Observed!StateOf, Observed!CanTransitionTo,
             Observed!LegalTransition, CanCancelOrder, Live, StateOf, CanTransitionTo,
             LegalTransition
    <3>3. exchanges'[Symbol] = Observed!CancelOrder(exchanges[Symbol], id)
      BY <2>3, <2>5, <3>1, SameCalls DEF Observed!CancelOrder, CancelOrder
    <3>4. QED
      BY <2>1, <3>2, <3>3 DEF Observed!OnCancel, Observed!Next
  <2>6. QED
    BY <2>4, <2>5, ObservedElsewhere
<1>5. QED
  BY <1>2, <1>3, <1>4

LEMMA OrderCancelAckObserved ==
  ASSUME EngineInv, ReportsInv, HandleOrderCancelAck
  PROVE  ObservedStep
<1>1. PICK id : id = Head(queue).id
  OBVIOUS
<1>2. \/ exchanges' = exchanges
      \/ /\ id \in DOMAIN route /\ CanAckCancel(exchanges[route[id]], id)
         /\ exchanges' = [exchanges EXCEPT ![route[id]] = AckCancel(exchanges[route[id]], id)]
  BY <1>1 DEF HandleOrderCancelAck
<1>3. CASE exchanges' = exchanges
  BY <1>3 DEF ObservedStep
<1>4. CASE /\ id \in DOMAIN route /\ CanAckCancel(exchanges[route[id]], id)
           /\ exchanges' = [exchanges EXCEPT ![route[id]] = AckCancel(exchanges[route[id]], id)]
  <2>1. id \in 1 .. MaxOrders /\ route[id] \in Symbols
    BY <1>4, RoutedId
  <2>2. PICK s \in Symbols : s = route[id]
    BY <2>1
  <2>3. PICK y : y = AckCancel(exchanges[s], id)
    OBVIOUS
  <2>4. exchanges' = [exchanges EXCEPT ![s] = y] /\ DOMAIN exchanges = Symbols
    BY <1>4, <2>2, <2>3, Standing DEF GoodMarket
  <2>5. ASSUME s = Symbol PROVE Observed!Next
    <3>1. exchanges'[Symbol] = y
      BY <2>4, <2>5
    <3>2. Observed!CanAckCancel(exchanges[Symbol], id)
      BY <1>4, <2>2, <2>5
         DEF Observed!CanAckCancel, Observed!Live, Observed!StateOf, CanAckCancel, Live, StateOf
    <3>3. exchanges'[Symbol] = Observed!AckCancel(exchanges[Symbol], id)
      BY <2>3, <2>5, <3>1, SameCalls DEF Observed!AckCancel, AckCancel
    <3>4. QED
      BY <2>1, <3>2, <3>3 DEF Observed!OnCancelAck, Observed!Next
  <2>6. QED
    BY <2>4, <2>5, ObservedElsewhere
<1>5. QED
  BY <1>2, <1>3, <1>4

LEMMA TickObserved ==
  ASSUME EngineInv, ReportsInv, HandleTick
  PROVE  ObservedStep
<1>1. PICK tick : tick = Head(queue).tick
  OBVIOUS
<1>2. PICK s : s = tick.symbol
  OBVIOUS
<1>3. PICK x : x = exchanges[s]
  OBVIOUS
<1>4. PICK y : y = OnTrade(x, tick)
  BY SMTT(60)
<1>5. PopAs("Tick") /\ exchanges' = [exchanges EXCEPT ![s] = y]
  BY <1>1, <1>2, <1>3, <1>4 DEF HandleTick
<1>6. Head(queue) \in Event /\ Head(queue).kind = "Tick"
  BY <1>5, Popped
<1>7. tick \in TickRecord
  BY <1>1, <1>6 DEF Event, PreloadEvent, TickEvents, Deliveries, OrderEvents, IdEvents,
                    ReportEvents, TimerEvents
<1>8. s \in Symbols /\ tick.side \in Side /\ tick.price \in Prices
  BY <1>2, <1>7 DEF TickRecord
<1>9. tick.qty \in TradedQtys
  BY <1>1, <1>5, <1>6, PoppedParts DEF Stray
<1>10. PICK t : t = [side |-> tick.side, price |-> tick.price, qty |-> tick.qty]
  OBVIOUS
<1>11. t \in Observed!Trades
  BY <1>8, <1>9, <1>10 DEF Observed!Trades, Observed!Side, Side, TradedQtys
<1>12. OnTrade(x, t) = OnTrade(x, tick)
  BY <1>10 DEF OnTrade, Asked, Answer
<1>13. DOMAIN exchanges = Symbols
  BY Standing DEF GoodMarket
<1>14. ASSUME s = Symbol PROVE Observed!Next
  <2>1. exchanges'[Symbol] = y
    BY <1>5, <1>8, <1>13, <1>14
  <2>2. Observed!OnTick(t)
    BY <1>3, <1>4, <1>12, <1>14, <2>1, SameCalls DEF Observed!OnTick
  <2>3. QED
    BY <1>11, <2>2 DEF Observed!Next
<1>15. QED
  BY <1>5, <1>8, <1>14, ObservedElsewhere

LEMMA OrderReportObserved ==
  ASSUME EngineInv, ReportsInv, HandleOrderReport
  PROVE  ObservedStep
<1>1. PICK r : r = Head(queue).report
  OBVIOUS
<1>2. /\ PopAs("OrderReport")
      /\ exchanges' = IF Ends(r)
                      THEN [exchanges EXCEPT ![route[r.id]] = RemoveOrder(@, r.id)]
                      ELSE exchanges
  BY <1>1 DEF HandleOrderReport
<1>3. Head(queue) \in Event /\ Head(queue).kind = "OrderReport"
  BY <1>2, Popped
<1>4. Head(queue) \in ReportEvents
  BY <1>3 DEF Event, PreloadEvent, TickEvents, Deliveries, OrderEvents, IdEvents, TimerEvents
<1>5. r \in ReportRecord
  BY <1>1, <1>4 DEF ReportEvents
<1>6. CASE ~Ends(r)
  BY <1>2, <1>6 DEF ObservedStep
<1>7. CASE Ends(r)
  <2>1. PICK id : id = r.id
    OBVIOUS
  <2>2. id \in DOMAIN route /\ IsTerminal(r.status) /\ id \in OrderId
    BY <1>5, <1>7, <2>1 DEF Ends, ReportRecord
  <2>3. id \in 1 .. MaxOrders /\ route[id] \in Symbols /\ id \in Live(exchanges[route[id]])
    BY <1>1, <1>2, <1>5, <1>7, <2>1, <2>2, RoutedId, EndedIsLive
  <2>4. PICK s \in Symbols : s = route[id]
    BY <2>3
  <2>5. PICK x : x = exchanges[s]
    OBVIOUS
  <2>6. PICK y : y = RemoveOrder(x, id)
    OBVIOUS
  <2>7. exchanges' = [exchanges EXCEPT ![s] = y] /\ DOMAIN exchanges = Symbols
    BY <1>2, <1>7, <2>1, <2>4, <2>5, <2>6, Standing DEF GoodMarket
  <2>8. IsTerminal(StateOf(x, id))
    <3>1. Placed(queue, route, exchanges, id)
      BY <2>3, <2>4, LiveIsPlaced
    <3>2. Head(queue) \in Finals(id)
      BY <1>1, <1>4, <2>1, <2>2 DEF Finals
    <3>3. Times(queue, Finals(id)) >= 1
      BY <1>2, <3>2, Popped
    <3>4. QED
      BY <2>4, <2>5, <3>1, <3>3 DEF Placed, Fits, StateOf
  <2>9. ASSUME s = Symbol PROVE Observed!Next
    <3>1. exchanges'[Symbol] = Observed!RemoveOrder(exchanges[Symbol], id)
      BY <2>5, <2>6, <2>7, <2>9, SameCalls
    <3>2. Observed!IsTerminal(Observed!StateOf(exchanges[Symbol], id))
      BY <2>5, <2>8, <2>9
         DEF Observed!IsTerminal, Observed!Terminal, Observed!StateOf, IsTerminal, Terminal, StateOf
    <3>3. id \in Observed!Live(exchanges[Symbol])
      BY <2>3, <2>4, <2>9 DEF Observed!Live, Live
    <3>4. QED
      BY <2>3, <3>1, <3>2, <3>3 DEF Observed!OnTerminalReport, Observed!Next
  <2>10. QED
    BY <2>7, <2>9, ObservedElsewhere
<1>8. QED
  BY <1>6, <1>7

LEMMA StepObserved == EngineInv /\ ReportsInv /\ [Next]_vars => ObservedStep
<1> SUFFICES ASSUME EngineInv, ReportsInv, [Next]_vars PROVE ObservedStep
  OBVIOUS
<1>1. CASE Ingest
  BY <1>1 DEF Ingest, books, ObservedStep
<1>2. CASE HandleTickDelivery
  BY <1>2 DEF HandleTickDelivery, books, ObservedStep
<1>3. CASE HandleFunding
  BY <1>3 DEF HandleFunding, ObservedStep
<1>4. CASE HandleTimer
  BY <1>4 DEF HandleTimer, books, ObservedStep
<1>5. CASE FinalFlush
  BY <1>5 DEF FinalFlush, books, ObservedStep
<1>6. CASE UNCHANGED vars
  BY <1>6 DEF vars, books, ObservedStep
<1>7. QED
  BY <1>1, <1>2, <1>3, <1>4, <1>5, <1>6, TickObserved, L2UpdateObserved, OrderObserved,
     OrderAckObserved, OrderCancelObserved, OrderCancelAckObserved, OrderReportObserved
     DEF Next, Returned

(***************************************************************************)
(* The exchange of any symbol implements ExchangeSimulator, whatever the   *)
(* strategy, the market and the latencies do: the engine respects the      *)
(* contract of each method it calls, and what ExchangeProofs.tla shows of  *)
(* the component holds of every exchange of the engine.                    *)
(***************************************************************************)
THEOREM EngineImplementsExchange == Spec => ImplementsExchange
<1>1. EngineInv /\ ReportsInv /\ [Next]_vars => [Observed!Next]_(Observed!vars)
  BY StepObserved DEF ObservedStep, Observed!vars
<1>2. QED
  BY <1>1, InitObserved, EngineHolds, ReportsHold, PTL DEF Spec, ImplementsExchange, Observed!Spec

=============================================================================
