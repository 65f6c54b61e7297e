--------------------------- MODULE ExchangeLemmas ---------------------------
(***************************************************************************)
(* What each method of the exchange simulator preserves, for every book,   *)
(* set of orders and trade: one lemma per operator of Exchange, about one  *)
(* record x, so that the component's own proof and the engine's both use   *)
(* them; and what a loop keeps of a sequence.                              *)
(***************************************************************************)
EXTENDS Exchange, SequenceTheorems, TLAPS

\* What is true of every live order of a simulator with queue model m.
GoodOrder(m, o) ==
  /\ Conserved(o)
  /\ m = "VolumeClock" => Claimed(o)
  /\ m = "Conservative" => LastInQueue(o)

GoodOrders(x) == \A id \in Live(x) : GoodOrder(x.model, x.orders[id])

GoodExchange(x) == WellTyped(x) /\ Indexed(x) /\ GoodOrders(x)

-----------------------------------------------------------------------------
(***************************************************************************)
(* check_fill never fills more than remains, and keeps its counters        *)
(* natural numbers.                                                        *)
(***************************************************************************)
LEMMA CheckFillBounds ==
  ASSUME NEW m \in QueueModel, NEW q \in QueueState,
         NEW remaining \in Nat, NEW volume \in Nat
  PROVE  /\ CheckFill(m, q, remaining, volume).fill \in Nat
         /\ CheckFill(m, q, remaining, volume).fill <= remaining
         /\ CheckFill(m, q, remaining, volume).queue \in QueueState
<1>1. q = [ahead |-> q.ahead, cum |-> q.cum, claimed |-> q.claimed]
      /\ q.ahead \in Nat /\ q.cum \in Nat /\ q.claimed \in Nat
  BY DEF QueueState
<1>2. /\ ConservativeFill(q, remaining, volume).fill \in Nat
      /\ ConservativeFill(q, remaining, volume).fill <= remaining
      /\ ConservativeFill(q, remaining, volume).queue \in QueueState
  BY <1>1 DEF ConservativeFill, Lesser, QueueState
<1>3. /\ VolumeClockFill(q, remaining, volume).fill \in Nat
      /\ VolumeClockFill(q, remaining, volume).fill <= remaining
      /\ VolumeClockFill(q, remaining, volume).queue \in QueueState
  <2>1. /\ VolumeClockQty(q, remaining, volume) \in Nat
        /\ VolumeClockQty(q, remaining, volume) <= remaining
    BY <1>1 DEF VolumeClockQty, Lesser
  <2>2. QED
    BY <1>1, <2>1 DEF VolumeClockFill, QueueState
<1>4. QED
  BY <1>2, <1>3 DEF CheckFill

(***************************************************************************)
(* What on_trade does to one order keeps the order good: the two queue     *)
(* models' bookkeeping is right for any split of the volume into trades.   *)
(***************************************************************************)
LEMMA AnswerKeepsGood ==
  ASSUME NEW m \in QueueModel, NEW o \in LiveOrder, NEW volume \in Nat,
         o.remaining > 0, o.state \in Fillable, GoodOrder(m, o)
  PROVE  LET n == AfterAnswer(o, CheckFill(m, o.queue, o.remaining, volume))
         IN  /\ n \in LiveOrder
             /\ GoodOrder(m, n)
             /\ BucketOf(n) = BucketOf(o)
<1> DEFINE a == CheckFill(m, o.queue, o.remaining, volume)
           n == AfterAnswer(o, a)
<1>1. /\ o.queue \in QueueState
      /\ o.remaining \in Nat
      /\ o.filled \in Nat
      /\ o.qty \in Nat \ {0}
  BY DEF LiveOrder
<1>2. /\ a.fill \in Nat
      /\ a.fill <= o.remaining
      /\ a.queue \in QueueState
  BY <1>1, CheckFillBounds
<1>3. /\ n.side = o.side
      /\ n.type = o.type
      /\ n.price = o.price
      /\ n.qty = o.qty
      /\ n.queue = a.queue
      /\ n.filled = o.filled + a.fill
      /\ n.remaining = o.remaining - a.fill
      /\ n.state = IF a.fill = 0 THEN o.state
                   ELSE IF o.remaining = a.fill THEN "Filled"
                   ELSE "PartiallyFilled"
  BY <1>1, <1>2 DEF AfterAnswer, AfterFill, LiveOrder
<1>4. n \in LiveOrder
  <2>1. n.state \in OrderState
    BY <1>3 DEF LiveOrder, OrderState
  <2>2. n.filled \in Nat /\ n.remaining \in Nat
    BY <1>1, <1>2, <1>3
  <2>3. n = [side |-> n.side, type |-> n.type, price |-> n.price,
             qty |-> n.qty, state |-> n.state, filled |-> n.filled,
             remaining |-> n.remaining, queue |-> n.queue]
    BY DEF AfterAnswer, LiveOrder
  <2>4. QED
    BY <1>2, <1>3, <2>1, <2>2, <2>3 DEF LiveOrder
<1>5. Conserved(n)
  BY <1>1, <1>2, <1>3 DEF GoodOrder, Conserved, Fillable
<1>6. CASE m = "VolumeClock"
  <2>1. Claimed(n)
    <3> SUFFICES ASSUME o.type = "Limit"
                 PROVE  /\ n.queue.claimed = n.filled
                        /\ n.filled = Lesser(n.qty, Past(n.queue))
      BY <1>3 DEF Claimed
    <3>1. o.queue.claimed = o.filled /\ o.filled = Lesser(o.qty, Past(o.queue))
      BY <1>6 DEF GoodOrder, Claimed
    <3>2. o.filled + o.remaining = o.qty
      BY DEF GoodOrder, Conserved
    <3>3. o.filled = Past(o.queue)
      BY <1>1, <3>1, <3>2 DEF Lesser, Past, QueueState
    <3>4. a = IF volume = 0 THEN [fill |-> 0, queue |-> o.queue]
              ELSE VolumeClockFill(o.queue, o.remaining, volume)
      BY <1>6 DEF CheckFill
    <3>5. CASE volume = 0
      BY <1>3, <3>1, <3>4, <3>5, <1>1
    <3>6. CASE volume > 0
      <4> DEFINE past == o.queue.cum + volume - o.queue.ahead
                 qty  == VolumeClockQty(o.queue, o.remaining, volume)
      <4>1. a = VolumeClockFill(o.queue, o.remaining, volume)
        BY <3>4, <3>6
      <4>2. /\ a.fill = qty
            /\ a.queue.cum = o.queue.cum + volume
            /\ a.queue.ahead = o.queue.ahead
            /\ a.queue.claimed = o.queue.claimed + qty
        BY <4>1, <1>1 DEF VolumeClockFill, QueueState
      <4>3. /\ o.queue.cum \in Nat
            /\ o.queue.ahead \in Nat
            /\ o.queue.claimed \in Nat
        BY <1>1 DEF QueueState
      <4>4. qty = IF past <= o.filled THEN 0 ELSE Lesser(past - o.filled, o.remaining)
        BY <3>1 DEF VolumeClockQty
      <4>5. Past(n.queue) = IF past > 0 THEN past ELSE 0
        BY <1>3, <4>2, <4>3 DEF Past
      <4>6. o.filled = IF o.queue.cum > o.queue.ahead
                       THEN o.queue.cum - o.queue.ahead ELSE 0
        BY <3>3 DEF Past
      <4>7. n.filled = Lesser(n.qty, Past(n.queue))
        BY <1>1, <1>3, <3>2, <3>6, <4>2, <4>3, <4>4, <4>5, <4>6 DEF Lesser
      <4>8. QED
        BY <1>1, <1>3, <3>1, <4>2, <4>7
    <3>7. QED
      BY <3>5, <3>6
  <2>2. QED
    BY <1>4, <1>5, <1>6, <1>3, <2>1 DEF GoodOrder, BucketOf
<1>7. CASE m = "Conservative"
  <2>1. LastInQueue(n)
    BY <1>1, <1>2, <1>3, <1>7
       DEF GoodOrder, LastInQueue, CheckFill, ConservativeFill, Lesser,
           QueueState
  <2>2. QED
    BY <1>4, <1>5, <1>7, <1>3, <2>1 DEF GoodOrder, BucketOf
<1>8. QED
  BY <1>6, <1>7 DEF QueueModel

-----------------------------------------------------------------------------
\* The fields of a well-typed simulator, one by one.
LEMMA Fields ==
  ASSUME NEW x, WellTyped(x)
  PROVE  /\ x.model \in QueueModel
         /\ x.book \in Book
         /\ x.orders \in [Live(x) -> LiveOrder]
         /\ x.buckets \in [BucketKey -> Seq(OrderId)]
         /\ x = [model |-> x.model, book |-> x.book, orders |-> x.orders,
                 buckets |-> x.buckets]
BY DEF WellTyped

\* A simulator put together from good parts is good.
LEMMA GoodParts ==
  ASSUME NEW m \in QueueModel, NEW b \in Book,
         NEW D \in SUBSET OrderId, NEW orders \in [D -> LiveOrder],
         NEW buckets \in [BucketKey -> Seq(OrderId)],
         Indexed([model |-> m, book |-> b, orders |-> orders, buckets |-> buckets]),
         \A id \in D : GoodOrder(m, orders[id])
  PROVE  GoodExchange([model |-> m, book |-> b, orders |-> orders, buckets |-> buckets])
<1> DEFINE x == [model |-> m, book |-> b, orders |-> orders, buckets |-> buckets]
<1>1. Live(x) = D
  BY DEF Live
<1>2. WellTyped(x)
  BY <1>1 DEF WellTyped
<1>3. GoodOrders(x)
  BY <1>1 DEF GoodOrders
<1>4. QED
  BY <1>2, <1>3 DEF GoodExchange

(***************************************************************************)
(* Replacing orders by good ones with the same ids and keys keeps the      *)
(* simulator good: ack_new, cancel_order, ack_cancel, the market fill and  *)
(* on_trade are all of this kind.                                          *)
(***************************************************************************)
LEMMA ReplaceOrders ==
  ASSUME NEW x, GoodExchange(x),
         NEW orders \in [Live(x) -> LiveOrder],
         \A id \in Live(x) : /\ GoodOrder(x.model, orders[id])
                             /\ BucketOf(orders[id]) = BucketOf(x.orders[id])
  PROVE  GoodExchange([x EXCEPT !.orders = orders])
<1> DEFINE y == [model |-> x.model, book |-> x.book, orders |-> orders,
                 buckets |-> x.buckets]
<1>1. WellTyped(x) /\ Indexed(x)
  BY DEF GoodExchange
<1>2. [x EXCEPT !.orders = orders] = y
  BY <1>1, Fields
<1>3. Live(y) = Live(x) /\ Live(x) \in SUBSET OrderId
  BY <1>1 DEF Live, WellTyped
<1>4. Indexed(y)
  BY <1>1, <1>3 DEF Indexed, InBucket
<1>5. GoodExchange(y)
  BY <1>1, <1>3, <1>4, Fields, GoodParts
<1>6. QED
  BY <1>2, <1>5

\* The case of one order.
LEMMA ReplaceOrder ==
  ASSUME NEW x, GoodExchange(x), NEW id \in Live(x), NEW o \in LiveOrder,
         GoodOrder(x.model, o), BucketOf(o) = BucketOf(x.orders[id])
  PROVE  GoodExchange([x EXCEPT !.orders[id] = o])
<1> DEFINE orders == [x.orders EXCEPT ![id] = o]
<1>1. WellTyped(x) /\ GoodOrders(x)
  BY DEF GoodExchange
<1>2. x.orders \in [Live(x) -> LiveOrder]
  BY <1>1, Fields
<1>3. orders \in [Live(x) -> LiveOrder]
  BY <1>2
<1>4. \A i \in Live(x) : /\ GoodOrder(x.model, orders[i])
                         /\ BucketOf(orders[i]) = BucketOf(x.orders[i])
  BY <1>1, <1>2 DEF GoodOrders
<1>5. [x EXCEPT !.orders[id] = o] = [x EXCEPT !.orders = orders]
  BY <1>1, Fields
<1>6. QED
  BY <1>3, <1>4, <1>5, ReplaceOrders

\* The case of one order's state, to or from anything but Filled.
LEMMA SetStateKeepsGood ==
  ASSUME NEW x, GoodExchange(x), NEW id \in Live(x),
         NEW s \in OrderState, s # "Filled", StateOf(x, id) # "Filled"
  PROVE  GoodExchange(SetState(x, id, s))
<1> DEFINE o == x.orders[id]
           n == [o EXCEPT !.state = s]
<1>1. o \in LiveOrder /\ GoodOrder(x.model, o)
  BY Fields DEF GoodExchange, GoodOrders
<1>2. n \in LiveOrder
  BY <1>1 DEF LiveOrder
<1>3. /\ n.qty = o.qty
      /\ n.filled = o.filled
      /\ n.remaining = o.remaining
      /\ n.queue = o.queue
      /\ n.type = o.type
      /\ n.state = s
      /\ BucketOf(n) = BucketOf(o)
  BY <1>1 DEF LiveOrder, BucketOf
<1>4. GoodOrder(x.model, n)
  BY <1>1, <1>3 DEF GoodOrder, Conserved, Claimed, LastInQueue, StateOf
<1>5. SetState(x, id, s) = [x EXCEPT !.orders[id] = n]
  BY DEF SetState
<1>6. QED
  BY <1>2, <1>3, <1>4, <1>5, ReplaceOrder

-----------------------------------------------------------------------------
\* ExchangeSimulator::new.
LEMMA NewExchangeGood ==
  ASSUME NEW m \in QueueModel
  PROVE  GoodExchange(NewExchange(m))
<1> DEFINE buckets == [k \in BucketKey |-> <<>>]
<1>1. EmptyBook \in Book
  BY DEF EmptyBook, Book
<1>2. <<>> \in [{} -> LiveOrder] /\ {} \in SUBSET OrderId
  OBVIOUS
<1>3. buckets \in [BucketKey -> Seq(OrderId)]
  OBVIOUS
<1>4. Indexed([model |-> m, book |-> EmptyBook, orders |-> <<>>, buckets |-> buckets])
  BY DEF Indexed, Live
<1>5. QED
  BY <1>1, <1>2, <1>3, <1>4, GoodParts DEF NewExchange

\* apply_l2_update touches only the book.
LEMMA ApplyL2UpdateGood ==
  ASSUME NEW x, GoodExchange(x), NEW side, NEW p \in Prices, NEW q \in Nat
  PROVE  GoodExchange(ApplyL2Update(x, side, p, q))
<1> DEFINE b == ApplyL2(x.book, side, p, q)
           y == [model |-> x.model, book |-> b, orders |-> x.orders,
                 buckets |-> x.buckets]
<1>1. WellTyped(x) /\ Indexed(x) /\ GoodOrders(x)
  BY DEF GoodExchange
<1>2. b \in Book
  BY <1>1, Fields DEF ApplyL2, Book
<1>3. ApplyL2Update(x, side, p, q) = y
  BY <1>1, Fields DEF ApplyL2Update
<1>4. Live(y) = Live(x) /\ Live(x) \in SUBSET OrderId
  BY <1>1 DEF Live, WellTyped
<1>5. Indexed(y)
  BY <1>1, <1>4 DEF Indexed, InBucket
<1>6. \A i \in Live(x) : GoodOrder(x.model, x.orders[i])
  BY <1>1 DEF GoodOrders
<1>7. /\ x.model \in QueueModel
      /\ x.orders \in [Live(x) -> LiveOrder]
      /\ x.buckets \in [BucketKey -> Seq(OrderId)]
  BY <1>1, Fields
<1> HIDE DEF b
<1>8. GoodExchange(y)
  BY <1>2, <1>4, <1>5, <1>6, <1>7, GoodParts
<1>9. QED
  BY <1>3, <1>8

\* submit_order: a fresh id joins the end of its bucket, with nothing filled.
LEMMA SubmitOrderGood ==
  ASSUME NEW x, GoodExchange(x), NEW id \in OrderId, id \notin Live(x),
         NEW o \in Order
  PROVE  GoodExchange(SubmitOrder(x, id, o))
<1> DEFINE q    == RegisterOrder(LevelQty(x.book, o.side, o.price))
           live == [side |-> o.side, type |-> o.type, price |-> o.price,
                    qty |-> o.qty, state |-> "PendingNew", filled |-> 0,
                    remaining |-> o.qty, queue |-> q]
           key     == BucketOf(o)
           orders  == Insert(x.orders, id, live)
           buckets == [x.buckets EXCEPT ![key] = Append(x.buckets[key], id)]
           D       == Live(x) \cup {id}
           y == [model |-> x.model, book |-> x.book, orders |-> orders,
                 buckets |-> buckets]
<1>1. WellTyped(x) /\ Indexed(x) /\ GoodOrders(x)
  BY DEF GoodExchange
<1>2. /\ x.model \in QueueModel
      /\ x.book \in Book
      /\ x.orders \in [Live(x) -> LiveOrder]
      /\ x.buckets \in [BucketKey -> Seq(OrderId)]
      /\ Live(x) \in SUBSET OrderId
  BY <1>1, Fields DEF WellTyped
<1>3. LevelQty(x.book, o.side, o.price) \in Nat
  BY <1>2 DEF LevelQty, Book, BookSide, Order
<1>4. q \in QueueState /\ q.claimed = 0 /\ q.cum = 0 /\ q.ahead \in Nat
  BY <1>3 DEF RegisterOrder, QueueState
<1>5. live \in LiveOrder
  BY <1>4 DEF LiveOrder, OrderState, Order
<1>6. GoodOrder(x.model, live)
  <2>1. o.qty \in Nat \ {0}
    BY DEF Order
  <2>2. QED
    BY <2>1, <1>4 DEF GoodOrder, Conserved, Claimed, LastInQueue, Lesser, Past
<1>7. key \in BucketKey
  BY DEF BucketOf, BucketKey, Order
<1>8. orders \in [D -> LiveOrder] /\ D \in SUBSET OrderId
  BY <1>2, <1>5 DEF Insert
<1>9. buckets \in [BucketKey -> Seq(OrderId)]
  BY <1>2, <1>7
<1>10. /\ \A i \in Live(x) : orders[i] = x.orders[i]
       /\ orders[id] = live
       /\ BucketOf(live) = key
  BY <1>2 DEF Insert, BucketOf
<1>11. \A i \in D : GoodOrder(x.model, orders[i])
  BY <1>1, <1>6, <1>10 DEF GoodOrders
<1>12. SubmitOrder(x, id, o) = y
  BY DEF SubmitOrder, Reindex
<1>13. Live(y) = D
  BY <1>8 DEF Live
<1>14. /\ \A k \in BucketKey : k # key => buckets[k] = x.buckets[k]
       /\ buckets[key] = Append(x.buckets[key], id)
       /\ x.buckets[key] \in Seq(OrderId)
  BY <1>2, <1>7
<1>15. /\ Len(buckets[key]) = Len(x.buckets[key]) + 1
       /\ DOMAIN buckets[key] = 1 .. Len(x.buckets[key]) + 1
       /\ DOMAIN x.buckets[key] = 1 .. Len(x.buckets[key])
       /\ Len(x.buckets[key]) \in Nat
       /\ \A i \in 1 .. Len(x.buckets[key]) : buckets[key][i] = x.buckets[key][i]
       /\ buckets[key][Len(x.buckets[key]) + 1] = id
  BY <1>14
<1>16. Indexed(y)
  <2>1. ASSUME NEW i \in D
        PROVE  InBucket(y, BucketOf(y.orders[i]), i)
    <3>1. CASE i = id
      BY <3>1, <1>10, <1>15 DEF InBucket
    <3>2. CASE i \in Live(x)
      <4>1. InBucket(x, BucketOf(x.orders[i]), i)
        BY <3>2, <1>1 DEF Indexed
      <4>2. BucketOf(x.orders[i]) \in BucketKey
        BY <3>2, <1>2 DEF BucketOf, BucketKey, LiveOrder
      <4>3. QED
        BY <3>2, <4>1, <4>2, <1>10, <1>14, <1>15 DEF InBucket
    <3>3. QED
      BY <3>1, <3>2
  <2>2. ASSUME NEW k \in BucketKey, NEW i \in DOMAIN buckets[k]
        PROVE  /\ buckets[k][i] \in D
               /\ BucketOf(orders[buckets[k][i]]) = k
               /\ \A j \in DOMAIN buckets[k] : buckets[k][j] = buckets[k][i] => j = i
    <3>1. \A h \in DOMAIN x.buckets[k] :
            /\ x.buckets[k][h] \in Live(x)
            /\ BucketOf(x.orders[x.buckets[k][h]]) = k
            /\ \A j \in DOMAIN x.buckets[k] : x.buckets[k][j] = x.buckets[k][h] => j = h
      BY <1>1 DEF Indexed
    <3>2. CASE k # key
      BY <3>1, <3>2, <1>10, <1>14
    <3>3. CASE k = key
      BY SMTT(60), <3>1, <3>3, <1>10, <1>15
    <3>4. QED
      BY <3>2, <3>3
  <2>3. y.buckets = buckets /\ y.orders = orders
    OBVIOUS
  <2> HIDE DEF y, buckets, orders, D
  <2>4. QED
    BY <2>1, <2>2, <2>3, <1>13 DEF Indexed
<1> HIDE DEF q, live, key, orders, buckets, D
<1>17. GoodExchange(y)
  BY <1>2, <1>8, <1>9, <1>11, <1>16, GoodParts
<1>18. QED
  BY <1>12, <1>17

\* remove_order: the order and its one index entry go together.
LEMMA RemoveOrderGood ==
  ASSUME NEW x, GoodExchange(x), NEW id \in Live(x)
  PROVE  GoodExchange(RemoveOrder(x, id))
<1> DEFINE key     == BucketOf(x.orders[id])
           old     == x.buckets[key]
           p       == PositionIn(old, id)
           ids     == DropAt(old, p)
           D       == Live(x) \ {id}
           orders  == Erase(x.orders, id)
           buckets == [x.buckets EXCEPT ![key] = ids]
           y == [model |-> x.model, book |-> x.book, orders |-> orders,
                 buckets |-> buckets]
<1>1. WellTyped(x) /\ Indexed(x) /\ GoodOrders(x)
  BY DEF GoodExchange
<1>2. /\ x.model \in QueueModel
      /\ x.book \in Book
      /\ x.orders \in [Live(x) -> LiveOrder]
      /\ x.buckets \in [BucketKey -> Seq(OrderId)]
      /\ Live(x) \in SUBSET OrderId
  BY <1>1, Fields DEF WellTyped
<1>3. key \in BucketKey
  BY <1>2 DEF BucketOf, BucketKey, LiveOrder
<1>4. old \in Seq(OrderId) /\ DOMAIN old = 1 .. Len(old) /\ Len(old) \in Nat
  BY <1>2, <1>3
<1>5. PICK n \in DOMAIN old : old[n] = id
  BY <1>1 DEF Indexed, InBucket
<1>6. \A i \in DOMAIN old :
        /\ old[i] \in Live(x)
        /\ BucketOf(x.orders[old[i]]) = key
        /\ \A j \in DOMAIN old : old[j] = old[i] => j = i
  BY <1>1, <1>3 DEF Indexed
<1>7. p = n
  <2>1. n \in DOMAIN old /\ old[n] = id /\ \A j \in DOMAIN old : old[j] = id => n <= j
    BY <1>4, <1>5, <1>6
  <2>2. \A i \in DOMAIN old :
          (old[i] = id /\ \A j \in DOMAIN old : old[j] = id => i <= j) => i = n
    BY <1>5, <1>6
  <2>3. QED
    BY <2>1, <2>2 DEF PositionIn
<1>8. ids = [j \in 1 .. Len(old) - 1 |-> IF j < n THEN old[j] ELSE old[j + 1]]
  BY SMTT(60), <1>7 DEF DropAt
<1>9. /\ DOMAIN ids = 1 .. Len(old) - 1
      /\ \A j \in 1 .. Len(old) - 1 :
           ids[j] = IF j < n THEN old[j] ELSE old[j + 1]
  BY <1>8
<1> HIDE DEF ids, p
<1> DEFINE from(j) == IF j < n THEN j ELSE j + 1
<1>from. \A j \in DOMAIN ids :
        /\ ids[j] = old[from(j)]
        /\ from(j) \in DOMAIN old
        /\ from(j) # n
  BY <1>4, <1>5, <1>9
<1>distinct. \A i, j \in DOMAIN ids : from(i) = from(j) => i = j
  BY <1>4, <1>5, <1>9
<1> HIDE DEF from
<1>10. \A j \in DOMAIN ids : ids[j] \in OrderId /\ ids[j] # id
  <2> TAKE j \in DOMAIN ids
  <2>1. old[from(j)] \in OrderId
    BY <1>4, <1>from
  <2>2. old[from(j)] # id
    BY <1>5, <1>6, <1>from
  <2>3. QED
    BY <2>1, <2>2, <1>from
<1>11. ids \in Seq(OrderId)
  <2>1. Len(old) - 1 \in Nat
    BY SMTT(60), <1>4, <1>5
  <2>2. ids \in [1 .. Len(old) - 1 -> OrderId]
    BY <1>8, <1>9, <1>10
  <2>3. QED
    BY SMTT(60), <2>1, <2>2
<1>12. orders \in [D -> LiveOrder] /\ D \in SUBSET OrderId
  BY <1>2 DEF Erase
<1>13. \A i \in D : orders[i] = x.orders[i]
  BY <1>2 DEF Erase
<1>14. buckets \in [BucketKey -> Seq(OrderId)]
  BY <1>2, <1>3, <1>11
<1>15. /\ buckets[key] = ids
       /\ \A k \in BucketKey : k # key => buckets[k] = x.buckets[k]
  BY <1>2, <1>3
<1>16. \A i \in D : GoodOrder(x.model, orders[i])
  BY <1>1, <1>13 DEF GoodOrders
<1>17. RemoveOrder(x, id) = y
  <2>1. InBucket(x, key, id)
    BY <1>5 DEF InBucket
  <2>2. QED
    BY <2>1 DEF RemoveOrder, Reindex, ids, p
<1>18. Live(y) = D
  BY <1>12 DEF Live
<1>19. Indexed(y)
  <2>1. ASSUME NEW i \in D
        PROVE  InBucket(y, BucketOf(y.orders[i]), i)
    <3> DEFINE k == BucketOf(x.orders[i])
    <3>1. k \in BucketKey
      BY <1>2 DEF BucketOf, BucketKey, LiveOrder
    <3>2. PICK h \in DOMAIN x.buckets[k] : x.buckets[k][h] = i
      BY <1>1 DEF Indexed, InBucket
    <3>3. \E h2 \in DOMAIN buckets[k] : buckets[k][h2] = i
      <4>1. CASE k # key
        BY <4>1, <3>1, <3>2, <1>15
      <4>2. CASE k = key
        <5>1. h \in 1 .. Len(old) /\ old[h] = i /\ h # n
          BY <4>2, <3>2, <1>4, <1>5
        <5>2. CASE h < n
          BY <5>1, <5>2, <4>2, <1>4, <1>5, <1>9, <1>15
        <5>3. CASE h > n
          <6>1. h - 1 \in 1 .. Len(old) - 1 /\ ~(h - 1 < n) /\ (h - 1) + 1 = h
            BY <5>1, <5>3, <1>4, <1>5
          <6>2. ids[h - 1] = i
            BY <6>1, <5>1, <1>9
          <6>3. QED
            BY <6>1, <6>2, <4>2, <1>9, <1>15
        <5>4. QED
          BY <5>1, <5>2, <5>3, <1>4, <1>5
      <4>3. QED
        BY <4>1, <4>2
    <3>4. QED
      BY <3>3, <1>13 DEF InBucket
  <2>2. ASSUME NEW k \in BucketKey, NEW i \in DOMAIN buckets[k]
        PROVE  /\ buckets[k][i] \in D
               /\ BucketOf(orders[buckets[k][i]]) = k
               /\ \A j \in DOMAIN buckets[k] : buckets[k][j] = buckets[k][i] => j = i
    <3>1. CASE k # key
      <4>1. \A h \in DOMAIN x.buckets[k] :
              /\ x.buckets[k][h] \in Live(x)
              /\ BucketOf(x.orders[x.buckets[k][h]]) = k
              /\ \A j \in DOMAIN x.buckets[k] : x.buckets[k][j] = x.buckets[k][h] => j = h
        BY <1>1 DEF Indexed
      <4>2. x.buckets[k][i] # id
        BY <4>1, <3>1, <1>15
      <4>3. QED
        BY <4>1, <4>2, <3>1, <1>13, <1>15
    <3>2. CASE k = key
      <4> SUFFICES /\ ids[i] \in D
                   /\ BucketOf(orders[ids[i]]) = key
                   /\ \A j \in DOMAIN ids : ids[j] = ids[i] => j = i
        BY <3>2, <1>15
      <4>1. i \in DOMAIN ids
        BY <3>2, <1>15
      <4>2. ids[i] \in Live(x) /\ BucketOf(x.orders[ids[i]]) = key
        BY <4>1, <1>from, <1>6
      <4>3. \A j \in DOMAIN ids : ids[j] = ids[i] => j = i
        BY <4>1, <1>from, <1>distinct, <1>6
      <4>4. ids[i] # id
        BY <4>1, <1>10
      <4>5. QED
        BY <4>2, <4>3, <4>4, <1>13
    <3>3. QED
      BY <3>1, <3>2
  <2>3. y.buckets = buckets /\ y.orders = orders
    OBVIOUS
  <2> HIDE DEF y, buckets, orders, D
  <2>4. QED
    BY <2>1, <2>2, <2>3, <1>18 DEF Indexed
<1> HIDE DEF key, old, orders, buckets, D
<1>20. GoodExchange(y)
  BY <1>2, <1>12, <1>14, <1>16, <1>19, GoodParts
<1>21. QED
  BY <1>17, <1>20

(***************************************************************************)
(* on_trade: every order the trade asks is answered, the others stay.      *)
(***************************************************************************)
LEMMA OnTradeGood ==
  ASSUME NEW x, GoodExchange(x), NEW trade, trade.qty \in Nat
  PROVE  GoodExchange(OnTrade(x, trade))
<1> DEFINE new(id) == AfterAnswer(x.orders[id], Answer(x, trade, id))
           orders == [id \in Live(x) |-> IF id \in Asked(x, trade)
                                         THEN new(id) ELSE x.orders[id]]
<1>1. WellTyped(x) /\ GoodOrders(x)
  BY DEF GoodExchange
<1>2. ASSUME NEW id \in Live(x), id \in Asked(x, trade)
      PROVE  /\ new(id) \in LiveOrder
             /\ GoodOrder(x.model, new(id))
             /\ BucketOf(new(id)) = BucketOf(x.orders[id])
  <2>1. x.orders[id] \in LiveOrder /\ x.model \in QueueModel
    BY <1>1, Fields
  <2>2. /\ x.orders[id].remaining > 0
        /\ x.orders[id].state \in Fillable
        /\ GoodOrder(x.model, x.orders[id])
    BY <1>1, <1>2 DEF Asked, StateOf, GoodOrders
  <2>3. QED
    BY <2>1, <2>2, AnswerKeepsGood DEF Answer
<1>3. ASSUME NEW id \in Live(x)
      PROVE  /\ orders[id] \in LiveOrder
             /\ GoodOrder(x.model, orders[id])
             /\ BucketOf(orders[id]) = BucketOf(x.orders[id])
  <2>1. x.orders[id] \in LiveOrder /\ GoodOrder(x.model, x.orders[id])
    BY <1>1, Fields DEF GoodOrders
  <2>2. QED
    BY <1>2, <2>1
<1>4. orders \in [Live(x) -> LiveOrder]
  BY <1>3
<1>5. OnTrade(x, trade) = [x EXCEPT !.orders = orders]
  BY DEF OnTrade
<1> HIDE DEF orders, new
<1>6. QED
  BY <1>3, <1>4, <1>5, ReplaceOrders

\* The execution of a market order, of any quantity up to its own.
LEMMA ExecutionKeepsGood ==
  ASSUME NEW m, NEW o \in LiveOrder, o.type = "Market",
         NEW qty \in Nat, qty <= o.qty
  PROVE  /\ AfterExecution(o, qty) \in LiveOrder
         /\ GoodOrder(m, AfterExecution(o, qty))
         /\ BucketOf(AfterExecution(o, qty)) = BucketOf(o)
<1> DEFINE n == AfterExecution(o, qty)
<1>1. o.qty \in Nat \ {0} /\ o.qty - qty \in Nat
  BY DEF LiveOrder
<1>2. n = [side |-> n.side, type |-> n.type, price |-> n.price,
           qty |-> n.qty, state |-> n.state, filled |-> n.filled,
           remaining |-> n.remaining, queue |-> n.queue]
  <2> DEFINE r == o.qty - qty
             s == AfterFill(r)
  <2>1. n = [o EXCEPT !.filled = qty, !.remaining = r, !.state = s]
    BY DEF AfterExecution
  <2> HIDE DEF r, s, n
  <2>2. QED
    BY <2>1 DEF LiveOrder
<1>3. /\ n.side = o.side
      /\ n.type = o.type
      /\ n.price = o.price
      /\ n.qty = o.qty
      /\ n.queue = o.queue
      /\ n.filled = qty
      /\ n.remaining = o.qty - qty
      /\ n.state = AfterFill(o.qty - qty)
  BY DEF AfterExecution, LiveOrder
<1>4. n \in LiveOrder
  BY <1>1, <1>2, <1>3 DEF LiveOrder, OrderState, AfterFill
<1>5. BucketOf(n) = BucketOf(o)
  BY <1>3 DEF BucketOf
<1> HIDE DEF n
<1>6. GoodOrder(m, n)
  BY <1>1, <1>3 DEF GoodOrder, Conserved, Claimed, LastInQueue, AfterFill
<1>7. QED
  BY <1>4, <1>5, <1>6 DEF n

(***************************************************************************)
(* fill_market_immediately: it takes no more than the order asks for, from *)
(* the best level or at the fallback price.                                *)
(***************************************************************************)
LEMMA FillMarketGood ==
  ASSUME NEW x, GoodExchange(x), NEW id \in Live(x),
         x.orders[id].type = "Market", StateOf(x, id) = "PendingNew",
         NEW fallback
  PROVE  GoodExchange(FillMarketImmediately(x, id, fallback))
<1> DEFINE o    == x.orders[id]
           qty  == MarketFillQty(x, o, fallback)
           best == BestOpposite(x, o.side)
<1>1. WellTyped(x)
  BY DEF GoodExchange
<1>2. o \in LiveOrder /\ x.book \in Book
  BY <1>1, Fields
<1>3. o.qty \in Nat \ {0}
  BY <1>2 DEF LiveOrder
<1>4. qty \in Nat /\ qty <= o.qty
  <2>1. CASE best # NoPrice
    <3>1. best \in Prices /\ MakerSide(o.side) \in BookSide
      BY <2>1 DEF BestOpposite, BestAsk, BestBid, AnyOf, Highest, Lowest,
                  Quoted, MakerSide, BookSide
    <3>2. x.book[MakerSide(o.side)][best] \in Nat
      BY <3>1, <1>2 DEF Book
    <3>3. QED
      BY <2>1, <3>2, <1>3 DEF MarketFillQty, Lesser
  <2>2. CASE best = NoPrice
    BY <2>2, <1>3 DEF MarketFillQty
  <2>3. QED
    BY <2>1, <2>2
<1> HIDE DEF qty, best
<1>5. GoodExchange([x EXCEPT !.orders[id] = AfterExecution(o, qty)])
  BY <1>2, <1>4, ExecutionKeepsGood, ReplaceOrder
<1>6. GoodExchange(SetState(x, id, "Rejected"))
  BY SetStateKeepsGood DEF OrderState
<1>7. QED
  BY <1>5, <1>6 DEF FillMarketImmediately, qty

-----------------------------------------------------------------------------
\* What one method leaves alone: every order but the one it is about.
LEMMA OneOrderOthers ==
  ASSUME NEW x, WellTyped(x), NEW id \in Live(x), NEW n
  PROVE  LET y == [x EXCEPT !.orders[id] = n]
         IN  /\ Live(y) = Live(x)
             /\ \A i \in Live(x) : i # id => y.orders[i] = x.orders[i]
             /\ y.orders[id] = n
<1>1. x.orders \in [Live(x) -> LiveOrder]
  BY Fields
<1>2. x = [model |-> x.model, book |-> x.book, orders |-> x.orders,
           buckets |-> x.buckets]
  BY Fields
<1>3. QED
  BY <1>1, <1>2 DEF Live

LEMMA SetStateOthers ==
  ASSUME NEW x, WellTyped(x), NEW id \in Live(x), NEW s
  PROVE  /\ Live(SetState(x, id, s)) = Live(x)
         /\ \A i \in Live(x) : i # id => SetState(x, id, s).orders[i] = x.orders[i]
<1> DEFINE n == [x.orders[id] EXCEPT !.state = s]
<1>1. SetState(x, id, s) = [x EXCEPT !.orders[id] = n]
  BY DEF SetState
<1> HIDE DEF n
<1>2. QED
  BY <1>1, OneOrderOthers

LEMMA FillMarketOthers ==
  ASSUME NEW x, WellTyped(x), NEW id \in Live(x), NEW fallback
  PROVE  LET y == FillMarketImmediately(x, id, fallback)
         IN  /\ Live(y) = Live(x)
             /\ \A i \in Live(x) : i # id => y.orders[i] = x.orders[i]
<1> DEFINE n == AfterExecution(x.orders[id], MarketFillQty(x, x.orders[id], fallback))
<1>1. FillMarketImmediately(x, id, fallback)
        = IF MarketPrice(x, x.orders[id].side, fallback) = NoPrice
          THEN SetState(x, id, "Rejected") ELSE [x EXCEPT !.orders[id] = n]
  BY DEF FillMarketImmediately
<1> HIDE DEF n
<1>2. QED
  BY <1>1, SetStateOthers, OneOrderOthers
-----------------------------------------------------------------------------
(***************************************************************************)
(* What a loop keeps of a sequence                                         *)
(***************************************************************************)
Keeps == INSTANCE FoldTheory WITH Op <- KeepNext

LEMMA KeptOfEmpty ==
  ASSUME NEW T
  PROVE  Kept(<<>>, T) = <<>>
<1> DEFINE start == [wanted |-> T, kept |-> <<>>]
<1>1. FoldLeft(KeepNext, start, <<>>) = Keeps!Fold(start, <<>>)
  BY DEF Keeps!Fold, FoldLeft,
         Keeps!MapThenFoldSet, MapThenFoldSet, Keeps!Latest, Max
<1> HIDE DEF start
<1>2. Kept(<<>>, T) = start.kept
  BY <1>1, Keeps!FoldOfEmpty DEF Kept, start
<1>3. QED
  BY <1>2 DEF start

LEMMA KeptOfAppend ==
  ASSUME NEW T, NEW E, NEW s \in Seq(E), NEW e \in E
  PROVE  Kept(Append(s, e), T) = IF e \in T THEN Append(Kept(s, T), e) ELSE Kept(s, T)
<1> DEFINE start   == [wanted |-> T, kept |-> <<>>]
           Run(t)  == Keeps!Fold(start, t)
           Result  == {[wanted |-> T, kept |-> k] : k \in Seq(E)}
           t       == Append(s, e)
<1>1. ASSUME NEW r PROVE FoldLeft(KeepNext, start, r) = Run(r)
  BY DEF Keeps!Fold, FoldLeft,
         Keeps!MapThenFoldSet, MapThenFoldSet, Keeps!Latest, Max
<1>2. Kept(s, T) = Run(s).kept /\ Kept(t, T) = Run(t).kept
  BY <1>1 DEF Kept
<1>3. start \in Result
  BY EmptySeq
<1>4. ASSUME NEW r \in Result, NEW x \in E PROVE KeepNext(r, x) \in Result
  <2>1. PICK k \in Seq(E) : r = [wanted |-> T, kept |-> k]
    OBVIOUS
  <2>2. CASE x \in T
    <3>1. KeepNext(r, x) = [wanted |-> T, kept |-> Append(k, x)]
      BY <2>1, <2>2 DEF KeepNext
    <3>2. Append(k, x) \in Seq(E)
      BY AppendProperties
    <3>3. QED
      BY <3>1, <3>2
  <2>3. CASE x \notin T
    BY <2>1, <2>3 DEF KeepNext
  <2>4. QED
    BY <2>2, <2>3
<1> HIDE DEF start, Result, t
<1>5. Run(s) \in Result
  BY <1>3, <1>4, Keeps!FoldKeeps
<1>6. Run(t) = KeepNext(Run(s), e)
  BY Keeps!FoldOfAppend DEF t
<1> HIDE DEF Run
<1>7. PICK k \in Seq(E) : Run(s) = [wanted |-> T, kept |-> k]
  BY <1>5 DEF Result
<1>8. QED
  BY <1>2, <1>6, <1>7 DEF KeepNext, t

LEMMA KeptType ==
  ASSUME NEW T, NEW E, NEW s \in Seq(E)
  PROVE  Kept(s, T) \in Seq(E \cap T)
<1> DEFINE Good == {t \in Seq(E) : Kept(t, T) \in Seq(E \cap T)}
<1>1. <<>> \in Good
  BY KeptOfEmpty, EmptySeq
<1>2. ASSUME NEW t \in Seq(E), NEW e \in E, t \in Good PROVE Append(t, e) \in Good
  <2>1. Append(t, e) \in Seq(E) /\ Kept(t, T) \in Seq(E \cap T)
    BY <1>2, AppendProperties
  <2>2. Kept(Append(t, e), T) \in Seq(E \cap T)
    <3>1. CASE e \in T
      <4>1. e \in E \cap T
        BY <3>1
      <4>2. Append(Kept(t, T), e) \in Seq(E \cap T)
        BY <2>1, <4>1, AppendProperties
      <4>3. QED
        BY <3>1, <4>2, KeptOfAppend
    <3>2. CASE e \notin T
      BY <2>1, <3>2, KeptOfAppend
    <3>3. QED
      BY <3>1, <3>2
  <2>3. QED
    BY <2>1, <2>2
<1> HIDE DEF Good
<1>3. s \in Good
  BY <1>1, <1>2, Keeps!SeqSetInduction
<1>4. QED
  BY <1>3 DEF Good

LEMMA KeptOfConcat ==
  ASSUME NEW T, NEW E, NEW s \in Seq(E), NEW t \in Seq(E)
  PROVE  Kept(s \o t, T) = Kept(s, T) \o Kept(t, T)
<1> DEFINE Good == {u \in Seq(E) : Kept(s \o u, T) = Kept(s, T) \o Kept(u, T)}
<1>0. Kept(s, T) \in Seq(E) /\ \A u \in Seq(E) : Kept(u, T) \in Seq(E)
  <2>1. \A u \in Seq(E) : Kept(u, T) \in Seq(E \cap T)
    BY KeptType
  <2>2. \A u \in Seq(E \cap T) : u \in Seq(E)
    BY SeqMonotonic
  <2>3. QED
    BY <2>1, <2>2
<1>1. <<>> \in Good
  BY <1>0, KeptOfEmpty, EmptySeq, ConcatEmptySeq
<1>2. ASSUME NEW u \in Seq(E), NEW e \in E, u \in Good PROVE Append(u, e) \in Good
  <2>1. /\ Append(u, e) \in Seq(E) /\ s \o u \in Seq(E) /\ <<e>> \in Seq(E)
        /\ Kept(s \o u, T) = Kept(s, T) \o Kept(u, T)
    BY <1>2, AppendProperties, ConcatProperties
  <2>2. s \o Append(u, e) = Append(s \o u, e)
    BY <2>1, AppendIsConcat, ConcatAssociative
  <2>3. Kept(Append(s \o u, e), T)
          = IF e \in T THEN Append(Kept(s, T) \o Kept(u, T), e) ELSE Kept(s, T) \o Kept(u, T)
    BY ZenonT(60), <2>1, KeptOfAppend
  <2>4. Kept(Append(u, e), T) = IF e \in T THEN Append(Kept(u, T), e) ELSE Kept(u, T)
    BY KeptOfAppend
  <2>5. Append(Kept(s, T) \o Kept(u, T), e) = Kept(s, T) \o Append(Kept(u, T), e)
    <3>1. Kept(s, T) \o Kept(u, T) \in Seq(E)
      BY <1>0, ConcatProperties
    <3>2. /\ Append(Kept(s, T) \o Kept(u, T), e) = (Kept(s, T) \o Kept(u, T)) \o <<e>>
          /\ Append(Kept(u, T), e) = Kept(u, T) \o <<e>>
      BY <1>0, <3>1, AppendIsConcat
    <3>3. QED
      BY SMTT(60), <1>0, <2>1, <3>2, ConcatAssociative
  <2>6. QED
    BY <2>1, <2>2, <2>3, <2>4, <2>5
<1> HIDE DEF Good
<1>3. t \in Good
  BY <1>1, <1>2, Keeps!SeqSetInduction
<1>4. QED
  BY <1>3 DEF Good

LEMMA KeptSame ==
  ASSUME NEW T, NEW U, NEW E, NEW s \in Seq(E), E \cap T = E \cap U
  PROVE  Kept(s, T) = Kept(s, U)
<1> DEFINE Good == {t \in Seq(E) : Kept(t, T) = Kept(t, U)}
<1>1. <<>> \in Good
  BY KeptOfEmpty, EmptySeq
<1>2. ASSUME NEW t \in Seq(E), NEW e \in E, t \in Good PROVE Append(t, e) \in Good
  <2>1. e \in T <=> e \in U
    OBVIOUS
  <2>2. Kept(Append(t, e), T) = IF e \in T THEN Append(Kept(t, T), e) ELSE Kept(t, T)
    BY KeptOfAppend
  <2>3. Kept(Append(t, e), U) = IF e \in U THEN Append(Kept(t, U), e) ELSE Kept(t, U)
    BY KeptOfAppend
  <2>4. t \in Seq(E) /\ Kept(t, T) = Kept(t, U)
    BY <1>2
  <2>5. Append(t, e) \in Seq(E)
    BY AppendProperties
  <2>6. QED
    BY <2>1, <2>2, <2>3, <2>4, <2>5
<1> HIDE DEF Good
<1>3. s \in Good
  BY <1>1, <1>2, Keeps!SeqSetInduction
<1>4. QED
  BY <1>3 DEF Good

LEMMA KeptWhole ==
  ASSUME NEW T, NEW E, NEW s \in Seq(E)
  PROVE  (E \subseteq T => Kept(s, T) = s) /\ (E \cap T = {} => Kept(s, T) = <<>>)
<1> DEFINE Good == {t \in Seq(E) : /\ E \subseteq T => Kept(t, T) = t
                                   /\ E \cap T = {} => Kept(t, T) = <<>>}
<1>1. <<>> \in Good
  BY KeptOfEmpty, EmptySeq
<1>2. ASSUME NEW t \in Seq(E), NEW e \in E, t \in Good PROVE Append(t, e) \in Good
  BY <1>2, KeptOfAppend, AppendProperties
<1> HIDE DEF Good
<1>3. s \in Good
  BY <1>1, <1>2, Keeps!SeqSetInduction
<1>4. QED
  BY <1>3 DEF Good
=============================================================================
