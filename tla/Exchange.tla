------------------------------ MODULE Exchange ------------------------------
(***************************************************************************)
(* backtester-core/src/exchange_simulator.rs as operators on its state.    *)
(*                                                                         *)
(* A simulator x is a record                                               *)
(*   model    the queue model it was built with                            *)
(*   book     the L2 book                                                  *)
(*   orders   order id -> live order                                       *)
(*   buckets  (price, side) -> ids of the active orders there, in arrival  *)
(*            order: the index that on_trade goes through                  *)
(* Each method of the code is an operator that returns the new record; a   *)
(* method that can fail has a Can... operator, its Ok condition.           *)
(***************************************************************************)
EXTENDS OrderBookL2, QueueModels, Selection

OrderId == Nat \ {0}

Order ==
  [side : Side, type : OrderType, price : Prices, qty : Nat \ {0}]

LiveOrder ==
  [side : Side, type : OrderType, price : Prices, qty : Nat \ {0},
   state : OrderState, filled : Nat, remaining : Nat, queue : QueueState]

BucketKey == Prices \X Side

BucketOf(o) == <<o.price, o.side>>

NewExchange(model) ==
  [model |-> model, book |-> EmptyBook, orders |-> <<>>,
   buckets |-> [k \in BucketKey |-> <<>>]]

ApplyL2Update(x, side, price, qty) ==
  [x EXCEPT !.book = ApplyL2(@, side, price, qty)]

Live(x) == DOMAIN x.orders

StateOf(x, id) == x.orders[id].state

SetState(x, id, s) == [x EXCEPT !.orders[id].state = s]

(***************************************************************************)
(* The report a method returns for order id, read off the order after the  *)
(* change; last and price describe the fill it made, if any.               *)
(***************************************************************************)
Report(x, id, last, price) ==
  LET o == x.orders[id]
  IN  [id |-> id, status |-> o.state, last |-> last, price |-> price,
       filled |-> o.filled, remaining |-> o.remaining]

-----------------------------------------------------------------------------
\* An update of one bucket of the index together with the order map.
Reindex(x, key, ids, orders) ==
  [model |-> x.model, book |-> x.book, orders |-> orders,
   buckets |-> [x.buckets EXCEPT ![key] = ids]]

\* submit_order: register with the queue model, index, store as PendingNew.
SubmitOrder(x, id, o) ==
  LET live == [side |-> o.side, type |-> o.type, price |-> o.price,
               qty |-> o.qty, state |-> "PendingNew", filled |-> 0,
               remaining |-> o.qty,
               queue |-> RegisterOrder(LevelQty(x.book, o.side, o.price))]
  IN  Reindex(x, BucketOf(o), Append(x.buckets[BucketOf(o)], id),
              Insert(x.orders, id, live))

CanAckNew(x, id) == id \in Live(x) /\ StateOf(x, id) = "PendingNew"

AckNew(x, id) == SetState(x, id, "Open")

CanCancelOrder(x, id) ==
  id \in Live(x) /\ CanTransitionTo(StateOf(x, id), "PendingCancel")

CancelOrder(x, id) == SetState(x, id, "PendingCancel")

CanAckCancel(x, id) == id \in Live(x) /\ StateOf(x, id) = "PendingCancel"

AckCancel(x, id) == SetState(x, id, "Cancelled")

-----------------------------------------------------------------------------
(***************************************************************************)
(* fill_market_immediately.  The order takes what the best opposite level  *)
(* shows (the book itself is not reduced); with no such level it fills in  *)
(* full at the fallback price; with neither it is rejected.                *)
(***************************************************************************)
BestOpposite(x, side) ==
  CASE side = "Buy"  -> BestAsk(x.book)
    [] side = "Sell" -> BestBid(x.book)
    [] OTHER         -> NoPrice

MarketPrice(x, side, fallback) ==
  LET best == BestOpposite(x, side)
  IN  IF best # NoPrice THEN best ELSE fallback

MarketFillQty(x, o, fallback) ==
  LET best == BestOpposite(x, o.side)
  IN  IF best # NoPrice
      THEN Lesser(o.qty, x.book[MakerSide(o.side)][best])
      ELSE IF fallback # NoPrice THEN o.qty ELSE 0

AfterFill(remaining) == IF remaining = 0 THEN "Filled" ELSE "PartiallyFilled"

\* Faulty: the remaining quantity is left as it was submitted.
UnreducedExecution(o, qty) ==
  [o EXCEPT !.filled = qty, !.state = AfterFill(o.qty - qty)]

AfterExecution(o, qty) ==
  [o EXCEPT !.filled = qty, !.remaining = o.qty - qty,
            !.state = AfterFill(o.qty - qty)]

FillMarketImmediately(x, id, fallback) ==
  LET o == x.orders[id]
  IN  IF MarketPrice(x, o.side, fallback) = NoPrice
      THEN SetState(x, id, "Rejected")
      ELSE [x EXCEPT !.orders[id] =
              AfterExecution(o, MarketFillQty(x, o, fallback))]

ForceCancelPartialFill(x, id) == SetState(x, id, "Cancelled")

-----------------------------------------------------------------------------
(***************************************************************************)
(* remove_order: forget the order and take the first index entry that      *)
(* names it out of its bucket (position, then remove).                     *)
(***************************************************************************)
PositionIn(s, id) ==
  CHOOSE i \in DOMAIN s : s[i] = id /\ \A j \in DOMAIN s : s[j] = id => i <= j

DropAt(s, i) == [j \in 1 .. Len(s) - 1 |-> IF j < i THEN s[j] ELSE s[j + 1]]

InBucket(x, key, id) == \E i \in DOMAIN x.buckets[key] : x.buckets[key][i] = id

\* Faulty: the order leaves the map and stays in its bucket.
ForgetOrder(x, id) == [x EXCEPT !.orders = Erase(@, id)]

\* Faulty: a finished order is kept.
KeepOrder(x, id) == x

RemoveOrder(x, id) ==
  LET key == BucketOf(x.orders[id])
  IN  IF id \notin Live(x) THEN x
      ELSE Reindex(x, key, IF InBucket(x, key, id)
                           THEN DropAt(x.buckets[key], PositionIn(x.buckets[key], id))
                           ELSE x.buckets[key],
                   Erase(x.orders, id))

-----------------------------------------------------------------------------
(***************************************************************************)
(* on_trade.  Every active order in the bucket the trade hits asks the     *)
(* queue model about the whole trade; none sees what another one took, so  *)
(* the loop over the bucket is a simultaneous update.                      *)
(***************************************************************************)
\* Faulty: a trade still fills an order whose cancel was acknowledged.
FillableLate == {"Open", "PartiallyFilled", "PendingCancel", "Cancelled"}

Fillable == {"Open", "PartiallyFilled", "PendingCancel"}

Asked(x, trade) ==
  {id \in Live(x) : /\ MakerSide(trade.side) # "None"
                    /\ InBucket(x, <<trade.price, MakerSide(trade.side)>>, id)
                    /\ x.orders[id].remaining > 0
                    /\ StateOf(x, id) \in Fillable}

Answer(x, trade, id) ==
  CheckFill(x.model, x.orders[id].queue, x.orders[id].remaining, trade.qty)

AfterAnswer(o, a) ==
  IF a.fill <= 0 THEN [o EXCEPT !.queue = a.queue]
  ELSE [o EXCEPT !.queue = a.queue, !.filled = @ + a.fill,
                 !.remaining = @ - a.fill,
                 !.state = AfterFill(o.remaining - a.fill)]

OnTrade(x, trade) ==
  [x EXCEPT !.orders =
     [id \in Live(x) |-> IF id \in Asked(x, trade)
                         THEN AfterAnswer(x.orders[id], Answer(x, trade, id))
                         ELSE x.orders[id]]]

FilledBy(x, trade) ==
  {id \in Asked(x, trade) : Answer(x, trade, id).fill > 0}

\* The reports of on_trade, in bucket order.
OnTradeReports(x, trade) ==
  LET ids == IF MakerSide(trade.side) = "None" THEN <<>>
             ELSE Kept(x.buckets[<<trade.price, MakerSide(trade.side)>>], FilledBy(x, trade))
  IN  [i \in DOMAIN ids |-> Report(OnTrade(x, trade), ids[i],
                                   Answer(x, trade, ids[i]).fill, trade.price)]

-----------------------------------------------------------------------------
(***************************************************************************)
(* Predicates on a simulator, stated here so that the component on its own *)
(* and the engine's exchanges are held to the same ones.                   *)
(***************************************************************************)
WellTyped(x) ==
  /\ Live(x) \subseteq OrderId
  /\ x \in [model : QueueModel, book : Book, orders : [Live(x) -> LiveOrder],
            buckets : [BucketKey -> Seq(OrderId)]]

\* What is filled and what remains add up; Filled means nothing remains.
Conserved(o) ==
  /\ o.filled + o.remaining = o.qty
  /\ (o.state = "Filled") <=> (o.remaining = 0)

\* The traded volume beyond the quantity that was ahead at entry.
Past(q) == IF q.cum > q.ahead THEN q.cum - q.ahead ELSE 0

\* VolumeClock: the order has claimed its share of the volume past it.
Claimed(o) ==
  o.type = "Limit" => /\ o.queue.claimed = o.filled
                      /\ o.filled = Lesser(o.qty, Past(o.queue))

\* Conservative: nothing is filled while something is ahead.
LastInQueue(o) ==
  o.type = "Limit" /\ o.queue.ahead > 0 => o.filled = 0

\* Each bucket holds each live order of its key exactly once, nothing else.
Indexed(x) ==
  /\ \A id \in Live(x) : InBucket(x, BucketOf(x.orders[id]), id)
  /\ \A k \in BucketKey : \A i \in DOMAIN x.buckets[k] :
       /\ x.buckets[k][i] \in Live(x)
       /\ BucketOf(x.orders[x.buckets[k][i]]) = k
       /\ \A j \in DOMAIN x.buckets[k] :
            x.buckets[k][j] = x.buckets[k][i] => j = i
=============================================================================
