--------------------------- MODULE ExchangeProofs ---------------------------
(***************************************************************************)
(* The exchange simulator's invariants, for every set of prices, orders,   *)
(* quantities and trades.  The inductive invariant is GoodExchange(ex):    *)
(* the type invariant, the index and the per-order facts hold each other   *)
(* up, since remove_order finds the right index entry only while an id is  *)
(* in its bucket once, and the volume clock fills exactly what the queue   *)
(* leaves only while its claimed volume is what was filled.                *)
(***************************************************************************)
EXTENDS QueueModelEquivalence, ExchangeLemmas

Good == GoodExchange(ex)

LEMMA InitGood == Init => Good
<1> SUFFICES ASSUME Init PROVE GoodExchange(ex)
  BY DEF Good
<1>1. PICK m \in Models : ex = NewExchange(m)
  BY DEF Init
<1>2. m \in QueueModel
  BY ExchangeAssumption
<1>3. QED
  BY <1>1, <1>2, NewExchangeGood

\* The acknowledgement of a market order: its fill, and the end of the rest.
LEMMA ExecuteMarketGood ==
  ASSUME NEW x, GoodExchange(x), NEW id \in Live(x),
         x.orders[id].type = "Market", StateOf(x, id) = "PendingNew",
         NEW fallback
  PROVE  GoodExchange(ExecuteMarket(x, id, fallback))
<1> DEFINE y == FillMarketImmediately(x, id, fallback)
<1>1. GoodExchange(y)
  BY FillMarketGood
<1>2. id \in Live(y)
  BY FillMarketOthers DEF GoodExchange
<1>3. ASSUME StateOf(y, id) = "PartiallyFilled"
      PROVE  GoodExchange(ForceCancelPartialFill(y, id))
  BY <1>1, <1>2, <1>3, SetStateKeepsGood DEF ForceCancelPartialFill, OrderState
<1>4. QED
  BY <1>1, <1>3 DEF ExecuteMarket

\* Every handler keeps the simulator good.
LEMMA NextGood == Good /\ [Next]_vars => Good'
<1> SUFFICES ASSUME GoodExchange(ex), [Next]_vars PROVE GoodExchange(ex')
  BY DEF Good
<1>0. PricesAssumption /\ ExchangeAssumption
  BY PricesAssumption, ExchangeAssumption
<1>1. ASSUME NEW side \in BookSide, NEW p \in Prices, NEW q \in LevelQtys,
             OnL2Update(side, p, q)
      PROVE  GoodExchange(ex')
  <2>1. q \in Nat
    BY <1>0 DEF ExchangeAssumption
  <2>2. QED
    BY <1>1, <2>1, ApplyL2UpdateGood DEF OnL2Update
<1>2. ASSUME NEW id \in OrderIds, NEW o \in Orders, OnOrder(id, o)
      PROVE  GoodExchange(ex')
  <2>1. id \in OrderId /\ o \in Order
    BY <1>0 DEF ExchangeAssumption, Orders, Order
  <2>2. QED
    BY <1>2, <2>1, SubmitOrderGood DEF OnOrder
<1>3. ASSUME NEW id \in OrderIds, OnLimitAck(id)
      PROVE  GoodExchange(ex')
  <2>1. GoodExchange(SetState(ex, id, "Open"))
    BY <1>3, SetStateKeepsGood DEF OnLimitAck, CanAckNew, OrderState
  <2>2. QED
    BY <1>3, <2>1 DEF OnLimitAck, AckNew
<1>4. ASSUME NEW id \in OrderIds, NEW f \in Fallbacks, OnMarketAck(id, f)
      PROVE  GoodExchange(ex')
  BY <1>4, ExecuteMarketGood DEF OnMarketAck, CanAckNew
<1>5. ASSUME NEW id \in OrderIds, OnCancel(id)
      PROVE  GoodExchange(ex')
  <2>1. id \in Live(ex) /\ StateOf(ex, id) # "Filled"
    BY <1>5 DEF OnCancel, CanCancelOrder, CanTransitionTo, LegalTransition
  <2>2. GoodExchange(SetState(ex, id, "PendingCancel"))
    BY <2>1, SetStateKeepsGood DEF OrderState
  <2>3. QED
    BY <1>5, <2>2 DEF OnCancel, CancelOrder
<1>6. ASSUME NEW id \in OrderIds, OnCancelAck(id)
      PROVE  GoodExchange(ex')
  <2>1. id \in Live(ex) /\ StateOf(ex, id) = "PendingCancel"
    BY <1>6 DEF OnCancelAck, CanAckCancel
  <2>2. GoodExchange(SetState(ex, id, "Cancelled"))
    BY <2>1, SetStateKeepsGood DEF OrderState
  <2>3. QED
    BY <1>6, <2>2 DEF OnCancelAck, AckCancel
<1>7. ASSUME NEW t \in Trades, OnTick(t)
      PROVE  GoodExchange(ex')
  <2>1. t.qty \in Nat
    BY <1>0 DEF ExchangeAssumption, Trades
  <2>2. QED
    BY <1>7, <2>1, OnTradeGood DEF OnTick
<1>8. ASSUME NEW id \in OrderIds, OnTerminalReport(id)
      PROVE  GoodExchange(ex')
  BY <1>8, RemoveOrderGood DEF OnTerminalReport
<1>9. CASE UNCHANGED vars
  BY <1>9 DEF vars
<1>10. QED
  BY <1>1, <1>2, <1>3, <1>4, <1>5, <1>6, <1>7, <1>8, <1>9 DEF Next

THEOREM ExchangeInductive == Spec => []Good
BY InitGood, NextGood, PTL DEF Spec

-----------------------------------------------------------------------------
\* The simulator's fields keep their types; quantities stay natural numbers.
THEOREM TypeCorrect == Spec => []TypeOK
<1>1. Good => TypeOK
  BY DEF Good, GoodExchange, TypeOK
<1>2. QED
  BY <1>1, ExchangeInductive, PTL

\* submit_order, on_trade, fill_market_immediately: no quantity is made or lost.
THEOREM QuantityIsConserved == Spec => []QuantityConserved
<1>1. Good => QuantityConserved
  BY DEF Good, GoodExchange, GoodOrders, GoodOrder, QuantityConserved
<1>2. QED
  BY <1>1, ExchangeInductive, PTL

\* submit_order and remove_order keep the on_trade index exact.
THEOREM IndexIsCoherent == Spec => []IndexCoherent
<1>1. Good => IndexCoherent
  BY DEF Good, GoodExchange, IndexCoherent
<1>2. QED
  BY <1>1, ExchangeInductive, PTL

\* VolumeClock::check_fill computes its closed form whatever the trades are.
THEOREM VolumeClockIsExact == Spec => []VolumeClockExact
<1>1. Good => VolumeClockExact
  BY DEF Good, GoodExchange, GoodOrders, GoodOrder, VolumeClockExact
<1>2. QED
  BY <1>1, ExchangeInductive, PTL

\* Conservative::check_fill never fills ahead of the queue.
THEOREM QueueComesFirst == Spec => []QueueBeforeFill
<1>1. Good => QueueBeforeFill
  BY DEF Good, GoodExchange, GoodOrders, GoodOrder, QueueBeforeFill
<1>2. QED
  BY <1>1, ExchangeInductive, PTL

-----------------------------------------------------------------------------
\* One step of the simulator leaves an order that is in a terminal state as it is.
LEMMA NextFreezes ==
  ASSUME GoodExchange(ex), [Next]_vars,
         NEW i \in Live(ex), i \in DOMAIN ex'.orders, IsTerminal(ex.orders[i].state)
  PROVE  ex'.orders[i] = ex.orders[i]
<1>0. WellTyped(ex) /\ StateOf(ex, i) \in Terminal
  BY DEF GoodExchange, IsTerminal, StateOf
<1>1. ASSUME NEW side \in BookSide, NEW p \in Prices, NEW q \in LevelQtys,
             OnL2Update(side, p, q)
      PROVE  ex'.orders[i] = ex.orders[i]
  BY <1>0, <1>1, Fields DEF OnL2Update, ApplyL2Update
<1>2. ASSUME NEW id \in OrderIds, NEW o \in Orders, OnOrder(id, o)
      PROVE  ex'.orders[i] = ex.orders[i]
  <2>1. ex.orders \in [Live(ex) -> LiveOrder] /\ i # id
    BY <1>0, <1>2, Fields DEF OnOrder
  <2>2. QED
    BY <1>2, <2>1 DEF OnOrder, SubmitOrder, Reindex, Insert
<1>3. ASSUME NEW id \in Live(ex), NEW s \in OrderState,
             StateOf(ex, id) \notin Terminal, ex' = SetState(ex, id, s)
      PROVE  ex'.orders[i] = ex.orders[i]
  BY <1>0, <1>3, SetStateOthers
<1>4. ASSUME NEW id \in OrderIds, OnLimitAck(id)
      PROVE  ex'.orders[i] = ex.orders[i]
  BY <1>3, <1>4 DEF OnLimitAck, CanAckNew, AckNew, Terminal, OrderState
<1>5. ASSUME NEW id \in OrderIds, NEW f \in Fallbacks, OnMarketAck(id, f)
      PROVE  ex'.orders[i] = ex.orders[i]
  <2> DEFINE y == FillMarketImmediately(ex, id, f)
  <2>1. id \in Live(ex) /\ i # id
    BY <1>0, <1>5 DEF OnMarketAck, CanAckNew, Terminal
  <2>2. Live(y) = Live(ex) /\ y.orders[i] = ex.orders[i]
    BY <1>0, <2>1, FillMarketOthers
  <2>3. ASSUME StateOf(y, id) = "PartiallyFilled"
        PROVE  ForceCancelPartialFill(y, id).orders[i] = ex.orders[i]
    <3>1. GoodExchange(y)
      BY <1>5, FillMarketGood DEF OnMarketAck, CanAckNew
    <3>2. QED
      BY <2>1, <2>2, <3>1, SetStateOthers DEF GoodExchange, ForceCancelPartialFill
  <2>4. QED
    BY <1>5, <2>2, <2>3 DEF OnMarketAck, ExecuteMarket
<1>6. ASSUME NEW id \in OrderIds, OnCancel(id)
      PROVE  ex'.orders[i] = ex.orders[i]
  BY <1>3, <1>6 DEF OnCancel, CanCancelOrder, CancelOrder, CanTransitionTo,
                    LegalTransition, Terminal, OrderState
<1>7. ASSUME NEW id \in OrderIds, OnCancelAck(id)
      PROVE  ex'.orders[i] = ex.orders[i]
  BY <1>3, <1>7 DEF OnCancelAck, CanAckCancel, AckCancel, Terminal, OrderState
<1>8. ASSUME NEW t \in Trades, OnTick(t)
      PROVE  ex'.orders[i] = ex.orders[i]
  <2> DEFINE orders == [id \in Live(ex) |->
                          IF id \in Asked(ex, t)
                          THEN AfterAnswer(ex.orders[id], Answer(ex, t, id))
                          ELSE ex.orders[id]]
  <2>1. i \notin Asked(ex, t)
    BY <1>0 DEF Asked, Fillable, Terminal
  <2>2. ex' = [ex EXCEPT !.orders = orders]
    BY <1>8 DEF OnTick, OnTrade
  <2>3. orders[i] = ex.orders[i]
    BY <2>1
  <2> HIDE DEF orders
  <2>4. ex'.orders = orders
    BY <1>0, <2>2, Fields
  <2>5. QED
    BY <2>3, <2>4
<1>9. ASSUME NEW id \in OrderIds, OnTerminalReport(id)
      PROVE  ex'.orders[i] = ex.orders[i]
  <2>1. id \in Live(ex) /\ ex' = RemoveOrder(ex, id)
    BY <1>9 DEF OnTerminalReport
  <2>2. ex'.orders = Erase(ex.orders, id)
    BY <2>1 DEF RemoveOrder, Reindex
  <2>3. QED
    BY <2>2 DEF Erase
<1>10. CASE UNCHANGED vars
  BY <1>10 DEF vars
<1>11. QED
  BY <1>1, <1>2, <1>4, <1>5, <1>6, <1>7, <1>8, <1>9, <1>10 DEF Next

\* on_trade, ack_cancel, force_cancel: nothing changes a terminal order.
THEOREM TerminalIsFrozen == Spec => TerminalFrozen
<1>1. Good /\ [Next]_vars =>
        [\A id \in Live(ex) \cap DOMAIN ex'.orders :
           IsTerminal(ex.orders[id].state) => ex'.orders[id] = ex.orders[id]]_vars
  BY NextFreezes DEF Good
<1>2. QED
  BY <1>1, ExchangeInductive, PTL DEF Spec, TerminalFrozen

-----------------------------------------------------------------------------
(***************************************************************************)
(* Conservative and VolumeClock cannot be told apart, for every set of     *)
(* prices, orders, quantities, levels and trades.  ModelsAgree alone is    *)
(* not inductive: the next trade's fills depend on the queue states.  What *)
(* relates them is that the conservative model's quantity ahead is what    *)
(* the volume clock's trades have left of it, and that a volume-clock      *)
(* order has claimed what it was filled (ExchangeLemmas).                  *)
(***************************************************************************)
\* What the volume that has traded leaves of the quantity ahead at entry.
LeftAhead(q) == IF q.cum < q.ahead THEN q.ahead - q.cum ELSE 0

\* One order under the conservative model (c) and the volume clock (v).  A
\* market order is executed in one step and never waits for a trade.
Alike(c, v) ==
  /\ Visible(c) = Visible(v)
  /\ c.queue.ahead = LeftAhead(v.queue)
  /\ c.type # "Limit" => c.state \notin Fillable

Twins(x, y) ==
  /\ x.model = "Conservative" /\ y.model = "VolumeClock"
  /\ GoodExchange(x) /\ GoodExchange(y)
  /\ Live(x) = Live(y)
  /\ x.book = y.book /\ x.buckets = y.buckets
  /\ \A id \in Live(x) : Alike(x.orders[id], y.orders[id])

-----------------------------------------------------------------------------
(***************************************************************************)
(* One trade: both check_fill give the same fill, and leave queue states   *)
(* that are still related.                                                 *)
(***************************************************************************)
LEMMA AnswersAgree ==
  ASSUME NEW c \in LiveOrder, NEW v \in LiveOrder, Alike(c, v),
         Conserved(v), Claimed(v), v.remaining > 0, v.state \in Fillable,
         NEW volume \in Nat
  PROVE  LET a == CheckFill("Conservative", c.queue, c.remaining, volume)
             b == CheckFill("VolumeClock", v.queue, v.remaining, volume)
         IN  a.fill = b.fill /\ a.queue.ahead = LeftAhead(b.queue)
<1> DEFINE a == CheckFill("Conservative", c.queue, c.remaining, volume)
           b == CheckFill("VolumeClock", v.queue, v.remaining, volume)
<1>1. /\ c.queue \in QueueState /\ v.queue \in QueueState
      /\ v.remaining \in Nat /\ v.filled \in Nat /\ v.qty \in Nat
  BY DEF LiveOrder
<1>2. /\ c.remaining = v.remaining /\ v.type = "Limit"
      /\ c.queue.ahead = LeftAhead(v.queue)
  BY DEF Alike, Visible
<1>3. v.queue.claimed = Past(v.queue)
  BY <1>1, <1>2 DEF Conserved, Claimed, Past, Lesser, QueueState
<1>4. CASE volume = 0
  BY <1>2, <1>4 DEF CheckFill
<1>5. CASE volume > 0
  <2> DEFINE used == Lesser(c.queue.ahead, volume)
             qty  == VolumeClockQty(v.queue, v.remaining, volume)
  <2>1. /\ v.queue.ahead \in Nat /\ v.queue.cum \in Nat /\ v.queue.claimed \in Nat
        /\ c.queue.ahead \in Nat
    BY <1>1 DEF QueueState
  <2>2. /\ a.fill = Lesser(volume - used, v.remaining)
        /\ a.queue.ahead = c.queue.ahead - used
    BY <1>1, <1>2, <1>5 DEF CheckFill, ConservativeFill, QueueState
  <2>3. /\ b.fill = qty
        /\ b.queue.ahead = v.queue.ahead
        /\ b.queue.cum = v.queue.cum + volume
    BY <1>5 DEF CheckFill, VolumeClockFill
  <2>4. Lesser(volume - used, v.remaining) = qty
    <3> DEFINE past == v.queue.cum + volume - v.queue.ahead
               claimed == v.queue.claimed
               behind  == volume - used
    <3>1. qty = IF past <= claimed THEN 0 ELSE Lesser(past - claimed, v.remaining)
      BY DEF VolumeClockQty
    <3>2. behind = IF past <= claimed THEN 0 ELSE past - claimed
      BY <1>2, <1>3, <1>5, <2>1 DEF Lesser, LeftAhead, Past
    <3> HIDE DEF past, claimed, behind, qty, used
    <3>3. Lesser(behind, v.remaining) = qty
      BY <1>1, <3>1, <3>2 DEF Lesser
    <3>4. QED
      BY <3>3 DEF behind
  <2>5. c.queue.ahead - used = LeftAhead(b.queue)
    BY <1>2, <1>5, <2>1, <2>3 DEF Lesser, LeftAhead
  <2>6. QED
    BY <2>2, <2>3, <2>4, <2>5
<1>6. QED
  BY <1>4, <1>5

-----------------------------------------------------------------------------
\* Two good simulators with twin orders, book and index are twins.
LEMMA ReplaceBoth ==
  ASSUME NEW x, NEW y, Twins(x, y),
         NEW f \in [Live(x) -> LiveOrder], NEW g \in [Live(x) -> LiveOrder],
         GoodExchange([x EXCEPT !.orders = f]),
         GoodExchange([y EXCEPT !.orders = g]),
         \A id \in Live(x) : Alike(f[id], g[id])
  PROVE  Twins([x EXCEPT !.orders = f], [y EXCEPT !.orders = g])
<1>1. WellTyped(x) /\ WellTyped(y)
  BY DEF Twins, GoodExchange
<1>2. /\ [x EXCEPT !.orders = f] = [model |-> x.model, book |-> x.book,
                                    orders |-> f, buckets |-> x.buckets]
      /\ [y EXCEPT !.orders = g] = [model |-> y.model, book |-> y.book,
                                    orders |-> g, buckets |-> y.buckets]
  BY <1>1, Fields
<1>3. QED
  BY <1>2 DEF Twins, Live

\* The case of one order.
LEMMA ReplaceOneOfBoth ==
  ASSUME NEW x, NEW y, Twins(x, y), NEW id \in Live(x),
         NEW c \in LiveOrder, NEW v \in LiveOrder, Alike(c, v),
         GoodExchange([x EXCEPT !.orders[id] = c]),
         GoodExchange([y EXCEPT !.orders[id] = v])
  PROVE  Twins([x EXCEPT !.orders[id] = c], [y EXCEPT !.orders[id] = v])
<1> DEFINE f == [x.orders EXCEPT ![id] = c]
           g == [y.orders EXCEPT ![id] = v]
<1>1. /\ WellTyped(x) /\ WellTyped(y) /\ Live(x) = Live(y)
      /\ \A i \in Live(x) : Alike(x.orders[i], y.orders[i])
  BY DEF Twins, GoodExchange
<1>2. x.orders \in [Live(x) -> LiveOrder] /\ y.orders \in [Live(x) -> LiveOrder]
  BY <1>1, Fields
<1>3. f \in [Live(x) -> LiveOrder] /\ g \in [Live(x) -> LiveOrder]
  BY <1>2
<1>4. \A i \in Live(x) : Alike(f[i], g[i])
  BY <1>1, <1>2
<1>5. /\ [x EXCEPT !.orders[id] = c] = [x EXCEPT !.orders = f]
      /\ [y EXCEPT !.orders[id] = v] = [y EXCEPT !.orders = g]
  BY <1>1, Fields
<1> HIDE DEF f, g
<1>6. QED
  BY <1>3, <1>4, <1>5, ReplaceBoth

\* The case of one order's state.
LEMMA SetStateOfBoth ==
  ASSUME NEW x, NEW y, Twins(x, y), NEW id \in Live(x), NEW s \in OrderState,
         x.orders[id].type # "Limit" => s \notin Fillable,
         s # "Filled", StateOf(x, id) # "Filled"
  PROVE  Twins(SetState(x, id, s), SetState(y, id, s))
<1> DEFINE c == [x.orders[id] EXCEPT !.state = s]
           v == [y.orders[id] EXCEPT !.state = s]
<1>1. /\ GoodExchange(x) /\ GoodExchange(y) /\ id \in Live(y)
      /\ WellTyped(x) /\ WellTyped(y)
      /\ Alike(x.orders[id], y.orders[id])
  BY DEF Twins, GoodExchange
<1>2. x.orders[id] \in LiveOrder /\ y.orders[id] \in LiveOrder
  BY <1>1, Fields
<1>3. StateOf(y, id) # "Filled"
  BY <1>1 DEF StateOf, Alike, Visible
<1>4. GoodExchange(SetState(x, id, s)) /\ GoodExchange(SetState(y, id, s))
  BY <1>1, <1>3, SetStateKeepsGood
<1>5. /\ SetState(x, id, s) = [x EXCEPT !.orders[id] = c]
      /\ SetState(y, id, s) = [y EXCEPT !.orders[id] = v]
  BY DEF SetState
<1>6. c \in LiveOrder /\ v \in LiveOrder
  BY <1>2 DEF LiveOrder
<1>7. Alike(c, v)
  BY <1>1, <1>2 DEF Alike, Visible, LiveOrder
<1> HIDE DEF c, v
<1>8. QED
  BY <1>4, <1>5, <1>6, <1>7, ReplaceOneOfBoth

\* apply_l2_update.
LEMMA UpdateBoth ==
  ASSUME NEW x, NEW y, Twins(x, y), NEW side, NEW p \in Prices, NEW q \in Nat
  PROVE  Twins(ApplyL2Update(x, side, p, q), ApplyL2Update(y, side, p, q))
<1> DEFINE b == ApplyL2(x.book, side, p, q)
<1>1. /\ GoodExchange(x) /\ GoodExchange(y)
      /\ WellTyped(x) /\ WellTyped(y) /\ x.book = y.book
  BY DEF Twins, GoodExchange
<1>2. /\ GoodExchange(ApplyL2Update(x, side, p, q))
      /\ GoodExchange(ApplyL2Update(y, side, p, q))
  BY <1>1, ApplyL2UpdateGood
<1>3. /\ ApplyL2Update(x, side, p, q) = [model |-> x.model, book |-> b,
           orders |-> x.orders, buckets |-> x.buckets]
      /\ ApplyL2Update(y, side, p, q) = [model |-> y.model, book |-> b,
           orders |-> y.orders, buckets |-> y.buckets]
  BY <1>1, Fields DEF ApplyL2Update
<1> HIDE DEF b
<1>4. QED
  BY <1>2, <1>3 DEF Twins, Live

\* submit_order: both see the same level, and nothing has traded yet.
LEMMA SubmitBoth ==
  ASSUME NEW x, NEW y, Twins(x, y), NEW id \in OrderId, id \notin Live(x),
         NEW o \in Order
  PROVE  Twins(SubmitOrder(x, id, o), SubmitOrder(y, id, o))
<1> DEFINE new == [side |-> o.side, type |-> o.type, price |-> o.price,
                   qty |-> o.qty, state |-> "PendingNew", filled |-> 0,
                   remaining |-> o.qty,
                   queue |-> RegisterOrder(LevelQty(x.book, o.side, o.price))]
           key == BucketOf(o)
           ids == Append(x.buckets[key], id)
           a   == SubmitOrder(x, id, o)
           b   == SubmitOrder(y, id, o)
<1>1. /\ GoodExchange(x) /\ GoodExchange(y)
      /\ WellTyped(x) /\ WellTyped(y) /\ Live(x) = Live(y)
      /\ x.book = y.book /\ x.buckets = y.buckets
      /\ x.model = "Conservative" /\ y.model = "VolumeClock"
      /\ \A i \in Live(x) : Alike(x.orders[i], y.orders[i])
  BY DEF Twins, GoodExchange
<1>2. GoodExchange(a) /\ GoodExchange(b)
  BY <1>1, SubmitOrderGood
<1>3. /\ a = Reindex(x, key, ids, Insert(x.orders, id, new))
      /\ b = Reindex(y, key, ids, Insert(y.orders, id, new))
  BY <1>1 DEF SubmitOrder
<1>4. LevelQty(x.book, o.side, o.price) \in Nat
  BY <1>1, Fields DEF LevelQty, Book, BookSide, Order
<1>5. Alike(new, new)
  BY <1>4 DEF Alike, Visible, LeftAhead, RegisterOrder, Fillable
<1> HIDE DEF new, key, ids, a, b
<1>6. /\ a.model = x.model /\ a.book = x.book
      /\ a.orders = Insert(x.orders, id, new)
      /\ a.buckets = [x.buckets EXCEPT ![key] = ids]
      /\ b.model = y.model /\ b.book = y.book
      /\ b.orders = Insert(y.orders, id, new)
      /\ b.buckets = [y.buckets EXCEPT ![key] = ids]
  BY <1>3 DEF Reindex
<1>7. /\ Live(a) = Live(x) \cup {id} /\ Live(b) = Live(x) \cup {id}
      /\ a.orders[id] = new /\ b.orders[id] = new
      /\ \A i \in Live(x) : a.orders[i] = x.orders[i] /\ b.orders[i] = y.orders[i]
  BY <1>1, <1>6 DEF Insert, Live
<1>8. \A i \in Live(a) : Alike(a.orders[i], b.orders[i])
  BY <1>1, <1>5, <1>7
<1>9. QED
  BY <1>1, <1>2, <1>6, <1>7, <1>8 DEF Twins, a, b

\* remove_order.
LEMMA RemoveBoth ==
  ASSUME NEW x, NEW y, Twins(x, y), NEW id \in Live(x)
  PROVE  Twins(RemoveOrder(x, id), RemoveOrder(y, id))
<1> DEFINE key == BucketOf(x.orders[id])
           ids == IF InBucket(x, key, id)
                  THEN DropAt(x.buckets[key], PositionIn(x.buckets[key], id))
                  ELSE x.buckets[key]
           a   == RemoveOrder(x, id)
           b   == RemoveOrder(y, id)
<1>1. /\ GoodExchange(x) /\ GoodExchange(y) /\ Live(x) = Live(y)
      /\ x.book = y.book /\ x.buckets = y.buckets
      /\ x.model = "Conservative" /\ y.model = "VolumeClock"
      /\ \A i \in Live(x) : Alike(x.orders[i], y.orders[i])
  BY DEF Twins
<1>2. GoodExchange(a) /\ GoodExchange(b)
  BY <1>1, RemoveOrderGood
<1>3. BucketOf(y.orders[id]) = key
  BY <1>1 DEF BucketOf, Alike, Visible
<1>4. /\ a = Reindex(x, key, ids, Erase(x.orders, id))
      /\ b = Reindex(y, key, ids, Erase(y.orders, id))
  BY <1>1, <1>3 DEF RemoveOrder, InBucket
<1> HIDE DEF key, ids, a, b
<1>5. /\ a.model = x.model /\ a.book = x.book
      /\ a.orders = Erase(x.orders, id)
      /\ a.buckets = [x.buckets EXCEPT ![key] = ids]
      /\ b.model = y.model /\ b.book = y.book
      /\ b.orders = Erase(y.orders, id)
      /\ b.buckets = [y.buckets EXCEPT ![key] = ids]
  BY <1>4 DEF Reindex
<1>6. /\ Live(a) = Live(x) \ {id} /\ Live(b) = Live(x) \ {id}
      /\ \A i \in Live(a) : a.orders[i] = x.orders[i] /\ b.orders[i] = y.orders[i]
  BY <1>1, <1>5 DEF Erase, Live
<1>7. QED
  BY <1>1, <1>2, <1>5, <1>6 DEF Twins, a, b

\* The second of two writes to one order is what stays.
LEMMA Overwrite ==
  ASSUME NEW x, WellTyped(x), NEW id \in Live(x), NEW n, NEW m
  PROVE  [[x EXCEPT !.orders[id] = n] EXCEPT !.orders[id] = m]
           = [x EXCEPT !.orders[id] = m]
<1>1. x.orders \in [Live(x) -> LiveOrder]
  BY Fields
<1>2. x = [model |-> x.model, book |-> x.book, orders |-> x.orders,
           buckets |-> x.buckets]
  BY Fields
<1>3. [[x.orders EXCEPT ![id] = n] EXCEPT ![id] = m] = [x.orders EXCEPT ![id] = m]
  BY <1>1
<1>4. QED
  BY <1>1, <1>2, <1>3

\* fill_market_immediately and force_cancel_partial_fill: both see the same
\* best level, and no market order is left for a trade.
LEMMA ExecuteBoth ==
  ASSUME NEW x, NEW y, Twins(x, y), NEW id \in Live(x), NEW fallback,
         x.orders[id].type = "Market", StateOf(x, id) = "PendingNew"
  PROVE  Twins(ExecuteMarket(x, id, fallback), ExecuteMarket(y, id, fallback))
<1> DEFINE ox  == x.orders[id]
           oy  == y.orders[id]
           qty == MarketFillQty(x, ox, fallback)
           c   == AfterExecution(ox, qty)
           v   == AfterExecution(oy, qty)
           cut == [c EXCEPT !.state = "Cancelled"]
           vut == [v EXCEPT !.state = "Cancelled"]
           a   == [x EXCEPT !.orders[id] = c]
           b   == [y EXCEPT !.orders[id] = v]
<1>1. /\ GoodExchange(x) /\ GoodExchange(y) /\ id \in Live(y)
      /\ WellTyped(x) /\ WellTyped(y) /\ x.book = y.book
      /\ Alike(ox, oy)
  BY DEF Twins, GoodExchange
<1>2. ox \in LiveOrder /\ oy \in LiveOrder
  BY <1>1, Fields
<1>3. /\ ox.side = oy.side /\ ox.type = oy.type /\ ox.price = oy.price
      /\ ox.qty = oy.qty /\ ox.state = oy.state
      /\ ox.queue.ahead = LeftAhead(oy.queue)
  BY <1>1 DEF Alike, Visible
<1>4. oy.type = "Market" /\ StateOf(y, id) = "PendingNew"
  BY <1>3 DEF StateOf
<1>5. /\ GoodExchange(ExecuteMarket(x, id, fallback))
      /\ GoodExchange(ExecuteMarket(y, id, fallback))
  BY <1>1, <1>4, ExecuteMarketGood
<1>6. /\ GoodExchange(FillMarketImmediately(x, id, fallback))
      /\ GoodExchange(FillMarketImmediately(y, id, fallback))
  BY <1>1, <1>4, FillMarketGood
<1>7. /\ MarketPrice(y, oy.side, fallback) = MarketPrice(x, ox.side, fallback)
      /\ MarketFillQty(y, oy, fallback) = qty
  BY <1>1, <1>3 DEF MarketPrice, MarketFillQty, BestOpposite
<1>8. CASE MarketPrice(x, ox.side, fallback) = NoPrice
  <2>1. /\ FillMarketImmediately(x, id, fallback) = SetState(x, id, "Rejected")
        /\ FillMarketImmediately(y, id, fallback) = SetState(y, id, "Rejected")
    BY <1>7, <1>8 DEF FillMarketImmediately
  <2>2. /\ StateOf(SetState(x, id, "Rejected"), id) = "Rejected"
        /\ StateOf(SetState(y, id, "Rejected"), id) = "Rejected"
    <3> DEFINE nx == [ox EXCEPT !.state = "Rejected"]
               ny == [oy EXCEPT !.state = "Rejected"]
               sx == [x EXCEPT !.orders[id] = nx]
               sy == [y EXCEPT !.orders[id] = ny]
    <3>1. /\ SetState(x, id, "Rejected") = sx
          /\ SetState(y, id, "Rejected") = sy
      BY DEF SetState
    <3>2. nx.state = "Rejected" /\ ny.state = "Rejected"
      BY <1>2 DEF LiveOrder
    <3> HIDE DEF nx, ny
    <3>3. sx.orders[id] = nx /\ Live(sx) = Live(x)
      BY <1>1, OneOrderOthers
    <3>4. sy.orders[id] = ny /\ Live(sy) = Live(y)
      BY <1>1, OneOrderOthers
    <3> HIDE DEF sx, sy
    <3>5. QED
      BY <3>1, <3>2, <3>3, <3>4 DEF StateOf
  <2>3. Twins(SetState(x, id, "Rejected"), SetState(y, id, "Rejected"))
    BY SetStateOfBoth DEF OrderState, Fillable
  <2>4. QED
    BY <2>1, <2>2, <2>3 DEF ExecuteMarket
<1>9. CASE MarketPrice(x, ox.side, fallback) # NoPrice
  <2>1. /\ FillMarketImmediately(x, id, fallback) = a
        /\ FillMarketImmediately(y, id, fallback) = b
    BY <1>7, <1>9 DEF FillMarketImmediately
  <2>2. /\ a.orders[id] = c /\ b.orders[id] = v
        /\ Live(a) = Live(x) /\ Live(b) = Live(y)
    <3> HIDE DEF c, v
    <3>1. a.orders[id] = c /\ Live(a) = Live(x)
      BY <1>1, OneOrderOthers
    <3>2. b.orders[id] = v /\ Live(b) = Live(y)
      BY <1>1, OneOrderOthers
    <3>3. QED
      BY <3>1, <3>2
  <2>3. c \in LiveOrder /\ v \in LiveOrder
    <3>1. WellTyped(a) /\ WellTyped(b)
      BY <1>6, <2>1 DEF GoodExchange
    <3> HIDE DEF a, b, c, v
    <3>2. QED
      BY <1>1, <2>2, <3>1, Fields
  <2>4. /\ c.side = v.side /\ c.type = v.type /\ c.price = v.price
        /\ c.qty = v.qty /\ c.state = v.state /\ c.filled = v.filled
        /\ c.remaining = v.remaining
        /\ c.queue.ahead = LeftAhead(v.queue)
        /\ c.state = AfterFill(ox.qty - qty)
    BY <1>2, <1>3 DEF AfterExecution, LiveOrder
  <2> HIDE DEF c, v
  <2>5. CASE c.state = "PartiallyFilled"
    <3>1. /\ ExecuteMarket(x, id, fallback) = [a EXCEPT !.orders[id].state = "Cancelled"]
          /\ ExecuteMarket(y, id, fallback) = [b EXCEPT !.orders[id].state = "Cancelled"]
      <4> HIDE DEF a, b
      <4>1. StateOf(a, id) = "PartiallyFilled" /\ StateOf(b, id) = "PartiallyFilled"
        BY <2>2, <2>4, <2>5 DEF StateOf
      <4>2. /\ ExecuteMarket(x, id, fallback) = ForceCancelPartialFill(a, id)
            /\ ExecuteMarket(y, id, fallback) = ForceCancelPartialFill(b, id)
        BY <2>1, <4>1 DEF ExecuteMarket
      <4>3. QED
        BY <4>2 DEF ForceCancelPartialFill, SetState
    <3>2. /\ [a EXCEPT !.orders[id].state = "Cancelled"] = [x EXCEPT !.orders[id] = cut]
          /\ [b EXCEPT !.orders[id].state = "Cancelled"] = [y EXCEPT !.orders[id] = vut]
      <4>1. /\ [a EXCEPT !.orders[id].state = "Cancelled"] = [a EXCEPT !.orders[id] = cut]
            /\ [b EXCEPT !.orders[id].state = "Cancelled"] = [b EXCEPT !.orders[id] = vut]
        BY <2>2
      <4> HIDE DEF cut, vut
      <4>2. [a EXCEPT !.orders[id] = cut] = [x EXCEPT !.orders[id] = cut]
        BY ZenonT(60), <1>1, Overwrite
      <4>3. [b EXCEPT !.orders[id] = vut] = [y EXCEPT !.orders[id] = vut]
        BY <1>1, Overwrite
      <4>4. QED
        BY <4>1, <4>2, <4>3
    <3>3. cut \in LiveOrder /\ vut \in LiveOrder
      BY <2>3 DEF LiveOrder, OrderState
    <3>4. Alike(cut, vut)
      BY <2>3, <2>4 DEF Alike, Visible, LiveOrder, Fillable
    <3> HIDE DEF cut, vut, a, b
    <3>5. /\ ExecuteMarket(x, id, fallback) = [x EXCEPT !.orders[id] = cut]
          /\ ExecuteMarket(y, id, fallback) = [y EXCEPT !.orders[id] = vut]
      BY <3>1, <3>2
    <3>6. Twins([x EXCEPT !.orders[id] = cut], [y EXCEPT !.orders[id] = vut])
      BY <1>5, <3>3, <3>4, <3>5, ReplaceOneOfBoth
    <3>7. QED
      BY <3>5, <3>6
  <2>6. CASE c.state # "PartiallyFilled"
    <3>1. ExecuteMarket(x, id, fallback) = a /\ ExecuteMarket(y, id, fallback) = b
      BY ZenonT(60), <2>1, <2>2, <2>4, <2>6 DEF ExecuteMarket, StateOf
    <3>2. Alike(c, v)
      BY <2>4, <2>6 DEF Alike, Visible, AfterFill, Fillable
    <3>3. QED
      BY <1>5, <2>3, <3>1, <3>2, ReplaceOneOfBoth
  <2>7. QED
    BY <2>5, <2>6
<1>10. QED
  BY <1>8, <1>9

\* on_trade asks the same orders, and every one of them gets the same answer.
LEMMA TradeBoth ==
  ASSUME NEW x, NEW y, Twins(x, y), NEW trade, trade.qty \in Nat
  PROVE  /\ Asked(x, trade) = Asked(y, trade)
         /\ \A id \in Asked(x, trade) :
              Answer(x, trade, id).fill = Answer(y, trade, id).fill
         /\ Twins(OnTrade(x, trade), OnTrade(y, trade))
<1> DEFINE f == [id \in Live(x) |-> IF id \in Asked(x, trade)
                   THEN AfterAnswer(x.orders[id], Answer(x, trade, id))
                   ELSE x.orders[id]]
           g == [id \in Live(y) |-> IF id \in Asked(y, trade)
                   THEN AfterAnswer(y.orders[id], Answer(y, trade, id))
                   ELSE y.orders[id]]
<1>1. /\ GoodExchange(x) /\ GoodExchange(y) /\ WellTyped(x) /\ WellTyped(y)
      /\ Live(x) = Live(y) /\ x.buckets = y.buckets
      /\ x.model = "Conservative" /\ y.model = "VolumeClock"
      /\ \A id \in Live(x) : Alike(x.orders[id], y.orders[id])
      /\ \A id \in Live(x) : GoodOrder(y.model, y.orders[id])
  BY DEF Twins, GoodExchange, GoodOrders
<1>2. /\ x.orders \in [Live(x) -> LiveOrder]
      /\ y.orders \in [Live(x) -> LiveOrder]
  BY <1>1, Fields
<1>3. Asked(x, trade) = Asked(y, trade) /\ Asked(x, trade) \subseteq Live(x)
  BY <1>1 DEF Asked, InBucket, StateOf, Alike, Visible
<1>4. ASSUME NEW id \in Asked(x, trade)
      PROVE  /\ Answer(x, trade, id).fill = Answer(y, trade, id).fill
             /\ Answer(x, trade, id).queue.ahead = LeftAhead(Answer(y, trade, id).queue)
             /\ x.orders[id].type = "Limit"
             /\ Answer(x, trade, id).fill \in Nat
             /\ Answer(x, trade, id).fill <= x.orders[id].remaining
  <2>1. /\ id \in Live(x) /\ y.orders[id].remaining > 0
        /\ y.orders[id].state \in Fillable
        /\ x.orders[id].remaining > 0 /\ x.orders[id].state \in Fillable
    BY <1>3 DEF Asked, StateOf
  <2>2. Conserved(y.orders[id]) /\ Claimed(y.orders[id])
    BY <1>1, <2>1 DEF GoodOrder
  <2>3. x.orders[id] \in LiveOrder /\ y.orders[id] \in LiveOrder
    BY <1>2, <2>1
  <2>4. /\ Answer(x, trade, id).fill = Answer(y, trade, id).fill
        /\ Answer(x, trade, id).queue.ahead = LeftAhead(Answer(y, trade, id).queue)
    BY SMTT(60), <1>1, <2>1, <2>2, <2>3, AnswersAgree DEF Answer
  <2>5. x.orders[id].type = "Limit"
    BY <1>1, <2>1 DEF Alike
  <2>6. x.orders[id].queue \in QueueState /\ x.orders[id].remaining \in Nat
    BY <2>3 DEF LiveOrder
  <2>7. QED
    BY <1>1, <2>4, <2>5, <2>6, CheckFillBounds DEF Answer, QueueModel
<1>5. GoodExchange(OnTrade(x, trade)) /\ GoodExchange(OnTrade(y, trade))
  BY <1>1, OnTradeGood
<1>6. /\ OnTrade(x, trade) = [x EXCEPT !.orders = f]
      /\ OnTrade(y, trade) = [y EXCEPT !.orders = g]
  BY DEF OnTrade
<1>7. f \in [Live(x) -> LiveOrder] /\ g \in [Live(x) -> LiveOrder]
  <2>1. /\ OnTrade(x, trade).orders = f /\ OnTrade(y, trade).orders = g
    <3> HIDE DEF f, g
    <3>1. QED
      BY <1>1, <1>6, Fields
  <2>2. WellTyped(OnTrade(x, trade)) /\ WellTyped(OnTrade(y, trade))
    BY <1>5 DEF GoodExchange
  <2>3. /\ f \in [DOMAIN f -> LiveOrder] /\ g \in [DOMAIN g -> LiveOrder]
    <3> HIDE DEF f, g
    <3>1. QED
      BY <2>1, <2>2, Fields DEF Live
  <2>4. DOMAIN f = Live(x) /\ DOMAIN g = Live(x)
    BY <1>1
  <2> HIDE DEF f, g
  <2>5. QED
    BY <2>3, <2>4
<1>8. ASSUME NEW id \in Live(x)
      PROVE  Alike(f[id], g[id])
  <2>1. CASE id \notin Asked(x, trade)
    BY <1>1, <1>3, <2>1
  <2>2. CASE id \in Asked(x, trade)
    <3> DEFINE c == x.orders[id]
               v == y.orders[id]
               a == Answer(x, trade, id)
               b == Answer(y, trade, id)
    <3>1. f[id] = AfterAnswer(c, a) /\ g[id] = AfterAnswer(v, b)
      BY <1>1, <1>3, <2>2
    <3>2. c \in LiveOrder /\ v \in LiveOrder /\ Alike(c, v)
      BY <1>1, <1>2
    <3>3. /\ a.fill = b.fill /\ a.queue.ahead = LeftAhead(b.queue)
          /\ c.type = "Limit" /\ a.fill \in Nat
      BY <1>4, <2>2
    <3> HIDE DEF c, v, a, b
    <3>4. /\ c.side = v.side /\ c.type = v.type /\ c.price = v.price
          /\ c.qty = v.qty /\ c.state = v.state /\ c.filled = v.filled
          /\ c.remaining = v.remaining
      BY <3>2 DEF Alike, Visible
    <3>5. Visible(AfterAnswer(c, a)) = Visible(AfterAnswer(v, b))
      BY <3>2, <3>3, <3>4 DEF AfterAnswer, Visible, LiveOrder
    <3>6. /\ AfterAnswer(c, a).queue = a.queue
          /\ AfterAnswer(v, b).queue = b.queue
          /\ AfterAnswer(c, a).type = "Limit"
      BY <3>2, <3>3 DEF AfterAnswer, LiveOrder
    <3>7. QED
      BY <3>1, <3>3, <3>5, <3>6 DEF Alike
  <2>3. QED
    BY <2>1, <2>2
<1> HIDE DEF f, g
<1>9. Twins(OnTrade(x, trade), OnTrade(y, trade))
  BY <1>5, <1>6, <1>7, <1>8, ReplaceBoth
<1>10. QED
  BY <1>3, <1>4, <1>9

-----------------------------------------------------------------------------
\* ex may have either of the two models.
Matched == Twins(ex, twin) \/ Twins(twin, ex)

LEMMA BothInitMatched == BothInit => Matched
<1> SUFFICES ASSUME BothInit PROVE Matched
  OBVIOUS
<1>1. PICK m \in Models : ex = NewExchange(m)
  BY DEF BothInit, Init
<1>2. m \in QueueModel
  BY ExchangeAssumption
<1>3. ex.model = m /\ twin = NewExchange(OtherModel(m))
  BY <1>1 DEF BothInit, NewExchange
<1>4. OtherModel(m) \in QueueModel
  BY DEF OtherModel, QueueModel
<1>5. GoodExchange(ex) /\ GoodExchange(twin)
  BY <1>1, <1>2, <1>3, <1>4, NewExchangeGood
<1>6. Live(ex) = {} /\ Live(twin) = {}
  BY <1>1, <1>3 DEF Live, NewExchange
<1>7. /\ ex.book = twin.book /\ ex.buckets = twin.buckets
      /\ twin.model = OtherModel(m)
  BY <1>1, <1>3 DEF NewExchange
<1>8. QED
  BY <1>2, <1>3, <1>5, <1>6, <1>7 DEF Matched, Twins, OtherModel, QueueModel

\* The methods of ExchangeSimulator's copy T are those of this module.
LEMMA SameMethods ==
  ASSUME NEW x, NEW i, NEW o, NEW p, NEW q, NEW s, NEW f, NEW t
  PROVE  /\ T!ApplyL2Update(x, i, p, q) = ApplyL2Update(x, i, p, q)
         /\ T!SubmitOrder(x, i, o) = SubmitOrder(x, i, o)
         /\ T!SetState(x, i, s) = SetState(x, i, s)
         /\ T!ExecuteMarket(x, i, f) = ExecuteMarket(x, i, f)
         /\ T!OnTrade(x, t) = OnTrade(x, t)
         /\ T!RemoveOrder(x, i) = RemoveOrder(x, i)
<1>1. T!ApplyL2Update(x, i, p, q) = ApplyL2Update(x, i, p, q)
  BY DEF T!ApplyL2Update, T!ApplyL2, T!BookSide, ApplyL2Update,
         ApplyL2, BookSide
<1>2. T!SubmitOrder(x, i, o) = SubmitOrder(x, i, o)
  BY DEF T!SubmitOrder, T!Reindex, T!BucketOf, T!Insert,
         T!RegisterOrder, T!LevelQty, T!BookSide, SubmitOrder, Reindex,
         BucketOf, Insert, RegisterOrder, LevelQty, BookSide
<1>3. T!SetState(x, i, s) = SetState(x, i, s)
  BY SMTT(60) DEF T!SetState, SetState
<1>4. T!ExecuteMarket(x, i, f) = ExecuteMarket(x, i, f)
  BY DEF T!ExecuteMarket, T!FillMarketImmediately,
         T!ForceCancelPartialFill, T!SetState, T!StateOf,
         T!MarketPrice, T!MarketFillQty, T!BestOpposite, T!BestAsk,
         T!BestBid, T!AnyOf, T!Highest, T!Lowest, T!Quoted, T!NoPrice,
         T!MakerSide, T!Lesser, T!AfterExecution, T!AfterFill,
         ExecuteMarket, FillMarketImmediately, ForceCancelPartialFill,
         SetState, StateOf, MarketPrice, MarketFillQty, BestOpposite,
         BestAsk, BestBid, AnyOf, Highest, Lowest, Quoted, NoPrice,
         MakerSide, Lesser, AfterExecution, AfterFill
<1>5. T!OnTrade(x, t) = OnTrade(x, t)
  BY DEF T!OnTrade, T!Live, T!Asked, T!MakerSide, T!InBucket,
         T!StateOf, T!Fillable, T!AfterAnswer, T!Answer, T!AfterFill,
         T!CheckFill, T!ConservativeFill, T!VolumeClockFill,
         T!VolumeClockQty, T!Lesser, OnTrade, Live, Asked, MakerSide,
         InBucket, StateOf, Fillable, AfterAnswer, Answer, AfterFill,
         CheckFill, ConservativeFill, VolumeClockFill, VolumeClockQty,
         Lesser
<1>6. T!RemoveOrder(x, i) = RemoveOrder(x, i)
  BY DEF T!RemoveOrder, T!BucketOf, T!Live, T!Reindex, T!InBucket,
         T!DropAt, T!PositionIn, T!Erase, RemoveOrder, BucketOf, Live,
         Reindex, InBucket, DropAt, PositionIn, Erase
<1>7. QED
  BY <1>1, <1>2, <1>3, <1>4, <1>5, <1>6

\* One step of two twins x and y, whichever of them is ex.
LEMMA BothNextMatched == Matched /\ [BothNext]_both => Matched'
<1> SUFFICES ASSUME Matched, [BothNext]_both
             PROVE  Twins(ex', twin') \/ Twins(twin', ex')
  BY DEF Matched
<1>0. PricesAssumption /\ ExchangeAssumption
  BY PricesAssumption, ExchangeAssumption
<1>a. Live(ex) = Live(twin)
  BY DEF Matched, Twins
<1>b. ASSUME NEW id \in Live(ex)
      PROVE  /\ ex.orders[id].type = twin.orders[id].type
             /\ StateOf(ex, id) = StateOf(twin, id)
  BY <1>a DEF Matched, Twins, Alike, Visible, StateOf
<1>c. ASSUME NEW id \in Live(ex), NEW s \in OrderState,
             ex.orders[id].type = "Limit" \/ s \notin Fillable,
             s # "Filled", StateOf(ex, id) # "Filled",
             ex' = SetState(ex, id, s), twin' = SetState(twin, id, s)
      PROVE  Twins(ex', twin') \/ Twins(twin', ex')
  <2>1. CASE Twins(ex, twin)
    BY <1>c, <2>1, SetStateOfBoth
  <2>2. CASE Twins(twin, ex)
    BY <1>a, <1>b, <1>c, <2>2, SetStateOfBoth
  <2>3. QED
    BY <2>1, <2>2 DEF Matched
<1>1. ASSUME NEW side \in BookSide, NEW p \in Prices, NEW q \in LevelQtys,
             OnL2Update(side, p, q), T!OnL2Update(side, p, q)
      PROVE  Twins(ex', twin') \/ Twins(twin', ex')
  <2>1. q \in Nat
    BY <1>0 DEF ExchangeAssumption
  <2>2. Twins(ex, twin) => Twins(ApplyL2Update(ex, side, p, q), ApplyL2Update(twin, side, p, q))
    BY <1>1, <2>1, UpdateBoth
  <2>3. Twins(twin, ex) => Twins(ApplyL2Update(twin, side, p, q), ApplyL2Update(ex, side, p, q))
    BY <1>1, <2>1, UpdateBoth
  <2>4. ex' = ApplyL2Update(ex, side, p, q) /\ twin' = ApplyL2Update(twin, side, p, q)
    BY <1>1, SameMethods DEF OnL2Update, T!OnL2Update
  <2>5. QED
    BY <2>2, <2>3, <2>4 DEF Matched
<1>2. ASSUME NEW id \in OrderIds, NEW o \in Orders, OnOrder(id, o), T!OnOrder(id, o)
      PROVE  Twins(ex', twin') \/ Twins(twin', ex')
  <2>1. id \in OrderId /\ o \in Order
    BY <1>0 DEF ExchangeAssumption, Orders, Order
  <2>2. id \notin Live(ex) /\ id \notin Live(twin)
    BY <1>2, <1>a DEF OnOrder
  <2>3. Twins(ex, twin) => Twins(SubmitOrder(ex, id, o), SubmitOrder(twin, id, o))
    BY <1>2, <2>1, <2>2, SubmitBoth
  <2>4. Twins(twin, ex) => Twins(SubmitOrder(twin, id, o), SubmitOrder(ex, id, o))
    BY <1>2, <2>1, <2>2, SubmitBoth
  <2>5. ex' = SubmitOrder(ex, id, o) /\ twin' = SubmitOrder(twin, id, o)
    BY <1>2, SameMethods DEF OnOrder, T!OnOrder
  <2>6. QED
    BY <2>3, <2>4, <2>5 DEF Matched
<1>3. ASSUME NEW id \in OrderIds, OnLimitAck(id), T!OnLimitAck(id)
      PROVE  Twins(ex', twin') \/ Twins(twin', ex')
  <2>1. /\ id \in Live(ex) /\ StateOf(ex, id) = "PendingNew"
        /\ ex.orders[id].type = "Limit"
    BY <1>3 DEF OnLimitAck, CanAckNew
  <2>2. ex' = SetState(ex, id, "Open") /\ twin' = SetState(twin, id, "Open")
    BY <1>3, SameMethods DEF OnLimitAck, T!OnLimitAck, AckNew, T!AckNew
  <2>3. QED
    BY <1>c, <2>1, <2>2 DEF OrderState
<1>4. ASSUME NEW id \in OrderIds, NEW f \in Fallbacks,
             OnMarketAck(id, f), T!OnMarketAck(id, f)
      PROVE  Twins(ex', twin') \/ Twins(twin', ex')
  <2>1. /\ id \in Live(ex) /\ id \in Live(twin)
        /\ ex.orders[id].type = "Market" /\ twin.orders[id].type = "Market"
        /\ StateOf(ex, id) = "PendingNew" /\ StateOf(twin, id) = "PendingNew"
    BY <1>4, <1>a, <1>b DEF OnMarketAck, CanAckNew
  <2>2. Twins(ex, twin) => Twins(ExecuteMarket(ex, id, f), ExecuteMarket(twin, id, f))
    BY <1>4, <2>1, ExecuteBoth
  <2>3. Twins(twin, ex) => Twins(ExecuteMarket(twin, id, f), ExecuteMarket(ex, id, f))
    BY <1>4, <2>1, ExecuteBoth
  <2>4. ex' = ExecuteMarket(ex, id, f) /\ twin' = ExecuteMarket(twin, id, f)
    BY <1>4, SameMethods DEF OnMarketAck, T!OnMarketAck
  <2>5. QED
    BY <2>2, <2>3, <2>4 DEF Matched
<1>5. ASSUME NEW id \in OrderIds, OnCancel(id), T!OnCancel(id)
      PROVE  Twins(ex', twin') \/ Twins(twin', ex')
  <2>1. /\ id \in Live(ex) /\ StateOf(ex, id) \in {"Open", "PartiallyFilled"}
        /\ ex' = SetState(ex, id, "PendingCancel")
        /\ twin' = SetState(twin, id, "PendingCancel")
    BY <1>5, SameMethods DEF OnCancel, T!OnCancel, CanCancelOrder, CancelOrder,
                             T!CancelOrder, CanTransitionTo, LegalTransition
  <2>2. ex.orders[id].type = "Limit"
    BY <1>a, <1>b, <2>1 DEF Matched, Twins, Alike, StateOf, Fillable
  <2>3. QED
    BY <1>c, <2>1, <2>2 DEF OrderState
<1>6. ASSUME NEW id \in OrderIds, OnCancelAck(id), T!OnCancelAck(id)
      PROVE  Twins(ex', twin') \/ Twins(twin', ex')
  <2>1. id \in Live(ex) /\ StateOf(ex, id) = "PendingCancel"
    BY <1>6 DEF OnCancelAck, CanAckCancel
  <2>2. ex' = SetState(ex, id, "Cancelled") /\ twin' = SetState(twin, id, "Cancelled")
    BY <1>6, SameMethods DEF OnCancelAck, T!OnCancelAck, AckCancel, T!AckCancel
  <2>3. QED
    BY <1>c, <2>1, <2>2 DEF OrderState, Fillable
<1>7. ASSUME NEW t \in Trades, OnTick(t), T!OnTick(t)
      PROVE  Twins(ex', twin') \/ Twins(twin', ex')
  <2>1. t.qty \in Nat
    BY <1>0 DEF ExchangeAssumption, Trades
  <2>2. Twins(ex, twin) => Twins(OnTrade(ex, t), OnTrade(twin, t))
    BY <1>7, <2>1, TradeBoth
  <2>3. Twins(twin, ex) => Twins(OnTrade(twin, t), OnTrade(ex, t))
    BY <1>7, <2>1, TradeBoth
  <2>4. ex' = OnTrade(ex, t) /\ twin' = OnTrade(twin, t)
    BY <1>7, SameMethods DEF OnTick, T!OnTick
  <2>5. QED
    BY <2>2, <2>3, <2>4 DEF Matched
<1>8. ASSUME NEW id \in OrderIds, OnTerminalReport(id), T!OnTerminalReport(id)
      PROVE  Twins(ex', twin') \/ Twins(twin', ex')
  <2>1. id \in Live(ex) /\ id \in Live(twin)
    BY <1>8, <1>a DEF OnTerminalReport
  <2>2. Twins(ex, twin) => Twins(RemoveOrder(ex, id), RemoveOrder(twin, id))
    BY <1>8, <2>1, RemoveBoth
  <2>3. Twins(twin, ex) => Twins(RemoveOrder(twin, id), RemoveOrder(ex, id))
    BY <1>8, <2>1, RemoveBoth
  <2>4. ex' = RemoveOrder(ex, id) /\ twin' = RemoveOrder(twin, id)
    BY <1>8, SameMethods DEF OnTerminalReport, T!OnTerminalReport
  <2>5. QED
    BY <2>2, <2>3, <2>4 DEF Matched
<1>9. CASE UNCHANGED both
  BY <1>9 DEF both, Matched
<1>10. QED
  BY <1>1, <1>2, <1>3, <1>4, <1>5, <1>6, <1>7, <1>8, <1>9 DEF BothNext

\* The invariant that relates the two simulators.
THEOREM TwinsInductive == BothSpec => []Matched
BY BothInitMatched, BothNextMatched, PTL DEF BothSpec

\* Conservative::check_fill and VolumeClock::check_fill give every order the
\* same fills, states and end, whatever levels, trades and cancels there are.
THEOREM ModelsAlwaysAgree == BothSpec => []ModelsAgree
<1>1. Matched => ModelsAgree
  BY DEF Matched, Twins, Alike, ModelsAgree
<1>2. QED
  BY <1>1, TwinsInductive, PTL

\* on_trade: under either model the next trade fills the same orders by the
\* same quantities.
FillsAgree ==
  \A t \in Trades : /\ FilledBy(ex, t) = FilledBy(twin, t)
                    /\ \A id \in FilledBy(ex, t) :
                         Answer(ex, t, id).fill = Answer(twin, t, id).fill

THEOREM FillsAlwaysAgree == BothSpec => []FillsAgree
<1>1. Matched => FillsAgree
  <2> SUFFICES ASSUME Matched, NEW t \in Trades
               PROVE  /\ FilledBy(ex, t) = FilledBy(twin, t)
                      /\ \A id \in FilledBy(ex, t) :
                           Answer(ex, t, id).fill = Answer(twin, t, id).fill
    BY DEF FillsAgree
  <2>1. t.qty \in Nat
    BY ExchangeAssumption DEF ExchangeAssumption, Trades
  <2>2. /\ Asked(ex, t) = Asked(twin, t)
        /\ \A id \in Asked(ex, t) : Answer(ex, t, id).fill = Answer(twin, t, id).fill
    BY <2>1, TradeBoth DEF Matched
  <2>3. QED
    BY <2>2 DEF FilledBy
<1>2. QED
  BY <1>1, TwinsInductive, PTL

\* The reports of two twins on one trade.
LEMMA ReportsBoth ==
  ASSUME NEW x, NEW y, Twins(x, y), NEW trade, trade.qty \in Nat, trade.price \in Prices
  PROVE  OnTradeReports(x, trade) = OnTradeReports(y, trade)
<1> DEFINE maker == MakerSide(trade.side)
           line  == x.buckets[<<trade.price, maker>>]
           hit   == FilledBy(x, trade)
           ids   == IF maker = "None" THEN <<>> ELSE Kept(line, hit)
           told(z, id) == Report(OnTrade(z, trade), id, Answer(z, trade, id).fill, trade.price)
<1>1. /\ WellTyped(x) /\ WellTyped(y) /\ x.buckets = y.buckets /\ Live(x) = Live(y)
  BY DEF Twins, GoodExchange
<1>2. /\ Asked(x, trade) = Asked(y, trade)
      /\ \A id \in Asked(x, trade) : Answer(x, trade, id).fill = Answer(y, trade, id).fill
      /\ Twins(OnTrade(x, trade), OnTrade(y, trade))
  BY TradeBoth
<1>3. hit = FilledBy(y, trade) /\ hit \subseteq Asked(x, trade) /\ hit \subseteq Live(x)
  BY <1>2 DEF FilledBy, Asked
<1>4. line \in Seq(OrderId)
  <2>1. maker \in Side
    BY DEF MakerSide, Side
  <2>2. <<trade.price, maker>> \in BucketKey
    BY <2>1 DEF BucketKey
  <2>3. x.buckets \in [BucketKey -> Seq(OrderId)]
    BY <1>1 DEF WellTyped
  <2> HIDE DEF maker
  <2>4. QED
    BY <2>2, <2>3
<1>5. /\ OnTradeReports(x, trade) = [i \in DOMAIN ids |-> told(x, ids[i])]
      /\ OnTradeReports(y, trade) = [i \in DOMAIN ids |-> told(y, ids[i])]
  BY <1>1, <1>3 DEF OnTradeReports
<1>6. \A i \in DOMAIN ids : ids[i] \in hit
  <2>1. Kept(line, hit) \in Seq(OrderId \cap hit)
    BY <1>4, KeptType
  <2>2. ids \in Seq(OrderId \cap hit)
    BY <2>1, EmptySeq
  <2> HIDE DEF ids
  <2>3. QED
    BY <2>2, ElementOfSeq, LenProperties
<1>7. ASSUME NEW id \in hit PROVE told(x, id) = told(y, id)
  <2> DEFINE c == OnTrade(x, trade)
             v == OnTrade(y, trade)
  <2>1. Live(c) = Live(x)
    BY <1>1, Fields DEF OnTrade, Live
  <2>2. Alike(c.orders[id], v.orders[id])
    BY <1>2, <1>3, <2>1 DEF Twins
  <2>3. Answer(x, trade, id).fill = Answer(y, trade, id).fill
    BY <1>2, <1>3
  <2> HIDE DEF c, v
  <2>4. /\ c.orders[id].state = v.orders[id].state
        /\ c.orders[id].filled = v.orders[id].filled
        /\ c.orders[id].remaining = v.orders[id].remaining
    BY <2>2 DEF Alike, Visible
  <2>5. QED
    BY <2>3, <2>4 DEF Report, c, v
<1> HIDE DEF ids, hit, told
<1>8. QED
  BY <1>5, <1>6, <1>7

(***************************************************************************)
(* on_trade reports the same to the strategy, in the same order, under     *)
(* either model, whatever trade comes next.                                *)
(***************************************************************************)
THEOREM ReportsAlwaysAgree == BothSpec => []ReportsAgree
<1>1. Matched => ReportsAgree
  <2> SUFFICES ASSUME Matched, NEW t \in Trades
               PROVE  OnTradeReports(ex, t) = OnTradeReports(twin, t)
    BY DEF ReportsAgree
  <2>1. t.qty \in Nat /\ t.price \in Prices
    BY ExchangeAssumption DEF ExchangeAssumption, Trades
  <2>2. QED
    BY <2>1, ReportsBoth DEF Matched
<1>2. QED
  BY <1>1, TwinsInductive, PTL
=============================================================================
