-------------------------- MODULE EngineProperties --------------------------
(***************************************************************************)
(* What the engine promises its strategy, and what its parts promise each  *)
(* other.                                                                  *)
(***************************************************************************)
EXTENDS Engine

Ids == DOMAIN seen

\* The events of one kind about order id that wait in the queue.
Waiting(kind, id) ==
  {i \in DOMAIN queue : queue[i].kind = kind /\ queue[i].id = id}

ReportsWaiting(id) ==
  {i \in DOMAIN queue : queue[i].kind = "OrderReport" /\ queue[i].report.id = id}

FinalReports(id) ==
  {i \in ReportsWaiting(id) : IsTerminal(queue[i].report.status)}

IsLive(id) == \E s \in Symbols : id \in Live(exchanges[s])

-----------------------------------------------------------------------------
(***************************************************************************)
(* Every variable keeps its type, each exchange that of its component; the *)
(* queue is sorted by timestamp and holds nothing from the past.           *)
(***************************************************************************)
TypeOK ==
  /\ config \in Configs
  /\ now \in Nat
  /\ \A s \in Symbols : WellTyped(exchanges[s])
  /\ \A id \in DOMAIN route : route[id] \in Symbols
  /\ DOMAIN route \subseteq Ids /\ Ids = 1 .. next_order_id - 1
  /\ \A s \in Symbols : positions[s] \in Position
  /\ guard \in RiskGuard
  /\ \A i \in DOMAIN queue :
       /\ queue[i].kind \in EventKind
       /\ queue[i].ts >= now
       /\ \A j \in i + 1 .. Len(queue) : queue[i].ts <= queue[j].ts
  /\ timer \in 0 .. next_timer_id - 1
  /\ pending_wakeup \in BOOLEAN
  /\ tuner \in Tuner /\ tuner.current \in tuner.min .. tuner.max

(***************************************************************************)
(* order_symbol_by_id and the exchanges agree at all times: an order has a *)
(* route from the moment it passes the risk guard until its final report   *)
(* is popped, and meanwhile it is on its way to exactly the exchange the   *)
(* route names, or live there and nowhere else.                            *)
(***************************************************************************)
RouteCoherent ==
  \A id \in Ids : \A s \in Symbols :
    (id \in DOMAIN route /\ route[id] = s)
      <=> \/ id \in Live(exchanges[s])
          \/ \E i \in Waiting("Order", id) : queue[i].order.symbol = s

(***************************************************************************)
(* An order that waits for something has the one event that will bring it  *)
(* in the queue: a new order its acknowledgement, an order in              *)
(* PendingCancel its cancel acknowledgement, a finished order its one      *)
(* final report.  A market order never rests: its acknowledgement executes *)
(* and ends it.  Nothing is acknowledged or finished twice, so an ack      *)
(* always finds its route and its order, and an order stays in the         *)
(* exchange, and in max_open_orders, only while the market decides.        *)
(***************************************************************************)
NothingStuck ==
  \A s \in Symbols : \A id \in Live(exchanges[s]) :
    LET state == StateOf(exchanges[s], id)
    IN  /\ Cardinality(Waiting("OrderAck", id)) = IF state = "PendingNew" THEN 1 ELSE 0
        /\ Waiting("Order", id) = {}
        /\ IsMarket(exchanges[s], id) => state = "PendingNew" \/ IsTerminal(state)
        /\ state = "PendingCancel" => Waiting("OrderCancelAck", id) # {}
        /\ Cardinality(FinalReports(id)) = IF IsTerminal(state) THEN 1 ELSE 0

(***************************************************************************)
(* max_open_orders bounds the orders that are open at any time, counting   *)
(* those on their way to the exchange and those whose end is not yet known *)
(* to the strategy, also when one callback submits several.                *)
(***************************************************************************)
OpenOrdersBounded ==
  config.max_open_orders > 0 => Cardinality(DOMAIN route) <= config.max_open_orders

(***************************************************************************)
(* Every fill is booked in the account once and reported once: a position  *)
(* is the signed sum of the fills the strategy was told of, of those in    *)
(* the report buffer and of those on their way.                            *)
(***************************************************************************)
Undelivered(id) ==
  LET queued(i)   == queue[i].report.last
      buffered(i) == report_buffer[i].last
  IN  MapThenSumSet(queued, ReportsWaiting(id))
      + MapThenSumSet(buffered, {i \in DOMAIN report_buffer : report_buffer[i].id = id})

FillsAccounted ==
  \A s \in Symbols :
    LET share(id) == LET o == seen[id].order
                     IN  IF o.symbol = s
                         THEN Signed(o.side, seen[id].sum + Undelivered(id)) ELSE 0
    IN  positions[s].qty = MapThenSumSet(share, Ids)

(***************************************************************************)
(* No look-ahead (SPEC.md 1): the market a strategy sees and the ticks it  *)
(* is about to be given have reached it, and no tick reaches the strategy  *)
(* before the exchange has matched it, also when the two events of one     *)
(* tick share a timestamp: an order sent in answer to a tick is too late   *)
(* for that tick.                                                          *)
(***************************************************************************)
NoLookahead ==
  /\ \A i \in DOMAIN queue : queue[i].kind = "Tick" =>
       \E j \in i + 1 .. Len(queue) :
         /\ queue[j].kind = "TickDelivery"
         /\ queue[j].tick = [queue[i].tick EXCEPT !.local = queue[j].ts]
  /\ \A s \in Symbols : \A i \in DOMAIN market[s] : market[s][i].local <= now
  /\ \A i \in DOMAIN tick_buffer : tick_buffer[i].local <= now

(***************************************************************************)
(* A buffered tick never waits for ever: while there is one and batches    *)
(* have a maximum duration, the active timer's event is in the queue, due  *)
(* within that duration of the first tick, or the wakeup is already owed.  *)
(* The duration is the configured one; the tuner makes it no longer than   *)
(* that or than its floor, whichever is more, whatever it measures.        *)
(***************************************************************************)
LongestBatch ==
  IF ~config.auto_tune THEN config.max_batch
  ELSE Greater(TunerFloor, IF config.max_batch > 0 THEN config.max_batch ELSE TunerDefault)

BatchHasDeadline ==
  max_batch > 0 /\ tick_buffer # <<>> =>
    \/ pending_wakeup
    \/ \E i \in DOMAIN queue :
         /\ queue[i].kind = "Timer" /\ queue[i].timer_id = timer
         /\ queue[i].ts <= Head(tick_buffer).local + LongestBatch

(***************************************************************************)
(* When run() returns, the strategy knows how everything ended: it was     *)
(* told of every order, of every fill, and what it was told last is what   *)
(* the exchange has; nothing is left half-way.                             *)
(***************************************************************************)
StopsClean ==
  Done =>
    \A id \in Ids :
      /\ seen[id].reports > 0
      /\ seen[id].sum = seen[id].filled
      /\ IF id \in DOMAIN route
         THEN LET o == exchanges[route[id]].orders[id]
              IN  o.state \in {"Open", "PartiallyFilled"}
                  /\ seen[id].status = o.state /\ seen[id].filled = o.filled
         ELSE IsTerminal(seen[id].status)

-----------------------------------------------------------------------------
(***************************************************************************)
(* The simulated clock never goes back: a step ingests what is due from    *)
(* the source before it pops, and no handler schedules into the past.      *)
(***************************************************************************)
ClockMonotone == [][now' >= now]_vars

(***************************************************************************)
(* Reports reach the strategy in the order they were made: an order's      *)
(* filled quantity never shrinks, and nothing comes after a final report,  *)
(* that report a second time neither.  (That no fill before the last is    *)
(* told twice is FillsAccounted.)                                          *)
(***************************************************************************)
ReportsInOrder ==
  [][\A id \in Ids :
       /\ seen'[id].filled >= seen[id].filled
       /\ IsTerminal(seen[id].status) => seen'[id] = seen[id]]_vars

(***************************************************************************)
(* Once the kill switch has fired it stays, and no order the strategy      *)
(* submits is accepted any more, in particular none that it sends in the   *)
(* very step that fires the switch: handle_commands gives it no route.     *)
(* Orders accepted before are not called back: one whose Order event still *)
(* waits in the queue goes on to its exchange and may fill there.          *)
(***************************************************************************)
KilledForGood ==
  [][/\ guard.killed => guard'.killed
     /\ guard'.killed => DOMAIN route' \subseteq DOMAIN route]_vars

(***************************************************************************)
(* Every order is answered: a report about it reaches the strategy, whose  *)
(* next orders may depend on it; and a market order's answer is its end.   *)
(* In batch mode this needs a flush after the report, by a wakeup, by the  *)
(* timer or by run() when nothing is left.                                 *)
(***************************************************************************)
Answered(id) ==
  /\ id \in Ids
  /\ seen[id].reports > 0
  /\ seen[id].order.type = "Market" => IsTerminal(seen[id].status)

OrdersAnswered == \A id \in 1 .. MaxOrders : (id \in Ids) ~> Answered(id)

-----------------------------------------------------------------------------
(***************************************************************************)
(* SPEC.md 2.2: any order-update delivery wakes a batch strategy.  So time *)
(* does not move on while a delivered report waits in the buffer.  (The    *)
(* code defers a wakeup to the last event of its timestamp, and a cancel   *)
(* of an unknown order ends its step before the deferred wakeup is looked  *)
(* at.)                                                                    *)
(***************************************************************************)
ReportsWakeAtOnce == [][now' > now => report_buffer = <<>>]_vars

(***************************************************************************)
(* EngineConfig: max_position is the absolute maximum position size.  (The *)
(* check of an order counts the position, not the orders still open, so    *)
(* two of them can pass one by one and go beyond the maximum together.)    *)
(***************************************************************************)
PositionBounded ==
  config.max_position > 0 =>
    \A s \in Symbols : Abs(positions[s].qty) <= config.max_position
=============================================================================
