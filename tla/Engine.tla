------------------------------- MODULE Engine -------------------------------
(***************************************************************************)
(* backtester-core/src/engine.rs: the discrete-event engine.  Step         *)
(* ingests every source tick that is due and then pops one event; run()    *)
(* steps until nothing is left, flushing the strategy in between.  One     *)
(* action here is one round of the ingest loop, the handler of one event   *)
(* kind (with everything it calls and the flush check that ends the step), *)
(* or the flush run() makes when the queue is empty.                       *)
(*                                                                         *)
(* The strategy and the market are unknown: a callback issues any          *)
(* commands, the source holds any ticks, and the latency model draws any   *)
(* latency, from the sets the constants name.                              *)
(***************************************************************************)
EXTENDS Exchange, RiskGuard, BatchTuner, Events

CONSTANTS
  Symbols,          \* symbol ids
  Configs,          \* the configurations to try
  Feed,             \* the ticks a source can hold, relative to the one before
  Preloads,         \* the sequences of events pushed before the run
  StrategyOrders,   \* the orders the strategy can submit
  OrderLatencies,   \* what sample_order_latency can draw
  MaxTicks,         \* bound: ticks in the source
  MaxOrders,        \* bound: orders the strategy submits
  MaxCancels,       \* bound: cancels the strategy requests
  MaxCommands       \* bound: commands of one callback

Config ==
  [mode : {"Tick", "Batch"}, model : QueueModel,
   feed_latency : Nat, order_update_latency : Nat,
   max_batch : Nat, auto_tune : BOOLEAN,
   maker_fee : Nat, taker_fee : Nat,
   max_open_orders : Nat, max_position : Nat, max_loss : Int]

\* What can be pushed before the run: depth of the book, and funding.
PreloadEvent ==
  [ts : Nat, kind : {"L2Update"}, symbol : Symbols, side : Side, price : Prices, qty : Nat]
    \cup [ts : Nat, kind : {"Funding"}, symbol : Symbols, rate : Int]

\* gap is the time since the tick before, delay the time to the strategy;
\* without a delay the tick has no ts_local and the engine computes one.
NoDelay == -1

FeedStep ==
  [gap : Nat, delay : Nat \cup {NoDelay}, symbol : Symbols, side : Side,
   price : Prices, qty : Nat]

EngineOrder ==
  [symbol : Symbols, side : Side, type : OrderType, price : Prices,
   qty : Nat \ {0}]

ASSUME EngineAssumption ==
  /\ Configs \subseteq Config
  /\ Feed \subseteq FeedStep
  /\ Preloads \subseteq Seq(PreloadEvent)
  /\ StrategyOrders \subseteq EngineOrder
  /\ OrderLatencies \subseteq Nat
  /\ MaxTicks \in Nat /\ MaxOrders \in Nat /\ MaxCancels \in Nat /\ MaxCommands \in Nat

VARIABLES
  config,           \* the configuration, chosen once
  source,           \* the tick the source shows next, as a sequence of at most one
  ingested,         \* how many ticks have been taken from the source
  queue,            \* the event queue
  now,              \* now_ts_sim
  exchanges,        \* symbol -> exchange simulator
  route,            \* order_symbol_by_id
  next_order_id,
  positions,        \* symbol -> position: the account
  guard,            \* the risk guard
  market,           \* symbol -> last delivered tick, as a sequence of at most one
  truth,            \* symbol -> price of the last trade, NoPrice before it
  tick_buffer,
  report_buffer,
  timer,            \* active_batch_timer_id, NoTimer for None
  next_timer_id,
  pending_wakeup,
  tuner,
  max_batch,        \* config.max_batch_ns, which the tuner sets
  cancels,          \* how many cancels have been requested
  seen              \* order id -> what the strategy was told of the order

desk     == <<queue, route, next_order_id, cancels, seen>>
tuning   == <<tuner, max_batch>>
batching == <<tick_buffer, report_buffer, timer, next_timer_id, pending_wakeup, tuning>>
books    == <<exchanges, positions, guard, truth>>
feed     == <<source, ingested>>
vars     == <<config, feed, desk, now, books, market, batching>>

NoTimer == 0

-----------------------------------------------------------------------------
\* The source.

TickAfter(f, last) ==
  [ts |-> last + f.gap,
   local |-> IF f.delay = NoDelay THEN 0 ELSE last + f.gap + f.delay,
   symbol |-> f.symbol, side |-> f.side, price |-> f.price, qty |-> f.qty]

\* What the source can show after a tick at time last, n ticks in.
Upcoming(last, n) ==
  {<<>>} \cup {<<TickAfter(f, last)>> : f \in IF n < MaxTicks THEN Feed ELSE {}}

DeliveryTs(tick) ==
  IF tick.local = 0 THEN tick.ts + config.feed_latency ELSE tick.local

\* Faulty: ticks are only taken when no event waits.
IngestWhenIdle == source # <<>> /\ queue = <<>>

CanIngest ==
  source # <<>> /\ (queue # <<>> => Head(source).ts <= Head(queue).ts)
\* Faulty: the delivery is pushed before the exchange's own event.
IngestDeliveryFirst ==
  /\ CanIngest
  /\ LET tick == Head(source)
         ts   == DeliveryTs(tick)
     IN  /\ queue' = Enqueue(Enqueue(queue, TickEvent(ts, "TickDelivery", [tick EXCEPT !.local = ts])),
                             TickEvent(tick.ts, "Tick", tick))
         /\ source' \in Upcoming(tick.ts, ingested + 1)
  /\ ingested' = ingested + 1
  /\ UNCHANGED <<config, now, route, next_order_id, cancels, seen, books,
                 market, batching>>

Ingest ==
  /\ CanIngest
  /\ LET tick == Head(source)
         ts   == DeliveryTs(tick)
     IN  /\ queue' = Enqueue(Enqueue(queue, TickEvent(tick.ts, "Tick", tick)),
                             TickEvent(ts, "TickDelivery", [tick EXCEPT !.local = ts]))
         /\ source' \in Upcoming(tick.ts, ingested + 1)
  /\ ingested' = ingested + 1
  /\ UNCHANGED <<config, now, route, next_order_id, cancels, seen, books,
                 market, batching>>

\* Step pops the next event once no source tick is due.
Due(kind) == ~CanIngest /\ queue # <<>> /\ Head(queue).kind = kind

-----------------------------------------------------------------------------
(***************************************************************************)
(* handle_commands.  A desk d is the part of the state a strategy callback *)
(* changes: the queue, the routes, the id counter, the number of cancels   *)
(* so far and what the strategy was told.  The risk guard and the position *)
(* are those the handler leaves (their primed values): check_order looks   *)
(* at the truth, also at fills whose report is still under way.            *)
(***************************************************************************)
Desk(q) ==
  [queue |-> q, route |-> route, next_order_id |-> next_order_id,
   cancels |-> cancels, seen |-> seen]

Command ==
  [kind : {"SubmitOrder"}, order : StrategyOrders] \cup
  [kind : {"CancelOrder"}, id : 1 .. MaxOrders]

CommandSeqs == UNION {[1 .. n -> Command] : n \in 0 .. MaxCommands}

Issued(commands, kind) == Cardinality({i \in DOMAIN commands : commands[i].kind = kind})

\* The bounds on what a strategy does in one run.
Commands(d) ==
  {c \in CommandSeqs :
     /\ d.next_order_id + Issued(c, "SubmitOrder") <= MaxOrders + 1
     /\ d.cancels + Issued(c, "CancelOrder") <= MaxCancels}

Untold(order) == [order |-> order, reports |-> 0, status |-> "Created", filled |-> 0, sum |-> 0]

RejectReport(id, order) ==
  [id |-> id, status |-> "Rejected", last |-> 0, price |-> NoPrice,
   filled |-> 0, remaining |-> order.qty]

(***************************************************************************)
(* A call is what handle_commands works on: the desk, the time it was      *)
(* given, and of the engine what check_order looks at.                     *)
(***************************************************************************)
Call(d, ts) ==
  [desk |-> d, ts |-> ts, guard |-> guard', positions |-> positions', config |-> config]

Submit(call, order) ==
  LET d        == call.desk
      id       == d.next_order_id
      rejected == RejectsOrder(call.guard, call.config, order, Cardinality(DOMAIN d.route),
                               call.positions[order.symbol].qty)
      event    == IF rejected
                  THEN ReportEvent(call.ts + call.config.order_update_latency,
                                   RejectReport(id, order))
                  ELSE OrderEvent(call.ts, id, order)
  IN  [queue |-> Enqueue(d.queue, event),
       route |-> IF rejected THEN d.route ELSE Insert(d.route, id, order.symbol),
       next_order_id |-> id + 1,
       cancels |-> d.cancels,
       seen |-> Insert(d.seen, id, Untold(order))]

RequestCancel(call, id) ==
  [call.desk EXCEPT !.queue = Enqueue(@, IdEvent(call.ts, "OrderCancel", id)),
                    !.cancels = @ + 1]

HandleCommand(call, c) ==
  [call EXCEPT !.desk = IF c.kind = "SubmitOrder" THEN Submit(call, c.order)
                        ELSE RequestCancel(call, c.id)]

HandleCommands(d, commands, ts) == FoldLeft(HandleCommand, Call(d, ts), commands).desk

SetDesk(d) ==
  /\ queue' = d.queue
  /\ route' = d.route
  /\ next_order_id' = d.next_order_id
  /\ cancels' = d.cancels
  /\ seen' = d.seen

\* What the strategy knows of an order once it has heard a report on it.
Heard(told, r) ==
  [told EXCEPT !.reports = @ + 1, !.status = r.status, !.filled = r.filled, !.sum = @ + r.last]

\* on_order_update and on_order_updates: the strategy learns of reports.
TellOne(known, r) == [known EXCEPT ![r.id] = Heard(known[r.id], r)]

Tell(d, reports) == [d EXCEPT !.seen = FoldLeft(TellOne, @, reports)]

-----------------------------------------------------------------------------
(***************************************************************************)
(* flush_strategy and the check that ends a step.  d, ticks, reports and   *)
(* tmr are the desk, the buffers and the timer as the handler left them.   *)
(***************************************************************************)
Keep(d, ticks, reports, tmr) ==
  /\ SetDesk(d)
  /\ tick_buffer' = ticks
  /\ report_buffer' = reports
  /\ timer' = tmr
  /\ UNCHANGED tuning

\* A flushed batch is measured only if auto_tune is on.
Tune ==
  \/ /\ config.mode = "Batch" /\ config.auto_tune
     /\ \E fast \in BOOLEAN : tuner' = RecordBatch(tuner, fast)
     /\ max_batch' = tuner'.current
  \/ /\ ~(config.mode = "Batch" /\ config.auto_tune)
     /\ UNCHANGED tuning

FlushStrategy(d, ticks, reports, tmr) ==
  \/ /\ ticks = <<>> /\ reports = <<>>
     /\ Keep(d, ticks, reports, tmr)
  \/ /\ ~(ticks = <<>> /\ reports = <<>>)
     /\ \E c \in Commands(d) : SetDesk(HandleCommands(Tell(d, reports), c, now'))
     /\ tick_buffer' = <<>>
     /\ report_buffer' = <<>>
     /\ timer' = NoTimer
     /\ Tune

Woken(wakeup) == config.mode = "Batch" /\ (wakeup \/ pending_wakeup)

MoreNow(d) == d.queue # <<>> /\ Head(d.queue).ts = now'

EndStep(d, ticks, reports, tmr, wakeup) ==
  \/ /\ ~Woken(wakeup)
     /\ Keep(d, ticks, reports, tmr)
     /\ UNCHANGED pending_wakeup
  \/ /\ Woken(wakeup) /\ MoreNow(d)
     /\ Keep(d, ticks, reports, tmr)
     /\ pending_wakeup' = TRUE
  \/ /\ Woken(wakeup) /\ ~MoreNow(d)
     /\ FlushStrategy(d, ticks, reports, tmr)
     /\ pending_wakeup' = FALSE

\* The same for a handler that touches neither buffer nor timer.
EndQuietly(q) == EndStep(Desk(q), tick_buffer, report_buffer, timer, FALSE)

\* A handler pops the head of the queue and moves the clock to it.
PopAs(kind) ==
  /\ Due(kind)
  /\ now' = Head(queue).ts
  /\ UNCHANGED <<config, feed>>

\* Faulty: only the first report of an event is delivered.
EnqueueFirstReport(q, reports) ==
  IF reports = <<>> THEN q
  ELSE Enqueue(q, ReportEvent(now' + config.order_update_latency, Head(reports)))

\* Order updates reach the strategy after the configured latency.
EnqueueReports(q, reports) ==
  FoldLeft(Enqueue, q,
           [i \in DOMAIN reports |->
              ReportEvent(now' + config.order_update_latency, reports[i])])

-----------------------------------------------------------------------------
\* The account and the risk guard book fills one by one.

BookFill(b, f) ==
  LET done == OnFill(b.positions[f.symbol], f.side, f.qty, f.price)
      fee  == ComputeFee(f.price, f.qty, f.fee_bps)
  IN  [b EXCEPT !.positions[f.symbol] = done.position,
                !.guard = UpdatePnl(@, b.limits, done.pnl - fee)]

BookFills(fills) ==
  LET b == FoldLeft(BookFill,
                    [positions |-> positions, guard |-> guard, limits |-> config], fills)
  IN  positions' = b.positions /\ guard' = b.guard
\* Faulty: books what is filled so far, not the last fill.
CumulativeFillOf(x, symbol, r, fee_bps) ==
  [symbol |-> symbol, side |-> x.orders[r.id].side, qty |-> r.filled,
   price |-> r.price, fee_bps |-> fee_bps]

FillOf(x, symbol, r, fee_bps) ==
  [symbol |-> symbol, side |-> x.orders[r.id].side, qty |-> r.last,
   price |-> r.price, fee_bps |-> fee_bps]

HandleTick ==
  /\ PopAs("Tick")
  /\ LET tick    == Head(queue).tick
         x       == exchanges[tick.symbol]
         reports == OnTradeReports(x, tick)
         fills   == [i \in DOMAIN reports |->
                       FillOf(x, tick.symbol, reports[i], config.maker_fee)]
     IN  /\ truth' = [truth EXCEPT ![tick.symbol] = tick.price]
         /\ exchanges' = [exchanges EXCEPT ![tick.symbol] = OnTrade(x, tick)]
         /\ BookFills(fills)
         /\ EndQuietly(EnqueueReports(Tail(queue), reports))
  /\ UNCHANGED <<market, next_timer_id>>

\* Faulty: every tick starts the timer again.
RearmsTimer == max_batch > 0

\* The first tick of a batch starts the batch's timer.
ArmsTimer == timer = NoTimer /\ max_batch > 0

HandleTickDelivery ==
  /\ PopAs("TickDelivery")
  /\ LET tick == Head(queue).tick
         rest == Tail(queue)
     IN  /\ market' = [market EXCEPT ![tick.symbol] = <<tick>>]
         /\ UNCHANGED books
         /\ \/ /\ config.mode = "Tick"
               /\ \E c \in Commands(Desk(rest)) :
                    EndStep(HandleCommands(Desk(rest), c, tick.local),
                            tick_buffer, report_buffer, timer, FALSE)
               /\ UNCHANGED next_timer_id
            \/ /\ config.mode = "Batch" /\ ArmsTimer
               /\ next_timer_id' = next_timer_id + 1
               /\ EndStep(Desk(Enqueue(rest, TimerEvent(tick.local + max_batch,
                                                        next_timer_id))),
                          Append(tick_buffer, tick), report_buffer, next_timer_id, FALSE)
            \/ /\ config.mode = "Batch" /\ ~ArmsTimer
               /\ EndStep(Desk(rest), Append(tick_buffer, tick), report_buffer, timer, FALSE)
               /\ UNCHANGED next_timer_id

HandleL2Update ==
  /\ PopAs("L2Update")
  /\ LET u == Head(queue)
     IN  exchanges' = [exchanges EXCEPT ![u.symbol] = ApplyL2Update(@, u.side, u.price, u.qty)]
  /\ UNCHANGED <<positions, guard, truth, market, next_timer_id>>
  /\ EndQuietly(Tail(queue))

HandleOrder ==
  /\ PopAs("Order")
  /\ LET e == Head(queue)
     IN  /\ exchanges' = [exchanges EXCEPT ![e.order.symbol] = SubmitOrder(@, e.id, e.order)]
         /\ UNCHANGED <<positions, guard, truth, market, next_timer_id>>
         /\ \E dt \in OrderLatencies :
              EndQuietly(Enqueue(Tail(queue), IdEvent(now' + dt, "OrderAck", e.id)))

-----------------------------------------------------------------------------
(***************************************************************************)
(* The events about one order find its exchange by its route.  OrderAck    *)
(* and OrderCancel of an order without a route return from step at once,   *)
(* before the flush check.                                                 *)
(***************************************************************************)
ReturnEarly ==
  /\ Keep(Desk(Tail(queue)), tick_buffer, report_buffer, timer)
  /\ UNCHANGED <<books, pending_wakeup>>

\* Faulty: the rest of a partial fill is left in the exchange.
RestingMarketExecution(x, id, fallback) ==
  LET filled == FillMarketImmediately(x, id, fallback)
      price  == MarketPrice(x, x.orders[id].side, fallback)
  IN  [exchange |-> filled,
       reports |-> <<Report(filled, id, filled.orders[id].filled, price)>>]

\* The exchange after the execution of a market order, with its reports.
MarketExecution(x, id, fallback) ==
  LET o      == x.orders[id]
      price  == MarketPrice(x, o.side, fallback)
      filled == FillMarketImmediately(x, id, fallback)
      rest   == ForceCancelPartialFill(filled, id)
      first  == Report(filled, id, filled.orders[id].filled, price)
  IN  IF StateOf(filled, id) = "PartiallyFilled"
      THEN [exchange |-> rest, reports |-> <<first, Report(rest, id, 0, NoPrice)>>]
      ELSE [exchange |-> filled, reports |-> <<first>>]

AckMarketOrder(id, symbol) ==
  LET x    == exchanges[symbol]
      done == MarketExecution(x, id, truth[symbol])
      fill == FillOf(x, symbol, done.reports[1], config.taker_fee)
  IN  /\ exchanges' = [exchanges EXCEPT ![symbol] = done.exchange]
      /\ BookFills(IF fill.qty > 0 THEN <<fill>> ELSE <<>>)
      /\ UNCHANGED truth
      /\ EndQuietly(EnqueueReports(Tail(queue), done.reports))

\* Faulty: the acknowledgement is not reported.
SilentAckLimitOrder(id, symbol) ==
  /\ UNCHANGED <<positions, guard, truth>>
  /\ exchanges' = [exchanges EXCEPT ![symbol] = IF CanAckNew(@, id) THEN AckNew(@, id) ELSE @]
  /\ EndQuietly(Tail(queue))

AckLimitOrder(id, symbol) ==
  LET x == exchanges[symbol]
      y == AckNew(x, id)
  IN  /\ UNCHANGED <<positions, guard, truth>>
      /\ IF CanAckNew(x, id)
         THEN /\ exchanges' = [exchanges EXCEPT ![symbol] = y]
              /\ EndQuietly(EnqueueReports(Tail(queue), <<Report(y, id, 0, NoPrice)>>))
         ELSE /\ UNCHANGED exchanges
              /\ EndQuietly(Tail(queue))

IsMarket(x, id) == id \in Live(x) /\ x.orders[id].type = "Market"

HandleOrderAck ==
  /\ PopAs("OrderAck")
  /\ LET id == Head(queue).id
     IN  IF id \notin DOMAIN route THEN ReturnEarly
         ELSE IF IsMarket(exchanges[route[id]], id) THEN AckMarketOrder(id, route[id])
         ELSE AckLimitOrder(id, route[id])
  /\ UNCHANGED <<market, next_timer_id>>

HandleOrderCancel ==
  /\ PopAs("OrderCancel")
  /\ UNCHANGED <<positions, guard, truth, market, next_timer_id>>
  /\ LET id == Head(queue).id
         x  == exchanges[route[id]]
     IN  \/ /\ id \notin DOMAIN route
            /\ Keep(Desk(Tail(queue)), tick_buffer, report_buffer, timer)
            /\ UNCHANGED <<exchanges, pending_wakeup>>
         \/ /\ id \in DOMAIN route
            /\ CanCancelOrder(x, id)
            /\ exchanges' = [exchanges EXCEPT ![route[id]] = CancelOrder(x, id)]
            /\ \E dt \in OrderLatencies :
                 EndQuietly(Enqueue(Tail(queue), IdEvent(now' + dt, "OrderCancelAck", id)))
         \/ /\ id \in DOMAIN route
            /\ ~CanCancelOrder(x, id)
            /\ UNCHANGED exchanges
            /\ EndQuietly(Tail(queue))

HandleOrderCancelAck ==
  /\ PopAs("OrderCancelAck")
  /\ UNCHANGED <<positions, guard, truth, market, next_timer_id>>
  /\ LET id == Head(queue).id
         x  == exchanges[route[id]]
         y  == AckCancel(x, id)
         ok == id \in DOMAIN route /\ CanAckCancel(x, id)
     IN  \/ /\ ok
            /\ exchanges' = [exchanges EXCEPT ![route[id]] = y]
            /\ EndQuietly(EnqueueReports(Tail(queue), <<Report(y, id, 0, NoPrice)>>))
         \/ /\ ~ok
            /\ UNCHANGED exchanges
            /\ EndQuietly(Tail(queue))

\* Faulty: any report ends its order.
EndsAtAnyReport(r) == r.id \in DOMAIN route

\* A final report ends its order, unless the risk guard had turned it away.
Ends(r) == IsTerminal(r.status) /\ r.id \in DOMAIN route

HandleOrderReport ==
  /\ PopAs("OrderReport")
  /\ UNCHANGED <<positions, guard, truth, market, next_timer_id>>
  /\ LET r     == Head(queue).report
         d     == [Desk(Tail(queue)) EXCEPT !.route = IF Ends(r) THEN Erase(@, r.id) ELSE @]
     IN  /\ exchanges' = IF Ends(r)
                         THEN [exchanges EXCEPT ![route[r.id]] = RemoveOrder(@, r.id)]
                         ELSE exchanges
         /\ \/ /\ config.mode = "Tick"
               /\ \E c \in Commands(d) :
                    EndStep(HandleCommands(Tell(d, <<r>>), c, now'),
                            tick_buffer, report_buffer, timer, FALSE)
            \/ /\ config.mode = "Batch"
               /\ EndStep(d, tick_buffer, Append(report_buffer, r), timer, TRUE)

-----------------------------------------------------------------------------
\* mark_price: the middle of the book, or its one side.
MidPrice(book) ==
  LET bid == BestBid(book)
      ask == BestAsk(book)
  IN  CASE bid = NoPrice -> ask
        [] ask = NoPrice -> bid
        [] OTHER         -> (bid + ask) \div 2

MarkPrice(symbol) ==
  IF truth[symbol] # NoPrice THEN truth[symbol] ELSE MidPrice(exchanges[symbol].book)

\* In either mode the strategy answers at once; in batch mode the event also
\* wakes it for what is buffered.
HandleFunding ==
  /\ PopAs("Funding")
  /\ UNCHANGED <<exchanges, truth, market, next_timer_id>>
  /\ LET e    == Head(queue)
         paid == ApplyFunding(positions[e.symbol], e.rate, MarkPrice(e.symbol))
         d    == Desk(Tail(queue))
     IN  /\ positions' = [positions EXCEPT ![e.symbol] = paid.position]
         /\ guard' = IF MarkPrice(e.symbol) = NoPrice THEN guard
                     ELSE UpdatePnl(guard, config, paid.pnl)
         /\ \E c \in Commands(d) :
              EndStep(HandleCommands(d, c, now'), tick_buffer, report_buffer, timer, TRUE)

HandleTimer ==
  /\ PopAs("Timer")
  /\ UNCHANGED <<books, market, next_timer_id>>
  /\ LET fires == config.mode = "Batch" /\ timer = Head(queue).timer_id
     IN  EndStep(Desk(Tail(queue)), tick_buffer, report_buffer,
                 IF fires THEN NoTimer ELSE timer, fires)

(***************************************************************************)
(* run(): once step finds nothing, a batch engine wakes the strategy for   *)
(* what is still buffered, and steps on.                                   *)
(***************************************************************************)
Idle == queue = <<>> /\ source = <<>>

FinalFlush ==
  /\ Idle
  /\ config.mode = "Batch"
  /\ ~(tick_buffer = <<>> /\ report_buffer = <<>>)
  /\ UNCHANGED <<config, feed, now, books, market, next_timer_id, pending_wakeup>>
  /\ FlushStrategy(Desk(queue), tick_buffer, report_buffer, timer)

\* run() has returned.
Done == Idle /\ tick_buffer = <<>> /\ report_buffer = <<>>

Returned == Done /\ UNCHANGED vars

-----------------------------------------------------------------------------
Init ==
  /\ config \in Configs
  /\ source \in Upcoming(1, 0)
  /\ ingested = 0
  /\ \E events \in Preloads : queue = FoldLeft(Enqueue, <<>>, events)
  /\ now = 0
  /\ exchanges = [s \in Symbols |-> NewExchange(config.model)]
  /\ route = <<>>
  /\ next_order_id = 1
  /\ positions = [s \in Symbols |-> NoPosition]
  /\ guard = NewGuard
  /\ market = [s \in Symbols |-> <<>>]
  /\ truth = [s \in Symbols |-> NoPrice]
  /\ tick_buffer = <<>>
  /\ report_buffer = <<>>
  /\ timer = NoTimer
  /\ next_timer_id = 1
  /\ pending_wakeup = FALSE
  /\ tuner = NewTuner(config.max_batch)
  /\ max_batch = config.max_batch
  /\ cancels = 0
  /\ seen = <<>>

Next ==
  \/ Ingest
  \/ HandleTick
  \/ HandleTickDelivery
  \/ HandleL2Update
  \/ HandleOrder
  \/ HandleOrderAck
  \/ HandleOrderCancel
  \/ HandleOrderCancelAck
  \/ HandleOrderReport
  \/ HandleFunding
  \/ HandleTimer
  \/ FinalFlush
  \/ Returned

Spec == Init /\ [][Next]_vars

\* run() is a loop: it returns or steps on for ever.  (Weak fairness of Next,
\* with Done in the place of the ENABLED that TLC is slow to evaluate; the
\* deadlock check shows that every other state has a step.)
FairSpec == Spec /\ ([]<>Done \/ []<><<Next>>_vars)
=============================================================================
