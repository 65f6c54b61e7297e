------------------------------ MODULE MCEngine ------------------------------
(***************************************************************************)
(* Small instances of the engine for TLC.                                  *)
(***************************************************************************)
EXTENDS EngineRefinement

\* Latencies of the feed and of order updates that let a report overtake a
\* tick and be overtaken by one; one or two open orders; the kill switch
\* fires at a loss of one.
TickConfig ==
  [mode |-> "Tick", model |-> "Conservative",
   feed_latency |-> 1, order_update_latency |-> 1,
   max_batch |-> 0, auto_tune |-> FALSE,
   maker_fee |-> 0, taker_fee |-> 5000,
   max_open_orders |-> 2, max_position |-> 0, max_loss |-> -1]

\* A batch lasts two units, reports are immediate.
BatchConfig ==
  [TickConfig EXCEPT !.mode = "Batch", !.max_batch = 2, !.order_update_latency = 0,
                     !.max_open_orders = 1]

\* The longest batch is tuned, from a value below the tuner's floor.
TunedConfig == [BatchConfig EXCEPT !.auto_tune = TRUE, !.max_batch = 1]

Tick(gap, delay, side, price, qty) ==
  [gap |-> gap, delay |-> delay, symbol |-> 1, side |-> side, price |-> price, qty |-> qty]

Order1(side, type, price, qty) ==
  [symbol |-> 1, side |-> side, type |-> type, price |-> price, qty |-> qty]

Depth(ts, side, price, qty) ==
  [ts |-> ts, kind |-> "L2Update", symbol |-> 1, side |-> side, price |-> price, qty |-> qty]

Funding(ts, rate) == [ts |-> ts, kind |-> "Funding", symbol |-> 1, rate |-> rate]

\* The same with a limit of two units on the position.
PositionConfig == [TickConfig EXCEPT !.max_position = 2, !.max_loss = 0]

LimitedPosition == {PositionConfig}

BothModes == {TickConfig, BatchConfig, TunedConfig}
MixedFeed ==
  {Tick(0, NoDelay, "Sell", 1, 1), Tick(1, 0, "Sell", 1, 2), Tick(1, 2, "Buy", 2, 1)}
MixedOrders == {Order1("Buy", "Limit", 1, 2), Order1("Sell", "Market", 2, 2)}
MixedPreloads ==
  {<<>>, <<Depth(1, "Buy", 1, 1), Depth(2, "Buy", 2, 1), Funding(3, 1)>>}

=============================================================================
