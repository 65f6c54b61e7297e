\* Both modes; three ticks that trade at two prices on either side, with
\* and without a delivery time of their own; two orders, two cancels; with
\* and without a book and a funding event.  Deadlock is checked: the engine
\* has a step until run() may return.
SPECIFICATION FairSpec
CONSTANTS
  Prices = {1, 2}
  Scale = 1
  Symbols = {1}
  Symbol = 1
  Configs <- BothModes
  Feed <- MixedFeed
  Preloads <- MixedPreloads
  StrategyOrders <- MixedOrders
  OrderLatencies = {0, 2}
  TunerFloor = 2
  TunerDefault = 3
  TunerStep = 1
  TunerInterval = 2
  MaxTicks = 3
  MaxOrders = 2
  MaxCancels = 2
  MaxCommands = 2
INVARIANTS TypeOK RouteCoherent NothingStuck OpenOrdersBounded FillsAccounted NoLookahead BatchHasDeadline StopsClean
PROPERTIES ClockMonotone ReportsInOrder KilledForGood ImplementsExchange OrdersAnswered
