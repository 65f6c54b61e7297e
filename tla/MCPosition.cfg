\* A limit of two units on the position, two orders of two units.
SPECIFICATION Spec
CONSTANTS
  Prices = {1, 2}
  Scale = 1
  Symbols = {1}
  Symbol = 1
  Configs <- LimitedPosition
  Feed <- MixedFeed
  Preloads <- MixedPreloads
  StrategyOrders <- MixedOrders
  OrderLatencies = {0, 2}
  TunerFloor = 2
  TunerDefault = 3
  TunerStep = 1
  TunerInterval = 2
  MaxTicks = 3
  MaxOrders = 2
  MaxCancels = 2
  MaxCommands = 2
INVARIANTS PositionBounded
