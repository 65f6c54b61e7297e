\* The instance of MCEngine.cfg.
SPECIFICATION Spec
CONSTANTS
  Prices = {1, 2}
  Scale = 1
  Symbols = {1}
  Symbol = 1
  Configs <- BothModes
  Feed <- MixedFeed
  Preloads <- MixedPreloads
  StrategyOrders <- MixedOrders
  OrderLatencies = {0, 2}
  TunerFloor = 2
  TunerDefault = 3
  TunerStep = 1
  TunerInterval = 2
  MaxTicks = 3
  MaxOrders = 2
  MaxCancels = 2
  MaxCommands = 2
PROPERTIES ReportsWakeAtOnce
