\* Everything is logged and nothing is charged; a position can be closed in parts.
SPECIFICATION Spec
CONSTANTS
  Scale = 1
  Lanes = 2
  ParallelAbove = 3
  Symbols = {1}
  Configs <- FreeConfigs
  Trades <- PartialTrades
  Fundings <- MixedFundings
  Gaps = {1}
  MaxTickFills = 1
  MaxFills = 4
  MaxFundings = 0
CHECK_DEADLOCK FALSE
INVARIANTS WinRatePerRoundTrip
