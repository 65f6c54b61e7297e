\* Four fills, up to two in one tick, and a funding payment, in every mode.
\* Lanes are two wide, so that a series has whole groups and a remainder;
\* above three entries the statistics are recomputed.  The bounds stop it.
SPECIFICATION Spec
CONSTANTS
  Scale = 2
  Lanes = 2
  ParallelAbove = 3
  Symbols = {1, 2}
  Configs <- MixedConfigs
  Trades <- MixedTrades
  Fundings <- MixedFundings
  Gaps = {1}
  MaxTickFills = 2
  MaxFills = 4
  MaxFundings = 1
CHECK_DEADLOCK FALSE
INVARIANTS TypeOK RetainsTheLast LedgersAgree ProfitIsCash KilledAtLoss DrawdownIsWorst BackendsAgree MatchesBatch
