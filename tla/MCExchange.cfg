\* Two orders of one or three units, bids and asks at one price, both queue
\* models in lockstep, levels of up to two units and trades of one or two: a
\* trade can end inside the queue ahead, at its end, inside the order and
\* beyond it.
SPECIFICATION BothSpec
CONSTANTS
  Prices = {1}
  Models = {"Conservative", "VolumeClock"}
  OrderIds = {1, 2}
  OrderSides = {"Buy", "Sell"}
  OrderQtys = {1, 3}
  LevelQtys = {0, 1, 2}
  TradeQtys = {1, 2}
INVARIANTS TypeOK QuantityConserved IndexCoherent VolumeClockExact QueueBeforeFill ModelsAgree ReportsAgree
PROPERTIES TerminalFrozen
