\* The instance of MCExchange.cfg, against the state machine of types.rs.
SPECIFICATION Spec
CONSTANTS
  Prices = {1}
  Models = {"Conservative", "VolumeClock"}
  OrderIds = {1, 2}
  OrderSides = {"Buy", "Sell"}
  OrderQtys = {1, 2}
  LevelQtys = {0, 1, 2}
  TradeQtys = {1, 2}
PROPERTIES LegalTransitions
