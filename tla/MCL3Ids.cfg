\* The venue numbers its orders from 1, as the engine does.
SPECIFICATION Spec
CONSTANTS
  Prices = {1}
  Sides = {"Buy"}
  OrderIds = {1}
  OrderQtys = {2}
  VenueQtys = {1, 2}
  TradeQtys = {1, 2, 3}
  FirstVenueId = 1
  MaxVenueOrders = 2
  MaxChanges = 1
  FeedOrders = {"TradeFirst", "UpdatesFirst"}
CHECK_DEADLOCK FALSE
PROPERTIES SnapshotIsFullLevel
