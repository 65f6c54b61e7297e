\* Two prices on one side, three venue orders, four changes, deletions and
\* trades, one strategy order of two units; venue ids that no strategy order
\* has; both kinds of feed.  The bounds stop the venue, so the run may end.
SPECIFICATION Spec
CONSTANTS
  Prices = {1, 2}
  Sides = {"Buy"}
  OrderIds = {1}
  OrderQtys = {2}
  VenueQtys = {1, 2}
  TradeQtys = {1, 2, 3}
  FirstVenueId = 10
  MaxVenueOrders = 3
  MaxChanges = 4
  FeedOrders = {"TradeFirst", "UpdatesFirst"}
CHECK_DEADLOCK FALSE
INVARIANTS TypeOK BookFollowsVenue QueueExact NeverTooFarBack AheadAddsUp FirstOnceFilled
