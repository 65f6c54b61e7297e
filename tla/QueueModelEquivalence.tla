----------------------- MODULE QueueModelEquivalence -----------------------
(***************************************************************************)
(* The same calls made to two exchange simulators that differ only in the  *)
(* queue model: ex uses one of Conservative and VolumeClock, twin the      *)
(* other.  The two count in different ways (what is left ahead; what has   *)
(* traded and what has been claimed); this module asks whether a strategy  *)
(* can tell them apart.                                                    *)
(***************************************************************************)
EXTENDS ExchangeSimulator

VARIABLE twin

T == INSTANCE ExchangeSimulator WITH ex <- twin

both == <<ex, twin>>

OtherModel(m) == IF m = "Conservative" THEN "VolumeClock" ELSE "Conservative"

BothInit == Init /\ twin = NewExchange(OtherModel(ex.model))

BothNext ==
  \/ \E side \in BookSide, p \in Prices, q \in LevelQtys :
       OnL2Update(side, p, q) /\ T!OnL2Update(side, p, q)
  \/ \E id \in OrderIds, o \in Orders : OnOrder(id, o) /\ T!OnOrder(id, o)
  \/ \E id \in OrderIds : OnLimitAck(id) /\ T!OnLimitAck(id)
  \/ \E id \in OrderIds, f \in Fallbacks : OnMarketAck(id, f) /\ T!OnMarketAck(id, f)
  \/ \E id \in OrderIds : OnCancel(id) /\ T!OnCancel(id)
  \/ \E id \in OrderIds : OnCancelAck(id) /\ T!OnCancelAck(id)
  \/ \E t \in Trades : OnTick(t) /\ T!OnTick(t)
  \/ \E id \in OrderIds : OnTerminalReport(id) /\ T!OnTerminalReport(id)

BothSpec == BothInit /\ [][BothNext]_both

-----------------------------------------------------------------------------
\* What a strategy can learn of an order: everything but its queue state.
Visible(o) == <<o.side, o.type, o.price, o.qty, o.state, o.filled, o.remaining>>

(***************************************************************************)
(* Conservative::check_fill and VolumeClock::check_fill give every order   *)
(* the same fills, for any levels, cuts of the volume into trades and      *)
(* cancels: SPEC.md 3.3 C lists two models, they differ in bookkeeping.    *)
(***************************************************************************)
ModelsAgree ==
  /\ Live(ex) = Live(twin)
  /\ \A id \in Live(ex) : Visible(ex.orders[id]) = Visible(twin.orders[id])
  /\ ex.book = twin.book /\ ex.buckets = twin.buckets

(***************************************************************************)
(* on_trade reports the same to the strategy under either model, in the    *)
(* same order, whatever trade comes next.                                  *)
(***************************************************************************)
ReportsAgree ==
  \A t \in Trades : OnTradeReports(ex, t) = OnTradeReports(twin, t)
=============================================================================
