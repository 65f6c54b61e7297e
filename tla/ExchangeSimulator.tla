-------------------------- MODULE ExchangeSimulator --------------------------
(***************************************************************************)
(* One exchange simulator on its own, driven by every sequence of calls    *)
(* the engine's contract allows.  Each action is one event handler of      *)
(* Engine::step seen from the exchange: the methods it calls, in order.    *)
(* The guards that are not Ok conditions of the methods are that contract, *)
(* most of it written as debug_assert! in the code; Engine.tla is shown to *)
(* respect it.                                                             *)
(***************************************************************************)
EXTENDS Exchange, FiniteSets

CONSTANTS
  Models,      \* the queue models to try
  OrderIds,    \* the order ids to use
  OrderSides,  \* the sides of the strategy's orders
  OrderQtys,   \* the quantities of the strategy's orders
  LevelQtys,   \* the quantities an L2 update sets (0 removes the level)
  TradeQtys    \* the quantities of market trades

ASSUME ExchangeAssumption ==
  /\ Models \subseteq QueueModel
  /\ OrderIds \subseteq OrderId
  /\ OrderSides \subseteq Side
  /\ OrderQtys \subseteq Nat \ {0}
  /\ LevelQtys \subseteq Nat
  /\ TradeQtys \subseteq Nat

VARIABLE ex

vars == ex

Orders == [side : OrderSides, type : OrderType, price : Prices, qty : OrderQtys]

Trades == [side : Side, price : Prices, qty : TradeQtys]

Fallbacks == Prices \cup {NoPrice}

Init == \E m \in Models : ex = NewExchange(m)

-----------------------------------------------------------------------------
OnL2Update(side, price, qty) == ex' = ApplyL2Update(ex, side, price, qty)

\* The engine hands out every id once.
OnOrder(id, o) ==
  /\ id \notin Live(ex)
  /\ ex' = SubmitOrder(ex, id, o)

OnLimitAck(id) ==
  /\ CanAckNew(ex, id)
  /\ ex.orders[id].type = "Limit"
  /\ ex' = AckNew(ex, id)

\* A partial fill of a market order is cancelled by the same handler.
ExecuteMarket(x, id, fallback) ==
  LET filled == FillMarketImmediately(x, id, fallback)
  IN  IF StateOf(filled, id) = "PartiallyFilled"
      THEN ForceCancelPartialFill(filled, id) ELSE filled

OnMarketAck(id, fallback) ==
  /\ CanAckNew(ex, id)
  /\ ex.orders[id].type = "Market"
  /\ ex' = ExecuteMarket(ex, id, fallback)

OnCancel(id) == CanCancelOrder(ex, id) /\ ex' = CancelOrder(ex, id)

OnCancelAck(id) == CanAckCancel(ex, id) /\ ex' = AckCancel(ex, id)

OnTick(trade) == ex' = OnTrade(ex, trade)

\* Only the delivery of a terminal report removes an order.
OnTerminalReport(id) ==
  /\ id \in Live(ex)
  /\ IsTerminal(StateOf(ex, id))
  /\ ex' = RemoveOrder(ex, id)

Next ==
  \/ \E side \in BookSide, p \in Prices, q \in LevelQtys : OnL2Update(side, p, q)
  \/ \E id \in OrderIds, o \in Orders : OnOrder(id, o)
  \/ \E id \in OrderIds : OnLimitAck(id)
  \/ \E id \in OrderIds, f \in Fallbacks : OnMarketAck(id, f)
  \/ \E id \in OrderIds : OnCancel(id)
  \/ \E id \in OrderIds : OnCancelAck(id)
  \/ \E t \in Trades : OnTick(t)
  \/ \E id \in OrderIds : OnTerminalReport(id)

Spec == Init /\ [][Next]_vars

-----------------------------------------------------------------------------
(***************************************************************************)
(* Every field of the simulator keeps its type; in particular quantities   *)
(* stay natural numbers, which the subtractions of on_trade could break.   *)
(***************************************************************************)
TypeOK == WellTyped(ex)

(***************************************************************************)
(* Quantity is conserved through every fill, over any series of trades,    *)
(* cancels and immediate executions: what is filled and what remains add   *)
(* up to what was ordered, and Filled means exactly that nothing remains.  *)
(* on_trade, fill_market_immediately and ack_cancel each write a part of   *)
(* these fields.                                                           *)
(***************************************************************************)
QuantityConserved == \A id \in Live(ex) : Conserved(ex.orders[id])

(***************************************************************************)
(* The (price, side) index and the order map say the same: a bucket holds  *)
(* each live order of its key exactly once and nothing else, so on_trade   *)
(* neither misses an order nor asks the queue model twice about one trade. *)
(***************************************************************************)
IndexCoherent == Indexed(ex)

(***************************************************************************)
(* A volume-clock order was filled exactly min(quantity, volume past its   *)
(* queue position), the definition of the model in SPEC.md 3.3 C, and has  *)
(* claimed as much: the incremental bookkeeping of check_fill comes to     *)
(* this however the volume is cut into trades and whatever cancel is in    *)
(* flight meanwhile.                                                       *)
(***************************************************************************)
VolumeClockExact ==
  ex.model = "VolumeClock" => \A id \in Live(ex) : Claimed(ex.orders[id])

(***************************************************************************)
(* The conservative model puts the order last: as long as any of the       *)
(* quantity that was ahead at entry is left, nothing of it is filled.      *)
(***************************************************************************)
QueueBeforeFill ==
  ex.model = "Conservative" => \A id \in Live(ex) : LastInQueue(ex.orders[id])

(***************************************************************************)
(* A terminal order is frozen until it is removed: a later trade, cancel   *)
(* acknowledgement or execution changes none of its fields, whatever is    *)
(* still in flight for it.                                                 *)
(***************************************************************************)
TerminalFrozen ==
  [][\A id \in Live(ex) \cap DOMAIN ex'.orders :
       IsTerminal(ex.orders[id].state) => ex'.orders[id] = ex.orders[id]]_vars

-----------------------------------------------------------------------------
(***************************************************************************)
(* types.rs gives the state machine of an order (can_transition_to); a     *)
(* live order only moves along its edges.  (on_trade does not consult it:  *)
(* a partial fill takes an order with a cancel in flight from              *)
(* PendingCancel back to PartiallyFilled, where the acknowledgement of the *)
(* cancel fails.)                                                          *)
(***************************************************************************)
\* A market order's partial fill and its cancellation are one step here.
LegalStep(s, t) ==
  s = t \/ CanTransitionTo(s, t) \/ (s = "PendingNew" /\ t = "Cancelled")

LegalTransitions ==
  [][\A id \in Live(ex) \cap DOMAIN ex'.orders :
       LegalStep(ex.orders[id].state, ex'.orders[id].state)]_vars
=============================================================================
