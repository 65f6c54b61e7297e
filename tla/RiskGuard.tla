----------------------------- MODULE RiskGuard -----------------------------
(***************************************************************************)
(* backtester-core/src/risk_guard.rs.  A guard is the running profit and   *)
(* loss and the kill switch; the limits come from the engine's             *)
(* configuration, where 0 disables a limit and max_loss is negative.       *)
(***************************************************************************)
EXTENDS Account

RiskGuard == [killed : BOOLEAN, running_pnl : Int]

NewGuard == [killed |-> FALSE, running_pnl |-> 0]

\* Faulty: the limit itself is let through.
OneOrderTooMany(limits, open) == limits.max_open_orders > 0 /\ open > limits.max_open_orders

TooManyOrders(limits, open) == limits.max_open_orders > 0 /\ open >= limits.max_open_orders

TooLarge(limits, side, qty, position) ==
  limits.max_position > 0 /\ Abs(position + Signed(side, qty)) > limits.max_position

\* check_order: is there a reason to reject the order before submission?
RejectsOrder(guard, limits, order, open, position) ==
  \/ guard.killed
  \/ TooManyOrders(limits, open)
  \/ TooLarge(limits, order.side, order.qty, position)

\* Faulty: the kill switch follows the profit and loss back up.
RecoveringPnl(guard, limits, delta) ==
  LET pnl == guard.running_pnl + delta
  IN  [killed |-> limits.max_loss < 0 /\ pnl <= limits.max_loss, running_pnl |-> pnl]

UpdatePnl(guard, limits, delta) ==
  LET pnl == guard.running_pnl + delta
  IN  [killed |-> guard.killed \/ (limits.max_loss < 0 /\ pnl <= limits.max_loss),
       running_pnl |-> pnl]
=============================================================================
