------------------------------ MODULE Account ------------------------------
(***************************************************************************)
(* backtester-core/src/account.rs and compute_fee of engine.rs: what a     *)
(* fill and a funding payment do to the position in one symbol.            *)
(* Quantities and prices are integers in units of 1/Scale, as in the code  *)
(* (types.rs: FixedPoint::SCALE); its divisions truncate toward zero.  The *)
(* clamps at the ends of i64 are out of reach of the quantities checked.   *)
(***************************************************************************)
EXTENDS OrderTypes

CONSTANT Scale   \* FixedPoint::SCALE

ASSUME ScaleAssumption == Scale \in Nat \ {0}

Position == [qty : Int, avg : Nat, funding : Int]

NoPosition == [qty |-> 0, avg |-> 0, funding |-> 0]

Abs(n) == IF n < 0 THEN -n ELSE n

Sign(n) == IF n < 0 THEN -1 ELSE IF n > 0 THEN 1 ELSE 0

\* Integer division of the code: toward zero.
Quotient(n, d) == Sign(n) * (Abs(n) \div d)

Signed(side, qty) ==
  CASE side = "Buy"  -> qty
    [] side = "Sell" -> -qty
    [] OTHER         -> 0

Adds(p, delta) == p.qty = 0 \/ Sign(p.qty) = Sign(delta)

\* Open, or add to the position: a new average price, no profit or loss.
Increase(p, delta, price) ==
  [p EXCEPT !.qty = @ + delta,
            !.avg = (@ * Abs(p.qty) + price * Abs(delta)) \div (Abs(p.qty) + Abs(delta))]

\* Reduce, close or flip: a flipped position was opened at this fill's price.
Decrease(p, delta, price) ==
  LET left == p.qty + delta
  IN  [p EXCEPT !.qty = left,
                !.avg = CASE left = 0 -> 0
                          [] Sign(left) = Sign(p.qty) -> @
                          [] OTHER -> price]

\* Faulty: a fill that flips the position realises its whole quantity.
WholeFillPnl(p, delta, price) ==
  Quotient(Sign(p.qty) * (price - p.avg) * Abs(delta), Scale)

RealizedPnl(p, delta, price) ==
  Quotient(Sign(p.qty) * (price - p.avg) * Lesser(Abs(p.qty), Abs(delta)), Scale)

\* on_fill: the position after the fill and the profit or loss it realises.
OnFill(p, side, qty, price) ==
  LET delta == Signed(side, qty)
  IN  IF delta = 0 THEN [position |-> p, pnl |-> 0]
      ELSE IF Adds(p, delta) THEN [position |-> Increase(p, delta, price), pnl |-> 0]
      ELSE [position |-> Decrease(p, delta, price), pnl |-> RealizedPnl(p, delta, price)]

\* apply_funding: longs pay shorts when the rate is positive.
FundingPnl(p, rate, mark) ==
  -Quotient(Quotient(p.qty * mark, Scale) * rate, Scale)

ApplyFunding(p, rate, mark) ==
  LET pnl == FundingPnl(p, rate, mark)
  IN  [position |-> [p EXCEPT !.funding = @ + pnl], pnl |-> pnl]

\* compute_fee, in basis points of the notional.
ComputeFee(price, qty, fee_bps) == (price * Abs(qty) * fee_bps) \div (Scale * 10000)
=============================================================================
