------------------------------ MODULE MCLedger ------------------------------
(***************************************************************************)
(* Small instances of the books for TLC.                                   *)
(***************************************************************************)
EXTENDS Ledger

Mode(kind) == [kind |-> kind]
Ring(cap)  == [kind |-> "RingBuffer", cap |-> cap]

Run(mode, fee_bps, max_loss) ==
  [log_mode |-> mode, fee_bps |-> fee_bps, max_loss |-> max_loss]

\* Every mode, rings of one fill and of two; without a fee and with one of a tenth of the notional.
MixedConfigs ==
  {Run(Mode("All"), 0, -3), Run(Ring(1), 0, 0), Run(Ring(2), 1000, -3),
   Run(Mode("SummaryOnly"), 0, 0), Run(Mode("None"), 1000, -3)}

FreeConfigs == {Run(Mode("All"), 0, 0)}

Trade(symbol, side, price, qty) ==
  [symbol |-> symbol, side |-> side, price |-> price, qty |-> qty]

\* Opens, adds at another price, reductions with a profit and with a loss,
\* a close, a flip, and a second symbol.
MixedTrades ==
  {Trade(1, "Buy", 10, 1), Trade(1, "Buy", 13, 2), Trade(1, "Sell", 16, 1),
   Trade(1, "Sell", 7, 3), Trade(2, "Sell", 11, 1)}

\* A position that is closed in parts.
PartialTrades ==
  {Trade(1, "Buy", 10, 2), Trade(1, "Sell", 16, 1), Trade(1, "Sell", 7, 1)}

MixedFundings == {[symbol |-> 1, rate |-> 1, mark |-> 10]}
=============================================================================
