------------------------------- MODULE Ledger -------------------------------
(***************************************************************************)
(* The books of one run: the account (account.rs), the risk guard          *)
(* (risk_guard.rs) and the trade log (stats.rs), which the engine keeps    *)
(* next to each other.  A fill is entered three times, each in arithmetic  *)
(* of its own: the log keeps positions and prices too, and the statistics  *)
(* are kept up fill by fill.  An action is what engine.rs does to the      *)
(* books in one event: a tick with the fills it made, the fill of a market *)
(* order, or a funding payment.                                            *)
(***************************************************************************)
EXTENDS TradeLog, RiskGuard

CONSTANTS
  Symbols,      \* symbol ids
  Configs,      \* the configurations to try
  Trades,       \* the executions a strategy can get
  Fundings,     \* the funding payments
  Gaps,         \* the times between two events
  MaxTickFills, \* bound: fills of one tick
  MaxFills,     \* bound: fills of a run
  MaxFundings   \* bound: funding payments of a run

ASSUME LedgerAssumption ==
  /\ Configs \subseteq [log_mode : TradeLogMode, fee_bps : Nat, max_loss : Int]
  /\ Trades \subseteq [symbol : Symbols, side : Side, price : Nat, qty : Nat]
  /\ Fundings \subseteq [symbol : Symbols, rate : Int, mark : Nat]
  /\ Gaps \subseteq Nat
  /\ MaxTickFills \in Nat /\ MaxFills \in Nat /\ MaxFundings \in Nat

VARIABLES
  config,     \* trade_log_mode, the fee and max_loss, chosen once
  now,        \* the time of the last event
  positions,  \* the account: symbol -> position
  guard,      \* the risk guard
  log,        \* the trade log
  fills,      \* for checking: every fill so far
  entries     \* for checking: every entry so far, and whether it is a fill's

vars == <<config, now, positions, guard, log, fills, entries>>

Init ==
  /\ config \in Configs
  /\ now = 0
  /\ positions = [s \in Symbols |-> NoPosition]
  /\ guard = NewGuard
  /\ log = NewLog(config.log_mode)
  /\ fills = <<>>
  /\ entries = <<>>

-----------------------------------------------------------------------------
Fill(t, ts) ==
  [symbol |-> t.symbol, side |-> t.side, price |-> t.price, qty |-> t.qty, ts |-> ts,
   fee |-> ComputeFee(t.price, t.qty, config.fee_bps)]

Entry(ts, pnl, trade) == [ts |-> ts, pnl |-> pnl, trade |-> trade]

\* One fill in the account, then its net result in the log and in the guard.
Enter(b, f) ==
  LET done == OnFill(b.positions[f.symbol], f.side, f.qty, f.price)
      net  == done.pnl - f.fee
  IN  [positions |-> [b.positions EXCEPT ![f.symbol] = done.position],
       guard     |-> UpdatePnl(b.guard, config, net),
       log       |-> PushPnlDelta(b.log, f.ts, net),
       entries   |-> Append(b.entries, Entry(f.ts, net, TRUE))]

\* The fills of one event: all of them go to the log first.
EnterFills(made) ==
  LET b == FoldLeft(Enter, [positions |-> positions, guard |-> guard, entries |-> entries,
                            log |-> FoldLeft(PushFill, log, made)], made)
  IN  /\ positions' = b.positions
      /\ guard' = b.guard
      /\ log' = b.log
      /\ entries' = b.entries
      /\ fills' = fills \o made

\* A tick fills any number of orders.
TickFills ==
  \E gap \in Gaps, n \in 1 .. Lesser(MaxTickFills, MaxFills - Len(fills)) :
    /\ now' = now + gap
    /\ \E ts \in [1 .. n -> Trades] : EnterFills([i \in 1 .. n |-> Fill(ts[i], now')])
    /\ UNCHANGED config

Paid == Len(SelectSeq(entries, LAMBDA e : ~e.trade))

FundingPayment ==
  \E gap \in Gaps, e \in Fundings :
    LET paid == ApplyFunding(positions[e.symbol], e.rate, e.mark)
    IN  /\ Paid < MaxFundings
        /\ now' = now + gap
        /\ positions' = [positions EXCEPT ![e.symbol] = paid.position]
        /\ log' = PushPnlEvent(log, now', paid.pnl)
        /\ guard' = UpdatePnl(guard, config, paid.pnl)
        /\ entries' = Append(entries, Entry(now', paid.pnl, FALSE))
        /\ UNCHANGED <<config, fills>>

Next == TickFills \/ FundingPayment

Spec == Init /\ [][Next]_vars

-----------------------------------------------------------------------------
Logging == ~Off(log)

Results == [i \in DOMAIN entries |-> entries[i].pnl]

(***************************************************************************)
(* The log's numbers keep their ranges: counts bound each other, sums of   *)
(* squares and the drawdown are not negative, and a drawdown is at most    *)
(* the whole.                                                              *)
(***************************************************************************)
TypeOK ==
  /\ config \in Configs
  /\ \A s \in Symbols : positions[s] \in Position
  /\ guard \in RiskGuard
  /\ log.mode = config.log_mode
  /\ \A i \in DOMAIN log.fills : log.fills[i].side \in Side
  /\ LET inc == log.inc
     IN  /\ inc.closed_trades <= inc.total_trades /\ inc.win_count <= inc.closed_trades
         /\ inc.total_holding_period >= 0 /\ inc.max_drawdown_duration >= 0
         /\ inc.gross_profit >= 0 /\ inc.gross_loss <= 0
         /\ inc.pnl_m2.num >= 0 /\ inc.downside_sq_sum >= 0
         /\ ~Exceeds(inc.max_drawdown, Ratio(1, 1)) /\ ~Exceeds(Zero, inc.max_drawdown)

(***************************************************************************)
(* What each mode retains.  Of the fills: all, "only the last N fills" or  *)
(* none, as TradeLogMode says, and len counts the same fills.  This is     *)
(* asked of a ring that has room for a fill: at capacity zero the code     *)
(* departs from those words, since push_fill has nothing to drop before    *)
(* its first push, and keeps one fill where none should stay.  Of the      *)
(* results, in every mode: all of them ("store *all* PnL events ... for    *)
(* accurate Equity Curve / MaxDD even if fills are dropped").              *)
(***************************************************************************)
KeptOf(mode, count) ==
  CASE mode.kind = "All"        -> count
    [] mode.kind = "RingBuffer" -> Lesser(count, mode.cap)
    [] OTHER                    -> 0

HasRoom(mode) == mode.kind = "RingBuffer" => mode.cap > 0

RetainsTheLast ==
  LET kept == KeptOf(config.log_mode, Len(fills))
  IN  /\ Logging => Series(log) = Results
      /\ HasRoom(config.log_mode) =>
           /\ log.fills = SubSeq(fills, Len(fills) - kept + 1, Len(fills))
           /\ LogLen(log) = IF config.log_mode.kind = "SummaryOnly" THEN Len(fills) ELSE kept

(***************************************************************************)
(* The log's pos_state and the account's positions are kept by two pieces  *)
(* of code, from a fill and from an order with a quantity and a price.     *)
(* They agree on quantity and average price after every fill, so the       *)
(* statistics are about the trades the account made.                       *)
(***************************************************************************)
LedgersAgree ==
  Logging => \A s \in Symbols :
    LET p == PosOf(log.inc.pos_state, s)
    IN  p.qty = positions[s].qty /\ p.avg = positions[s].avg

(***************************************************************************)
(* Profit is cash.  What the account realised, before fees and funding,    *)
(* is the money that came in for what was sold less what was paid for what *)
(* was bought, plus the worth of what is still held at its average price,  *)
(* but for rounding: an average price loses less than one unit per unit    *)
(* held each time it is computed, a closing division less than one.        *)
(***************************************************************************)
Cash == -Total([i \in DOMAIN fills |-> Signed(fills[i].side, fills[i].qty) * fills[i].price])

Rounding ==
  LET add(r, f) ==
        LET s == PosOf(r.state, f.symbol)
        IN  [state |-> Insert(r.state, f.symbol, PosAfter(s, f)),
             lost  |-> r.lost + IF Closes(s, f) THEN Scale - 1
                                ELSE Abs(PosAfter(s, f).qty) - 1]
  IN  FoldLeft(add, [state |-> <<>>, lost |-> 0], fills).lost

ProfitIsCash ==
  LET trades  == SelectSeq(entries, LAMBDA e : e.trade)
      gross   == Total([i \in DOMAIN trades |-> trades[i].pnl])
                 + Total([i \in DOMAIN fills |-> fills[i].fee])
      holding == MapThenSumSet(LAMBDA s : positions[s].qty * positions[s].avg, Symbols)
  IN  Abs(Scale * gross - (Cash + holding)) <= Rounding

(***************************************************************************)
(* The kill switch and the statistics tell one story: a run is killed      *)
(* exactly when its equity was at or below max_loss at some time, funding  *)
(* and fees included, even if later profits hide it from total_pnl.        *)
(***************************************************************************)
KilledAtLoss ==
  LET curve == EquityCurve(entries)
  IN  guard.killed
        <=> config.max_loss < 0
            /\ \E i \in DOMAIN curve : curve[i].equity <= config.max_loss

(***************************************************************************)
(* The drawdown kept entry by entry is the worst fall of the equity curve  *)
(* from any point above zero to any later one, at most the whole of it,    *)
(* and its duration is the time of such a fall.                            *)
(***************************************************************************)
DrawdownIsWorst ==
  LET curve      == EquityCurve(log.pnl_history)
      falls      == {p \in (DOMAIN curve) \X (DOMAIN curve) :
                       /\ p[1] < p[2]
                       /\ curve[p[1]].equity > 0 /\ curve[p[2]].equity < curve[p[1]].equity}
      fall(i, j) == AtMostAll(Ratio(curve[i].equity - curve[j].equity, curve[i].equity))
      worst      == {p \in falls : fall(p[1], p[2]) = log.inc.max_drawdown}
  IN  IF falls = {}
      THEN log.inc.max_drawdown = Zero /\ log.inc.max_drawdown_duration = 0
      ELSE /\ \A p \in falls : ~Exceeds(fall(p[1], p[2]), log.inc.max_drawdown)
           /\ \E p \in worst :
                log.inc.max_drawdown_duration = curve[p[2]].ts - curve[p[1]].ts

(***************************************************************************)
(* Whichever way calculate_stats takes, the ratios are the same: summed    *)
(* one by one, in lanes with any remainder, in one parallel pass, or kept  *)
(* entry by entry; so the number of entries at which it changes the way    *)
(* (10,000) does not show.  The unrolled equity curve is the plain one.    *)
(***************************************************************************)
BackendsAgree ==
  /\ Logging =>
       /\ CalculateStats(log) = CalculateStatsWithBackend(log)
       /\ CalculateStats(log).sharpe_ratio = SharpeScalar(Results)
       /\ CalculateStats(log).sortino_ratio = SortinoScalar(Results)
  /\ SharpeSimd(Results) = SharpeScalar(Results)
  /\ SortinoSimd(Results) = SortinoScalar(Results)
  /\ EquityCurveSimd(entries) = EquityCurve(entries)

(***************************************************************************)
(* The statistics kept fill by fill are those of calculate_stats_batch,    *)
(* the reference of the unit tests.  The two differ by design where a fee  *)
(* was charged (net and gross results), where a position was closed in the *)
(* instant it was opened (it is no closed trade to the reference), and     *)
(* once more than the peak was lost (the reference moves the end of the    *)
(* drawdown on).                                                           *)
(***************************************************************************)
Comparable ==
  /\ config.log_mode.kind = "All"
  /\ \A i \in DOMAIN fills : fills[i].fee = 0
  /\ LET deltas == PnlDeltas(fills) IN \A i \in DOMAIN deltas : deltas[i].pnl # 0 => deltas[i].held > 0
  /\ log.inc.max_drawdown # Ratio(1, 1)

MatchesBatch == Comparable => CalculateStats(log) = BatchStats(log)

-----------------------------------------------------------------------------
(***************************************************************************)
(* stats.rs: "win_rate is per closed round-trip, not per fill leg".  A     *)
(* round trip ends when a position is closed or flipped; it is won when    *)
(* its fills made a profit.  (The code counts each fill that reduces a     *)
(* position with a result.)                                                *)
(***************************************************************************)
RoundTrips ==
  LET add(t, f) ==
        LET s    == PosOf(t.state, f.symbol)
            gain == GrossPnl(s, f) - f.fee + IF f.symbol \in DOMAIN t.gain THEN t.gain[f.symbol] ELSE 0
            ends == Closes(s, f) /\ f.qty >= Abs(s.qty)
        IN  [state  |-> Insert(t.state, f.symbol, PosAfter(s, f)),
             gain   |-> Insert(t.gain, f.symbol, IF ends THEN 0 ELSE gain),
             closed |-> IF ends THEN t.closed + 1 ELSE t.closed,
             won    |-> IF ends /\ gain > 0 THEN t.won + 1 ELSE t.won]
  IN  FoldLeft(add, [state |-> <<>>, gain |-> <<>>, closed |-> 0, won |-> 0], fills)

WinRatePerRoundTrip ==
  Logging /\ RoundTrips.closed > 0 =>
    CalculateStats(log).win_rate = WinRate(RoundTrips.won, RoundTrips.closed)
=============================================================================
