------------------------------ MODULE TradeLog ------------------------------
(***************************************************************************)
(* The trade log of backtester-core/src/stats.rs.  A log is                *)
(*   mode         what it retains, and at most how many fills (cap)        *)
(*   fills        the retained fills, in fills or fills_ring               *)
(*   pnl_history  all entries: the net result of each fill, and funding    *)
(*   inc          IncrementalStats, kept up with every call                *)
(***************************************************************************)
EXTENDS Statistics

CONSTANT ParallelAbove  \* entries above which the statistics are recomputed

ASSUME ParallelAssumption == ParallelAbove \in Nat

TradeLogMode == [kind : {"All", "SummaryOnly", "None"}] \cup [kind : {"RingBuffer"}, cap : Nat]

NoStats ==
  [total_trades |-> 0, total_pnl |-> 0, gross_profit |-> 0, gross_loss |-> 0,
   win_count |-> 0, total_fees_paid |-> 0, total_holding_period |-> 0,
   closed_trades |-> 0, pnl_count |-> 0, pnl_mean |-> Zero, pnl_m2 |-> Zero,
   downside_sq_sum |-> 0, equity |-> 0, peak_equity |-> 0, peak_ts |-> 0,
   max_drawdown |-> Zero, max_drawdown_duration |-> 0, pos_state |-> <<>>]

NewLog(mode) == [mode |-> mode, fills |-> <<>>, pnl_history |-> <<>>, inc |-> NoStats]

-----------------------------------------------------------------------------
\* Faulty: only the fill that ends a position counts as a closed trade.
CountFlat(inc, f) ==
  LET s == PosOf(inc.pos_state, f.symbol)
  IN  [inc EXCEPT
         !.total_trades = @ + 1,
         !.total_fees_paid = @ + f.fee,
         !.pos_state = IF Ignored(f) THEN @ ELSE Insert(@, f.symbol, PosAfter(s, f)),
         !.total_holding_period = @ + HeldFor(s, f),
         !.closed_trades = IF Closes(s, f) /\ PosAfter(s, f).qty = 0 THEN @ + 1 ELSE @]

\* IncrementalStats::on_fill.
CountFill(inc, f) ==
  LET s      == PosOf(inc.pos_state, f.symbol)
      counts == GrossPnl(s, f) # 0
  IN  [inc EXCEPT
         !.total_trades = @ + 1,
         !.total_fees_paid = @ + f.fee,
         !.pos_state = IF Ignored(f) THEN @ ELSE Insert(@, f.symbol, PosAfter(s, f)),
         !.total_holding_period = @ + HeldFor(s, f),
         !.closed_trades = IF counts THEN @ + 1 ELSE @]

\* Faulty: funding counts as a trade.
FundingAsTrade(inc, pnl, is_trade) ==
  [inc EXCEPT
     !.total_pnl = @ + pnl,
     !.gross_profit = IF pnl > 0 THEN @ + pnl ELSE @,
     !.win_count = IF pnl > 0 THEN @ + 1 ELSE @,
     !.gross_loss = IF pnl < 0 THEN @ + pnl ELSE @]

\* IncrementalStats::on_pnl, part by part: the sums,
AddToSums(inc, pnl, is_trade) ==
  [inc EXCEPT
     !.total_pnl = @ + pnl,
     !.gross_profit = IF is_trade /\ pnl > 0 THEN @ + pnl ELSE @,
     !.win_count = IF is_trade /\ pnl > 0 THEN @ + 1 ELSE @,
     !.gross_loss = IF is_trade /\ pnl < 0 THEN @ + pnl ELSE @]

\* Faulty: both differences are taken from the old mean.
OldMeanTwice(inc, pnl) ==
  LET count == inc.pnl_count + 1
      delta == Minus(Ratio(pnl, 1), inc.pnl_mean)
  IN  [inc EXCEPT
         !.pnl_count = count,
         !.pnl_mean = Plus(@, Over(delta, count)),
         !.pnl_m2 = Plus(@, Times(delta, delta)),
         !.downside_sq_sum = @ + Downside(pnl)]

\* the running mean and spread (Welford),
AddToSpread(inc, pnl) ==
  LET count == inc.pnl_count + 1
      delta == Minus(Ratio(pnl, 1), inc.pnl_mean)
      mean  == Plus(inc.pnl_mean, Over(delta, count))
  IN  [inc EXCEPT
         !.pnl_count = count,
         !.pnl_mean = mean,
         !.pnl_m2 = Plus(@, Times(delta, Minus(Ratio(pnl, 1), mean))),
         !.downside_sq_sum = @ + Downside(pnl)]

\* the worst fall of the equity so far,
Fallen(inc, ts) ==
  LET dd == AtMostAll(Ratio(inc.peak_equity - inc.equity, inc.peak_equity))
  IN  IF inc.peak_equity > 0 /\ Exceeds(dd, inc.max_drawdown)
      THEN [inc EXCEPT !.max_drawdown = dd, !.max_drawdown_duration = ts - inc.peak_ts]
      ELSE inc

\* Faulty: the time of the first peak stays.
FirstPeakTime(inc, ts, pnl) ==
  LET moved == [inc EXCEPT !.equity = @ + pnl]
  IN  IF inc.pnl_count = 1 THEN [moved EXCEPT !.peak_equity = moved.equity, !.peak_ts = ts]
      ELSE IF moved.equity > inc.peak_equity THEN [moved EXCEPT !.peak_equity = moved.equity]
      ELSE Fallen(moved, ts)

\* and the equity with its peak.
AddToEquity(inc, ts, pnl) ==
  LET moved == [inc EXCEPT !.equity = @ + pnl]
  IN  IF inc.pnl_count = 1 \/ moved.equity > inc.peak_equity
      THEN [moved EXCEPT !.peak_equity = moved.equity, !.peak_ts = ts]
      ELSE Fallen(moved, ts)

CountPnl(inc, ts, pnl, is_trade) ==
  AddToEquity(AddToSpread(AddToSums(inc, pnl, is_trade), pnl), ts, pnl)

-----------------------------------------------------------------------------
\* Faulty: a full ring drops its newest fill.
DropNewest(mode, fills, f) ==
  CASE mode.kind = "All"        -> Append(fills, f)
    [] mode.kind = "RingBuffer" -> Append(IF Len(fills) >= mode.cap /\ fills # <<>>
                                          THEN Front(fills) ELSE fills, f)
    [] OTHER                    -> <<>>

\* The fills a mode retains; a full ring drops its oldest.
Retain(mode, fills, f) ==
  CASE mode.kind = "All"        -> Append(fills, f)
    [] mode.kind = "RingBuffer" -> Append(IF Len(fills) >= mode.cap /\ fills # <<>>
                                          THEN Tail(fills) ELSE fills, f)
    [] OTHER                    -> <<>>

Off(log) == log.mode.kind = "None"

PushFill(log, f) ==
  IF Off(log) THEN log
  ELSE [log EXCEPT !.fills = Retain(log.mode, @, f), !.inc = CountFill(@, f)]

PushPnl(log, ts, pnl, is_trade) ==
  IF Off(log) THEN log
  ELSE [log EXCEPT !.pnl_history = Append(@, [ts |-> ts, pnl |-> pnl]),
                   !.inc = CountPnl(@, ts, pnl, is_trade)]

PushPnlDelta(log, ts, pnl) == PushPnl(log, ts, pnl, TRUE)
PushPnlEvent(log, ts, pnl) == PushPnl(log, ts, pnl, FALSE)

LogLen(log) ==
  IF log.mode.kind = "SummaryOnly" THEN log.inc.total_trades ELSE Len(log.fills)

-----------------------------------------------------------------------------
(***************************************************************************)
(* calculate_stats.  profit_factor is infinite when there is a profit and  *)
(* no loss.                                                                *)
(***************************************************************************)
Infinite == [num |-> 1, den |-> 0]

WinRate(wins, closed) == IF closed > 0 THEN Ratio(wins, closed) ELSE Zero

ProfitFactor(profit, loss) ==
  IF loss < 0 THEN Ratio(profit, -loss) ELSE IF profit > 0 THEN Infinite ELSE Zero

Calmar(total, drawdown) ==
  IF drawdown = Zero THEN Zero ELSE Ratio(total * drawdown.den, Scale * drawdown.num)

PerTrade(total, closed) == IF closed > 0 THEN Quotient(total, closed) ELSE 0

DefaultStats ==
  [total_trades |-> 0, win_rate |-> Zero, profit_factor |-> Zero,
   sharpe_ratio |-> NoRatio, sortino_ratio |-> NoRatio,
   max_drawdown |-> Zero, max_drawdown_duration |-> 0, calmar_ratio |-> Zero,
   total_pnl |-> 0, avg_trade_pnl |-> 0, avg_holding_period |-> 0,
   total_fees_paid |-> 0]

Series(log) == [i \in DOMAIN log.pnl_history |-> log.pnl_history[i].pnl]

IncrementalSharpe(inc) ==
  IF inc.pnl_count < 2 THEN NoRatio
  ELSE RatioTo(inc.pnl_mean, Over(inc.pnl_m2, inc.pnl_count - 1))

IncrementalSortino(inc) ==
  IF inc.pnl_count < 2 THEN NoRatio
  ELSE RatioTo(inc.pnl_mean, Ratio(inc.downside_sq_sum, inc.pnl_count))

\* What the two ways to calculate_stats have in common.
Summary(inc, sharpe, sortino) ==
  [total_trades |-> inc.total_trades,
   win_rate |-> WinRate(inc.win_count, inc.closed_trades),
   profit_factor |-> ProfitFactor(inc.gross_profit, inc.gross_loss),
   sharpe_ratio |-> sharpe,
   sortino_ratio |-> sortino,
   max_drawdown |-> inc.max_drawdown,
   max_drawdown_duration |-> inc.max_drawdown_duration,
   calmar_ratio |-> Calmar(inc.total_pnl, inc.max_drawdown),
   total_pnl |-> inc.total_pnl,
   avg_trade_pnl |-> PerTrade(inc.total_pnl, inc.closed_trades),
   avg_holding_period |-> PerTrade(inc.total_holding_period, inc.closed_trades),
   total_fees_paid |-> inc.total_fees_paid]

CalculateStats(log) ==
  IF Off(log) THEN DefaultStats
  ELSE IF Len(log.pnl_history) > ParallelAbove
  THEN Summary(log.inc, SharpeParallel(Series(log)), SortinoParallel(Series(log)))
  ELSE Summary(log.inc, IncrementalSharpe(log.inc), IncrementalSortino(log.inc))

\* calculate_stats_with_backend, with the CPU backend.
CalculateStatsWithBackend(log) ==
  IF Off(log) THEN DefaultStats
  ELSE Summary(log.inc, SharpeParallel(Series(log)), SortinoParallel(Series(log)))

(***************************************************************************)
(* calculate_stats_batch, the reference of the unit tests: everything anew *)
(* from the retained fills and the history.  It counts gross results, and  *)
(* a closed trade by its holding period.                                   *)
(***************************************************************************)
BatchStats(log) ==
  LET deltas  == PnlDeltas(log.fills)
      closed  == Cardinality({i \in DOMAIN deltas : deltas[i].held > 0})
      wins    == Cardinality({i \in DOMAIN deltas : deltas[i].pnl > 0})
      profit  == Total(Mapped(LAMBDA d : IF d.pnl > 0 THEN d.pnl ELSE 0, deltas))
      loss    == Total(Mapped(LAMBDA d : IF d.pnl < 0 THEN d.pnl ELSE 0, deltas))
      held    == Total(Mapped(LAMBDA d : d.held, deltas))
      total   == Total(Series(log))
      fall    == MaxDrawdown(EquityCurve(log.pnl_history))
  IN  IF Off(log) THEN DefaultStats ELSE
      [total_trades |-> Len(log.fills),
       win_rate |-> WinRate(wins, closed),
       profit_factor |-> ProfitFactor(profit, loss),
       sharpe_ratio |-> SharpeScalar(Series(log)),
       sortino_ratio |-> SortinoScalar(Series(log)),
       max_drawdown |-> fall.fraction,
       max_drawdown_duration |-> fall.duration,
       calmar_ratio |-> Calmar(total, fall.fraction),
       total_pnl |-> total,
       avg_trade_pnl |-> PerTrade(total, closed),
       avg_holding_period |-> PerTrade(held, closed),
       total_fees_paid |-> 0]
=============================================================================
