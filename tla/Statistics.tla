----------------------------- MODULE Statistics -----------------------------
(***************************************************************************)
(* backtester-core/src/stats.rs without the log itself: what one fill does *)
(* to a position's bookkeeping, and the statistics computed from a finished*)
(* series.  The code computes several of them more than once: in a scalar  *)
(* loop, in SIMD lanes with a remainder, as a parallel reduction, and fill *)
(* by fill.                                                                *)
(*                                                                         *)
(* A fill is [symbol, side, price, qty, fee, ts], an entry of a profit and *)
(* loss history [ts, pnl].  A ratio over a standard deviation is kept as   *)
(* its two parts, the mean and the variance.                               *)
(***************************************************************************)
EXTENDS Account, Ratios, SequencesExt

CONSTANT Lanes   \* the width of f64x4 and of the unrolled loops

ASSUME LanesAssumption == Lanes \in Nat \ {0}

-----------------------------------------------------------------------------
\* One symbol of pos_state.
Flat == [qty |-> 0, avg |-> 0, open |-> 0]

\* BTreeMap::entry(..).or_default().
PosOf(state, symbol) == IF symbol \in DOMAIN state THEN state[symbol] ELSE Flat

Ignored(f) == f.qty <= 0 \/ f.side = "None"

Opened(s, f, delta) ==
  [qty  |-> s.qty + delta,
   avg  |-> (s.avg * Abs(s.qty) + f.price * Abs(delta)) \div (Abs(s.qty) + Abs(delta)),
   open |-> IF s.qty = 0 THEN f.ts ELSE s.open]

\* Faulty: a flipped position keeps the price of the one before.
KeptOnFlip(s, f, left) ==
  CASE left = 0                 -> [s EXCEPT !.qty = 0, !.avg = 0]
    [] Sign(left) = Sign(s.qty) -> [s EXCEPT !.qty = left]
    [] OTHER                    -> [s EXCEPT !.qty = left, !.open = f.ts]

\* Reduced, closed, or flipped: the rest then opens at this fill.
Reduced(s, f, left) ==
  CASE left = 0                 -> [s EXCEPT !.qty = 0, !.avg = 0]
    [] Sign(left) = Sign(s.qty) -> [s EXCEPT !.qty = left]
    [] OTHER                    -> [qty |-> left, avg |-> f.price, open |-> f.ts]

PosAfter(s, f) ==
  LET delta == Signed(f.side, f.qty)
  IN  IF Ignored(f) THEN s
      ELSE IF Adds(s, delta) THEN Opened(s, f, delta)
      ELSE Reduced(s, f, s.qty + delta)

Closes(s, f) == ~Ignored(f) /\ ~Adds(s, Signed(f.side, f.qty))

GrossPnl(s, f) ==
  IF Closes(s, f)
  THEN Quotient((IF s.qty > 0 THEN f.price - s.avg ELSE s.avg - f.price)
                * Lesser(Abs(s.qty), f.qty), Scale)
  ELSE 0

HeldFor(s, f) == IF GrossPnl(s, f) # 0 THEN f.ts - s.open ELSE 0

\* pnl_deltas_from_fills.
PnlDeltas(fills) ==
  LET add(done, f) ==
        LET s == PosOf(done.state, f.symbol)
        IN  [state  |-> Insert(done.state, f.symbol, PosAfter(s, f)),
             deltas |-> Append(done.deltas, [ts |-> f.ts, pnl |-> GrossPnl(s, f),
                                             held |-> HeldFor(s, f)])]
  IN  FoldLeft(add, [state |-> <<>>, deltas |-> <<>>], fills).deltas

-----------------------------------------------------------------------------
\* equity_curve_from_pnl_deltas: the entries that follow an equity.
CurveFrom(equity, entries) ==
  LET add(curve, e) ==
        Append(curve, [ts |-> e.ts,
                       equity |-> (IF curve = <<>> THEN equity ELSE Last(curve).equity) + e.pnl])
  IN  FoldLeft(add, <<>>, entries)

EquityCurve(entries) == CurveFrom(0, entries)

\* The unrolled loop over whole groups, then the rest.
GroupsOf(s)    == Len(s) \div Lanes
Group(s, c)    == SubSeq(s, (c - 1) * Lanes + 1, c * Lanes)
RemainderOf(s) == SubSeq(s, GroupsOf(s) * Lanes + 1, Len(s))

EquityCurveSimd(entries) ==
  LET from(curve)      == IF curve = <<>> THEN 0 ELSE Last(curve).equity
      unrolled(curve, c) == curve \o CurveFrom(from(curve), Group(entries, c))
      whole            == FoldLeft(unrolled, <<>>, [c \in 1 .. GroupsOf(entries) |-> c])
  IN  whole \o CurveFrom(from(whole), RemainderOf(entries))

\* max_drawdown_pct_and_duration, as a fraction.
AtMostAll(dd) == IF Exceeds(dd, Ratio(1, 1)) THEN Ratio(1, 1) ELSE dd

NoDrawdown == [fraction |-> Zero, duration |-> 0]

MaxDrawdown(curve) ==
  LET fall(d, p) ==
        LET dd == Ratio(d.peak.equity - p.equity, d.peak.equity)
        IN  IF p.equity > d.peak.equity THEN [d EXCEPT !.peak = p]
            ELSE IF d.peak.equity > 0 /\ Exceeds(dd, d.fraction)
            THEN [d EXCEPT !.fraction = AtMostAll(dd), !.duration = p.ts - d.peak.ts]
            ELSE d
      found == FoldLeft(fall, [peak |-> Head(curve), fraction |-> Zero, duration |-> 0],
                        Tail(curve))
  IN  IF curve = <<>> THEN NoDrawdown
      ELSE [fraction |-> found.fraction, duration |-> found.duration]

-----------------------------------------------------------------------------
(***************************************************************************)
(* Sharpe and Sortino.  A loop over the series sums; the mean is a sum     *)
(* over n, and n times a difference from it is an integer.                 *)
(***************************************************************************)
Square(x)   == x * x
Downside(x) == IF x < 0 THEN Square(x) ELSE 0

Mapped(f(_), s) == [i \in DOMAIN s |-> f(s[i])]

Total(s) == MapThenSumSet(LAMBDA i : s[i], DOMAIN s)

\* The sum in SIMD lanes: one per lane, reduced, then the remainder.
LaneTotal(s) ==
  LET lane(j) == MapThenSumSet(LAMBDA c : s[(c - 1) * Lanes + j], 1 .. GroupsOf(s))
  IN  MapThenSumSet(lane, 1 .. Lanes) + Total(RemainderOf(s))

\* No ratio for fewer than two values, or without any deviation.
NoRatio == [mean |-> Zero, variance |-> Zero]

RatioTo(mean, variance) ==
  IF variance = Zero THEN NoRatio ELSE [mean |-> mean, variance |-> variance]

SharpeBy(sum(_), s) ==
  LET n      == Len(s)
      off(x) == Square(n * x - sum(s))
  IN  IF n < 2 THEN NoRatio
      ELSE RatioTo(Ratio(sum(s), n), Ratio(sum(Mapped(off, s)), n * n * (n - 1)))

SortinoBy(sum(_), s) ==
  LET n == Len(s)
  IN  IF n < 2 THEN NoRatio
      ELSE RatioTo(Ratio(sum(s), n), Ratio(sum(Mapped(Downside, s)), n))

SharpeScalar(s)  == SharpeBy(Total, s)
SortinoScalar(s) == SortinoBy(Total, s)
SharpeSimd(s)    == SharpeBy(LaneTotal, s)
SortinoSimd(s)   == SortinoBy(LaneTotal, s)

\* One pass: the variance from the sum of the squares.
SharpeParallel(s) ==
  LET n    == Len(s)
      sum  == Total(s)
      rest == n * Total(Mapped(Square, s)) - Square(sum)
  IN  IF n < 2 THEN NoRatio
      ELSE RatioTo(Ratio(sum, n), Ratio(IF rest < 0 THEN 0 ELSE rest, n * (n - 1)))

SortinoParallel(s) == SortinoBy(Total, s)
=============================================================================
