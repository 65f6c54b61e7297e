----------------------------- MODULE BatchTuner -----------------------------
(***************************************************************************)
(* backtester-core/src/tuner.rs: the longest batch grows by steps while    *)
(* the strategy is fast and shrinks by a fifth when it is slow.  What is   *)
(* measured is wall-clock time; here a batch is fast or it is not.         *)
(***************************************************************************)
EXTENDS OrderTypes

CONSTANTS
  TunerFloor,     \* 100 microseconds: the shortest maximum
  TunerDefault,   \* 1 second: the ceiling when none is configured
  TunerStep,      \* 100 microseconds: the least increase
  TunerInterval   \* 10: batches between two adjustments

ASSUME TunerAssumption ==
  /\ TunerFloor \in Nat /\ TunerDefault \in Nat /\ TunerStep \in Nat
  /\ TunerInterval \in Nat \ {0}

Greater(a, b) == IF a > b THEN a ELSE b

Clamped(n, lo, hi) == Greater(lo, Lesser(n, hi))

\* sample_count is kept modulo the interval.
Tuner == [min : Nat, max : Nat, current : Nat, samples : 0 .. TunerInterval - 1]

NewTuner(max_batch) ==
  LET limit == IF max_batch > 0 THEN max_batch ELSE TunerDefault
      lo    == Lesser(TunerFloor, limit)
      hi    == Greater(TunerFloor, limit)
  IN  [min |-> lo, max |-> hi, current |-> Clamped(max_batch, lo, hi), samples |-> 0]

Longer(t) == Lesser(t.current + Greater(t.current \div 10, TunerStep), t.max)

Shorter(t) == Clamped((4 * t.current) \div 5, t.min, t.max)

RecordBatch(t, fast) ==
  LET n == (t.samples + 1) % TunerInterval
  IN  [t EXCEPT !.samples = n,
                !.current = IF n # 0 THEN @ ELSE IF fast THEN Longer(t) ELSE Shorter(t)]
=============================================================================
