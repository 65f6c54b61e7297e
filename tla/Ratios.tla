------------------------------- MODULE Ratios -------------------------------
(***************************************************************************)
(* Exact fractions, in lowest terms.  They stand for the f64 values of     *)
(* stats.rs: what a computation rounds is not modelled, what it computes   *)
(* is.                                                                     *)
(***************************************************************************)
EXTENDS Integers

\* Euclid's algorithm.
GcdOf[p \in Nat \X Nat] == IF p[2] = 0 THEN p[1] ELSE GcdOf[<<p[2], p[1] % p[2]>>]

Ratio(n, d) ==
  LET g == GcdOf[<<IF n < 0 THEN -n ELSE n, d>>]
  IN  [num |-> IF n < 0 THEN -((-n) \div g) ELSE n \div g, den |-> d \div g]

Zero == Ratio(0, 1)

Plus(a, b)  == Ratio(a.num * b.den + b.num * a.den, a.den * b.den)
Minus(a, b) == Ratio(a.num * b.den - b.num * a.den, a.den * b.den)
Times(a, b) == Ratio(a.num * b.num, a.den * b.den)
Over(a, n)  == Ratio(a.num, a.den * n)

Exceeds(a, b) == a.num * b.den > b.num * a.den
=============================================================================
