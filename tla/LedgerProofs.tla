---------------------------- MODULE LedgerProofs ----------------------------
(***************************************************************************)
(* The books of a run, proved for any entries: account.rs and stats.rs,    *)
(* which compute a position, its average price and the result of a fill    *)
(* each in its own way, come to the same, fill by fill; and what the risk  *)
(* guard and the trade log keep entry by entry is what the same entries    *)
(* give when they are folded again from the beginning (BooksInv).          *)
(***************************************************************************)
EXTENDS Ledger, SequenceTheorems, TLAPS

\* For the induction over the natural numbers.
Sums == INSTANCE FoldTheory WITH Op <- +

PointType == [ts : Nat, equity : Int]

EquityOf(curve) == IF curve = <<>> THEN 0 ELSE Last(curve).equity

-----------------------------------------------------------------------------
\* One step of Euclid's algorithm, and the function it defines on Nat \X D.
Step(g, p) == IF p[2] = 0 THEN p[1] ELSE g[<<p[2], p[1] % p[2]>>]
IsGcd(g, D) == g = [p \in Nat \X D |-> Step(g, p)]

LEMMA GcdDef == (\E g : IsGcd(g, Nat)) => IsGcd(GcdOf, Nat)
<1> DEFINE G == CHOOSE g : IsGcd(g, Nat)
<1>1. GcdOf = G
 BY DEF GcdOf, IsGcd, Step
<1>2. QED BY <1>1

LEMMA GcdValue == ASSUME NEW g, NEW D, IsGcd(g, D), NEW a \in Nat, NEW b \in D PROVE g[<<a, b>>] = IF b = 0 THEN a ELSE g[<<b, a % b>>]
 BY DEF IsGcd, Step

LEMMA GcdExtends ==
  ASSUME NEW n \in Nat, NEW g, IsGcd(g, 0 .. n)
  PROVE  \E k : IsGcd(k, 0 .. n + 1)
<1> DEFINE value(p) == IF p[2] = n + 1 THEN g[<<n + 1, p[1] % (n + 1)>>] ELSE g[p]
           D == Nat \X (0 .. n + 1)
           k == [p \in D |-> value(p)]
<1>1. \A p \in Nat \X (0 .. n) : g[p] = Step(g, p)
  BY DEF IsGcd
<1>2. \A p \in D : k[p] = value(p)
  OBVIOUS
<1>3. k = [p \in D |-> k[p]]
  OBVIOUS
<1> HIDE DEF k
<1>4. ASSUME NEW a \in Nat, NEW b \in 0 .. n PROVE k[<<a, b>>] = g[<<a, b>>]
  <2>1. <<a, b>> \in D /\ b # n + 1
    OBVIOUS
  <2>2. value(<<a, b>>) = g[<<a, b>>]
    BY <2>1
  <2>3. QED
    BY <1>2, <2>1, <2>2
<1>5. ASSUME NEW a \in Nat, NEW b \in 1 .. n + 1 PROVE a % b \in Nat /\ a % b \in 0 .. n
  OBVIOUS
<1>6. ASSUME NEW a \in Nat, NEW b \in 0 .. n + 1
      PROVE  k[<<a, b>>] = Step(k, <<a, b>>)
  <2>1. CASE b = 0
    <3>1. k[<<a, b>>] = g[<<a, b>>]
      BY <1>4, <2>1
    <3>2. <<a, b>> \in Nat \X (0 .. n)
      BY <2>1
    <3>3. QED
      BY <1>1, <2>1, <3>1, <3>2 DEF Step
  <2>2. CASE b \in 1 .. n
    <3>1. k[<<a, b>>] = g[<<a, b>>] /\ <<a, b>> \in Nat \X (0 .. n)
      BY <1>4, <2>2
    <3>2. a % b \in 0 .. n /\ b \in Nat
      BY <1>5, <2>2
    <3>3. k[<<b, a % b>>] = g[<<b, a % b>>]
      BY <1>4, <3>2
    <3>4. g[<<a, b>>] = g[<<b, a % b>>]
      BY <1>1, <2>2, <3>1 DEF Step
    <3>5. QED
      BY <2>2, <3>1, <3>3, <3>4 DEF Step
  <2>3. CASE b = n + 1
    <3>1. k[<<a, b>>] = g[<<n + 1, a % (n + 1)>>]
      BY <1>2, <2>3
    <3>2. a % (n + 1) \in 0 .. n
      BY <1>5
    <3>3. k[<<n + 1, a % (n + 1)>>] = g[<<n + 1, a % (n + 1)>>]
      BY <1>4, <3>2
    <3>4. QED
      BY <2>3, <3>1, <3>3 DEF Step
  <2>4. QED
    BY <2>1, <2>2, <2>3
<1>7. ASSUME NEW p \in D PROVE k[p] = Step(k, p)
  BY <1>6
<1>8. IsGcd(k, 0 .. n + 1)
  BY <1>3, <1>7 DEF IsGcd
<1>9. QED
  BY <1>8

LEMMA GcdsAgree ==
  ASSUME NEW m \in Nat, NEW n \in Nat, NEW g, NEW k, IsGcd(g, 0 .. m), IsGcd(k, 0 .. n)
  PROVE  \A b \in Nat : b <= m /\ b <= n => \A a \in Nat : g[<<a, b>>] = k[<<a, b>>]
<1> DEFINE Same(b) == \A a \in Nat : g[<<a, b>>] = k[<<a, b>>]
           Good == {b \in Nat : \A c \in 0 .. b : c <= m /\ c <= n => Same(c)}
<1>1. /\ \A a \in Nat, b \in 0 .. m : g[<<a, b>>] = Step(g, <<a, b>>)
      /\ \A a \in Nat, b \in 0 .. n : k[<<a, b>>] = Step(k, <<a, b>>)
  BY DEF IsGcd
<1>2. Same(0)
  <2>1. 0 \in 0 .. m /\ 0 \in 0 .. n
    OBVIOUS
  <2>2. ASSUME NEW a \in Nat PROVE g[<<a, 0>>] = a /\ k[<<a, 0>>] = a
    BY ZenonT(60), <2>1, GcdValue
  <2>3. QED
    BY <2>2
<1>3. 0 \in Good
  BY <1>2
<1>4. ASSUME NEW b \in Nat, b \in Good PROVE b + 1 \in Good
  <2>1. SUFFICES ASSUME b + 1 <= m, b + 1 <= n, NEW a \in Nat
                 PROVE  g[<<a, b + 1>>] = k[<<a, b + 1>>]
    <3>1. \A c \in 0 .. b + 1 : c \in 0 .. b \/ c = b + 1
      OBVIOUS
    <3>2. QED
      BY <1>4, <3>1
  <2>2. b + 1 \in 0 .. m /\ b + 1 \in 0 .. n /\ b + 1 # 0 /\ b + 1 \in Nat
    BY <2>1
  <2>3. a % (b + 1) \in 0 .. b
    OBVIOUS
  <2>4. Same(a % (b + 1))
    BY <1>4, <2>1, <2>3
  <2>5. g[<<b + 1, a % (b + 1)>>] = k[<<b + 1, a % (b + 1)>>]
    BY <2>2, <2>4
  <2>6. QED
    BY <1>1, <2>2, <2>5 DEF Step
<1> HIDE DEF Good
<1>5. Nat \subseteq Good
  BY <1>3, <1>4, Sums!NatSetInduction
<1>6. QED
  BY <1>5 DEF Good

LEMMA GcdExists == \E g : IsGcd(g, Nat)
<1> DEFINE Good == {n \in Nat : \E g : IsGcd(g, 0 .. n)}
<1>1. 0 \in Good
  <2> DEFINE g == [p \in Nat \X (0 .. 0) |-> p[1]]
  <2>1. g = [p \in Nat \X (0 .. 0) |-> Step(g, p)]
    <3>1. \A p \in Nat \X (0 .. 0) : Step(g, p) = p[1]
      BY DEF Step
    <3>2. QED
      BY <3>1
  <2>2. IsGcd(g, 0 .. 0)
    BY <2>1 DEF IsGcd
  <2>3. QED
    BY <2>2
<1>2. ASSUME NEW n \in Nat, n \in Good PROVE n + 1 \in Good
  BY <1>2, GcdExtends
<1> HIDE DEF Good
<1>3. Nat \subseteq Good
  BY <1>1, <1>2, Sums!NatSetInduction
<1> DEFINE table(n) == CHOOSE g : IsGcd(g, 0 .. n)
           gcd == [p \in Nat \X Nat |-> table(p[2])[p]]
<1>4. ASSUME NEW n \in Nat PROVE IsGcd(table(n), 0 .. n)
  BY <1>3 DEF Good
<1>5. ASSUME NEW a \in Nat, NEW b \in Nat PROVE gcd[<<a, b>>] = table(b)[<<a, b>>]
  <2> HIDE DEF table
  <2>1. <<a, b>> \in Nat \X Nat
    OBVIOUS
  <2>2. QED
    BY <2>1
<1>6. gcd = [p \in Nat \X Nat |-> gcd[p]]
  OBVIOUS
<1> HIDE DEF gcd, table
<1>7. ASSUME NEW a \in Nat, NEW b \in Nat PROVE gcd[<<a, b>>] = Step(gcd, <<a, b>>)
  <2>1. table(b)[<<a, b>>] = Step(table(b), <<a, b>>)
    <3>1. IsGcd(table(b), 0 .. b) /\ b \in 0 .. b
      BY <1>4
    <3>2. table(b)[<<a, b>>] = IF b = 0 THEN a ELSE table(b)[<<b, a % b>>]
      BY <3>1, GcdValue
    <3>3. QED
      BY <3>2 DEF Step
  <2>2. CASE b = 0
    BY <1>5, <2>1, <2>2 DEF Step
  <2>3. CASE b # 0
    <3> DEFINE c == a % b
    <3>1. c \in Nat /\ c <= b
      BY <2>3
    <3>2. IsGcd(table(c), 0 .. c) /\ IsGcd(table(b), 0 .. b)
      BY <1>4, <3>1
    <3>3. table(c)[<<b, c>>] = table(b)[<<b, c>>]
      BY <3>1, <3>2, GcdsAgree
    <3>4. gcd[<<b, c>>] = table(c)[<<b, c>>]
      BY <1>5, <3>1
    <3>5. Step(gcd, <<a, b>>) = gcd[<<b, c>>] /\ Step(table(b), <<a, b>>) = table(b)[<<b, c>>]
      BY <2>3 DEF Step
    <3>6. QED
      BY <1>5, <2>1, <3>3, <3>4, <3>5
  <2>4. QED
    BY <2>2, <2>3
<1>8. ASSUME NEW p \in Nat \X Nat PROVE gcd[p] = Step(gcd, p)
  BY <1>7
<1>9. IsGcd(gcd, Nat)
  BY <1>6, <1>8 DEF IsGcd
<1>10. QED
  BY <1>9

(***************************************************************************)
(* Euclid's algorithm finds a common divisor.                              *)
(***************************************************************************)
Divides(d, n) == \E k \in Nat : n = d * k

LEMMA DividesBack ==
  ASSUME NEW d \in Nat, NEW a \in Nat, NEW b \in Nat \ {0}, Divides(d, b), Divides(d, a % b)
  PROVE  Divides(d, a)
<1>1. PICK x \in Nat : b = d * x
  BY DEF Divides
<1>2. PICK y \in Nat : a % b = d * y
  BY DEF Divides
<1> DEFINE q == a \div b
<1>3. q \in Nat /\ a = b * q + (a % b)
  OBVIOUS
<1> HIDE DEF q
<1>4. a = (d * x) * q + d * y
  BY <1>1, <1>2, <1>3
<1>5. (d * x) * q + d * y = d * (x * q + y)
  BY <1>3
<1>6. x * q + y \in Nat
  BY <1>3
<1>7. QED
  BY <1>4, <1>5, <1>6 DEF Divides

LEMMA GcdDivides ==
  ASSUME NEW a \in Nat, NEW b \in Nat
  PROVE  /\ GcdOf[<<a, b>>] \in Nat
         /\ Divides(GcdOf[<<a, b>>], a) /\ Divides(GcdOf[<<a, b>>], b)
<1> DEFINE Common(x, y) == /\ GcdOf[<<x, y>>] \in Nat
                           /\ Divides(GcdOf[<<x, y>>], x) /\ Divides(GcdOf[<<x, y>>], y)
           Good == {n \in Nat : \A y \in 0 .. n, x \in Nat : Common(x, y)}
<1>1. ASSUME NEW x \in Nat, NEW y \in Nat PROVE GcdOf[<<x, y>>] = Step(GcdOf, <<x, y>>)
  BY GcdExists, GcdDef DEF IsGcd
<1>2. 0 \in Good
  <2>1. ASSUME NEW x \in Nat PROVE Common(x, 0)
    <3>1. GcdOf[<<x, 0>>] = x
      BY <1>1 DEF Step
    <3>2. x = x * 1 /\ 0 = x * 0
      OBVIOUS
    <3>3. QED
      BY <3>1, <3>2 DEF Divides
  <2>2. QED
    BY <2>1
<1>3. ASSUME NEW n \in Nat, n \in Good PROVE n + 1 \in Good
  <2>1. SUFFICES ASSUME NEW x \in Nat PROVE Common(x, n + 1)
    <3>1. \A c \in 0 .. n + 1 : c \in 0 .. n \/ c = n + 1
      OBVIOUS
    <3>2. QED
      BY <1>3, <3>1
  <2> DEFINE r == x % (n + 1)
  <2>2. r \in 0 .. n /\ r \in Nat /\ n + 1 \in Nat \ {0}
    OBVIOUS
  <2>3. GcdOf[<<x, n + 1>>] = GcdOf[<<n + 1, r>>]
    BY <1>1, <2>2 DEF Step
  <2>4. Common(n + 1, r)
    BY <1>3, <2>2
  <2>5. Divides(GcdOf[<<n + 1, r>>], x)
    BY <2>2, <2>4, DividesBack
  <2>6. QED
    BY <2>3, <2>4, <2>5
<1> HIDE DEF Common
<1> HIDE DEF Good
<1>4. b \in Good
  BY <1>2, <1>3, Sums!NatSetInduction
<1>5. Common(a, b)
  BY <1>4 DEF Good
<1>6. QED
  BY <1>5 DEF Common

-----------------------------------------------------------------------------
(***************************************************************************)
(* A ratio in lowest terms has the value of what it was made from, and     *)
(* Exceeds compares these values.                                          *)
(***************************************************************************)
Fraction == [num : Int, den : Nat \ {0}]

LEMMA TimesKeepsOrder ==
  ASSUME NEW x \in Int, NEW y \in Int, NEW k \in Nat \ {0}
  PROVE  (x * k < y * k <=> x < y) /\ (x * k <= y * k <=> x <= y)
  OBVIOUS

LEMMA DivCancels ==
  ASSUME NEW g \in Nat \ {0}, NEW x \in Nat
  PROVE  (g * x) \div g = x
  OBVIOUS

LEMMA RatioValue ==
  ASSUME NEW n \in Int, NEW d \in Nat \ {0}
  PROVE  /\ Ratio(n, d) \in Fraction
         /\ Ratio(n, d).num * d = n * Ratio(n, d).den
<1> DEFINE a == IF n < 0 THEN -n ELSE n
           g == GcdOf[<<a, d>>]
<1>1. a \in Nat /\ d \in Nat
  OBVIOUS
<1>2. Ratio(n, d) = [num |-> IF n < 0 THEN -(a \div g) ELSE a \div g, den |-> d \div g]
  BY DEF Ratio
<1> HIDE DEF a
<1>3. g \in Nat /\ Divides(g, a) /\ Divides(g, d)
  BY <1>1, GcdDivides
<1> HIDE DEF g
<1>4. PICK x \in Nat : a = g * x
  BY <1>3 DEF Divides
<1>5. PICK y \in Nat : d = g * y
  BY <1>3 DEF Divides
<1>6. g # 0 /\ y # 0
  BY <1>3, <1>5
<1>7. a \div g = x /\ d \div g = y
  BY <1>3, <1>4, <1>5, <1>6, DivCancels
<1> DEFINE num == IF n < 0 THEN -x ELSE x
<1>8. Ratio(n, d) = [num |-> num, den |-> y]
  BY <1>2, <1>7
<1>9. num \in Int /\ n = g * num
  BY <1>3, <1>4 DEF a
<1> HIDE DEF num
<1>10. num * (g * y) = (g * num) * y
  BY <1>3, <1>9
<1>11. QED
  BY <1>5, <1>6, <1>8, <1>9, <1>10 DEF Fraction

LEMMA CompareRatios ==
  ASSUME NEW n \in Int, NEW d \in Nat \ {0}, NEW m \in Int, NEW e \in Nat \ {0}
  PROVE  Exceeds(Ratio(n, d), Ratio(m, e)) <=> n * e > m * d
<1> DEFINE p == Ratio(n, d)
           q == Ratio(m, e)
<1>1. /\ p.num \in Int /\ p.den \in Nat \ {0} /\ p.num * d = n * p.den
      /\ q.num \in Int /\ q.den \in Nat \ {0} /\ q.num * e = m * q.den
  BY RatioValue DEF Fraction
<1>2. Exceeds(p, q) <=> p.num * q.den > q.num * p.den
  BY DEF Exceeds
<1> DEFINE pn == p.num  pd == p.den  qn == q.num  qd == q.den
<1> HIDE DEF p, q
<1>3. /\ pn \in Int /\ pd \in Nat \ {0} /\ pn * d = n * pd
      /\ qn \in Int /\ qd \in Nat \ {0} /\ qn * e = m * qd
      /\ Exceeds(p, q) <=> qn * pd < pn * qd
  BY <1>1, <1>2
<1> HIDE DEF pn, pd, qn, qd
<1>4. /\ d * e \in Nat \ {0} /\ pd * qd \in Nat \ {0}
      /\ pn * qd \in Int /\ qn * pd \in Int /\ n * e \in Int /\ m * d \in Int
  BY <1>3
<1>5. (pn * qd) * (d * e) = (n * e) * (pd * qd)
  <2>1. (pn * qd) * (d * e) = (pn * d) * (qd * e)
    BY <1>3
  <2>2. (n * pd) * (qd * e) = (n * e) * (pd * qd)
    BY <1>3
  <2>3. QED
    BY <1>3, <2>1, <2>2
<1>6. (qn * pd) * (d * e) = (m * d) * (pd * qd)
  <2>1. (qn * pd) * (d * e) = (qn * e) * (pd * d)
    BY <1>3
  <2>2. (m * qd) * (pd * d) = (m * d) * (pd * qd)
    BY <1>3
  <2>3. QED
    BY <1>3, <2>1, <2>2
<1>7. qn * pd < pn * qd <=> (qn * pd) * (d * e) < (pn * qd) * (d * e)
  BY <1>4, TimesKeepsOrder
<1>8. m * d < n * e <=> (m * d) * (pd * qd) < (n * e) * (pd * qd)
  BY <1>4, TimesKeepsOrder
<1>9. Exceeds(p, q) <=> m * d < n * e
  BY <1>3, <1>5, <1>6, <1>7, <1>8
<1>10. QED
  BY <1>4, <1>9 DEF p, q

LEMMA ExceedsTransitive ==
  ASSUME NEW a \in Fraction, NEW b \in Fraction, NEW c \in Fraction,
         ~Exceeds(a, b), ~Exceeds(b, c)
  PROVE  ~Exceeds(a, c)
<1> DEFINE an == a.num  ad == a.den  bn == b.num  bd == b.den  cn == c.num  cd == c.den
<1>1. /\ an \in Int /\ bn \in Int /\ cn \in Int
      /\ ad \in Nat \ {0} /\ bd \in Nat \ {0} /\ cd \in Nat \ {0}
      /\ an * bd <= bn * ad /\ bn * cd <= cn * bd
      /\ Exceeds(a, c) <=> cn * ad < an * cd
  BY DEF Fraction, Exceeds
<1> HIDE DEF an, ad, bn, bd, cn, cd
<1>2. (an * bd) * cd <= (bn * ad) * cd
  BY <1>1, TimesKeepsOrder
<1>3. (bn * cd) * ad <= (cn * bd) * ad
  BY <1>1, TimesKeepsOrder
<1>4. /\ (an * bd) * cd = (an * cd) * bd
      /\ (bn * ad) * cd = (bn * cd) * ad
      /\ (cn * bd) * ad = (cn * ad) * bd
  BY <1>1
<1>5. (an * cd) * bd <= (cn * ad) * bd
  BY <1>1, <1>2, <1>3, <1>4
<1>6. an * cd \in Int /\ cn * ad \in Int
  BY <1>1
<1>7. an * cd <= cn * ad
  BY <1>1, <1>5, <1>6, TimesKeepsOrder
<1>8. QED
  BY <1>1, <1>6, <1>7
-----------------------------------------------------------------------------
(***************************************************************************)
(* The worst fall of an equity curve                                       *)
(***************************************************************************)
All == Ratio(1, 1)

FallFrom(x, z) == AtMostAll(Ratio(x - z, x))

LEMMA AllAndZero ==
  All \in Fraction /\ Zero \in Fraction /\ ~Exceeds(Zero, All) /\ ~Exceeds(All, All)
  BY RatioValue, CompareRatios DEF All, Zero

LEMMA FallIsPart ==
  ASSUME NEW x \in Nat \ {0}, NEW z \in Int
  PROVE  /\ FallFrom(x, z) \in Fraction /\ ~Exceeds(FallFrom(x, z), All)
         /\ z < x <=> Exceeds(FallFrom(x, z), Zero)
         /\ z <= x => ~Exceeds(Zero, FallFrom(x, z))
<1> DEFINE r == Ratio(x - z, x)
<1>1. x - z \in Int /\ 1 \in Int /\ 1 \in Nat \ {0} /\ 0 \in Int
  OBVIOUS
<1>2. r \in Fraction
  BY <1>1, RatioValue
<1>3. Exceeds(r, All) <=> (x - z) * 1 > 1 * x
  BY <1>1, CompareRatios DEF All
<1>4. Exceeds(r, Zero) <=> (x - z) * 1 > 0 * x
  BY <1>1, CompareRatios DEF Zero
<1>5. Exceeds(Zero, r) <=> 0 * x > (x - z) * 1
  BY <1>1, CompareRatios DEF Zero
<1>6. Exceeds(All, Zero) <=> 1 * 1 > 0 * 1
  BY <1>1, CompareRatios DEF All, Zero
<1>7. FallFrom(x, z) = IF Exceeds(r, All) THEN All ELSE r
  BY DEF FallFrom, AtMostAll, All
<1> HIDE DEF r
<1>8. CASE Exceeds(r, All)
  BY <1>3, <1>6, <1>7, <1>8, AllAndZero
<1>9. CASE ~Exceeds(r, All)
  BY <1>2, <1>4, <1>5, <1>7, <1>9
<1>10. QED
  BY <1>8, <1>9

LEMMA HigherPeakFallsMore ==
  ASSUME NEW x \in Nat \ {0}, NEW y \in Nat \ {0}, NEW z \in Int, x <= y
  PROVE  ~Exceeds(FallFrom(x, z), FallFrom(y, z))
<1> DEFINE r == Ratio(x - z, x)
           q == Ratio(y - z, y)
<1>1. x - z \in Int /\ y - z \in Int /\ 1 \in Int /\ 1 \in Nat \ {0}
  OBVIOUS
<1>2. /\ Exceeds(r, All) <=> (x - z) * 1 > 1 * x
      /\ Exceeds(q, All) <=> (y - z) * 1 > 1 * y
  BY <1>1, CompareRatios DEF All
<1>3. Exceeds(r, q) <=> (x - z) * y > (y - z) * x
  BY <1>1, CompareRatios
<1>4. /\ FallFrom(x, z) = IF Exceeds(r, All) THEN All ELSE r
      /\ FallFrom(y, z) = IF Exceeds(q, All) THEN All ELSE q
  BY DEF FallFrom, AtMostAll, All
<1> HIDE DEF r, q
<1>5. CASE Exceeds(q, All)
  BY <1>4, <1>5, AllAndZero
<1>6. CASE ~Exceeds(q, All)
  <2>1. z >= 0 /\ ~Exceeds(r, All)
    BY <1>2, <1>6
  <2>2. z * x <= z * y
    BY <2>1
  <2>3. (x - z) * y = x * y - z * y /\ (y - z) * x = x * y - z * x
    OBVIOUS
  <2>4. x * y \in Int /\ z * x \in Int /\ z * y \in Int
    OBVIOUS
  <2>5. ~((x - z) * y > (y - z) * x)
    BY <2>2, <2>3, <2>4
  <2>6. QED
    BY <1>3, <1>4, <1>6, <2>1, <2>5
<1>7. QED
  BY <1>5, <1>6

IsFall(curve, i, j) ==
  i < j /\ curve[i].equity > 0 /\ curve[j].equity < curve[i].equity

FallAt(curve, i, j) == FallFrom(curve[i].equity, curve[j].equity)

\* What DrawdownIsWorst says, of any curve.
WorstFall(curve, worst, lasted) ==
  IF \E i, j \in DOMAIN curve : IsFall(curve, i, j)
  THEN /\ \A i, j \in DOMAIN curve : IsFall(curve, i, j) => ~Exceeds(FallAt(curve, i, j), worst)
       /\ \E i, j \in DOMAIN curve :
            /\ IsFall(curve, i, j) /\ FallAt(curve, i, j) = worst
            /\ lasted = curve[j].ts - curve[i].ts
  ELSE worst = Zero /\ lasted = 0

\* One more point: the falls are those before and the ones that end there.
GrownBy(curve, grown, point) ==
  LET n == Len(curve)
  IN  /\ n \in Nat /\ DOMAIN curve = 1 .. n /\ DOMAIN grown = 1 .. n + 1
      /\ grown[n + 1] = point /\ \A i \in 1 .. n : grown[i] = curve[i]

FallsTo(curve, i, point) == curve[i].equity > 0 /\ point.equity < curve[i].equity

LEMMA FallsOfGrown ==
  ASSUME NEW curve, NEW grown, NEW point, GrownBy(curve, grown, point)
  PROVE  /\ \A i, j \in DOMAIN curve :
              /\ i \in DOMAIN grown /\ j \in DOMAIN grown
              /\ IsFall(grown, i, j) <=> IsFall(curve, i, j)
              /\ FallAt(grown, i, j) = FallAt(curve, i, j)
              /\ grown[i].ts = curve[i].ts
         /\ \A i \in DOMAIN curve :
              /\ Len(curve) + 1 \in DOMAIN grown
              /\ IsFall(grown, i, Len(curve) + 1) <=> FallsTo(curve, i, point)
              /\ FallAt(grown, i, Len(curve) + 1) = FallFrom(curve[i].equity, point.equity)
              /\ grown[Len(curve) + 1].ts = point.ts
         /\ \A i, j \in DOMAIN grown :
              IsFall(grown, i, j) => /\ i \in DOMAIN curve
                                     /\ j \in DOMAIN curve \/ j = Len(curve) + 1
<1> DEFINE n == Len(curve)
<1>1. /\ n \in Nat /\ DOMAIN curve = 1 .. n /\ DOMAIN grown = 1 .. n + 1
      /\ grown[n + 1] = point /\ \A i \in 1 .. n : grown[i] = curve[i]
  BY DEF GrownBy
<1> HIDE DEF n
<1>2. ASSUME NEW i \in DOMAIN curve, NEW j \in DOMAIN curve
      PROVE  /\ i \in DOMAIN grown /\ j \in DOMAIN grown
             /\ IsFall(grown, i, j) <=> IsFall(curve, i, j)
             /\ FallAt(grown, i, j) = FallAt(curve, i, j)
             /\ grown[i].ts = curve[i].ts
  <2>1. grown[i] = curve[i] /\ grown[j] = curve[j]
    BY <1>1
  <2>2. QED
    BY <1>1, <2>1 DEF IsFall, FallAt
<1>3. ASSUME NEW i \in DOMAIN curve
      PROVE  /\ n + 1 \in DOMAIN grown
             /\ IsFall(grown, i, n + 1) <=> FallsTo(curve, i, point)
             /\ FallAt(grown, i, n + 1) = FallFrom(curve[i].equity, point.equity)
             /\ grown[n + 1].ts = point.ts
  <2>1. i < n + 1 /\ grown[i] = curve[i]
    BY <1>1
  <2>2. QED
    BY <1>1, <2>1 DEF IsFall, FallAt, FallsTo
<1>4. ASSUME NEW i \in DOMAIN grown, NEW j \in DOMAIN grown, IsFall(grown, i, j)
      PROVE  i \in DOMAIN curve /\ (j \in DOMAIN curve \/ j = n + 1)
  <2>1. i < j
    BY <1>4 DEF IsFall
  <2>2. QED
    BY <1>1, <2>1
<1>5. QED
  BY <1>2, <1>3, <1>4 DEF n

(***************************************************************************)
(* No fall ends at the new point: nothing changes.                         *)
(***************************************************************************)
LEMMA NoNewFall ==
  ASSUME NEW curve, NEW grown, NEW point, GrownBy(curve, grown, point),
         NEW worst, NEW lasted, WorstFall(curve, worst, lasted),
         \A i \in DOMAIN curve : ~FallsTo(curve, i, point)
  PROVE  WorstFall(grown, worst, lasted)
<1>1. ASSUME NEW i \in DOMAIN grown, NEW j \in DOMAIN grown, IsFall(grown, i, j)
      PROVE  i \in DOMAIN curve /\ j \in DOMAIN curve /\ IsFall(curve, i, j)
  BY <1>1, FallsOfGrown
<1>2. CASE \E i, j \in DOMAIN curve : IsFall(curve, i, j)
  <2>1. PICK i \in DOMAIN curve, j \in DOMAIN curve :
          /\ IsFall(curve, i, j) /\ FallAt(curve, i, j) = worst
          /\ lasted = curve[j].ts - curve[i].ts
    BY <1>2 DEF WorstFall
  <2>2. /\ i \in DOMAIN grown /\ j \in DOMAIN grown
        /\ IsFall(grown, i, j) /\ FallAt(grown, i, j) = worst
        /\ lasted = grown[j].ts - grown[i].ts
    BY <2>1, FallsOfGrown
  <2>3. ASSUME NEW k \in DOMAIN grown, NEW l \in DOMAIN grown, IsFall(grown, k, l)
        PROVE  ~Exceeds(FallAt(grown, k, l), worst)
    <3>1. k \in DOMAIN curve /\ l \in DOMAIN curve /\ IsFall(curve, k, l)
      BY <1>1, <2>3
    <3>2. ~Exceeds(FallAt(curve, k, l), worst)
      BY <1>2, <3>1 DEF WorstFall
    <3>3. QED
      BY <3>1, <3>2, FallsOfGrown
  <2>4. QED
    BY <2>2, <2>3 DEF WorstFall
<1>3. CASE ~\E i, j \in DOMAIN curve : IsFall(curve, i, j)
  BY <1>1, <1>3 DEF WorstFall
<1>4. QED
  BY <1>2, <1>3

(***************************************************************************)
(* A fall from the highest point so far is the worst that ends at the new  *)
(* point.                                                                  *)
(***************************************************************************)
LEMMA FallFromPeak ==
  ASSUME NEW curve \in Seq(PointType), NEW point \in PointType, NEW p \in DOMAIN curve,
         \A i \in DOMAIN curve : curve[i].equity <= curve[p].equity,
         NEW i \in DOMAIN curve, FallsTo(curve, i, point)
  PROVE  /\ FallsTo(curve, p, point)
         /\ ~Exceeds(FallFrom(curve[i].equity, point.equity),
                     FallFrom(curve[p].equity, point.equity))
<1>1. curve[i] \in PointType /\ curve[p] \in PointType
  BY ElementOfSeq, LenProperties
<1> DEFINE x == curve[i].equity  y == curve[p].equity  z == point.equity
<1>2. x \in Int /\ y \in Int /\ z \in Int /\ x <= y /\ x > 0 /\ z < x
  BY <1>1 DEF FallsTo, PointType
<1>3. FallsTo(curve, p, point) <=> y > 0 /\ z < y
  BY DEF FallsTo
<1> HIDE DEF x, y, z
<1>4. x \in Nat \ {0} /\ y \in Nat \ {0} /\ y > 0 /\ z < y
  BY <1>2
<1>5. ~Exceeds(FallFrom(x, z), FallFrom(y, z))
  BY <1>2, <1>4, HigherPeakFallsMore
<1>6. QED
  BY <1>3, <1>4, <1>5 DEF x, y, z

LEMMA NoWorseFall ==
  ASSUME NEW curve \in Seq(PointType), NEW grown, NEW point \in PointType,
         GrownBy(curve, grown, point),
         NEW worst \in Fraction, NEW lasted, WorstFall(curve, worst, lasted),
         NEW p \in DOMAIN curve,
         \A i \in DOMAIN curve : curve[i].equity <= curve[p].equity,
         curve[p].equity > 0,
         ~Exceeds(FallFrom(curve[p].equity, point.equity), worst)
  PROVE  WorstFall(grown, worst, lasted)
<1> DEFINE new == FallFrom(curve[p].equity, point.equity)
<1>0. curve[p].equity \in Nat \ {0} /\ point.equity \in Int
  <2>1. curve[p] \in PointType
    BY ElementOfSeq, LenProperties
  <2>2. QED
    BY <2>1 DEF PointType
<1>1. CASE \A i \in DOMAIN curve : ~FallsTo(curve, i, point)
  BY <1>1, NoNewFall
<1>2. CASE \E i \in DOMAIN curve : FallsTo(curve, i, point)
  <2>1. FallsTo(curve, p, point)
    BY <1>2, FallFromPeak
  <2>2. Exceeds(new, Zero)
    BY <1>0, <2>1, FallIsPart DEF FallsTo
  <2>3. PICK i \in DOMAIN curve, j \in DOMAIN curve :
          /\ IsFall(curve, i, j) /\ FallAt(curve, i, j) = worst
          /\ lasted = curve[j].ts - curve[i].ts
    BY <2>2 DEF WorstFall
  <2>4. /\ i \in DOMAIN grown /\ j \in DOMAIN grown
        /\ IsFall(grown, i, j) /\ FallAt(grown, i, j) = worst
        /\ lasted = grown[j].ts - grown[i].ts
    BY <2>3, FallsOfGrown
  <2>5. ASSUME NEW k \in DOMAIN grown, NEW l \in DOMAIN grown, IsFall(grown, k, l)
        PROVE  ~Exceeds(FallAt(grown, k, l), worst)
    <3>1. k \in DOMAIN curve /\ (l \in DOMAIN curve \/ l = Len(curve) + 1)
      BY <2>5, FallsOfGrown
    <3>2. CASE l \in DOMAIN curve
      <4>1. IsFall(curve, k, l) /\ FallAt(grown, k, l) = FallAt(curve, k, l)
        BY <2>5, <3>1, <3>2, FallsOfGrown
      <4>2. ~Exceeds(FallAt(curve, k, l), worst)
        BY <2>3, <3>1, <3>2, <4>1 DEF WorstFall
      <4>3. QED
        BY <4>1, <4>2
    <3>3. CASE l = Len(curve) + 1
      <4>1. FallsTo(curve, k, point) /\ FallAt(grown, k, l) = FallFrom(curve[k].equity, point.equity)
        BY <2>5, <3>1, <3>3, FallsOfGrown
      <4>2. ~Exceeds(FallFrom(curve[k].equity, point.equity), new)
        BY <3>1, <4>1, FallFromPeak
      <4>3. curve[k].equity \in Nat \ {0}
        <5>1. curve[k] \in PointType
          BY <3>1, ElementOfSeq, LenProperties
        <5>2. QED
          BY SMTT(60), <4>1, <5>1 DEF FallsTo, PointType
      <4>4. FallFrom(curve[k].equity, point.equity) \in Fraction /\ new \in Fraction
        BY <1>0, <4>3, FallIsPart
      <4> HIDE DEF new
      <4>5. QED
        BY <4>1, <4>2, <4>4, ExceedsTransitive DEF new
    <3>4. QED
      BY <3>1, <3>2, <3>3
  <2>6. QED
    BY <2>4, <2>5 DEF WorstFall
<1>3. QED
  BY <1>1, <1>2

LEMMA WorseFall ==
  ASSUME NEW curve \in Seq(PointType), NEW grown, NEW point \in PointType,
         GrownBy(curve, grown, point),
         NEW worst \in Fraction, NEW lasted, WorstFall(curve, worst, lasted),
         ~Exceeds(Zero, worst),
         NEW p \in DOMAIN curve,
         \A i \in DOMAIN curve : curve[i].equity <= curve[p].equity,
         curve[p].equity > 0,
         Exceeds(FallFrom(curve[p].equity, point.equity), worst)
  PROVE  WorstFall(grown, FallFrom(curve[p].equity, point.equity), point.ts - curve[p].ts)
<1> DEFINE new == FallFrom(curve[p].equity, point.equity)
           n   == Len(curve) + 1
<1>0. curve[p].equity \in Nat \ {0} /\ point.equity \in Int
  <2>1. curve[p] \in PointType
    BY ElementOfSeq, LenProperties
  <2>2. QED
    BY <2>1 DEF PointType
<1>1. new \in Fraction
  BY <1>0, FallIsPart
<1>2. Exceeds(new, Zero)
  BY <1>1, AllAndZero, ExceedsTransitive
<1>3. FallsTo(curve, p, point)
  BY <1>0, <1>2, FallIsPart DEF FallsTo
<1>4. /\ p \in DOMAIN grown /\ n \in DOMAIN grown
      /\ IsFall(grown, p, n) /\ FallAt(grown, p, n) = new
      /\ point.ts - curve[p].ts = grown[n].ts - grown[p].ts
  BY <1>3, FallsOfGrown
<1>5. ASSUME NEW k \in DOMAIN grown, NEW l \in DOMAIN grown, IsFall(grown, k, l)
      PROVE  ~Exceeds(FallAt(grown, k, l), new)
  <2>1. k \in DOMAIN curve /\ (l \in DOMAIN curve \/ l = n)
    BY <1>5, FallsOfGrown
  <2>2. CASE l \in DOMAIN curve
    <3>1. IsFall(curve, k, l) /\ FallAt(grown, k, l) = FallAt(curve, k, l)
      BY <1>5, <2>1, <2>2, FallsOfGrown
    <3>2. ~Exceeds(FallAt(curve, k, l), worst)
      BY <2>1, <2>2, <3>1 DEF WorstFall
    <3>3. FallAt(curve, k, l) \in Fraction
      <4>1. curve[k] \in PointType /\ curve[l] \in PointType
        BY <2>1, <2>2, ElementOfSeq, LenProperties
      <4>2. curve[k].equity \in Nat \ {0} /\ curve[l].equity \in Int
        BY SMTT(60), <3>1, <4>1 DEF IsFall, PointType
      <4>3. QED
        BY <4>2, FallIsPart DEF FallAt
    <3>4. ~Exceeds(worst, new)
      BY <1>1 DEF Exceeds, Fraction
    <3>5. QED
      BY <1>1, <3>1, <3>2, <3>3, <3>4, ExceedsTransitive
  <2>3. CASE l = n
    BY <1>5, <2>1, <2>3, FallsOfGrown, FallFromPeak
  <2>4. QED
    BY <2>1, <2>2, <2>3
<1> HIDE DEF new, n
<1>6. WorstFall(grown, new, point.ts - curve[p].ts)
  BY <1>4, <1>5 DEF WorstFall
<1>7. QED
  BY <1>6 DEF new
-----------------------------------------------------------------------------
(***************************************************************************)
(* The arithmetic of fractions: r is the number n / d.                     *)
(***************************************************************************)
Is(r, n, d) ==
  /\ r \in Fraction /\ n \in Int /\ d \in Nat \ {0}
  /\ r.num * d = n * r.den

LEMMA IsRatio ==
  ASSUME NEW n \in Int, NEW d \in Nat \ {0}
  PROVE  Is(Ratio(n, d), n, d)
  BY RatioValue DEF Is

LEMMA SignOf ==
  ASSUME NEW r, NEW n, NEW d, Is(r, n, d)
  PROVE  r.num >= 0 <=> n >= 0
<1> DEFINE num == r.num  den == r.den
<1>1. num \in Int /\ den \in Nat \ {0} /\ n \in Int /\ d \in Nat \ {0} /\ num * d = n * den
  BY DEF Is, Fraction
<1> HIDE DEF num, den
<1>2. (0 * d <= num * d <=> 0 <= num) /\ (0 * den <= n * den <=> 0 <= n)
  BY <1>1, TimesKeepsOrder
<1>3. num * d \in Int /\ n * den \in Int
  BY <1>1
<1>4. num >= 0 <=> n >= 0
  BY <1>1, <1>2, <1>3
<1>5. QED
  BY <1>4 DEF num

LEMMA EqualCancel ==
  ASSUME NEW x \in Int, NEW y \in Int, NEW k \in Nat \ {0}, x * k = y * k
  PROVE  x = y
  OBVIOUS

LEMMA IsReduced ==
  ASSUME NEW r, NEW n \in Int, NEW d \in Nat \ {0}, NEW k \in Nat \ {0}, Is(r, n * k, d * k)
  PROVE  Is(r, n, d)
<1> DEFINE num == r.num  den == r.den
<1>1. r \in Fraction /\ num \in Int /\ den \in Nat \ {0} /\ num * (d * k) = (n * k) * den
  BY DEF Is, Fraction
<1> HIDE DEF num, den
<1>2. num * (d * k) = (num * d) * k /\ (n * k) * den = (n * den) * k
  BY <1>1
<1>3. num * d \in Int /\ n * den \in Int
  BY <1>1
<1>4. num * d = n * den
  BY <1>1, <1>2, <1>3, EqualCancel
<1>5. QED
  BY <1>1, <1>4 DEF Is, num, den

\* From the form a result has to the numbers it stands for.
LEMMA IsOf ==
  ASSUME NEW x \in Int, NEW y \in Nat \ {0}, NEW n \in Int, NEW d \in Nat \ {0}, x * d = n * y
  PROVE  Is(Ratio(x, y), n, d)
<1> DEFINE r == Ratio(x, y)  num == r.num  den == r.den
<1>1. r \in Fraction /\ num \in Int /\ den \in Nat \ {0} /\ num * y = x * den
  BY RatioValue DEF Fraction
<1> HIDE DEF num, den
<1>2. (num * d) * y = (num * y) * d /\ (x * den) * d = (x * d) * den
  BY <1>1
<1>3. (n * y) * den = (n * den) * y
  BY <1>1
<1>4. num * d \in Int /\ n * den \in Int
  BY <1>1
<1>5. (num * d) * y = (n * den) * y
  BY <1>1, <1>2, <1>3
<1>6. num * d = n * den
  BY <1>4, <1>5, EqualCancel
<1>7. QED
  BY <1>1, <1>6 DEF Is, num, den

LEMMA SumsAndProducts ==
  ASSUME NEW a, NEW n, NEW d, Is(a, n, d), NEW b, NEW m, NEW e, Is(b, m, e)
  PROVE  /\ Is(Plus(a, b), n * e + m * d, d * e)
         /\ Is(Minus(a, b), n * e - m * d, d * e)
         /\ Is(Times(a, b), n * m, d * e)
<1> DEFINE an == a.num  ad == a.den  bn == b.num  bd == b.den
<1>1. /\ an \in Int /\ ad \in Nat \ {0} /\ n \in Int /\ d \in Nat \ {0} /\ an * d = n * ad
      /\ bn \in Int /\ bd \in Nat \ {0} /\ m \in Int /\ e \in Nat \ {0} /\ bn * e = m * bd
  BY DEF Is, Fraction
<1>2. /\ Plus(a, b) = Ratio(an * bd + bn * ad, ad * bd)
      /\ Minus(a, b) = Ratio(an * bd - bn * ad, ad * bd)
      /\ Times(a, b) = Ratio(an * bn, ad * bd)
  BY DEF Plus, Minus, Times
<1> HIDE DEF an, ad, bn, bd
<1>3. /\ d * e \in Nat \ {0} /\ ad * bd \in Nat \ {0}
      /\ an * bd \in Int /\ bn * ad \in Int /\ an * bn \in Int
      /\ n * e \in Int /\ m * d \in Int /\ n * m \in Int
  BY <1>1
<1>4. /\ (an * bd) * (d * e) = (n * e) * (ad * bd)
      /\ (bn * ad) * (d * e) = (m * d) * (ad * bd)
      /\ (an * bn) * (d * e) = (n * m) * (ad * bd)
  <2>1. /\ (an * bd) * (d * e) = (an * d) * (bd * e)
        /\ (n * ad) * (bd * e) = (n * e) * (ad * bd)
    BY <1>1
  <2>2. /\ (bn * ad) * (d * e) = (bn * e) * (ad * d)
        /\ (m * bd) * (ad * d) = (m * d) * (ad * bd)
    BY <1>1
  <2>3. /\ (an * bn) * (d * e) = (an * d) * (bn * e)
        /\ (n * ad) * (m * bd) = (n * m) * (ad * bd)
    BY <1>1
  <2>4. QED
    BY <1>1, <2>1, <2>2, <2>3
<1> DEFINE k == d * e  l == ad * bd  x == an * bd  y == bn * ad  v == n * e  w == m * d
<1>5. (x + y) * k = x * k + y * k /\ (x - y) * k = x * k - y * k
  BY <1>3
<1>6. (v + w) * l = v * l + w * l /\ (v - w) * l = v * l - w * l
  BY <1>3
<1>7. (x + y) * k = (v + w) * l /\ (x - y) * k = (v - w) * l
  BY <1>4, <1>5, <1>6
<1>8. Is(Ratio(x + y, l), v + w, k) /\ Is(Ratio(x - y, l), v - w, k)
  <2>1. /\ x + y \in Int /\ x - y \in Int /\ v + w \in Int /\ v - w \in Int
        /\ k \in Nat \ {0} /\ l \in Nat \ {0}
    BY <1>3
  <2> DEFINE up == x + y  down == x - y  more == v + w  less == v - w
  <2>2. up * k = more * l /\ down * k = less * l
    BY <1>7
  <2> HIDE DEF k, l, up, down, more, less
  <2>3. Is(Ratio(up, l), more, k) /\ Is(Ratio(down, l), less, k)
    BY <2>1, <2>2, IsOf DEF up, down, more, less
  <2>4. QED
    BY <2>3 DEF up, down, more, less
<1>9. Is(Ratio(an * bn, l), n * m, k)
  BY <1>3, <1>4, IsOf
<1>10. QED
  BY <1>2, <1>8, <1>9

LEMMA OverIs ==
  ASSUME NEW a, NEW n, NEW d, Is(a, n, d), NEW k \in Nat \ {0}
  PROVE  Is(Over(a, k), n, d * k)
<1> DEFINE num == a.num  den == a.den
<1>1. num \in Int /\ den \in Nat \ {0} /\ n \in Int /\ d \in Nat \ {0} /\ num * d = n * den
  BY DEF Is, Fraction
<1>2. Over(a, k) = Ratio(num, den * k)
  BY DEF Over
<1> HIDE DEF num, den
<1>3. den * k \in Nat \ {0} /\ d * k \in Nat \ {0}
  BY <1>1
<1>4. num * (d * k) = (num * d) * k /\ n * (den * k) = (n * den) * k
  BY <1>1
<1>5. num * (d * k) = n * (den * k)
  BY <1>1, <1>4
<1>6. QED
  BY <1>1, <1>2, <1>3, <1>5, IsOf

(***************************************************************************)
(* Welford's step: the differences from the old and from the new mean have *)
(* one sign, so the spread does not shrink.                                *)
(***************************************************************************)
LEMMA DeviationsAgree ==
  ASSUME NEW mean \in Fraction, NEW pnl \in Int, NEW count \in Nat \ {0}
  PROVE  LET delta == Minus(Ratio(pnl, 1), mean)
             next  == Plus(mean, Over(delta, count))
             term  == Times(delta, Minus(Ratio(pnl, 1), next))
         IN  next \in Fraction /\ term \in Fraction /\ term.num >= 0
<1> DEFINE delta == Minus(Ratio(pnl, 1), mean)
           part  == Over(delta, count)
           next  == Plus(mean, part)
           rest  == Minus(Ratio(pnl, 1), next)
           term  == Times(delta, rest)
           M == mean.num
           D == mean.den
           K == pnl * D - M
           C == D * count
<1>1. M \in Int /\ D \in Nat \ {0} /\ Is(mean, M, D)
  BY DEF Is, Fraction
<1> HIDE DEF M, D
<1>2. K \in Int /\ C \in Nat \ {0} /\ 1 \in Nat \ {0}
  BY <1>1
<1>3. Is(Ratio(pnl, 1), pnl, 1)
  BY IsRatio
<1>4. Is(delta, K, D)
  <2>1. Is(delta, pnl * D - M * 1, 1 * D)
    BY <1>1, <1>3, SumsAndProducts
  <2>2. pnl * D - M * 1 = K /\ 1 * D = D
    BY <1>1
  <2>3. QED
    BY <2>1, <2>2
<1> HIDE DEF delta
<1>5. Is(part, K, C)
  BY <1>4, OverIs
<1> HIDE DEF part
<1>6. Is(next, M * C + K * D, D * C)
  BY <1>1, <1>5, SumsAndProducts
<1> HIDE DEF next
<1>7. Is(rest, pnl * (D * C) - (M * C + K * D) * 1, 1 * (D * C))
  BY <1>3, <1>6, SumsAndProducts
<1> HIDE DEF rest
<1>8. pnl * (D * C) - (M * C + K * D) * 1 = (K * (count - 1)) * D
  <2>1. pnl * (D * C) = (pnl * D) * C /\ (M * C + K * D) * 1 = M * C + K * D
    BY <1>1, <1>2
  <2>2. (pnl * D) * C - M * C = K * C
    BY <1>1, <1>2
  <2>3. K * C = (K * count) * D
    BY <1>1, <1>2
  <2>4. (K * (count - 1)) * D = (K * count) * D - K * D
    BY <1>1, <1>2
  <2>5. /\ pnl * (D * C) \in Int /\ (pnl * D) * C \in Int /\ M * C \in Int
        /\ K * D \in Int /\ K * C \in Int /\ (K * count) * D \in Int
    BY <1>1, <1>2
  <2> HIDE DEF K, C
  <2>6. QED
    BY <2>1, <2>2, <2>3, <2>4, <2>5
<1>9. Is(rest, (K * (count - 1)) * D, D * C)
  BY <1>1, <1>2, <1>7, <1>8
<1>10. Is(term, K * ((K * (count - 1)) * D), D * (D * C))
  BY <1>4, <1>9, SumsAndProducts
<1> HIDE DEF term
<1>11. K * ((K * (count - 1)) * D) >= 0
  <2>1. K * K \in Nat /\ (count - 1) * D \in Nat
    BY <1>1, <1>2
  <2>2. K * ((K * (count - 1)) * D) = (K * K) * ((count - 1) * D)
    BY <1>1, <1>2
  <2> HIDE DEF K
  <2>3. QED
    BY <2>1, <2>2
<1>12. term.num >= 0 /\ term \in Fraction /\ next \in Fraction
  BY <1>6, <1>10, <1>11, SignOf DEF Is
<1>13. QED
  BY <1>12 DEF term, rest, next, part, delta

LEMMA SpreadStaysPositive ==
  ASSUME NEW a \in Fraction, NEW b \in Fraction, a.num >= 0, b.num >= 0
  PROVE  Plus(a, b) \in Fraction /\ Plus(a, b).num >= 0
<1> DEFINE n == a.num  d == a.den  m == b.num  e == b.den
<1>1. /\ n \in Nat /\ d \in Nat \ {0} /\ m \in Nat /\ e \in Nat \ {0}
      /\ Is(a, n, d) /\ Is(b, m, e)
  BY DEF Is, Fraction
<1> HIDE DEF n, d, m, e
<1>2. Is(Plus(a, b), n * e + m * d, d * e)
  BY <1>1, SumsAndProducts
<1>3. n * e + m * d >= 0
  BY <1>1
<1>4. QED
  BY <1>2, <1>3, SignOf DEF Is

-----------------------------------------------------------------------------
Enters == INSTANCE FoldTheory WITH Op <- Enter
Pushes == INSTANCE FoldTheory WITH Op <- PushFill

TradeFill ==
  [symbol : Symbols, side : Side, price : Nat, qty : Nat, ts : Nat, fee : Nat]
LogState == [qty : Int, avg : Nat, open : Nat]

\* The same position in both ledgers.
Agree(p, s) == p.qty = s.qty /\ p.avg = s.avg

\* Both take the same direction: the fill is passed over, adds or reduces.
LEMMA DeltaOfFill ==
  ASSUME NEW f \in TradeFill
  PROVE  LET d == Signed(f.side, f.qty)
         IN  /\ d \in Int /\ Abs(d) \in Nat
             /\ d = 0 <=> Ignored(f)
             /\ ~Ignored(f) => Abs(d) = f.qty /\ f.qty > 0
  BY DEF TradeFill, Side, Signed, Ignored, Abs

(***************************************************************************)
(* Account::on_fill and IncrementalStats::on_fill leave the same quantity  *)
(* at the same average price, opening, adding, reducing, closing and       *)
(* flipping.                                                               *)
(***************************************************************************)
THEOREM PositionsStayEqual ==
  ASSUME NEW p \in Position, NEW s \in LogState, NEW f \in TradeFill, Agree(p, s)
  PROVE  Agree(OnFill(p, f.side, f.qty, f.price).position, PosAfter(s, f))
<1> DEFINE d == Signed(f.side, f.qty)
<1>1. d \in Int /\ (d = 0 <=> Ignored(f))
  BY DeltaOfFill
<1>2. p.qty = s.qty /\ p.avg = s.avg /\ s.qty \in Int
  BY DEF Agree, LogState
<1>3. Adds(p, d) <=> Adds(s, d)
  BY <1>2 DEF Adds
<1>4. CASE Ignored(f)
  BY <1>1, <1>4 DEF OnFill, PosAfter, Agree
<1>5. CASE ~Ignored(f) /\ Adds(p, d)
  <2>1. OnFill(p, f.side, f.qty, f.price).position = Increase(p, d, f.price)
    BY <1>1, <1>5 DEF OnFill
  <2>2. PosAfter(s, f) = Opened(s, f, d)
    BY <1>3, <1>5 DEF PosAfter
  <2>3. Increase(p, d, f.price).qty = p.qty + d
    BY DEF Increase, Position
  <2>4. Increase(p, d, f.price).avg
          = (p.avg * Abs(p.qty) + f.price * Abs(d)) \div (Abs(p.qty) + Abs(d))
    BY DEF Increase, Position
  <2>5. QED
    BY <1>2, <2>1, <2>2, <2>3, <2>4 DEF Opened, Agree
<1>6. CASE ~Ignored(f) /\ ~Adds(p, d)
  <2>1. OnFill(p, f.side, f.qty, f.price).position = Decrease(p, d, f.price)
    BY <1>1, <1>6 DEF OnFill
  <2>2. PosAfter(s, f) = Reduced(s, f, s.qty + d)
    BY <1>3, <1>6 DEF PosAfter
  <2>3. /\ Decrease(p, d, f.price).qty = p.qty + d
        /\ Decrease(p, d, f.price).avg
             = CASE p.qty + d = 0 -> 0
                 [] Sign(p.qty + d) = Sign(p.qty) -> p.avg
                 [] OTHER -> f.price
    BY DEF Decrease, Position
  <2>4. QED
    BY <1>1, <1>2, <2>1, <2>2, <2>3 DEF Reduced, Agree, LogState
<1>7. QED
  BY <1>4, <1>5, <1>6

-----------------------------------------------------------------------------
(***************************************************************************)
(* The profit or loss the account realises at a fill, which the kill       *)
(* switch and the profit-and-loss history are fed with, is the gross       *)
(* result by which the statistics count closed trades.                     *)
(***************************************************************************)
THEOREM ResultsAreEqual ==
  ASSUME NEW p \in Position, NEW s \in LogState, NEW f \in TradeFill, Agree(p, s)
  PROVE  OnFill(p, f.side, f.qty, f.price).pnl = GrossPnl(s, f)
<1> DEFINE d == Signed(f.side, f.qty)
<1>1. /\ d \in Int /\ (d = 0 <=> Ignored(f))
      /\ ~Ignored(f) => Abs(d) = f.qty
  BY DeltaOfFill
<1>2. /\ p.qty = s.qty /\ p.avg = s.avg
      /\ s.qty \in Int /\ s.avg \in Nat /\ f.price \in Nat
  BY DEF Agree, LogState, TradeFill
<1>3. Adds(p, d) <=> Adds(s, d)
  BY <1>2 DEF Adds
<1>4. CASE Ignored(f)
  BY <1>1, <1>4 DEF OnFill, GrossPnl, Closes
<1>5. CASE ~Ignored(f) /\ Adds(p, d)
  BY <1>1, <1>3, <1>5 DEF OnFill, GrossPnl, Closes
<1>6. CASE ~Ignored(f) /\ ~Adds(p, d)
  <2>1. OnFill(p, f.side, f.qty, f.price).pnl = RealizedPnl(p, d, f.price)
    BY <1>1, <1>6 DEF OnFill
  <2>2. p.qty # 0
    BY <1>6 DEF Adds
  <2>3. Sign(p.qty) * (f.price - p.avg)
          = IF s.qty > 0 THEN f.price - s.avg ELSE s.avg - f.price
    BY <1>2, <2>2 DEF Sign
  <2>4. GrossPnl(s, f)
          = Quotient((IF s.qty > 0 THEN f.price - s.avg ELSE s.avg - f.price)
                     * Lesser(Abs(s.qty), f.qty), Scale)
    BY <1>3, <1>6 DEF GrossPnl, Closes
  <2>5. QED
    BY <1>1, <1>2, <1>6, <2>1, <2>3, <2>4 DEF RealizedPnl
<1>7. QED
  BY <1>4, <1>5, <1>6

-----------------------------------------------------------------------------
(***************************************************************************)
(* The types of one step                                                   *)
(***************************************************************************)
LEMMA QuotientOfNats ==
  ASSUME NEW a \in Nat, NEW b \in Nat \ {0}
  PROVE  a \div b \in Nat
  OBVIOUS

LEMMA AverageIsNat ==
  ASSUME NEW q \in Int, NEW a \in Nat, NEW d \in Int, NEW p \in Nat, d # 0
  PROVE  (a * Abs(q) + p * Abs(d)) \div (Abs(q) + Abs(d)) \in Nat
<1>1. Abs(q) \in Nat /\ Abs(d) \in Nat \ {0}
  BY DEF Abs
<1>2. a * Abs(q) \in Nat /\ p * Abs(d) \in Nat
  BY <1>1
<1>3. a * Abs(q) + p * Abs(d) \in Nat /\ Abs(q) + Abs(d) \in Nat \ {0}
  BY <1>1, <1>2
<1>4. QED
  BY <1>3, QuotientOfNats

LEMMA PositionWith ==
  ASSUME NEW p \in Position, NEW q \in Int, NEW a \in Nat,
         NEW r, r = [p EXCEPT !.qty = q, !.avg = a]
  PROVE  r \in Position
  BY DEF Position

LEMMA LogStateWith ==
  ASSUME NEW s \in LogState, NEW q \in Int, NEW a \in Nat, NEW r,
         r = [s EXCEPT !.qty = q, !.avg = a] \/ r = [s EXCEPT !.qty = q]
  PROVE  r \in LogState
  BY DEF LogState

LEMMA PositionType ==
  ASSUME NEW p \in Position, NEW f \in TradeFill
  PROVE  OnFill(p, f.side, f.qty, f.price).position \in Position
<1> DEFINE d == Signed(f.side, f.qty)
<1>1. /\ d \in Int /\ f.price \in Nat
      /\ p.qty \in Int /\ p.avg \in Nat
  BY DeltaOfFill DEF TradeFill, Position
<1> HIDE DEF d
<1>2. CASE d = 0
  BY <1>2 DEF OnFill, d
<1>3. CASE d # 0 /\ Adds(p, d)
  <2>1. OnFill(p, f.side, f.qty, f.price).position = Increase(p, d, f.price)
    BY <1>3 DEF OnFill, d
  <2> DEFINE avg == (p.avg * Abs(p.qty) + f.price * Abs(d)) \div (Abs(p.qty) + Abs(d))
         left == p.qty + d
  <2>2. avg \in Nat
    BY <1>1, <1>3, AverageIsNat
  <2>3. Increase(p, d, f.price) = [p EXCEPT !.qty = left, !.avg = avg]
    BY DEF Increase, Position
  <2>4. left \in Int
    BY <1>1
  <2> HIDE DEF avg, left
  <2>5. QED
    BY <2>1, <2>2, <2>3, <2>4, PositionWith
<1>4. CASE d # 0 /\ ~Adds(p, d)
  <2> DEFINE left == p.qty + d
             avg  == CASE left = 0 -> 0
                       [] Sign(left) = Sign(p.qty) -> p.avg
                       [] OTHER -> f.price
  <2>1. OnFill(p, f.side, f.qty, f.price).position = Decrease(p, d, f.price)
    BY <1>4 DEF OnFill, d
  <2>2. left \in Int /\ avg \in Nat
    BY <1>1
  <2>3. Decrease(p, d, f.price) = [p EXCEPT !.qty = left, !.avg = avg]
    BY DEF Decrease
  <2> HIDE DEF avg, left
  <2>4. QED
    BY <2>1, <2>2, <2>3, PositionWith
<1>5. QED
  BY <1>2, <1>3, <1>4

LEMMA LogStateType ==
  ASSUME NEW s \in LogState, NEW f \in TradeFill
  PROVE  PosAfter(s, f) \in LogState
<1> DEFINE d == Signed(f.side, f.qty)
<1>1. /\ d \in Int /\ (d = 0 <=> Ignored(f)) /\ f.price \in Nat /\ f.ts \in Nat
      /\ s.qty \in Int /\ s.avg \in Nat /\ s.open \in Nat
  BY DeltaOfFill DEF TradeFill, LogState
<1> HIDE DEF d
<1>2. CASE Ignored(f)
  BY <1>2 DEF PosAfter
<1>3. CASE ~Ignored(f) /\ Adds(s, d)
  <2>1. PosAfter(s, f) = Opened(s, f, d)
    BY <1>3 DEF PosAfter, d
  <2> DEFINE avg == (s.avg * Abs(s.qty) + f.price * Abs(d)) \div (Abs(s.qty) + Abs(d))
  <2>2. avg \in Nat
    BY <1>1, <1>3, AverageIsNat
  <2>3. Opened(s, f, d)
          = [qty |-> s.qty + d, avg |-> avg, open |-> IF s.qty = 0 THEN f.ts ELSE s.open]
    BY DEF Opened
  <2> HIDE DEF avg
  <2>4. QED
    BY <1>1, <2>1, <2>2, <2>3 DEF LogState
<1>4. CASE ~Ignored(f) /\ ~Adds(s, d)
  <2> DEFINE left == s.qty + d
  <2>1. PosAfter(s, f) = Reduced(s, f, left) /\ left \in Int
    BY <1>1, <1>4 DEF PosAfter, d
  <2> HIDE DEF left
  <2>2. [s EXCEPT !.qty = 0, !.avg = 0] \in LogState
    <3> DEFINE none == 0
    <3>1. none \in Int /\ none \in Nat
      OBVIOUS
    <3> HIDE DEF none
    <3>2. [s EXCEPT !.qty = none, !.avg = none] \in LogState
      BY <3>1, LogStateWith
    <3>3. QED
      BY <3>2 DEF none
  <2>3. [s EXCEPT !.qty = left] \in LogState
    BY <1>1, <2>1, LogStateWith
  <2>4. [qty |-> left, avg |-> f.price, open |-> f.ts] \in LogState
    BY <1>1, <2>1 DEF LogState
  <2>5. QED
    BY <2>1, <2>2, <2>3, <2>4 DEF Reduced
<1>5. QED
  BY <1>2, <1>3, <1>4

-----------------------------------------------------------------------------
(***************************************************************************)
(* The loops of EnterFills and equity_curve_from_pnl_deltas are folds.     *)
(***************************************************************************)
NextPoint(curve, e) ==
  Append(curve, [ts |-> e.ts,
                 equity |-> (IF curve = <<>> THEN 0 ELSE Last(curve).equity) + e.pnl])

Points == INSTANCE FoldTheory WITH Op <- NextPoint

LEMMA EntersFold ==
  ASSUME NEW b, NEW s
  PROVE  FoldLeft(Enter, b, s) = Enters!Fold(b, s)
  BY DEF Enters!Fold, FoldLeft,
         Enters!MapThenFoldSet, MapThenFoldSet, Enters!Latest, Max

LEMMA PushesFold ==
  ASSUME NEW b, NEW s
  PROVE  FoldLeft(PushFill, b, s) = Pushes!Fold(b, s)
  BY DEF Pushes!Fold, FoldLeft,
         Pushes!MapThenFoldSet, MapThenFoldSet, Pushes!Latest, Max

LEMMA CurveFold ==
  ASSUME NEW s
  PROVE  EquityCurve(s) = Points!Fold(<<>>, s)
  BY DEF EquityCurve, CurveFrom, NextPoint, Points!Fold, FoldLeft,
         Points!MapThenFoldSet, MapThenFoldSet, Points!Latest, Max

-----------------------------------------------------------------------------
(***************************************************************************)
(* The risk guard and the equity curve                                     *)
(***************************************************************************)
EntryType == [ts : Nat, pnl : Int, trade : BOOLEAN]
LEMMA CurveGrows ==
  ASSUME NEW E, NEW s \in Seq(E), NEW e \in E
  PROVE  EquityCurve(Append(s, e)) = NextPoint(EquityCurve(s), e)
  BY CurveFold, Points!FoldOfAppend

LEMMA CurveOfNone == EquityCurve(<<>>) = <<>>
  BY CurveFold, Points!FoldOfEmpty

LEMMA CurveIsSeq ==
  ASSUME NEW E, NEW s \in Seq(E), \A e \in E : e.ts \in Nat /\ e.pnl \in Int
  PROVE  EquityCurve(s) \in Seq(PointType) /\ Len(EquityCurve(s)) = Len(s)
<1> DEFINE Good == {t \in Seq(E) : EquityCurve(t) \in Seq(PointType)
                                   /\ Len(EquityCurve(t)) = Len(t)}
<1>1. <<>> \in Good
  BY CurveOfNone, EmptySeq
<1>2. ASSUME NEW t \in Seq(E), NEW e \in E, t \in Good PROVE Append(t, e) \in Good
  <2> DEFINE curve == EquityCurve(t)
             point == [ts |-> e.ts, equity |-> EquityOf(curve) + e.pnl]
  <2>1. curve \in Seq(PointType) /\ Len(curve) = Len(t)
    BY <1>2
  <2>2. EquityCurve(Append(t, e)) = Append(curve, point)
    BY CurveGrows DEF NextPoint, EquityOf
  <2> HIDE DEF curve
  <2>3. EquityOf(curve) \in Int
    <3>1. CASE curve = <<>>
      BY <3>1 DEF EquityOf
    <3>2. CASE curve # <<>>
      <4>1. Len(curve) \in 1 .. Len(curve)
        BY <2>1, <3>2, EmptySeq, LenProperties
      <4>2. Last(curve) \in PointType
        BY <2>1, <4>1, ElementOfSeq DEF Last
      <4>3. QED
        BY <3>2, <4>2 DEF EquityOf, PointType
    <3>3. QED
      BY <3>1, <3>2
  <2>4. point \in PointType
    BY <2>3 DEF PointType
  <2> HIDE DEF point
  <2>5. Append(curve, point) \in Seq(PointType) /\ Len(Append(curve, point)) = Len(curve) + 1
    BY <2>1, <2>4, AppendProperties
  <2>6. Append(t, e) \in Seq(E) /\ Len(Append(t, e)) = Len(t) + 1
    BY AppendProperties
  <2>7. QED
    BY <2>1, <2>2, <2>5, <2>6
<1> HIDE DEF Good
<1>3. s \in Good
  BY <1>1, <1>2, Enters!SeqSetInduction
<1>4. QED
  BY <1>3 DEF Good

\* What KilledAtLoss says, for any guard and entries, and the guard's sum.
TellsTheCurve(g, es) ==
  LET curve == EquityCurve(es)
  IN  /\ g \in RiskGuard
      /\ g.running_pnl = EquityOf(curve)
      /\ g.killed
           <=> config.max_loss < 0
               /\ \E i \in DOMAIN curve : curve[i].equity <= config.max_loss

LEMMA GuardFollows ==
  ASSUME NEW es \in Seq(EntryType), NEW e \in EntryType, NEW g,
         config.max_loss \in Int, TellsTheCurve(g, es)
  PROVE  TellsTheCurve(UpdatePnl(g, config, e.pnl), Append(es, e))
<1> DEFINE curve == EquityCurve(es)
           pnl   == EquityOf(curve) + e.pnl
           point == [ts |-> e.ts, equity |-> pnl]
           grown == Append(curve, point)
<1>1. \A x \in EntryType : x.ts \in Nat /\ x.pnl \in Int
  BY DEF EntryType
<1>2. curve \in Seq(PointType)
  BY <1>1, CurveIsSeq
<1>3. EquityCurve(Append(es, e)) = grown
  BY CurveGrows DEF NextPoint, EquityOf
<1>4. /\ g \in RiskGuard /\ g.running_pnl = EquityOf(curve)
      /\ g.killed <=> config.max_loss < 0
                      /\ \E i \in DOMAIN curve : curve[i].equity <= config.max_loss
  BY DEF TellsTheCurve
<1> HIDE DEF curve
<1>5. EquityOf(curve) \in Int /\ pnl \in Int
  BY <1>1, <1>4 DEF RiskGuard
<1>6. point \in PointType /\ point.equity = pnl
  BY <1>1, <1>5 DEF PointType
<1> DEFINE h    == UpdatePnl(g, config, e.pnl)
           dead == g.killed \/ (config.max_loss < 0 /\ pnl <= config.max_loss)
<1>7. h = [killed |-> dead, running_pnl |-> pnl]
  BY <1>4 DEF UpdatePnl
<1> HIDE DEF point, pnl
<1>8. /\ Len(grown) = Len(curve) + 1 /\ grown # <<>> /\ Len(curve) \in Nat
      /\ DOMAIN grown = 1 .. Len(curve) + 1 /\ DOMAIN curve = 1 .. Len(curve)
      /\ grown[Len(curve) + 1] = point
      /\ \A i \in DOMAIN curve : grown[i] = curve[i]
  BY <1>2, <1>6, AppendProperties, LenProperties
<1> HIDE DEF grown
<1>9. EquityOf(grown) = pnl
  BY <1>6, <1>8 DEF EquityOf, Last
<1>10. (\E i \in DOMAIN grown : grown[i].equity <= config.max_loss)
         <=> \/ \E i \in DOMAIN curve : curve[i].equity <= config.max_loss
             \/ pnl <= config.max_loss
  <2>1. DOMAIN grown = DOMAIN curve \cup {Len(curve) + 1}
    BY <1>8
  <2>2. QED
    BY <1>6, <1>8, <2>1
<1>11. dead \in BOOLEAN
  OBVIOUS
<1>12. dead <=> config.max_loss < 0
                /\ \E i \in DOMAIN grown : grown[i].equity <= config.max_loss
  BY <1>4, <1>10
<1> HIDE DEF h, dead
<1>13. h \in RiskGuard /\ h.running_pnl = EquityOf(grown) /\ h.killed = dead
  BY <1>5, <1>7, <1>9, <1>11 DEF RiskGuard
<1>14. QED
  BY <1>3, <1>12, <1>13 DEF TellsTheCurve, h
-----------------------------------------------------------------------------
(***************************************************************************)
(* The retained fills                                                      *)
(***************************************************************************)
LastOf(s, k) == SubSeq(s, Len(s) - k + 1, Len(s))

LEMMA LastIsSeq ==
  ASSUME NEW E, NEW s \in Seq(E), NEW k \in 0 .. Len(s)
  PROVE  /\ LastOf(s, k) \in Seq(E) /\ Len(LastOf(s, k)) = k
         /\ \A i \in 1 .. k : LastOf(s, k)[i] = s[Len(s) - k + i]
<1>1. Len(s) \in Nat /\ k \in Nat
  BY LenProperties
<1> DEFINE m == Len(s) - k + 1
           n == Len(s)
<1>2. m \in Int /\ n \in Int /\ (m <= n <=> k # 0) /\ n - m + 1 = k
  BY <1>1
<1>3. \A i \in m .. n : s[i] \in E
  BY <1>1, ElementOfSeq
<1>4. LastOf(s, k) = SubSeq(s, m, n)
  BY DEF LastOf
<1> HIDE DEF m, n
<1>5. /\ SubSeq(s, m, n) \in Seq(E) /\ Len(SubSeq(s, m, n)) = k
      /\ \A i \in 1 .. k : SubSeq(s, m, n)[i] = s[m + i - 1]
  BY <1>1, <1>2, <1>3, SubSeqProperties
<1>6. \A i \in 1 .. k : m + i - 1 = Len(s) - k + i
  BY <1>1 DEF m
<1>7. QED
  BY <1>4, <1>5, <1>6

LEMMA LastGrows ==
  ASSUME NEW E, NEW s \in Seq(E), NEW e \in E, NEW k \in 0 .. Len(s)
  PROVE  Append(LastOf(s, k), e) = LastOf(Append(s, e), k + 1)
<1> DEFINE t == Append(s, e)
           a == LastOf(s, k)
           l == Append(a, e)
           r == LastOf(t, k + 1)
<1>1. /\ t \in Seq(E) /\ Len(t) = Len(s) + 1 /\ Len(s) \in Nat /\ k \in Nat
      /\ t[Len(s) + 1] = e /\ \A i \in 1 .. Len(s) : t[i] = s[i]
  BY AppendProperties, LenProperties
<1>2. /\ a \in Seq(E) /\ Len(a) = k /\ \A i \in 1 .. k : a[i] = s[Len(s) - k + i]
  BY LastIsSeq
<1> HIDE DEF t
<1>3. k + 1 \in 0 .. Len(t)
  BY <1>1
<1>4. /\ r \in Seq(E) /\ Len(r) = k + 1
      /\ \A i \in 1 .. k + 1 : r[i] = t[Len(t) - (k + 1) + i]
  BY ZenonT(60), <1>1, <1>3, LastIsSeq
<1> HIDE DEF a, r
<1>5. /\ l \in Seq(E) /\ Len(l) = k + 1 /\ l[k + 1] = e
      /\ \A i \in 1 .. k : l[i] = a[i]
  BY <1>2, AppendProperties
<1> HIDE DEF l
<1>6. ASSUME NEW i \in 1 .. k + 1 PROVE l[i] = r[i]
  <2>1. Len(t) - (k + 1) + i = Len(s) - k + i
    BY <1>1
  <2>2. CASE i = k + 1
    BY <1>1, <1>4, <1>5, <2>1, <2>2
  <2>3. CASE i \in 1 .. k
    <3> DEFINE x == Len(s) - k + i
    <3>1. x \in 1 .. Len(s)
      BY <1>1, <2>3
    <3>2. l[i] = s[x]
      BY <1>2, <1>5, <2>3
    <3>3. r[i] = t[x]
      BY <1>4, <2>1
    <3> HIDE DEF x
    <3>4. QED
      BY <1>1, <3>1, <3>2, <3>3
  <2>4. QED
    BY <1>1, <2>2, <2>3
<1>7. l = r
  BY <1>4, <1>5, <1>6, SeqEqual
<1>8. QED
  BY <1>7 DEF l, r, a, t

LEMMA LastShrinks ==
  ASSUME NEW E, NEW s \in Seq(E), NEW k \in 1 .. Len(s)
  PROVE  LastOf(s, k) # <<>> /\ Tail(LastOf(s, k)) = LastOf(s, k - 1)
<1>1. Len(s) \in Nat /\ k \in 0 .. Len(s)
  BY LenProperties
<1>2. LastOf(s, k) # <<>>
  BY <1>1, LastIsSeq, EmptySeq
<1>3. Len(s) - k + 1 \in 1 .. Len(s) /\ Len(s) \in Len(s) - k + 1 .. Len(s)
  BY <1>1
<1>4. Tail(SubSeq(s, Len(s) - k + 1, Len(s))) = SubSeq(s, (Len(s) - k + 1) + 1, Len(s))
  BY <1>3, HeadTailOfSubSeq
<1>5. (Len(s) - k + 1) + 1 = Len(s) - (k - 1) + 1
  BY <1>1
<1>6. QED
  BY <1>2, <1>4, <1>5 DEF LastOf

\* How many of count fills push_fill has kept, for a ring of any capacity.
HeldBy(mode, count) ==
  CASE mode.kind = "All"        -> count
    [] mode.kind = "RingBuffer" -> Lesser(count, IF mode.cap = 0 THEN 1 ELSE mode.cap)
    [] OTHER                    -> 0

\* A log in which the last of all fills are retained.
Retains(mode, held, all) == held = LastOf(all, HeldBy(mode, Len(all)))

LEMMA RetainKeepsTheLast ==
  ASSUME NEW mode \in TradeLogMode, NEW E, NEW all \in Seq(E), NEW f \in E,
         NEW held, Retains(mode, held, all)
  PROVE  Retains(mode, Retain(mode, held, f), Append(all, f))
<1> DEFINE n == Len(all)
           k == HeldBy(mode, n)
           t == Append(all, f)
<1>1. n \in Nat /\ Len(t) = n + 1 /\ t \in Seq(E)
  BY LenProperties, AppendProperties
<1>2. held = LastOf(all, k)
  BY DEF Retains
<1>3. Retains(mode, Retain(mode, held, f), t) <=> Retain(mode, held, f) = LastOf(t, HeldBy(mode, n + 1))
  BY <1>1 DEF Retains
<1>4. CASE mode.kind = "All"
  <2>1. k = n /\ HeldBy(mode, n + 1) = n + 1 /\ Retain(mode, held, f) = Append(held, f)
    BY <1>4 DEF HeldBy, Retain
  <2>2. Append(LastOf(all, n), f) = LastOf(t, n + 1)
    BY <1>1, LastGrows
  <2>3. QED
    BY <1>2, <1>3, <2>1, <2>2
<1>5. CASE mode.kind = "RingBuffer"
  <2> DEFINE c == IF mode.cap = 0 THEN 1 ELSE mode.cap
  <2>1. mode.cap \in Nat /\ c \in Nat \ {0}
    BY <1>5 DEF TradeLogMode
  <2>2. k = Lesser(n, c) /\ HeldBy(mode, n + 1) = Lesser(n + 1, c)
    BY <1>5 DEF HeldBy
  <2>3. Retain(mode, held, f)
          = Append(IF Len(held) >= mode.cap /\ held # <<>> THEN Tail(held) ELSE held, f)
    BY <1>5 DEF Retain
  <2>4. k \in 0 .. n
    BY <1>1, <2>1, <2>2 DEF Lesser
  <2>5. held \in Seq(E) /\ Len(held) = k
    BY <1>2, <2>4, LastIsSeq
  <2>6. CASE n < c
    <3>1. k = n /\ HeldBy(mode, n + 1) = n + 1
      BY <1>1, <2>1, <2>2, <2>6 DEF Lesser
    <3>2. ~(Len(held) >= mode.cap /\ held # <<>>)
      BY <1>1, <2>1, <2>5, <2>6, <3>1, EmptySeq
    <3>3. Append(LastOf(all, n), f) = LastOf(t, n + 1)
      BY <1>1, LastGrows
    <3>4. QED
      BY <1>2, <1>3, <2>3, <3>1, <3>2, <3>3
  <2>7. CASE n >= c
    <3>1. k = c /\ HeldBy(mode, n + 1) = c /\ c \in 1 .. n
      BY <1>1, <2>1, <2>2, <2>7 DEF Lesser
    <3>2. Len(held) >= mode.cap /\ held # <<>> /\ Tail(held) = LastOf(all, c - 1)
      BY SMTT(60), <1>2, <2>1, <2>5, <3>1, LastShrinks
    <3>3. c - 1 \in 0 .. n
      BY <1>1, <3>1
    <3>4. Append(LastOf(all, c - 1), f) = LastOf(t, (c - 1) + 1)
      BY <3>3, LastGrows
    <3>5. QED
      BY <1>3, <2>1, <2>3, <3>1, <3>2, <3>4
  <2>8. QED
    BY <1>1, <2>1, <2>6, <2>7
<1>6. CASE mode.kind \notin {"All", "RingBuffer"}
  <2>1. HeldBy(mode, n + 1) = 0 /\ Retain(mode, held, f) = <<>>
    BY <1>6 DEF HeldBy, Retain
  <2>2. LastOf(t, 0) = <<>>
    BY <1>1, SubSeqEmpty DEF LastOf
  <2>3. QED
    BY <1>3, <2>1, <2>2
<1>7. QED
  BY <1>4, <1>5, <1>6
-----------------------------------------------------------------------------
(***************************************************************************)
(* The parts of IncrementalStats                                           *)
(***************************************************************************)
FillKeys ==
  {"total_trades", "total_fees_paid", "pos_state", "total_holding_period", "closed_trades"}

SumKeys == {"total_pnl", "gross_profit", "gross_loss", "win_count"}

SpreadKeys == {"pnl_count", "pnl_mean", "pnl_m2", "downside_sq_sum"}

EquityKeys == {"equity", "peak_equity", "peak_ts", "max_drawdown", "max_drawdown_duration"}

StatKeys == FillKeys \cup SumKeys \cup SpreadKeys \cup EquityKeys

WellFormed(l) ==
  /\ DOMAIN l = {"mode", "fills", "pnl_history", "inc"}
  /\ DOMAIN l.inc = StatKeys

\* The fields of inc other than keys.
KeepsBut(inc, n, keys) == DOMAIN n = StatKeys /\ \A k \in StatKeys \ keys : n[k] = inc[k]

LEMMA CountedFill ==
  ASSUME NEW inc, DOMAIN inc = StatKeys, NEW f
  PROVE  LET n == CountFill(inc, f)
             s == PosOf(inc.pos_state, f.symbol)
         IN  /\ KeepsBut(inc, n, FillKeys)
             /\ n.total_trades = inc.total_trades + 1
             /\ n.total_holding_period = inc.total_holding_period + HeldFor(s, f)
             /\ n.closed_trades
                  = IF GrossPnl(s, f) # 0 THEN inc.closed_trades + 1 ELSE inc.closed_trades
             /\ n.pos_state = IF Ignored(f) THEN inc.pos_state
                              ELSE Insert(inc.pos_state, f.symbol, PosAfter(s, f))
  BY DEF CountFill, KeepsBut, StatKeys, FillKeys, SumKeys, SpreadKeys, EquityKeys

LEMMA CountedSums ==
  ASSUME NEW inc, DOMAIN inc = StatKeys, NEW pnl, NEW is_trade
  PROVE  LET n == AddToSums(inc, pnl, is_trade)
         IN  /\ KeepsBut(inc, n, SumKeys)
             /\ n.gross_profit
                  = IF is_trade /\ pnl > 0 THEN inc.gross_profit + pnl ELSE inc.gross_profit
             /\ n.gross_loss
                  = IF is_trade /\ pnl < 0 THEN inc.gross_loss + pnl ELSE inc.gross_loss
             /\ n.win_count
                  = IF is_trade /\ pnl > 0 THEN inc.win_count + 1 ELSE inc.win_count
  BY DEF AddToSums, KeepsBut, StatKeys, FillKeys, SumKeys, SpreadKeys, EquityKeys

\* What holds of the running mean and spread.
SpreadInRange(inc, count) ==
  /\ inc.pnl_count = count
  /\ inc.pnl_mean \in Fraction
  /\ inc.pnl_m2 \in Fraction /\ inc.pnl_m2.num >= 0
  /\ inc.downside_sq_sum \in Nat

LEMMA CountedSpread ==
  ASSUME NEW inc, DOMAIN inc = StatKeys, NEW pnl \in Int, NEW count \in Nat,
         SpreadInRange(inc, count)
  PROVE  LET n == AddToSpread(inc, pnl)
         IN  KeepsBut(inc, n, SpreadKeys) /\ SpreadInRange(n, count + 1)
<1> DEFINE n     == AddToSpread(inc, pnl)
           more  == inc.pnl_count + 1
           delta == Minus(Ratio(pnl, 1), inc.pnl_mean)
           mean  == Plus(inc.pnl_mean, Over(delta, more))
           term  == Times(delta, Minus(Ratio(pnl, 1), mean))
<1>1. /\ KeepsBut(inc, n, SpreadKeys)
      /\ n.pnl_count = more /\ n.pnl_mean = mean
      /\ n.pnl_m2 = Plus(inc.pnl_m2, term)
      /\ n.downside_sq_sum = inc.downside_sq_sum + Downside(pnl)
  BY DEF AddToSpread, KeepsBut, StatKeys, FillKeys, SumKeys, SpreadKeys, EquityKeys
<1>2. more = count + 1 /\ more \in Nat \ {0} /\ inc.pnl_mean \in Fraction
  BY DEF SpreadInRange
<1> HIDE DEF n, more
<1>3. mean \in Fraction /\ term \in Fraction /\ term.num >= 0
  BY <1>2, DeviationsAgree
<1> HIDE DEF term, mean
<1>4. Plus(inc.pnl_m2, term) \in Fraction /\ Plus(inc.pnl_m2, term).num >= 0
  BY <1>3, SpreadStaysPositive DEF SpreadInRange
<1>5. Downside(pnl) \in Nat
  BY DEF Downside, Square
<1>6. SpreadInRange(n, count + 1)
  BY <1>1, <1>2, <1>3, <1>4, <1>5 DEF SpreadInRange
<1>7. QED
  BY <1>1, <1>6 DEF n

-----------------------------------------------------------------------------
(***************************************************************************)
(* The running drawdown is that of the curve so far, whose highest point   *)
(* it remembers.                                                           *)
(***************************************************************************)
IsPeak(curve, p) == \A i \in DOMAIN curve : curve[i].equity <= curve[p].equity

DrawdownFollows(inc, curve, t) ==
  /\ inc.equity = EquityOf(curve)
  /\ inc.peak_ts \in Nat /\ inc.peak_ts <= t
  /\ curve # <<>> => \E p \in DOMAIN curve : /\ IsPeak(curve, p)
                                             /\ inc.peak_equity = curve[p].equity
                                             /\ inc.peak_ts = curve[p].ts
  /\ inc.max_drawdown \in Fraction
  /\ ~Exceeds(Zero, inc.max_drawdown) /\ ~Exceeds(inc.max_drawdown, All)
  /\ inc.max_drawdown_duration \in Nat
  /\ WorstFall(curve, inc.max_drawdown, inc.max_drawdown_duration)

LEMMA CurveGrownBy ==
  ASSUME NEW curve \in Seq(PointType), NEW point \in PointType
  PROVE  /\ GrownBy(curve, Append(curve, point), point)
         /\ Append(curve, point) \in Seq(PointType)
         /\ Append(curve, point) # <<>>
         /\ EquityOf(Append(curve, point)) = point.equity
<1> DEFINE grown == Append(curve, point)
<1>1. /\ Len(curve) \in Nat /\ DOMAIN curve = 1 .. Len(curve)
      /\ grown \in Seq(PointType) /\ grown # <<>> /\ Len(grown) = Len(curve) + 1
      /\ DOMAIN grown = 1 .. Len(curve) + 1
      /\ grown[Len(curve) + 1] = point
      /\ \A i \in 1 .. Len(curve) : grown[i] = curve[i]
  BY AppendProperties, LenProperties
<1> HIDE DEF grown
<1>2. EquityOf(grown) = point.equity
  BY <1>1 DEF EquityOf, Last
<1>3. QED
  BY <1>1, <1>2 DEF GrownBy, grown

LEMMA NewPeak ==
  ASSUME NEW curve \in Seq(PointType), NEW point \in PointType, NEW grown,
         GrownBy(curve, grown, point),
         \A i \in DOMAIN curve : curve[i].equity <= point.equity
  PROVE  LET p == Len(curve) + 1
         IN  p \in DOMAIN grown /\ IsPeak(grown, p) /\ grown[p] = point
<1>1. point.equity \in Int
  BY DEF PointType
<1>2. QED
  BY <1>1 DEF GrownBy, IsPeak

LEMMA SamePeak ==
  ASSUME NEW curve \in Seq(PointType), NEW point \in PointType, NEW grown,
         GrownBy(curve, grown, point), NEW p \in DOMAIN curve, IsPeak(curve, p),
         point.equity <= curve[p].equity
  PROVE  p \in DOMAIN grown /\ IsPeak(grown, p) /\ grown[p] = curve[p]
  BY DEF GrownBy, IsPeak

LEMMA CountedEquity ==
  ASSUME NEW inc, DOMAIN inc = StatKeys, NEW curve \in Seq(PointType), NEW t \in Nat,
         NEW pnl \in Int, inc.pnl_count = Len(curve) + 1, DrawdownFollows(inc, curve, t)
  PROVE  LET n     == AddToEquity(inc, t, pnl)
             point == [ts |-> t, equity |-> EquityOf(curve) + pnl]
         IN  /\ KeepsBut(inc, n, EquityKeys)
             /\ DrawdownFollows(n, Append(curve, point), t)
<1> DEFINE n     == AddToEquity(inc, t, pnl)
           eq    == EquityOf(curve) + pnl
           point == [ts |-> t, equity |-> eq]
           grown == Append(curve, point)
           peak  == inc.peak_equity
           moved == [inc EXCEPT !.equity = inc.equity + pnl]
<1>1. EquityOf(curve) \in Int
  <2>1. CASE curve = <<>>
    BY <2>1 DEF EquityOf
  <2>2. CASE curve # <<>>
    <3>1. Len(curve) \in 1 .. Len(curve)
      BY <2>2, EmptySeq, LenProperties
    <3>2. Last(curve) \in PointType
      BY <3>1, ElementOfSeq DEF Last
    <3>3. QED
      BY <2>2, <3>2 DEF EquityOf, PointType
  <2>3. QED
    BY <2>1, <2>2
<1>2. /\ eq \in Int /\ point \in PointType /\ point.equity = eq /\ point.ts = t
      /\ inc.equity + pnl = eq
  BY <1>1 DEF PointType, DrawdownFollows
<1>3. /\ DOMAIN moved = StatKeys /\ moved.equity = eq
      /\ \A k \in StatKeys \ {"equity"} : moved[k] = inc[k]
  BY <1>2 DEF StatKeys, FillKeys, SumKeys, SpreadKeys, EquityKeys
<1> HIDE DEF point, eq
<1>4. /\ GrownBy(curve, grown, point) /\ grown \in Seq(PointType) /\ grown # <<>>
      /\ EquityOf(grown) = eq
  BY <1>2, CurveGrownBy
<1>5. /\ Len(curve) \in Nat /\ (Len(curve) = 0 <=> curve = <<>>)
      /\ \A i \in DOMAIN curve : curve[i] \in PointType
  BY LenProperties, EmptySeq, ElementOfSeq
<1>6. /\ inc.max_drawdown \in Fraction /\ ~Exceeds(Zero, inc.max_drawdown)
      /\ ~Exceeds(inc.max_drawdown, All) /\ inc.max_drawdown_duration \in Nat
      /\ WorstFall(curve, inc.max_drawdown, inc.max_drawdown_duration)
      /\ inc.peak_ts \in Nat /\ inc.peak_ts <= t
  BY DEF DrawdownFollows
<1> HIDE DEF grown
<1>7. CASE inc.pnl_count = 1 \/ eq > peak
  <2>1. n = [moved EXCEPT !.peak_equity = eq, !.peak_ts = t]
    <3>1. moved.pnl_count = inc.pnl_count /\ moved.peak_equity = peak
      BY <1>3 DEF StatKeys, FillKeys, SumKeys, SpreadKeys, EquityKeys
    <3>2. n = IF inc.pnl_count = 1 \/ moved.equity > inc.peak_equity
              THEN [moved EXCEPT !.peak_equity = moved.equity, !.peak_ts = t]
              ELSE Fallen(moved, t)
      BY DEF AddToEquity
    <3> HIDE DEF moved, n
    <3>3. QED
      BY <1>3, <1>7, <3>2
  <2> HIDE DEF moved, n
  <2>2. /\ KeepsBut(inc, n, EquityKeys)
        /\ n.equity = eq /\ n.peak_equity = eq /\ n.peak_ts = t
        /\ n.max_drawdown = inc.max_drawdown
        /\ n.max_drawdown_duration = inc.max_drawdown_duration
    BY <1>3, <2>1 DEF KeepsBut, StatKeys, FillKeys, SumKeys, SpreadKeys, EquityKeys
  <2>3. \A i \in DOMAIN curve : curve[i].equity <= eq
    <3>1. CASE curve = <<>>
      <4>1. DOMAIN curve = {}
        BY <3>1
      <4>2. QED
        BY <4>1
    <3>2. CASE curve # <<>>
      <4>1. eq > peak
        BY <1>5, <1>7, <3>2
      <4>2. PICK p \in DOMAIN curve : IsPeak(curve, p) /\ peak = curve[p].equity
        BY <3>2 DEF DrawdownFollows
      <4>3. \A i \in DOMAIN curve : curve[i].equity \in Int
        BY <1>5 DEF PointType
      <4>4. QED
        BY <1>2, <4>1, <4>2, <4>3 DEF IsPeak
    <3>3. QED
      BY <3>1, <3>2
  <2>4. \A i \in DOMAIN curve : ~FallsTo(curve, i, point)
    <3>1. \A i \in DOMAIN curve : curve[i].equity \in Int
      BY <1>5 DEF PointType
    <3>2. QED
      BY <1>2, <2>3, <3>1 DEF FallsTo
  <2>5. WorstFall(grown, inc.max_drawdown, inc.max_drawdown_duration)
    BY <1>4, <1>6, <2>4, NoNewFall
  <2>6. \E p \in DOMAIN grown : IsPeak(grown, p) /\ grown[p] = point
    BY <1>2, <1>4, <2>3, NewPeak
  <2>7. DrawdownFollows(n, grown, t)
    BY <1>2, <1>4, <1>6, <2>2, <2>5, <2>6 DEF DrawdownFollows
  <2>8. QED
    BY <2>2, <2>7 DEF n, grown, point, eq
<1>8. CASE ~(inc.pnl_count = 1 \/ eq > peak)
  <2>1. curve # <<>>
    BY <1>5, <1>8
  <2>2. PICK p \in DOMAIN curve : /\ IsPeak(curve, p) /\ peak = curve[p].equity
                                  /\ inc.peak_ts = curve[p].ts
    BY <2>1 DEF DrawdownFollows
  <2>3. peak \in Int /\ curve[p].ts \in Nat /\ eq <= peak
    BY <1>2, <1>5, <1>8, <2>2 DEF PointType
  <2> DEFINE dd == FallFrom(peak, eq)
  <2>4. n = IF peak > 0 /\ Exceeds(dd, inc.max_drawdown)
            THEN [moved EXCEPT !.max_drawdown = dd, !.max_drawdown_duration = t - inc.peak_ts]
            ELSE moved
    <3>1. /\ moved.pnl_count = inc.pnl_count /\ moved.peak_equity = peak
          /\ moved.max_drawdown = inc.max_drawdown /\ moved.peak_ts = inc.peak_ts
      BY <1>3 DEF StatKeys, FillKeys, SumKeys, SpreadKeys, EquityKeys
    <3>2. n = IF inc.pnl_count = 1 \/ moved.equity > inc.peak_equity
              THEN [moved EXCEPT !.peak_equity = moved.equity, !.peak_ts = t]
              ELSE Fallen(moved, t)
      BY DEF AddToEquity
    <3> HIDE DEF moved, n
    <3>3. n = Fallen(moved, t)
      BY <1>3, <1>8, <3>2
    <3>4. QED
      BY <1>3, <3>1, <3>3 DEF Fallen, FallFrom
  <2>5. p \in DOMAIN grown /\ IsPeak(grown, p) /\ grown[p] = curve[p]
    BY <1>2, <1>4, <2>2, <2>3, SamePeak
  <2>6. \A i \in DOMAIN curve : curve[i].equity <= curve[p].equity
    BY <2>2 DEF IsPeak
  <2> HIDE DEF moved, n
  <2>7. CASE peak > 0 /\ Exceeds(dd, inc.max_drawdown)
    <3>1. /\ KeepsBut(inc, n, EquityKeys)
          /\ n.equity = eq /\ n.peak_equity = peak /\ n.peak_ts = inc.peak_ts
          /\ n.max_drawdown = dd /\ n.max_drawdown_duration = t - inc.peak_ts
      BY <1>3, <2>4, <2>7 DEF KeepsBut, StatKeys, FillKeys, SumKeys, SpreadKeys, EquityKeys
    <3>2. peak \in Nat \ {0}
      BY <2>3, <2>7
    <3>3. dd \in Fraction /\ ~Exceeds(dd, All) /\ ~Exceeds(Zero, dd)
      BY <1>2, <2>3, <3>2, FallIsPart
    <3>4. WorstFall(grown, dd, t - inc.peak_ts)
      BY <1>2, <1>4, <1>6, <2>2, <2>6, <2>7, WorseFall
    <3> HIDE DEF dd
    <3>5. t - inc.peak_ts \in Nat
      BY <1>6
    <3>6. DrawdownFollows(n, grown, t)
      BY <1>4, <1>6, <2>2, <2>5, <3>1, <3>3, <3>4, <3>5 DEF DrawdownFollows
    <3>7. QED
      BY <3>1, <3>6 DEF n, grown, point, eq
  <2>8. CASE ~(peak > 0 /\ Exceeds(dd, inc.max_drawdown))
    <3>1. /\ KeepsBut(inc, n, EquityKeys)
          /\ n.equity = eq /\ n.peak_equity = peak /\ n.peak_ts = inc.peak_ts
          /\ n.max_drawdown = inc.max_drawdown
          /\ n.max_drawdown_duration = inc.max_drawdown_duration
      BY <1>3, <2>4, <2>8 DEF KeepsBut, StatKeys, FillKeys, SumKeys, SpreadKeys, EquityKeys
    <3>2. WorstFall(grown, inc.max_drawdown, inc.max_drawdown_duration)
      <4>1. CASE peak > 0
        BY <1>2, <1>4, <1>6, <2>2, <2>6, <2>8, <4>1, NoWorseFall
      <4>2. CASE ~(peak > 0)
        <5>1. \A i \in DOMAIN curve : curve[i].equity \in Int
          BY <1>5 DEF PointType
        <5>2. \A i \in DOMAIN curve : ~FallsTo(curve, i, point)
          BY <2>2, <2>3, <2>6, <4>2, <5>1 DEF FallsTo
        <5>3. QED
          BY <1>4, <1>6, <5>2, NoNewFall
      <4>3. QED
        BY <4>1, <4>2
    <3>3. DrawdownFollows(n, grown, t)
      BY <1>4, <1>6, <2>2, <2>5, <3>1, <3>2 DEF DrawdownFollows
    <3>4. QED
      BY <3>1, <3>3 DEF n, grown, point, eq
  <2>9. QED
    BY <2>7, <2>8
<1>9. QED
  BY <1>7, <1>8
-----------------------------------------------------------------------------
(***************************************************************************)
(* A log in which a run's fills are entered, up to the time t.             *)
(***************************************************************************)
Pos(l, s) == PosOf(l.inc.pos_state, s)

FillsCounted(l, all, t) ==
  /\ Retains(l.mode, l.fills, all)
  /\ l.inc.total_trades = Len(all)
  /\ l.inc.closed_trades \in Nat /\ l.inc.closed_trades <= l.inc.total_trades
  /\ l.inc.total_holding_period \in Nat
  /\ \A s \in Symbols : Pos(l, s) \in LogState /\ Pos(l, s).open <= t

LEMMA PosOfInserted ==
  ASSUME NEW state, NEW k, NEW v, NEW s
  PROVE  PosOf(Insert(state, k, v), s) = IF s = k THEN v ELSE PosOf(state, s)
  BY DEF PosOf, Insert

LEMMA OpenInTime ==
  ASSUME NEW s \in LogState, NEW f \in TradeFill, s.open <= f.ts
  PROVE  PosAfter(s, f).open <= f.ts
<1> DEFINE d == Signed(f.side, f.qty)
<1>1. s.open \in Nat /\ f.ts \in Nat
  BY DEF LogState, TradeFill
<1>2. CASE Ignored(f)
  BY <1>2 DEF PosAfter
<1>3. CASE ~Ignored(f) /\ Adds(s, d)
  <2>1. PosAfter(s, f) = Opened(s, f, d)
    BY <1>3 DEF PosAfter
  <2>2. Opened(s, f, d).open = IF s.qty = 0 THEN f.ts ELSE s.open
    BY DEF Opened
  <2>3. QED
    BY <1>1, <2>1, <2>2
<1>4. CASE ~Ignored(f) /\ ~Adds(s, d)
  <2>1. PosAfter(s, f) = Reduced(s, f, s.qty + d)
    BY <1>4 DEF PosAfter
  <2>2. Reduced(s, f, s.qty + d).open \in {s.open, f.ts}
    BY DEF Reduced, LogState
  <2>3. QED
    BY <1>1, <2>1, <2>2
<1>5. QED
  BY <1>2, <1>3, <1>4

LEMMA FillEntered ==
  ASSUME NEW l, WellFormed(l), ~Off(l), l.mode \in TradeLogMode,
         NEW all \in Seq(TradeFill), NEW f \in TradeFill, FillsCounted(l, all, f.ts)
  PROVE  LET p == PushFill(l, f)
             s == Pos(l, f.symbol)
         IN  /\ WellFormed(p) /\ p.mode = l.mode /\ p.pnl_history = l.pnl_history
             /\ KeepsBut(l.inc, p.inc, FillKeys)
             /\ FillsCounted(p, Append(all, f), f.ts)
             /\ \A x \in Symbols : Pos(p, x) = IF x = f.symbol THEN PosAfter(s, f) ELSE Pos(l, x)
             /\ p.inc.closed_trades
                  = IF GrossPnl(s, f) # 0 THEN l.inc.closed_trades + 1 ELSE l.inc.closed_trades
<1> DEFINE p == PushFill(l, f)
           s == Pos(l, f.symbol)
           n == CountFill(l.inc, f)
           t == f.ts
<1>1. /\ DOMAIN p = {"mode", "fills", "pnl_history", "inc"}
      /\ p.mode = l.mode /\ p.pnl_history = l.pnl_history
      /\ p.fills = Retain(l.mode, l.fills, f) /\ p.inc = n
  BY DEF PushFill, WellFormed
<1>2. /\ KeepsBut(l.inc, n, FillKeys)
      /\ n.total_trades = l.inc.total_trades + 1
      /\ n.total_holding_period = l.inc.total_holding_period + HeldFor(s, f)
      /\ n.closed_trades
           = IF GrossPnl(s, f) # 0 THEN l.inc.closed_trades + 1 ELSE l.inc.closed_trades
      /\ n.pos_state = IF Ignored(f) THEN l.inc.pos_state
                       ELSE Insert(l.inc.pos_state, f.symbol, PosAfter(s, f))
  BY CountedFill DEF WellFormed, Pos
<1>3. /\ f.symbol \in Symbols /\ t \in Nat
      /\ s \in LogState /\ s.open \in Nat /\ s.open <= t
  BY DEF TradeFill, FillsCounted, LogState
<1> HIDE DEF p, n, s, t
<1>4. WellFormed(p) /\ KeepsBut(l.inc, p.inc, FillKeys)
  BY <1>1, <1>2 DEF WellFormed, KeepsBut
<1>5. ASSUME NEW x \in Symbols
      PROVE  Pos(p, x) = IF x = f.symbol THEN PosAfter(s, f) ELSE Pos(l, x)
  <2>1. CASE Ignored(f)
    <3>1. PosAfter(s, f) = s /\ Pos(p, x) = Pos(l, x)
      BY <1>1, <1>2, <2>1 DEF PosAfter, Pos
    <3>2. QED
      BY <3>1 DEF s
  <2>2. CASE ~Ignored(f)
    <3>1. Pos(p, x) = PosOf(Insert(l.inc.pos_state, f.symbol, PosAfter(s, f)), x)
      BY <1>1, <1>2, <2>2 DEF Pos
    <3>2. QED
      BY <3>1, PosOfInserted DEF Pos
  <2>3. QED
    BY <2>1, <2>2
<1>6. \A x \in Symbols : Pos(p, x) \in LogState /\ Pos(p, x).open <= t
  <2>1. PosAfter(s, f) \in LogState /\ PosAfter(s, f).open <= t
    BY <1>3, LogStateType, OpenInTime DEF t
  <2>2. QED
    BY <1>5, <2>1 DEF FillsCounted, t
<1>7. Retains(p.mode, p.fills, Append(all, f))
  BY <1>1, RetainKeepsTheLast DEF FillsCounted
<1>8. p.inc.total_trades = Len(Append(all, f))
  <2>1. Len(Append(all, f)) = Len(all) + 1
    BY AppendProperties
  <2>2. QED
    BY <1>1, <1>2, <2>1 DEF FillsCounted
<1>9. p.inc.closed_trades \in Nat /\ p.inc.closed_trades <= p.inc.total_trades
  <2>1. l.inc.closed_trades \in Nat /\ l.inc.total_trades \in Nat
        /\ l.inc.closed_trades <= l.inc.total_trades
    BY LenProperties DEF FillsCounted
  <2>2. QED
    BY <1>1, <1>2, <2>1
<1>10. p.inc.total_holding_period \in Nat
  <2>1. HeldFor(s, f) \in Nat
    BY <1>3 DEF HeldFor, t
  <2>2. QED
    BY <1>1, <1>2, <2>1 DEF FillsCounted
<1>11. FillsCounted(p, Append(all, f), t)
  BY <1>6, <1>7, <1>8, <1>9, <1>10 DEF FillsCounted
<1>12. p.inc.closed_trades
         = IF GrossPnl(s, f) # 0 THEN l.inc.closed_trades + 1 ELSE l.inc.closed_trades
  BY <1>1, <1>2
<1>13. QED
  BY <1>1, <1>4, <1>5, <1>11, <1>12 DEF p, s, t

(***************************************************************************)
(* A log in which the entries es are counted, up to the time t.            *)
(***************************************************************************)
HistoryOf(es) == [i \in DOMAIN es |-> [ts |-> es[i].ts, pnl |-> es[i].pnl]]

EntriesCounted(l, es, t) ==
  /\ l.pnl_history = HistoryOf(es)
  /\ l.inc.gross_profit \in Nat
  /\ l.inc.gross_loss \in Int /\ l.inc.gross_loss <= 0
  /\ l.inc.win_count \in Nat
  /\ SpreadInRange(l.inc, Len(es))
  /\ DrawdownFollows(l.inc, EquityCurve(l.pnl_history), t)

HistoryType == [ts : Nat, pnl : Int]

LEMMA HistoryGrows ==
  ASSUME NEW es \in Seq(EntryType), NEW e \in EntryType
  PROVE  /\ HistoryOf(es) \in Seq(HistoryType) /\ Len(HistoryOf(es)) = Len(es)
         /\ HistoryOf(Append(es, e)) = Append(HistoryOf(es), [ts |-> e.ts, pnl |-> e.pnl])
<1> DEFINE point(x) == [ts |-> x.ts, pnl |-> x.pnl]
           h == HistoryOf(es)
           more == Append(es, e)
           l == HistoryOf(more)
           r == Append(h, point(e))
<1>1. \A x \in EntryType : point(x) \in HistoryType
  BY DEF EntryType, HistoryType
<1>2. /\ Len(es) \in Nat /\ DOMAIN es = 1 .. Len(es)
      /\ \A i \in 1 .. Len(es) : es[i] \in EntryType
  BY LenProperties, ElementOfSeq
<1>3. /\ Len(more) = Len(es) + 1 /\ DOMAIN more = 1 .. Len(es) + 1
      /\ more[Len(es) + 1] = e /\ \A i \in 1 .. Len(es) : more[i] = es[i]
  BY AppendProperties, LenProperties
<1> HIDE DEF more, point
<1>4. h = [i \in 1 .. Len(es) |-> point(es[i])] /\ l = [i \in 1 .. Len(es) + 1 |-> point(more[i])]
  BY <1>2, <1>3 DEF HistoryOf, point
<1> HIDE DEF h, l
<1>5. h \in Seq(HistoryType) /\ Len(h) = Len(es)
  <2>1. h \in [1 .. Len(es) -> HistoryType]
    BY <1>1, <1>2, <1>4
  <2>2. QED
    BY <1>2, <2>1
<1>6. l \in Seq(HistoryType) /\ Len(l) = Len(es) + 1
  <2>1. \A i \in 1 .. Len(es) + 1 : more[i] \in EntryType
    BY <1>2, <1>3
  <2>2. l \in [1 .. Len(es) + 1 -> HistoryType]
    BY <1>1, <1>4, <2>1
  <2>3. QED
    BY <1>2, <2>2
<1>7. /\ r \in Seq(HistoryType) /\ Len(r) = Len(es) + 1
      /\ r[Len(es) + 1] = point(e) /\ \A i \in 1 .. Len(es) : r[i] = h[i]
  BY <1>1, <1>5, AppendProperties
<1> HIDE DEF r
<1>8. ASSUME NEW i \in 1 .. Len(es) + 1 PROVE l[i] = r[i]
  <2>1. CASE i = Len(es) + 1
    BY <1>2, <1>3, <1>4, <1>7, <2>1
  <2>2. CASE i \in 1 .. Len(es)
    BY <1>2, <1>3, <1>4, <1>7, <2>2
  <2>3. QED
    BY <1>2, <2>1, <2>2
<1>9. l = r
  BY <1>6, <1>7, <1>8, SeqEqual
<1>10. QED
  BY <1>5, <1>9 DEF h, l, r, more, point

LEMMA EntryEntered ==
  ASSUME NEW l, WellFormed(l), ~Off(l), NEW es \in Seq(EntryType), NEW e \in EntryType,
         EntriesCounted(l, es, e.ts)
  PROVE  LET p == PushPnl(l, e.ts, e.pnl, e.trade)
         IN  /\ WellFormed(p) /\ p.mode = l.mode /\ p.fills = l.fills
             /\ KeepsBut(l.inc, p.inc, SumKeys \cup SpreadKeys \cup EquityKeys)
             /\ EntriesCounted(p, Append(es, e), e.ts)
             /\ p.inc.win_count
                  = IF e.trade /\ e.pnl > 0 THEN l.inc.win_count + 1 ELSE l.inc.win_count
<1> DEFINE p    == PushPnl(l, e.ts, e.pnl, e.trade)
           one  == AddToSums(l.inc, e.pnl, e.trade)
           two  == AddToSpread(one, e.pnl)
           last == AddToEquity(two, e.ts, e.pnl)
           hist == l.pnl_history
           more == Append(hist, [ts |-> e.ts, pnl |-> e.pnl])
           curve == EquityCurve(hist)
           point == [ts |-> e.ts, equity |-> EquityOf(curve) + e.pnl]
<1>1. /\ DOMAIN p = {"mode", "fills", "pnl_history", "inc"}
      /\ p.mode = l.mode /\ p.fills = l.fills
      /\ p.pnl_history = more /\ p.inc = last
  BY DEF PushPnl, CountPnl, WellFormed
<1>2. e.ts \in Nat /\ e.pnl \in Int /\ DOMAIN l.inc = StatKeys
  BY DEF EntryType, WellFormed
<1>3. /\ hist = HistoryOf(es) /\ hist \in Seq(HistoryType) /\ Len(hist) = Len(es)
      /\ more = HistoryOf(Append(es, e))
  BY HistoryGrows DEF EntriesCounted
<1>4. curve \in Seq(PointType) /\ Len(curve) = Len(es)
  <2>1. \A x \in HistoryType : x.ts \in Nat /\ x.pnl \in Int
    BY DEF HistoryType
  <2>2. QED
    BY <1>3, <2>1, CurveIsSeq
<1>5. EquityCurve(more) = Append(curve, point)
  <2>1. [ts |-> e.ts, pnl |-> e.pnl] \in HistoryType
    BY <1>2 DEF HistoryType
  <2>2. EquityCurve(more) = NextPoint(curve, [ts |-> e.ts, pnl |-> e.pnl])
    BY <1>3, <2>1, CurveGrows
  <2>3. QED
    BY <2>2 DEF NextPoint, EquityOf
<1> HIDE DEF p, one, two, last, curve, more
<1>6. /\ KeepsBut(l.inc, one, SumKeys)
      /\ one.gross_profit = IF e.trade /\ e.pnl > 0 THEN l.inc.gross_profit + e.pnl
                            ELSE l.inc.gross_profit
      /\ one.gross_loss = IF e.trade /\ e.pnl < 0 THEN l.inc.gross_loss + e.pnl
                          ELSE l.inc.gross_loss
      /\ one.win_count = IF e.trade /\ e.pnl > 0 THEN l.inc.win_count + 1 ELSE l.inc.win_count
  BY <1>2, CountedSums DEF one
<1>7. SpreadInRange(one, Len(es)) /\ DOMAIN one = StatKeys
  BY <1>6 DEF EntriesCounted, SpreadInRange, KeepsBut, StatKeys, FillKeys, SumKeys,
              SpreadKeys, EquityKeys
<1>8. KeepsBut(one, two, SpreadKeys) /\ SpreadInRange(two, Len(es) + 1)
  BY <1>2, <1>7, LenProperties, CountedSpread DEF two
<1>9. /\ DOMAIN two = StatKeys /\ two.pnl_count = Len(curve) + 1
      /\ \A k \in EquityKeys : two[k] = l.inc[k]
  BY <1>4, <1>6, <1>8 DEF SpreadInRange, KeepsBut, StatKeys, FillKeys, SumKeys,
              SpreadKeys, EquityKeys
<1>10. DrawdownFollows(two, curve, e.ts)
  <2>1. DrawdownFollows(l.inc, curve, e.ts)
    BY DEF EntriesCounted, curve
  <2>2. QED
    BY <1>9, <2>1 DEF DrawdownFollows, EquityKeys
<1>11. KeepsBut(two, last, EquityKeys) /\ DrawdownFollows(last, Append(curve, point), e.ts)
  BY <1>2, <1>4, <1>9, <1>10, CountedEquity DEF last
<1> HIDE DEF point
<1>12. KeepsBut(l.inc, last, SumKeys \cup SpreadKeys \cup EquityKeys)
  BY <1>6, <1>8, <1>11 DEF KeepsBut
<1>13. /\ last.gross_profit = one.gross_profit /\ last.gross_loss = one.gross_loss
       /\ last.win_count = one.win_count
  BY <1>8, <1>11 DEF KeepsBut, StatKeys, FillKeys, SumKeys, SpreadKeys, EquityKeys
<1>14. SpreadInRange(last, Len(es) + 1)
  BY <1>8, <1>11 DEF SpreadInRange, KeepsBut, StatKeys, FillKeys, SumKeys, SpreadKeys, EquityKeys
<1>15. /\ last.gross_profit \in Nat /\ last.gross_loss \in Int /\ last.gross_loss <= 0
       /\ last.win_count \in Nat
  BY SMTT(60), <1>2, <1>6, <1>13 DEF EntriesCounted
<1>16. Len(Append(es, e)) = Len(es) + 1
  BY AppendProperties
<1>17. EntriesCounted(p, Append(es, e), e.ts)
  BY <1>1, <1>3, <1>5, <1>11, <1>14, <1>15, <1>16 DEF EntriesCounted
<1>18. WellFormed(p) /\ KeepsBut(l.inc, p.inc, SumKeys \cup SpreadKeys \cup EquityKeys)
  BY <1>1, <1>12 DEF WellFormed, KeepsBut
<1>19. QED
  BY <1>1, <1>6, <1>13, <1>17, <1>18 DEF p
-----------------------------------------------------------------------------
(***************************************************************************)
(* The fills of one event: first all of them go to the log, then each is   *)
(* entered in the account, the guard and the history.                      *)
(***************************************************************************)
FillsAt(t) == {f \in TradeFill : f.ts = t}

LEMMA AllPushed ==
  ASSUME NEW l, WellFormed(l), ~Off(l), l.mode \in TradeLogMode,
         NEW all \in Seq(TradeFill), NEW t \in Nat, FillsCounted(l, all, t),
         NEW made \in Seq(FillsAt(t))
  PROVE  LET p == Pushes!Fold(l, made)
         IN  /\ WellFormed(p) /\ p.mode = l.mode /\ p.pnl_history = l.pnl_history
             /\ KeepsBut(l.inc, p.inc, FillKeys)
             /\ all \o made \in Seq(TradeFill)
             /\ FillsCounted(p, all \o made, t)
<1> DEFINE P(m)   == Pushes!Fold(l, m)
           Fine(m) == /\ WellFormed(P(m)) /\ P(m).mode = l.mode
                      /\ P(m).pnl_history = l.pnl_history
                      /\ KeepsBut(l.inc, P(m).inc, FillKeys)
                      /\ all \o m \in Seq(TradeFill)
                      /\ FillsCounted(P(m), all \o m, t)
           Good    == {m \in Seq(FillsAt(t)) : Fine(m)}
<1>1. <<>> \in Good
  <2>1. P(<<>>) = l
    BY Pushes!FoldOfEmpty
  <2>2. all \o <<>> = all /\ <<>> \in Seq(FillsAt(t))
    BY ConcatEmptySeq, EmptySeq
  <2>3. KeepsBut(l.inc, l.inc, FillKeys)
    BY DEF KeepsBut, WellFormed
  <2>4. QED
    BY <2>1, <2>2, <2>3
<1>2. ASSUME NEW m \in Seq(FillsAt(t)), NEW f \in FillsAt(t), m \in Good
      PROVE  Append(m, f) \in Good
  <2> DEFINE p == P(m)
  <2>1. Fine(m) /\ f \in TradeFill /\ f.ts = t /\ m \in Seq(TradeFill)
    BY <1>2, SeqMonotonic DEF FillsAt
  <2>2. P(Append(m, f)) = PushFill(p, f)
    BY Pushes!FoldOfAppend
  <2>3. all \o Append(m, f) = Append(all \o m, f)
    <3>1. <<f>> \in Seq(TradeFill) /\ Append(m, f) = m \o <<f>>
      BY <2>1, AppendIsConcat
    <3>2. Append(all \o m, f) = (all \o m) \o <<f>>
      BY <2>1, AppendIsConcat
    <3>3. QED
      BY SMTT(60), <2>1, <3>1, <3>2, ConcatAssociative
  <2>4. ~Off(p) /\ p.mode \in TradeLogMode
    BY <2>1 DEF Off
  <2> HIDE DEF p
  <2> DEFINE q == PushFill(p, f)
  <2>5. /\ WellFormed(p) /\ p.mode = l.mode /\ p.pnl_history = l.pnl_history
        /\ KeepsBut(l.inc, p.inc, FillKeys)
        /\ all \o m \in Seq(TradeFill) /\ FillsCounted(p, all \o m, f.ts)
    BY <2>1 DEF p
  <2>6. /\ WellFormed(q) /\ q.mode = p.mode /\ q.pnl_history = p.pnl_history
        /\ KeepsBut(p.inc, q.inc, FillKeys) /\ FillsCounted(q, Append(all \o m, f), t)
    BY <2>1, <2>4, <2>5, FillEntered
  <2>7. KeepsBut(l.inc, q.inc, FillKeys)
    BY <2>5, <2>6 DEF KeepsBut
  <2>8. Append(all \o m, f) \in Seq(TradeFill)
    BY <2>1, <2>5, AppendProperties
  <2> HIDE DEF q
  <2>9. P(Append(m, f)) = q
    BY <2>2 DEF q
  <2>10. Append(m, f) \in Seq(FillsAt(t))
    BY AppendProperties
  <2>11. QED
    BY <2>3, <2>5, <2>6, <2>7, <2>8, <2>9, <2>10
<1> HIDE DEF Good
<1>3. made \in Good
  BY <1>1, <1>2, Pushes!SeqSetInduction
<1>4. QED
  BY <1>3 DEF Good

(***************************************************************************)
(* The books b while a loop enters fills that the log l already has; p is  *)
(* the log with the fills entered so far only.                             *)
(***************************************************************************)
Entered(b, p, l, t) ==
  /\ b.positions \in [Symbols -> Position]
  /\ b.entries \in Seq(EntryType)
  /\ TellsTheCurve(b.guard, b.entries)
  /\ IF Off(l) THEN b.log = l
     ELSE /\ WellFormed(b.log) /\ b.log.mode = l.mode /\ b.log.fills = l.fills
          /\ \A k \in FillKeys : b.log.inc[k] = l.inc[k]
          /\ EntriesCounted(b.log, b.entries, t)
          /\ b.log.inc.win_count <= p.inc.closed_trades
          /\ \A s \in Symbols : Agree(b.positions[s], Pos(p, s))

LEMMA QuotientIsInt ==
  ASSUME NEW n \in Int, NEW d \in Nat \ {0}
  PROVE  Quotient(n, d) \in Int /\ (Quotient(n, d) > 0 => n > 0)
<1>1. Abs(n) \in Nat /\ Sign(n) \in {-1, 0, 1} /\ (n <= 0 => Sign(n) <= 0)
  BY DEF Abs, Sign
<1>2. Abs(n) \div d \in Nat
  BY <1>1, QuotientOfNats
<1> DEFINE a == Abs(n) \div d
           s == Sign(n)
<1>3. Quotient(n, d) = s * a
  BY DEF Quotient
<1> HIDE DEF a, s
<1>4. a \in Nat /\ s \in {-1, 0, 1} /\ (n <= 0 => s <= 0)
  BY <1>1, <1>2 DEF a, s
<1>5. s * a \in Int /\ (s <= 0 => s * a <= 0)
  BY <1>4
<1>6. QED
  BY <1>3, <1>4, <1>5

LEMMA ResultIsInt ==
  ASSUME NEW p \in Position, NEW f \in TradeFill
  PROVE  OnFill(p, f.side, f.qty, f.price).pnl \in Int
<1> DEFINE d == Signed(f.side, f.qty)
           x == Sign(p.qty) * (f.price - p.avg) * Lesser(Abs(p.qty), Abs(d))
<1>1. d \in Int /\ Abs(d) \in Nat /\ f.price \in Nat /\ p.qty \in Int /\ p.avg \in Nat
  BY DeltaOfFill DEF TradeFill, Position
<1> HIDE DEF d
<1>2. Sign(p.qty) \in Int /\ Abs(p.qty) \in Nat /\ Lesser(Abs(p.qty), Abs(d)) \in Nat
  BY <1>1 DEF Sign, Abs, Lesser
<1>3. x \in Int
  BY <1>1, <1>2
<1>4. RealizedPnl(p, d, f.price) = Quotient(x, Scale)
  BY DEF RealizedPnl
<1> HIDE DEF x
<1>5. RealizedPnl(p, d, f.price) \in Int
  BY <1>3, <1>4, ScaleAssumption, QuotientIsInt
<1>6. QED
  BY <1>5 DEF OnFill, d

LEMMA OneEntered ==
  ASSUME config.max_loss \in Int,
         NEW b, NEW p, NEW l, NEW f \in TradeFill, NEW all \in Seq(TradeFill),
         Entered(b, p, l, f.ts),
         ~Off(l) => /\ WellFormed(p) /\ p.mode = l.mode /\ p.mode \in TradeLogMode
                    /\ FillsCounted(p, all, f.ts)
  PROVE  Entered(Enter(b, f), PushFill(p, f), l, f.ts)
<1> DEFINE old  == b.positions[f.symbol]
           done == OnFill(old, f.side, f.qty, f.price)
           net  == done.pnl - f.fee
           e    == Entry(f.ts, net, TRUE)
           n    == Enter(b, f)
           q    == PushFill(p, f)
<1>1. /\ f.symbol \in Symbols /\ f.fee \in Nat /\ f.ts \in Nat
      /\ b.positions \in [Symbols -> Position] /\ old \in Position
      /\ b.entries \in Seq(EntryType)
  BY DEF TradeFill, Entered
<1>2. done.position \in Position /\ done.pnl \in Int /\ net \in Int
  BY <1>1, PositionType, ResultIsInt
<1>3. e \in EntryType /\ e.ts = f.ts /\ e.pnl = net /\ e.trade = TRUE
  BY <1>1, <1>2 DEF Entry, EntryType
<1>4. /\ n.positions = [b.positions EXCEPT ![f.symbol] = done.position]
      /\ n.guard = UpdatePnl(b.guard, config, e.pnl)
      /\ n.log = PushPnl(b.log, f.ts, net, TRUE)
      /\ n.entries = Append(b.entries, e)
  BY <1>3 DEF Enter, PushPnlDelta
<1> HIDE DEF n, e
<1>5. n.positions \in [Symbols -> Position] /\ n.entries \in Seq(EntryType)
  BY <1>1, <1>2, <1>3, <1>4, AppendProperties
<1>6. TellsTheCurve(n.guard, n.entries)
  BY <1>1, <1>3, <1>4, GuardFollows DEF Entered
<1>7. CASE Off(l)
  <2>1. n.log = l
    BY <1>4, <1>7 DEF Entered, PushPnl
  <2>2. QED
    BY <1>5, <1>6, <1>7, <2>1 DEF Entered, n
<1>8. CASE ~Off(l)
  <2>1. /\ WellFormed(b.log) /\ b.log.mode = l.mode /\ b.log.fills = l.fills
        /\ \A k \in FillKeys : b.log.inc[k] = l.inc[k]
        /\ EntriesCounted(b.log, b.entries, f.ts)
        /\ b.log.inc.win_count <= p.inc.closed_trades
        /\ \A s \in Symbols : Agree(b.positions[s], Pos(p, s))
    BY <1>8 DEF Entered
  <2>2. ~Off(b.log) /\ ~Off(p)
    BY <1>8, <2>1 DEF Off
  <2>3. n.log = PushPnl(b.log, e.ts, e.pnl, e.trade)
    BY <1>3, <1>4
  <2>4. /\ WellFormed(n.log) /\ n.log.mode = b.log.mode /\ n.log.fills = b.log.fills
        /\ KeepsBut(b.log.inc, n.log.inc, SumKeys \cup SpreadKeys \cup EquityKeys)
        /\ EntriesCounted(n.log, n.entries, f.ts)
        /\ n.log.inc.win_count = IF net > 0 THEN b.log.inc.win_count + 1
                                 ELSE b.log.inc.win_count
    <3> DEFINE r == PushPnl(b.log, e.ts, e.pnl, e.trade)
    <3>1. EntriesCounted(b.log, b.entries, e.ts)
      BY <1>3, <2>1
    <3>2. /\ WellFormed(r) /\ r.mode = b.log.mode /\ r.fills = b.log.fills
          /\ KeepsBut(b.log.inc, r.inc, SumKeys \cup SpreadKeys \cup EquityKeys)
          /\ EntriesCounted(r, Append(b.entries, e), e.ts)
          /\ r.inc.win_count
               = IF e.trade /\ e.pnl > 0 THEN b.log.inc.win_count + 1 ELSE b.log.inc.win_count
      BY ZenonT(60), <1>1, <1>3, <2>1, <2>2, <3>1, EntryEntered
    <3> HIDE DEF r
    <3>3. n.log = r
      BY <2>3 DEF r
    <3>4. QED
      BY <1>3, <1>4, <3>2, <3>3
  <2>5. \A k \in FillKeys : n.log.inc[k] = l.inc[k]
    BY <2>1, <2>4 DEF KeepsBut, StatKeys, FillKeys, SumKeys, SpreadKeys, EquityKeys
  <2>6. /\ \A x \in Symbols :
             Pos(q, x) = IF x = f.symbol THEN PosAfter(Pos(p, f.symbol), f) ELSE Pos(p, x)
        /\ q.inc.closed_trades = IF GrossPnl(Pos(p, f.symbol), f) # 0
                                 THEN p.inc.closed_trades + 1 ELSE p.inc.closed_trades
    BY <1>8, <2>2, FillEntered
  <2> HIDE DEF q
  <2>7. Pos(p, f.symbol) \in LogState /\ Agree(old, Pos(p, f.symbol))
    BY <1>1, <1>8, <2>1 DEF FillsCounted
  <2>8. ASSUME NEW s \in Symbols PROVE Agree(n.positions[s], Pos(q, s))
    <3>1. CASE s = f.symbol
      <4>1. Agree(done.position, PosAfter(Pos(p, f.symbol), f))
        BY <1>1, <2>7, PositionsStayEqual
      <4>2. n.positions[s] = done.position
        BY <1>1, <1>4, <3>1
      <4>3. QED
        BY <2>6, <3>1, <4>1, <4>2
    <3>2. CASE s # f.symbol
      BY <1>1, <1>4, <2>1, <2>6, <3>2
    <3>3. QED
      BY <3>1, <3>2
  <2>9. n.log.inc.win_count <= q.inc.closed_trades
    <3>1. done.pnl = GrossPnl(Pos(p, f.symbol), f)
      BY <1>1, <2>7, ResultsAreEqual
    <3>2. net > 0 => done.pnl # 0
      BY <1>1, <1>2
    <3>3. b.log.inc.win_count \in Nat /\ p.inc.closed_trades \in Nat
      BY <1>8, <2>1 DEF EntriesCounted, FillsCounted
    <3> HIDE DEF net, done
    <3>4. QED
      BY SMTT(60), <2>1, <2>4, <2>6, <3>1, <3>2, <3>3
  <2>10. QED
    BY <1>5, <1>6, <1>8, <2>1, <2>4, <2>5, <2>8, <2>9 DEF Entered, n, q
<1>9. QED
  BY <1>7, <1>8

LEMMA AllEntered ==
  ASSUME config.max_loss \in Int,
         NEW l, NEW all \in Seq(TradeFill), NEW t \in Nat, NEW made \in Seq(FillsAt(t)),
         ~Off(l) => WellFormed(l) /\ l.mode \in TradeLogMode /\ FillsCounted(l, all, t),
         NEW b, Entered(b, l, Pushes!Fold(l, made), t),
         Off(l) => Pushes!Fold(l, made) = l
  PROVE  Entered(Enters!Fold(b, made), Pushes!Fold(l, made), Pushes!Fold(l, made), t)
<1> DEFINE whole   == Pushes!Fold(l, made)
           Fine(m) == Entered(Enters!Fold(b, m), Pushes!Fold(l, m), whole, t)
           Good    == {m \in Seq(FillsAt(t)) : Fine(m)}
<1>0. Off(l) <=> Off(whole)
  BY AllPushed DEF Off
<1>m. ~Off(l) => whole.mode = l.mode
  BY AllPushed
<1> HIDE DEF whole
<1>1. <<>> \in Good
  <2>1. Enters!Fold(b, <<>>) = b /\ Pushes!Fold(l, <<>>) = l
    BY Enters!FoldOfEmpty, Pushes!FoldOfEmpty
  <2>2. <<>> \in Seq(FillsAt(t))
    BY EmptySeq
  <2>3. QED
    BY <2>1, <2>2 DEF whole
<1>2. ASSUME NEW m \in Seq(FillsAt(t)), NEW f \in FillsAt(t), m \in Good
      PROVE  Append(m, f) \in Good
  <2> DEFINE p == Pushes!Fold(l, m)
             c == Enters!Fold(b, m)
  <2>1. Entered(c, p, whole, t) /\ f \in TradeFill /\ f.ts = t
    BY <1>2 DEF FillsAt
  <2>2. /\ Pushes!Fold(l, Append(m, f)) = PushFill(p, f)
        /\ Enters!Fold(b, Append(m, f)) = Enter(c, f)
    BY Pushes!FoldOfAppend, Enters!FoldOfAppend
  <2>3. ~Off(whole) => /\ WellFormed(p) /\ p.mode = whole.mode /\ p.mode \in TradeLogMode
                       /\ all \o m \in Seq(TradeFill) /\ FillsCounted(p, all \o m, t)
    BY <1>0, <1>m, AllPushed
  <2>4. \E some \in Seq(TradeFill) :
          ~Off(whole) => /\ WellFormed(p) /\ p.mode = whole.mode /\ p.mode \in TradeLogMode
                         /\ FillsCounted(p, some, t)
    BY <2>3
  <2> HIDE DEF p, c
  <2>5. PICK some \in Seq(TradeFill) :
          ~Off(whole) => /\ WellFormed(p) /\ p.mode = whole.mode /\ p.mode \in TradeLogMode
                         /\ FillsCounted(p, some, t)
    BY <2>4
  <2>6. Entered(Enter(c, f), PushFill(p, f), whole, t)
    BY <2>1, <2>5, OneEntered
  <2>7. Append(m, f) \in Seq(FillsAt(t))
    BY AppendProperties
  <2>8. QED
    BY <2>2, <2>6, <2>7
<1> HIDE DEF Good
<1>3. made \in Good
  BY <1>1, <1>2, Pushes!SeqSetInduction
<1>4. QED
  BY <1>3 DEF Good, whole
-----------------------------------------------------------------------------
(***************************************************************************)
(* The inductive invariant: the account, the guard and the history are     *)
(* those of the entries so far, and the log is that of the fills and the   *)
(* entries so far.                                                         *)
(***************************************************************************)
Books == [positions |-> positions, guard |-> guard, log |-> log, entries |-> entries]

BooksInv ==
  /\ config \in Configs
  /\ now \in Nat
  /\ fills \in Seq(TradeFill)
  /\ log.mode = config.log_mode
  /\ Entered(Books, log, log, now)
  /\ IF Off(log) THEN log = NewLog(config.log_mode) ELSE FillsCounted(log, fills, now)

LEMMA ConfigType ==
  ASSUME NEW c \in Configs
  PROVE  c.log_mode \in TradeLogMode /\ c.fee_bps \in Nat /\ c.max_loss \in Int
  BY LedgerAssumption

LEMMA EmptyLog ==
  ASSUME NEW mode \in TradeLogMode
  PROVE  LET l == NewLog(mode)
         IN  /\ WellFormed(l) /\ l.mode = mode /\ FillsCounted(l, <<>>, 0)
             /\ EntriesCounted(l, <<>>, 0) /\ l.inc.win_count = 0 /\ l.inc.closed_trades = 0
             /\ \A s : Pos(l, s) = Flat
<1> DEFINE l == NewLog(mode)
<1>1. /\ DOMAIN l = {"mode", "fills", "pnl_history", "inc"} /\ l.mode = mode
      /\ l.fills = <<>> /\ l.pnl_history = <<>> /\ l.inc = NoStats
  BY DEF NewLog
<1>2. /\ DOMAIN NoStats = StatKeys
      /\ NoStats.total_trades = 0 /\ NoStats.closed_trades = 0
      /\ NoStats.total_holding_period = 0 /\ NoStats.pos_state = <<>>
      /\ NoStats.gross_profit = 0 /\ NoStats.gross_loss = 0 /\ NoStats.win_count = 0
      /\ NoStats.pnl_count = 0 /\ NoStats.pnl_mean = Zero /\ NoStats.pnl_m2 = Zero
      /\ NoStats.downside_sq_sum = 0 /\ NoStats.equity = 0 /\ NoStats.peak_ts = 0
      /\ NoStats.max_drawdown = Zero /\ NoStats.max_drawdown_duration = 0
  BY DEF NoStats, StatKeys, FillKeys, SumKeys, SpreadKeys, EquityKeys
<1> HIDE DEF l
<1>3. \A s : Pos(l, s) = Flat
  <2>1. DOMAIN <<>> = {}
    OBVIOUS
  <2>2. QED
    BY <1>1, <1>2, <2>1 DEF Pos, PosOf
<1>4. Retains(l.mode, l.fills, <<>>)
  <2>1. Len(<<>>) = 0 /\ HeldBy(mode, 0) \in Int /\ HeldBy(mode, 0) <= 0
    BY DEF HeldBy, Lesser, TradeLogMode
  <2>2. LastOf(<<>>, HeldBy(mode, 0)) = <<>>
    BY <2>1, SubSeqEmpty DEF LastOf
  <2>3. QED
    BY <1>1, <2>1, <2>2 DEF Retains
<1>5. FillsCounted(l, <<>>, 0)
  <2>1. Flat \in LogState /\ Flat.open = 0
    BY DEF Flat, LogState
  <2>2. QED
    BY <1>1, <1>2, <1>3, <1>4, <2>1 DEF FillsCounted
<1>6. HistoryOf(<<>>) = <<>>
  BY DEF HistoryOf
<1>7. Zero \in Fraction /\ Zero.num = 0 /\ ~Exceeds(Zero, Zero) /\ ~Exceeds(Zero, All)
  <2>1. Zero \in Fraction /\ Zero.num * 1 = 0 * Zero.den
    BY RatioValue DEF Zero
  <2>2. QED
    BY <2>1, AllAndZero DEF Fraction, Exceeds
<1>8. EquityOf(<<>>) = 0 /\ WorstFall(<<>>, Zero, 0)
  BY DEF EquityOf, WorstFall
<1>9. DrawdownFollows(NoStats, <<>>, 0)
  BY <1>2, <1>7, <1>8 DEF DrawdownFollows
<1>10. EntriesCounted(l, <<>>, 0)
  BY <1>1, <1>2, <1>6, <1>7, <1>9, CurveOfNone DEF EntriesCounted, SpreadInRange
<1>11. QED
  BY <1>1, <1>2, <1>3, <1>5, <1>10 DEF WellFormed, l

LEMMA BooksInit == Init => BooksInv
<1> SUFFICES ASSUME Init PROVE BooksInv
  OBVIOUS
<1>1. /\ config \in Configs /\ now = 0 /\ fills = <<>> /\ entries = <<>>
      /\ positions = [s \in Symbols |-> NoPosition] /\ guard = NewGuard
      /\ log = NewLog(config.log_mode)
  BY DEF Init
<1>2. log.mode = config.log_mode
  BY <1>1 DEF NewLog
<1>3. positions \in [Symbols -> Position]
  BY <1>1 DEF NoPosition, Position
<1>4. TellsTheCurve(guard, entries)
  <2>1. DOMAIN <<>> = {}
    OBVIOUS
  <2>2. QED
    BY <1>1, <2>1, CurveOfNone DEF TellsTheCurve, NewGuard, RiskGuard, EquityOf
<1>5. \A s \in Symbols : Agree(positions[s], Flat)
  BY <1>1 DEF NoPosition, Flat, Agree
<1>6. /\ WellFormed(log) /\ FillsCounted(log, fills, now)
      /\ EntriesCounted(log, entries, now)
      /\ log.inc.win_count <= log.inc.closed_trades
      /\ \A s : Pos(log, s) = Flat
  BY <1>1, ConfigType, EmptyLog
<1>7. Entered(Books, log, log, now)
  BY <1>1, <1>3, <1>4, <1>5, <1>6, EmptySeq DEF Entered, Books
<1>8. QED
  BY <1>1, <1>2, <1>6, <1>7, EmptySeq DEF BooksInv

\* Time passes between two events.
LEMMA CountedLater ==
  ASSUME NEW l, NEW all, NEW es, NEW t \in Nat, NEW u \in Nat, t <= u
  PROVE  /\ FillsCounted(l, all, t) => FillsCounted(l, all, u)
         /\ EntriesCounted(l, es, t) => EntriesCounted(l, es, u)
<1>1. FillsCounted(l, all, t) => FillsCounted(l, all, u)
  BY DEF FillsCounted, LogState
<1>2. ASSUME NEW inc, NEW curve, DrawdownFollows(inc, curve, t)
      PROVE  DrawdownFollows(inc, curve, u)
  <2>1. inc.peak_ts \in Nat /\ inc.peak_ts <= u
    BY <1>2 DEF DrawdownFollows
  <2>2. QED
    BY <1>2, <2>1 DEF DrawdownFollows
<1>3. EntriesCounted(l, es, t) => EntriesCounted(l, es, u)
  BY <1>2 DEF EntriesCounted
<1>4. QED
  BY <1>1, <1>3

\* What is counted of the entries does not depend on the fills' part.
LEMMA EntriesAfterFills ==
  ASSUME NEW l, NEW p, NEW es, NEW t, EntriesCounted(l, es, t),
         p.pnl_history = l.pnl_history, KeepsBut(l.inc, p.inc, FillKeys)
  PROVE  EntriesCounted(p, es, t) /\ p.inc.win_count = l.inc.win_count
<1>1. \A k \in SumKeys \cup SpreadKeys \cup EquityKeys : p.inc[k] = l.inc[k]
  BY DEF KeepsBut, StatKeys, FillKeys, SumKeys, SpreadKeys, EquityKeys
<1>2. DrawdownFollows(p.inc, EquityCurve(p.pnl_history), t)
  <2> DEFINE curve == EquityCurve(l.pnl_history)
  <2>1. DrawdownFollows(l.inc, curve, t)
    BY DEF EntriesCounted
  <2> HIDE DEF curve
  <2>2. DrawdownFollows(p.inc, curve, t)
    BY <1>1, <2>1 DEF DrawdownFollows, EquityKeys
  <2>3. QED
    BY <2>2 DEF curve
<1>3. SpreadInRange(p.inc, Len(es))
  BY <1>1 DEF EntriesCounted, SpreadInRange, SpreadKeys
<1>4. QED
  BY <1>1, <1>2, <1>3 DEF EntriesCounted, SumKeys
LEMMA FillType ==
  ASSUME config \in Configs, NEW t \in Trades, NEW ts \in Nat
  PROVE  Fill(t, ts) \in FillsAt(ts)
<1>1. /\ t.symbol \in Symbols /\ t.side \in Side /\ t.price \in Nat /\ t.qty \in Nat
  BY LedgerAssumption
<1>2. config.fee_bps \in Nat
  BY ConfigType
<1> DEFINE paid == t.price * Abs(t.qty) * config.fee_bps
           unit == Scale * 10000
           fee  == ComputeFee(t.price, t.qty, config.fee_bps)
<1>3. Abs(t.qty) \in Nat
  BY <1>1 DEF Abs
<1>4. paid \in Nat
  BY <1>1, <1>2, <1>3
<1>5. unit \in Nat \ {0}
  BY ScaleAssumption
<1>6. fee = paid \div unit
  BY DEF ComputeFee
<1> HIDE DEF paid, unit, fee
<1>7. fee \in Nat
  BY <1>4, <1>5, <1>6, QuotientOfNats
<1>8. Fill(t, ts) = [symbol |-> t.symbol, side |-> t.side, price |-> t.price, qty |-> t.qty,
                     ts |-> ts, fee |-> fee]
  BY DEF Fill, fee
<1>9. QED
  BY <1>1, <1>7, <1>8 DEF FillsAt, TradeFill

\* What one event's fills do to the books.
LEMMA FillsOfOneEvent ==
  ASSUME BooksInv, config' = config, now' \in Nat, now <= now',
         NEW made \in Seq(FillsAt(now')), EnterFills(made)
  PROVE  BooksInv'
<1> DEFINE after == Pushes!Fold(log, made)
           start == [positions |-> positions, guard |-> guard, entries |-> entries, log |-> after]
           t     == now'
           b     == Enters!Fold(start, made)
<1>1. /\ config \in Configs /\ now \in Nat /\ fills \in Seq(TradeFill)
      /\ log.mode = config.log_mode /\ Entered(Books, log, log, now)
      /\ IF Off(log) THEN log = NewLog(config.log_mode) ELSE FillsCounted(log, fills, now)
  BY DEF BooksInv
<1>2. /\ log.mode \in TradeLogMode /\ config.max_loss \in Int
  BY <1>1, ConfigType
<1>3. /\ positions' = b.positions /\ guard' = b.guard /\ log' = b.log /\ entries' = b.entries
      /\ fills' = fills \o made
  <2>1. FoldLeft(PushFill, log, made) = after
    BY PushesFold
  <2>2. FoldLeft(Enter, start, made) = b
    BY EntersFold
  <2> HIDE DEF after
  <2>3. QED
    BY <2>1, <2>2 DEF EnterFills
<1>4. /\ start.positions = positions /\ start.guard = guard
      /\ start.entries = entries /\ start.log = after
  OBVIOUS
<1>5. fills' \in Seq(TradeFill)
  <2>1. made \in Seq(TradeFill)
    BY SeqMonotonic DEF FillsAt
  <2>2. QED
    BY <1>1, <1>3, <2>1, ConcatProperties
<1>6. Off(log) => after = log
  <2>1. ASSUME Off(log) PROVE after = log
    <3>1. \A x \in {log}, f \in FillsAt(t) : PushFill(x, f) \in {log}
      BY <2>1 DEF PushFill
    <3>2. after \in {log}
      BY <3>1, Pushes!FoldKeeps
    <3>3. QED
      BY <3>2
  <2>2. QED
    BY <2>1
<1>7. ~Off(log) => /\ WellFormed(log) /\ FillsCounted(log, fills, t)
                   /\ WellFormed(after) /\ after.mode = log.mode
                   /\ after.pnl_history = log.pnl_history
                   /\ KeepsBut(log.inc, after.inc, FillKeys)
                   /\ FillsCounted(after, fills', t)
  <2>1. ASSUME ~Off(log) PROVE WellFormed(log) /\ FillsCounted(log, fills, t)
    BY <1>1, <2>1, CountedLater DEF Entered, Books
  <2>2. QED
    BY <1>1, <1>2, <1>3, <2>1, AllPushed
<1> HIDE DEF start
<1>8. Entered(start, log, after, t)
  <2>1. /\ positions \in [Symbols -> Position] /\ entries \in Seq(EntryType)
        /\ TellsTheCurve(guard, entries)
    BY <1>1 DEF Entered, Books
  <2>2. CASE Off(log)
    BY <1>4, <1>6, <2>1, <2>2 DEF Entered
  <2>3. CASE ~Off(log)
    <3>1. /\ EntriesCounted(log, entries, now)
          /\ log.inc.win_count <= log.inc.closed_trades
          /\ \A s \in Symbols : Agree(positions[s], Pos(log, s))
      BY <1>1, <2>3 DEF Entered, Books
    <3>2. EntriesCounted(log, entries, t)
      BY <1>1, <3>1, CountedLater
    <3>3. EntriesCounted(after, entries, t) /\ after.inc.win_count = log.inc.win_count
      BY <1>7, <2>3, <3>2, EntriesAfterFills
    <3>4. ~Off(after)
      BY <1>7, <2>3 DEF Off
    <3> HIDE DEF after, t
    <3>5. QED
      BY <1>4, <1>7, <2>1, <2>3, <3>1, <3>3, <3>4 DEF Entered
  <2>4. QED
    BY <2>2, <2>3
<1>9. Entered(b, after, after, t)
  BY <1>1, <1>2, <1>6, <1>7, <1>8, AllEntered
<1> HIDE DEF b, after
<1>10. b.log.mode = log.mode /\ (Off(log) => b.log = log)
       /\ (~Off(log) => FillsCounted(b.log, fills', t) /\ WellFormed(b.log))
  <2>1. CASE Off(log)
    BY <1>6, <1>9, <2>1 DEF Entered
  <2>2. CASE ~Off(log)
    <3>1. ~Off(after)
      BY <1>7, <2>2 DEF Off
    <3>2. /\ WellFormed(b.log) /\ b.log.mode = after.mode /\ b.log.fills = after.fills
          /\ \A k \in FillKeys : b.log.inc[k] = after.inc[k]
      BY <1>9, <3>1 DEF Entered
    <3>3. FillsCounted(b.log, fills', t)
      BY <1>7, <2>2, <3>2 DEF FillsCounted, Pos, FillKeys
    <3>4. QED
      BY <1>7, <2>2, <3>2, <3>3
  <2>3. QED
    BY <2>1, <2>2
<1>11. Entered(Books', b.log, b.log, t)
  <2>1. /\ Books'.positions = b.positions /\ Books'.guard = b.guard
        /\ Books'.log = b.log /\ Books'.entries = b.entries
    BY <1>3 DEF Books
  <2>2. CASE Off(log)
    BY <1>6, <1>9, <1>10, <2>1, <2>2 DEF Entered
  <2>3. CASE ~Off(log)
    <3>1. ~Off(after) /\ ~Off(b.log)
      BY <1>7, <1>10, <2>3 DEF Off
    <3>2. \A k \in FillKeys : b.log.inc[k] = after.inc[k]
      BY <1>9, <3>1 DEF Entered
    <3>3. b.log.inc.closed_trades = after.inc.closed_trades
          /\ \A s : Pos(b.log, s) = Pos(after, s)
      BY <3>2 DEF FillKeys, Pos
    <3>4. QED
      BY <1>9, <2>1, <3>1, <3>3 DEF Entered
  <2>4. QED
    BY <2>2, <2>3
<1>12. Entered(Books, log, log, now)'
  BY <1>3, <1>11 DEF Entered, TellsTheCurve, Off, t
<1>13. QED
  BY <1>1, <1>3, <1>5, <1>10, <1>12 DEF BooksInv, Off, t
LEMMA TickKeepsBooks == BooksInv /\ TickFills => BooksInv'
<1> SUFFICES ASSUME BooksInv, TickFills PROVE BooksInv'
  OBVIOUS
<1>1. PICK gap \in Gaps, n \in 1 .. Lesser(MaxTickFills, MaxFills - Len(fills)) :
        /\ now' = now + gap
        /\ \E ts \in [1 .. n -> Trades] : EnterFills([i \in 1 .. n |-> Fill(ts[i], now')])
        /\ config' = config
  BY DEF TickFills
<1>2. PICK ts \in [1 .. n -> Trades] : EnterFills([i \in 1 .. n |-> Fill(ts[i], now')])
  BY <1>1
<1>3. /\ gap \in Nat /\ now \in Nat /\ config \in Configs
      /\ now' \in Nat /\ now <= now'
  BY <1>1, LedgerAssumption DEF BooksInv
<1> DEFINE made == [i \in 1 .. n |-> Fill(ts[i], now')]
<1>4. made \in Seq(FillsAt(now'))
  <2>1. \A i \in 1 .. n : Fill(ts[i], now') \in FillsAt(now')
    BY <1>3, FillType
  <2>2. n \in Nat
    BY <1>1
  <2>3. QED
    BY <2>1, <2>2, SeqDef
<1> HIDE DEF made
<1>5. EnterFills(made)
  BY <1>2 DEF made
<1>6. QED
  BY <1>1, <1>3, <1>4, <1>5, FillsOfOneEvent

LEMMA FundingType ==
  ASSUME NEW p \in Position, NEW e \in Fundings
  PROVE  /\ ApplyFunding(p, e.rate, e.mark).pnl \in Int
         /\ ApplyFunding(p, e.rate, e.mark).position \in Position
         /\ ApplyFunding(p, e.rate, e.mark).position.qty = p.qty
         /\ ApplyFunding(p, e.rate, e.mark).position.avg = p.avg
<1> DEFINE pnl == FundingPnl(p, e.rate, e.mark)
<1>1. pnl \in Int
  <2>1. p.qty \in Int /\ e.rate \in Int /\ e.mark \in Int
    BY LedgerAssumption DEF Position
  <2> DEFINE worth == Quotient(p.qty * e.mark, Scale)
  <2>2. worth \in Int
    BY <2>1, ScaleAssumption, QuotientIsInt
  <2>3. pnl = -Quotient(worth * e.rate, Scale)
    BY DEF FundingPnl
  <2> HIDE DEF worth, pnl
  <2>4. worth * e.rate \in Int
    BY <2>1, <2>2
  <2>5. Quotient(worth * e.rate, Scale) \in Int
    BY <2>4, ScaleAssumption, QuotientIsInt
  <2>6. QED
    BY <2>3, <2>5
<1>2. ApplyFunding(p, e.rate, e.mark) = [position |-> [p EXCEPT !.funding = @ + pnl], pnl |-> pnl]
  BY DEF ApplyFunding
<1> HIDE DEF pnl
<1>3. QED
  BY <1>1, <1>2 DEF Position

LEMMA FundingKeepsBooks == BooksInv /\ FundingPayment => BooksInv'
<1> SUFFICES ASSUME BooksInv, FundingPayment PROVE BooksInv'
  OBVIOUS
<1>1. PICK gap \in Gaps, due \in Fundings :
        LET paid == ApplyFunding(positions[due.symbol], due.rate, due.mark)
        IN  /\ now' = now + gap
            /\ positions' = [positions EXCEPT ![due.symbol] = paid.position]
            /\ log' = PushPnlEvent(log, now', paid.pnl)
            /\ guard' = UpdatePnl(guard, config, paid.pnl)
            /\ entries' = Append(entries, Entry(now', paid.pnl, FALSE))
            /\ UNCHANGED <<config, fills>>
  BY DEF FundingPayment
<1> DEFINE paid == ApplyFunding(positions[due.symbol], due.rate, due.mark)
           t    == now'
           e    == Entry(t, paid.pnl, FALSE)
           l    == PushPnl(log, e.ts, e.pnl, e.trade)
<1>2. /\ config \in Configs /\ now \in Nat /\ fills \in Seq(TradeFill)
      /\ log.mode = config.log_mode /\ Entered(Books, log, log, now)
      /\ IF Off(log) THEN log = NewLog(config.log_mode) ELSE FillsCounted(log, fills, now)
  BY DEF BooksInv
<1>3. /\ due.symbol \in Symbols /\ t \in Nat /\ now <= t
      /\ positions \in [Symbols -> Position] /\ entries \in Seq(EntryType)
      /\ TellsTheCurve(guard, entries) /\ config.max_loss \in Int
  BY <1>1, <1>2, LedgerAssumption, ConfigType DEF Entered, Books
<1>4. /\ paid.pnl \in Int /\ paid.position \in Position
      /\ paid.position.qty = positions[due.symbol].qty
      /\ paid.position.avg = positions[due.symbol].avg
  BY <1>3, FundingType
<1> HIDE DEF paid, t
<1>5. e \in EntryType /\ e.ts = t /\ e.pnl = paid.pnl /\ e.trade = FALSE
  BY <1>3, <1>4 DEF Entry, EntryType
<1>6. /\ positions' = [positions EXCEPT ![due.symbol] = paid.position]
      /\ log' = l /\ guard' = UpdatePnl(guard, config, e.pnl)
      /\ entries' = Append(entries, e) /\ config' = config /\ fills' = fills
  BY <1>1, <1>5 DEF PushPnlEvent, paid, t
<1> HIDE DEF e
<1>7. /\ positions' \in [Symbols -> Position] /\ entries' \in Seq(EntryType)
      /\ TellsTheCurve(guard', entries')
  BY <1>3, <1>4, <1>5, <1>6, AppendProperties, GuardFollows
<1>8. \A s \in Symbols : /\ positions'[s].qty = positions[s].qty
                         /\ positions'[s].avg = positions[s].avg
  BY <1>3, <1>4, <1>6
<1>9. CASE Off(log)
  <2>1. log' = log
    BY <1>6, <1>9 DEF PushPnl
  <2>2. Entered(Books, log, log, now)'
    BY <1>6, <1>7, <1>9, <2>1 DEF Entered, Books, Off, TellsTheCurve
  <2>3. QED
    BY <1>2, <1>3, <1>6, <1>9, <2>1, <2>2 DEF BooksInv, Off, t
<1>10. CASE ~Off(log)
  <2>1. /\ WellFormed(log) /\ EntriesCounted(log, entries, now)
        /\ log.inc.win_count <= log.inc.closed_trades
        /\ \A s \in Symbols : Agree(positions[s], Pos(log, s))
        /\ FillsCounted(log, fills, now)
    BY <1>2, <1>10 DEF Entered, Books
  <2>2. EntriesCounted(log, entries, e.ts) /\ FillsCounted(log, fills, t)
    BY <1>2, <1>3, <1>5, <2>1, CountedLater
  <2>3. /\ WellFormed(l) /\ l.mode = log.mode /\ l.fills = log.fills
        /\ KeepsBut(log.inc, l.inc, SumKeys \cup SpreadKeys \cup EquityKeys)
        /\ EntriesCounted(l, Append(entries, e), e.ts)
        /\ l.inc.win_count = IF e.trade /\ e.pnl > 0 THEN log.inc.win_count + 1
                             ELSE log.inc.win_count
    BY <1>3, <1>5, <1>10, <2>1, <2>2, EntryEntered
  <2> HIDE DEF l
  <2>4. \A k \in FillKeys : l.inc[k] = log.inc[k]
    BY <2>3 DEF KeepsBut, StatKeys, FillKeys, SumKeys, SpreadKeys, EquityKeys
  <2>5. FillsCounted(l, fills, t) /\ l.inc.closed_trades = log.inc.closed_trades
        /\ \A s : Pos(l, s) = Pos(log, s)
    BY <2>2, <2>3, <2>4 DEF FillsCounted, Pos, FillKeys
  <2>6. \A s \in Symbols : Agree(positions'[s], Pos(l, s))
    BY <1>8, <2>1, <2>5 DEF Agree
  <2>7. ~Off(l) /\ l.inc.win_count <= l.inc.closed_trades
    BY <1>5, <1>10, <2>1, <2>3, <2>5 DEF Off
  <2>8. EntriesCounted(l, entries', t)
    BY <1>5, <1>6, <2>3
  <2>9. Entered(Books', l, l, t)
    <3>1. /\ Books'.positions = positions' /\ Books'.guard = guard'
          /\ Books'.log = l /\ Books'.entries = entries'
      BY <1>6 DEF Books
    <3>2. QED
      BY <1>7, <2>3, <2>6, <2>7, <2>8, <3>1 DEF Entered
  <2>10. Entered(Books, log, log, now)'
    BY <1>6, <2>9 DEF Entered, TellsTheCurve, Off, t
  <2>11. QED
    BY <1>2, <1>3, <1>6, <1>10, <2>3, <2>5, <2>7, <2>10 DEF BooksInv, Off, t
<1>11. QED
  BY <1>9, <1>10

(***************************************************************************)
(* BooksInv holds in every reachable state of the books.                   *)
(***************************************************************************)
THEOREM BooksCorrect == Spec => []BooksInv
<1>1. BooksInv /\ [Next]_vars => BooksInv'
  <2> SUFFICES ASSUME BooksInv, [Next]_vars PROVE BooksInv'
    OBVIOUS
  <2>1. CASE TickFills
    BY <2>1, TickKeepsBooks
  <2>2. CASE FundingPayment
    BY <2>2, FundingKeepsBooks
  <2>3. CASE UNCHANGED vars
    BY <2>3 DEF vars, BooksInv, Books, Entered, TellsTheCurve, Off, FillsCounted
  <2>4. QED
    BY <2>1, <2>2, <2>3 DEF Next
<1>2. QED
  BY <1>1, BooksInit, PTL DEF Spec

-----------------------------------------------------------------------------
(***************************************************************************)
(* TypeOK of the books: counts bound each other, sums of squares and the   *)
(* drawdown keep their ranges, for any trades, funding, fees and modes.    *)
(***************************************************************************)
THEOREM LedgerTypeCorrect == Spec => []TypeOK
<1>1. BooksInv => TypeOK
  <2> SUFFICES ASSUME BooksInv PROVE TypeOK
    OBVIOUS
  <2>1. /\ config \in Configs /\ log.mode = config.log_mode
        /\ \A s \in Symbols : positions[s] \in Position
        /\ guard \in RiskGuard /\ fills \in Seq(TradeFill) /\ now \in Nat
    BY DEF BooksInv, Entered, Books, TellsTheCurve
  <2>2. log.mode \in TradeLogMode
    BY <2>1, ConfigType
  <2>3. /\ FillsCounted(log, IF Off(log) THEN <<>> ELSE fills, IF Off(log) THEN 0 ELSE now)
        /\ EntriesCounted(log, IF Off(log) THEN <<>> ELSE entries, IF Off(log) THEN 0 ELSE now)
        /\ log.inc.win_count <= log.inc.closed_trades
    <3>1. CASE Off(log)
      BY <2>1, <2>2, <3>1, EmptyLog DEF BooksInv
    <3>2. CASE ~Off(log)
      BY <3>2 DEF BooksInv, Entered, Books
    <3>3. QED
      BY <3>1, <3>2
  <2>4. \A i \in DOMAIN log.fills : log.fills[i].side \in Side
    <3> DEFINE all == IF Off(log) THEN <<>> ELSE fills
               k   == HeldBy(log.mode, Len(all))
    <3>1. all \in Seq(TradeFill) /\ Len(all) \in Nat
      BY <2>1, EmptySeq, LenProperties
    <3>2. log.fills = LastOf(all, k)
      BY <2>3 DEF FillsCounted, Retains
    <3> HIDE DEF all
    <3>3. k \in 0 .. Len(all)
      BY <2>2, <3>1 DEF HeldBy, TradeLogMode, Lesser
    <3> HIDE DEF k
    <3>4. log.fills \in Seq(TradeFill)
      BY <3>1, <3>2, <3>3, LastIsSeq
    <3>5. \A i \in DOMAIN log.fills : log.fills[i] \in TradeFill
      BY <3>4, ElementOfSeq, LenProperties
    <3>6. QED
      BY <3>5 DEF TradeFill
  <2>5. /\ log.inc.closed_trades <= log.inc.total_trades /\ log.inc.total_holding_period >= 0
        /\ log.inc.gross_profit >= 0 /\ log.inc.gross_loss <= 0
        /\ log.inc.pnl_m2.num >= 0 /\ log.inc.downside_sq_sum >= 0
    BY <2>3 DEF FillsCounted, EntriesCounted, SpreadInRange
  <2>6. /\ log.inc.max_drawdown_duration >= 0
        /\ ~Exceeds(log.inc.max_drawdown, Ratio(1, 1)) /\ ~Exceeds(Zero, log.inc.max_drawdown)
    BY <2>3 DEF EntriesCounted, DrawdownFollows, All
  <2>7. QED
    BY <2>1, <2>3, <2>4, <2>5, <2>6 DEF TypeOK
<1>2. QED
  BY <1>1, BooksCorrect, PTL
(***************************************************************************)
(* The account and the log agree on every position after every event.      *)
(***************************************************************************)
THEOREM LedgersAlwaysAgree == Spec => []LedgersAgree
<1>1. BooksInv => LedgersAgree
  BY DEF BooksInv, Entered, Books, LedgersAgree, Logging, Agree, Pos
<1>2. QED
  BY <1>1, BooksCorrect, PTL

(***************************************************************************)
(* A run is killed exactly when its equity was at or below max_loss once.  *)
(***************************************************************************)
THEOREM KilledExactlyAtLoss == Spec => []KilledAtLoss
<1>1. BooksInv => KilledAtLoss
  BY DEF BooksInv, Entered, Books, TellsTheCurve, KilledAtLoss
<1>2. QED
  BY <1>1, BooksCorrect, PTL

(***************************************************************************)
(* The log retains what its mode says: all fills, the last ones of a ring  *)
(* that has room for one, or none, and always every result.                *)
(***************************************************************************)
THEOREM LogRetainsTheLast == Spec => []RetainsTheLast
<1>1. BooksInv => RetainsTheLast
  <2> SUFFICES ASSUME BooksInv PROVE RetainsTheLast
    OBVIOUS
  <2> DEFINE n    == Len(fills)
             kept == HeldBy(config.log_mode, n)
             said == KeptOf(config.log_mode, n)
  <2>1. /\ config \in Configs /\ log.mode = config.log_mode /\ fills \in Seq(TradeFill)
        /\ entries \in Seq(EntryType) /\ n \in Nat
    BY LenProperties DEF BooksInv, Entered, Books
  <2>2. config.log_mode \in TradeLogMode
    BY <2>1, ConfigType
  <2>3. kept \in 0 .. n /\ (HasRoom(config.log_mode) => said = kept)
    BY <2>1, <2>2 DEF HeldBy, KeptOf, HasRoom, TradeLogMode, Lesser
  <2>4. CASE Off(log)
    <3>1. log.fills = <<>> /\ config.log_mode.kind = "None" /\ kept = 0
      BY <2>1, <2>4 DEF BooksInv, NewLog, Off, HeldBy
    <3>2. SubSeq(fills, n - 0 + 1, n) = <<>>
      BY <2>1, SubSeqEmpty
    <3>3. LogLen(log) = 0
      BY <2>1, <3>1 DEF LogLen
    <3>4. QED
      BY <2>3, <2>4, <3>1, <3>2, <3>3 DEF RetainsTheLast, Logging
  <2>5. CASE ~Off(log)
    <3>1. /\ Retains(log.mode, log.fills, fills) /\ log.inc.total_trades = n
          /\ log.pnl_history = HistoryOf(entries)
      BY <2>5 DEF BooksInv, Entered, Books, FillsCounted, EntriesCounted
    <3>2. log.fills = LastOf(fills, kept) /\ Len(log.fills) = kept
      BY <2>1, <2>3, <3>1, LastIsSeq DEF Retains
    <3>3. Series(log) = Results
      BY <3>1 DEF Series, Results, HistoryOf
    <3>4. LogLen(log) = IF config.log_mode.kind = "SummaryOnly" THEN n ELSE kept
      BY <2>1, <3>1, <3>2 DEF LogLen
    <3>5. QED
      BY <2>3, <3>2, <3>3, <3>4 DEF RetainsTheLast, LastOf
  <2>6. QED
    BY <2>4, <2>5
<1>2. QED
  BY <1>1, BooksCorrect, PTL

(***************************************************************************)
(* The drawdown kept entry by entry is the worst fall of the whole curve.  *)
(***************************************************************************)
THEOREM DrawdownIsTheWorst == Spec => []DrawdownIsWorst
<1>1. ASSUME NEW l, DrawdownFollows(l.inc, EquityCurve(l.pnl_history), now), l = log
      PROVE  DrawdownIsWorst
  <2> DEFINE curve == EquityCurve(log.pnl_history)
             falls == {p \in (DOMAIN curve) \X (DOMAIN curve) :
                         /\ p[1] < p[2]
                         /\ curve[p[1]].equity > 0 /\ curve[p[2]].equity < curve[p[1]].equity}
             fall(i, j) == AtMostAll(Ratio(curve[i].equity - curve[j].equity, curve[i].equity))
             worst == {p \in falls : fall(p[1], p[2]) = log.inc.max_drawdown}
  <2>1. WorstFall(curve, log.inc.max_drawdown, log.inc.max_drawdown_duration)
    BY <1>1 DEF DrawdownFollows
  <2>2. DrawdownIsWorst <=>
          IF falls = {}
          THEN log.inc.max_drawdown = Zero /\ log.inc.max_drawdown_duration = 0
          ELSE /\ \A p \in falls : ~Exceeds(fall(p[1], p[2]), log.inc.max_drawdown)
               /\ \E p \in worst :
                    log.inc.max_drawdown_duration = curve[p[2]].ts - curve[p[1]].ts
    BY DEF DrawdownIsWorst
  <2>3. \A i, j \in DOMAIN curve : fall(i, j) = FallAt(curve, i, j)
    BY DEF FallAt, FallFrom
  <2> HIDE DEF curve, fall
  <2>4. \A i, j \in DOMAIN curve : IsFall(curve, i, j) <=> <<i, j>> \in falls
    BY DEF IsFall
  <2>5. \A p \in falls : /\ p[1] \in DOMAIN curve /\ p[2] \in DOMAIN curve
                         /\ IsFall(curve, p[1], p[2])
    BY DEF IsFall
  <2> HIDE DEF falls
  <2>6. CASE falls = {}
    <3>1. ~\E i, j \in DOMAIN curve : IsFall(curve, i, j)
      BY <2>4, <2>6
    <3>2. QED
      BY <2>1, <2>2, <2>6, <3>1 DEF WorstFall
  <2>7. CASE falls # {}
    <3>1. \E i, j \in DOMAIN curve : IsFall(curve, i, j)
      BY <2>5, <2>7
    <3>2. /\ \A i, j \in DOMAIN curve :
               IsFall(curve, i, j) => ~Exceeds(FallAt(curve, i, j), log.inc.max_drawdown)
          /\ \E i, j \in DOMAIN curve :
               /\ IsFall(curve, i, j) /\ FallAt(curve, i, j) = log.inc.max_drawdown
               /\ log.inc.max_drawdown_duration = curve[j].ts - curve[i].ts
      BY <2>1, <3>1 DEF WorstFall
    <3>3. \A p \in falls : ~Exceeds(fall(p[1], p[2]), log.inc.max_drawdown)
      BY <2>3, <2>5, <3>2
    <3>4. PICK i \in DOMAIN curve, j \in DOMAIN curve :
            /\ IsFall(curve, i, j) /\ FallAt(curve, i, j) = log.inc.max_drawdown
            /\ log.inc.max_drawdown_duration = curve[j].ts - curve[i].ts
      BY <3>2
    <3>5. <<i, j>> \in worst
      BY <2>3, <2>4, <3>4
    <3>6. \E p \in worst : log.inc.max_drawdown_duration = curve[p[2]].ts - curve[p[1]].ts
      BY <3>4, <3>5
    <3>7. QED
      BY <2>2, <2>7, <3>3, <3>6
  <2>8. QED
    BY <2>6, <2>7
<1>2. BooksInv => DrawdownIsWorst
  <2> SUFFICES ASSUME BooksInv PROVE DrawdownIsWorst
    OBVIOUS
  <2>1. CASE Off(log)
    <3>1. /\ log = NewLog(config.log_mode) /\ config.log_mode \in TradeLogMode /\ now \in Nat
      BY <2>1, ConfigType DEF BooksInv
    <3>2. EntriesCounted(log, <<>>, now)
      BY <3>1, EmptyLog, CountedLater
    <3>3. QED
      BY <1>1, <3>2 DEF EntriesCounted
  <2>2. CASE ~Off(log)
    BY <1>1, <2>2 DEF BooksInv, Entered, Books, EntriesCounted
  <2>3. QED
    BY <2>1, <2>2
<1>3. QED
  BY <1>2, BooksCorrect, PTL
=============================================================================
