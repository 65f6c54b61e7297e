----------------------------- MODULE FoldTheory -----------------------------
(***************************************************************************)
(* What a fold over a sequence computes, for any operator Op: the loops of *)
(* the code are folds, and what is proved of a loop is proved with the two *)
(* equations of this module and induction over the sequence.               *)
(*                                                                         *)
(* A module that folds with an operator of its own takes an instance of    *)
(* this one, WITH Op <- that operator.  Induction is stated over sets, the *)
(* elements for which a statement holds, and not over predicates.          *)
(* Every instance carries along what this module extends, so it extends no *)
(* more than it needs.                                                     *)
(***************************************************************************)
EXTENDS Sequences, Folds, WellFoundedInduction, TLAPS

CONSTANT Op(_, _)

\* The last place of a set of places: Max of FiniteSetsExt.
Latest(S) == CHOOSE i \in S : \A j \in S : i >= j

\* FoldLeft(Op, b, s) of SequencesExt, by its definition there.
Fold(b, s) ==
  MapThenFoldSet(LAMBDA e, r : Op(r, e), b, LAMBDA i : s[i], LAMBDA S : Latest(S), DOMAIN s)

-----------------------------------------------------------------------------
\* The order of the natural numbers as a set of pairs.
Below == OpToRel(<, Nat)

(***************************************************************************)
(* Induction over the natural numbers.                                     *)
(***************************************************************************)
LEMMA NatSetInduction ==
  ASSUME NEW T, 0 \in T, \A n \in Nat : n \in T => n + 1 \in T
  PROVE  Nat \subseteq T
<1> DEFINE Rest == Nat \ T
<1>1. SUFFICES ASSUME Rest # {} PROVE FALSE
  OBVIOUS
<1>2. IsWellFoundedOn(Below, Nat)
  BY NatLessThanWellFounded DEF Below, OpToRel
<1>3. Rest \subseteq Nat
  OBVIOUS
<1> HIDE DEF Rest
<1>4. PICK x \in Rest : \A y \in Rest : <<y, x>> \notin Below
  BY <1>1, <1>2, <1>3, WFMin
<1>5. x \in Nat /\ x # 0
  BY DEF Rest
<1>6. x - 1 \in Rest
  BY <1>5 DEF Rest
<1>7. <<x - 1, x>> \in Below
  BY <1>5 DEF Below, OpToRel
<1>8. QED
  BY <1>4, <1>6, <1>7

(***************************************************************************)
(* Induction over sequences, which grow at the end.                        *)
(***************************************************************************)
LEMMA SeqSetInduction ==
  ASSUME NEW E, NEW T, <<>> \in T,
         \A s \in Seq(E), e \in E : s \in T => Append(s, e) \in T
  PROVE  Seq(E) \subseteq T
<1> DEFINE Good == {n \in Nat : \A s \in Seq(E) : Len(s) = n => s \in T}
<1>1. 0 \in Good
  OBVIOUS
<1>2. ASSUME NEW n \in Nat, n \in Good PROVE n + 1 \in Good
  <2>1. SUFFICES ASSUME NEW s \in Seq(E), Len(s) = n + 1 PROVE s \in T
    OBVIOUS
  <2>2. s # <<>>
    BY <2>1
  <2>3. PICK front \in Seq(E), e \in E : s = Append(front, e)
    <3> DEFINE most == [i \in 1 .. n |-> s[i]]
    <3>1. most \in Seq(E) /\ Len(most) = n /\ s[n + 1] \in E
      BY <2>1
    <3>2. s = Append(most, s[n + 1])
      <4>1. /\ Append(most, s[n + 1]) \in Seq(E) /\ Len(Append(most, s[n + 1])) = n + 1
            /\ \A i \in 1 .. n : Append(most, s[n + 1])[i] = most[i]
            /\ Append(most, s[n + 1])[n + 1] = s[n + 1]
        BY <3>1
      <4>2. \A i \in 1 .. n + 1 : Append(most, s[n + 1])[i] = s[i]
        BY <4>1
      <4>3. QED
        BY <2>1, <4>1, <4>2
    <3>3. QED
      BY <3>1, <3>2
  <2>4. Len(front) = n
    BY <2>1, <2>3
  <2>5. QED
    BY <1>2, <2>3, <2>4
<1> HIDE DEF Good
<1>3. Nat \subseteq Good
  BY <1>1, <1>2, NatSetInduction
<1>4. QED
  BY <1>3 DEF Good

-----------------------------------------------------------------------------
LEMMA MaxOfInterval ==
  ASSUME NEW n \in Nat, NEW S, S \subseteq 1 .. n, n \in S
  PROVE  Latest(S) = n
<1>1. \A y \in S : y \in Nat /\ n >= y
  OBVIOUS
<1>2. Latest(S) \in S /\ \A y \in S : Latest(S) >= y
  BY <1>1 DEF Latest
<1> DEFINE m == Latest(S)
<1>3. m \in S /\ \A y \in S : m >= y
  BY <1>2
<1> HIDE DEF m
<1>4. m \in Nat /\ n >= m /\ m >= n
  BY <1>1, <1>3
<1>5. m = n
  BY <1>4
<1>6. QED
  BY <1>5 DEF m

LEMMA IntervalSteps ==
  ASSUME NEW n \in Nat
  PROVE  /\ 1 .. 0 = {} /\ 1 .. n + 1 # {}
         /\ (1 .. n + 1) \ {n + 1} = 1 .. n
         /\ (1 .. n + 1) \ {Latest(1 .. n + 1)} = 1 .. n
         /\ Latest(1 .. n + 1) = n + 1
<1>1. n + 1 \in 1 .. n + 1
  OBVIOUS
<1>2. Latest(1 .. n + 1) = n + 1
  BY <1>1, MaxOfInterval
<1>3. (1 .. n + 1) \ {n + 1} = 1 .. n
  <2>1. \A x : x \in (1 .. n + 1) \ {n + 1} <=> x \in 1 .. n
    OBVIOUS
  <2>2. QED
    BY <2>1, Zenon
<1>4. QED
  BY <1>1, <1>2, <1>3

-----------------------------------------------------------------------------
(***************************************************************************)
(* FoldLeft picks its value from a table over the sets of places, in which *)
(* the entry of a set comes from the one without the last place.           *)
(***************************************************************************)
Row(g, b, s, S) == IF S = {} THEN b ELSE Op(g[S \ {Latest(S)}], s[Latest(S)])

IsTable(g, b, s, n) == g = [S \in SUBSET (1 .. n) |-> Row(g, b, s, S)]

LEMMA TableExtends ==
  ASSUME NEW b, NEW s, NEW n \in Nat, NEW g, IsTable(g, b, s, n)
  PROVE  \E k : IsTable(k, b, s, n + 1)
<1> DEFINE value(S) == IF n + 1 \in S THEN Op(g[S \ {n + 1}], s[n + 1]) ELSE g[S]
           k == [S \in SUBSET (1 .. n + 1) |-> value(S)]
<1>1. \A S \in SUBSET (1 .. n) : g[S] = Row(g, b, s, S)
  BY DEF IsTable
<1>2. ASSUME NEW S \in SUBSET (1 .. n + 1)
      PROVE  S \ {n + 1} \in SUBSET (1 .. n) /\ (n + 1 \notin S => S \in SUBSET (1 .. n))
  BY IntervalSteps
<1>3. \A S \in SUBSET (1 .. n + 1) : k[S] = value(S)
  OBVIOUS
<1>4. k = [S \in SUBSET (1 .. n + 1) |-> k[S]]
  OBVIOUS
<1> HIDE DEF k
<1>5. ASSUME NEW S \in SUBSET (1 .. n + 1) PROVE k[S] = Row(k, b, s, S)
  <2>1. CASE n + 1 \in S
    <3>1. Latest(S) = n + 1
      <4>1. n + 1 \in Nat /\ S \subseteq 1 .. n + 1
        OBVIOUS
      <4>2. QED
        BY <2>1, <4>1, MaxOfInterval
    <3>2. k[S \ {n + 1}] = g[S \ {n + 1}]
      <4>1. n + 1 \notin S \ {n + 1} /\ S \ {n + 1} \in SUBSET (1 .. n + 1)
        OBVIOUS
      <4>2. QED
        BY <1>3, <4>1
    <3>3. k[S] = Op(g[S \ {n + 1}], s[n + 1]) /\ S # {}
      BY <1>3, <2>1
    <3>4. QED
      BY <3>1, <3>2, <3>3 DEF Row
  <2>2. CASE n + 1 \notin S
    <3>1. k[S] = g[S] /\ S \in SUBSET (1 .. n)
      BY <1>2, <1>3, <2>2
    <3>2. n + 1 \notin S \ {Latest(S)} /\ S \ {Latest(S)} \in SUBSET (1 .. n + 1)
      BY <2>2
    <3>3. k[S \ {Latest(S)}] = g[S \ {Latest(S)}]
      BY <1>3, <3>2
    <3>4. g[S] = Row(g, b, s, S)
      BY <1>1, <3>1
    <3>5. QED
      BY <3>1, <3>3, <3>4 DEF Row
  <2>3. QED
    BY <2>1, <2>2
<1>6. IsTable(k, b, s, n + 1)
  BY <1>4, <1>5 DEF IsTable
<1>7. QED
  BY <1>6

LEMMA TableExists ==
  ASSUME NEW b, NEW s, NEW n \in Nat
  PROVE  \E g : IsTable(g, b, s, n)
<1> DEFINE Good == {m \in Nat : \E g : IsTable(g, b, s, m)}
<1>1. 0 \in Good
  <2> DEFINE g == [S \in SUBSET (1 .. 0) |-> b]
  <2>1. ASSUME NEW S \in SUBSET (1 .. 0) PROVE S = {}
    BY IntervalSteps
  <2>2. ASSUME NEW S \in SUBSET (1 .. 0) PROVE b = Row(g, b, s, S)
    BY <2>1 DEF Row
  <2>3. IsTable(g, b, s, 0)
    <3> HIDE DEF g
    <3>1. g = [S \in SUBSET (1 .. 0) |-> b]
      BY DEF g
    <3>2. QED
      BY <2>2, <3>1 DEF IsTable
  <2>4. QED
    BY <2>3
<1>2. ASSUME NEW m \in Nat, m \in Good PROVE m + 1 \in Good
  BY <1>2, TableExtends
<1> HIDE DEF Good
<1>3. n \in Good
  BY <1>1, <1>2, NatSetInduction
<1>4. QED
  BY <1>3 DEF Good

\* Both sequences have the same first m elements.
SameStart(s, t, m) == \A i \in 1 .. m : s[i] = t[i]

LEMMA TablesAgree ==
  ASSUME NEW b, NEW s, NEW t, NEW l \in Nat, NEW r \in Nat, NEW g, NEW k,
         IsTable(g, b, s, l), IsTable(k, b, t, r),
         NEW m \in Nat, m <= l, m <= r, SameStart(s, t, m)
  PROVE  k[1 .. m] = g[1 .. m]
<1> DEFINE Good == {n \in Nat : n <= m => k[1 .. n] = g[1 .. n]}
<1>0. /\ \A S \in SUBSET (1 .. l) : g[S] = Row(g, b, s, S)
      /\ \A S \in SUBSET (1 .. r) : k[S] = Row(k, b, t, S)
  BY DEF IsTable
<1>1. 0 \in Good
  <2>1. 1 .. 0 = {}
    BY IntervalSteps
  <2>2. g[{}] = b /\ k[{}] = b
    BY <1>0 DEF Row
  <2>3. QED
    BY <2>1, <2>2
<1>2. ASSUME NEW n \in Nat, n \in Good PROVE n + 1 \in Good
  <2>1. SUFFICES ASSUME n + 1 <= m PROVE k[1 .. n + 1] = g[1 .. n + 1]
    OBVIOUS
  <2>2. k[1 .. n] = g[1 .. n]
    BY <1>2, <2>1
  <2> DEFINE S == 1 .. n + 1
  <2>3. S \in SUBSET (1 .. l) /\ S \in SUBSET (1 .. r)
    BY <2>1
  <2>4. S # {} /\ Latest(S) = n + 1 /\ S \ {Latest(S)} = 1 .. n
    BY IntervalSteps
  <2>5. s[n + 1] = t[n + 1]
    BY <2>1 DEF SameStart
  <2> HIDE DEF S
  <2>6. g[S] = Row(g, b, s, S) /\ k[S] = Row(k, b, t, S)
    BY <1>0, <2>3
  <2>7. k[S] = g[S]
    BY <2>2, <2>4, <2>5, <2>6 DEF Row
  <2>8. QED
    BY <2>7 DEF S
<1> HIDE DEF Good
<1>3. m \in Good
  BY <1>1, <1>2, NatSetInduction
<1>4. QED
  BY <1>3 DEF Good

LEMMA FoldIsTable ==
  ASSUME NEW b, NEW s, NEW n \in Nat, DOMAIN s = 1 .. n
  PROVE  \E g : IsTable(g, b, s, n) /\ Fold(b, s) = g[1 .. n]
<1> DEFINE g == CHOOSE g : IsTable(g, b, s, n)
<1>1. IsTable(g, b, s, n)
  BY TableExists
<1>2. Fold(b, s) = g[1 .. n]
  BY DEF Fold, MapThenFoldSet, IsTable, Row
<1>3. QED
  BY <1>1, <1>2

-----------------------------------------------------------------------------
(***************************************************************************)
(* A loop that does not run changes nothing.                               *)
(***************************************************************************)
THEOREM FoldOfEmpty ==
  ASSUME NEW b
  PROVE  Fold(b, <<>>) = b
<1>1. DOMAIN <<>> = 1 .. 0
  OBVIOUS
<1>2. PICK g : IsTable(g, b, <<>>, 0) /\ Fold(b, <<>>) = g[1 .. 0]
  BY <1>1, FoldIsTable
<1>3. g[{}] = Row(g, b, <<>>, {})
  BY <1>2 DEF IsTable
<1>4. QED
  BY <1>2, <1>3, IntervalSteps DEF Row

(***************************************************************************)
(* The last turn of a loop works on what the ones before left.             *)
(***************************************************************************)
THEOREM FoldOfAppend ==
  ASSUME NEW b, NEW E, NEW s \in Seq(E), NEW e \in E
  PROVE  Fold(b, Append(s, e)) = Op(Fold(b, s), e)
<1> DEFINE t == Append(s, e)
           n == Len(s)
           S == 1 .. n + 1
<1>1. /\ n \in Nat /\ DOMAIN s = 1 .. n /\ DOMAIN t = S
      /\ t[n + 1] = e /\ \A i \in 1 .. n : s[i] = t[i]
  OBVIOUS
<1> HIDE DEF t, n
<1>2. PICK g : IsTable(g, b, s, n) /\ Fold(b, s) = g[1 .. n]
  BY <1>1, FoldIsTable
<1>3. PICK k : IsTable(k, b, t, n + 1) /\ Fold(b, t) = k[S]
  BY <1>1, FoldIsTable
<1>4. SameStart(s, t, n)
  BY <1>1 DEF SameStart
<1>5. k[1 .. n] = g[1 .. n]
  BY <1>1, <1>2, <1>3, <1>4, TablesAgree
<1>6. S # {} /\ Latest(S) = n + 1 /\ S \ {Latest(S)} = 1 .. n
  BY <1>1, IntervalSteps
<1>7. k[S] = Row(k, b, t, S)
  BY <1>3 DEF IsTable
<1> HIDE DEF S
<1>8. k[S] = Op(k[1 .. n], e)
  BY <1>1, <1>6, <1>7 DEF Row
<1>9. QED
  BY <1>2, <1>3, <1>5, <1>8 DEF t

(***************************************************************************)
(* What every turn keeps, the loop keeps.                                  *)
(***************************************************************************)
THEOREM FoldKeeps ==
  ASSUME NEW E, NEW T, NEW b \in T, NEW s \in Seq(E),
         \A x \in T, e \in E : Op(x, e) \in T
  PROVE  Fold(b, s) \in T
<1> DEFINE Good == {t \in Seq(E) : Fold(b, t) \in T}
<1>1. <<>> \in Good
  BY FoldOfEmpty
<1>2. ASSUME NEW t \in Seq(E), NEW e \in E, t \in Good PROVE Append(t, e) \in Good
  BY <1>2, FoldOfAppend
<1> HIDE DEF Good
<1>3. s \in Good
  BY <1>1, <1>2, SeqSetInduction
<1>4. QED
  BY <1>3 DEF Good

(***************************************************************************)
(* A loop can be interrupted and taken up again.                           *)
(***************************************************************************)
THEOREM FoldOfConcat ==
  ASSUME NEW b, NEW E, NEW s \in Seq(E), NEW t \in Seq(E)
  PROVE  Fold(b, s \o t) = Fold(Fold(b, s), t)
<1> DEFINE Good == {r \in Seq(E) : Fold(b, s \o r) = Fold(Fold(b, s), r)}
<1>1. <<>> \in Good
  BY FoldOfEmpty
<1>2. ASSUME NEW r \in Seq(E), NEW e \in E, r \in Good PROVE Append(r, e) \in Good
  <2>1. s \o Append(r, e) = Append(s \o r, e)
    OBVIOUS
  <2>2. s \o r \in Seq(E)
    OBVIOUS
  <2>3. Fold(b, Append(s \o r, e)) = Op(Fold(b, s \o r), e)
    BY ZenonT(60), <2>2, FoldOfAppend
  <2>4. Fold(Fold(b, s), Append(r, e)) = Op(Fold(Fold(b, s), r), e)
    BY FoldOfAppend
  <2>5. Append(r, e) \in Seq(E) /\ Fold(b, s \o r) = Fold(Fold(b, s), r)
    BY <1>2
  <2>6. Fold(b, s \o Append(r, e)) = Fold(Fold(b, s), Append(r, e))
    BY <2>1, <2>3, <2>4, <2>5
  <2>7. QED
    BY <2>5, <2>6
<1> HIDE DEF Good
<1>3. t \in Good
  BY <1>1, <1>2, SeqSetInduction
<1>4. QED
  BY <1>3 DEF Good
=============================================================================
